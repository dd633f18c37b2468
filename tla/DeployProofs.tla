---------------------------- MODULE DeployProofs ----------------------------
(***************************************************************************)
(* Proofs about Deploy: which workers a run starts, hands to the           *)
(* coordinator and cleans up, for any list of hosts, number of workers,    *)
(* limit on parallel commands and faults.                                  *)
(***************************************************************************)
EXTENDS Deploy, FiniteSetTheorems, TLAPS

-----------------------------------------------------------------------------
(* The inductive invariant *)

Activating == pc \in {"preflight", "start", "echo", "health", "undo"}

\* The start command has been sent to cur.
Started == pc \in {"echo", "health", "undo"}

Untouched(h) == job[h] = "idle" /\ h \notin active \cup touched \cup cleaned

\* The hosts that were never tried: the rest of the list, then the spares.
Untried ==
    IF ~InStartup THEN spares
    ELSE {h \in Hosts : ~cleanupOnly /\ (h > next \/ (h = next /\ ~Started))}

\* What run() has gone through by the time it is at pc.
Phases ==
    /\ Activating => cur \notin spares \cup active \cup touched
    /\ Activating /\ InStartup => cur = next
    /\ InStartup => spares = {} /\ pc # "job"
    /\ ~InStartup => pc \notin {"flag", "stage", "startup"} /\ active \subseteq touched /\ Cardinality(active) = Target
    /\ cleanupOnly => pc \in {"flag", "clean", "exit"} /\ InStartup /\ active = {}
    /\ InStartup /\ pc \in {"flag", "clean"} => cleanupOnly
    /\ pc \in {"flag", "stage"} => cleaned = {} /\ active = {}

\* A host that was not tried has nothing of this run on it.
Cold ==
    /\ \A h \in Untried : Untouched(h)
    /\ pc \in {"preflight", "start"} => Untouched(cur)
    /\ cleanupOnly \/ pc = "stage" => \A h \in Hosts : job[h] = "idle"

\* A host with a worker of this run is accounted for, and the clean-up has
\* every host it is given before it, at hand or behind it.
Accounts ==
    /\ \A h \in Hosts : job[h] # "idle" =>
         h \in cleaned \cup startErrs \cup active \cup touched \/ (Started /\ h = cur)
    /\ pc = "clean" => touched \subseteq cleaned \cup rest \cup running
    /\ pc = "clean" => rest \cup running \subseteq touched \/ cleanupOnly
    /\ pc = "clean" /\ cleanupOnly => Hosts \subseteq cleaned \cup rest \cup running
    /\ pc = "exit" => touched \subseteq cleaned /\ (cleanupOnly => Hosts \subseteq cleaned)

\* What is behind a host's port and in its PID file.
Ports ==
    /\ \A h \in Hosts : job[h] # "idle" => pidFile[h] # "old" \/ (pc = "echo" /\ h = cur)
    /\ pc \in {"start", "echo", "health"} =>
         occupant[cur] = "none" \/ (nfsDeploy /\ ~InStartup)
    /\ ReadyRunOurs
    /\ cleanupOnly => \A h \in Hosts : occupant[h] = "old" => pidFile[h] = "old"
    /\ cleanupOnly /\ faults = 0 => \A h \in cleaned : occupant[h] # "old"

DInv == DTypeOK /\ Phases /\ Cold /\ Accounts /\ Ports

-----------------------------------------------------------------------------
(* Types *)

\* The constants are numbers.
LEMMA Numbers == NumHosts \in Nat \ {0} /\ Target \in 1 .. NumHosts /\ MaxFaults \in Nat
BY DeployAssumption DEF Hosts

\* There is always a place in the semaphore.
LEMMA SizeType ==
    ASSUME NEW items \in SUBSET Hosts, NEW limit \in Limits
    PROVE  NormalizeParallelism(limit, Cardinality(items)) \in Nat \ {0}
<1>1. IsFiniteSet(Hosts) BY Numbers, FS_Interval DEF Hosts
<1>2. IsFiniteSet(items) BY <1>1, FS_Subset
<1>3. Cardinality(items) \in Nat
  BY <1>2, FS_CardinalityType
<1>4. limit \in Int /\ DefaultParallelism \in Nat \ {0} BY DeployAssumption,
      ParallelismAssumption
<1> QED BY <1>3, <1>4 DEF NormalizeParallelism

\* An activation ends back in the loop or in the job.
LEMMA ReturnType ==
    ASSUME DTypeOK, Phases, Activating, Return
    PROVE  /\ cur' = NoHost /\ pc' \in {"startup", "job"}
           /\ next' \in 1 .. (NumHosts + 1)
           /\ InStartup <=> pc' = "startup"
BY Numbers DEF DTypeOK, Phases, Activating, Return, NextHost, Hosts

\* The clean-up command keeps the types of what is on a host.
LEMMA CleanUpType ==
    ASSUME DTypeOK, NEW h \in Hosts, CleanUp(h)
    PROVE  /\ occupant' \in [Hosts -> {"none", "old", "foreign"}]
           /\ pidFile' \in [Hosts -> {"none", "old", "job"}]
           /\ job' \in [Hosts -> {"idle", "kill", "clear", "launch", "up", "dead"}]
BY DEF DTypeOK, CleanUp

\* Types are kept.
LEMMA TypeStep == ASSUME DInv, [Next]_vars PROVE DTypeOK'
<1> USE Numbers DEF DInv, DTypeOK, Phases, Activating, Started, InStartup, Hosts, NoHost,
      machineVars, listVars, cleanVars,
          boundedVars, flags, vars, ListEnd, Fault, Return, NextHost, CleanUp, Launch, Finish,
                Call, Returned
<1>1. CASE Stage BY <1>1 DEF Stage
<1>2. CASE StageFails BY <1>2 DEF StageFails
<1>3. CASE NotStaged BY <1>3 DEF NotStaged
<1>4. CASE TryHost BY <1>4 DEF TryHost
<1>5. CASE Deployed BY <1>5 DEF Deployed, SparesFromNext
<1>6. CASE TooFew BY <1>6 DEF TooFew
<1>7. CASE Preflight BY <1>7 DEF Preflight
<1>8. CASE NotStarted BY <1>8 DEF NotStarted
<1>9. CASE SendStart BY <1>9 DEF SendStart
<1>10. CASE Echo BY <1>10 DEF Echo
<1>11. CASE EchoFails BY <1>11 DEF EchoFails
<1>12. CASE Ready
  <2>1. Activating /\ cur \in Hosts BY <1>12 DEF Ready
  <2>2. next' \in 1 .. (NumHosts + 1) /\ pc' \in {"startup", "job"} /\ cur' = NoHost
    BY <1>12, <2>1, ReturnType DEF Ready
  <2> QED BY <1>12, <2>1, <2>2 DEF Ready
<1>13. CASE NotReady BY <1>13 DEF NotReady
<1>14. CASE Undo
  <2>1. Activating /\ cur \in Hosts BY <1>14 DEF Undo
  <2>2. next' \in 1 .. (NumHosts + 1) /\ pc' \in {"startup", "job"} /\ cur' = NoHost
    BY <1>14, <2>1, ReturnType DEF Undo
  <2>3. CleanUp(cur) \/ UNCHANGED machineVars BY <1>14 DEF Undo
  <2>4. CASE UNCHANGED machineVars BY <1>14, <2>1, <2>2, <2>4 DEF Undo
  <2>5. CASE CleanUp(cur)
    <3>1. /\ occupant' \in [Hosts -> {"none", "old", "foreign"}]
          /\ pidFile' \in [Hosts -> {"none", "old", "job"}]
          /\ job' \in [Hosts -> {"idle", "kill", "clear", "launch", "up", "dead"}]
      BY <2>1, <2>5, CleanUpType
    <3>2. /\ UNCHANGED <<flags, active, spares, touched, boundedVars, startErrs>>
          /\ faults' \in 0 .. MaxFaults
          /\ cleaned' = cleaned \cup {cur}
      BY <1>14, <2>5 DEF Undo
    <3> QED BY <2>1, <2>2, <3>1, <3>2
  <2> QED BY <2>3, <2>4, <2>5
<1>15. CASE EndJob BY <1>15, SizeType DEF EndJob, HostsForCleanup
<1>16. CASE CleanupOnly BY <1>16, SizeType DEF CleanupOnly
<1>17. CASE Exit BY <1>17 DEF Exit
<1>18. ASSUME NEW h \in Hosts, ClaimSpare(h) PROVE DTypeOK'
  BY <1>18 DEF ClaimSpare
<1>19. ASSUME NEW h \in Hosts, StartVisit(h) PROVE DTypeOK'
  BY <1>19 DEF StartVisit
<1>20. ASSUME NEW h \in Hosts, Visit(h) PROVE DTypeOK'
  <2>1. CleanUp(h) \/ UNCHANGED machineVars BY <1>20 DEF Visit
  <2>2. CASE UNCHANGED machineVars BY <1>20, <2>2 DEF Visit
  <2>3. CASE CleanUp(h) BY <1>20, <2>3, CleanUpType DEF Visit
  <2> QED BY <2>1, <2>2, <2>3
<1>21. ASSUME NEW h \in Hosts, JobKill(h) PROVE DTypeOK'
  BY <1>21 DEF JobKill
<1>22. ASSUME NEW h \in Hosts, JobClear(h) PROVE DTypeOK'
  BY <1>22 DEF JobClear
<1>23. ASSUME NEW h \in Hosts, JobLaunch(h) PROVE DTypeOK'
  BY <1>23 DEF JobLaunch
<1>24. CASE UNCHANGED vars BY <1>24
<1> QED BY <1>1, <1>2, <1>3, <1>4, <1>5, <1>6, <1>7, <1>8, <1>9, <1>10, <1>11, <1>12,
       <1>13, <1>14, <1>15, <1>16, <1>17, <1>18, <1>19, <1>20, <1>21, <1>22, <1>23, <1>24
       DEF Next, Startup, Activation, Ending, Background, Terminated

\* The phases follow each other.
LEMMA PhasesStep == ASSUME DInv, [Next]_vars PROVE Phases'
<1> USE Numbers DEF DInv, DTypeOK, Phases, Activating, Started, InStartup, Hosts, NoHost,
      machineVars, listVars, cleanVars,
          boundedVars, flags, vars, ListEnd, Fault, Return, NextHost, CleanUp, Launch, Finish,
                Call, Returned, SparesFromNext
<1>1. CASE Stage BY <1>1 DEF Stage
<1>2. CASE StageFails BY <1>2 DEF StageFails
<1>3. CASE NotStaged BY <1>3 DEF NotStaged
<1>4. CASE TryHost BY <1>4 DEF TryHost, Cold, Untouched, Untried
<1>5. CASE Deployed
  <2>1. Cardinality({}) = 0 BY FS_EmptySet
  <2>2. Cardinality(active) # 0 BY <1>5 DEF Deployed
  <2>3. active # {} BY ONLY <2>1, <2>2, Zenon
  <2> QED BY <1>5, <2>3 DEF Deployed
<1>6. CASE TooFew BY <1>6 DEF TooFew
<1>7. CASE Preflight BY <1>7 DEF Preflight
<1>8. CASE NotStarted BY <1>8 DEF NotStarted
<1>9. CASE SendStart BY <1>9 DEF SendStart
<1>10. CASE Echo BY <1>10 DEF Echo
<1>11. CASE EchoFails BY <1>11 DEF EchoFails
<1>12. CASE Ready BY <1>12 DEF Ready
<1>13. CASE NotReady BY <1>13 DEF NotReady
<1>14. CASE Undo BY <1>14 DEF Undo
<1>15. CASE EndJob BY <1>15 DEF EndJob
<1>16. CASE CleanupOnly BY <1>16 DEF CleanupOnly
<1>17. CASE Exit BY <1>17 DEF Exit
<1>18. ASSUME NEW h \in Hosts, ClaimSpare(h) PROVE Phases'
  BY <1>18 DEF ClaimSpare, Cold, Untouched, Untried
<1>19. ASSUME NEW h \in Hosts, StartVisit(h) PROVE Phases'
  BY <1>19 DEF StartVisit
<1>20. ASSUME NEW h \in Hosts, Visit(h) PROVE Phases'
  BY <1>20 DEF Visit
<1>21. ASSUME NEW h \in Hosts, JobKill(h) PROVE Phases'
  BY <1>21 DEF JobKill
<1>22. ASSUME NEW h \in Hosts, JobClear(h) PROVE Phases'
  BY <1>22 DEF JobClear
<1>23. ASSUME NEW h \in Hosts, JobLaunch(h) PROVE Phases'
  BY <1>23 DEF JobLaunch
<1>24. CASE UNCHANGED vars BY <1>24
<1> QED BY <1>1, <1>2, <1>3, <1>4, <1>5, <1>6, <1>7, <1>8, <1>9, <1>10, <1>11, <1>12,
       <1>13, <1>14, <1>15, <1>16, <1>17, <1>18, <1>19, <1>20, <1>21, <1>22, <1>23, <1>24
       DEF Next, Startup, Activation, Ending, Background, Terminated

\* A host stays untouched until it is tried.
LEMMA ColdStep == ASSUME DInv, [Next]_vars PROVE Cold'
<1> USE Numbers DEF DInv, DTypeOK, Phases, Activating, Started, InStartup, Hosts, NoHost,
      machineVars, listVars, cleanVars,
          boundedVars, flags, vars, ListEnd, Fault, Return, NextHost, CleanUp, Launch, Finish,
                Call, Returned,
          Cold, Untouched, Untried, SparesFromNext
<1>1. CASE Stage BY <1>1 DEF Stage
<1>2. CASE StageFails BY <1>2 DEF StageFails
<1>3. CASE NotStaged BY <1>3 DEF NotStaged
<1>4. CASE TryHost BY <1>4 DEF TryHost
<1>5. CASE Deployed BY <1>5 DEF Deployed
<1>6. CASE TooFew BY <1>6 DEF TooFew
<1>7. CASE Preflight BY <1>7 DEF Preflight
<1>8. CASE NotStarted BY <1>8 DEF NotStarted
<1>9. CASE SendStart BY <1>9 DEF SendStart
<1>10. CASE Echo BY <1>10 DEF Echo
<1>11. CASE EchoFails BY <1>11 DEF EchoFails
<1>12. CASE Ready BY <1>12 DEF Ready
<1>13. CASE NotReady BY <1>13 DEF NotReady
<1>14. CASE Undo BY <1>14 DEF Undo
<1>15. CASE EndJob BY <1>15 DEF EndJob
<1>16. CASE CleanupOnly BY <1>16 DEF CleanupOnly
<1>17. CASE Exit BY <1>17 DEF Exit
<1>18. ASSUME NEW h \in Hosts, ClaimSpare(h) PROVE Cold'
  BY <1>18 DEF ClaimSpare
<1>19. ASSUME NEW h \in Hosts, StartVisit(h) PROVE Cold'
  BY <1>19 DEF StartVisit
<1>20. ASSUME NEW h \in Hosts, Visit(h) PROVE Cold'
  <2>1. h \notin Untried BY <1>20 DEF Visit, Accounts
  <2>2. \A g \in Hosts \ {h} : job'[g] = job[g] BY <1>20 DEF Visit
  <2> QED BY <1>20, <2>1, <2>2 DEF Visit
<1>21. ASSUME NEW h \in Hosts, JobKill(h) PROVE Cold'
  BY <1>21 DEF JobKill
<1>22. ASSUME NEW h \in Hosts, JobClear(h) PROVE Cold'
  BY <1>22 DEF JobClear
<1>23. ASSUME NEW h \in Hosts, JobLaunch(h) PROVE Cold'
  BY <1>23 DEF JobLaunch
<1>24. CASE UNCHANGED vars BY <1>24
<1> QED BY <1>1, <1>2, <1>3, <1>4, <1>5, <1>6, <1>7, <1>8, <1>9, <1>10, <1>11, <1>12,
       <1>13, <1>14, <1>15, <1>16, <1>17, <1>18, <1>19, <1>20, <1>21, <1>22, <1>23, <1>24
       DEF Next, Startup, Activation, Ending, Background, Terminated

\* No host that was started is lost.
LEMMA AccountsStep == ASSUME DInv, [Next]_vars PROVE Accounts'
<1> USE Numbers DEF DInv, DTypeOK, Phases, Activating, Started, InStartup, Hosts, NoHost,
      machineVars, listVars, cleanVars,
          boundedVars, flags, vars, ListEnd, Fault, Return, NextHost, CleanUp, Launch, Finish,
                Call, Returned,
          Accounts, HostsForCleanup
<1>1. CASE Stage BY <1>1 DEF Stage
<1>2. CASE StageFails BY <1>2 DEF StageFails
<1>3. CASE NotStaged BY <1>3 DEF NotStaged
<1>4. CASE TryHost BY <1>4 DEF TryHost
<1>5. CASE Deployed BY <1>5 DEF Deployed
<1>6. CASE TooFew BY <1>6 DEF TooFew
<1>7. CASE Preflight BY <1>7 DEF Preflight
<1>8. CASE NotStarted BY <1>8 DEF NotStarted
<1>9. CASE SendStart BY <1>9 DEF SendStart
<1>10. CASE Echo BY <1>10 DEF Echo
<1>11. CASE EchoFails BY <1>11 DEF EchoFails
<1>12. CASE Ready BY <1>12 DEF Ready
<1>13. CASE NotReady BY <1>13 DEF NotReady
<1>14. CASE Undo BY <1>14 DEF Undo
<1>15. CASE EndJob BY <1>15 DEF EndJob
<1>16. CASE CleanupOnly BY <1>16 DEF CleanupOnly
<1>17. CASE Exit BY <1>17 DEF Exit
<1>18. ASSUME NEW h \in Hosts, ClaimSpare(h) PROVE Accounts'
  BY <1>18 DEF ClaimSpare
<1>19. ASSUME NEW h \in Hosts, StartVisit(h) PROVE Accounts'
  BY <1>19 DEF StartVisit
<1>20. ASSUME NEW h \in Hosts, Visit(h) PROVE Accounts'
  BY <1>20 DEF Visit
<1>21. ASSUME NEW h \in Hosts, JobKill(h) PROVE Accounts'
  BY <1>21 DEF JobKill
<1>22. ASSUME NEW h \in Hosts, JobClear(h) PROVE Accounts'
  BY <1>22 DEF JobClear
<1>23. ASSUME NEW h \in Hosts, JobLaunch(h) PROVE Accounts'
  BY <1>23 DEF JobLaunch
<1>24. CASE UNCHANGED vars BY <1>24
<1> QED BY <1>1, <1>2, <1>3, <1>4, <1>5, <1>6, <1>7, <1>8, <1>9, <1>10, <1>11, <1>12,
       <1>13, <1>14, <1>15, <1>16, <1>17, <1>18, <1>19, <1>20, <1>21, <1>22, <1>23, <1>24
       DEF Next, Startup, Activation, Ending, Background, Terminated

\* What answers on a port stays what it is.
LEMMA PortsStep == ASSUME DInv, [Next]_vars PROVE Ports'
<1> USE Numbers DEF DInv, DTypeOK, Phases, Activating, Started, InStartup, Hosts, NoHost,
      machineVars, listVars, cleanVars,
          boundedVars, flags, vars, ListEnd, Fault, Return, NextHost, CleanUp, Launch, Finish,
                Call, Returned,
          Ports, ReadyRunOurs, Answers, PortFree
<1>1. CASE Stage BY <1>1 DEF Stage
<1>2. CASE StageFails BY <1>2 DEF StageFails
<1>3. CASE NotStaged BY <1>3 DEF NotStaged
<1>4. CASE TryHost BY <1>4 DEF TryHost
<1>5. CASE Deployed BY <1>5 DEF Deployed
<1>6. CASE TooFew BY <1>6 DEF TooFew
<1>7. CASE Preflight BY <1>7 DEF Preflight
<1>8. CASE NotStarted BY <1>8 DEF NotStarted
<1>9. CASE SendStart BY <1>9 DEF SendStart
<1>10. CASE Echo BY <1>10 DEF Echo
<1>11. CASE EchoFails BY <1>11 DEF EchoFails
<1>12. CASE Ready
  <2>1. ReadyRunOurs' BY <1>12 DEF Ready
  <2>2. (\A h \in Hosts : job[h] # "idle" => pidFile[h] # "old" \/ (pc = "echo" /\ h = cur))'
        BY <1>12 DEF Ready
  <2> QED BY <1>12, <2>1, <2>2 DEF Ready
<1>13. CASE NotReady BY <1>13 DEF NotReady
<1>14. CASE Undo BY <1>14 DEF Undo
<1>15. CASE EndJob BY <1>15 DEF EndJob
<1>16. CASE CleanupOnly BY <1>16 DEF CleanupOnly
<1>17. CASE Exit BY <1>17 DEF Exit
<1>18. ASSUME NEW h \in Hosts, ClaimSpare(h) PROVE Ports'
  BY <1>18 DEF ClaimSpare
<1>19. ASSUME NEW h \in Hosts, StartVisit(h) PROVE Ports'
  BY <1>19 DEF StartVisit
<1>20. ASSUME NEW h \in Hosts, Visit(h) PROVE Ports'
  BY <1>20 DEF Visit
<1>21. ASSUME NEW h \in Hosts, JobKill(h) PROVE Ports'
  BY <1>21 DEF JobKill
<1>22. ASSUME NEW h \in Hosts, JobClear(h) PROVE Ports'
  BY <1>22 DEF JobClear
<1>23. ASSUME NEW h \in Hosts, JobLaunch(h) PROVE Ports'
  BY <1>23 DEF JobLaunch
<1>24. CASE UNCHANGED vars BY <1>24
<1> QED BY <1>1, <1>2, <1>3, <1>4, <1>5, <1>6, <1>7, <1>8, <1>9, <1>10, <1>11, <1>12,
       <1>13, <1>14, <1>15, <1>16, <1>17, <1>18, <1>19, <1>20, <1>21, <1>22, <1>23, <1>24
       DEF Next, Startup, Activation, Ending, Background, Terminated

-----------------------------------------------------------------------------
(* The theorems *)

\* The invariant holds at the start.
LEMMA Initially == Init => DInv
<1> SUFFICES ASSUME Init PROVE DInv OBVIOUS
<1> USE Numbers DEF Init, BoundedInit, Phases, Activating, Started, InStartup, Hosts, NoHost
<1>1. DTypeOK BY DEF DTypeOK
<1>2. Phases OBVIOUS
<1>3. Cold BY DEF Cold, Untouched, Untried
<1>4. Accounts BY DEF Accounts
<1>5. Ports BY DEF Ports, ReadyRunOurs
<1> QED BY <1>1, <1>2, <1>3, <1>4, <1>5 DEF DInv

\* The conjuncts hold together: each step needs the others.
THEOREM DeployInvariant == Spec => []DInv
<1>1. DInv /\ [Next]_vars => DInv'
  BY TypeStep, PhasesStep, ColdStep, AccountsStep, PortsStep DEF DInv
<1> QED BY <1>1, Initially, PTL DEF Spec

\* Every variable has its type.
THEOREM DeployTyped == Spec => []DTypeOK
<1>1. DInv => DTypeOK BY DEF DInv
<1> QED BY <1>1, DeployInvariant, PTL

\* The coordinator gets as many owners as were asked for, and spares that were
\* never touched.
THEOREM SparesStayCold == Spec => []SparesAreCold
<1>1. DInv => SparesAreCold
  BY DEF DInv, Phases, Cold, Untouched, Untried, SparesAreCold
<1> QED BY <1>1, DeployInvariant, PTL

\* A worker handed to the coordinator is one this run started, but for an NFS
\* spare whose port was taken.
THEOREM ReadyWorkersAreOurs == Spec => []ReadyRunOurs
<1>1. DInv => ReadyRunOurs BY DEF DInv, Ports
<1> QED BY <1>1, DeployInvariant, PTL

\* The clean-up misses a host only if its ssh reported an error, or if too few
\* workers became ready.
THEOREM CleanupIsComplete == Spec => []MissedByCleanup
<1>1. DInv => MissedByCleanup
  BY DEF DInv, Phases, Accounts, InStartup, Started, MissedByCleanup
<1> QED BY <1>1, DeployInvariant, PTL

\* -cleanup-only leaves no worker that a PID file names, if nothing fails.
THEOREM CleanupOnlyStopsAll == Spec => []OldWorkersGone
<1>1. DInv => OldWorkersGone BY DEF DInv, Accounts, Ports, OldWorkersGone
<1> QED BY <1>1, DeployInvariant, PTL
=============================================================================
