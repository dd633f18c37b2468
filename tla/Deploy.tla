------------------------------- MODULE Deploy -------------------------------
(***************************************************************************)
(* Starting workers and stopping them again: run() in mapreduce/main.go    *)
(* around the drives, with deployInitialWorkers, deployWorkersNFS,         *)
(* activateWorker, the activateSpare closure and cleanupWorkers.           *)
(*                                                                         *)
(* The orchestrator works on one host at a time.  On the host, the command *)
(* deployWorker and sshStartNFS send is a list of the form                 *)
(*     kill $(cat PID) || true && rm -f PID && nohup worker & echo $! >PID *)
(* in which & ends the whole list: a background job that kills, removes    *)
(* and starts runs beside the foreground shell that writes the PID file.   *)
(* The job is taken to become the worker, so that its pid is the worker's, *)
(* as when the shell execs the last command of a list; a shell that does   *)
(* not would have the file name the wrong process.                         *)
(*                                                                         *)
(* The drives are abstracted to claiming spares until the job ends.  The   *)
(* clean-up at the end is the only place where several hosts are visited   *)
(* at a time, with RunBounded; -cleanup-only does nothing else.            *)
(***************************************************************************)
EXTENDS RunBounded

CONSTANTS
    NumHosts,   \* lines of hosts.txt; hosts are numbered in its order
    Target,     \* -n, between 1 and NumHosts
    Limits,     \* the values of -parallel
    MaxFaults   \* bound on ssh and scp commands and probes that fail

Hosts == 1 .. NumHosts
NoHost == 0

ASSUME DeployAssumption ==
    /\ NumHosts \in Nat \ {0}
    /\ Target \in Hosts
    /\ Limits \subseteq Int
    /\ MaxFaults \in Nat

VARIABLES
    nfsDeploy,  \* the flags -nfs-deploy,
    cleanupOnly,    \* -cleanup-only
    parallel,   \* and -parallel
    occupant,   \* what holds a host's port beforehand: "none", "old" (a worker
                \* of an earlier job, named by the PID file) or "foreign"
    pidFile,    \* "none", "old" or "job" (the pid of the background job)
    job,        \* the background job on a host: "idle" (no start command was
                \* sent), "kill", "clear", "launch", "up" or "dead"
    pc,         \* where run() is
    next,       \* the position reached in the host list
    cur,        \* the host being activated
    active, spares, touched,
    cleaned,    \* history: hosts cleanupWorkers has visited
    startErrs,  \* history: hosts whose start command ran and reported an error
    faults

machineVars == <<occupant, pidFile, job>>
flags == <<nfsDeploy, cleanupOnly, parallel>>
listVars == <<flags, next, active, spares, touched>>
cleanVars == <<boundedVars, cleaned, startErrs>>
vars == <<machineVars, listVars, cleanVars, pc, cur, faults>>

Init ==
    /\ nfsDeploy \in BOOLEAN /\ cleanupOnly \in BOOLEAN /\ parallel \in Limits
    /\ occupant \in [Hosts -> {"none", "old", "foreign"}]
    /\ pidFile = [h \in Hosts |-> IF occupant[h] = "old" THEN "old" ELSE "none"]
    /\ job = [h \in Hosts |-> "idle"]
    /\ pc = IF cleanupOnly THEN "flag" ELSE IF nfsDeploy THEN "stage" ELSE "startup"
    /\ next = 1
    /\ cur = NoHost
    /\ active = {} /\ spares = {} /\ touched = {}
    /\ BoundedInit /\ cleaned = {} /\ startErrs = {}
    /\ faults = 0

Fault == faults < MaxFaults /\ faults' = faults + 1

\* Seeded fault: an off-by-one at the end of the list.
ListEndMissed == next > NumHosts + 1
ListEnd == next > NumHosts

-----------------------------------------------------------------------------
(* The host list *)

\* NFS: the binary is copied once, to the first host that takes it.
Stage ==
    /\ pc = "stage" /\ ~ListEnd
    /\ pc' = "startup" /\ next' = 1
    /\ UNCHANGED <<machineVars, flags, active, spares, touched, cleanVars, cur, faults>>

StageFails ==
    /\ pc = "stage" /\ ~ListEnd
    /\ Fault
    /\ next' = next + 1
    /\ UNCHANGED <<machineVars, flags, active, spares, touched, cleanVars, pc, cur>>

\* No host took it: run() returns before anything was started.
NotStaged ==
    /\ pc = "stage" /\ ListEnd
    /\ pc' = "exit"
    /\ UNCHANGED <<machineVars, listVars, cleanVars, cur, faults>>

TryHost ==
    /\ pc = "startup" /\ Cardinality(active) < Target /\ ~ListEnd
    /\ cur' = next
    /\ pc' = "preflight"
    /\ UNCHANGED <<machineVars, listVars, cleanVars, faults>>

\* Seeded fault: the last host that became active is listed as a spare too.
SparesFromLast == (next - 1) .. NumHosts
SparesFromNext == next .. NumHosts

\* Enough workers are ready: the rest of the list are the cold spares.
Deployed ==
    /\ pc = "startup" /\ Cardinality(active) = Target
    /\ spares' = SparesFromNext
    /\ touched' = active
    /\ pc' = "job"
    /\ UNCHANGED <<machineVars, flags, next, active, cleanVars, cur, faults>>

\* Too few: the error carries no hosts, so the deferred clean-up has none.
TooFew ==
    /\ pc = "startup" /\ Cardinality(active) < Target /\ ListEnd
    /\ pc' = "exit"
    /\ UNCHANGED <<machineVars, listVars, cleanVars, cur, faults>>

-----------------------------------------------------------------------------
(* Activating cur: at start-up, or as a spare while the job runs *)

InStartup == touched = {}

\* Seeded fault: a host that did not become ready is tried again and again.
SameHost == IF cur \in active THEN next + 1 ELSE next
NextHost == next + 1

\* The activation ends: on to the next host of the list, or back to the job.
Return ==
    /\ cur' = NoHost
    /\ pc' = IF InStartup THEN "startup" ELSE "job"
    /\ next' = IF InStartup THEN NextHost ELSE next

\* Seeded fault: the port is not looked at.
PortIgnored(h) == TRUE
PortFree(h) == occupant[h] = "none" /\ job[h] # "up"

Preflight ==
    /\ pc = "preflight" /\ PortFree(cur)
    /\ pc' = "start"
    /\ UNCHANGED <<machineVars, listVars, cleanVars, cur, faults>>

\* The port is taken, or the probe, the copy or the start command failed
\* before it did anything.
NotStarted ==
    /\ \/ pc = "preflight" /\ ~PortFree(cur) /\ UNCHANGED faults
       \/ pc \in {"preflight", "start"} /\ Fault
    /\ Return
    /\ UNCHANGED <<machineVars, flags, active, spares, touched, cleanVars>>

SendStart ==
    /\ pc = "start"
    /\ job' = [job EXCEPT ![cur] = "kill"]
    /\ pc' = "echo"
    /\ UNCHANGED <<occupant, pidFile, listVars, cleanVars, cur, faults>>

\* The foreground shell writes the PID file and ssh returns.
Echo ==
    /\ pc = "echo"
    /\ pidFile' = [pidFile EXCEPT ![cur] = "job"]
    /\ pc' = "health"
    /\ UNCHANGED <<occupant, job, listVars, cleanVars, cur, faults>>

\* ssh fails although the command has run: nothing is cleaned up.
EchoFails ==
    /\ pc = "echo"
    /\ Fault
    /\ pidFile' = [pidFile EXCEPT ![cur] = "job"]
    /\ startErrs' = startErrs \cup {cur}
    /\ Return
    /\ UNCHANGED <<occupant, job, flags, active, spares, touched, boundedVars, cleaned>>

\* The background job.  Its kill reads whatever the PID file holds by then.
JobKill(h) ==
    /\ job[h] = "kill"
    /\ job' = [job EXCEPT ![h] = IF pidFile[h] = "job" THEN "dead" ELSE "clear"]
    /\ occupant' = IF pidFile[h] = "old"
                     THEN [occupant EXCEPT ![h] = "none"] ELSE occupant
    /\ UNCHANGED <<pidFile, listVars, cleanVars, pc, cur, faults>>

JobClear(h) ==
    /\ job[h] = "clear"
    /\ job' = [job EXCEPT ![h] = "launch"]
    /\ pidFile' = [pidFile EXCEPT ![h] = "none"]
    /\ UNCHANGED <<occupant, listVars, cleanVars, pc, cur, faults>>

\* A worker that cannot listen on its port exits.
JobLaunch(h) ==
    /\ job[h] = "launch"
    /\ job' = [job EXCEPT ![h] = IF occupant[h] = "none" THEN "up" ELSE "dead"]
    /\ UNCHANGED <<occupant, pidFile, listVars, cleanVars, pc, cur, faults>>

\* waitHealthy asks the port, whoever listens on it.
Answers(h) == job[h] = "up" \/ occupant[h] # "none"

Ready ==
    /\ pc = "health" /\ Answers(cur)
    /\ Return
    /\ IF InStartup
         THEN active' = active \cup {cur} /\ UNCHANGED touched
         ELSE touched' = touched \cup {cur} /\ UNCHANGED active
    /\ UNCHANGED <<machineVars, flags, spares, cleanVars, faults>>

NotReady ==
    /\ pc = "health"
    /\ \/ ~Answers(cur) /\ UNCHANGED faults
       \/ Answers(cur) /\ Fault
    /\ pc' = "undo"
    /\ UNCHANGED <<machineVars, listVars, cleanVars, cur>>

\* The command of cleanupWorkers: kill what the PID file names, remove it.
CleanUp(h) ==
    /\ job' = IF pidFile[h] = "job" /\ job[h] # "idle"
                THEN [job EXCEPT ![h] = "dead"] ELSE job
    /\ occupant' = IF pidFile[h] = "old" THEN [occupant EXCEPT ![h] = "none"] ELSE occupant
    /\ pidFile' = [pidFile EXCEPT ![h] = "none"]

Undo ==
    /\ pc = "undo"
    /\ \/ CleanUp(cur) /\ UNCHANGED faults
       \/ Fault /\ UNCHANGED machineVars
    /\ cleaned' = cleaned \cup {cur}
    /\ Return
    /\ UNCHANGED <<flags, active, spares, touched, boundedVars, startErrs>>

-----------------------------------------------------------------------------
(* The job and the deferred clean-up *)

\* In NFS mode a spare is started without the look at its port.
ClaimSpare(h) ==
    /\ pc = "job"
    /\ h \in spares /\ \A g \in spares : h <= g
    /\ spares' = spares \ {h}
    /\ cur' = h
    /\ pc' = IF nfsDeploy THEN "start" ELSE "preflight"
    /\ UNCHANGED <<machineVars, flags, next, active, touched, cleanVars, faults>>

\* Seeded fault: only the initial workers are cleaned up.
InitialHosts == active
HostsForCleanup == touched

\* run() returns, with or without an error, and the deferred function runs.
EndJob ==
    /\ pc = "job"
    /\ Call(HostsForCleanup, parallel)
    /\ pc' = "clean"
    /\ UNCHANGED <<machineVars, listVars, cleaned, startErrs, cur, faults>>

\* With -cleanup-only the clean-up is of all hosts of the file.
CleanupOnly ==
    /\ pc = "flag"
    /\ Call(Hosts, parallel)
    /\ pc' = "clean"
    /\ UNCHANGED <<machineVars, listVars, cleaned, startErrs, cur, faults>>

StartVisit(h) ==
    /\ pc = "clean" /\ Launch(h)
    /\ UNCHANGED <<machineVars, listVars, cleaned, startErrs, pc, cur, faults>>

\* Only logged if it fails.
Visit(h) ==
    /\ pc = "clean" /\ Finish(h)
    /\ \/ CleanUp(h) /\ UNCHANGED faults
       \/ Fault /\ UNCHANGED machineVars
    /\ cleaned' = cleaned \cup {h}
    /\ UNCHANGED <<listVars, startErrs, pc, cur>>

Exit ==
    /\ pc = "clean" /\ Returned
    /\ pc' = "exit"
    /\ UNCHANGED <<machineVars, listVars, cleanVars, cur, faults>>

Startup == Stage \/ StageFails \/ NotStaged \/ TryHost \/ Deployed \/ TooFew
Activation ==
    \/ Preflight \/ NotStarted \/ SendStart \/ Echo \/ EchoFails
    \/ Ready \/ NotReady \/ Undo
Ending ==
    \/ EndJob \/ CleanupOnly \/ Exit
    \/ \E h \in Hosts : ClaimSpare(h) \/ StartVisit(h) \/ Visit(h)
Background == \E h \in Hosts : JobKill(h) \/ JobClear(h) \/ JobLaunch(h)

\* run() has returned; the process exits.
Terminated == pc = "exit" /\ UNCHANGED vars

Next == Startup \/ Activation \/ Ending \/ Background \/ Terminated
Spec == Init /\ [][Next]_vars

\* Every command comes back, as ssh and scp are given a time limit, waitHealthy
\* tries so many times, and the drives end (JobEnds of MapReduce).  What runs in
\* the background on a host may be as slow as it likes.
FairSpec == Spec /\ WF_vars(Startup \/ Activation \/ Ending)

-----------------------------------------------------------------------------
(* Properties *)

\* Every variable has its type, and a host is at hand whenever one is
\* activated.
DTypeOK ==
    /\ nfsDeploy \in BOOLEAN /\ cleanupOnly \in BOOLEAN /\ parallel \in Limits
    /\ occupant \in [Hosts -> {"none", "old", "foreign"}]
    /\ pidFile \in [Hosts -> {"none", "old", "job"}]
    /\ job \in [Hosts -> {"idle", "kill", "clear", "launch", "up", "dead"}]
    /\ pc \in {"flag", "stage", "startup", "preflight", "start", "echo", "health", "undo",
               "job", "clean", "exit"}
    /\ next \in 1 .. (NumHosts + 1)
    /\ cur \in Hosts \cup {NoHost}
    /\ pc \in {"preflight", "start", "echo", "health", "undo"} => cur \in Hosts
    /\ active \in SUBSET Hosts /\ spares \in SUBSET Hosts /\ touched \in SUBSET Hosts
    /\ rest \in SUBSET Hosts /\ running \in SUBSET Hosts /\ size \in Nat
    /\ cleaned \in SUBSET Hosts
    /\ startErrs \in SUBSET Hosts
    /\ faults \in 0 .. MaxFaults

\* What newCoordinator relies on: as many owners as asked for, and spares on
\* which nothing was ever started, none of them an owner.
SparesAreCold ==
    pc \in {"job", "clean"} /\ ~cleanupOnly =>
        /\ Cardinality(active) = Target
        /\ \A h \in spares : job[h] = "idle" /\ h \notin touched \cup cleaned

\* A host handed to the coordinator runs the worker this run started there,
\* not somebody else's that answers on the port.  An NFS spare, whose port is
\* not looked at, is the one exception.
ReadyRunOurs ==
    \A h \in (active \cup touched) \ cleaned :
        job[h] = "up" \/ (nfsDeploy /\ h \notin active /\ occupant[h] # "none")

\* When run() returns, it has visited every host it sent a start command to
\* with a clean-up, but for those where ssh reported an error after the
\* command had run, and for all of them if too few workers became ready.
MissedByCleanup ==
    pc = "exit" =>
        {h \in Hosts : job[h] # "idle"} \ cleaned
            \subseteq startErrs \cup (IF InStartup THEN active ELSE {})

\* After -cleanup-only without a failing command, no worker of an earlier job
\* is left on any host that a PID file names one on.
OldWorkersGone ==
    pc = "exit" /\ cleanupOnly /\ faults = 0 => \A h \in Hosts : occupant[h] # "old"

\* run() returns whatever becomes of the commands it sends, and whatever limit
\* the user gives: the clean-up is never stuck behind its own semaphore.
RunReturns == <>(pc = "exit")

=============================================================================
