--------------------------- MODULE MapReduceProofs ---------------------------
(***************************************************************************)
(* Proofs about MapReduce: that the workers, with their files, crashes and *)
(* lost answers, give Coordinator no outcome of a call it does not allow   *)
(* for, and what the two together guarantee, for any number of slots and   *)
(* hosts, either kind of input and any number of faults.                   *)
(***************************************************************************)
EXTENDS MapReduce, CoordinatorProofs

-----------------------------------------------------------------------------
(* The inductive invariant *)

WorkersOK ==
    /\ up \in SUBSET Hosts
    /\ input \in [Hosts -> [Slots -> {"none", "ready", "gone"}]]
    /\ buckets \in [Hosts -> [Slots -> SUBSET Slots]]
    /\ output \in [Hosts -> [Slots -> SUBSET Slots]]
    /\ cut \in SUBSET (Slots \X Slots)
    /\ task \in [Slots -> [begun : BOOLEAN, got : SUBSET Slots,
                           short : SUBSET Slots, failed : SUBSET Slots]]
    /\ crashes \in 0 .. MaxCrashes /\ lost \in 0 .. MaxLost
    /\ abandoned \in SUBSET (Hosts \X Slots)
    /\ lateSwaps \in SUBSET Slots

\* A call goes to the present owner of its slot, and a pass begins with the
\* first result.
CallsGoToOwners ==
    /\ \A s \in Slots : step[s] = "calling" => callHost[s] = host[s]
    /\ pc = "step" => idx = 0

\* The slot's own failure is still to be looked at in this pass.
Pending(s) == err[s] = s /\ step[s] = "back" /\ idx <= s
Replacing(s) == pc \in {"claim", "activate", "fallback", "assign", "nohost"} /\ err[idx] = s

\* A worker that left a call unanswered loses the slot before the next pass,
\* and is dead by then, so that the slot does not come back to it.
GivenUp ==
    \A s \in Slots, h \in Hosts : <<h, s>> \in abandoned =>
      /\ h \in dead \/ (Pending(s) /\ host[s] = h)
      /\ host[s] # h \/ Pending(s) \/ Replacing(s)
      /\ Replacing(s) => h \in dead
      /\ pc \in {"activate", "assign"} /\ err[idx] = s => cand # h

\* Progress on record is backed by the owner's files, and a slot that was
\* loaded is known to its worker.
Backed ==
    /\ OwnersBackTheRecord
    /\ \A s \in Slots : host[s] \in up /\ state[s] >= sLoaded => input[host[s]][s] # "none"

\* The slots with input that neither a late swap nor a cut bucket keeps out of
\* the reduce of s.
Expected(s) == {i \in WithInput \ lateSwaps : <<i, s>> \notin cut}

\* From the reduce drive on, nothing else is missing from a reduce.
Lossless ==
    /\ target >= sReduced => \A s \in Slots :
         /\ s \notin lateSwaps => state[s] >= sMapped
         /\ step[s] = "calling" => task[s].short \cap Expected(s) = {}
         /\ state[s] >= sReduced /\ host[s] \in up => Expected(s) \subseteq output[host[s]][s]
         /\ state[s] = sDone => Expected(s) \subseteq result[s]
    /\ pc = "succeeded" => \A s \in Slots : state[s] = sDone

\* As long as no worker crashed and no call was lost, no call fails.
Quiet ==
    crashes + lost = 0 =>
      /\ up = Hosts /\ epoch = 0
      /\ pc \in {"step", "inspect", "succeeded"}
      /\ \A s \in Slots : err[s] = NoErr /\ task[s].failed = {}

MRInv ==
    /\ IInv /\ WorkersOK
    /\ CallsGoToOwners /\ GivenUp /\ Backed /\ Lossless /\ Quiet

-----------------------------------------------------------------------------
(* The workers as an environment of the coordinator *)

\* Every step is one of Coordinator or leaves its variables alone.
LEMMA StepIsCoordinators == ASSUME TypeOK, WorkersOK, [MRNext]_mvars PROVE [Next]_vars
<1>1. CASE Handlers
  <2> PICK s \in Slots :
        \/ Load(s) \/ MapBegin(s) \/ MapEnd(s)
        \/ \E i \in Slots : FlushFails(s, i) \/ Fetch(s, i) \/ FetchFails(s, i) \/ ReduceNamesPeer(s, i)
        \/ Reduce(s) \/ Result(s)
        \/ HandlerFails(s) \/ Refused(s) \/ Lose(s)
    BY <1>1 DEF Handlers
  <2>1. CASE Load(s) \/ MapEnd(s) \/ Reduce(s)
    <3>1. ReturnOk(s, {}) BY <2>1 DEF Load, MapEnd, Reduce
    <3>2. {} \in Payloads BY MapReduceAssumption
    <3> QED BY <3>1, <3>2 DEF Next, Steps
  <2>2. CASE Result(s)
    <3>1. output[callHost[s]][s] \in Payloads
      BY <2>2, MapReduceAssumption DEF Result, Serving, WorkersOK
    <3>2. ReturnOk(s, output[callHost[s]][s]) BY <2>2 DEF Result
    <3> QED BY <3>1, <3>2 DEF Next, Steps
  <2>3. CASE MapBegin(s) \/ \E i \in Slots : FlushFails(s, i) \/ Fetch(s, i) \/ FetchFails(s, i)
    BY <2>3 DEF MapBegin, FlushFails, Fetch, FetchFails
  <2>4. CASE HandlerFails(s) \/ Refused(s) \/ Lose(s)
    <3>1. ReturnErr(s, s) BY <2>4 DEF HandlerFails, Refused, Lose
    <3> QED BY <3>1 DEF Next, Steps
  <2>5. CASE \E i \in Slots : ReduceNamesPeer(s, i)
    BY <2>5 DEF ReduceNamesPeer, Next, Steps
  <2> QED BY <2>1, <2>2, <2>3, <2>4, <2>5
<1>2. CASE Control
  BY <1>2 DEF Control, Send, Start, StartFails, Rebind, Next, Steps, Inspect
<1>3. CASE \E h \in Hosts : Crash(h) BY <1>3 DEF Crash
<1>4. CASE Health BY <1>4 DEF Health, Next, Watch
<1>5. CASE UNCHANGED mvars BY <1>5 DEF mvars
<1> QED BY <1>1, <1>2, <1>3, <1>4, <1>5 DEF MRNext

-----------------------------------------------------------------------------
(* Each conjunct of the invariant *)

Tasks == [begun : BOOLEAN, got : SUBSET Slots, short : SUBSET Slots, failed : SUBSET Slots]

\* The end of a fetch is noted in one of three sets.
LEMMA FetchTask ==
    ASSUME WorkersOK, NEW s \in Slots, NEW i \in Slots, Fetch(s, i)
    PROVE  \E u \in Tasks : task' = [task EXCEPT ![s] = u]
<1>1. task[s] \in Tasks BY DEF WorkersOK, Tasks
<1>2. \/ task' = [task EXCEPT ![s] = [task[s] EXCEPT !.failed = task[s].failed \cup {i}]]
      \/ task' = [task EXCEPT ![s] = [task[s] EXCEPT !.got = task[s].got \cup {i}]]
      \/ task' = [task EXCEPT ![s] = [task[s] EXCEPT !.short = task[s].short \cup {i}]]
  BY DEF Fetch
<1> QED BY <1>1, <1>2 DEF Tasks

\* The workers' variables keep their types.
LEMMA WorkersOKStep == ASSUME MRInv, TypeOK', [MRNext]_mvars PROVE WorkersOK'
<1> USE MapReduceAssumption DEF MRInv, IInv, TypeOK, SlotsOK, CallsOK, WorkersOK, workerVars,
      fileVars, faultVars, Serving, NewTask, vars, callVars, driveVars, Wanted
<1>1. ASSUME NEW s \in Slots, Load(s) PROVE WorkersOK'
  BY <1>1 DEF Load, ReturnOk
<1>2. ASSUME NEW s \in Slots, MapBegin(s) PROVE WorkersOK'
  <2>1. task[s] \in [begun : BOOLEAN, got : SUBSET Slots, short : SUBSET Slots, failed : SUBSET Slots]
    OBVIOUS
  <2>2. task'[s] \in [begun : BOOLEAN, got : SUBSET Slots, short : SUBSET Slots, failed : SUBSET Slots]
    BY <1>2, <2>1 DEF MapBegin
  <2>3. task' \in [Slots -> [begun : BOOLEAN, got : SUBSET Slots, short : SUBSET Slots, failed : SUBSET Slots]]
    BY <1>2, <2>2 DEF MapBegin
  <2> QED BY <1>2, <2>3 DEF MapBegin
<1>3. ASSUME NEW s \in Slots, MapEnd(s) PROVE WorkersOK'
  BY <1>3 DEF MapEnd, ReturnOk
<1>4. ASSUME NEW s \in Slots, NEW i \in Slots, Fetch(s, i) PROVE WorkersOK'
  <2>1. PICK u \in Tasks : task' = [task EXCEPT ![s] = u] BY <1>4, FetchTask
  <2> QED BY <1>4, <2>1 DEF Fetch, Tasks
<1>5. ASSUME NEW s \in Slots, NEW i \in Slots, FetchFails(s, i) PROVE WorkersOK'
  <2>1. task[s] \in [begun : BOOLEAN, got : SUBSET Slots, short : SUBSET Slots, failed : SUBSET Slots]
    OBVIOUS
  <2>2. task'[s] \in [begun : BOOLEAN, got : SUBSET Slots, short : SUBSET Slots, failed : SUBSET Slots]
    BY <1>5, <2>1 DEF FetchFails
  <2>3. task' \in [Slots -> [begun : BOOLEAN, got : SUBSET Slots, short : SUBSET Slots, failed : SUBSET Slots]]
    BY <1>5, <2>2 DEF FetchFails
  <2>4. lost' \in 0 .. MaxLost /\ UNCHANGED <<up, fileVars, crashes, abandoned, lateSwaps>>
    BY <1>5 DEF FetchFails
  <2> QED BY <2>3, <2>4
<1>6. ASSUME NEW s \in Slots, NEW i \in Slots, ReduceNamesPeer(s, i) PROVE WorkersOK'
  BY <1>6 DEF ReduceNamesPeer, ReturnErr, Fetched
<1>7. ASSUME NEW s \in Slots, Reduce(s) PROVE WorkersOK'
  BY <1>7 DEF Reduce, ReturnOk, Fetched
<1>8. ASSUME NEW s \in Slots, Result(s) PROVE WorkersOK'
  BY <1>8 DEF Result, ReturnOk
<1>9. ASSUME NEW s \in Slots, HandlerFails(s) PROVE WorkersOK'
  <2>1. CASE state[s] = sPending
    <3>1. /\ input' = [input EXCEPT ![callHost[s]][s] = "gone"]
          /\ output' = [output EXCEPT ![callHost[s]][s] = {}]
          /\ UNCHANGED <<up, buckets, cut, task, crashes, abandoned, lateSwaps>>
          /\ lost' \in 0 .. MaxLost
      BY <1>9, <2>1 DEF HandlerFails
    <3>2. input' \in [Hosts -> [Slots -> {"none", "ready", "gone"}]] BY <3>1
    <3>3. output' \in [Hosts -> [Slots -> SUBSET Slots]] BY <3>1
    <3> QED BY <3>1, <3>2, <3>3
  <2>2. CASE state[s] # sPending BY <1>9, <2>2 DEF HandlerFails
  <2> QED BY <2>1, <2>2
<1>10. ASSUME NEW s \in Slots, Refused(s) PROVE WorkersOK'
  BY <1>10 DEF Refused, ReturnErr
<1>11. ASSUME NEW s \in Slots, Lose(s) PROVE WorkersOK'
  BY <1>11 DEF Lose, ReturnErr
<1>12. ASSUME NEW s \in Slots, Send(s) PROVE WorkersOK'
  BY <1>12 DEF Send, StartStep
<1>13. ASSUME NEW s \in Slots, SkipStep(s), UNCHANGED workerVars PROVE WorkersOK'
  BY <1>13 DEF SkipStep
<1>14. ASSUME Start PROVE WorkersOK'
  BY <1>14 DEF Start, ActivateOk, TouchedAfterStart
<1>15. ASSUME StartFails PROVE WorkersOK'
  BY <1>15 DEF StartFails, ActivateFails, MarkDead
<1>16. ASSUME Rebind PROVE WorkersOK'
  BY <1>16 DEF Rebind, Assign, StateAfterSwap, EpochAfterSwap
<1>17. ASSUME Barrier, UNCHANGED workerVars PROVE WorkersOK'
  BY <1>17 DEF Barrier
<1>18. ASSUME NextResult, UNCHANGED workerVars PROVE WorkersOK'
  BY <1>18 DEF NextResult
<1>19. ASSUME Exhausted, UNCHANGED workerVars PROVE WorkersOK'
  BY <1>19 DEF Exhausted
<1>20. ASSUME Retire, UNCHANGED workerVars PROVE WorkersOK'
  BY <1>20 DEF Retire, MarkDead
<1>21. ASSUME NoSpare, UNCHANGED workerVars PROVE WorkersOK'
  BY <1>21 DEF NoSpare
<1>22. ASSUME NoActiveHost, UNCHANGED workerVars PROVE WorkersOK'
  BY <1>22 DEF NoActiveHost
<1>23. ASSUME NEW h \in Hosts, ClaimSpare(h), UNCHANGED workerVars PROVE WorkersOK'
  BY <1>23 DEF ClaimSpare, SparesAfterClaim, LiveSpares
<1>24. ASSUME NEW h \in Hosts, ClaimActiveHost(h), UNCHANGED workerVars PROVE WorkersOK'
  BY <1>24 DEF ClaimActiveHost, Eligible
<1>25. ASSUME Retry, UNCHANGED workerVars PROVE WorkersOK'
  BY <1>25 DEF Retry, RewindStale, NewPass, Inspected
<1>26. ASSUME NextDrive, UNCHANGED workerVars PROVE WorkersOK'
  BY <1>26 DEF NextDrive, RewindStale, NewPass, Inspected
<1>27. ASSUME Succeed, UNCHANGED workerVars PROVE WorkersOK'
  BY <1>27 DEF Succeed, Inspected, Finished
<1>28. ASSUME Terminated, UNCHANGED workerVars PROVE WorkersOK'
  BY <1>28 DEF Terminated
<1>29. ASSUME NEW h \in Hosts, Crash(h) PROVE WorkersOK'
  BY <1>29 DEF Crash
<1>30. ASSUME PollStart, UNCHANGED workerVars PROVE WorkersOK'
  BY <1>30 DEF PollStart
<1>31. ASSUME NEW h \in Hosts, PollOk(h), UNCHANGED workerVars PROVE WorkersOK'
  BY <1>31 DEF PollOk
<1>32. ASSUME NEW h \in Hosts, PollFail(h), UNCHANGED workerVars PROVE WorkersOK'
  BY <1>32 DEF PollFail, MarkDead
<1>33. CASE UNCHANGED mvars BY <1>33 DEF mvars
<1>34. ASSUME NEW s \in Slots, NEW r \in Slots, FlushFails(s, r) PROVE WorkersOK'
  BY <1>34 DEF FlushFails
<1> QED BY <1>1, <1>2, <1>3, <1>4, <1>5, <1>6, <1>7, <1>8, <1>9, <1>10, <1>11, <1>12, <1>13,
      <1>14, <1>15, <1>16,
       <1>17, <1>18, <1>19, <1>20, <1>21, <1>22, <1>23, <1>24, <1>25, <1>26, <1>27, <1>28,
             <1>29, <1>30, <1>31, <1>32, <1>33, <1>34
       DEF MRNext, Handlers, Control, Health

\* A call is made to the owner, and owners change between passes.
LEMMA CallsStep == ASSUME MRInv, TypeOK', [MRNext]_mvars PROVE CallsGoToOwners'
<1> USE IInv DEF MRInv, IInv, CallsInsidePass, TypeOK, SlotsOK, CallsOK, CallsGoToOwners, vars,
      slotVars, poolVars, callVars, driveVars, watchVars
<1>1. ASSUME NEW s \in Slots, Load(s) PROVE CallsGoToOwners'
  BY <1>1 DEF Load, ReturnOk
<1>2. ASSUME NEW s \in Slots, MapBegin(s) PROVE CallsGoToOwners'
  BY <1>2 DEF MapBegin
<1>3. ASSUME NEW s \in Slots, MapEnd(s) PROVE CallsGoToOwners'
  BY <1>3 DEF MapEnd, ReturnOk
<1>4. ASSUME NEW s \in Slots, NEW i \in Slots, Fetch(s, i) PROVE CallsGoToOwners'
  BY <1>4 DEF Fetch
<1>5. ASSUME NEW s \in Slots, NEW i \in Slots, FetchFails(s, i) PROVE CallsGoToOwners'
  BY <1>5 DEF FetchFails
<1>6. ASSUME NEW s \in Slots, NEW i \in Slots, ReduceNamesPeer(s, i) PROVE CallsGoToOwners'
  BY <1>6 DEF ReduceNamesPeer, ReturnErr, Fetched
<1>7. ASSUME NEW s \in Slots, Reduce(s) PROVE CallsGoToOwners'
  BY <1>7 DEF Reduce, ReturnOk, Fetched
<1>8. ASSUME NEW s \in Slots, Result(s) PROVE CallsGoToOwners'
  BY <1>8 DEF Result, ReturnOk
<1>9. ASSUME NEW s \in Slots, HandlerFails(s) PROVE CallsGoToOwners'
  BY <1>9 DEF HandlerFails, ReturnErr
<1>10. ASSUME NEW s \in Slots, Refused(s) PROVE CallsGoToOwners'
  BY <1>10 DEF Refused, ReturnErr
<1>11. ASSUME NEW s \in Slots, Lose(s) PROVE CallsGoToOwners'
  BY <1>11 DEF Lose, ReturnErr
<1>12. ASSUME NEW s \in Slots, Send(s) PROVE CallsGoToOwners'
  BY <1>12 DEF Send, StartStep
<1>13. ASSUME NEW s \in Slots, SkipStep(s), UNCHANGED workerVars PROVE CallsGoToOwners'
  BY <1>13 DEF SkipStep
<1>14. ASSUME Start PROVE CallsGoToOwners'
  BY <1>14 DEF Start, ActivateOk, TouchedAfterStart
<1>15. ASSUME StartFails PROVE CallsGoToOwners'
  BY <1>15 DEF StartFails, ActivateFails, MarkDead
<1>16. ASSUME Rebind PROVE CallsGoToOwners'
  BY <1>16 DEF Rebind, Assign, StateAfterSwap, EpochAfterSwap
<1>17. ASSUME Barrier, UNCHANGED workerVars PROVE CallsGoToOwners'
  BY <1>17 DEF Barrier
<1>18. ASSUME NextResult, UNCHANGED workerVars PROVE CallsGoToOwners'
  BY <1>18 DEF NextResult
<1>19. ASSUME Exhausted, UNCHANGED workerVars PROVE CallsGoToOwners'
  BY <1>19 DEF Exhausted
<1>20. ASSUME Retire, UNCHANGED workerVars PROVE CallsGoToOwners'
  BY <1>20 DEF Retire, MarkDead
<1>21. ASSUME NoSpare, UNCHANGED workerVars PROVE CallsGoToOwners'
  BY <1>21 DEF NoSpare
<1>22. ASSUME NoActiveHost, UNCHANGED workerVars PROVE CallsGoToOwners'
  BY <1>22 DEF NoActiveHost
<1>23. ASSUME NEW h \in Hosts, ClaimSpare(h), UNCHANGED workerVars PROVE CallsGoToOwners'
  BY <1>23 DEF ClaimSpare, SparesAfterClaim, LiveSpares
<1>24. ASSUME NEW h \in Hosts, ClaimActiveHost(h), UNCHANGED workerVars PROVE CallsGoToOwners'
  BY <1>24 DEF ClaimActiveHost, Eligible
<1>25. ASSUME Retry, UNCHANGED workerVars PROVE CallsGoToOwners'
  BY <1>25 DEF Retry, RewindStale, NewPass, Inspected
<1>26. ASSUME NextDrive, UNCHANGED workerVars PROVE CallsGoToOwners'
  BY <1>26 DEF NextDrive, RewindStale, NewPass, Inspected
<1>27. ASSUME Succeed, UNCHANGED workerVars PROVE CallsGoToOwners'
  BY <1>27 DEF Succeed, Inspected, Finished
<1>28. ASSUME Terminated, UNCHANGED workerVars PROVE CallsGoToOwners'
  BY <1>28 DEF Terminated
<1>29. ASSUME NEW h \in Hosts, Crash(h) PROVE CallsGoToOwners'
  BY <1>29 DEF Crash
<1>30. ASSUME PollStart, UNCHANGED workerVars PROVE CallsGoToOwners'
  BY <1>30 DEF PollStart
<1>31. ASSUME NEW h \in Hosts, PollOk(h), UNCHANGED workerVars PROVE CallsGoToOwners'
  BY <1>31 DEF PollOk
<1>32. ASSUME NEW h \in Hosts, PollFail(h), UNCHANGED workerVars PROVE CallsGoToOwners'
  BY <1>32 DEF PollFail, MarkDead
<1>33. CASE UNCHANGED mvars BY <1>33 DEF mvars
<1>34. ASSUME NEW s \in Slots, NEW r \in Slots, FlushFails(s, r) PROVE CallsGoToOwners'
  BY <1>34 DEF FlushFails
<1> QED BY <1>1, <1>2, <1>3, <1>4, <1>5, <1>6, <1>7, <1>8, <1>9, <1>10, <1>11, <1>12, <1>13,
      <1>14, <1>15, <1>16,
       <1>17, <1>18, <1>19, <1>20, <1>21, <1>22, <1>23, <1>24, <1>25, <1>26, <1>27, <1>28,
             <1>29, <1>30, <1>31, <1>32, <1>33, <1>34
       DEF MRNext, Handlers, Control, Health

\* A goroutine of a pass adds at most the call it gave up itself.
LEMMA GivenUpInPass ==
    ASSUME MRInv, NEW s \in Slots, pc = "step", step[s] # "back",
           UNCHANGED <<host, dead, pc, idx, cand>>,
           \A t \in Slots \ {s} : err'[t] = err[t] /\ step'[t] = step[t],
           \/ abandoned' = abandoned
           \/ abandoned' = abandoned \cup {<<host[s], s>>} /\ err'[s] = s /\ step'[s] = "back"
    PROVE  GivenUp'
<1> SUFFICES ASSUME NEW t \in Slots, NEW h \in Hosts, <<h, t>> \in abandoned'
             PROVE  /\ h \in dead \/ (Pending(t)' /\ host[t] = h)
                    /\ host[t] # h \/ Pending(t)'
  BY DEF GivenUp, Replacing
<1>1. idx = 0 /\ s >= 0 BY DEF MRInv, CallsGoToOwners, Slots
<1>2. CASE <<h, t>> \in abandoned /\ t = s
  BY <1>2 DEF MRInv, GivenUp, Pending, Replacing
<1>3. CASE <<h, t>> \in abandoned /\ t # s
  BY <1>3 DEF MRInv, GivenUp, Pending, Replacing
<1>4. CASE <<h, t>> \notin abandoned
  BY <1>1, <1>4 DEF Pending
<1> QED BY <1>2, <1>3, <1>4

\* A change to one slot's files on one host is not seen by the others.
LEMMA BackedOthers ==
    ASSUME MRInv, NEW s \in Slots, UNCHANGED <<host, up>>,
           \A t \in Slots \ {s} :
               /\ state'[t] = state[t]
               /\ \A h \in Hosts : input'[h][t] = input[h][t] /\ buckets'[h][t] = buckets[h][t]
               /\ \A r \in Slots : <<t, r>> \in cut => <<t, r>> \in cut',
           host[s] \in up =>
               /\ state'[s] >= sLoaded => input'[host[s]][s] # "none"
               /\ state'[s] = sLoaded => input'[host[s]][s] = "ready"
               /\ state'[s] >= sMapped => \A r \in Slots \ buckets'[host[s]][s] : <<s, r>> \in cut'
    PROVE  Backed'
<1> SUFFICES ASSUME NEW t \in Slots, host[t] \in up
             PROVE  /\ state'[t] >= sLoaded => input'[host[t]][t] # "none"
                    /\ state'[t] = sLoaded => input'[host[t]][t] = "ready"
                    /\ state'[t] >= sMapped =>
                         \A r \in Slots \ buckets'[host[t]][t] : <<t, r>> \in cut'
  BY DEF Backed, OwnersBackTheRecord
<1>1. host[t] \in Hosts BY DEF MRInv, IInv, TypeOK, SlotsOK
<1> QED BY <1>1 DEF MRInv, Backed, OwnersBackTheRecord

\* Other progress leaves the files alone.
LEMMA BackedKept ==
    ASSUME MRInv, up' \subseteq up, UNCHANGED <<host, input, buckets>>, cut \subseteq cut',
           \A s \in Slots :
               state'[s] = state[s] \/ (state'[s] >= sMapped /\ state[s] >= sMapped /\ state'[s] # sLoaded)
    PROVE  Backed'
<1>1. \A s \in Slots : state[s] >= sMapped => state[s] >= sLoaded
  BY DEF MRInv, IInv, TypeOK, SlotsOK, SlotStates, sPending, sLoaded, sMapped, sDone
<1> QED BY <1>1 DEF MRInv, Backed, OwnersBackTheRecord

\* What RewindStale does to a slot.
LEMMA Rewinding ==
    ASSUME MRInv, RewindStale, NEW s \in Slots
    PROVE  state'[s] = state[s] \/ (state[s] >= sReduced /\ state'[s] = sMapped)
BY DEF RewindStale, Stale

\* Where no call, culprit or owner changes, more dead hosts do no harm.
LEMMA GivenUpKept ==
    ASSUME MRInv, dead \subseteq dead', UNCHANGED <<host, err, step, idx, pc, cand, abandoned>>
    PROVE  GivenUp'
BY DEF MRInv, GivenUp, Pending, Replacing

\* A worker that left a call unanswered does not get the slot again.
LEMMA GivenUpStep == ASSUME MRInv, TypeOK', [MRNext]_mvars PROVE GivenUp'
<1> USE CoordinatorAssumption DEF MRInv, IInv, CallsInsidePass, TypeOK, SlotsOK, PoolOK,
      CallsOK, DriveOK, ReplacingOK, WorkersOK, CallsGoToOwners,
        vars, slotVars, poolVars, callVars, driveVars, watchVars, workerVars, fileVars,
              faultVars,
        NoErr
<1>1. ASSUME NEW s \in Slots, Load(s) PROVE GivenUp'
  <2>1. pc = "step" /\ step[s] # "back" /\ UNCHANGED <<host, dead, pc, idx, cand>>
    BY <1>1 DEF Load, ReturnOk
  <2>2. \A t \in Slots \ {s} : err'[t] = err[t] /\ step'[t] = step[t]
    BY <1>1 DEF Load, ReturnOk
  <2>3. abandoned' = abandoned
    BY <1>1 DEF Load, ReturnOk
  <2> QED BY ONLY MRInv, s \in Slots, <2>1, <2>2, <2>3, GivenUpInPass
<1>2. ASSUME NEW s \in Slots, MapBegin(s) PROVE GivenUp'
  <2>1. dead \subseteq dead' /\ UNCHANGED <<host, err, step, idx, pc, cand, abandoned>>
    BY <1>2 DEF MapBegin
  <2> QED BY <2>1, GivenUpKept
<1>3. ASSUME NEW s \in Slots, MapEnd(s) PROVE GivenUp'
  <2>1. pc = "step" /\ step[s] # "back" /\ UNCHANGED <<host, dead, pc, idx, cand>>
    BY <1>3 DEF MapEnd, ReturnOk
  <2>2. \A t \in Slots \ {s} : err'[t] = err[t] /\ step'[t] = step[t]
    BY <1>3 DEF MapEnd, ReturnOk
  <2>3. abandoned' = abandoned
    BY <1>3 DEF MapEnd, ReturnOk
  <2> QED BY ONLY MRInv, s \in Slots, <2>1, <2>2, <2>3, GivenUpInPass
<1>4. ASSUME NEW s \in Slots, NEW i \in Slots, Fetch(s, i) PROVE GivenUp'
  <2>1. dead \subseteq dead' /\ UNCHANGED <<host, err, step, idx, pc, cand, abandoned>>
    BY <1>4 DEF Fetch
  <2> QED BY <2>1, GivenUpKept
<1>5. ASSUME NEW s \in Slots, NEW i \in Slots, FetchFails(s, i) PROVE GivenUp'
  <2>1. dead \subseteq dead' /\ UNCHANGED <<host, err, step, idx, pc, cand, abandoned>>
    BY <1>5 DEF FetchFails
  <2> QED BY <2>1, GivenUpKept
<1>6. ASSUME NEW s \in Slots, NEW i \in Slots, ReduceNamesPeer(s, i) PROVE GivenUp'
  <2>1. pc = "step" /\ step[s] # "back" /\ UNCHANGED <<host, dead, pc, idx, cand>>
    BY <1>6 DEF ReduceNamesPeer, ReturnErr, Fetched
  <2>2. \A t \in Slots \ {s} : err'[t] = err[t] /\ step'[t] = step[t]
    BY <1>6 DEF ReduceNamesPeer, ReturnErr, Fetched
  <2>3. abandoned' = abandoned
    BY <1>6 DEF ReduceNamesPeer, ReturnErr, Fetched
  <2> QED BY ONLY MRInv, s \in Slots, <2>1, <2>2, <2>3, GivenUpInPass
<1>7. ASSUME NEW s \in Slots, Reduce(s) PROVE GivenUp'
  <2>1. pc = "step" /\ step[s] # "back" /\ UNCHANGED <<host, dead, pc, idx, cand>>
    BY <1>7 DEF Reduce, ReturnOk, Fetched
  <2>2. \A t \in Slots \ {s} : err'[t] = err[t] /\ step'[t] = step[t]
    BY <1>7 DEF Reduce, ReturnOk, Fetched
  <2>3. abandoned' = abandoned
    BY <1>7 DEF Reduce, ReturnOk, Fetched
  <2> QED BY ONLY MRInv, s \in Slots, <2>1, <2>2, <2>3, GivenUpInPass
<1>8. ASSUME NEW s \in Slots, Result(s) PROVE GivenUp'
  <2>1. pc = "step" /\ step[s] # "back" /\ UNCHANGED <<host, dead, pc, idx, cand>>
    BY <1>8 DEF Result, ReturnOk
  <2>2. \A t \in Slots \ {s} : err'[t] = err[t] /\ step'[t] = step[t]
    BY <1>8 DEF Result, ReturnOk
  <2>3. abandoned' = abandoned
    BY <1>8 DEF Result, ReturnOk
  <2> QED BY ONLY MRInv, s \in Slots, <2>1, <2>2, <2>3, GivenUpInPass
<1>9. ASSUME NEW s \in Slots, HandlerFails(s) PROVE GivenUp'
  <2>1. pc = "step" /\ step[s] # "back" /\ UNCHANGED <<host, dead, pc, idx, cand>>
    BY <1>9 DEF HandlerFails, ReturnErr
  <2>2. \A t \in Slots \ {s} : err'[t] = err[t] /\ step'[t] = step[t]
    BY <1>9 DEF HandlerFails, ReturnErr
  <2>3. abandoned' = abandoned
    BY <1>9 DEF HandlerFails, ReturnErr
  <2> QED BY ONLY MRInv, s \in Slots, <2>1, <2>2, <2>3, GivenUpInPass
<1>10. ASSUME NEW s \in Slots, Refused(s) PROVE GivenUp'
  <2>1. pc = "step" /\ step[s] # "back" /\ UNCHANGED <<host, dead, pc, idx, cand>>
    BY <1>10 DEF Refused, ReturnErr
  <2>2. \A t \in Slots \ {s} : err'[t] = err[t] /\ step'[t] = step[t]
    BY <1>10 DEF Refused, ReturnErr
  <2>3. abandoned' = abandoned
    BY <1>10 DEF Refused, ReturnErr
  <2> QED BY ONLY MRInv, s \in Slots, <2>1, <2>2, <2>3, GivenUpInPass
<1>11. ASSUME NEW s \in Slots, Lose(s) PROVE GivenUp'
  <2>1. pc = "step" /\ step[s] # "back" /\ UNCHANGED <<host, dead, pc, idx, cand>>
    BY <1>11 DEF Lose, ReturnErr
  <2>2. \A t \in Slots \ {s} : err'[t] = err[t] /\ step'[t] = step[t]
    BY <1>11 DEF Lose, ReturnErr
  <2>3. abandoned' = abandoned \cup {<<host[s], s>>} /\ err'[s] = s /\ step'[s] = "back"
    BY <1>11 DEF Lose, ReturnErr
  <2> QED BY ONLY MRInv, s \in Slots, <2>1, <2>2, <2>3, GivenUpInPass
<1>12. ASSUME NEW s \in Slots, Send(s) PROVE GivenUp'
  <2>1. pc = "step" /\ step[s] # "back" /\ UNCHANGED <<host, dead, pc, idx, cand>>
    BY <1>12 DEF Send, StartStep
  <2>2. \A t \in Slots \ {s} : err'[t] = err[t] /\ step'[t] = step[t]
    BY <1>12 DEF Send, StartStep
  <2>3. abandoned' = abandoned
    BY <1>12 DEF Send, StartStep
  <2> QED BY ONLY MRInv, s \in Slots, <2>1, <2>2, <2>3, GivenUpInPass
<1>13. ASSUME NEW s \in Slots, SkipStep(s), UNCHANGED workerVars PROVE GivenUp'
  <2>1. pc = "step" /\ step[s] # "back" /\ UNCHANGED <<host, dead, pc, idx, cand>>
    BY <1>13 DEF SkipStep
  <2>2. \A t \in Slots \ {s} : err'[t] = err[t] /\ step'[t] = step[t]
    BY <1>13 DEF SkipStep
  <2>3. abandoned' = abandoned
    BY <1>13 DEF SkipStep
  <2> QED BY ONLY MRInv, s \in Slots, <2>1, <2>2, <2>3, GivenUpInPass
<1>14. ASSUME Start PROVE GivenUp'
  BY <1>14 DEF Start, ActivateOk, TouchedAfterStart, GivenUp, Pending, Replacing, Slots
<1>15. ASSUME StartFails PROVE GivenUp'
  BY <1>15 DEF StartFails, ActivateFails, MarkDead, GivenUp, Pending, Replacing, Slots
<1>16. ASSUME Rebind PROVE GivenUp'
  <2> DEFINE c == err[idx]
  <2>1. /\ c \in Slots /\ idx \in Nat /\ pc = "assign" /\ idx' = idx + 1 /\ pc' = "inspect"
        /\ host' = [host EXCEPT ![c] = cand]
        /\ UNCHANGED <<err, step, dead, abandoned>>
    BY <1>16 DEF Rebind, Assign, Slots
  <2>2. \A t \in Slots \ {c} : Pending(t) => Pending(t)' BY <2>1 DEF Pending, Slots
  <2>3. \A t \in Slots : Replacing(t) <=> t = c BY <2>1 DEF Replacing
  <2>4. \A t \in Slots \ {c} : host'[t] = host[t] BY <2>1
  <2>5. host'[c] = cand BY <2>1
  <2>6. \A t \in Slots : ~Replacing(t)' BY <2>1 DEF Replacing
  <2> HIDE DEF c
  <2>7. pc' \notin {"activate", "assign"} /\ abandoned' = abandoned /\ dead' = dead BY <2>1
  <2>8. ASSUME NEW t \in Slots, NEW h \in Hosts, <<h, t>> \in abandoned
        PROVE  h \in dead \/ (Pending(t)' /\ host'[t] = h)
    BY <2>2, <2>3, <2>4, <2>8 DEF GivenUp
  <2>9. ASSUME NEW t \in Slots, NEW h \in Hosts, <<h, t>> \in abandoned
        PROVE  host'[t] # h \/ Pending(t)'
    <3>1. CASE t = c BY <2>1, <2>5, <2>9, <3>1 DEF GivenUp, c
    <3>2. CASE t # c BY <2>2, <2>3, <2>4, <2>9, <3>2 DEF GivenUp
    <3> QED BY <3>1, <3>2
  <2> QED BY <2>6, <2>7, <2>8, <2>9 DEF GivenUp
<1>17. ASSUME Barrier, UNCHANGED workerVars PROVE GivenUp'
  BY <1>17 DEF Barrier, GivenUp, Pending, Replacing, Slots
<1>18. ASSUME NextResult, UNCHANGED workerVars PROVE GivenUp'
  <2>1. \A t \in Slots : Pending(t) => idx + 1 <= t
    BY <1>18 DEF NextResult, Pending, Slots
  <2>2. UNCHANGED <<host, err, step, dead, pc, cand, abandoned>> /\ idx' = idx + 1 /\ pc = "inspect"
    BY <1>18 DEF NextResult
  <2>3. \A t \in Slots : (Pending(t) => Pending(t)') /\ ~Replacing(t) /\ ~Replacing(t)'
    BY <2>1, <2>2 DEF Pending, Replacing
  <2> QED BY <2>2, <2>3 DEF GivenUp
<1>19. ASSUME Exhausted, UNCHANGED workerVars PROVE GivenUp'
  BY <1>19 DEF Exhausted, GivenUp, Pending, Replacing, Slots
<1>20. ASSUME Retire, UNCHANGED workerVars PROVE GivenUp'
  BY <1>20 DEF Retire, MarkDead, GivenUp, Pending, Replacing, Slots
<1>21. ASSUME NoSpare, UNCHANGED workerVars PROVE GivenUp'
  BY <1>21 DEF NoSpare, GivenUp, Pending, Replacing, Slots
<1>22. ASSUME NoActiveHost, UNCHANGED workerVars PROVE GivenUp'
  BY <1>22 DEF NoActiveHost, GivenUp, Pending, Replacing, Slots
<1>23. ASSUME NEW h \in Hosts, ClaimSpare(h), UNCHANGED workerVars PROVE GivenUp'
  BY <1>23 DEF ClaimSpare, SparesAfterClaim, LiveSpares, GivenUp, Pending, Replacing, Slots
<1>24. ASSUME NEW h \in Hosts, ClaimActiveHost(h), UNCHANGED workerVars PROVE GivenUp'
  BY <1>24 DEF ClaimActiveHost, Eligible, GivenUp, Pending, Replacing, Slots
<1>25. ASSUME Retry, UNCHANGED workerVars PROVE GivenUp'
  BY <1>25 DEF Retry, RewindStale, NewPass, Inspected, GivenUp, Pending, Replacing, Slots
<1>26. ASSUME NextDrive, UNCHANGED workerVars PROVE GivenUp'
  BY <1>26 DEF NextDrive, RewindStale, NewPass, Inspected, GivenUp, Pending, Replacing, Slots
<1>27. ASSUME Succeed, UNCHANGED workerVars PROVE GivenUp'
  BY <1>27 DEF Succeed, Inspected, Finished, GivenUp, Pending, Replacing, Slots
<1>28. ASSUME Terminated, UNCHANGED workerVars PROVE GivenUp'
  BY <1>28 DEF Terminated, GivenUp, Pending, Replacing, Slots
<1>29. ASSUME NEW h \in Hosts, Crash(h) PROVE GivenUp'
  <2>1. dead \subseteq dead' /\ UNCHANGED <<host, err, step, idx, pc, cand, abandoned>>
    BY <1>29 DEF Crash
  <2> QED BY <2>1, GivenUpKept
<1>30. ASSUME PollStart, UNCHANGED workerVars PROVE GivenUp'
  <2>1. dead \subseteq dead' /\ UNCHANGED <<host, err, step, idx, pc, cand, abandoned>>
    BY <1>30 DEF PollStart
  <2> QED BY <2>1, GivenUpKept
<1>31. ASSUME NEW h \in Hosts, PollOk(h), UNCHANGED workerVars PROVE GivenUp'
  <2>1. dead \subseteq dead' /\ UNCHANGED <<host, err, step, idx, pc, cand, abandoned>>
    BY <1>31 DEF PollOk
  <2> QED BY <2>1, GivenUpKept
<1>32. ASSUME NEW h \in Hosts, PollFail(h), UNCHANGED workerVars PROVE GivenUp'
  <2>1. dead \subseteq dead' /\ UNCHANGED <<host, err, step, idx, pc, cand, abandoned>>
    BY <1>32 DEF PollFail, MarkDead
  <2> QED BY <2>1, GivenUpKept
<1>33. CASE UNCHANGED mvars
  BY <1>33, GivenUpKept DEF mvars, vars, slotVars, poolVars, callVars, driveVars, workerVars,
        faultVars
<1>34. ASSUME NEW s \in Slots, NEW r \in Slots, FlushFails(s, r) PROVE GivenUp'
  <2>1. dead \subseteq dead' /\ UNCHANGED <<host, err, step, idx, pc, cand, abandoned>>
    BY <1>34 DEF FlushFails
  <2> QED BY <2>1, GivenUpKept
<1> QED BY <1>1, <1>2, <1>3, <1>4, <1>5, <1>6, <1>7, <1>8, <1>9, <1>10, <1>11, <1>12, <1>13,
      <1>14, <1>15, <1>16,
       <1>17, <1>18, <1>19, <1>20, <1>21, <1>22, <1>23, <1>24, <1>25, <1>26, <1>27, <1>28,
             <1>29, <1>30, <1>31, <1>32, <1>33, <1>34
       DEF MRNext, Handlers, Control, Health

\* A handler works for a slot at its owner.
LEMMA ServedByOwner ==
    ASSUME MRInv, NEW s \in Slots, NEW ph, Serving(s, ph)
    PROVE  /\ callHost[s] = host[s] /\ host[s] \in up /\ host[s] \in Hosts
           /\ state[s] = ph /\ pc = "step" /\ state[s] < target
BY DEF MRInv, IInv, TypeOK, SlotsOK, CallsInsidePass, CallsGoToOwners, Serving

\* /load and /data leave the input with the owner of the slot.
LEMMA LoadBacks == ASSUME MRInv, NEW s \in Slots, Load(s) PROVE Backed'
<1>1. Serving(s, sPending) BY DEF Load
<1>2. callHost[s] = host[s] /\ host[s] \in up /\ host[s] \in Hosts /\ state[s] = sPending
  BY <1>1, ServedByOwner
<1>3. /\ input' = [input EXCEPT ![host[s]][s] = "ready"]
      /\ buckets' = [buckets EXCEPT ![host[s]][s] = {}]
      /\ state' = [state EXCEPT ![s] = @ + 1]
      /\ UNCHANGED <<host, up, cut>>
  BY <1>2 DEF Load, ReturnOk
<1>4. state'[s] = sLoaded /\ sLoaded < sMapped
  BY <1>2, <1>3 DEF MRInv, IInv, TypeOK, SlotsOK, sPending, sLoaded, sMapped
<1>5. \A t \in Slots \ {s} : state'[t] = state[t] BY <1>3 DEF MRInv, IInv, TypeOK, SlotsOK
<1>6. \A t \in Slots \ {s}, h \in Hosts : input'[h][t] = input[h][t] /\ buckets'[h][t] = buckets[h][t]
  BY <1>2, <1>3 DEF MRInv, WorkersOK
<1>7. input'[host[s]][s] = "ready" BY <1>2, <1>3 DEF MRInv, WorkersOK
<1>8. ~(state'[s] >= sMapped) BY <1>4 DEF sLoaded, sMapped
<1> QED BY <1>3, <1>4, <1>5, <1>6, <1>7, <1>8, BackedOthers

\* /map throws the buckets of the slot away while it counts as loaded.
LEMMA MapBeginBacks == ASSUME MRInv, NEW s \in Slots, MapBegin(s) PROVE Backed'
<1>1. callHost[s] = host[s] /\ host[s] \in up /\ host[s] \in Hosts /\ state[s] = sLoaded
  BY ServedByOwner DEF MapBegin
<1>2. /\ buckets' = [buckets EXCEPT ![host[s]][s] = {}]
      /\ cut' = {p \in cut : p[1] # s}
      /\ UNCHANGED <<host, up, state, input>>
  BY <1>1 DEF MapBegin, vars, slotVars
<1>3. \A t \in Slots \ {s}, h \in Hosts : buckets'[h][t] = buckets[h][t]
  BY <1>1, <1>2 DEF MRInv, WorkersOK
<1>4. \A t \in Slots \ {s}, r \in Slots : <<t, r>> \in cut => <<t, r>> \in cut'
  BY <1>2
<1>5. input[host[s]][s] = "ready" BY <1>1 DEF MRInv, Backed, OwnersBackTheRecord
<1>6. ~(state'[s] >= sMapped) BY <1>1, <1>2 DEF sLoaded, sMapped
<1> QED BY <1>2, <1>3, <1>4, <1>5, <1>6, BackedOthers

\* A handler that fails throws away at most the files of a slot that counts as
\* pending.
LEMMA HandlerFailsBacks == ASSUME MRInv, NEW s \in Slots, HandlerFails(s) PROVE Backed'
<1>1. callHost[s] = host[s] /\ host[s] \in Hosts /\ UNCHANGED <<host, up, state, buckets, cut>>
  BY DEF HandlerFails, ReturnErr, slotVars, MRInv, IInv, TypeOK, SlotsOK, CallsGoToOwners
<1>2. CASE state[s] = sPending
  <2>1. input' = [input EXCEPT ![host[s]][s] = "gone"] BY <1>1, <1>2 DEF HandlerFails
  <2>2. \A t \in Slots \ {s}, h \in Hosts : input'[h][t] = input[h][t]
    BY <1>1, <2>1 DEF MRInv, WorkersOK
  <2>3. ~(state[s] >= sLoaded) /\ state[s] # sLoaded /\ ~(state[s] >= sMapped)
    BY <1>2 DEF sPending, sLoaded, sMapped
  <2> QED BY <1>1, <2>2, <2>3, BackedOthers
<1>3. CASE state[s] # sPending
  <2>1. input' = input BY <1>3 DEF HandlerFails
  <2> QED BY <1>1, <2>1, BackedKept
<1> QED BY <1>2, <1>3

\* /map leaves complete buckets with the owner, but for those it cut.
LEMMA MapBacks == ASSUME MRInv, NEW s \in Slots, MapEnd(s) PROVE Backed'
<1>1. Serving(s, sLoaded) BY DEF MapEnd
<1>2. callHost[s] = host[s] /\ host[s] \in up /\ host[s] \in Hosts /\ state[s] = sLoaded
  BY <1>1, ServedByOwner
<1>3. input[host[s]][s] = "ready" BY <1>2 DEF MRInv, Backed, OwnersBackTheRecord
<1>4. /\ input' \in {input, [input EXCEPT ![host[s]][s] = "gone"]}
      /\ buckets' = [buckets EXCEPT ![host[s]][s] = {r \in Slots : <<s, r>> \notin cut}]
      /\ state' = [state EXCEPT ![s] = @ + 1]
      /\ UNCHANGED <<host, up, cut>>
  BY <1>2, <1>3 DEF MapEnd, ReturnOk
<1>5. state'[s] = sMapped /\ sLoaded # sMapped
  BY <1>2, <1>4 DEF MRInv, IInv, TypeOK, SlotsOK, sLoaded, sMapped
<1>6. \A t \in Slots \ {s} : state'[t] = state[t] BY <1>4 DEF MRInv, IInv, TypeOK, SlotsOK
<1>7. \A t \in Slots \ {s}, h \in Hosts : input'[h][t] = input[h][t] /\ buckets'[h][t] = buckets[h][t]
  BY <1>2, <1>4 DEF MRInv, WorkersOK
<1>8. input'[host[s]][s] # "none" /\ buckets'[host[s]][s] = {r \in Slots : <<s, r>> \notin cut}
  BY <1>2, <1>3, <1>4 DEF MRInv, WorkersOK
<1> QED BY <1>4, <1>5, <1>6, <1>7, <1>8, BackedOthers

\* Files are written before progress is recorded, and kept as long as it stands.
LEMMA BackedStep == ASSUME MRInv, TypeOK', [MRNext]_mvars PROVE Backed'
<1>1. ASSUME NEW s \in Slots, Load(s) PROVE Backed'
  BY <1>1, LoadBacks
<1>2. ASSUME NEW s \in Slots, MapBegin(s) PROVE Backed'
  BY <1>2, MapBeginBacks
<1>3. ASSUME NEW s \in Slots, MapEnd(s) PROVE Backed'
  BY <1>3, MapBacks
<1>4. ASSUME NEW s \in Slots, NEW i \in Slots, Fetch(s, i) PROVE Backed'
  BY <1>4, BackedKept DEF Fetch, vars, slotVars, workerVars, fileVars
<1>5. ASSUME NEW s \in Slots, NEW i \in Slots, FetchFails(s, i) PROVE Backed'
  BY <1>5, BackedKept DEF FetchFails, vars, slotVars, workerVars, fileVars
<1>6. ASSUME NEW s \in Slots, NEW i \in Slots, ReduceNamesPeer(s, i) PROVE Backed'
  BY <1>6, BackedKept DEF ReduceNamesPeer, ReturnErr, Fetched, vars, slotVars, workerVars,
        fileVars
<1>7. ASSUME NEW s \in Slots, Reduce(s) PROVE Backed'
  <2>1. state[s] >= sMapped /\ state[s] \in SlotStates
    BY <1>7 DEF Reduce, ReturnOk, Fetched, MRInv, IInv, TypeOK, SlotsOK, Serving, sMapped,
          sReduced
  <2>2. \A t \in Slots : state'[t] = state[t] \/ (t = s /\ state'[t] = state[t] + 1)
    BY <1>7 DEF Reduce, ReturnOk, Fetched, MRInv, IInv, TypeOK, SlotsOK
  <2>3. up' = up /\ UNCHANGED <<host, input, buckets, cut>> BY <1>7 DEF Reduce, ReturnOk, Fetched,
        workerVars, fileVars
  <2> QED BY <2>1, <2>2, <2>3, BackedKept DEF SlotStates, sPending, sLoaded, sMapped, sDone
<1>8. ASSUME NEW s \in Slots, Result(s) PROVE Backed'
  <2>1. state[s] >= sMapped /\ state[s] \in SlotStates
    BY <1>8 DEF Result, ReturnOk, MRInv, IInv, TypeOK, SlotsOK, Serving, sMapped, sReduced
  <2>2. \A t \in Slots : state'[t] = state[t] \/ (t = s /\ state'[t] = state[t] + 1)
    BY <1>8 DEF Result, ReturnOk, MRInv, IInv, TypeOK, SlotsOK
  <2>3. up' = up /\ UNCHANGED <<host, input, buckets, cut>> BY <1>8 DEF Result, ReturnOk, workerVars,
        fileVars
  <2> QED BY <2>1, <2>2, <2>3, BackedKept DEF SlotStates, sPending, sLoaded, sMapped, sDone
<1>9. ASSUME NEW s \in Slots, HandlerFails(s) PROVE Backed'
  BY <1>9, HandlerFailsBacks
<1>10. ASSUME NEW s \in Slots, Refused(s) PROVE Backed'
  BY <1>10, BackedKept DEF Refused, ReturnErr, vars, slotVars, workerVars, fileVars
<1>11. ASSUME NEW s \in Slots, Lose(s) PROVE Backed'
  BY <1>11, BackedKept DEF Lose, ReturnErr, vars, slotVars, workerVars, fileVars
<1>12. ASSUME NEW s \in Slots, Send(s) PROVE Backed'
  BY <1>12, BackedKept DEF Send, StartStep, vars, slotVars, workerVars, fileVars
<1>13. ASSUME NEW s \in Slots, SkipStep(s), UNCHANGED workerVars PROVE Backed'
  BY <1>13, BackedKept DEF SkipStep, vars, slotVars, workerVars, fileVars
<1>14. ASSUME Start PROVE Backed'
  BY <1>14, BackedKept DEF Start, ActivateOk, TouchedAfterStart, vars, slotVars, workerVars,
        fileVars
<1>15. ASSUME StartFails PROVE Backed'
  BY <1>15, BackedKept DEF StartFails, ActivateFails, MarkDead, vars, slotVars, workerVars,
        fileVars
<1>16. ASSUME Rebind PROVE Backed'
  BY <1>16, CoordinatorAssumption DEF Rebind, Assign, StateAfterSwap, EpochAfterSwap,
        MRInv, IInv, CallsInsidePass, TypeOK, SlotsOK, PoolOK, CallsOK, DriveOK, ReplacingOK,
              WorkersOK, CallsGoToOwners,
        vars, slotVars, poolVars, callVars, driveVars, watchVars, workerVars, fileVars,
              faultVars,
        Backed, OwnersBackTheRecord, Serving, sPending, sLoaded, sMapped, sReduced, sDone,
              SlotStates
<1>17. ASSUME Barrier, UNCHANGED workerVars PROVE Backed'
  BY <1>17, BackedKept DEF Barrier, vars, slotVars, workerVars, fileVars
<1>18. ASSUME NextResult, UNCHANGED workerVars PROVE Backed'
  BY <1>18, BackedKept DEF NextResult, vars, slotVars, workerVars, fileVars
<1>19. ASSUME Exhausted, UNCHANGED workerVars PROVE Backed'
  BY <1>19, BackedKept DEF Exhausted, vars, slotVars, workerVars, fileVars
<1>20. ASSUME Retire, UNCHANGED workerVars PROVE Backed'
  BY <1>20, BackedKept DEF Retire, MarkDead, vars, slotVars, workerVars, fileVars
<1>21. ASSUME NoSpare, UNCHANGED workerVars PROVE Backed'
  BY <1>21, BackedKept DEF NoSpare, vars, slotVars, workerVars, fileVars
<1>22. ASSUME NoActiveHost, UNCHANGED workerVars PROVE Backed'
  BY <1>22, BackedKept DEF NoActiveHost, vars, slotVars, workerVars, fileVars
<1>23. ASSUME NEW h \in Hosts, ClaimSpare(h), UNCHANGED workerVars PROVE Backed'
  BY <1>23, BackedKept DEF ClaimSpare, SparesAfterClaim, LiveSpares, vars, slotVars, workerVars,
        fileVars
<1>24. ASSUME NEW h \in Hosts, ClaimActiveHost(h), UNCHANGED workerVars PROVE Backed'
  BY <1>24, BackedKept DEF ClaimActiveHost, Eligible, vars, slotVars, workerVars, fileVars
<1>25. ASSUME Retry, UNCHANGED workerVars PROVE Backed'
  <2>1. \A t \in Slots : state'[t] = state[t] \/ (state[t] >= sReduced /\ state'[t] = sMapped)
    BY <1>25, Rewinding DEF Retry
  <2>2. up' = up /\ UNCHANGED <<host, input, buckets, cut>> BY <1>25 DEF Retry, workerVars, fileVars
  <2>3. \A t \in Slots : state[t] \in Int BY DEF MRInv, IInv, TypeOK, SlotsOK, SlotStates,
        sPending, sDone
  <2> QED BY <2>1, <2>2, <2>3, BackedKept DEF sLoaded, sMapped, sReduced
<1>26. ASSUME NextDrive, UNCHANGED workerVars PROVE Backed'
  <2>1. \A t \in Slots : state'[t] = state[t] \/ (state[t] >= sReduced /\ state'[t] = sMapped)
    BY <1>26, Rewinding DEF NextDrive
  <2>2. up' = up /\ UNCHANGED <<host, input, buckets, cut>> BY <1>26 DEF NextDrive, workerVars,
        fileVars
  <2>3. \A t \in Slots : state[t] \in Int BY DEF MRInv, IInv, TypeOK, SlotsOK, SlotStates,
        sPending, sDone
  <2> QED BY <2>1, <2>2, <2>3, BackedKept DEF sLoaded, sMapped, sReduced
<1>27. ASSUME Succeed, UNCHANGED workerVars PROVE Backed'
  BY <1>27, BackedKept DEF Succeed, Inspected, Finished, vars, slotVars, workerVars, fileVars
<1>28. ASSUME Terminated, UNCHANGED workerVars PROVE Backed'
  BY <1>28, BackedKept DEF Terminated, vars, slotVars, workerVars, fileVars
<1>29. ASSUME NEW h \in Hosts, Crash(h) PROVE Backed'
  BY <1>29, BackedKept DEF Crash, vars, slotVars, workerVars, fileVars
<1>30. ASSUME PollStart, UNCHANGED workerVars PROVE Backed'
  BY <1>30, BackedKept DEF PollStart, vars, slotVars, workerVars, fileVars
<1>31. ASSUME NEW h \in Hosts, PollOk(h), UNCHANGED workerVars PROVE Backed'
  BY <1>31, BackedKept DEF PollOk, vars, slotVars, workerVars, fileVars
<1>32. ASSUME NEW h \in Hosts, PollFail(h), UNCHANGED workerVars PROVE Backed'
  BY <1>32, BackedKept DEF PollFail, MarkDead, vars, slotVars, workerVars, fileVars
<1>33. CASE UNCHANGED mvars BY <1>33, BackedKept DEF mvars, vars, slotVars, workerVars, fileVars
<1>34. ASSUME NEW s \in Slots, NEW r \in Slots, FlushFails(s, r) PROVE Backed'
  BY <1>34, BackedKept DEF FlushFails, vars, slotVars
<1> QED BY <1>1, <1>2, <1>3, <1>4, <1>5, <1>6, <1>7, <1>8, <1>9, <1>10, <1>11, <1>12, <1>13,
      <1>14, <1>15, <1>16,
       <1>17, <1>18, <1>19, <1>20, <1>21, <1>22, <1>23, <1>24, <1>25, <1>26, <1>27, <1>28,
             <1>29, <1>30, <1>31, <1>32, <1>33, <1>34
       DEF MRNext, Handlers, Control, Health

\* A step on one slot does not touch what the others have reduced.
LEMMA LosslessOthers ==
    ASSUME MRInv, NEW s \in Slots, pc' = "step", UNCHANGED <<host, up, lateSwaps, target>>,
           target >= sReduced => \A t \in Slots : Expected(t)' \subseteq Expected(t),
           \A t \in Slots \ {s} :
               /\ state'[t] = state[t] /\ result'[t] = result[t]
               /\ task'[t].short = task[t].short /\ (step'[t] = "calling" => step[t] = "calling")
               /\ \A h \in Hosts : output'[h][t] = output[h][t],
           target >= sReduced =>
               /\ s \notin lateSwaps => state'[s] >= sMapped
               /\ step'[s] = "calling" => task'[s].short \cap Expected(s) = {}
               /\ state'[s] >= sReduced /\ host[s] \in up => Expected(s) \subseteq output'[host[s]][s]
               /\ state'[s] = sDone => Expected(s) \subseteq result'[s]
    PROVE  Lossless'
<1> SUFFICES ASSUME target >= sReduced, NEW t \in Slots
             PROVE  /\ t \notin lateSwaps => state'[t] >= sMapped
                    /\ step'[t] = "calling" => task'[t].short \cap Expected(t) = {}
                    /\ state'[t] >= sReduced /\ host[t] \in up =>
                         Expected(t) \subseteq output'[host[t]][t]
                    /\ state'[t] = sDone => Expected(t) \subseteq result'[t]
  <2> HIDE DEF Expected
  <2> QED BY DEF Lossless
<1>1. host[t] \in Hosts BY DEF MRInv, IInv, TypeOK, SlotsOK
<1>2. CASE t = s BY <1>2
<1>3. CASE t # s BY <1>1, <1>3 DEF MRInv, Lossless
<1> QED BY <1>2, <1>3

\* Nor does a step that leaves progress and outputs alone.
LEMMA LosslessKept ==
    ASSUME MRInv, up' \subseteq up, UNCHANGED <<host, state, result, lateSwaps, target>>,
           cut \subseteq cut',
           \A t \in Slots : state[t] >= sReduced => output'[host[t]][t] = output[host[t]][t],
           \A t \in Slots : step'[t] = "calling" =>
               step[t] = "calling" /\ task'[t].short = task[t].short,
           pc' = "succeeded" => pc = "succeeded"
    PROVE  Lossless'
<1>1. \A t \in Slots : Expected(t)' \subseteq Expected(t) BY DEF Expected
<1> QED BY <1>1 DEF MRInv, Lossless

\* Typed facts about states that the steps below need.
LEMMA StateNumbers ==
    ASSUME MRInv PROVE target \in 1 .. 4 /\ \A s \in Slots : state[s] \in 0 .. 4
BY DEF MRInv, IInv, TypeOK, SlotsOK, DriveOK, SlotStates, sPending, sLoaded, sDone

\* /load and /data.
LEMMA LoadLossless == ASSUME MRInv, NEW s \in Slots, Load(s) PROVE Lossless'
<1>1. callHost[s] = host[s] /\ host[s] \in Hosts /\ state[s] = sPending /\ pc = "step"
  BY ServedByOwner DEF Load
<1>2. /\ pc' = "step" /\ UNCHANGED <<host, up, lateSwaps, cut, target, result, task>>
      /\ output' = [output EXCEPT ![host[s]][s] = {}]
      /\ state' = [state EXCEPT ![s] = @ + 1]
      /\ step' = [step EXCEPT ![s] = "back"]
  BY <1>1 DEF Load, ReturnOk, driveVars, sPending, sReduced
<1>3. state'[s] = 1 /\ \A t \in Slots \ {s} : state'[t] = state[t]
  BY <1>1, <1>2 DEF MRInv, IInv, TypeOK, SlotsOK, sPending
<1>4. step'[s] = "back" /\ \A t \in Slots \ {s} : step'[t] = step[t]
  BY <1>2 DEF MRInv, IInv, TypeOK, CallsOK
<1>5. \A t \in Slots \ {s}, h \in Hosts : output'[h][t] = output[h][t]
  BY <1>1, <1>2 DEF MRInv, WorkersOK
<1>6. target >= sReduced => s \in lateSwaps
  BY <1>1 DEF MRInv, Lossless, sPending, sMapped
<1>7. ~(state'[s] >= sReduced) /\ state'[s] # sDone BY <1>3 DEF sReduced, sDone
<1>8. \A t \in Slots : Expected(t)' \subseteq Expected(t) BY <1>2 DEF Expected
<1> QED BY <1>2, <1>3, <1>4, <1>5, <1>6, <1>7, <1>8, LosslessOthers

\* /map begins.
LEMMA MapBeginLossless == ASSUME MRInv, NEW s \in Slots, MapBegin(s) PROVE Lossless'
<1>1. callHost[s] = host[s] /\ host[s] \in Hosts /\ state[s] = sLoaded /\ pc = "step"
  BY ServedByOwner DEF MapBegin
<1>2. /\ pc' = "step" /\ UNCHANGED <<host, up, lateSwaps, target, result, state, step>>
      /\ output' = [output EXCEPT ![host[s]][s] = {}]
      /\ cut' = {p \in cut : p[1] # s}
      /\ task' = [task EXCEPT ![s].begun = TRUE]
  BY <1>1 DEF MapBegin, vars, slotVars, driveVars, callVars
<1>3. \A t \in Slots : task'[t].short = task[t].short
  BY <1>2 DEF MRInv, WorkersOK
<1>4. \A t \in Slots \ {s}, h \in Hosts : output'[h][t] = output[h][t]
  BY <1>1, <1>2 DEF MRInv, WorkersOK
<1>5. ~(state'[s] >= sReduced) /\ state'[s] # sDone BY <1>1, <1>2 DEF sLoaded, sReduced, sDone
<1>6. target >= sReduced /\ s \notin lateSwaps => state'[s] >= sMapped
  BY <1>2 DEF MRInv, Lossless
<1>7. target >= sReduced /\ step'[s] = "calling" => task'[s].short \cap Expected(s) = {}
  BY <1>2, <1>3 DEF MRInv, Lossless
<1>8. target >= sReduced => s \in lateSwaps
  BY <1>1 DEF MRInv, Lossless, sLoaded, sMapped
<1>9. target >= sReduced => \A t \in Slots : Expected(t)' \subseteq Expected(t)
  <2> SUFFICES ASSUME target >= sReduced, NEW t \in Slots, NEW i \in WithInput \ lateSwaps,
                      <<i, t>> \notin cut'
               PROVE  <<i, t>> \notin cut
    BY <1>2 DEF Expected
  <2>1. i # s BY <1>8
  <2> QED BY <1>2, <2>1
<1> QED BY <1>2, <1>3, <1>4, <1>5, <1>6, <1>7, <1>9, LosslessOthers

\* A bucket cut is no longer expected to be whole.
LEMMA FlushLossless ==
    ASSUME MRInv, NEW s \in Slots, NEW r \in Slots, FlushFails(s, r) PROVE Lossless'
BY LosslessKept DEF FlushFails, vars, slotVars, callVars, driveVars

\* A handler that fails forgets at most the output of a pending slot.
LEMMA HandlerFailsLossless == ASSUME MRInv, NEW s \in Slots, HandlerFails(s) PROVE Lossless'
<1>1. /\ UNCHANGED <<host, up, state, result, lateSwaps, cut, target, task, pc>>
      /\ step' = [step EXCEPT ![s] = "back"]
  BY DEF HandlerFails, ReturnErr, slotVars, driveVars
<1>2. \A t \in Slots : step'[t] = "calling" => step[t] = "calling"
  BY <1>1 DEF MRInv, IInv, TypeOK, CallsOK
<1>3. \A t \in Slots : state[t] >= sReduced => output'[host[t]][t] = output[host[t]][t]
  <2>1. CASE state[s] = sPending
    <3>1. output' = [output EXCEPT ![callHost[s]][s] = {}] BY <2>1 DEF HandlerFails
    <3>2. \A t \in Slots : state[t] >= sReduced => t # s BY <2>1 DEF sPending, sReduced
    <3> QED BY <3>1, <3>2 DEF MRInv, WorkersOK, IInv, TypeOK, SlotsOK
  <2>2. CASE state[s] # sPending BY <2>2 DEF HandlerFails
  <2> QED BY <2>1, <2>2
<1> QED BY <1>1, <1>2, <1>3, LosslessKept

\* /map ends.
LEMMA MapEndLossless == ASSUME MRInv, NEW s \in Slots, MapEnd(s) PROVE Lossless'
<1>1. state[s] = sLoaded /\ pc = "step" BY ServedByOwner DEF MapEnd
<1>2. /\ pc' = "step" /\ UNCHANGED <<host, up, lateSwaps, cut, target, output, task>>
      /\ state' = [state EXCEPT ![s] = @ + 1]
      /\ step' = [step EXCEPT ![s] = "back"]
      /\ result' = result
  BY <1>1 DEF MapEnd, ReturnOk, driveVars, sLoaded, sReduced
<1>3. state'[s] = 2 /\ \A t \in Slots \ {s} : state'[t] = state[t]
  BY <1>1, <1>2 DEF MRInv, IInv, TypeOK, SlotsOK, sLoaded
<1>4. step'[s] = "back" /\ \A t \in Slots \ {s} : step'[t] = step[t]
  BY <1>2 DEF MRInv, IInv, TypeOK, CallsOK
<1>5. \A t \in Slots : Expected(t)' \subseteq Expected(t) BY <1>2 DEF Expected
<1> QED BY <1>2, <1>3, <1>4, <1>5, LosslessOthers DEF sMapped, sReduced, sDone

\* A fetch comes up short only from a slot that was replaced late or had its
\* bucket cut.
LEMMA FetchLossless == ASSUME MRInv, NEW s \in Slots, NEW i \in Slots, Fetch(s, i) PROVE Lossless'
<1>1. /\ state[s] = sMapped /\ pc = "step" /\ step[s] = "calling" /\ target >= sReduced
  BY ServedByOwner, StateNumbers DEF Fetch, Serving, sMapped, sReduced
<1>2. peers[s][i] = MapPeers[i] /\ peers[s][i] # NoHost
  BY <1>1 DEF Fetch, Wanted, MRInv, IInv, OwnersAtReduce
<1>3. i \in WithInput /\ peers[s][i] = host[i] BY <1>2 DEF MapPeers
<1>4. peers[s][i] \in up /\ s \notin buckets[peers[s][i]][i] => i \notin Expected(s)
  BY <1>1, <1>3 DEF MRInv, Lossless, Backed, OwnersBackTheRecord, Expected
<1>5. /\ pc' = "step"
      /\ UNCHANGED <<host, up, lateSwaps, cut, target, result, state, step, output>>
  BY <1>1 DEF Fetch, vars, slotVars, driveVars, callVars, fileVars
<1>6. task'[s].short \in {task[s].short, task[s].short \cup {i}}
      /\ (task'[s].short # task[s].short => peers[s][i] \in up /\ s \notin buckets[peers[s][i]][i])
  BY DEF Fetch, MRInv, WorkersOK
<1>7. \A t \in Slots \ {s} : task'[t] = task[t]
  BY DEF Fetch, MRInv, WorkersOK
<1>8. task'[s].short \cap Expected(s) = {}
  BY <1>1, <1>4, <1>6 DEF MRInv, Lossless
<1>9. /\ s \notin lateSwaps => state[s] >= sMapped
      /\ state[s] >= sReduced /\ host[s] \in up => Expected(s) \subseteq output[host[s]][s]
      /\ state[s] = sDone => Expected(s) \subseteq result[s]
  BY <1>1 DEF MRInv, Lossless
<1>10. \A t \in Slots : Expected(t)' \subseteq Expected(t) BY <1>5 DEF Expected
<1> QED BY <1>5, <1>7, <1>8, <1>9, <1>10, LosslessOthers

\* /reduce ends with everything but what was lost late.
LEMMA ReduceLossless == ASSUME MRInv, NEW s \in Slots, Reduce(s) PROVE Lossless'
<1>1. /\ callHost[s] = host[s] /\ host[s] \in Hosts /\ state[s] = sMapped /\ pc = "step"
      /\ step[s] = "calling" /\ target >= sReduced
  BY ServedByOwner, StateNumbers DEF Reduce, Fetched, Serving, sMapped, sReduced
<1>2. peers[s] = MapPeers BY <1>1 DEF MRInv, IInv, OwnersAtReduce
<1>3. WithInput \subseteq Wanted(s)
  <2> SUFFICES ASSUME NEW i \in WithInput PROVE i \in Slots /\ peers[s][i] # NoHost
    BY DEF Wanted
  <2>1. i \in Slots /\ host[i] \in Hosts /\ Hosts \subseteq Nat
    BY CoordinatorAssumption DEF MRInv, IInv, TypeOK, SlotsOK
  <2> QED BY <1>2, <2>1 DEF MapPeers, NoHost
<1>4. task[s].short \cap Expected(s) = {} BY <1>1 DEF MRInv, Lossless
<1>5. Wanted(s) \subseteq task[s].got \cup task[s].short BY DEF Reduce, Fetched, Attempted
<1>6. Expected(s) \subseteq task[s].got BY <1>3, <1>4, <1>5 DEF Expected
<1>7. /\ pc' = "step" /\ UNCHANGED <<host, up, lateSwaps, cut, target, task, result>>
      /\ output' = [output EXCEPT ![host[s]][s] = task[s].got]
      /\ state' = [state EXCEPT ![s] = @ + 1]
      /\ step' = [step EXCEPT ![s] = "back"]
  BY <1>1 DEF Reduce, ReturnOk, driveVars, sMapped, sReduced
<1>8. state'[s] = 3 /\ \A t \in Slots \ {s} : state'[t] = state[t]
  BY <1>1, <1>7 DEF MRInv, IInv, TypeOK, SlotsOK, sMapped
<1>9. step'[s] = "back" /\ \A t \in Slots \ {s} : step'[t] = step[t]
  BY <1>7 DEF MRInv, IInv, TypeOK, CallsOK
<1>10. output'[host[s]][s] = task[s].got
       /\ \A t \in Slots \ {s}, h \in Hosts : output'[h][t] = output[h][t]
  BY <1>1, <1>7 DEF MRInv, WorkersOK
<1>11. \A t \in Slots : Expected(t)' \subseteq Expected(t) BY <1>7 DEF Expected
<1> QED BY <1>6, <1>7, <1>8, <1>9, <1>10, <1>11, LosslessOthers DEF sMapped, sReduced, sDone

\* /result hands over the output of the owner.
LEMMA ResultLossless == ASSUME MRInv, NEW s \in Slots, Result(s) PROVE Lossless'
<1>1. /\ callHost[s] = host[s] /\ host[s] \in up /\ state[s] = sReduced /\ pc = "step"
      /\ target >= sReduced
  BY ServedByOwner, StateNumbers DEF Result, sReduced
<1>2. Expected(s) \subseteq output[host[s]][s]
  BY <1>1 DEF MRInv, Lossless, sReduced
<1>3. /\ pc' = "step" /\ UNCHANGED <<host, up, lateSwaps, cut, target, task, output>>
      /\ result' = [result EXCEPT ![s] = output[host[s]][s]]
      /\ state' = [state EXCEPT ![s] = @ + 1]
      /\ step' = [step EXCEPT ![s] = "back"]
  BY <1>1 DEF Result, ReturnOk, driveVars, workerVars, fileVars
<1>4. state'[s] = 4 /\ \A t \in Slots \ {s} : state'[t] = state[t]
  BY <1>1, <1>3 DEF MRInv, IInv, TypeOK, SlotsOK, sReduced
<1>5. step'[s] = "back" /\ \A t \in Slots \ {s} : step'[t] = step[t]
  BY <1>3 DEF MRInv, IInv, TypeOK, CallsOK
<1>6. result'[s] = output[host[s]][s] /\ \A t \in Slots \ {s} : result'[t] = result[t]
  BY <1>3 DEF MRInv, IInv, TypeOK, SlotsOK
<1>7. \A t \in Slots : Expected(t)' \subseteq Expected(t) BY <1>3 DEF Expected
<1> QED BY <1>2, <1>3, <1>4, <1>5, <1>6, <1>7, LosslessOthers DEF sMapped, sReduced, sDone

\* A call is sent with a task of its own.
LEMMA SendLossless == ASSUME MRInv, NEW s \in Slots, Send(s) PROVE Lossless'
<1>1. /\ pc' = "step" /\ UNCHANGED <<host, up, lateSwaps, cut, target, output, state, result>>
      /\ task' = [task EXCEPT ![s] = NewTask]
      /\ step' = [step EXCEPT ![s] = "calling"]
  BY DEF Send, StartStep, driveVars, slotVars, fileVars
<1>2. task'[s].short = {} /\ \A t \in Slots \ {s} : task'[t] = task[t] /\ step'[t] = step[t]
  BY <1>1 DEF NewTask, MRInv, WorkersOK, IInv, TypeOK, CallsOK
<1>3. target >= sReduced =>
        /\ s \notin lateSwaps => state[s] >= sMapped
        /\ state[s] >= sReduced /\ host[s] \in up => Expected(s) \subseteq output[host[s]][s]
        /\ state[s] = sDone => Expected(s) \subseteq result[s]
  BY DEF MRInv, Lossless
<1>4. \A t \in Slots : Expected(t)' \subseteq Expected(t) BY <1>1 DEF Expected
<1> QED BY <1>1, <1>2, <1>3, <1>4, LosslessOthers

\* A swap during the reduce or collect drive is on the list.
LEMMA RebindLossless == ASSUME MRInv, Rebind PROVE Lossless'
<1> DEFINE c == err[idx]
<1>1. c \in Slots /\ pc = "assign" BY DEF Rebind, Assign, MRInv, IInv, TypeOK, ReplacingOK
<1>2. /\ host' = [host EXCEPT ![c] = cand] /\ state' = [state EXCEPT ![c] = sPending]
      /\ lateSwaps' = IF target >= sReduced THEN lateSwaps \cup {c} ELSE lateSwaps
      /\ pc' = "inspect" /\ UNCHANGED <<up, cut, target, result, output, step, task>>
  BY DEF Rebind, Assign, StateAfterSwap, driveVars, callVars, fileVars
<1>3. \A t \in Slots : step[t] = "back" BY <1>1 DEF MRInv, IInv, CallsInsidePass
<1> HIDE DEF c
<1>4. \A t \in Slots \ {c} : host'[t] = host[t] /\ state'[t] = state[t] BY <1>2
<1>5. state'[c] = 0 BY <1>1, <1>2 DEF MRInv, IInv, TypeOK, SlotsOK, sPending
<1>6. target >= sReduced => c \in lateSwaps' BY <1>2
<1>7. \A t \in Slots : Expected(t)' \subseteq Expected(t) BY <1>2 DEF Expected
<1>8. ASSUME target >= sReduced, NEW t \in Slots
      PROVE  /\ t \notin lateSwaps' => state'[t] >= sMapped
             /\ state'[t] >= sReduced /\ host'[t] \in up' => Expected(t)' \subseteq output'[host'[t]][t]
             /\ state'[t] = sDone => Expected(t)' \subseteq result'[t]
  <2>1. CASE t = c BY <1>5, <1>6, <1>8, <2>1 DEF sReduced, sDone
  <2>2. CASE t # c BY <1>2, <1>4, <1>7, <1>8, <2>2 DEF MRInv, Lossless
  <2> QED BY <2>1, <2>2
<1> QED BY <1>2, <1>3, <1>8 DEF Lossless

\* A new pass may take reduces back, never maps.
LEMMA NewPassLossless == ASSUME MRInv, Retry \/ NextDrive, UNCHANGED workerVars PROVE Lossless'
<1>1. \A t \in Slots : (state'[t] = state[t] /\ result'[t] = result[t])
                          \/ (state[t] >= sReduced /\ state'[t] = sMapped)
  BY DEF Retry, NextDrive, RewindStale, Stale
<1>2. UNCHANGED <<host, up, output, lateSwaps, cut>> /\ pc' = "step" /\ \A t \in Slots : step'[t] = "todo"
  BY DEF Retry, NextDrive, NewPass, workerVars, fileVars
<1>3. target \in 1 .. 4 /\ \A t \in Slots : state[t] \in 0 .. 4 /\ state[t] <= target
  BY StateNumbers DEF MRInv, IInv, NeverPastTarget
<1>4. \A t \in Slots : Expected(t)' = Expected(t) BY <1>2 DEF Expected
<1>5. ASSUME target' >= sReduced, NEW t \in Slots
      PROVE  /\ t \notin lateSwaps => state[t] >= sMapped
             /\ state[t] >= sReduced /\ host[t] \in up => Expected(t) \subseteq output[host[t]][t]
             /\ state[t] = sDone => Expected(t) \subseteq result[t]
  <2>1. CASE target >= sReduced BY <2>1 DEF MRInv, Lossless
  <2>2. CASE ~(target >= sReduced)
    <3>1. target = sMapped /\ NextDrive
      BY <1>3, <1>5, <2>2 DEF Retry, NextDrive, NewPass, sMapped, sReduced
    <3>2. state[t] = sMapped BY <1>3, <3>1 DEF NextDrive, Finished, sMapped
    <3> QED BY <3>2 DEF sMapped, sReduced, sDone
  <2> QED BY <2>1, <2>2
<1>6. ASSUME target' >= sReduced, NEW t \in Slots
      PROVE  /\ t \notin lateSwaps' => state'[t] >= sMapped
             /\ state'[t] >= sReduced /\ host'[t] \in up' => Expected(t)' \subseteq output'[host'[t]][t]
             /\ state'[t] = sDone => Expected(t)' \subseteq result'[t]
  BY <1>1, <1>2, <1>4, <1>5, <1>6 DEF sMapped, sReduced, sDone
<1> QED BY <1>2, <1>6 DEF Lossless

\* Only late swaps and cut buckets cost a reduce anything.
LEMMA LosslessStep == ASSUME MRInv, TypeOK', [MRNext]_mvars PROVE Lossless'
<1>1. ASSUME NEW s \in Slots, Load(s) PROVE Lossless'
  BY <1>1, LoadLossless
<1>2. ASSUME NEW s \in Slots, MapBegin(s) PROVE Lossless'
  BY <1>2, MapBeginLossless
<1>3. ASSUME NEW s \in Slots, MapEnd(s) PROVE Lossless'
  BY <1>3, MapEndLossless
<1>4. ASSUME NEW s \in Slots, NEW i \in Slots, Fetch(s, i) PROVE Lossless'
  BY <1>4, FetchLossless
<1>5. ASSUME NEW s \in Slots, NEW i \in Slots, FetchFails(s, i) PROVE Lossless'
  <2>1. \A t \in Slots : task'[t].short = task[t].short
    BY <1>5 DEF FetchFails, MRInv, WorkersOK
  <2> QED BY <1>5, <2>1, LosslessKept DEF FetchFails, vars, slotVars, poolVars, callVars,
        driveVars, workerVars, fileVars, faultVars
<1>6. ASSUME NEW s \in Slots, NEW i \in Slots, ReduceNamesPeer(s, i) PROVE Lossless'
  <2>1. \A t \in Slots : step'[t] = "calling" => step[t] = "calling"
    BY <1>6 DEF ReduceNamesPeer, ReturnErr, Fetched, MRInv, IInv, TypeOK, CallsOK
  <2> QED BY <1>6, <2>1, LosslessKept DEF ReduceNamesPeer, ReturnErr, Fetched, vars, slotVars,
        poolVars, callVars, driveVars, workerVars, fileVars, faultVars
<1>7. ASSUME NEW s \in Slots, Reduce(s) PROVE Lossless'
  BY <1>7, ReduceLossless
<1>8. ASSUME NEW s \in Slots, Result(s) PROVE Lossless'
  BY <1>8, ResultLossless
<1>9. ASSUME NEW s \in Slots, HandlerFails(s) PROVE Lossless'
  BY <1>9, HandlerFailsLossless
<1>10. ASSUME NEW s \in Slots, Refused(s) PROVE Lossless'
  <2>1. \A t \in Slots : step'[t] = "calling" => step[t] = "calling"
    BY <1>10 DEF Refused, ReturnErr, MRInv, IInv, TypeOK, CallsOK
  <2> QED BY <1>10, <2>1, LosslessKept DEF Refused, ReturnErr, vars, slotVars, poolVars,
        callVars, driveVars, workerVars, fileVars, faultVars
<1>11. ASSUME NEW s \in Slots, Lose(s) PROVE Lossless'
  <2>1. \A t \in Slots : step'[t] = "calling" => step[t] = "calling"
    BY <1>11 DEF Lose, ReturnErr, MRInv, IInv, TypeOK, CallsOK
  <2> QED BY <1>11, <2>1, LosslessKept DEF Lose, ReturnErr, vars, slotVars, poolVars, callVars,
        driveVars, workerVars, fileVars, faultVars
<1>12. ASSUME NEW s \in Slots, Send(s) PROVE Lossless'
  BY <1>12, SendLossless
<1>13. ASSUME NEW s \in Slots, SkipStep(s), UNCHANGED workerVars PROVE Lossless'
  <2>1. \A t \in Slots : step'[t] = "calling" => step[t] = "calling"
    BY <1>13 DEF SkipStep, MRInv, IInv, TypeOK, CallsOK
  <2> QED BY <1>13, <2>1, LosslessKept DEF SkipStep, vars, slotVars, poolVars, callVars,
        driveVars, workerVars, fileVars, faultVars
<1>14. ASSUME Start PROVE Lossless'
  BY <1>14, LosslessKept DEF Start, ActivateOk, TouchedAfterStart, vars, slotVars, poolVars,
        callVars, driveVars, workerVars, fileVars, faultVars
<1>15. ASSUME StartFails PROVE Lossless'
  BY <1>15, LosslessKept DEF StartFails, ActivateFails, MarkDead, vars, slotVars, poolVars,
        callVars, driveVars, workerVars, fileVars, faultVars
<1>16. ASSUME Rebind PROVE Lossless'
  BY <1>16, RebindLossless
<1>17. ASSUME Barrier, UNCHANGED workerVars PROVE Lossless'
  BY <1>17, LosslessKept DEF Barrier, vars, slotVars, poolVars, callVars, driveVars, workerVars,
        fileVars, faultVars
<1>18. ASSUME NextResult, UNCHANGED workerVars PROVE Lossless'
  BY <1>18, LosslessKept DEF NextResult, vars, slotVars, poolVars, callVars, driveVars,
        workerVars, fileVars, faultVars
<1>19. ASSUME Exhausted, UNCHANGED workerVars PROVE Lossless'
  BY <1>19, LosslessKept DEF Exhausted, vars, slotVars, poolVars, callVars, driveVars,
        workerVars, fileVars, faultVars
<1>20. ASSUME Retire, UNCHANGED workerVars PROVE Lossless'
  BY <1>20, LosslessKept DEF Retire, MarkDead, vars, slotVars, poolVars, callVars, driveVars,
        workerVars, fileVars, faultVars
<1>21. ASSUME NoSpare, UNCHANGED workerVars PROVE Lossless'
  BY <1>21, LosslessKept DEF NoSpare, vars, slotVars, poolVars, callVars, driveVars, workerVars,
        fileVars, faultVars
<1>22. ASSUME NoActiveHost, UNCHANGED workerVars PROVE Lossless'
  BY <1>22, LosslessKept DEF NoActiveHost, vars, slotVars, poolVars, callVars, driveVars,
        workerVars, fileVars, faultVars
<1>23. ASSUME NEW h \in Hosts, ClaimSpare(h), UNCHANGED workerVars PROVE Lossless'
  BY <1>23, LosslessKept DEF ClaimSpare, SparesAfterClaim, LiveSpares, vars, slotVars, poolVars,
        callVars, driveVars, workerVars, fileVars, faultVars
<1>24. ASSUME NEW h \in Hosts, ClaimActiveHost(h), UNCHANGED workerVars PROVE Lossless'
  BY <1>24, LosslessKept DEF ClaimActiveHost, Eligible, vars, slotVars, poolVars, callVars,
        driveVars, workerVars, fileVars, faultVars
<1>25. ASSUME Retry, UNCHANGED workerVars PROVE Lossless'
  BY <1>25, NewPassLossless
<1>26. ASSUME NextDrive, UNCHANGED workerVars PROVE Lossless'
  BY <1>26, NewPassLossless
<1>27. ASSUME Succeed, UNCHANGED workerVars PROVE Lossless'
  <2>1. \A t \in Slots : state[t] = sDone
    BY <1>27, StateNumbers DEF Succeed, Finished, sDone
  <2>2. UNCHANGED <<host, state, result, target, step, up, output, lateSwaps, cut, task>>
    BY <1>27 DEF Succeed, slotVars, driveVars, callVars, workerVars, fileVars
  <2>3. \A t \in Slots : Expected(t)' = Expected(t) BY <2>2 DEF Expected
  <2> QED BY <2>1, <2>2, <2>3 DEF MRInv, Lossless
<1>28. ASSUME Terminated, UNCHANGED workerVars PROVE Lossless'
  BY <1>28, LosslessKept DEF Terminated, vars, slotVars, poolVars, callVars, driveVars,
        workerVars, fileVars, faultVars
<1>29. ASSUME NEW h \in Hosts, Crash(h) PROVE Lossless'
  BY <1>29, LosslessKept DEF Crash, vars, slotVars, poolVars, callVars, driveVars, workerVars,
        fileVars, faultVars
<1>30. ASSUME PollStart, UNCHANGED workerVars PROVE Lossless'
  BY <1>30, LosslessKept DEF PollStart, vars, slotVars, poolVars, callVars, driveVars,
        workerVars, fileVars, faultVars
<1>31. ASSUME NEW h \in Hosts, PollOk(h), UNCHANGED workerVars PROVE Lossless'
  BY <1>31, LosslessKept DEF PollOk, vars, slotVars, poolVars, callVars, driveVars, workerVars,
        fileVars, faultVars
<1>32. ASSUME NEW h \in Hosts, PollFail(h), UNCHANGED workerVars PROVE Lossless'
  BY <1>32, LosslessKept DEF PollFail, MarkDead, vars, slotVars, poolVars, callVars, driveVars,
        workerVars, fileVars, faultVars
<1>33. CASE UNCHANGED mvars BY <1>33, LosslessKept DEF mvars, vars, slotVars, poolVars,
      callVars, driveVars, workerVars, fileVars, faultVars
<1>34. ASSUME NEW s \in Slots, NEW r \in Slots, FlushFails(s, r) PROVE Lossless'
  BY <1>34, FlushLossless
<1> QED BY <1>1, <1>2, <1>3, <1>4, <1>5, <1>6, <1>7, <1>8, <1>9, <1>10, <1>11, <1>12, <1>13,
      <1>14, <1>15, <1>16,
       <1>17, <1>18, <1>19, <1>20, <1>21, <1>22, <1>23, <1>24, <1>25, <1>26, <1>27, <1>28,
             <1>29, <1>30, <1>31, <1>32, <1>33, <1>34
       DEF MRNext, Handlers, Control, Health

\* Without a fault so far, nothing has to be taken care of.
LEMMA QuietKept ==
    ASSUME MRInv, crashes' + lost' = 0 => crashes + lost = 0,
           crashes + lost = 0 => /\ up' = up /\ epoch' = epoch
                                 /\ pc' \in {"step", "inspect", "succeeded"}
                                 /\ \A s \in Slots : /\ err'[s] \in {err[s], NoErr}
                                                     /\ task'[s].failed \in {task[s].failed, {}}
    PROVE  Quiet'
BY DEF MRInv, Quiet

\* A call fails, a host is swapped or a job given up only after a fault.
LEMMA QuietStep == ASSUME MRInv, TypeOK', [MRNext]_mvars PROVE Quiet'
<1>1. ASSUME NEW s \in Slots, Load(s) PROVE Quiet'
  BY <1>1, QuietKept DEF Load, ReturnOk, MRInv, IInv, TypeOK, CallsOK, WorkersOK, Quiet, vars,
        slotVars, poolVars, callVars, driveVars, watchVars, workerVars, fileVars, faultVars
<1>2. ASSUME NEW s \in Slots, MapBegin(s) PROVE Quiet'
  BY <1>2, QuietKept DEF MapBegin, MRInv, IInv, TypeOK, CallsOK, WorkersOK, Quiet, vars,
        slotVars, poolVars, callVars, driveVars, watchVars, workerVars, fileVars, faultVars
<1>3. ASSUME NEW s \in Slots, MapEnd(s) PROVE Quiet'
  BY <1>3, QuietKept DEF MapEnd, ReturnOk, MRInv, IInv, TypeOK, CallsOK, WorkersOK, Quiet, vars,
        slotVars, poolVars, callVars, driveVars, watchVars, workerVars, fileVars, faultVars
<1>4. ASSUME NEW s \in Slots, NEW i \in Slots, Fetch(s, i) PROVE Quiet'
  <2>1. crashes + lost = 0 => peers[s][i] \in up
    BY <1>4 DEF Fetch, Wanted, MRInv, IInv, TypeOK, CallsOK, Quiet
  <2>2. /\ UNCHANGED <<crashes, lost, up, epoch, pc, err>>
        /\ \A t \in Slots \ {s} : task'[t] = task[t]
        /\ peers[s][i] \in up => task'[s].failed = task[s].failed
    BY <1>4 DEF Fetch, MRInv, WorkersOK, vars, callVars, faultVars
  <2> QED BY <2>1, <2>2, QuietKept DEF MRInv, Quiet
<1>5. ASSUME NEW s \in Slots, NEW i \in Slots, FetchFails(s, i) PROVE Quiet'
  BY <1>5, QuietKept DEF FetchFails, MRInv, IInv, TypeOK, CallsOK, WorkersOK, Quiet, vars,
        slotVars, poolVars, callVars, driveVars, watchVars, workerVars, fileVars, faultVars
<1>6. ASSUME NEW s \in Slots, NEW i \in Slots, ReduceNamesPeer(s, i) PROVE Quiet'
  BY <1>6, QuietKept DEF ReduceNamesPeer, ReturnErr, Fetched, MRInv, IInv, TypeOK, CallsOK,
        WorkersOK, Quiet, vars, slotVars, poolVars, callVars, driveVars, watchVars, workerVars,
        fileVars, faultVars
<1>7. ASSUME NEW s \in Slots, Reduce(s) PROVE Quiet'
  BY <1>7, QuietKept DEF Reduce, ReturnOk, Fetched, MRInv, IInv, TypeOK, CallsOK, WorkersOK,
        Quiet, vars, slotVars, poolVars, callVars, driveVars, watchVars, workerVars, fileVars,
        faultVars
<1>8. ASSUME NEW s \in Slots, Result(s) PROVE Quiet'
  BY <1>8, QuietKept DEF Result, ReturnOk, MRInv, IInv, TypeOK, CallsOK, WorkersOK, Quiet, vars,
        slotVars, poolVars, callVars, driveVars, watchVars, workerVars, fileVars, faultVars
<1>9. ASSUME NEW s \in Slots, HandlerFails(s) PROVE Quiet'
  BY <1>9, QuietKept DEF HandlerFails, ReturnErr, MRInv, IInv, TypeOK, CallsOK, WorkersOK,
        Quiet, vars, slotVars, poolVars, callVars, driveVars, watchVars, workerVars, fileVars,
        faultVars
<1>10. ASSUME NEW s \in Slots, Refused(s) PROVE Quiet'
  <2>1. callHost[s] = host[s] /\ host[s] \in Hosts /\ state[s] \in 0 .. 4
    BY <1>10, StateNumbers DEF Refused, MRInv, IInv, TypeOK, SlotsOK, CallsGoToOwners
  <2>2. crashes + lost # 0
    BY <1>10, <2>1 DEF Refused, Known, MRInv, Backed, Quiet, sLoaded, sMapped
  <2> QED BY <1>10, <2>2 DEF Refused, Quiet, workerVars, faultVars
<1>11. ASSUME NEW s \in Slots, Lose(s) PROVE Quiet'
  BY <1>11, QuietKept DEF Lose, ReturnErr, MRInv, IInv, TypeOK, CallsOK, WorkersOK, Quiet, vars,
        slotVars, poolVars, callVars, driveVars, watchVars, workerVars, fileVars, faultVars
<1>12. ASSUME NEW s \in Slots, Send(s) PROVE Quiet'
  BY <1>12, QuietKept DEF NewTask, Send, StartStep, MRInv, IInv, TypeOK, CallsOK, WorkersOK,
        Quiet, vars, slotVars, poolVars, callVars, driveVars, watchVars, workerVars, fileVars,
        faultVars
<1>13. ASSUME NEW s \in Slots, SkipStep(s), UNCHANGED workerVars PROVE Quiet'
  BY <1>13, QuietKept DEF SkipStep, MRInv, IInv, TypeOK, CallsOK, WorkersOK, Quiet, vars,
        slotVars, poolVars, callVars, driveVars, watchVars, workerVars, fileVars, faultVars
<1>14. ASSUME Start PROVE Quiet'
  BY <1>14, QuietKept DEF Start, ActivateOk, TouchedAfterStart, MRInv, IInv, TypeOK, CallsOK,
        WorkersOK, Quiet, vars, slotVars, poolVars, callVars, driveVars, watchVars, workerVars,
        fileVars, faultVars
<1>15. ASSUME StartFails PROVE Quiet'
  BY <1>15, QuietKept DEF StartFails, ActivateFails, MarkDead, MRInv, IInv, TypeOK, CallsOK,
        WorkersOK, Quiet, vars, slotVars, poolVars, callVars, driveVars, watchVars, workerVars,
        fileVars, faultVars
<1>16. ASSUME Rebind PROVE Quiet'
  BY <1>16, QuietKept DEF Rebind, Assign, StateAfterSwap, EpochAfterSwap, MRInv, IInv, TypeOK,
        CallsOK, WorkersOK, Quiet, vars, slotVars, poolVars, callVars, driveVars, watchVars,
        workerVars, fileVars, faultVars
<1>17. ASSUME Barrier, UNCHANGED workerVars PROVE Quiet'
  BY <1>17, QuietKept DEF Barrier, MRInv, IInv, TypeOK, CallsOK, WorkersOK, Quiet, vars,
        slotVars, poolVars, callVars, driveVars, watchVars, workerVars, fileVars, faultVars
<1>18. ASSUME NextResult, UNCHANGED workerVars PROVE Quiet'
  BY <1>18, QuietKept DEF NextResult, MRInv, IInv, TypeOK, CallsOK, WorkersOK, Quiet, vars,
        slotVars, poolVars, callVars, driveVars, watchVars, workerVars, fileVars, faultVars
<1>19. ASSUME Exhausted, UNCHANGED workerVars PROVE Quiet'
  <2>1. crashes + lost # 0
    BY <1>19, CulpritIsSlot DEF Exhausted, MRInv, IInv, Quiet
  <2> QED BY <1>19, <2>1 DEF Quiet, workerVars, faultVars
<1>20. ASSUME Retire, UNCHANGED workerVars PROVE Quiet'
  <2>1. crashes + lost # 0
    BY <1>20, CulpritIsSlot DEF Retire, MRInv, IInv, Quiet
  <2> QED BY <1>20, <2>1 DEF Quiet, workerVars, faultVars
<1>21. ASSUME NoSpare, UNCHANGED workerVars PROVE Quiet'
  BY <1>21, QuietKept DEF NoSpare, MRInv, IInv, TypeOK, CallsOK, WorkersOK, Quiet, vars,
        slotVars, poolVars, callVars, driveVars, watchVars, workerVars, fileVars, faultVars
<1>22. ASSUME NoActiveHost, UNCHANGED workerVars PROVE Quiet'
  BY <1>22, QuietKept DEF NoActiveHost, MRInv, IInv, TypeOK, CallsOK, WorkersOK, Quiet, vars,
        slotVars, poolVars, callVars, driveVars, watchVars, workerVars, fileVars, faultVars
<1>23. ASSUME NEW h \in Hosts, ClaimSpare(h), UNCHANGED workerVars PROVE Quiet'
  BY <1>23, QuietKept DEF ClaimSpare, SparesAfterClaim, LiveSpares, MRInv, IInv, TypeOK,
        CallsOK, WorkersOK, Quiet, vars, slotVars, poolVars, callVars, driveVars, watchVars,
        workerVars, fileVars, faultVars
<1>24. ASSUME NEW h \in Hosts, ClaimActiveHost(h), UNCHANGED workerVars PROVE Quiet'
  BY <1>24, QuietKept DEF ClaimActiveHost, Eligible, MRInv, IInv, TypeOK, CallsOK, WorkersOK,
        Quiet, vars, slotVars, poolVars, callVars, driveVars, watchVars, workerVars, fileVars,
        faultVars
<1>25. ASSUME Retry, UNCHANGED workerVars PROVE Quiet'
  BY <1>25, QuietKept DEF Retry, RewindStale, NewPass, Inspected, MRInv, IInv, TypeOK, CallsOK,
        WorkersOK, Quiet, vars, slotVars, poolVars, callVars, driveVars, watchVars, workerVars,
        fileVars, faultVars
<1>26. ASSUME NextDrive, UNCHANGED workerVars PROVE Quiet'
  BY <1>26, QuietKept DEF NextDrive, RewindStale, NewPass, Inspected, MRInv, IInv, TypeOK,
        CallsOK, WorkersOK, Quiet, vars, slotVars, poolVars, callVars, driveVars, watchVars,
        workerVars, fileVars, faultVars
<1>27. ASSUME Succeed, UNCHANGED workerVars PROVE Quiet'
  BY <1>27, QuietKept DEF Succeed, Inspected, Finished, MRInv, IInv, TypeOK, CallsOK, WorkersOK,
        Quiet, vars, slotVars, poolVars, callVars, driveVars, watchVars, workerVars, fileVars,
        faultVars
<1>28. ASSUME Terminated, UNCHANGED workerVars PROVE Quiet'
  BY <1>28, QuietKept DEF Terminated, MRInv, IInv, TypeOK, CallsOK, WorkersOK, Quiet, vars,
        slotVars, poolVars, callVars, driveVars, watchVars, workerVars, fileVars, faultVars
<1>29. ASSUME NEW h \in Hosts, Crash(h) PROVE Quiet'
  BY <1>29, QuietKept DEF Crash, MRInv, IInv, TypeOK, CallsOK, WorkersOK, Quiet, vars, slotVars,
        poolVars, callVars, driveVars, watchVars, workerVars, fileVars, faultVars
<1>30. ASSUME PollStart, UNCHANGED workerVars PROVE Quiet'
  BY <1>30, QuietKept DEF PollStart, MRInv, IInv, TypeOK, CallsOK, WorkersOK, Quiet, vars,
        slotVars, poolVars, callVars, driveVars, watchVars, workerVars, fileVars, faultVars
<1>31. ASSUME NEW h \in Hosts, PollOk(h), UNCHANGED workerVars PROVE Quiet'
  BY <1>31, QuietKept DEF PollOk, MRInv, IInv, TypeOK, CallsOK, WorkersOK, Quiet, vars,
        slotVars, poolVars, callVars, driveVars, watchVars, workerVars, fileVars, faultVars
<1>32. ASSUME NEW h \in Hosts, PollFail(h), UNCHANGED workerVars PROVE Quiet'
  BY <1>32, QuietKept DEF PollFail, MarkDead, MRInv, IInv, TypeOK, CallsOK, WorkersOK, Quiet,
        vars, slotVars, poolVars, callVars, driveVars, watchVars, workerVars, fileVars,
        faultVars
<1>33. CASE UNCHANGED mvars
  BY <1>33, QuietKept DEF mvars, MRInv, IInv, TypeOK, CallsOK, WorkersOK, Quiet, vars, slotVars,
        poolVars, callVars, driveVars, watchVars, workerVars, fileVars, faultVars
<1>34. ASSUME NEW s \in Slots, NEW r \in Slots, FlushFails(s, r) PROVE Quiet'
  BY <1>34, QuietKept DEF FlushFails, MRInv, IInv, TypeOK, CallsOK, WorkersOK, Quiet, vars,
        slotVars, poolVars, callVars, driveVars, watchVars, workerVars, fileVars, faultVars
<1> QED BY <1>1, <1>2, <1>3, <1>4, <1>5, <1>6, <1>7, <1>8, <1>9, <1>10, <1>11, <1>12, <1>13,
      <1>14, <1>15, <1>16,
       <1>17, <1>18, <1>19, <1>20, <1>21, <1>22, <1>23, <1>24, <1>25, <1>26, <1>27, <1>28,
             <1>29, <1>30, <1>31, <1>32, <1>33, <1>34
       DEF MRNext, Handlers, Control, Health

-----------------------------------------------------------------------------
(* The theorems *)

\* The invariant holds at the start.
LEMMA MRInitInv == MRInit => MRInv
<1> SUFFICES ASSUME MRInit PROVE MRInv OBVIOUS
<1>1. IInv BY InitIInv DEF MRInit
<1>2. WorkersOK BY MapReduceAssumption DEF MRInit, WorkersOK, NewTask
<1>3. CallsGoToOwners /\ GivenUp BY DEF MRInit, Init, CallsGoToOwners, GivenUp
<1>4. Backed
  BY DEF MRInit, Init, Backed, OwnersBackTheRecord, sPending, sLoaded, sMapped
<1>5. Lossless
  BY DEF MRInit, Init, Lossless, sPending, sLoaded, sReduced, sDone
<1>6. Quiet BY DEF MRInit, Init, Quiet, NewTask
<1> QED BY <1>1, <1>2, <1>3, <1>4, <1>5, <1>6 DEF MRInv

\* Every step keeps it.
LEMMA MRNextInv == MRInv /\ [MRNext]_mvars => MRInv'
<1> SUFFICES ASSUME MRInv, [MRNext]_mvars PROVE MRInv' OBVIOUS
<1>1. [Next]_vars BY StepIsCoordinators DEF MRInv, IInv
<1>2. IInv' BY <1>1, NextIInv DEF MRInv
<1>3. TypeOK' BY <1>2 DEF IInv
<1>4. WorkersOK' /\ CallsGoToOwners' /\ GivenUp' BY <1>3, WorkersOKStep, CallsStep, GivenUpStep
<1>5. Backed' /\ Lossless' /\ Quiet' BY <1>3, BackedStep, LosslessStep, QuietStep
<1> QED BY <1>2, <1>4, <1>5 DEF MRInv

\* It is an invariant of the coordinator and its workers together.
LEMMA MRInvariance == MRSpec => []MRInv
BY MRInitInv, MRNextInv, PTL DEF MRSpec

\* The workers give the coordinator no outcome it does not allow for, so that
\* what holds of Coordinator holds of the two together.
THEOREM WorkersFitCoordinator == MRSpec => Spec
<1>1. MRInit => Init BY DEF MRInit
<1>2. MRInv /\ [MRNext]_mvars => [Next]_vars BY StepIsCoordinators DEF MRInv, IInv
<1> QED BY <1>1, <1>2, MRInvariance, PTL DEF MRSpec, Spec

\* Every variable of the coordinator and of the workers has its type, and a
\* call in flight is one to the present owner of its slot.
THEOREM MRTypeCorrect == MRSpec => []MRTypeOK
<1>1. MRInv => MRTypeOK BY DEF MRInv, IInv, WorkersOK, CallsGoToOwners, MRTypeOK
<1> QED BY <1>1, MRInvariance, PTL

\* The progress on record is backed by the files of the present owner, but for
\* the bucket files whose writing failed unnoticed in the last /map.
THEOREM RecordIsBacked == MRSpec => []OwnersBackTheRecord
<1>1. MRInv => OwnersBackTheRecord BY DEF MRInv, Backed
<1> QED BY <1>1, MRInvariance, PTL

\* No worker is asked for a slot it may still be working on.
THEOREM HandlersDoNotOverlap == MRSpec => []NoOverlappingHandlers
<1>1. MRInv => NoOverlappingHandlers
  <2> SUFFICES ASSUME MRInv, NEW s \in Slots, step[s] = "calling"
               PROVE  <<callHost[s], s>> \notin abandoned
    BY DEF NoOverlappingHandlers
  <2>1. callHost[s] = host[s] /\ host[s] \in Hosts /\ pc = "step"
    BY DEF MRInv, IInv, TypeOK, SlotsOK, CallsInsidePass, CallsGoToOwners
  <2> QED BY <2>1 DEF MRInv, GivenUp, Pending, Replacing
<1> QED BY <1>1, MRInvariance, PTL

\* A reducer of a finished job lacks the data of slots replaced late and of
\* slots whose last /map cut its bucket, and of no others.
THEOREM OnlySwapsAndCutsCost == MRSpec => []OnlySwapsAndCutsLose
<1>1. MRInv => OnlySwapsAndCutsLose
  <2> SUFFICES ASSUME MRInv, pc = "succeeded", NEW r \in Slots, NEW i \in WithInput \ result[r]
               PROVE  i \in lateSwaps \/ <<i, r>> \in cut
    BY DEF OnlySwapsAndCutsLose
  <2>1. state[r] = sDone /\ target >= sReduced
    BY DEF MRInv, IInv, SuccessIsQuiet, Lossless, sReduced, sDone
  <2>2. Expected(r) \subseteq result[r] BY <2>1 DEF MRInv, Lossless
  <2> QED BY <2>2 DEF Expected
<1> QED BY <1>1, MRInvariance, PTL

\* Without a fault no host is swapped and no job fails, however slow workers
\* seem to the health watcher.
THEOREM NoSwapWithoutFault == MRSpec => []SwapsNeedFaults
<1>1. MRInv => SwapsNeedFaults BY DEF MRInv, Quiet, SwapsNeedFaults
<1> QED BY <1>1, MRInvariance, PTL
=============================================================================
