-------------------------- MODULE CoordinatorProofs --------------------------
(* Proofs about Coordinator, for every number of slots and hosts, every      *)
(* attempt limit and every behaviour of the workers and the health watcher.  *)
EXTENDS Coordinator, TLAPS

USE CoordinatorAssumption DEF CoordinatorAssumption

-----------------------------------------------------------------------------
(* The inductive invariant *)

\* A goroutine awaits an answer only inside a pass, for a slot that is still
\* below the target; past the barrier all of them are back.
CallsInsidePass ==
    \A s \in Slots :
      /\ step[s] = "calling" => pc = "step" /\ state[s] < target
      /\ pc # "step" => step[s] = "back"

\* No slot runs ahead of the drive.
NeverPastTarget == \A s \in Slots : state[s] <= target

\* The epoch moves only between the barrier and the end of a pass, and only
\* with a swap, which keeps the drive from returning.
EpochWithinPass ==
    /\ startEpoch <= epoch
    /\ pc = "step" => ~replaced
    /\ ~replaced => epoch = startEpoch

\* Every reduce on record was completed at the epoch its pass began with, or
\* in the present pass.
StampsWithinPass ==
    \A s \in Slots : state[s] >= sReduced =>
        startEpoch <= reduceEpoch[s] /\ reduceEpoch[s] <= epoch

\* A reduce of the present epoch, and one in flight, used the present owners.
OwnersAtReduce ==
    \A s \in Slots :
      /\ state[s] >= sReduced /\ reduceEpoch[s] = epoch => peers[s] = MapPeers
      /\ step[s] = "calling" /\ state[s] = sMapped => peers[s] = MapPeers

\* A job that has succeeded did so at the end of a pass without a swap.
SuccessIsQuiet == pc = "succeeded" => ~replaced /\ target = sDone

IInv ==
    /\ TypeOK
    /\ CallsInsidePass
    /\ NeverPastTarget
    /\ EpochWithinPass
    /\ StampsWithinPass
    /\ OwnersAtReduce
    /\ SuccessIsQuiet

-----------------------------------------------------------------------------
(* Types *)

\* Initially every variable has its type.
LEMMA InitTypeOK == Init => TypeOK
<1> SUFFICES ASSUME Init PROVE TypeOK
  OBVIOUS
<1> USE DEF Init, Slots, Blank, SlotStates, sPending, sLoaded, sMapped, sReduced,
        sDone, NoHost, NoErr
<1>1. SlotsOK /\ PoolOK
  BY DEF SlotsOK, PoolOK
<1>2. CallsOK
  BY DEF CallsOK
<1>3. DriveOK
  <2>1. target \in sLoaded .. sDone /\ startEpoch \in Nat /\ idx \in 0 .. N
    OBVIOUS
  <2>2. replaced \in BOOLEAN /\ cand \in Hosts \cup {NoHost}
    OBVIOUS
  <2> QED BY <2>1, <2>2 DEF DriveOK
<1>4. WatchOK
  BY DEF WatchOK
<1>5. ReplacingOK
  BY DEF ReplacingOK
<1> QED BY <1>1, <1>2, <1>3, <1>4, <1>5 DEF TypeOK

\* A result in error leads to a slot.
LEMMA CulpritIsSlot ==
  ASSUME TypeOK, idx < N, err[idx] # NoErr
  PROVE  idx \in Slots /\ err[idx] \in Slots
<1>1. idx \in Slots
  BY DEF TypeOK, DriveOK, Slots
<1> QED BY <1>1 DEF TypeOK, CallsOK

\* Charging any slot an attempt keeps the counters natural numbers.
LEMMA NewAttempts ==
  ASSUME TypeOK, NEW s \in Slots PROVE [attempts EXCEPT ![s] = @ + 1] \in [Slots -> Nat]
  BY DEF TypeOK, SlotsOK

\* Every step preserves the types; a slot is below the target, hence below
\* sDone, when its call succeeds.
LEMMA NextTypeOK == TypeOK /\ CallsInsidePass /\ [Next]_vars => TypeOK'
<1> SUFFICES ASSUME TypeOK, CallsInsidePass, [Next]_vars PROVE TypeOK'
  OBVIOUS
<1>a. UNCHANGED slotVars => SlotsOK'
  BY DEF TypeOK, SlotsOK, slotVars
<1>b. UNCHANGED poolVars => PoolOK'
  BY DEF TypeOK, PoolOK, poolVars
<1>c. UNCHANGED callVars => CallsOK'
  BY DEF TypeOK, CallsOK, callVars
<1>d. UNCHANGED driveVars => DriveOK'
  BY DEF TypeOK, DriveOK, driveVars
<1>e. UNCHANGED watchVars => WatchOK'
  BY DEF TypeOK, WatchOK, watchVars
<1>1. ASSUME NEW s \in Slots, SkipStep(s) PROVE TypeOK'
  <2>1. CallsOK'
    BY <1>1 DEF SkipStep, TypeOK, CallsOK, SlotsOK
  <2>2. ReplacingOK'
    BY <1>1 DEF SkipStep, ReplacingOK
  <2> QED BY <1>1, <1>a, <1>b, <1>d, <1>e, <2>1, <2>2 DEF SkipStep, TypeOK
<1>2. ASSUME NEW s \in Slots, StartStep(s) PROVE TypeOK'
  <2>1. /\ Blank \in [Slots -> Hosts \cup {NoHost}]
        /\ MapPeers \in [Slots -> Hosts \cup {NoHost}]
        /\ host \in [Slots -> Hosts \cup {NoHost}]
        /\ peers[s] \in [Slots -> Hosts \cup {NoHost}]
    BY DEF Blank, MapPeers, TypeOK, SlotsOK, CallsOK
  <2>2. CallsOK'
    BY <1>2, <2>1 DEF StartStep, TypeOK, CallsOK, SlotsOK
  <2>3. ReplacingOK'
    BY <1>2 DEF StartStep, ReplacingOK
  <2> QED BY <1>2, <1>a, <1>b, <1>d, <1>e, <2>2, <2>3 DEF StartStep, TypeOK
<1>3. ASSUME NEW s \in Slots, NEW kvs \in Payloads, ReturnOk(s, kvs) PROVE TypeOK'
  <2>1. state[s] + 1 \in SlotStates
    <3>1. state[s] \in 0 .. 4 /\ target \in 1 .. 4
      BY DEF TypeOK, SlotsOK, DriveOK, SlotStates, sPending, sLoaded, sDone
    <3>2. state[s] < target
      BY <1>3 DEF ReturnOk, CallsInsidePass
    <3> QED BY <3>1, <3>2 DEF SlotStates, sPending, sDone
  <2>2. SlotsOK'
    BY <1>3, <2>1 DEF ReturnOk, TypeOK, SlotsOK
  <2>3. CallsOK'
    BY <1>3 DEF ReturnOk, TypeOK, CallsOK
  <2>4. ReplacingOK'
    BY <1>3 DEF ReturnOk, ReplacingOK
  <2> QED BY <1>3, <1>b, <1>d, <1>e, <2>2, <2>3, <2>4 DEF ReturnOk, TypeOK
<1>4. ASSUME NEW s \in Slots, NEW c \in Slots, ReturnErr(s, c) PROVE TypeOK'
  <2>1. CallsOK'
    BY <1>4 DEF ReturnErr, TypeOK, CallsOK
  <2>2. ReplacingOK'
    BY <1>4 DEF ReturnErr, ReplacingOK
  <2> QED BY <1>4, <1>a, <1>b, <1>d, <1>e, <2>1, <2>2 DEF ReturnErr, TypeOK
<1>5. CASE Barrier
  <2>1. ReplacingOK'
    BY <1>5 DEF Barrier, ReplacingOK
  <2> QED BY <1>5, <1>a, <1>b, <1>c, <1>d, <1>e, <2>1 DEF Barrier, TypeOK
<1>6. CASE NextResult
  <2>1. DriveOK' /\ ReplacingOK'
    BY <1>6 DEF NextResult, TypeOK, DriveOK, ReplacingOK
  <2> QED BY <1>6, <1>a, <1>b, <1>c, <1>e, <2>1 DEF NextResult, TypeOK
<1>7. CASE Exhausted
  <2>1. SlotsOK' /\ ReplacingOK'
    BY <1>7, CulpritIsSlot, NewAttempts DEF Exhausted, TypeOK, SlotsOK, ReplacingOK
  <2> QED BY <1>7, <1>b, <1>c, <1>d, <1>e, <2>1 DEF Exhausted, TypeOK
<1>8. CASE Retire
  <2>1. idx \in Slots /\ err[idx] \in Slots
    BY <1>8, CulpritIsSlot DEF Retire
  <2>2. SlotsOK'
    BY <1>8, <2>1, NewAttempts DEF Retire, TypeOK, SlotsOK
  <2>3. PoolOK'
    BY <1>8, <2>1 DEF Retire, MarkDead, TypeOK, PoolOK, SlotsOK
  <2>4. ReplacingOK'
    BY <1>8, <2>1 DEF Retire, ReplacingOK, callVars, driveVars
  <2> QED BY <1>8, <1>c, <1>d, <1>e, <2>2, <2>3, <2>4 DEF Retire, TypeOK
<1>9. ASSUME NEW h \in Hosts, ClaimSpare(h) PROVE TypeOK'
  <2>1. PoolOK'
    BY <1>9 DEF ClaimSpare, SparesAfterClaim, TypeOK, PoolOK
  <2>2. DriveOK' /\ ReplacingOK'
    BY <1>9 DEF ClaimSpare, TypeOK, DriveOK, ReplacingOK, callVars
  <2> QED BY <1>9, <1>a, <1>c, <1>e, <2>1, <2>2 DEF ClaimSpare, TypeOK
<1>10. CASE ActivateOk
  <2>1. PoolOK' /\ ReplacingOK'
    BY <1>10 DEF ActivateOk, TouchedAfterStart, TypeOK, PoolOK, ReplacingOK,
                 callVars, driveVars
  <2> QED BY <1>10, <1>a, <1>c, <1>d, <1>e, <2>1 DEF ActivateOk, TypeOK
<1>11. CASE ActivateFails
  <2>1. PoolOK' /\ DriveOK' /\ ReplacingOK'
    BY <1>11 DEF ActivateFails, MarkDead, TypeOK, PoolOK, DriveOK, ReplacingOK, callVars
  <2> QED BY <1>11, <1>a, <1>c, <1>e, <2>1 DEF ActivateFails, TypeOK
<1>12. CASE NoSpare
  <2>1. ReplacingOK'
    BY <1>12 DEF NoSpare, TypeOK, ReplacingOK, callVars, driveVars
  <2> QED BY <1>12, <1>a, <1>b, <1>c, <1>d, <1>e, <2>1 DEF NoSpare, TypeOK
<1>13. ASSUME NEW h \in Hosts, ClaimActiveHost(h) PROVE TypeOK'
  <2>1. DriveOK' /\ ReplacingOK'
    BY <1>13 DEF ClaimActiveHost, TypeOK, DriveOK, ReplacingOK, callVars
  <2> QED BY <1>13, <1>a, <1>b, <1>c, <1>e, <2>1 DEF ClaimActiveHost, TypeOK
<1>14. CASE NoActiveHost
  <2>1. ReplacingOK'
    BY <1>14 DEF NoActiveHost, ReplacingOK
  <2> QED BY <1>14, <1>a, <1>b, <1>c, <1>d, <1>e, <2>1 DEF NoActiveHost, TypeOK
<1>15. CASE Assign
  <2>1. cand \in Hosts /\ idx < N /\ err[idx] \in Slots
    BY <1>15 DEF Assign, TypeOK, ReplacingOK
  <2>2. SlotsOK'
    BY <1>15, <2>1 DEF Assign, StateAfterSwap, TypeOK, SlotsOK, SlotStates, sPending, sDone
  <2>3. DriveOK' /\ ReplacingOK'
    BY <1>15, <2>1 DEF Assign, TypeOK, DriveOK, ReplacingOK
  <2> QED BY <1>15, <1>b, <1>c, <1>e, <2>2, <2>3 DEF Assign, EpochAfterSwap, TypeOK
<1>16. ASSUME RewindStale PROVE /\ state' \in [Slots -> SlotStates]
                                /\ result' \in [Slots -> Payloads \cup {NoResult}]
  BY <1>16 DEF RewindStale, TypeOK, SlotsOK, SlotStates, sPending, sMapped, sDone
<1>17. ASSUME NEW t \in sLoaded .. sDone, NewPass(t), UNCHANGED <<peers, cand>>
       PROVE  CallsOK' /\ DriveOK' /\ ReplacingOK'
  <2>1. CallsOK'
    BY <1>17 DEF NewPass, Blank, TypeOK, CallsOK
  <2>2. DriveOK'
    <3>1. epoch \in Nat /\ 0 \in 0 .. N
      BY DEF TypeOK
    <3> QED BY <1>17, <3>1 DEF NewPass, TypeOK, DriveOK
  <2>3. ReplacingOK'
    BY <1>17 DEF NewPass, ReplacingOK
  <2> QED BY <2>1, <2>2, <2>3
<1>18. CASE Retry
  <2>1. SlotsOK'
    BY <1>16, <1>18 DEF Retry, TypeOK, SlotsOK
  <2>2. CallsOK' /\ DriveOK' /\ ReplacingOK'
    BY <1>17, <1>18 DEF Retry, TypeOK, DriveOK
  <2> QED BY <1>18, <1>b, <1>e, <2>1, <2>2 DEF Retry, NewPass, TypeOK
<1>19. CASE NextDrive
  <2>1. SlotsOK'
    BY <1>16, <1>19 DEF NextDrive, TypeOK, SlotsOK
  <2>2. target + 1 \in sLoaded .. sDone
    BY <1>19 DEF NextDrive, TypeOK, DriveOK, sLoaded, sDone
  <2>3. CallsOK' /\ DriveOK' /\ ReplacingOK'
    BY <1>17, <1>19, <2>2 DEF NextDrive
  <2> QED BY <1>19, <1>b, <1>e, <2>1, <2>3 DEF NextDrive, NewPass, TypeOK
<1>20. CASE Succeed
  <2>1. ReplacingOK'
    BY <1>20 DEF Succeed, ReplacingOK
  <2> QED BY <1>20, <1>a, <1>b, <1>c, <1>d, <1>e, <2>1 DEF Succeed, TypeOK
<1>f. UNCHANGED <<callVars, driveVars, pc>> => ReplacingOK'
  BY DEF TypeOK, ReplacingOK, callVars, driveVars
<1>21. CASE PollStart
  <2>1. WatchOK'
    BY <1>21 DEF PollStart, TypeOK, WatchOK, SlotsOK
  <2> QED BY <1>21, <1>a, <1>b, <1>c, <1>d, <1>f, <2>1 DEF PollStart, TypeOK
<1>22. ASSUME NEW h \in Hosts, PollOk(h) PROVE TypeOK'
  <2>1. WatchOK'
    BY <1>22 DEF PollOk, TypeOK, WatchOK
  <2> QED BY <1>22, <1>a, <1>b, <1>c, <1>d, <1>f, <2>1 DEF PollOk, TypeOK
<1>23. ASSUME NEW h \in Hosts, PollFail(h) PROVE TypeOK'
  <2>1. WatchOK'
    BY <1>23 DEF PollFail, TypeOK, WatchOK
  <2>2. PoolOK'
    BY <1>23 DEF PollFail, MarkDead, TypeOK, PoolOK
  <2> QED BY <1>23, <1>a, <1>c, <1>d, <1>f, <2>1, <2>2 DEF PollFail, TypeOK
<1>24. CASE UNCHANGED vars
  BY <1>24, <1>a, <1>b, <1>c, <1>d, <1>e, <1>f DEF vars, TypeOK
<1> QED
  BY <1>1, <1>2, <1>3, <1>4, <1>5, <1>6, <1>7, <1>8, <1>9, <1>10, <1>11, <1>12,
     <1>13, <1>14, <1>15, <1>18, <1>19, <1>20, <1>21, <1>22, <1>23, <1>24
     DEF Next, Steps, Inspect, Watch, Terminated

-----------------------------------------------------------------------------
(* The inductive invariant *)

\* The initial state satisfies the inductive invariant.
LEMMA InitIInv == Init => IInv
<1> SUFFICES ASSUME Init PROVE IInv
  OBVIOUS
<1>1. TypeOK
  BY InitTypeOK
<1>2. CallsInsidePass /\ EpochWithinPass /\ SuccessIsQuiet
  BY DEF Init, CallsInsidePass, EpochWithinPass, SuccessIsQuiet
<1>3. NeverPastTarget /\ StampsWithinPass /\ OwnersAtReduce
  BY DEF Init, NeverPastTarget, StampsWithinPass, OwnersAtReduce, sPending, sLoaded,
         sMapped, sReduced
<1> QED BY <1>1, <1>2, <1>3 DEF IInv

\* The invariants that mention only the slots, the calls and the drive survive
\* every step that leaves those alone.
LEMMA StutterIInv ==
  ASSUME IInv, TypeOK',
         UNCHANGED <<host, state, reduceEpoch, epoch, step, peers, target,
                     startEpoch, replaced, pc>>
  PROVE  IInv'
<1>1. CallsInsidePass' /\ NeverPastTarget'
  BY DEF IInv, CallsInsidePass, NeverPastTarget
<1>2. EpochWithinPass' /\ StampsWithinPass' /\ SuccessIsQuiet'
  BY DEF IInv, EpochWithinPass, StampsWithinPass, SuccessIsQuiet
<1>3. OwnersAtReduce'
  BY DEF IInv, OwnersAtReduce, MapPeers
<1> QED BY <1>1, <1>2, <1>3 DEF IInv

\* So do they when the driving goroutine moves on between the barrier and the
\* end of the pass without touching a slot's host, state or stamp.
LEMMA ControlIInv ==
  ASSUME IInv, TypeOK',
         UNCHANGED <<host, state, reduceEpoch, epoch, step, peers, target,
                     startEpoch, replaced>>,
         pc # "step", pc' \notin {"step", "succeeded"}
  PROVE  IInv'
<1>1. CallsInsidePass' /\ NeverPastTarget'
  BY DEF IInv, CallsInsidePass, NeverPastTarget
<1>2. EpochWithinPass' /\ StampsWithinPass' /\ SuccessIsQuiet'
  BY DEF IInv, EpochWithinPass, StampsWithinPass, SuccessIsQuiet
<1>3. OwnersAtReduce'
  BY DEF IInv, OwnersAtReduce, MapPeers
<1> QED BY <1>1, <1>2, <1>3 DEF IInv

\* The rewind leaves only reduces of the present epoch: a slot that is still
\* reduced was reduced in this pass, or no host was swapped in it.
LEMMA RewindIsFresh ==
  ASSUME IInv, RewindStale, NEW s \in Slots
  PROVE  /\ state'[s] <= state[s]
         /\ state'[s] >= sReduced => state'[s] = state[s] /\ reduceEpoch[s] = epoch
<1>1. /\ state[s] \in 0 .. 4 /\ target \in 1 .. 4
      /\ reduceEpoch[s] \in Nat /\ epoch \in Nat /\ startEpoch \in Nat
  BY DEF IInv, TypeOK, SlotsOK, DriveOK, SlotStates, sPending, sLoaded, sDone
<1>2. state'[s] = IF Stale(s) THEN sMapped ELSE state[s]
  BY DEF RewindStale
<1>3. CASE Stale(s)
  BY <1>1, <1>2, <1>3 DEF Stale, sMapped, sReduced
<1>4. CASE ~Stale(s) /\ state[s] >= sReduced
  <2>1. target >= sReduced
    BY <1>1, <1>4 DEF IInv, NeverPastTarget, sReduced
  <2>2. startEpoch <= reduceEpoch[s] /\ reduceEpoch[s] <= epoch
    BY <1>4 DEF IInv, StampsWithinPass
  <2> QED BY <1>1, <1>2, <1>4, <2>1, <2>2 DEF Stale
<1>5. CASE ~Stale(s) /\ ~(state[s] >= sReduced)
  BY <1>1, <1>2, <1>5
<1> QED BY <1>3, <1>4, <1>5

\* A pass that begins after the rewind satisfies the invariant.
LEMMA NewPassIInv ==
  ASSUME IInv, TypeOK', RewindStale, NewPass(target'), target <= target',
         UNCHANGED <<host, reduceEpoch, epoch, peers>>
  PROVE  IInv'
<1>0. target \in 1 .. 4 /\ target' \in 1 .. 4 /\ epoch \in Nat
  BY DEF IInv, TypeOK, DriveOK, sLoaded, sDone
<1>1. CallsInsidePass'
  BY DEF NewPass, CallsInsidePass
<1>2. NeverPastTarget'
  <2> SUFFICES ASSUME NEW s \in Slots PROVE state'[s] <= target'
    BY DEF NeverPastTarget
  <2>1. state[s] <= target /\ state'[s] <= state[s]
    BY RewindIsFresh DEF IInv, NeverPastTarget
  <2>2. state[s] \in 0 .. 4 /\ state'[s] \in 0 .. 4
    BY DEF IInv, TypeOK, SlotsOK, SlotStates, sPending, sDone
  <2> QED BY <1>0, <2>1, <2>2
<1>3. EpochWithinPass' /\ SuccessIsQuiet'
  BY <1>0 DEF NewPass, EpochWithinPass, SuccessIsQuiet
<1>4. StampsWithinPass'
  BY <1>0, RewindIsFresh DEF NewPass, StampsWithinPass
<1>5. OwnersAtReduce'
  <2> SUFFICES ASSUME NEW s \in Slots, state'[s] >= sReduced PROVE peers'[s] = MapPeers'
    BY DEF NewPass, OwnersAtReduce
  <2>1. state[s] >= sReduced /\ reduceEpoch[s] = epoch
    BY RewindIsFresh
  <2>2. peers[s] = MapPeers
    BY <2>1 DEF IInv, OwnersAtReduce
  <2> QED BY <2>2 DEF MapPeers
<1> QED BY <1>1, <1>2, <1>3, <1>4, <1>5 DEF IInv

\* Every step preserves the inductive invariant.
LEMMA NextIInv == IInv /\ [Next]_vars => IInv'
<1> SUFFICES ASSUME IInv, [Next]_vars PROVE IInv'
  OBVIOUS
<1>0. TypeOK'
  BY NextTypeOK DEF IInv
<1>1. ASSUME NEW s \in Slots, SkipStep(s) PROVE IInv'
  <2>1. CallsInsidePass' /\ NeverPastTarget'
    BY <1>1 DEF SkipStep, slotVars, driveVars, IInv, TypeOK, CallsOK, CallsInsidePass,
                NeverPastTarget
  <2>2. EpochWithinPass' /\ StampsWithinPass' /\ SuccessIsQuiet'
    BY <1>1 DEF SkipStep, slotVars, driveVars, IInv, EpochWithinPass, StampsWithinPass,
                SuccessIsQuiet
  <2>3. OwnersAtReduce'
    BY <1>1 DEF SkipStep, slotVars, IInv, TypeOK, CallsOK, OwnersAtReduce, MapPeers
  <2> QED BY <1>0, <2>1, <2>2, <2>3 DEF IInv
<1>2. ASSUME NEW s \in Slots, StartStep(s) PROVE IInv'
  <2>1. CallsInsidePass' /\ NeverPastTarget'
    BY <1>2 DEF StartStep, slotVars, driveVars, IInv, TypeOK, CallsOK, CallsInsidePass,
                NeverPastTarget
  <2>2. EpochWithinPass' /\ StampsWithinPass' /\ SuccessIsQuiet'
    BY <1>2 DEF StartStep, slotVars, driveVars, IInv, EpochWithinPass, StampsWithinPass,
                SuccessIsQuiet
  <2>3. OwnersAtReduce'
    <3> SUFFICES ASSUME NEW r \in Slots
                 PROVE  /\ state[r] >= sReduced /\ reduceEpoch[r] = epoch => peers'[r] = MapPeers
                        /\ step'[r] = "calling" /\ state[r] = sMapped => peers'[r] = MapPeers
      BY <1>2 DEF StartStep, slotVars, OwnersAtReduce, MapPeers
    <3>1. CASE r = s
      <4>1. state[r] \in 0 .. 4
        BY DEF IInv, TypeOK, SlotsOK, SlotStates, sPending, sDone
      <4>2. state[r] >= sReduced => peers'[r] = peers[r]
        BY <1>2, <3>1, <4>1 DEF StartStep, IInv, TypeOK, CallsOK, sPending, sLoaded,
                                sMapped, sReduced
      <4>3. state[r] = sMapped => peers'[r] = MapPeers
        BY <1>2, <3>1, <4>1 DEF StartStep, IInv, TypeOK, CallsOK, sPending, sLoaded, sMapped
      <4> QED BY <4>2, <4>3 DEF IInv, OwnersAtReduce
    <3>2. CASE r # s
      BY <1>2, <3>2 DEF StartStep, IInv, TypeOK, CallsOK, OwnersAtReduce
    <3> QED BY <3>1, <3>2
  <2> QED BY <1>0, <2>1, <2>2, <2>3 DEF IInv
<1>3. ASSUME NEW s \in Slots, NEW kvs \in Payloads, ReturnOk(s, kvs) PROVE IInv'
  <2>1. /\ state[s] < target /\ state[s] \in 0 .. 4 /\ target \in 1 .. 4
        /\ pc = "step" /\ step[s] = "calling" /\ pc' = pc
        /\ epoch = startEpoch /\ epoch \in Nat
    BY <1>3 DEF ReturnOk, IInv, CallsInsidePass, EpochWithinPass, TypeOK, SlotsOK,
                DriveOK, SlotStates, sPending, sLoaded, sDone
  <2>2. /\ state' = [state EXCEPT ![s] = state[s] + 1]
        /\ step' = [step EXCEPT ![s] = "back"]
        /\ reduceEpoch' = IF state[s] = sMapped
                            THEN [reduceEpoch EXCEPT ![s] = epoch] ELSE reduceEpoch
        /\ UNCHANGED <<host, epoch, startEpoch, target, replaced, peers, pc>>
    BY <1>3 DEF ReturnOk, driveVars
  <2>3. CallsInsidePass' /\ NeverPastTarget'
    BY <2>1, <2>2 DEF IInv, TypeOK, SlotsOK, CallsOK, CallsInsidePass, NeverPastTarget
  <2>4. EpochWithinPass' /\ SuccessIsQuiet'
    BY <2>1, <2>2 DEF IInv, EpochWithinPass, SuccessIsQuiet
  <2>5. StampsWithinPass' /\ OwnersAtReduce'
    <3> SUFFICES ASSUME NEW r \in Slots
                 PROVE  /\ state'[r] >= sReduced =>
                             startEpoch <= reduceEpoch'[r] /\ reduceEpoch'[r] <= epoch
                        /\ state'[r] >= sReduced /\ reduceEpoch'[r] = epoch =>
                             peers[r] = MapPeers
                        /\ step'[r] = "calling" /\ state'[r] = sMapped => peers[r] = MapPeers
      BY <2>2 DEF StampsWithinPass, OwnersAtReduce, MapPeers
    <3>1. CASE r # s
      <4>1. state'[r] = state[r] /\ step'[r] = step[r] /\ reduceEpoch'[r] = reduceEpoch[r]
        BY <2>2, <3>1 DEF IInv, TypeOK, SlotsOK, CallsOK
      <4> QED BY <4>1 DEF IInv, StampsWithinPass, OwnersAtReduce
    <3>2. CASE r = s /\ state[s] = sMapped
      <4>1. reduceEpoch'[s] = epoch /\ step'[s] = "back"
        BY <2>2, <3>2 DEF IInv, TypeOK, SlotsOK, CallsOK
      <4>2. peers[s] = MapPeers
        BY <2>1, <3>2 DEF IInv, OwnersAtReduce
      <4> QED BY <2>1, <3>2, <4>1, <4>2
    <3>3. CASE r = s /\ state[s] # sMapped
      <4>1. state'[s] = state[s] + 1 /\ reduceEpoch'[s] = reduceEpoch[s] /\ step'[s] = "back"
        BY <2>2, <3>3 DEF IInv, TypeOK, SlotsOK, CallsOK
      <4>2. state'[s] >= sReduced => state[s] >= sReduced
        BY <2>1, <3>3, <4>1 DEF sMapped, sReduced
      <4> QED BY <3>3, <4>1, <4>2 DEF IInv, StampsWithinPass, OwnersAtReduce
    <3> QED BY <3>1, <3>2, <3>3
  <2> QED BY <1>0, <2>3, <2>4, <2>5 DEF IInv
<1>4. ASSUME NEW s \in Slots, NEW c \in Slots, ReturnErr(s, c) PROVE IInv'
  <2>1. CallsInsidePass' /\ NeverPastTarget'
    BY <1>4 DEF ReturnErr, slotVars, driveVars, IInv, TypeOK, CallsOK, CallsInsidePass,
                NeverPastTarget
  <2>2. EpochWithinPass' /\ StampsWithinPass' /\ SuccessIsQuiet'
    BY <1>4 DEF ReturnErr, slotVars, driveVars, IInv, EpochWithinPass, StampsWithinPass,
                SuccessIsQuiet
  <2>3. OwnersAtReduce'
    BY <1>4 DEF ReturnErr, slotVars, IInv, TypeOK, CallsOK, OwnersAtReduce, MapPeers
  <2> QED BY <1>0, <2>1, <2>2, <2>3 DEF IInv
<1>5. CASE Barrier
  <2>1. CallsInsidePass' /\ NeverPastTarget'
    BY <1>5 DEF Barrier, slotVars, callVars, driveVars, IInv, CallsInsidePass, NeverPastTarget
  <2>2. EpochWithinPass' /\ StampsWithinPass' /\ SuccessIsQuiet'
    BY <1>5 DEF Barrier, slotVars, driveVars, IInv, EpochWithinPass, StampsWithinPass,
                SuccessIsQuiet
  <2>3. OwnersAtReduce'
    BY <1>5 DEF Barrier, slotVars, callVars, IInv, OwnersAtReduce, MapPeers
  <2> QED BY <1>0, <2>1, <2>2, <2>3 DEF IInv
<1>6. CASE NextResult
  BY <1>0, <1>6, StutterIInv DEF NextResult, slotVars, callVars
<1>7. CASE Exhausted
  BY <1>0, <1>7, ControlIInv DEF Exhausted, callVars, driveVars
<1>8. CASE Retire
  BY <1>0, <1>8, ControlIInv DEF Retire, callVars, driveVars
<1>9. ASSUME NEW h \in Hosts, ClaimSpare(h) PROVE IInv'
  BY <1>0, <1>9, ControlIInv DEF ClaimSpare, slotVars, callVars
<1>10. CASE ActivateOk
  BY <1>0, <1>10, ControlIInv DEF ActivateOk, slotVars, callVars, driveVars
<1>11. CASE ActivateFails
  BY <1>0, <1>11, ControlIInv DEF ActivateFails, slotVars, callVars
<1>12. CASE NoSpare
  BY <1>0, <1>12, ControlIInv DEF NoSpare, slotVars, callVars, driveVars
<1>13. ASSUME NEW h \in Hosts, ClaimActiveHost(h) PROVE IInv'
  BY <1>0, <1>13, ControlIInv DEF ClaimActiveHost, slotVars, callVars
<1>14. CASE NoActiveHost
  BY <1>0, <1>14, ControlIInv DEF NoActiveHost, slotVars, callVars, driveVars
<1>15. CASE Assign
  <2>1. /\ idx < N /\ err[idx] \in Slots /\ epoch \in Nat /\ startEpoch \in Nat
        /\ startEpoch <= epoch
    BY <1>15 DEF Assign, IInv, TypeOK, ReplacingOK, DriveOK, EpochWithinPass
  <2>2. PICK c \in Slots : c = err[idx]
    BY <2>1
  <2>3. /\ state' = [state EXCEPT ![c] = sPending]
        /\ reduceEpoch' = [reduceEpoch EXCEPT ![c] = 0]
        /\ epoch' = epoch + 1 /\ replaced' = TRUE
        /\ pc = "assign" /\ pc' = "inspect"
        /\ UNCHANGED <<step, peers, target, startEpoch>>
    BY <1>15, <2>2 DEF Assign, StateAfterSwap, EpochAfterSwap, callVars
  <2>4. CallsInsidePass' /\ NeverPastTarget'
    BY <2>3 DEF IInv, TypeOK, SlotsOK, DriveOK, CallsInsidePass, NeverPastTarget,
                sPending, sLoaded, sDone
  <2>5. EpochWithinPass' /\ SuccessIsQuiet'
    BY <2>1, <2>3 DEF EpochWithinPass, SuccessIsQuiet
  <2>6. ASSUME NEW r \in Slots, state'[r] >= sReduced
        PROVE  /\ r # c /\ state[r] >= sReduced /\ reduceEpoch'[r] = reduceEpoch[r]
               /\ startEpoch <= reduceEpoch[r] /\ reduceEpoch[r] <= epoch
    <3>1. r # c
      BY <2>3, <2>6 DEF IInv, TypeOK, SlotsOK, sPending, sReduced
    <3>2. state'[r] = state[r] /\ reduceEpoch'[r] = reduceEpoch[r]
      BY <2>3, <3>1 DEF IInv, TypeOK, SlotsOK
    <3> QED BY <2>6, <3>1, <3>2 DEF IInv, StampsWithinPass
  <2>7. reduceEpoch \in [Slots -> Nat]
    BY DEF IInv, TypeOK, SlotsOK
  <2>8. StampsWithinPass'
    BY <2>1, <2>3, <2>6, <2>7 DEF StampsWithinPass
  <2>9. \A r \in Slots : step[r] = "back"
    BY <2>3 DEF IInv, CallsInsidePass
  <2>10. OwnersAtReduce'
    BY <2>1, <2>3, <2>6, <2>7, <2>9 DEF OwnersAtReduce
  <2> QED BY <1>0, <2>4, <2>5, <2>8, <2>10 DEF IInv
<1>16. CASE Retry
  <2>1. target' = target /\ target \in Int
    BY <1>16 DEF Retry, NewPass, IInv, TypeOK, DriveOK
  <2> QED BY <1>0, <1>16, <2>1, NewPassIInv DEF Retry
<1>17. CASE NextDrive
  <2>1. target' = target + 1 /\ target \in Int
    BY <1>17 DEF NextDrive, NewPass, IInv, TypeOK, DriveOK
  <2> QED BY <1>0, <1>17, <2>1, NewPassIInv DEF NextDrive
<1>18. CASE Succeed
  <2>1. /\ pc = "inspect" /\ pc' = "succeeded" /\ ~replaced /\ target = sDone
        /\ UNCHANGED <<host, state, reduceEpoch, epoch, step, peers, target,
                       startEpoch, replaced>>
    BY <1>18 DEF Succeed, Inspected, Finished, slotVars, callVars, driveVars
  <2>2. CallsInsidePass' /\ NeverPastTarget'
    BY <2>1 DEF IInv, CallsInsidePass, NeverPastTarget
  <2>3. EpochWithinPass' /\ StampsWithinPass' /\ SuccessIsQuiet'
    BY <2>1 DEF IInv, EpochWithinPass, StampsWithinPass, SuccessIsQuiet
  <2>4. OwnersAtReduce'
    BY <2>1 DEF IInv, OwnersAtReduce, MapPeers
  <2> QED BY <1>0, <2>2, <2>3, <2>4 DEF IInv
<1>19. CASE PollStart
  BY <1>0, <1>19, StutterIInv DEF PollStart, slotVars, callVars, driveVars
<1>20. ASSUME NEW h \in Hosts, PollOk(h) PROVE IInv'
  BY <1>0, <1>20, StutterIInv DEF PollOk, slotVars, callVars, driveVars
<1>21. ASSUME NEW h \in Hosts, PollFail(h) PROVE IInv'
  BY <1>0, <1>21, StutterIInv DEF PollFail, slotVars, callVars, driveVars
<1>22. CASE UNCHANGED vars
  BY <1>0, <1>22, StutterIInv DEF vars, slotVars, callVars, driveVars
<1> QED
  BY <1>1, <1>2, <1>3, <1>4, <1>5, <1>6, <1>7, <1>8, <1>9, <1>10, <1>11, <1>12,
     <1>13, <1>14, <1>15, <1>16, <1>17, <1>18, <1>19, <1>20, <1>21, <1>22
     DEF Next, Steps, Inspect, Watch, Terminated

\* The inductive invariant holds in every reachable state.
LEMMA Invariance == Spec => []IInv
<1>1. Init => IInv
  BY InitIInv
<1>2. IInv /\ [Next]_vars => IInv'
  BY NextIInv
<1> QED BY <1>1, <1>2, PTL DEF Spec

-----------------------------------------------------------------------------
(* Theorems *)

\* The coordinator's variables keep their types, and replaceHost never works
\* without a culprit nor assigns a host it has not found.
THEOREM TypeCorrect == Spec => []TypeOK
<1>1. IInv => TypeOK
  BY DEF IInv
<1> QED BY <1>1, Invariance, PTL

\* Whatever fails, and whatever the watcher does meanwhile, a slot that counts
\* as reduced while calls are made, or when the job has succeeded, was reduced
\* from the hosts that own the slots now.
THEOREM ReducesAreCurrent == Spec => []ReducedFromOwners
<1>1. IInv => ReducedFromOwners
  <2> SUFFICES ASSUME IInv, pc \in {"step", "succeeded"}, NEW s \in Slots,
                      state[s] >= sReduced
               PROVE  peers[s] = MapPeers
    BY DEF ReducedFromOwners
  <2>1. epoch = startEpoch
    BY DEF IInv, EpochWithinPass, SuccessIsQuiet
  <2>2. startEpoch <= reduceEpoch[s] /\ reduceEpoch[s] <= epoch
    BY DEF IInv, StampsWithinPass
  <2>3. reduceEpoch[s] = epoch
    BY <2>1, <2>2 DEF IInv, TypeOK, SlotsOK
  <2> QED BY <2>3 DEF IInv, OwnersAtReduce
<1> QED BY <1>1, Invariance, PTL

-----------------------------------------------------------------------------
(* Spares, owners and candidates *)

\* The host replaceHost is about to assign is not the one it takes away.
CandidateIsNew ==
    pc \in {"activate", "assign"} => cand # host[err[idx]]

PoolInv == SparesArePristine /\ OwnersAreTouched /\ CandidateIsNew

\* Initially the spares are apart from the slots' hosts, which are touched.
LEMMA InitPoolInv == Init => PoolInv
<1> SUFFICES ASSUME Init PROVE PoolInv
  OBVIOUS
<1>1. {host[s] : s \in Slots} = {SlotHosts[s] : s \in Slots}
  BY DEF Init
<1>2. SparesArePristine
  BY <1>1 DEF Init, SparesArePristine, NoHost
<1>3. OwnersAreTouched /\ CandidateIsNew
  BY <1>1 DEF Init, OwnersAreTouched, CandidateIsNew
<1> QED BY <1>2, <1>3 DEF PoolInv

\* Steps that leave the pool, the owners and the candidate alone, and choose
\* no candidate, preserve the invariant.
LEMMA StutterPoolInv ==
  ASSUME PoolInv, UNCHANGED <<host, spares, dead, touched, polling, cand>>,
         pc' \in {"activate", "assign"} => UNCHANGED <<pc, err, idx>>
  PROVE  PoolInv'
  BY DEF PoolInv, SparesArePristine, OwnersAreTouched, CandidateIsNew

\* Every step preserves the invariant.
LEMMA NextPoolInv == IInv /\ PoolInv /\ [Next]_vars => PoolInv'
<1> SUFFICES ASSUME IInv, PoolInv, [Next]_vars PROVE PoolInv'
  OBVIOUS
<1> USE DEF PoolInv
<1>1. ASSUME NEW s \in Slots, SkipStep(s) PROVE PoolInv'
  BY <1>1, StutterPoolInv DEF SkipStep, slotVars, poolVars, driveVars, watchVars
<1>2. ASSUME NEW s \in Slots, StartStep(s) PROVE PoolInv'
  BY <1>2, StutterPoolInv DEF StartStep, slotVars, poolVars, driveVars, watchVars
<1>3. ASSUME NEW s \in Slots, NEW kvs \in Payloads, ReturnOk(s, kvs) PROVE PoolInv'
  BY <1>3, StutterPoolInv DEF ReturnOk, poolVars, driveVars, watchVars
<1>4. ASSUME NEW s \in Slots, NEW c \in Slots, ReturnErr(s, c) PROVE PoolInv'
  BY <1>4, StutterPoolInv DEF ReturnErr, slotVars, poolVars, driveVars, watchVars
<1>5. CASE Barrier
  BY <1>5, StutterPoolInv DEF Barrier, slotVars, poolVars, driveVars, watchVars
<1>6. CASE NextResult
  BY <1>6, StutterPoolInv DEF NextResult, slotVars, poolVars, watchVars
<1>7. CASE Exhausted
  BY <1>7, StutterPoolInv DEF Exhausted, poolVars, driveVars, watchVars
<1>8. CASE Retire
  <2>1. err[idx] \in Slots
    BY <1>8, CulpritIsSlot DEF Retire, IInv
  <2>2. /\ spares' = spares \ {host[err[idx]]} /\ dead' = dead \cup {host[err[idx]]}
        /\ UNCHANGED <<host, touched, polling, cand>> /\ pc' = "claim"
    BY <1>8 DEF Retire, MarkDead, driveVars, watchVars
  <2> QED BY <2>1, <2>2 DEF SparesArePristine, OwnersAreTouched, CandidateIsNew
<1>9. ASSUME NEW h \in Hosts, ClaimSpare(h) PROVE PoolInv'
  <2>1. err[idx] \in Slots
    BY <1>9 DEF ClaimSpare, IInv, TypeOK, ReplacingOK
  <2>2. /\ h \in spares /\ spares' = spares \ {h} /\ cand' = h /\ pc' = "activate"
        /\ UNCHANGED <<host, dead, touched, polling, err, idx>>
    BY <1>9 DEF ClaimSpare, LiveSpares, SparesAfterClaim, slotVars, callVars, watchVars
  <2>3. h # host[err[idx]]
    BY <2>1, <2>2 DEF SparesArePristine
  <2> QED BY <2>2, <2>3 DEF SparesArePristine, OwnersAreTouched, CandidateIsNew
<1>10. CASE ActivateOk
  <2>1. /\ touched' = touched \cup {cand} /\ pc = "activate" /\ pc' = "assign"
        /\ UNCHANGED <<host, spares, dead, polling, cand, err, idx>>
    BY <1>10 DEF ActivateOk, TouchedAfterStart, slotVars, callVars, driveVars, watchVars
  <2> QED BY <2>1 DEF SparesArePristine, OwnersAreTouched, CandidateIsNew
<1>11. CASE ActivateFails
  <2>1. /\ spares' = spares \ {cand} /\ dead' = dead \cup {cand} /\ cand' = NoHost
        /\ pc' = "claim" /\ UNCHANGED <<host, touched, polling>>
    BY <1>11 DEF ActivateFails, MarkDead, slotVars, watchVars
  <2>2. NoHost \notin spares'
    BY <2>1 DEF IInv, TypeOK, PoolOK, NoHost
  <2> QED BY <2>1, <2>2 DEF SparesArePristine, OwnersAreTouched, CandidateIsNew
<1>12. CASE NoSpare
  BY <1>12, StutterPoolInv DEF NoSpare, slotVars, poolVars, driveVars, watchVars
<1>13. ASSUME NEW h \in Hosts, ClaimActiveHost(h) PROVE PoolInv'
  <2>1. /\ h \in {host[s] : s \in Slots} /\ h # host[err[idx]]
        /\ cand' = h /\ pc' = "assign"
        /\ UNCHANGED <<host, spares, dead, touched, polling, err, idx>>
    BY <1>13 DEF ClaimActiveHost, Eligible, slotVars, poolVars, callVars, watchVars
  <2> QED BY <2>1 DEF SparesArePristine, OwnersAreTouched, CandidateIsNew
<1>14. CASE NoActiveHost
  BY <1>14, StutterPoolInv DEF NoActiveHost, slotVars, poolVars, driveVars, watchVars
<1>15. CASE Assign
  <2>1. /\ pc = "assign" /\ pc' = "inspect" /\ cand' = NoHost
        /\ host' = [host EXCEPT ![err[idx]] = cand]
        /\ UNCHANGED <<spares, dead, touched, polling>>
    BY <1>15 DEF Assign, poolVars, watchVars
  <2>2. {host'[s] : s \in Slots} \subseteq {host[s] : s \in Slots} \cup {cand}
    BY <2>1 DEF IInv, TypeOK, SlotsOK
  <2>3. NoHost \notin spares /\ cand \in touched
    BY <2>1 DEF IInv, TypeOK, PoolOK, NoHost, OwnersAreTouched
  <2> QED BY <2>1, <2>2, <2>3 DEF SparesArePristine, OwnersAreTouched, CandidateIsNew
<1>16. CASE Retry
  BY <1>16, StutterPoolInv DEF Retry, NewPass, poolVars, watchVars
<1>17. CASE NextDrive
  BY <1>17, StutterPoolInv DEF NextDrive, NewPass, poolVars, watchVars
<1>18. CASE Succeed
  BY <1>18, StutterPoolInv DEF Succeed, slotVars, poolVars, driveVars, watchVars
<1>19. CASE PollStart
  <2>1. /\ polling' = {host[s] : s \in Slots}
        /\ UNCHANGED <<host, spares, dead, touched, cand, pc, err, idx>>
    BY <1>19 DEF PollStart, slotVars, poolVars, callVars, driveVars
  <2> QED BY <2>1 DEF SparesArePristine, OwnersAreTouched, CandidateIsNew
<1>20. ASSUME NEW h \in Hosts, PollOk(h) PROVE PoolInv'
  <2>1. /\ polling' = polling \ {h}
        /\ UNCHANGED <<host, spares, dead, touched, cand, pc, err, idx>>
    BY <1>20 DEF PollOk, slotVars, poolVars, callVars, driveVars
  <2> QED BY <2>1 DEF SparesArePristine, OwnersAreTouched, CandidateIsNew
<1>21. ASSUME NEW h \in Hosts, PollFail(h) PROVE PoolInv'
  <2>1. /\ h \in polling /\ polling' = polling \ {h}
        /\ \/ spares' = spares \ {h} /\ dead' = dead \cup {h}
           \/ UNCHANGED <<spares, dead>>
        /\ UNCHANGED <<host, touched, cand, pc, err, idx>>
    BY <1>21 DEF PollFail, MarkDead, slotVars, callVars, driveVars
  <2>2. spares' \subseteq spares /\ dead' \cap spares' \subseteq dead \cap spares
    BY <2>1
  <2>3. SparesArePristine'
    BY <2>1, <2>2 DEF SparesArePristine
  <2>4. OwnersAreTouched'
    BY <2>1 DEF OwnersAreTouched
  <2>5. CandidateIsNew'
    BY <2>1 DEF CandidateIsNew
  <2> QED BY <2>3, <2>4, <2>5
<1>22. CASE UNCHANGED vars
  BY <1>22, StutterPoolInv DEF vars, slotVars, poolVars, callVars, driveVars, watchVars
<1> QED
  BY <1>1, <1>2, <1>3, <1>4, <1>5, <1>6, <1>7, <1>8, <1>9, <1>10, <1>11, <1>12,
     <1>13, <1>14, <1>15, <1>16, <1>17, <1>18, <1>19, <1>20, <1>21, <1>22
     DEF Next, Steps, Inspect, Watch, Terminated

\* The pool invariant holds in every reachable state.
LEMMA PoolInvariance == Spec => []PoolInv
<1>1. Init => PoolInv
  BY InitPoolInv
<1>2. IInv /\ PoolInv /\ [Next]_vars => PoolInv'
  BY NextPoolInv
<1> QED BY <1>1, <1>2, Invariance, PTL DEF Spec

\* The pool only ever hands out fresh workers: none of its hosts was ever
\* started, owned, polled or declared dead.
THEOREM PoolStaysPristine == Spec => []SparesArePristine
<1>1. PoolInv => SparesArePristine
  BY DEF PoolInv
<1> QED BY <1>1, PoolInvariance, PTL

\* Cleaning up the touched hosts reaches every host that ever owned a slot.
THEOREM CleanupReachesOwners == Spec => []OwnersAreTouched
<1>1. PoolInv => OwnersAreTouched
  BY DEF PoolInv
<1> QED BY <1>1, PoolInvariance, PTL

-----------------------------------------------------------------------------
(* Refinement *)

\* The constants of the ledger are those of the coordinator, and so is the
\* initial state.
LEMMA LedgerInit == Init => Ledger!Init
  BY DEF Init, Ledger!Init, Ledger!Pending, sPending, Verdict

\* Every step of the coordinator is a step of the ledger or leaves it alone.
LEMMA LedgerNext ==
  IInv /\ PoolInv /\ [Next]_vars => [Ledger!Next]_(Ledger!ledger)
<1> SUFFICES ASSUME IInv, PoolInv, [Next]_vars
             PROVE  [Ledger!Next]_(Ledger!ledger)
  OBVIOUS
<1>0. ASSUME UNCHANGED <<host, state, reduceEpoch, epoch, Verdict>>
      PROVE  [Ledger!Next]_(Ledger!ledger)
  BY <1>0 DEF Ledger!ledger
<1>1. ASSUME NEW s \in Slots, SkipStep(s) PROVE UNCHANGED <<host, state, reduceEpoch, epoch, Verdict>>
  BY <1>1 DEF SkipStep, slotVars, Verdict
<1>2. ASSUME NEW s \in Slots, StartStep(s) PROVE UNCHANGED <<host, state, reduceEpoch, epoch, Verdict>>
  BY <1>2 DEF StartStep, slotVars, Verdict
<1>3. ASSUME NEW s \in Slots, NEW kvs \in Payloads, ReturnOk(s, kvs) PROVE Ledger!Advance(s)
  <2>1. /\ pc = "step" /\ pc' = "step" /\ step[s] = "calling"
        /\ state' = [state EXCEPT ![s] = @ + 1]
        /\ reduceEpoch' = IF state[s] = sMapped
                            THEN [reduceEpoch EXCEPT ![s] = epoch] ELSE reduceEpoch
        /\ UNCHANGED <<host, epoch>>
    BY <1>3 DEF ReturnOk
  <2>2. Verdict = "running" /\ Verdict' = "running"
    BY <2>1 DEF Verdict
  <2>3. state[s] < sDone
    BY <2>1 DEF IInv, CallsInsidePass, TypeOK, SlotsOK, DriveOK, SlotStates, sPending,
                sLoaded, sDone
  <2>4. ASSUME state[s] = sReduced PROVE reduceEpoch[s] = epoch
    <3>1. startEpoch <= reduceEpoch[s] /\ reduceEpoch[s] <= epoch /\ epoch = startEpoch
      BY <2>1, <2>4 DEF IInv, StampsWithinPass, EpochWithinPass, sReduced
    <3> QED BY <3>1 DEF IInv, TypeOK, SlotsOK
  <2> QED BY <2>1, <2>2, <2>3, <2>4 DEF Ledger!Advance, Ledger!Done, Ledger!Reduced,
             Ledger!Mapped, sMapped, sReduced, sDone
<1>4. ASSUME NEW s \in Slots, NEW c \in Slots, ReturnErr(s, c)
      PROVE  UNCHANGED <<host, state, reduceEpoch, epoch, Verdict>>
  BY <1>4 DEF ReturnErr, slotVars, Verdict
<1>5. CASE Barrier
  BY <1>0, <1>5 DEF Barrier, slotVars, Verdict
<1>6. CASE NextResult
  BY <1>0, <1>6 DEF NextResult, slotVars, Verdict
<1>7. CASE Exhausted
  BY <1>7 DEF Exhausted, Verdict, Ledger!Next, Ledger!GiveUp
<1>8. CASE Retire
  BY <1>0, <1>8 DEF Retire, Verdict
<1>9. ASSUME NEW h \in Hosts, ClaimSpare(h) PROVE UNCHANGED <<host, state, reduceEpoch, epoch, Verdict>>
  BY <1>9 DEF ClaimSpare, slotVars, Verdict
<1>10. CASE ActivateOk
  BY <1>0, <1>10 DEF ActivateOk, slotVars, Verdict
<1>11. CASE ActivateFails
  BY <1>0, <1>11 DEF ActivateFails, slotVars, Verdict
<1>12. CASE NoSpare
  BY <1>0, <1>12 DEF NoSpare, slotVars, Verdict
<1>13. ASSUME NEW h \in Hosts, ClaimActiveHost(h)
       PROVE  UNCHANGED <<host, state, reduceEpoch, epoch, Verdict>>
  BY <1>13 DEF ClaimActiveHost, slotVars, Verdict
<1>14. CASE NoActiveHost
  BY <1>14 DEF NoActiveHost, slotVars, Verdict, Ledger!Next, Ledger!GiveUp
<1>15. CASE Assign
  <2>1. err[idx] \in Slots /\ cand \in Hosts /\ cand # host[err[idx]]
    BY <1>15 DEF Assign, IInv, TypeOK, ReplacingOK, PoolInv, CandidateIsNew
  <2>2. Ledger!Rebind(err[idx], cand)
    BY <1>15, <2>1 DEF Assign, StateAfterSwap, EpochAfterSwap, Verdict, Ledger!Rebind,
                       Ledger!Pending, sPending
  <2> QED BY <2>1, <2>2 DEF Ledger!Next
<1>16. ASSUME NEW s \in Slots PROVE Stale(s) <=> Ledger!OutOfDate(s)
  <2>1. Stale(s) => Ledger!OutOfDate(s)
    BY DEF Stale, Ledger!OutOfDate, Ledger!Reduced, sReduced
  <2>2. ASSUME state[s] >= sReduced, reduceEpoch[s] < epoch PROVE Stale(s)
    <3>1. /\ startEpoch <= reduceEpoch[s] /\ state[s] <= target
          /\ startEpoch \in Nat /\ reduceEpoch[s] \in Nat /\ epoch \in Nat
          /\ state[s] \in 0 .. 4 /\ target \in 1 .. 4
      BY <2>2 DEF IInv, StampsWithinPass, NeverPastTarget, TypeOK, SlotsOK, DriveOK,
                  SlotStates, sPending, sLoaded, sDone
    <3> QED BY <2>2, <3>1 DEF Stale, sReduced
  <2> QED BY <2>1, <2>2 DEF Ledger!OutOfDate, Ledger!Reduced, sReduced
<1>17. ASSUME RewindStale, pc = "inspect", pc' = "step",
              UNCHANGED <<host, reduceEpoch, epoch>>
       PROVE  Ledger!Rewind
  BY <1>16, <1>17 DEF RewindStale, Verdict, Ledger!Rewind, Ledger!Mapped, sMapped
<1>18. CASE Retry
  BY <1>17, <1>18 DEF Retry, Inspected, NewPass, Ledger!Next
<1>19. CASE NextDrive
  BY <1>17, <1>19 DEF NextDrive, Inspected, NewPass, Ledger!Next
<1>20. CASE Succeed
  <2>1. ASSUME NEW s \in Slots PROVE state[s] = sDone /\ reduceEpoch[s] = epoch
    <3>1. state[s] = sDone
      BY <1>20 DEF Succeed, Finished, IInv, TypeOK, SlotsOK, SlotStates, sPending, sDone
    <3>2. startEpoch <= reduceEpoch[s] /\ reduceEpoch[s] <= epoch /\ epoch = startEpoch
      BY <1>20, <3>1 DEF Succeed, Finished, IInv, StampsWithinPass, EpochWithinPass,
                         sReduced, sDone
    <3> QED BY <3>1, <3>2 DEF IInv, TypeOK, SlotsOK
  <2> QED BY <1>20, <2>1 DEF Succeed, Inspected, slotVars, Verdict, Ledger!Next,
             Ledger!Finish, Ledger!Done, sDone
<1>21. CASE PollStart
  BY <1>0, <1>21 DEF PollStart, slotVars, Verdict
<1>22. ASSUME NEW h \in Hosts, PollOk(h) PROVE UNCHANGED <<host, state, reduceEpoch, epoch, Verdict>>
  BY <1>22 DEF PollOk, slotVars, Verdict
<1>23. ASSUME NEW h \in Hosts, PollFail(h) PROVE UNCHANGED <<host, state, reduceEpoch, epoch, Verdict>>
  BY <1>23 DEF PollFail, slotVars, Verdict
<1>24. CASE UNCHANGED vars
  BY <1>0, <1>24 DEF vars, slotVars, Verdict
<1> QED
  BY <1>0, <1>1, <1>2, <1>3, <1>4, <1>5, <1>6, <1>7, <1>8, <1>9, <1>10, <1>11, <1>12,
     <1>13, <1>14, <1>15, <1>18, <1>19, <1>20, <1>21, <1>22, <1>23, <1>24
     DEF Next, Steps, Inspect, Watch, Terminated, Ledger!Next

\* The coordinator implements the ledger: a result is only collected from, and
\* a job only succeeds on, reduces that no change of owner has outdated, and a
\* slot whose owner changes starts over.
THEOREM LedgerImplemented == Spec => ImplementsLedger
<1>1. Init => Ledger!Init
  BY LedgerInit
<1>2. IInv /\ PoolInv /\ [Next]_vars => [Ledger!Next]_(Ledger!ledger)
  BY LedgerNext
<1> QED BY <1>1, <1>2, Invariance, PoolInvariance, PTL DEF Spec, ImplementsLedger, Ledger!Spec
=============================================================================
