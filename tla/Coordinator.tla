---------------------------- MODULE Coordinator ----------------------------
(***************************************************************************)
(* The orchestrator's fault-tolerant driver, coordinator.go: the slot      *)
(* table, the pool of cold spares, the four drives of run() (load, map,    *)
(* reduce, collect) and the background health watcher.                     *)
(*                                                                         *)
(* A pass of drive runs one tryOneStep goroutine per slot, waits for all   *)
(* of them, and only then looks at the errors, in slot order, replacing    *)
(* the host of each slot it blames.  The goroutines are the actions        *)
(* SkipStep, StartStep and Return; the sequential part is cut at every     *)
(* release of c.mu, because the health watcher runs beside it.             *)
(*                                                                         *)
(* Workers are abstracted to the outcome of a call: it may succeed, fail   *)
(* in a way that blames the slot's own host, or, for /reduce alone, fail   *)
(* naming the slot whose intermediate data could not be fetched.  Module   *)
(* MapReduce replaces that choice by the workers themselves.               *)
(*                                                                         *)
(* Time is left out: the backoff and settle waits only delay the next      *)
(* step.  ctx is never cancelled while drive runs, so that exit is too.    *)
(***************************************************************************)
EXTENDS Integers, FiniteSets, Functions

CONSTANTS
    N,           \* number of slots (initial workers that became ready)
    Hosts,       \* worker addresses, numbered in the order of their names
    SlotHosts,   \* the host that first owns each slot
    SpareHosts,  \* the cold spares
    SpareRank,   \* position of a host in the list of spares
    WithInput,   \* slots that were given a chunk or at least one URL
    MaxAttempts, \* -max-attempts
    Payloads,    \* what /result may return
    NoResult     \* a nil result

Slots == 0 .. (N - 1)

ASSUME CoordinatorAssumption ==
    /\ N \in Nat \ {0}
    /\ Hosts \subseteq Nat
    /\ SlotHosts \in [Slots -> Hosts]
    /\ \A s, t \in Slots : SlotHosts[s] = SlotHosts[t] => s = t
    /\ SpareHosts \subseteq Hosts
    /\ \A s \in Slots : SlotHosts[s] \notin SpareHosts
    /\ SpareRank \in [Hosts -> Nat]
    /\ WithInput \subseteq Slots
    /\ MaxAttempts \in Nat
    /\ NoResult \notin Payloads

sPending == 0
sLoaded  == 1
sMapped  == 2
sReduced == 3
sDone    == 4
SlotStates == sPending .. sDone

NoHost == -1     \* the empty host string
NoErr  == -1     \* a nil error

VARIABLES
    host, state, attempts, reduceEpoch, result, \* the slots
    spares, dead, touched, epoch,               \* the coordinator
    target,     \* the state the current drive brings the slots to
    pc,         \* where the driving goroutine is
    startEpoch, \* the epoch when the pass began
    step,       \* the goroutine of each slot: "todo", "calling" or "back"
    callHost,   \* stepResult.host: the host the goroutine read and calls
    err,        \* stepResult.err, as the slot it leads identifyCulprit to
    peers,      \* the peer list last sent with a /map or /reduce of the slot
    idx,        \* the result being inspected
    replaced,   \* some host was replaced in this pass
    cand,       \* the host replaceHost has chosen and not yet assigned
    polling,    \* hosts whose answer to the current health poll is awaited
    healthFailures  \* consecutive failed polls; 2 stands for 2 or more

slotVars  == <<host, state, attempts, reduceEpoch, result>>
poolVars  == <<spares, dead, touched>>
callVars  == <<step, callHost, err, peers>>
driveVars == <<target, startEpoch, idx, replaced, cand>>
watchVars == <<polling, healthFailures>>
vars == <<slotVars, poolVars, epoch, callVars, driveVars, pc, watchVars>>

Blank == [s \in Slots |-> NoHost]

Init ==
    /\ host = SlotHosts
    /\ state = [s \in Slots |-> sPending]
    /\ attempts = [s \in Slots |-> 0]
    /\ reduceEpoch = [s \in Slots |-> 0]
    /\ result = [s \in Slots |-> NoResult]
    /\ spares = SpareHosts
    /\ dead = {}
    /\ touched = {SlotHosts[s] : s \in Slots}
    /\ epoch = 0
    /\ target = sLoaded
    /\ pc = "step"
    /\ startEpoch = 0
    /\ step = [s \in Slots |-> "todo"]
    /\ callHost = Blank
    /\ err = [s \in Slots |-> NoErr]
    /\ peers = [s \in Slots |-> Blank]
    /\ idx = 0
    /\ replaced = FALSE
    /\ cand = NoHost
    /\ polling = {}
    /\ healthFailures = [h \in Hosts |-> 0]

-----------------------------------------------------------------------------
(* tryOneStep, one goroutine per slot *)

MapPeers == [s \in Slots |-> IF s \in WithInput THEN host[s] ELSE NoHost]

\* The slot is at or past the target of this drive: no call is made.
SkipStep(s) ==
    /\ pc = "step" /\ step[s] = "todo"
    /\ state[s] >= target
    /\ step' = [step EXCEPT ![s] = "back"]
    /\ callHost' = [callHost EXCEPT ![s] = host[s]]
    /\ UNCHANGED <<slotVars, poolVars, epoch, err, peers, driveVars, pc, watchVars>>

\* Read state and host, take the snapshot of the peers, send the request.
\* /load and /data make the worker forget the peers it knew.
StartStep(s) ==
    /\ pc = "step" /\ step[s] = "todo"
    /\ state[s] < target
    /\ step' = [step EXCEPT ![s] = "calling"]
    /\ callHost' = [callHost EXCEPT ![s] = host[s]]
    /\ peers' = [peers EXCEPT ![s] =
                    CASE state[s] = sPending -> Blank
                      [] state[s] = sLoaded  -> host
                      [] state[s] = sMapped  -> MapPeers
                      [] OTHER               -> peers[s]]
    /\ UNCHANGED <<slotVars, poolVars, epoch, err, driveVars, pc, watchVars>>

\* The call returned without error: the slot advances by one state.
ReturnOk(s, kvs) ==
    /\ pc = "step" /\ step[s] = "calling"
    /\ step' = [step EXCEPT ![s] = "back"]
    /\ state' = [state EXCEPT ![s] = @ + 1]
    /\ reduceEpoch' = IF state[s] = sMapped
                        THEN [reduceEpoch EXCEPT ![s] = epoch] ELSE reduceEpoch
    /\ result' = IF state[s] = sReduced
                   THEN [result EXCEPT ![s] = kvs] ELSE result
    /\ UNCHANGED <<host, attempts, poolVars, epoch, callHost, err, peers,
                   driveVars, pc, watchVars>>

\* Seeded fault: an error is taken for a transient one and the call repeated.
ReturnErrIgnored(s, culprit) ==
    /\ pc = "step" /\ step[s] = "calling"
    /\ step' = [step EXCEPT ![s] = "back"]
    /\ UNCHANGED <<slotVars, poolVars, epoch, callHost, err, peers, driveVars, pc, watchVars>>

\* The call failed.  culprit is the slot identifyCulprit will find in the
\* message: the slot itself, or the slot a failed /reduce names.
ReturnErr(s, culprit) ==
    /\ pc = "step" /\ step[s] = "calling"
    /\ culprit # s => state[s] = sMapped /\ peers[s][culprit] # NoHost
    /\ step' = [step EXCEPT ![s] = "back"]
    /\ err' = [err EXCEPT ![s] = culprit]
    /\ UNCHANGED <<slotVars, poolVars, epoch, callHost, peers, driveVars, pc, watchVars>>

\* wg.Wait returns once every goroutine is back.
Barrier ==
    /\ pc = "step"
    /\ \A s \in Slots : step[s] = "back"
    /\ pc' = "inspect"
    /\ UNCHANGED <<slotVars, poolVars, epoch, callVars, driveVars, watchVars>>

-----------------------------------------------------------------------------
(* The sequential part of a pass *)

MarkDead(h) ==
    /\ dead' = dead \cup {h}
    /\ spares' = spares \ {h}

NextResult ==
    /\ pc = "inspect" /\ idx < N /\ err[idx] = NoErr
    /\ idx' = idx + 1
    /\ UNCHANGED <<slotVars, poolVars, epoch, callVars, target, startEpoch,
                   replaced, cand, pc, watchVars>>

\* Charge the culprit an attempt; it has none left, so the job fails.
Exhausted ==
    /\ pc = "inspect" /\ idx < N /\ err[idx] # NoErr
    /\ attempts[err[idx]] + 1 > MaxAttempts
    /\ attempts' = [attempts EXCEPT ![err[idx]] = @ + 1]
    /\ pc' = "exhausted"
    /\ UNCHANGED <<host, state, reduceEpoch, result, poolVars, epoch, callVars,
                   driveVars, watchVars>>

\* Charge the culprit an attempt and enter replaceHost, which first marks
\* the culprit's present host dead.
Retire ==
    /\ pc = "inspect" /\ idx < N /\ err[idx] # NoErr
    /\ attempts[err[idx]] + 1 <= MaxAttempts
    /\ attempts' = [attempts EXCEPT ![err[idx]] = @ + 1]
    /\ MarkDead(host[err[idx]])
    /\ pc' = "claim"
    /\ UNCHANGED <<host, state, reduceEpoch, result, touched, epoch, callVars,
                   driveVars, watchVars>>

LiveSpares == spares \ dead

\* Seeded fault: the claimed spare stays in the pool.
SparesKept(h) == spares
SparesAfterClaim(h) == spares \ {h}

\* claimSpare takes the first spare of the list that is not dead.
ClaimSpare(h) ==
    /\ pc = "claim"
    /\ h \in LiveSpares
    /\ \A g \in LiveSpares : SpareRank[h] <= SpareRank[g]
    /\ spares' = SparesAfterClaim(h)
    /\ cand' = h
    /\ pc' = "activate"
    /\ UNCHANGED <<slotVars, dead, touched, epoch, callVars, target, startEpoch,
                   idx, replaced, watchVars>>

\* Seeded fault: markTouched is forgotten.
TouchedForgotten == touched
TouchedAfterStart == touched \cup {cand}

ActivateOk ==
    /\ pc = "activate"
    /\ touched' = TouchedAfterStart
    /\ pc' = "assign"
    /\ UNCHANGED <<slotVars, spares, dead, epoch, callVars, driveVars, watchVars>>

\* A spare whose worker cannot be started is dead; claimSpare tries the next.
ActivateFails ==
    /\ pc = "activate"
    /\ MarkDead(cand)
    /\ cand' = NoHost
    /\ pc' = "claim"
    /\ UNCHANGED <<slotVars, touched, epoch, callVars, target, startEpoch, idx,
                   replaced, watchVars>>

NoSpare ==
    /\ pc = "claim" /\ LiveSpares = {}
    /\ pc' = "fallback"
    /\ UNCHANGED <<slotVars, poolVars, epoch, callVars, driveVars, watchVars>>

\* claimActiveHost: owners of slots, neither excluded nor dead.
Eligible(exclude) == {host[s] : s \in Slots} \ (dead \cup {exclude})
LoadOf(h) == Cardinality({s \in Slots : host[s] = h})
LessLoaded(h, g) == LoadOf(h) < LoadOf(g) \/ (LoadOf(h) = LoadOf(g) /\ h <= g)

ClaimActiveHost(h) ==
    /\ pc = "fallback"
    /\ h \in Eligible(host[err[idx]])
    /\ \A g \in Eligible(host[err[idx]]) : LessLoaded(h, g)
    /\ cand' = h
    /\ pc' = "assign"
    /\ UNCHANGED <<slotVars, poolVars, epoch, callVars, target, startEpoch, idx,
                   replaced, watchVars>>

\* Seeded fault: replaceHost overlooks that claimActiveHost found no host.
NoActiveHostOverlooked ==
    /\ pc = "fallback" /\ Eligible(host[err[idx]]) = {}
    /\ pc' = "assign"
    /\ UNCHANGED <<slotVars, poolVars, epoch, callVars, driveVars, watchVars>>

\* No host at all: replaceHost gives up and the job fails.
NoActiveHost ==
    /\ pc = "fallback" /\ Eligible(host[err[idx]]) = {}
    /\ pc' = "nohost"
    /\ UNCHANGED <<slotVars, poolVars, epoch, callVars, driveVars, watchVars>>

\* Seeded faults: the new host inherits the progress made on the old one;
\* the epoch is not bumped.
ProgressKept(s) == state
EpochKept == epoch

StateAfterSwap(s) == [state EXCEPT ![s] = sPending]
EpochAfterSwap == epoch + 1

\* The end of replaceHost: rebind the slot, then bump the epoch.
Assign ==
    /\ pc = "assign"
    /\ LET s == err[idx] IN
         /\ host' = [host EXCEPT ![s] = cand]
         /\ state' = StateAfterSwap(s)
         /\ reduceEpoch' = [reduceEpoch EXCEPT ![s] = 0]
         /\ attempts' = [attempts EXCEPT ![s] = @ + 1]
    /\ epoch' = EpochAfterSwap
    /\ replaced' = TRUE
    /\ cand' = NoHost
    /\ idx' = idx + 1
    /\ pc' = "inspect"
    /\ UNCHANGED <<result, poolVars, callVars, target, startEpoch, watchVars>>

\* Seeded faults: rewinding only in the collect drive; forgetting the slots
\* whose result has been fetched.
StaleWhenCollecting(s) ==
    /\ target > sReduced /\ epoch # startEpoch
    /\ state[s] >= sReduced /\ reduceEpoch[s] < epoch

StaleUnlessFetched(s) ==
    /\ target >= sReduced /\ epoch # startEpoch
    /\ state[s] = sReduced /\ reduceEpoch[s] < epoch

\* Reduces completed at an older epoch, once this pass replaced a host.
Stale(s) ==
    /\ target >= sReduced /\ epoch # startEpoch
    /\ state[s] >= sReduced /\ reduceEpoch[s] < epoch

RewindStale ==
    /\ state' = [s \in Slots |-> IF Stale(s) THEN sMapped ELSE state[s]]
    /\ result' = [s \in Slots |-> IF Stale(s) THEN NoResult ELSE result[s]]

\* Seeded fault: an off-by-one in allAtLeast.
FinishedPastTarget == ~replaced /\ \A s \in Slots : state[s] > target
Finished == ~replaced /\ \A s \in Slots : state[s] >= target

NewPass(t) ==
    /\ target' = t
    /\ startEpoch' = epoch
    /\ step' = [s \in Slots |-> "todo"]
    /\ callHost' = Blank
    /\ err' = [s \in Slots |-> NoErr]
    /\ idx' = 0
    /\ replaced' = FALSE
    /\ pc' = "step"

Inspected == pc = "inspect" /\ idx = N

\* Some slot is not there yet, or was just replaced: another pass.
Retry ==
    /\ Inspected /\ ~Finished
    /\ RewindStale
    /\ NewPass(target)
    /\ UNCHANGED <<host, attempts, reduceEpoch, poolVars, epoch, peers, cand, watchVars>>

\* drive returns nil and run() starts the next drive.
NextDrive ==
    /\ Inspected /\ Finished /\ target < sDone
    /\ RewindStale
    /\ NewPass(target + 1)
    /\ UNCHANGED <<host, attempts, reduceEpoch, poolVars, epoch, peers, cand, watchVars>>

\* The collect drive returns nil: the results are merged and written.
Succeed ==
    /\ Inspected /\ Finished /\ target = sDone
    /\ pc' = "succeeded"
    /\ UNCHANGED <<slotVars, poolVars, epoch, callVars, driveVars, watchVars>>

-----------------------------------------------------------------------------
(* watchHealth *)

Ended == pc \in {"succeeded", "exhausted", "nohost"}

\* A tick: allHosts takes a snapshot of the owners and all are probed at once.
PollStart ==
    /\ ~Ended /\ polling = {}
    /\ polling' = {host[s] : s \in Slots}
    /\ UNCHANGED <<slotVars, poolVars, epoch, callVars, driveVars, pc, healthFailures>>

PollOk(h) ==
    /\ ~Ended /\ h \in polling
    /\ polling' = polling \ {h}
    /\ healthFailures' = [healthFailures EXCEPT ![h] = 0]
    /\ UNCHANGED <<slotVars, poolVars, epoch, callVars, driveVars, pc>>

\* Two consecutive failures mark the host dead.
PollFail(h) ==
    /\ ~Ended /\ h \in polling
    /\ polling' = polling \ {h}
    /\ healthFailures' = [healthFailures EXCEPT ![h] = IF @ = 0 THEN 1 ELSE 2]
    /\ IF healthFailures[h] >= 1 THEN MarkDead(h) ELSE UNCHANGED <<dead, spares>>
    /\ UNCHANGED <<slotVars, touched, epoch, callVars, driveVars, pc>>

-----------------------------------------------------------------------------
\* run() has returned; the process exits.
Terminated == Ended /\ UNCHANGED vars

Steps ==
    \/ \E s \in Slots :
         \/ SkipStep(s)
         \/ StartStep(s)
         \/ \E kvs \in Payloads : ReturnOk(s, kvs)
         \/ \E c \in Slots : ReturnErr(s, c)
    \/ Barrier

Inspect ==
    \/ NextResult \/ Exhausted \/ Retire
    \/ \E h \in Hosts : ClaimSpare(h)
    \/ ActivateOk \/ ActivateFails \/ NoSpare
    \/ \E h \in Hosts : ClaimActiveHost(h)
    \/ NoActiveHost \/ Assign
    \/ Retry \/ NextDrive \/ Succeed

Watch ==
    \/ PollStart
    \/ \E h \in Hosts : PollOk(h) \/ PollFail(h)

Next == Steps \/ Inspect \/ Watch \/ Terminated

Spec == Init /\ [][Next]_vars

\* Every client has a timeout, so a goroutine of a pass always gets its
\* answer, and the driving goroutine is never blocked.  Nothing is assumed of
\* the watcher, nor of which answer comes.
Fairness == WF_vars(Steps) /\ WF_vars(Inspect)
FairSpec == Spec /\ Fairness

-----------------------------------------------------------------------------
(* Properties *)

SlotsOK ==
    /\ host \in [Slots -> Hosts]
    /\ state \in [Slots -> SlotStates]
    /\ attempts \in [Slots -> Nat]
    /\ reduceEpoch \in [Slots -> Nat]
    /\ result \in [Slots -> Payloads \cup {NoResult}]

PoolOK ==
    /\ spares \in SUBSET Hosts
    /\ dead \in SUBSET Hosts
    /\ touched \in SUBSET Hosts

CallsOK ==
    /\ step \in [Slots -> {"todo", "calling", "back"}]
    /\ callHost \in [Slots -> Hosts \cup {NoHost}]
    /\ err \in [Slots -> Slots \cup {NoErr}]
    /\ peers \in [Slots -> [Slots -> Hosts \cup {NoHost}]]

DriveOK ==
    /\ target \in sLoaded .. sDone
    /\ startEpoch \in Nat
    /\ idx \in 0 .. N
    /\ replaced \in BOOLEAN
    /\ cand \in Hosts \cup {NoHost}

WatchOK ==
    /\ polling \in SUBSET Hosts
    /\ healthFailures \in [Hosts -> 0 .. 2]

\* There is a culprit wherever replaceHost works on one, and a candidate
\* wherever it has chosen one.
ReplacingOK ==
    /\ pc \in {"claim", "activate", "fallback", "assign"} => idx < N /\ err[idx] \in Slots
    /\ pc \in {"activate", "assign"} => cand \in Hosts

\* Every variable has its type, and replaceHost never works without a culprit
\* or assigns a host it has not found.
TypeOK ==
    /\ SlotsOK /\ PoolOK /\ CallsOK /\ DriveOK /\ WatchOK /\ ReplacingOK
    /\ epoch \in Nat
    /\ pc \in {"step", "inspect", "claim", "activate", "fallback", "assign",
               "succeeded", "exhausted", "nohost"}

\* While calls are made, and when the job has succeeded, every slot that
\* counts as reduced was reduced from the hosts that own the slots now: the
\* peer list its /reduce carried names the present owner of each input.
\* This is what the epoch is for (coordinator.go:327-329): a swap anywhere
\* makes every earlier reduce stale.
ReducedFromOwners ==
    pc \in {"step", "succeeded"} =>
        \A s \in Slots : state[s] >= sReduced => peers[s] = MapPeers

\* drive charges the culprit for the failed call and replaceHost charges it
\* again for the swap (coordinator.go:349 and 455), so between two results
\* every slot has been charged twice per swap, the epoch is the number of
\* swaps, and no slot is charged more than two past -max-attempts.
AttemptsAccountForSwaps ==
    /\ \A s \in Slots : attempts[s] <= MaxAttempts + 2
    /\ pc \in {"step", "inspect", "succeeded"} =>
         /\ \A s \in Slots : attempts[s] % 2 = 0
         /\ FoldFunction(+, 0, attempts) = 2 * epoch

\* A host in the spare pool has never been started, owned, polled or
\* declared dead, whatever the health watcher does meanwhile: claimSpare
\* can only hand out a fresh worker.
SparesArePristine ==
    spares \cap (dead \cup touched \cup polling \cup {cand}
                      \cup {host[s] : s \in Slots}) = {}

\* The clean-up at the end reaches every host that ever owned a slot or is
\* about to (hostsForCleanup, coordinator.go:216-227).
OwnersAreTouched ==
    /\ {host[s] : s \in Slots} \subseteq touched
    /\ pc = "assign" => cand \in touched

-----------------------------------------------------------------------------
(* The abstract slot ledger *)

Verdict == CASE pc = "succeeded" -> "ok"
             [] pc \in {"exhausted", "nohost"} -> "failed"
             [] OTHER -> "running"

Ledger == INSTANCE SlotLedger WITH
    Owners <- Hosts, FirstOwner <- SlotHosts,
    owner <- host, phase <- state, stamp <- reduceEpoch, verdict <- Verdict

\* The coordinator implements SlotLedger: no collected or reported result
\* comes from a reduce that predates a change of owner, and an owner never
\* changes without the slot starting over.
ImplementsLedger == Ledger!Spec

-----------------------------------------------------------------------------
(* Liveness *)

\* Every job ends, in success or in an error, as long as calls return: each
\* pass either moves a slot up, or spends an attempt, of which there are
\* finitely many, or is the last.
Termination == <>Ended

============================================================================
