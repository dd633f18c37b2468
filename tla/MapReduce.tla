----------------------------- MODULE MapReduce -----------------------------
(***************************************************************************)
(* The coordinator together with its workers (worker/main.go).  A worker   *)
(* is a host with a process that is up or has crashed for good, and, for   *)
(* each slot it was ever given, that slot's input, its bucket files and    *)
(* its reduce output.  A bucket file is abstracted to whether it holds     *)
(* everything the slot's /map emits for its reducer; an output, to the set *)
(* of slots whose buckets went into it completely.                         *)
(*                                                                         *)
(* A call of Coordinator (StartStep .. ReturnOk or ReturnErr) is served    *)
(* here by the handler of its phase.  /map is cut where its bucket files   *)
(* become visible and where they are complete, and /reduce at each fetch   *)
(* from a peer, since other slots' handlers run in between.  The end of a  *)
(* handler and the arrival of its answer are one step; an answer that is   *)
(* lost, or late beyond the client's timeout, is Lose.                     *)
(***************************************************************************)
EXTENDS Coordinator

CONSTANTS
    UrlMode,     \* Common Crawl input (/load) rather than a local file (/data)
    MaxCrashes,  \* bound on worker crashes in a run
    MaxLost      \* bound on lost or timed-out calls, failed activations, handlers
                 \* that answer 500 for a reason of their own, and failed writes

ASSUME MapReduceAssumption ==
    /\ UrlMode \in BOOLEAN
    /\ MaxCrashes \in Nat /\ MaxLost \in Nat
    /\ Payloads = SUBSET Slots

VARIABLES
    up,          \* hosts whose worker process is running (or can be started)
    input,       \* per host and slot: "none" (unknown slot), "ready" or "gone"
    buckets,     \* per host and slot: reducers whose bucket file is complete
    output,      \* per host and slot: sources complete in slot.output
    cut,         \* history: <<source, reducer>> of the buckets that lost their
                 \* end in the last /map of the source
    task,        \* the progress of the handler serving each slot's call
    crashes, lost,
    abandoned,   \* history: <<host, slot>> of calls given up without an answer
    lateSwaps    \* history: slots replaced during the reduce or collect drive

fileVars == <<input, buckets, output, cut>>
faultVars == <<crashes, lost, abandoned>>
workerVars == <<up, fileVars, task, faultVars, lateSwaps>>
mvars == <<vars, workerVars>>

\* begun: /map has created its bucket files.  A source is in got, short or
\* failed once its fetch ended: with all of its data, with less, or in error.
NewTask == [begun |-> FALSE, got |-> {}, short |-> {}, failed |-> {}]
Attempted(t) == t.got \cup t.short \cup t.failed

MRInit ==
    /\ Init
    /\ up = Hosts
    /\ input = [h \in Hosts |-> [s \in Slots |-> "none"]]
    /\ buckets = [h \in Hosts |-> [s \in Slots |-> {}]]
    /\ output = [h \in Hosts |-> [s \in Slots |-> {}]]
    /\ cut = {}
    /\ task = [s \in Slots |-> NewTask]
    /\ crashes = 0 /\ lost = 0
    /\ abandoned = {}
    /\ lateSwaps = {}

\* Seeded fault: a slot whose input has been mapped and deleted is forgotten.
KnownUntilMapped(s) == buckets[callHost[s]][s] = {}

\* Slots enter a worker's table with their first /load or /data.
Known(s) == input[callHost[s]][s] # "none"

\* The worker at callHost[s] is serving a call of s in state ph.
Serving(s, ph) ==
    /\ step[s] = "calling" /\ state[s] = ph
    /\ callHost[s] \in up
    /\ ph >= sMapped => Known(s)

Send(s) ==
    /\ StartStep(s)
    /\ task' = [task EXCEPT ![s] = NewTask]
    /\ UNCHANGED <<up, fileVars, faultVars, lateSwaps>>

-----------------------------------------------------------------------------
(* Handlers *)

\* handleLoad and handleData: replace the input, forget output and buckets.
Load(s) ==
    LET h == callHost[s] IN
    /\ Serving(s, sPending)
    /\ input' = [input EXCEPT ![h][s] = "ready"]
    /\ buckets' = [buckets EXCEPT ![h][s] = {}]
    /\ output' = [output EXCEPT ![h][s] = {}]
    /\ ReturnOk(s, {})
    /\ UNCHANGED <<up, cut, task, faultVars, lateSwaps>>

\* handleMap up to the creation of the empty bucket files.
MapBegin(s) ==
    LET h == callHost[s] IN
    /\ Serving(s, sLoaded) /\ ~task[s].begun
    /\ task' = [task EXCEPT ![s].begun = TRUE]
    /\ buckets' = [buckets EXCEPT ![h][s] = {}]
    /\ output' = [output EXCEPT ![h][s] = {}]
    /\ cut' = {p \in cut : p[1] # s}
    /\ UNCHANGED <<vars, up, input, faultVars, lateSwaps>>

\* Flush or Close of the bucket for reducer r fails: the end of the file is
\* missing.  handleMap ignores the error and goes on to answer 200.
FlushFails(s, r) ==
    /\ Serving(s, sLoaded) /\ task[s].begun /\ lost < MaxLost
    /\ s \in WithInput /\ <<s, r>> \notin cut
    /\ cut' = cut \cup {<<s, r>>}
    /\ lost' = lost + 1
    /\ UNCHANGED <<vars, up, input, buckets, output, task, crashes, abandoned, lateSwaps>>

\* The buckets are flushed and closed; downloaded input files, which only the
\* URL mode has, are then deleted (clearMappedInputs).
MapEnd(s) ==
    LET h == callHost[s] IN
    /\ Serving(s, sLoaded) /\ task[s].begun
    /\ buckets' = [buckets EXCEPT ![h][s] =
                     {r \in Slots : input[h][s] = "ready" /\ <<s, r>> \notin cut}]
    /\ input' = IF UrlMode /\ s \in WithInput
                  THEN [input EXCEPT ![h][s] = "gone"] ELSE input
    /\ ReturnOk(s, {})
    /\ UNCHANGED <<up, output, cut, task, faultVars, lateSwaps>>

Wanted(s) == {i \in Slots : peers[s][i] # NoHost}

\* One goroutine of handleReduce: GET /intermediate from the peer listed for
\* slot i.  handleIntermediate serves what is in the bucket at that moment,
\* and an empty 200 when the file does not exist.
Fetch(s, i) ==
    /\ Serving(s, sMapped)
    /\ i \in Wanted(s) \ Attempted(task[s])
    /\ LET h == peers[s][i] IN
         \/ h \notin up /\ task' = [task EXCEPT ![s].failed = @ \cup {i}]
         \/ h \in up /\ s \in buckets[h][i] /\ task' = [task EXCEPT ![s].got = @ \cup {i}]
         \/ h \in up /\ s \notin buckets[h][i] /\ task' = [task EXCEPT ![s].short = @ \cup {i}]
    /\ UNCHANGED <<vars, up, fileVars, faultVars, lateSwaps>>

\* A fetch from a worker that is up may fail as well.
FetchFails(s, i) ==
    /\ Serving(s, sMapped) /\ lost < MaxLost
    /\ i \in Wanted(s) \ Attempted(task[s])
    /\ task' = [task EXCEPT ![s].failed = @ \cup {i}]
    /\ lost' = lost + 1
    /\ UNCHANGED <<vars, up, fileVars, crashes, abandoned, lateSwaps>>

\* Seeded fault: handleReduce does not wait for its fetches.
FetchedUnawaited(s) == Serving(s, sMapped)
Fetched(s) == Serving(s, sMapped) /\ Wanted(s) \subseteq Attempted(task[s])

\* handleReduce answers 500 naming the lowest slot it could not fetch from.
ReduceNamesPeer(s, c) ==
    /\ Fetched(s)
    /\ c \in task[s].failed /\ \A i \in task[s].failed : c <= i
    /\ ReturnErr(s, c)
    /\ UNCHANGED workerVars

\* Sorted and reduced: the output is kept and the coordinator told so.
Reduce(s) ==
    /\ Fetched(s) /\ task[s].failed = {}
    /\ output' = [output EXCEPT ![callHost[s]][s] = task[s].got]
    /\ ReturnOk(s, {})
    /\ UNCHANGED <<up, input, buckets, cut, task, faultVars, lateSwaps>>

\* handleResult returns the output, whatever it is.
Result(s) ==
    /\ Serving(s, sReduced)
    /\ ReturnOk(s, output[callHost[s]][s])
    /\ UNCHANGED workerVars

-----------------------------------------------------------------------------
(* Failures *)

\* The worker process or its machine stops; nothing restarts it.
Crash(h) ==
    /\ ~Ended /\ h \in up /\ crashes < MaxCrashes
    /\ up' = up \ {h}
    /\ crashes' = crashes + 1
    /\ UNCHANGED <<vars, fileVars, task, lost, abandoned, lateSwaps>>

\* The call finds no worker, the connection breaks when the worker dies, or
\* /reduce or /result finds a slot this worker has never heard of.
Refused(s) ==
    /\ step[s] = "calling"
    /\ callHost[s] \in up => state[s] >= sMapped /\ ~Known(s)
    /\ ReturnErr(s, s)
    /\ UNCHANGED workerVars

\* The handler answers 500: a download, a file operation, the sort or the job
\* failed.  A failed /load has entered the slot in the worker's table and
\* thrown its old input and output away (resetInputs).
HandlerFails(s) ==
    LET h == callHost[s] IN
    /\ step[s] = "calling" /\ h \in up /\ lost < MaxLost
    /\ ReturnErr(s, s)
    /\ lost' = lost + 1
    /\ IF state[s] = sPending
         THEN /\ input' = [input EXCEPT ![h][s] = "gone"]
              /\ output' = [output EXCEPT ![h][s] = {}]
         ELSE UNCHANGED <<input, output>>
    /\ UNCHANGED <<up, buckets, cut, task, crashes, abandoned, lateSwaps>>

\* The worker is up and the coordinator gets no answer in time: the request
\* or the answer was lost, or the handler is still at work.
Lose(s) ==
    /\ step[s] = "calling" /\ callHost[s] \in up /\ lost < MaxLost
    /\ ReturnErr(s, s)
    /\ lost' = lost + 1
    /\ abandoned' = abandoned \cup {<<callHost[s], s>>}
    /\ UNCHANGED <<up, fileVars, task, crashes, lateSwaps>>

-----------------------------------------------------------------------------
(* The coordinator's own steps, with the workers looking on *)

Start ==
    /\ ActivateOk /\ cand \in up
    /\ UNCHANGED workerVars

StartFails ==
    /\ ActivateFails
    /\ \/ cand \notin up /\ UNCHANGED lost
       \/ cand \in up /\ lost < MaxLost /\ lost' = lost + 1
    /\ UNCHANGED <<up, fileVars, task, crashes, abandoned, lateSwaps>>

Rebind ==
    /\ Assign
    /\ lateSwaps' = IF target >= sReduced THEN lateSwaps \cup {err[idx]} ELSE lateSwaps
    /\ UNCHANGED <<up, fileVars, task, faultVars>>

Handlers ==
    \E s \in Slots :
      \/ Load(s) \/ MapBegin(s) \/ MapEnd(s)
      \/ \E i \in Slots : \/ FlushFails(s, i) \/ Fetch(s, i) \/ FetchFails(s, i)
                         \/ ReduceNamesPeer(s, i)
      \/ Reduce(s) \/ Result(s)
      \/ HandlerFails(s) \/ Refused(s) \/ Lose(s)

Control ==
    \/ \E s \in Slots : Send(s) \/ (SkipStep(s) /\ UNCHANGED workerVars)
    \/ Start \/ StartFails \/ Rebind
    \/ /\ \/ Barrier \/ NextResult \/ Exhausted \/ Retire \/ NoSpare \/ NoActiveHost
          \/ \E h \in Hosts : ClaimSpare(h) \/ ClaimActiveHost(h)
          \/ Retry \/ NextDrive \/ Succeed \/ Terminated
       /\ UNCHANGED workerVars

\* A worker that has crashed never answers a poll; one that is up may be late.
Health ==
    /\ \/ PollStart
       \/ \E h \in Hosts : (h \in up /\ PollOk(h)) \/ PollFail(h)
    /\ UNCHANGED workerVars

MRNext == Handlers \/ Control \/ (\E h \in Hosts : Crash(h)) \/ Health
MRSpec == MRInit /\ [][MRNext]_mvars

-----------------------------------------------------------------------------
(* Properties *)

\* Every variable has its type, and a call in flight is one to the present
\* owner of its slot.
MRTypeOK ==
    /\ TypeOK
    /\ \A s \in Slots : step[s] = "calling" => callHost[s] = host[s]
    /\ up \in SUBSET Hosts
    /\ input \in [Hosts -> [Slots -> {"none", "ready", "gone"}]]
    /\ buckets \in [Hosts -> [Slots -> SUBSET Slots]]
    /\ output \in [Hosts -> [Slots -> SUBSET Slots]]
    /\ cut \in SUBSET (Slots \X Slots)
    /\ task \in [Slots -> [begun : BOOLEAN, got : SUBSET Slots,
                           short : SUBSET Slots, failed : SUBSET Slots]]
    /\ crashes \in 0 .. MaxCrashes /\ lost \in 0 .. MaxLost
    /\ abandoned \in SUBSET (Hosts \X Slots)
    /\ lateSwaps \in SUBSET Slots

\* The progress the coordinator has on record is backed by its present owner:
\* a slot recorded as loaded has its input there, and one recorded as mapped
\* has complete buckets there (or the owner has crashed), but for those whose
\* writing failed unnoticed in that slot's last /map.  In URL mode /map deletes
\* its input, so this fails if any slot is ever mapped twice.
OwnersBackTheRecord ==
    \A s \in Slots : host[s] \in up =>
        /\ state[s] = sLoaded => input[host[s]][s] = "ready"
        /\ state[s] >= sMapped =>
             \A r \in Slots \ buckets[host[s]][s] : <<s, r>> \in cut

\* A call given up without an answer may still be running on its worker.  No
\* later call for the same slot goes to that worker, so two handlers never
\* work on one slot's files, inputs or output at once.
NoOverlappingHandlers ==
    \A s \in Slots : step[s] = "calling" => <<callHost[s], s>> \notin abandoned

\* A finished job that lacks data of a slot lost it in one of two ways: the
\* slot's worker was replaced after the map phase had been declared done, or
\* the last /map of the slot cut the bucket of the reducer that lacks it and
\* answered 200.
OnlySwapsAndCutsLose ==
    pc = "succeeded" =>
        \A r \in Slots : \A i \in WithInput \ result[r] :
            i \in lateSwaps \/ <<i, r>> \in cut

\* Without a fault of the environment no host is ever swapped and no job
\* fails, even if the health watcher takes slow workers for dead.
SwapsNeedFaults ==
    crashes + lost = 0 => epoch = 0 /\ pc \notin {"exhausted", "nohost"}

\* Handlers end and the driving goroutine goes on; crashes, lost calls and
\* polls may or may not happen.
MRFairness == WF_mvars(Handlers) /\ WF_mvars(Control)

\* Every job ends, whichever workers crash and whichever calls are lost: no
\* error is retried forever.
JobEnds == <>Ended
============================================================================
