----------------------------- MODULE RunBounded -----------------------------
(***************************************************************************)
(* RunBounded and NormalizeParallelism (internal/remote/remote.go): a call *)
(* for each item, on goroutines of which a channel used as a semaphore     *)
(* lets only so many run at once, and a wait for all of them.  The items   *)
(* are numbers, in the order of the slice.                                 *)
(***************************************************************************)
EXTENDS Integers, FiniteSets

CONSTANT DefaultParallelism   \* 16

ASSUME ParallelismAssumption == DefaultParallelism \in Nat \ {0}

VARIABLES
    rest,     \* items the loop has not reached yet
    running,  \* items whose goroutine is at work, each with a place in sem
    size      \* the capacity of sem

boundedVars == <<rest, running, size>>

\* A limit that is not positive stands for the default.
NormalizeParallelism(limit, total) ==
    LET wanted == IF limit <= 0 THEN DefaultParallelism ELSE limit
    IN IF total <= 0 THEN 1 ELSE IF wanted > total THEN total ELSE wanted

BoundedInit == rest = {} /\ running = {} /\ size = 1

Call(items, limit) ==
    /\ rest' = items /\ running' = {}
    /\ size' = NormalizeParallelism(limit, Cardinality(items))

\* The loop takes a place in sem, for which it may have to wait, and starts
\* the goroutine of the next item.
Launch(i) ==
    /\ i \in rest /\ \A j \in rest : i <= j
    /\ Cardinality(running) < size
    /\ rest' = rest \ {i} /\ running' = running \cup {i}
    /\ UNCHANGED size

\* fn returns: the deferred functions give the place back and count down wg.
Finish(i) ==
    /\ i \in running
    /\ running' = running \ {i}
    /\ UNCHANGED <<rest, size>>

\* Seeded fault: the caller does not wait for the goroutines.
LoopEnded == rest = {}
Returned == rest = {} /\ running = {}
=============================================================================
