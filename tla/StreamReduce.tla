---------------------------- MODULE StreamReduce ----------------------------
(***************************************************************************)
(* The data a worker and the coordinator compute: runMap, targetNode and   *)
(* runReduce (worker/mapreduce.go), the sort in handleReduce, and          *)
(* mergeResults (mapreduce/coordinator.go).                                *)
(***************************************************************************)
EXTENDS Chunking

CONSTANT KeyHash(_)   \* fnv32a of a key, a natural number

\* Seeded fault: pairs stay in the bucket of the slot whose worker emits them.
OwnBucket(key, s) == s
TargetNode(key, s) == KeyHash(key) % N

\* Seeded fault: the buffer of the scanner is larger than a chunk.
LargerBuffer(text) == \E i \in DOMAIN LinesOf(text) : Len(LinesOf(text)[i]) > ChunkSize

\* A scanner gives up on a line that fills its 64 MB buffer, which is as large
\* as a chunk, before the newline is found.
Unscannable(text) == \E i \in DOMAIN LinesOf(text) : Len(LinesOf(text)[i]) >= ChunkSize

\* What runMap writes for a slot's text into the bucket of reducer r.
RunMap(job, text, s, r) ==
    LET lines == LinesOf(text)
        emitted == FlattenSeq([i \in DOMAIN lines |-> JobMap(job, lines[i])])
    IN Only(emitted, {kv \in Range(emitted) : TargetNode(kv.key, s) = r})

\* sort -k1,1: equal keys become neighbours, the empty key comes first.  Among
\* the other keys the order is any, as nothing that follows depends on it.
SortByKey(pairs) ==
    LET keys == {kv.key : kv \in Range(pairs)}
        order == (IF EmptyKey \in keys THEN <<EmptyKey>> ELSE <<>>)
                     \o SetToSeq(keys \ {EmptyKey})
        Of(k) == Only(pairs, {kv \in Range(pairs) : kv.key = k})
    IN FlattenSeq([i \in DOMAIN order |-> Of(order[i])])

\* runReduce streams over the sorted pairs.  The empty key stands for "no key
\* yet", so the values of an empty key would be kept for the key after it.
NoKeyYet == [out |-> <<>>, key |-> EmptyKey, values |-> <<>>]
Emit(job, acc) == Append(acc.out, Pair(acc.key, JobReduce(job, acc.values)))
TakePair(job, acc, kv) ==
    IF acc.key \in {EmptyKey, kv.key}
      THEN [acc EXCEPT !.key = kv.key, !.values = Append(@, kv.value)]
      ELSE [out |-> Emit(job, acc), key |-> kv.key, values |-> <<kv.value>>]
Streamed(job, pairs) == FoldLeft(LAMBDA acc, kv : TakePair(job, acc, kv), NoKeyYet, pairs)
RunReduce(job, sorted) ==
    LET end == Streamed(job, sorted)
    IN IF end.key = EmptyKey THEN end.out ELSE Emit(job, end)

\* The sum of the values of key k among some pairs, 0 if it has none.
SumOf(pairs, k) ==
    FoldLeft(LAMBDA sum, kv : IF kv.key = k THEN sum + kv.value ELSE sum, 0, pairs)

KeysOf(pairs) == {kv.key : kv \in Range(pairs)}

\* The merged map from keys to counts; the file lists it by falling count.
MergeResults(results) ==
    LET all == FlattenSeq([i \in 1 .. N |-> results[i - 1]])
    IN [k \in KeysOf(all) |-> SumOf(all, k)]
=============================================================================
