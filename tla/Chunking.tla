------------------------------ MODULE Chunking ------------------------------
(***************************************************************************)
(* Which part of the input each slot gets (mapreduce/main.go): the chunks  *)
(* of a local file, or the URLs of a Common Crawl manifest.                *)
(***************************************************************************)
EXTENDS TextJobs

CONSTANTS
    N,          \* number of slots
    ChunkSize   \* chunkSize, 64 MB

ASSUME ChunkingAssumption == N \in Nat \ {0} /\ ChunkSize \in Nat \ {0}

Slots == 0 .. N - 1

\* Where the chunk that starts after position `from` ends: at the last newline
\* within maxSize bytes, or after maxSize bytes if there is none.
ChunkEnd(data, from, maxSize) ==
    LET newlines == {i \in from + 1 .. from + maxSize : data[i] = NL}
    IN IF Len(data) - from <= maxSize THEN Len(data)
       ELSE IF newlines = {} THEN from + maxSize
       ELSE Max(newlines)

SplitIntoChunks(data, maxSize) ==
    LET chunks[from \in 0 .. Len(data)] ==
            IF from = Len(data) THEN <<>>
            ELSE LET end == ChunkEnd(data, from, maxSize)
                 IN << SubSeq(data, from + 1, end) >> \o chunks[end]
    IN chunks[0]

\* Slot numbers start at 0; a slot beyond the chunks gets an empty one, and a
\* chunk beyond the slots goes to nobody.
ChunkForWorker(chunks, s) == IF s < Len(chunks) THEN chunks[s + 1] ELSE <<>>

\* A limit of 0 is none.  The manifest has been sorted by name.
ApplyLimits(urls, filesLimit, chunksLimit) ==
    LET Cap(limit, cap) == IF cap > 0 /\ cap < limit THEN cap ELSE limit
    IN SubSeq(urls, 1, Cap(Cap(Len(urls), filesLimit), chunksLimit))

\* Slot s gets the URLs at s, s + N, s + 2N, ..., counted from 0.
AssignURLsRoundRobin(urls) ==
    [s \in Slots |-> [j \in 1 .. (Len(urls) + N - 1 - s) \div N |-> urls[s + (j - 1) * N + 1]]]
=============================================================================
