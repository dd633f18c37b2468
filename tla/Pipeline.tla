------------------------------ MODULE Pipeline ------------------------------
(***************************************************************************)
(* One job on its way from the input to the output file, with its data:    *)
(* run() in mapreduce/main.go, whose drives are the phases here, and the   *)
(* handlers of worker/main.go with the files they keep.  It composes       *)
(* Chunking, Download, StreamReduce and ResultFile.                        *)
(*                                                                         *)
(* All slots are on one worker, where the files of several slots meet in   *)
(* one directory.  A call that fails ends the job: replacements, retries   *)
(* elsewhere and crashes of workers are MapReduce's, which in turn leaves  *)
(* the data out.                                                           *)
(***************************************************************************)
EXTENDS Download, ResultFile

\* The inputs a job may be given.  An input is [job, mode, texts, limits]: in
\* mode "local" texts has the text of the -input file; in modes "urls" and
\* "latest", with -crawl and without, it has those of the manifest's URLs, in
\* the order of their names; limits are -files-limit and -chunks-limit.
CONSTANT Inputs

ASSUME InputsAssumption ==
    \A in \in Inputs :
        /\ in.job \in JobNames /\ in.mode \in {"local", "urls", "latest"}
        /\ in.texts \in Seq(Seq(Symbols)) /\ in.limits \in Nat \X Nat
        /\ in.mode = "local" => Len(in.texts) = 1

\* fnv32a is unsigned: the hash of every key of a part of a text is natural.
ASSUME HashAssumption ==
    \A in \in Inputs : \A text \in Range(in.texts) :
        \A span \in (DOMAIN text) \X (0 .. Len(text)) :
            \A k \in KeysOf(JobMap(in.job, SubSeq(text, span[1], span[2]))) :
                KeyHash(k) \in Nat

VARIABLES
    input,      \* the flags and the data, fixed for the job
    pc,         \* the phase run() is in
    manifestTries,  \* failed attempts to get the list of crawls or of URLs
    chunk,      \* per slot: the chunk sent to it
    buckets,    \* the bucket files that exist: name -> pairs
    fetch,      \* per slot and source: "todo", "ok" or "err"
    peerFiles,  \* the fetched copies that exist: name -> pairs
    output,     \* per slot: slot.output of the worker
    result,     \* per slot: s.result of the coordinator
    merged,     \* what mergeResults computes
    lossy       \* history: a bucket was cut short and /map answered 200

jobVars == <<input, manifestTries, chunk>>
mapVars == <<buckets, lossy>>
reduceVars == <<fetch, peerFiles, output>>
endVars == <<result, merged, fileState>>
pvars == <<downloadVars, jobVars, mapVars, reduceVars, endVars, pc>>

PipelineInit ==
    /\ input \in Inputs
    /\ pc = IF input.mode = "latest" THEN "index" ELSE "prepare"
    /\ DownloadInit([s \in Slots |-> <<>>])
    /\ ResultFileInit
    /\ manifestTries = 0
    /\ chunk = [s \in Slots |-> <<>>]
    /\ buckets = <<>> /\ peerFiles = <<>>
    /\ fetch = [s \in Slots |-> [i \in Slots |-> "todo"]]
    /\ output = [s \in Slots |-> <<>>] /\ result = [s \in Slots |-> <<>>]
    /\ merged = <<>>
    /\ lossy = FALSE

-----------------------------------------------------------------------------
(* Input *)

SelectedURLs ==
    ApplyLimits([i \in DOMAIN input.texts |-> i], input.limits[1], input.limits[2])

PrepareLocal ==
    /\ pc = "prepare" /\ input.mode = "local"
    /\ chunk' = [s \in Slots |->
                   ChunkForWorker(SplitIntoChunks(input.texts[1], ChunkSize), s)]
    /\ pc' = "load"
    /\ UNCHANGED <<downloadVars, input, manifestTries, mapVars, reduceVars, endVars>>

\* Without -crawl the list of crawls is read first; it may be empty.
LatestCrawl ==
    /\ pc = "index"
    /\ \E found \in BOOLEAN : pc' = IF found THEN "prepare" ELSE "failed"
    /\ manifestTries' = 0
    /\ UNCHANGED <<downloadVars, input, chunk, mapVars, reduceVars, endVars>>

\* No URL at all is an error.
PrepareURLs ==
    /\ pc = "prepare" /\ input.mode # "local"
    /\ urls' = AssignURLsRoundRobin(SelectedURLs)
    /\ pc' = IF SelectedURLs = <<>> THEN "failed" ELSE "load"
    /\ UNCHANGED <<at, loadVars, faults, jobVars, mapVars, reduceVars, endVars>>

\* retryCommonCrawl, for either list.
ManifestFails ==
    /\ pc \in {"index", "prepare"} /\ input.mode # "local" /\ Fault
    /\ manifestTries' = manifestTries + 1
    /\ pc' = IF TriesLeft(manifestTries + 1) THEN pc ELSE "failed"
    /\ UNCHANGED <<urls, at, loadVars, input, chunk, mapVars, reduceVars, endVars>>

-----------------------------------------------------------------------------
(* Handlers *)

Load(s) ==
    /\ pc = "load"
    /\ DownloadStep(s)
    /\ UNCHANGED <<pc, jobVars, mapVars, reduceVars, endVars>>

\* A slot without URLs is sent its chunk with POST /data, empty or not.
Data(s) ==
    /\ pc = "load" /\ at[s] = "idle" /\ urls[s] = <<>>
    /\ GoTo(s, "loaded")
    /\ UNCHANGED <<pc, urls, loadVars, faults, jobVars, mapVars, reduceVars, endVars>>

BucketFile(s, r) == <<s, N, r>>
BucketsOf(s) == {BucketFile(s, r) : r \in Slots}

\* handleMap: fresh and empty bucket files, one per reducer.
MapBegin(s) ==
    /\ pc = "map" /\ at[s] = "loaded"
    /\ buckets' = Written(buckets, BucketsOf(s), LAMBDA b : <<>>)
    /\ GoTo(s, "mapping")
    /\ UNCHANGED <<pc, urls, loadVars, faults, jobVars, lossy, reduceVars, endVars>>

\* The texts a slot maps: its files, or its chunk if it has none.
TextsOf(s) ==
    IF urls[s] = <<>> THEN <<chunk[s]>>
    ELSE [i \in DOMAIN urls[s] |-> input.texts[inputFiles[InputFile(s, i)]]]

Emitted(s, r) ==
    FlattenSeq([i \in DOMAIN TextsOf(s) |-> RunMap(input.job, TextsOf(s)[i], s, r)])

Mappable(s) ==
    /\ urls[s] # <<>> => InputNames(s) \subseteq DOMAIN inputFiles
    /\ \A i \in DOMAIN TextsOf(s) : ~Unscannable(TextsOf(s)[i])

\* All lines are mapped, the buckets are flushed, and downloaded files go.  An
\* error of Flush is not looked at: the last part of one of the buckets may be
\* missing, here all of it, with /map answering 200.
MapEnd(s) ==
    /\ pc = "map" /\ at[s] = "mapping" /\ Mappable(s)
    /\ \E short \in SUBSET Slots :
         /\ Cardinality(short) <= 1
         /\ IF short = {} THEN UNCHANGED faults ELSE Fault
         /\ lossy' = (lossy \/ \E r \in short : Emitted(s, r) # <<>>)
         /\ buckets' = Written(buckets, BucketsOf(s), LAMBDA b :
                          IF b[3] \in short THEN <<>> ELSE Emitted(s, b[3]))
    /\ inputFiles' = Without(inputFiles, InputNames(s))
    /\ GoTo(s, "mapped")
    /\ UNCHANGED <<pc, urls, got, tries, temp, jobVars, reduceVars, endVars>>

\* A line fills the scanner's buffer: 500, and the input stays.
MapTooLong(s) ==
    /\ pc = "map" /\ at[s] = "mapping" /\ ~Mappable(s)
    /\ GoTo(s, "failed")
    /\ UNCHANGED <<pc, urls, loadVars, faults, jobVars, mapVars, reduceVars, endVars>>

PeerFile(s, i) == <<s, i>>

\* handleIntermediate: a bucket without a file is empty.
Served(b) == IF b \in DOMAIN buckets THEN buckets[b] ELSE <<>>

\* A goroutine of handleReduce and the /intermediate that serves it.
Fetch(s, i) ==
    /\ pc = "reduce" /\ at[s] = "mapped" /\ fetch[s][i] = "todo"
    /\ peerFiles' = Written(peerFiles, {PeerFile(s, i)}, LAMBDA f : Served(BucketFile(i, s)))
    /\ fetch' = [fetch EXCEPT ![s][i] = "ok"]
    /\ UNCHANGED <<pc, downloadVars, jobVars, mapVars, output, endVars>>

FetchFails(s, i) ==
    /\ pc = "reduce" /\ at[s] = "mapped" /\ fetch[s][i] = "todo" /\ Fault
    /\ fetch' = [fetch EXCEPT ![s][i] = "err"]
    /\ UNCHANGED <<pc, urls, at, loadVars, jobVars, mapVars, peerFiles, output, endVars>>

Fetched(s) == \A i \in Slots : fetch[s][i] # "todo"

Reduce(s) ==
    /\ pc = "reduce" /\ at[s] = "mapped"
    /\ \A i \in Slots : fetch[s][i] = "ok"
    /\ LET copies == FlattenSeq([i \in 1 .. N |-> peerFiles[PeerFile(s, i - 1)]])
       IN output' = [output EXCEPT ![s] = RunReduce(input.job, SortByKey(copies))]
    /\ GoTo(s, "reduced")
    /\ UNCHANGED <<pc, urls, loadVars, faults, jobVars, mapVars, fetch, peerFiles, endVars>>

ReduceFails(s) ==
    /\ pc = "reduce" /\ at[s] = "mapped" /\ Fetched(s)
    /\ \E i \in Slots : fetch[s][i] = "err"
    /\ GoTo(s, "failed")
    /\ UNCHANGED <<pc, urls, loadVars, faults, jobVars, mapVars, reduceVars, endVars>>

\* handleResult and fetchSlotResultCtx.  TrimSpace on the body takes no more
\* than the final newline: no key begins and no value ends with a blank.
Collect(s) ==
    /\ pc = "collect" /\ at[s] = "reduced"
    /\ result' = [result EXCEPT ![s] = output[s]]
    /\ GoTo(s, "collected")
    /\ UNCHANGED <<pc, urls, loadVars, faults, jobVars, mapVars, reduceVars, merged, fileState>>

-----------------------------------------------------------------------------
(* The phases *)

Target == [load |-> "loaded", map |-> "mapped", reduce |-> "reduced"]
After == [load |-> "map", map |-> "reduce", reduce |-> "collect"]

\* A drive ends when the calls of all slots have returned.
NextPhase ==
    /\ pc \in DOMAIN Target /\ \A s \in Slots : at[s] = Target[pc]
    /\ pc' = After[pc]
    /\ UNCHANGED <<downloadVars, jobVars, mapVars, reduceVars, endVars>>

JobFails ==
    /\ pc \in DOMAIN Target
    /\ \A s \in Slots : at[s] \in {Target[pc], "noinput", "failed"}
    /\ \E s \in Slots : at[s] # Target[pc]
    /\ pc' = "failed"
    /\ UNCHANGED <<downloadVars, jobVars, mapVars, reduceVars, endVars>>

Merge ==
    /\ pc = "collect" /\ \A s \in Slots : at[s] = "collected"
    /\ merged' = MergeResults(result)
    /\ pc' = "write"
    /\ UNCHANGED <<downloadVars, jobVars, mapVars, reduceVars, result, fileState>>

Write ==
    /\ pc = "write"
    /\ \/ WriterSucceeds /\ UNCHANGED faults
       \/ WriterFails /\ Fault
    /\ UNCHANGED <<pc, urls, at, loadVars, jobVars, mapVars, reduceVars, result, merged>>

WriteEnds ==
    /\ pc = "write"
    /\ pc' = CASE writer = "ok" -> "done" [] writer = "err" -> "failed"
               [] writer = "dead" -> "dead" [] OTHER -> pc
    /\ pc' # pc
    /\ UNCHANGED <<downloadVars, jobVars, mapVars, reduceVars, endVars>>

Terminated == pc \in {"done", "failed", "dead"} /\ UNCHANGED pvars

Handlers ==
    \E s \in Slots :
      \/ Load(s) \/ Data(s)
      \/ MapBegin(s) \/ MapEnd(s) \/ MapTooLong(s)
      \/ \E i \in Slots : Fetch(s, i) \/ FetchFails(s, i)
      \/ Reduce(s) \/ ReduceFails(s) \/ Collect(s)
Run ==
    \/ PrepareLocal \/ LatestCrawl \/ PrepareURLs \/ ManifestFails
    \/ NextPhase \/ JobFails \/ Merge \/ Write \/ WriteEnds
PipelineNext == Handlers \/ Run \/ Terminated
PipelineSpec == PipelineInit /\ [][PipelineNext]_pvars

-----------------------------------------------------------------------------
(* Properties *)

\* Every variable has its type.
PipelineTypeOK ==
    /\ ResultFileTypeOK
    /\ input \in Inputs
    /\ pc \in {"index", "prepare", "load", "map", "reduce", "collect", "write"}
              \cup {"done", "failed", "dead"}
    /\ at \in [Slots -> DownloadPlaces \cup {"mapping", "mapped", "reduced", "collected", "failed"}]
    /\ \A s \in Slots : Range(urls[s]) \subseteq DOMAIN input.texts
    /\ temp \in [Slots -> {"none", "part", "whole"}]
    /\ \A s \in Slots :
         tries[s] \in 0 .. IF at[s] \in {"giveup", "noinput"} THEN MaxTries ELSE MaxTries - 1
    /\ manifestTries \in 0 .. IF pc = "failed" THEN MaxTries ELSE MaxTries - 1
    /\ \A s \in Slots : got[s] \in 0 .. Len(urls[s])
    /\ DOMAIN inputFiles \subseteq UNION {InputNames(s) : s \in Slots}
    /\ DOMAIN buckets \subseteq UNION {BucketsOf(s) : s \in Slots}
    /\ DOMAIN peerFiles \subseteq {PeerFile(s, i) : s, i \in Slots}
    /\ fetch \in [Slots -> [Slots -> {"todo", "ok", "err"}]]
    /\ \A s \in Slots : Len(output[s]) \in Nat /\ result[s] \in {<<>>, output[s]}
    /\ \A k \in DOMAIN merged : merged[k] \in Nat
    /\ lossy \in BOOLEAN /\ faults \in 0 .. MaxFaults

\* What the job should count, by positions in the texts and without chunks,
\* buckets or streams.  A line is given by its first and last position.
SpansOf(text, inner) ==
    {span \in (DOMAIN text) \X (0 .. Len(text)) :
        /\ span[1] <= span[2] + 1
        /\ \A i \in span[1] .. span[2] : text[i] \in inner
        /\ span[1] > 1 => text[span[1] - 1] \notin inner
        /\ span[2] < Len(text) => text[span[2] + 1] \notin inner}
LineSpans(text) == SpansOf(text, Symbols \ {NL})
WordSpans(text, inner) == {w \in SpansOf(text, inner) : w[1] <= w[2]}
At(text, span) == SubSeq(text, span[1], span[2])

\* The part of the input the slots were given: the URLs within the limits, or
\* as much of the file as its first N chunks hold.
Given ==
    LET first == [s \in Slots |-> Len(ChunkForWorker(
                                    SplitIntoChunks(input.texts[1], ChunkSize), s))]
    IN IF input.mode # "local" THEN [i \in DOMAIN SelectedURLs |-> input.texts[i]]
       ELSE << SubSeq(input.texts[1], 1, SumFunction(first)) >>

CountIn(text, k) ==
    SumFunction([span \in LineSpans(text) |-> SumOf(JobMap(input.job, At(text, span)), k)])
KeysIn(text) ==
    UNION {KeysOf(JobMap(input.job, At(text, span))) : span \in LineSpans(text)}
Reference(texts) ==
    [k \in UNION {KeysIn(texts[i]) : i \in DOMAIN texts} |->
        SumFunction([i \in DOMAIN texts |-> CountIn(texts[i], k)])]

\* A job that reports success has counted everything its slots were given,
\* line by line, each line once, and of a local file that is a part that ends
\* where a line ends: the cut through a line that splitIntoChunks makes when
\* a chunk has no newline never gets into a result, as no worker can scan such
\* a chunk.  After an error of Flush the result may have less, but not more.
ResultIsReference ==
    pc = "done" =>
        LET want == Reference(Given) IN
        /\ input.mode = "local" =>
             Given[1] = input.texts[1] \/ (Given[1] # <<>> /\ Last(Given[1]) = NL)
        /\ IF ~lossy THEN merged = want
           ELSE \A k \in DOMAIN merged : k \in DOMAIN want /\ merged[k] <= want[k]

\* All pairs of a key meet in one slot's reduce: what a slot outputs for a key
\* is the whole count, so that reducers which do not add up would be right too.
KeysReducedWhole ==
    pc \in {"collect", "write", "done"} /\ ~lossy =>
        LET want == Reference(Given) IN
        \A s \in Slots : \A kv \in Range(output[s]) :
            kv.key \in DOMAIN want /\ kv.value = want[kv.key]

TotalOf(K) == SumFunctionOnSet(merged, K \cap DOMAIN merged)
CountOver(Spans(_)) == SumFunction([i \in DOMAIN Given |-> Cardinality(Spans(Given[i]))])

\* The totals of a complete result agree with the text: wordcount's with its
\* words, langdetect's with the lines long enough to judge; docdensity's two
\* kinds of characters make up all of them, and its histogram its lines.
TotalsAccountedFor ==
    pc = "done" /\ ~lossy =>
        /\ input.job = "wordcount" =>
             TotalOf(DOMAIN merged) = CountOver(LAMBDA t : WordSpans(t, Alnum))
        /\ input.job = "langdetect" =>
             TotalOf(DOMAIN merged) = CountOver(LAMBDA t :
               {l \in LineSpans(t) :
                  /\ Cardinality(WordSpans(At(t, l), Letters)) >= MinTokens
                  /\ ~IsWARCHeader(TrimSpace(At(t, l)))})
        /\ input.job = "docdensity" =>
             /\ TotalOf({<<"stat:chars.alnum">>, <<"stat:chars.other">>})
                  = TotalOf({<<"stat:chars.total">>})
             /\ TotalOf({k \in DOMAIN merged : k[1] = "hist:len."})
                  = TotalOf({<<"stat:lines">>})

=============================================================================
