--------------------------- MODULE PipelineProofs ---------------------------
(***************************************************************************)
(* Proofs about Pipeline: what its downloads leave in the work directory   *)
(* and what a reader sees of the output file, for any number of slots,     *)
(* attempts and faults and any inputs.                                     *)
(***************************************************************************)
EXTENDS Pipeline, DataProofs

-----------------------------------------------------------------------------
(* The output file *)

\* The temporary file is complete before it is renamed, there is none before
\* and after, and the new result is in place from the rename on, not earlier.
FileInv ==
    /\ ResultFileTypeOK
    /\ OldOrNew
    /\ writer \in {"idle", "renamed"} => tmpFile = "none"
    /\ writer = "written" => tmpFile = "new"
    /\ writer \in {"idle", "created", "written", "undo"} => outFile # "new"
    /\ writer = "renamed" => outFile = "new"

\* Every step of writeFileAtomic keeps the invariant.
LEMMA FileStep == ASSUME FileInv, WriterSucceeds \/ WriterFails PROVE FileInv'
<1> USE DEF FileInv, ResultFileTypeOK, OldOrNew
<1>1. CASE CreateTemp \/ WriteTemp BY <1>1 DEF CreateTemp, WriteTemp
<1>2. CASE RenameTemp \/ ReportSuccess \/ RemoveTemp
  BY <1>2 DEF RenameTemp, ReportSuccess, RemoveTemp
<1>3. CASE CreateTempFails \/ WriteTempFails BY <1>3 DEF CreateTempFails, WriteTempFails
<1>4. CASE RenameFails \/ WriterDies BY <1>4 DEF RenameFails, WriterDies
<1> QED BY <1>1, <1>2, <1>3, <1>4 DEF WriterSucceeds, WriterFails

\* Nothing else touches the output file.
LEMMA FileUntouched ==
    ASSUME PipelineNext, ~Write PROVE UNCHANGED fileState
<1> USE DEF endVars
<1>1. CASE Handlers
  BY <1>1 DEF Handlers, Load, Data, MapBegin, MapEnd, MapTooLong, Fetch, FetchFails, Reduce,
        ReduceFails, Collect
<1>2. CASE Run
  BY <1>2 DEF Run, PrepareLocal, LatestCrawl, PrepareURLs, ManifestFails, NextPhase, JobFails,
        Merge, WriteEnds
<1>3. CASE Terminated BY <1>3 DEF Terminated, pvars
<1> QED BY <1>1, <1>2, <1>3 DEF PipelineNext

\* Whatever fails and whenever the orchestrator dies, be it between the rename
\* and the report of it, the output file is the earlier one or the whole new
\* one; a success that is reported has it in place, a failure does not.
THEOREM OutputIsOldOrNew == PipelineSpec => []OldOrNew
<1>1. PipelineInit => FileInv
  BY DEF PipelineInit, ResultFileInit, FileInv, ResultFileTypeOK, OldOrNew
<1>2. FileInv /\ [PipelineNext]_pvars => FileInv'
  <2> SUFFICES ASSUME FileInv, [PipelineNext]_pvars PROVE FileInv' OBVIOUS
  <2>1. CASE Write BY <2>1, FileStep DEF Write
  <2>2. CASE UNCHANGED fileState
    BY <2>2 DEF fileState, FileInv, ResultFileTypeOK, OldOrNew
  <2>3. CASE UNCHANGED pvars BY <2>2, <2>3 DEF pvars, endVars
  <2> QED BY <2>1, <2>2, <2>3, FileUntouched
<1>3. FileInv => OldOrNew BY DEF FileInv
<1> QED BY <1>1, <1>2, <1>3, PTL DEF PipelineSpec

-----------------------------------------------------------------------------
(* Lists of URLs *)

\* Every slot is dealt a list of URLs of the manifest.
LEMMA DealtURLs ==
    ASSUME NEW D, NEW list \in Seq(D) PROVE AssignURLsRoundRobin(list) \in [Slots -> Seq(D)]
<1> SUFFICES ASSUME NEW s \in Slots
             PROVE [j \in 1 .. (Len(list) + N - 1 - s) \div N |-> list[s + (j - 1) * N + 1]] \in Seq(D)
  BY DEF AssignURLsRoundRobin
<1> DEFINE a == Len(list) + N - 1 - s
           k == a \div N
<1>1. N \in Nat \ {0} /\ s \in 0 .. N - 1 /\ Len(list) \in Nat
  BY ChunkingAssumption DEF Slots
<1>2. a \in Nat BY <1>1
<1>3. k \in Nat /\ k * N <= a BY <1>1, <1>2
<1>4. ASSUME NEW j \in 1 .. k PROVE list[s + (j - 1) * N + 1] \in D
  <2>1. j * N <= k * N BY <1>1, <1>3, <1>4
  <2>2. (j - 1) * N = j * N - N /\ (j - 1) * N \in Nat BY <1>1, <1>3, <1>4
  <2>3. ASSUME NEW jN \in Int, NEW kN \in Int, NEW l \in Nat, NEW n \in Nat, NEW d \in Nat,
               jN <= kN, kN <= l + n - 1 - s, d = jN - n
        PROVE  s + d + 1 \in 1 .. l
    BY <1>1, <2>3
  <2>4. s + (j - 1) * N + 1 \in 1 .. Len(list)
    <3>1. j * N \in Int /\ k * N \in Int BY <1>1, <1>3, <1>4
    <3> HIDE DEF k
    <3> QED BY <1>1, <1>3, <2>1, <2>2, <2>3, <3>1
  <2> QED BY <2>4
<1> QED BY <1>3, <1>4

-----------------------------------------------------------------------------
(* The downloads *)

\* What the prover needs of PipelineTypeOK.
LoadTypes ==
    /\ at \in [Slots -> DownloadPlaces \cup {"mapping", "mapped", "reduced", "collected", "failed"}]
    /\ urls \in [Slots -> Seq(Nat)]
    /\ got \in [Slots -> Nat]
    /\ temp \in [Slots -> {"none", "part", "whole"}]

Loading == {"idle", "get", "copy", "install", "giveup"}

\* The first got[s] files of a slot are whole until it has been mapped, and until
\* the load has ended there are no others; the temporary file is what the handler's place says.
SlotFiles(s) ==
    /\ at[s] = "idle" => got[s] = 0
    /\ at[s] \in Loading \cup {"loaded", "mapping"} =>
         \A i \in 1 .. got[s] :
             InputFile(s, i) \in DOMAIN inputFiles /\ inputFiles[InputFile(s, i)] = urls[s][i]
    /\ at[s] \in Loading =>
         \A i \in Nat : InputFile(s, i) \in DOMAIN inputFiles => i \in 1 .. got[s]
    /\ at[s] \in {"loaded", "mapping"} => DOMAIN urls[s] = 1 .. got[s]
    /\ at[s] = "noinput" => \A i \in Nat : InputFile(s, i) \notin DOMAIN inputFiles
    /\ at[s] \in {"idle", "get", "giveup", "noinput"} => temp[s] = "none"
    /\ at[s] = "install" => temp[s] = "whole"

LoadInv ==
    /\ LoadTypes
    /\ pc \in {"index", "prepare"} =>
         \A s \in Slots : at[s] = "idle" /\ \A i \in Nat : InputFile(s, i) \notin DOMAIN inputFiles
    /\ \A s \in Slots : SlotFiles(s)

\* A slot whose handler and files do not change keeps its part of the invariant.
LEMMA SlotUntouched ==
    ASSUME NEW s \in Slots, SlotFiles(s), UNCHANGED urls,
           at'[s] = at[s], got'[s] = got[s], temp'[s] = temp[s],
           \A i \in Nat :
               /\ InputFile(s, i) \in DOMAIN inputFiles' <=> InputFile(s, i) \in DOMAIN inputFiles
               /\ InputFile(s, i) \in DOMAIN inputFiles =>
                    inputFiles'[InputFile(s, i)] = inputFiles[InputFile(s, i)],
           got[s] \in Nat
    PROVE  SlotFiles(s)'
BY DEF SlotFiles, InputFile

\* The actions that move a slot on without a look at its input files.
LEMMA SlotMoves ==
    ASSUME LoadInv, NEW s \in Slots, UNCHANGED <<pc, urls, loadVars>>, at[s] # "idle",
           NEW p \in {"mapping", "mapped", "reduced", "collected", "failed"}, GoTo(s, p),
           p = "mapping" => at[s] = "loaded"
    PROVE  LoadInv'
<1>1. LoadTypes' BY DEF LoadInv, LoadTypes, GoTo, loadVars
<1>2. (pc \in {"index", "prepare"} => \A t \in Slots : at[t] = "idle" /\ \A i \in Nat : InputFile(t, i) \notin DOMAIN inputFiles)'
  BY DEF LoadInv, loadVars
<1>3. ASSUME NEW t \in Slots PROVE SlotFiles(t)'
  <2>1. CASE t # s
    BY <1>3, <2>1, SlotUntouched DEF LoadInv, LoadTypes, GoTo, loadVars
  <2>2. CASE t = s
    BY <1>3, <2>2 DEF LoadInv, LoadTypes, GoTo, loadVars, SlotFiles, Loading
  <2> QED BY <2>1, <2>2
<1> QED BY <1>1, <1>2, <1>3 DEF LoadInv

\* What the steps that touch the input files do to them.
LEMMA InstallFiles ==
    ASSUME NEW s \in Slots, Install(s)
    PROVE  /\ DOMAIN inputFiles' = {InputFile(s, got[s] + 1)} \cup DOMAIN inputFiles
           /\ temp[s] = "whole" => inputFiles'[InputFile(s, got[s] + 1)] = urls[s][got[s] + 1]
           /\ \A x \in DOMAIN inputFiles : x # InputFile(s, got[s] + 1) => inputFiles'[x] = inputFiles[x]
BY DEF Install, Written

\* The same for the files a step removes.
LEMMA DropFiles ==
    ASSUME NEW gone, inputFiles' = Without(inputFiles, gone)
    PROVE  /\ DOMAIN inputFiles' = DOMAIN inputFiles \ gone
           /\ \A x \in DOMAIN inputFiles \ gone : inputFiles'[x] = inputFiles[x]
BY DEF Without, Restrict

\* What a step leaves of another slot's download.
Frame(t) ==
    /\ at'[t] = at[t] /\ got'[t] = got[t] /\ temp'[t] = temp[t]
    /\ \A i \in Nat :
         /\ InputFile(t, i) \in DOMAIN inputFiles' <=> InputFile(t, i) \in DOMAIN inputFiles
         /\ InputFile(t, i) \in DOMAIN inputFiles =>
              inputFiles'[InputFile(t, i)] = inputFiles[InputFile(t, i)]

\* The file that a rename installs is whole.
LEMMA InstallStep ==
    ASSUME LoadTypes, NEW s \in Slots, SlotFiles(s), Install(s)
    PROVE  LoadTypes' /\ UNCHANGED urls /\ SlotFiles(s)' /\ \A t \in Slots \ {s} : Frame(t)
<1> DEFINE k == got[s] + 1
<1>1. at[s] = "install" /\ temp[s] = "whole" BY DEF Install, Written, SlotFiles
<1>2. /\ DOMAIN inputFiles' = {InputFile(s, k)} \cup DOMAIN inputFiles
      /\ inputFiles'[InputFile(s, k)] = urls[s][k]
      /\ \A x \in DOMAIN inputFiles : x # InputFile(s, k) => inputFiles'[x] = inputFiles[x]
  BY <1>1, InstallFiles
<1>3. \A t \in Slots, i \in Nat : InputFile(t, i) = InputFile(s, k) => t = s /\ i = k
  BY DEF InputFile
<1>4. k \in Nat /\ 1 .. k = (1 .. got[s]) \cup {k}
  <2>1. got[s] \in Nat BY DEF LoadTypes
  <2> QED BY <2>1
<1>5. LoadTypes' /\ UNCHANGED urls
  <2>1. /\ got' \in [Slots -> Nat] /\ temp' \in [Slots -> {"none", "part", "whole"}]
        /\ urls' = urls /\ urls \in [Slots -> Seq(Nat)]
    BY DEF LoadTypes, Install, Written
  <2>2. \E p \in {"loaded", "get"} : at' = [at EXCEPT ![s] = p] BY DEF Install, Written, GoTo
  <2> QED BY <2>1, <2>2 DEF LoadTypes, DownloadPlaces
<1>6. /\ got'[s] = k /\ temp'[s] = "none"
      /\ at'[s] = IF k = Len(urls[s]) THEN "loaded" ELSE "get"
  BY DEF LoadTypes, Install, Written, GoTo
<1>7. k = Len(urls[s]) => DOMAIN urls[s] = 1 .. k BY DEF LoadTypes
<1> HIDE DEF k
<1>8. \A i \in 1 .. k : InputFile(s, i) \in DOMAIN inputFiles' /\ inputFiles'[InputFile(s, i)] = urls[s][i]
  <2>1. \A i \in 1 .. got[s] : InputFile(s, i) \in DOMAIN inputFiles /\ inputFiles[InputFile(s, i)] = urls[s][i]
    BY <1>1 DEF SlotFiles, Loading
  <2>2. \A i \in 1 .. got[s] : i \in Nat /\ i # k BY DEF LoadTypes, k
  <2> QED BY <1>2, <1>3, <1>4, <2>1, <2>2
<1>9. \A i \in Nat : InputFile(s, i) \in DOMAIN inputFiles' => i \in 1 .. k
  BY <1>1, <1>2, <1>3, <1>4 DEF SlotFiles, Loading
<1>10. SlotFiles(s)'
  BY <1>5, <1>6, <1>7, <1>8, <1>9 DEF SlotFiles, Loading, InputFile
<1>11. ASSUME NEW t \in Slots \ {s} PROVE Frame(t)
  <2>1. at'[t] = at[t] /\ got'[t] = got[t] /\ temp'[t] = temp[t]
    BY <1>11 DEF LoadTypes, Install, Written, GoTo
  <2>2. \A i \in Nat : InputFile(t, i) # InputFile(s, k) BY <1>3, <1>11
  <2> QED BY <1>2, <2>1, <2>2 DEF Frame
<1> QED BY <1>5, <1>10, <1>11

\* The failed rename takes away no file that was there.
LEMMA InstallFailsStep ==
    ASSUME LoadTypes, NEW s \in Slots, SlotFiles(s), InstallFails(s)
    PROVE  LoadTypes' /\ UNCHANGED urls /\ SlotFiles(s)' /\ \A t \in Slots \ {s} : Frame(t)
<1> DEFINE gone == {InputFile(s, got[s] + 1)}
<1>1. inputFiles' = Without(inputFiles, gone) BY DEF InstallFails
<1>2. \A t \in Slots, i \in Nat : InputFile(t, i) \in gone => t = s /\ i = got[s] + 1
  BY DEF InputFile
<1> HIDE DEF gone
<1>3. /\ DOMAIN inputFiles' = DOMAIN inputFiles \ gone
      /\ \A x \in DOMAIN inputFiles \ gone : inputFiles'[x] = inputFiles[x]
  BY <1>1, DropFiles
<1>4. LoadTypes' /\ UNCHANGED <<urls, got>>
  BY DEF LoadTypes, InstallFails, Again, GoTo, DownloadPlaces
<1>5. at'[s] \in {"get", "giveup"} /\ temp'[s] = "none" /\ at[s] = "install"
  BY DEF LoadTypes, InstallFails, Again, GoTo
<1>6. \A i \in 1 .. got[s] : i \in Nat /\ i # got[s] + 1 BY DEF LoadTypes
<1>7. \A i \in 1 .. got[s] : InputFile(s, i) \notin gone BY <1>2, <1>6
<1>8. \A i \in 1 .. got[s] : InputFile(s, i) \in DOMAIN inputFiles' /\ inputFiles'[InputFile(s, i)] = urls[s][i]
  BY <1>3, <1>5, <1>7 DEF SlotFiles, Loading
<1>9. \A i \in Nat : InputFile(s, i) \in DOMAIN inputFiles' => i \in 1 .. got[s]
  BY <1>3, <1>5 DEF SlotFiles, Loading
<1>10. SlotFiles(s)'
  <2>1. (InputFile(s, 1) = InputFile(s, 1))' OBVIOUS
  <2> QED BY <1>4, <1>5, <1>8, <1>9 DEF SlotFiles, Loading, InputFile
<1>11. ASSUME NEW t \in Slots \ {s} PROVE Frame(t)
  <2>1. at'[t] = at[t] /\ got'[t] = got[t] /\ temp'[t] = temp[t]
    BY <1>11 DEF LoadTypes, InstallFails, Again, GoTo
  <2>2. \A i \in Nat : InputFile(t, i) \notin gone BY <1>2, <1>11
  <2> QED BY <1>3, <2>1, <2>2 DEF Frame
<1> QED BY <1>4, <1>10, <1>11

\* The load that gives up takes away exactly the files it had.
LEMMA GiveUpStep ==
    ASSUME LoadTypes, NEW s \in Slots, SlotFiles(s), GiveUp(s)
    PROVE  LoadTypes' /\ UNCHANGED urls /\ SlotFiles(s)' /\ \A t \in Slots \ {s} : Frame(t)
<1> DEFINE gone == {InputFile(s, i) : i \in 1 .. got[s]}
<1>1. inputFiles' = Without(inputFiles, gone) BY DEF GiveUp, RemoveGot
<1>2. \A t \in Slots, i \in Nat : InputFile(t, i) \in gone => t = s
  BY DEF InputFile
<1>3. \A i \in 1 .. got[s] : InputFile(s, i) \in gone OBVIOUS
<1> HIDE DEF gone
<1>4. /\ DOMAIN inputFiles' = DOMAIN inputFiles \ gone
      /\ \A x \in DOMAIN inputFiles \ gone : inputFiles'[x] = inputFiles[x]
  BY <1>1, DropFiles
<1>5. LoadTypes' /\ UNCHANGED <<urls, got, temp>>
  BY DEF LoadTypes, GiveUp, GoTo, DownloadPlaces
<1>6. at'[s] = "noinput" /\ temp[s] = "none" /\ at[s] = "giveup"
  BY DEF LoadTypes, GiveUp, GoTo, SlotFiles
<1>7. \A i \in Nat : InputFile(s, i) \notin DOMAIN inputFiles'
  BY <1>3, <1>4, <1>6 DEF SlotFiles, Loading
<1>8. SlotFiles(s)' BY <1>5, <1>6, <1>7 DEF SlotFiles, Loading, InputFile
<1>9. ASSUME NEW t \in Slots \ {s} PROVE Frame(t)
  <2>1. at'[t] = at[t] /\ got'[t] = got[t] /\ temp'[t] = temp[t]
    BY <1>9 DEF LoadTypes, GiveUp, GoTo
  <2>2. \A i \in Nat : InputFile(t, i) \notin gone BY <1>2, <1>9
  <2> QED BY <1>4, <2>1, <2>2 DEF Frame
<1> QED BY <1>5, <1>8, <1>9

\* A step of a download keeps the invariant.
LEMMA LoadStep ==
    ASSUME LoadInv, NEW s \in Slots, pc = "load", UNCHANGED pc,
           DownloadStep(s) \/ (at[s] = "idle" /\ urls[s] = <<>> /\ GoTo(s, "loaded") /\ UNCHANGED <<urls, loadVars>>)
    PROVE  LoadInv'
<1>1. LoadTypes /\ SlotFiles(s) /\ \A t \in Slots : SlotFiles(t) /\ got[t] \in Nat
  BY DEF LoadInv, LoadTypes
<1>2. SUFFICES LoadTypes' /\ UNCHANGED urls /\ SlotFiles(s)' /\ \A t \in Slots \ {s} : Frame(t)
  <2>1. ASSUME NEW t \in Slots \ {s} PROVE SlotFiles(t)'
    BY <1>1, <1>2, <2>1, SlotUntouched DEF Frame
  <2> QED BY <1>2, <2>1 DEF LoadInv
<1>3. CASE Install(s) BY <1>1, <1>3, InstallStep
<1>4. CASE InstallFails(s) BY <1>1, <1>4, InstallFailsStep
<1>5. CASE GiveUp(s) BY <1>1, <1>5, GiveUpStep
<1>6. CASE at[s] = "idle" /\ urls[s] = <<>> /\ GoTo(s, "loaded") /\ UNCHANGED <<urls, loadVars>>
  BY <1>1, <1>6 DEF loadVars, LoadTypes, GoTo, SlotFiles, Loading, DownloadPlaces, Frame
<1>7. CASE StartLoad(s) \/ Get(s) \/ Copy(s)
  <2>1. UNCHANGED <<urls, got, inputFiles>> BY <1>7 DEF StartLoad, Get, Copy
  <2>2. \/ at[s] = "idle" /\ GoTo(s, "get") /\ temp' = temp
        \/ at[s] = "get" /\ GoTo(s, "copy") /\ temp' = [temp EXCEPT ![s] = "part"]
        \/ at[s] = "copy" /\ GoTo(s, "install") /\ temp' = [temp EXCEPT ![s] = "whole"]
    BY <1>7 DEF StartLoad, Get, Copy
  <2>3. LoadTypes' BY <1>1, <2>1, <2>2 DEF GoTo, LoadTypes, DownloadPlaces
  <2>4. \A t \in Slots \ {s} : Frame(t)
    BY <1>1, <2>1, <2>2 DEF GoTo, LoadTypes, Frame
  <2>5. SlotFiles(s)'
    BY <1>1, <2>1, <2>2 DEF GoTo, LoadTypes, SlotFiles, Loading, InputFile
  <2> QED BY <2>1, <2>3, <2>4, <2>5
<1>8. CASE GetFails(s) \/ CopyFails(s)
  <2>1. /\ at[s] \in {"get", "copy"} /\ Again(s) /\ UNCHANGED <<urls, got, inputFiles>>
    BY <1>8 DEF GetFails, CopyFails
  <2>2. at'[s] \in {"get", "giveup"} /\ temp'[s] = "none"
    BY <1>1, <2>1 DEF Again, GoTo, LoadTypes
  <2>3. LoadTypes' BY <1>1, <2>1 DEF Again, GoTo, LoadTypes, DownloadPlaces
  <2>4. \A t \in Slots \ {s} : Frame(t)
    BY <1>1, <2>1 DEF Again, GoTo, LoadTypes, Frame
  <2>5. SlotFiles(s)'
    BY <1>1, <2>1, <2>2 DEF SlotFiles, Loading, InputFile
  <2> QED BY <2>1, <2>3, <2>4, <2>5
<1> QED BY <1>3, <1>4, <1>5, <1>6, <1>7, <1>8 DEF DownloadStep

\* Other steps leave the downloads alone, and pc does not go back.
LEMMA LoadsUntouched ==
    ASSUME LoadInv, UNCHANGED <<urls, at, loadVars>>,
           pc' \in {"index", "prepare"} => pc \in {"index", "prepare"}
    PROVE  LoadInv'
<1>1. ASSUME NEW s \in Slots PROVE SlotFiles(s)'
  BY <1>1, SlotUntouched DEF LoadInv, LoadTypes, loadVars
<1>2. LoadTypes' BY DEF LoadInv, LoadTypes, loadVars
<1> QED BY <1>1, <1>2 DEF LoadInv, loadVars, InputFile

\* The URLs of the manifest within the limits.
LEMMA SelectedURLsType == ASSUME input \in Inputs PROVE SelectedURLs \in Seq(DOMAIN input.texts)
<1> DEFINE all == [i \in DOMAIN input.texts |-> i]
           a == input.limits[1]
           b == input.limits[2]
<1>1. input.texts \in Seq(Seq(Symbols)) /\ a \in Nat /\ b \in Nat BY InputsAssumption
<1>2. all \in Seq(DOMAIN input.texts) /\ Len(all) = Len(input.texts)
  <2>1. PICK L \in Nat : L = Len(input.texts) /\ DOMAIN input.texts = 1 .. L
    <3>1. PICK A : A = Seq(Symbols) OBVIOUS
    <3>2. PICK texts \in Seq(A) : texts = input.texts BY <1>1, <3>1
    <3>3. Len(texts) \in Nat /\ DOMAIN texts = 1 .. Len(texts) OBVIOUS
    <3> QED BY <3>2, <3>3
  <2>2. all = [i \in 1 .. L |-> i] BY <2>1
  <2>3. PICK w : w = [i \in 1 .. L |-> i] OBVIOUS
  <2>4. w \in [1 .. L -> 1 .. L] BY <2>3
  <2>5. w \in Seq(1 .. L) BY <2>4
  <2>6. Len(w) = L BY <2>4, <2>5
  <2> QED BY <2>1, <2>2, <2>3, <2>5, <2>6
<1> HIDE DEF all, a, b
<1>3. ASSUME NEW m \in 0 .. Len(all) PROVE SubSeq(all, 1, m) \in Seq(DOMAIN input.texts)
  <2>1. PICK D : D = DOMAIN input.texts OBVIOUS
  <2>2. all \in Seq(D) BY <1>2, <2>1
  <2>3. SubSeq(all, 1, m) \in Seq(D) BY <1>3, <2>2
  <2> QED BY <2>1, <2>3
<1>4. ApplyLimits(all, a, b) \in Seq(DOMAIN input.texts)
  BY <1>1, <1>2, <1>3 DEF ApplyLimits
<1> QED BY <1>4 DEF SelectedURLs, all, a, b

\* The URLs are assigned before any of them is loaded.
LEMMA PrepareStep == ASSUME LoadInv, input \in Inputs, PrepareURLs PROVE LoadInv'
<1>1. urls' \in [Slots -> Seq(Nat)]
  <2>1. PICK D : D = DOMAIN input.texts OBVIOUS
  <2>2. D \subseteq Nat BY <2>1, InputsAssumption
  <2>3. PICK u \in [Slots -> Seq(D)] : u = urls'
    BY <2>1, SelectedURLsType, DealtURLs DEF PrepareURLs
  <2>4. \A s \in Slots : u[s] \in Seq(Nat) BY <2>2, SeqSubset, Zenon
  <2> QED BY <2>3, <2>4
<1>2. \A s \in Slots : at[s] = "idle" /\ \A i \in Nat : InputFile(s, i) \notin DOMAIN inputFiles
  BY DEF PrepareURLs, LoadInv
<1>3. UNCHANGED <<at, got, tries, temp, inputFiles>> /\ pc' \notin {"index", "prepare"}
  BY DEF PrepareURLs, loadVars
<1>4. LoadTypes' BY <1>1, <1>3 DEF LoadInv, LoadTypes
<1>5. ASSUME NEW s \in Slots PROVE SlotFiles(s)'
  <2>1. got[s] = 0 /\ temp[s] = "none" BY <1>2, <1>5 DEF LoadInv, SlotFiles
  <2> QED BY <1>2, <1>3, <1>5, <2>1 DEF SlotFiles, Loading, InputFile
<1> QED BY <1>3, <1>4, <1>5 DEF LoadInv

\* A slot that has been mapped drops its own files and no others.
LEMMA MapStep == ASSUME LoadInv, NEW s \in Slots, MapEnd(s) PROVE LoadInv'
<1>1. /\ pc = "map" /\ pc' = pc /\ at[s] = "mapping" /\ GoTo(s, "mapped")
      /\ UNCHANGED <<urls, got, tries, temp>>
      /\ inputFiles' = Without(inputFiles, InputNames(s))
  BY DEF MapEnd, Written
<1>2. LoadTypes' BY <1>1 DEF LoadInv, LoadTypes, GoTo
<1>3. SlotFiles(s)' BY <1>1 DEF SlotFiles, Loading, GoTo, LoadInv, LoadTypes
<1>4. ASSUME NEW t \in Slots \ {s} PROVE SlotFiles(t)'
  <2> DEFINE gone == InputNames(s)
  <2>1. \A i \in Nat : InputFile(t, i) \notin gone BY <1>4 DEF InputNames, InputFile
  <2> HIDE DEF gone
  <2>2. /\ DOMAIN inputFiles' = DOMAIN inputFiles \ gone
        /\ \A x \in DOMAIN inputFiles \ gone : inputFiles'[x] = inputFiles[x]
    BY <1>1, DropFiles DEF gone
  <2>3. at'[t] = at[t] /\ got'[t] = got[t] /\ temp'[t] = temp[t]
    BY <1>1, <1>4 DEF GoTo, LoadInv, LoadTypes
  <2> QED BY <1>1, <1>4, <2>1, <2>2, <2>3, SlotUntouched DEF LoadInv, LoadTypes
<1> QED BY <1>1, <1>2, <1>3, <1>4 DEF LoadInv

\* No step breaks the invariant of the downloads.
LEMMA LoadsInductive ==
    ASSUME LoadInv, input \in Inputs, [PipelineNext]_pvars PROVE LoadInv' /\ input' \in Inputs
<1> USE DEF downloadVars
<1>1. CASE Handlers
  <2> PICK s \in Slots :
        \/ Load(s) \/ Data(s) \/ MapBegin(s) \/ MapEnd(s) \/ MapTooLong(s)
        \/ \E i \in Slots : Fetch(s, i) \/ FetchFails(s, i)
        \/ Reduce(s) \/ ReduceFails(s) \/ Collect(s)
    BY <1>1 DEF Handlers
  <2>1. CASE Load(s) \/ Data(s) BY <2>1, LoadStep DEF Load, Data, jobVars
  <2>2. CASE MapBegin(s) \/ MapTooLong(s)
    BY <2>2, SlotMoves DEF MapBegin, MapTooLong, Written, jobVars
  <2>3. CASE MapEnd(s) BY <2>3, MapStep DEF MapEnd, Written, jobVars
  <2>4. CASE \E i \in Slots : Fetch(s, i) \/ FetchFails(s, i)
    BY <2>4, LoadsUntouched DEF Fetch, FetchFails, Written, jobVars
  <2>5. CASE Reduce(s) \/ ReduceFails(s) \/ Collect(s)
    BY <2>5, SlotMoves DEF Reduce, ReduceFails, Collect, jobVars
  <2> QED BY <2>1, <2>2, <2>3, <2>4, <2>5
<1>2. CASE Run
  <2>1. CASE PrepareURLs BY <2>1, PrepareStep DEF PrepareURLs, jobVars
  <2>2. CASE PrepareLocal \/ LatestCrawl \/ ManifestFails
    BY <2>2, LoadsUntouched DEF PrepareLocal, LatestCrawl, ManifestFails
  <2>3. CASE NextPhase \/ JobFails
    BY <2>3, LoadsUntouched DEF NextPhase, JobFails, Target, After, jobVars
  <2>4. CASE Merge \/ Write \/ WriteEnds
    BY <2>4, LoadsUntouched DEF Merge, Write, WriteEnds, jobVars
  <2> QED BY <1>2, <2>1, <2>2, <2>3, <2>4 DEF Run
<1>3. CASE Terminated \/ UNCHANGED pvars
  BY <1>3, LoadsUntouched DEF Terminated, pvars, jobVars
<1> QED BY <1>1, <1>2, <1>3 DEF PipelineNext

\* It holds at the start.
LEMMA LoadsInit == ASSUME PipelineInit PROVE LoadInv
<1>1. urls = [s \in Slots |-> <<>>] /\ <<>> \in Seq(Nat)
  BY DEF PipelineInit, DownloadInit
<1> QED BY <1>1 DEF PipelineInit, DownloadInit, LoadInv, LoadTypes, SlotFiles, Loading,
      DownloadPlaces

\* Every /load that answered 200 has each of its files, whole and its own.
THEOREM LoadsAreWhole == PipelineSpec => []InputsAreWhole
<1>1. PipelineInit => LoadInv /\ input \in Inputs BY LoadsInit DEF PipelineInit
<1>2. LoadInv /\ input \in Inputs /\ [PipelineNext]_pvars => LoadInv' /\ (input \in Inputs)'
  BY LoadsInductive
<1>3. LoadInv => InputsAreWhole BY DEF LoadInv, SlotFiles, InputsAreWhole
<1> QED BY <1>1, <1>2, <1>3, PTL DEF PipelineSpec

\* Every /load that answered 500 has left nothing behind.
THEOREM FailedLoadsAreClean == PipelineSpec => []FailedLoadsLeaveNothing
<1>1. PipelineInit => LoadInv /\ input \in Inputs BY LoadsInit DEF PipelineInit
<1>2. LoadInv /\ input \in Inputs /\ [PipelineNext]_pvars => LoadInv' /\ (input \in Inputs)'
  BY LoadsInductive
<1>3. LoadInv => FailedLoadsLeaveNothing
  <2>1. LoadTypes => \A s \in Slots : DOMAIN urls[s] \subseteq Nat BY DEF LoadTypes
  <2> QED BY <2>1 DEF LoadInv, SlotFiles, FailedLoadsLeaveNothing, InputNames
<1> QED BY <1>1, <1>2, <1>3, PTL DEF PipelineSpec

-----------------------------------------------------------------------------
(* Types *)

Phases ==
    {"index", "prepare", "load", "map", "reduce", "collect", "write"}
      \cup {"done", "failed", "dead"}

ControlTypes ==
    /\ input \in Inputs
    /\ pc \in Phases
    /\ manifestTries \in 0 .. IF pc = "failed" THEN MaxTries ELSE MaxTries - 1
    /\ fetch \in [Slots -> [Slots -> {"todo", "ok", "err"}]]
    /\ lossy \in BOOLEAN /\ faults \in 0 .. MaxFaults

\* A slot that is loading still has a URL to get.
LoadBounds ==
    /\ tries \in [Slots -> Nat]
    /\ \A s \in Slots :
         /\ Range(urls[s]) \subseteq DOMAIN input.texts
         /\ got[s] <= Len(urls[s])
         /\ at[s] \in {"get", "copy", "install", "giveup"} => got[s] < Len(urls[s])
         /\ tries[s] <= IF at[s] \in {"giveup", "noinput"} THEN MaxTries ELSE MaxTries - 1
    /\ DOMAIN inputFiles \subseteq UNION {InputNames(s) : s \in Slots}

\* What has been fetched is there to be sorted; what has been collected is the output.
DataTypes ==
    /\ chunk \in [Slots -> Seq(Symbols)]
    /\ DOMAIN buckets \subseteq UNION {BucketsOf(s) : s \in Slots}
    /\ \A b \in DOMAIN buckets : buckets[b] \in Seq(JobPairs)
    /\ DOMAIN peerFiles \subseteq {PeerFile(s, i) : s, i \in Slots}
    /\ \A f \in DOMAIN peerFiles : peerFiles[f] \in Seq(JobPairs)
    /\ \A s, i \in Slots : fetch[s][i] = "ok" => PeerFile(s, i) \in DOMAIN peerFiles
    /\ output \in [Slots -> Seq(JobPairs)] /\ result \in [Slots -> Seq(JobPairs)]
    /\ \A s \in Slots : result[s] = IF at[s] = "collected" THEN output[s] ELSE <<>>
    /\ \A k \in DOMAIN merged : merged[k] \in Nat

TypeInv == LoadInv /\ FileInv /\ ControlTypes /\ LoadBounds /\ DataTypes

\* Control.
LEMMA ControlStep == ASSUME ControlTypes, [PipelineNext]_pvars PROVE ControlTypes'
<1> USE DownloadAssumption DEF ControlTypes
<1>1. CASE Handlers
  <2>1. PICK s \in Slots :
        \/ Load(s) \/ Data(s) \/ MapBegin(s) \/ MapEnd(s) \/ MapTooLong(s)
        \/ \E i \in Slots : Fetch(s, i) \/ FetchFails(s, i)
        \/ Reduce(s) \/ ReduceFails(s) \/ Collect(s)
    BY <1>1 DEF Handlers
  <2>2. CASE Load(s)
    <3>1. UNCHANGED <<pc, jobVars, mapVars, reduceVars>> BY <2>2 DEF Load
    <3>2. faults' = faults \/ Fault
      BY <2>2 DEF Load, DownloadStep, StartLoad, Get, GetFails, Copy, CopyFails, Install,
            InstallFails, GiveUp, Written
    <3> QED BY <3>1, <3>2 DEF jobVars, mapVars, reduceVars, Fault
  <2>3. CASE Data(s) \/ MapBegin(s) \/ MapTooLong(s) \/ Reduce(s) \/ ReduceFails(s) \/ Collect(s)
    BY <2>3 DEF Data, MapBegin, MapTooLong, Reduce, ReduceFails, Collect, jobVars, mapVars,
          reduceVars, Written
  <2>4. CASE MapEnd(s)
    <3>1. UNCHANGED <<pc, jobVars, reduceVars>> /\ (faults' = faults \/ Fault)
      BY <2>4 DEF MapEnd, Written
    <3>2. lossy' \in BOOLEAN
      <4>1. PICK short \in SUBSET Slots : lossy' = (lossy \/ \E r \in short : Emitted(s, r) # <<>>)
        BY <2>4 DEF MapEnd, Written
      <4> QED BY <4>1, Zenon
    <3> QED BY <3>1, <3>2 DEF jobVars, reduceVars, Fault
  <2>5. CASE \E i \in Slots : Fetch(s, i) \/ FetchFails(s, i)
    BY <2>5 DEF Fetch, FetchFails, jobVars, mapVars, downloadVars, Fault, Written
  <2> QED BY <2>1, <2>2, <2>3, <2>4, <2>5
<1>2. CASE Run
  <2>1. CASE PrepareLocal \/ LatestCrawl \/ PrepareURLs
    BY <2>1 DEF PrepareLocal, LatestCrawl, PrepareURLs, Phases, downloadVars, jobVars, mapVars, reduceVars
  <2>2. CASE ManifestFails
    BY <2>2 DEF ManifestFails, TriesLeft, Fault, Phases, mapVars, reduceVars
  <2>3. CASE NextPhase \/ JobFails
    BY <2>3 DEF NextPhase, JobFails, Target, After, Phases, downloadVars, jobVars, mapVars, reduceVars
  <2>4. CASE Merge \/ WriteEnds
    BY <2>4 DEF Merge, WriteEnds, Phases, downloadVars, jobVars, mapVars, reduceVars
  <2>5. CASE Write BY <2>5 DEF Write, Fault, jobVars, mapVars, reduceVars
  <2> QED BY <1>2, <2>1, <2>2, <2>3, <2>4, <2>5 DEF Run
<1>3. CASE Terminated \/ UNCHANGED pvars
  BY <1>3 DEF Terminated, pvars, downloadVars, jobVars, mapVars, reduceVars
<1> QED BY <1>1, <1>2, <1>3 DEF PipelineNext

\* The bounds of a load need no more than this of a step.
LEMMA BoundsKept ==
    ASSUME LoadTypes, LoadBounds, UNCHANGED <<urls, got, tries, input>>,
           DOMAIN inputFiles' \subseteq DOMAIN inputFiles,
           \A s \in Slots :
             \/ at'[s] = at[s]
             \/ /\ at[s] \notin {"giveup", "noinput"}
                /\ at'[s] \notin {"get", "copy", "install", "giveup", "noinput"}
    PROVE  LoadBounds'
<1> USE DownloadAssumption
<1>1. tries' \in [Slots -> Nat] BY DEF LoadBounds
<1>2. ASSUME NEW s \in Slots
      PROVE  /\ Range(urls'[s]) \subseteq DOMAIN input'.texts
             /\ got'[s] <= Len(urls'[s])
             /\ at'[s] \in {"get", "copy", "install", "giveup"} => got'[s] < Len(urls'[s])
             /\ tries'[s] <= IF at'[s] \in {"giveup", "noinput"} THEN MaxTries ELSE MaxTries - 1
  BY DEF LoadBounds
<1>3. (DOMAIN inputFiles \subseteq UNION {InputNames(s) : s \in Slots})'
  BY DEF LoadBounds, InputNames, InputFile
<1> QED BY <1>1, <1>2, <1>3 DEF LoadBounds

\* A step of a load keeps them.
LEMMA BoundsLoadStep ==
    ASSUME LoadTypes, LoadBounds, NEW s \in Slots, SlotFiles(s), Load(s) PROVE LoadBounds'
<1> USE DownloadAssumption
<1>1. UNCHANGED <<urls, input>>
  BY DEF Load, DownloadStep, StartLoad, Get, GetFails, Copy, CopyFails, Install, InstallFails,
        GiveUp, Written, jobVars
<1>2. SUFFICES ASSUME LoadTypes, UNCHANGED <<urls, input>>
      PROVE  /\ tries' \in [Slots -> Nat] /\ DOMAIN inputFiles' \subseteq UNION {InputNames(t) : t \in Slots}
             /\ \A t \in Slots \ {s} : at'[t] = at[t] /\ got'[t] = got[t] /\ tries'[t] = tries[t]
             /\ got'[s] <= Len(urls[s])
             /\ at'[s] \in {"get", "copy", "install", "giveup"} => got'[s] < Len(urls[s])
             /\ tries'[s] <= IF at'[s] \in {"giveup", "noinput"} THEN MaxTries ELSE MaxTries - 1
  <2>1. \A t \in Slots :
             /\ Range(urls'[t]) \subseteq DOMAIN input'.texts
             /\ got'[t] <= Len(urls'[t])
             /\ at'[t] \in {"get", "copy", "install", "giveup"} => got'[t] < Len(urls'[t])
             /\ tries'[t] <= IF at'[t] \in {"giveup", "noinput"} THEN MaxTries ELSE MaxTries - 1
    BY <1>1, <1>2 DEF LoadBounds
  <2>2. UNION {InputNames(t) : t \in Slots} = (UNION {InputNames(t) : t \in Slots})'
    BY <1>1 DEF InputNames, InputFile
  <2> QED BY <1>1, <1>2, <2>1, <2>2 DEF LoadBounds
<1>3. /\ at \in [Slots -> DownloadPlaces \cup {"mapping", "mapped", "reduced", "collected", "failed"}]
      /\ got \in [Slots -> Nat] /\ tries \in [Slots -> Nat] /\ Len(urls[s]) \in Nat
      /\ got[s] <= Len(urls[s])
      /\ at[s] \in {"get", "copy", "install", "giveup"} => got[s] < Len(urls[s])
      /\ tries[s] <= IF at[s] \in {"giveup", "noinput"} THEN MaxTries ELSE MaxTries - 1
      /\ DOMAIN inputFiles \subseteq UNION {InputNames(t) : t \in Slots}
  BY DEF LoadTypes, LoadBounds
<1>4. CASE Again(s) /\ UNCHANGED got /\ at[s] \in {"get", "copy", "install"}
           /\ DOMAIN inputFiles' \subseteq DOMAIN inputFiles
  BY <1>3, <1>4 DEF Again, GoTo, TriesLeft
<1>5. CASE GetFails(s) \/ CopyFails(s) BY <1>4, <1>5 DEF GetFails, CopyFails
<1>6. CASE InstallFails(s)
  <2>1. DOMAIN inputFiles' \subseteq DOMAIN inputFiles BY <1>6 DEF InstallFails, Without, Restrict
  <2> QED BY <1>4, <1>6, <2>1 DEF InstallFails
<1>7. CASE Get(s) \/ Copy(s) BY <1>3, <1>7 DEF Get, Copy, GoTo
<1>8. CASE StartLoad(s)
  <2>1. urls[s] # <<>> => Len(urls[s]) > 0 BY DEF LoadTypes
  <2>2. got[s] = 0 BY <1>8 DEF StartLoad, SlotFiles
  <2> QED BY <1>3, <1>8, <2>1, <2>2 DEF StartLoad, GoTo
<1>9. CASE Install(s)
  <2>1. DOMAIN inputFiles' = {InputFile(s, got[s] + 1)} \cup DOMAIN inputFiles BY <1>9, InstallFiles
  <2>2. got[s] + 1 \in DOMAIN urls[s]
    <3>1. got[s] \in Nat /\ got[s] < Len(urls[s]) BY <1>3, <1>9 DEF Install
    <3>2. urls[s] \in Seq(Nat) BY DEF LoadTypes
    <3> QED BY <3>1, <3>2
  <2>3. InputFile(s, got[s] + 1) \in InputNames(s) BY <2>2 DEF InputNames
  <2>4. DOMAIN inputFiles' \subseteq UNION {InputNames(t) : t \in Slots} BY <1>3, <2>1, <2>3
  <2>5. /\ got' = [got EXCEPT ![s] = @ + 1] /\ tries' = [tries EXCEPT ![s] = 0] /\ at[s] = "install"
        /\ GoTo(s, IF got[s] + 1 = Len(urls[s]) THEN "loaded" ELSE "get")
    BY <1>9 DEF Install
  <2> QED BY <1>3, <2>4, <2>5 DEF GoTo
<1>10. CASE GiveUp(s)
  <2>1. DOMAIN inputFiles' \subseteq DOMAIN inputFiles BY <1>10 DEF GiveUp, RemoveGot, Without, Restrict
  <2> QED BY <1>3, <1>10, <2>1 DEF GiveUp, GoTo
<1> QED BY <1>5, <1>6, <1>7, <1>8, <1>9, <1>10 DEF Load, DownloadStep

\* Every step keeps the bounds of the loads.
LEMMA BoundsStep ==
    ASSUME LoadInv, LoadBounds, input \in Inputs, [PipelineNext]_pvars PROVE LoadBounds'
<1> USE DEF downloadVars, loadVars, jobVars
<1>0. LoadTypes BY DEF LoadInv
<1>1. CASE Handlers
  <2>1. PICK s \in Slots :
        \/ Load(s) \/ Data(s) \/ MapBegin(s) \/ MapEnd(s) \/ MapTooLong(s)
        \/ \E i \in Slots : Fetch(s, i) \/ FetchFails(s, i)
        \/ Reduce(s) \/ ReduceFails(s) \/ Collect(s)
    BY <1>1 DEF Handlers
  <2>2. CASE Load(s)
    <3>1. SlotFiles(s) BY DEF LoadInv
    <3> QED BY <1>0, <2>2, <3>1, BoundsLoadStep
  <2>3. CASE Data(s) \/ MapBegin(s) \/ MapTooLong(s) \/ Reduce(s) \/ ReduceFails(s) \/ Collect(s)
    <3>1. UNCHANGED <<urls, got, tries, inputFiles, input>>
      BY <2>3 DEF Data, MapBegin, MapTooLong, Reduce, ReduceFails, Collect, Written
    <3>2. at[s] \in {"idle", "loaded", "mapping", "mapped", "reduced"} /\
          \E p \in {"loaded", "mapping", "failed", "reduced", "collected"} : GoTo(s, p)
      BY <2>3 DEF Data, MapBegin, MapTooLong, Reduce, ReduceFails, Collect, Written
    <3>3. \A t \in Slots : \/ at'[t] = at[t]
                           \/ /\ at[t] \notin {"giveup", "noinput"}
                              /\ at'[t] \notin {"get", "copy", "install", "giveup", "noinput"}
      BY <1>0, <3>2 DEF GoTo, LoadTypes
    <3> QED BY <1>0, <3>1, <3>3, BoundsKept
  <2>4. CASE MapEnd(s)
    <3>1. UNCHANGED <<urls, got, tries, input>> /\ inputFiles' = Without(inputFiles, InputNames(s))
      BY <2>4 DEF MapEnd, Written
    <3>2. DOMAIN inputFiles' \subseteq DOMAIN inputFiles BY <3>1 DEF Without, Restrict
    <3>3. at[s] = "mapping" /\ GoTo(s, "mapped") BY <2>4 DEF MapEnd, Written
    <3>4. \A t \in Slots : \/ at'[t] = at[t]
                           \/ /\ at[t] \notin {"giveup", "noinput"}
                              /\ at'[t] \notin {"get", "copy", "install", "giveup", "noinput"}
      BY <1>0, <3>3 DEF GoTo, LoadTypes
    <3> QED BY <1>0, <3>1, <3>2, <3>4, BoundsKept
  <2>5. CASE \E i \in Slots : Fetch(s, i) \/ FetchFails(s, i)
    BY <1>0, <2>5, BoundsKept DEF Fetch, FetchFails, Written
  <2> QED BY <2>1, <2>2, <2>3, <2>4, <2>5
<1>2. CASE Run
  <2>1. CASE PrepareURLs
    <3>1. \A t \in Slots : at[t] = "idle" /\ \A i \in Nat : InputFile(t, i) \notin DOMAIN inputFiles
      BY <2>1 DEF PrepareURLs, LoadInv
    <3>2. UNCHANGED <<at, got, tries, temp, inputFiles, input>> BY <2>1 DEF PrepareURLs
    <3>3. urls' \in [Slots -> Seq(DOMAIN input.texts)]
      BY <2>1, SelectedURLsType, DealtURLs DEF PrepareURLs
    <3>4. \A t \in Slots : got[t] = 0 /\ tries[t] <= MaxTries - 1 BY <3>1 DEF LoadInv, SlotFiles, LoadBounds
    <3>5. \A t \in Slots : Len(urls'[t]) \in Nat /\ Range(urls'[t]) \subseteq DOMAIN input.texts
      BY <3>3 DEF Range
    <3>6. DOMAIN inputFiles = {}
      <4>1. \A t \in Slots : DOMAIN urls[t] \subseteq Nat BY <1>0 DEF LoadTypes
      <4> SUFFICES ASSUME NEW f \in DOMAIN inputFiles PROVE FALSE OBVIOUS
      <4>2. PICK t \in Slots : f \in InputNames(t) BY DEF LoadBounds
      <4>3. PICK i \in DOMAIN urls[t] : f = InputFile(t, i) BY <4>2 DEF InputNames
      <4> QED BY <3>1, <4>1, <4>3
    <3> QED BY <3>1, <3>2, <3>4, <3>5, <3>6 DEF LoadBounds
  <2>2. CASE PrepareLocal \/ LatestCrawl \/ ManifestFails
    BY <1>0, <2>2, BoundsKept DEF PrepareLocal, LatestCrawl, ManifestFails
  <2>3. CASE NextPhase \/ JobFails
    BY <1>0, <2>3, BoundsKept DEF NextPhase, JobFails
  <2>4. CASE Merge \/ Write \/ WriteEnds
    BY <1>0, <2>4, BoundsKept DEF Merge, Write, WriteEnds
  <2> QED BY <1>2, <2>1, <2>2, <2>3, <2>4 DEF Run
<1>3. CASE Terminated \/ UNCHANGED pvars
  BY <1>0, <1>3, BoundsKept DEF Terminated, pvars
<1> QED BY <1>1, <1>2, <1>3 DEF PipelineNext

\* Only a step of a slot's reduce or collect, and the merge, are left out here.
LEMMA DataKept ==
    ASSUME LoadTypes, DataTypes, UNCHANGED <<chunk, buckets, peerFiles, fetch, output, result>>,
           merged' = merged \/ \A k \in DOMAIN merged' : merged'[k] \in Nat,
           \A s \in Slots : at'[s] = "collected" <=> at[s] = "collected"
    PROVE  DataTypes'
<1>1. UNION {BucketsOf(s) : s \in Slots} = (UNION {BucketsOf(s) : s \in Slots})'
      /\ {PeerFile(s, i) : s, i \in Slots} = {PeerFile(s, i) : s, i \in Slots}'
      /\ \A s, i \in Slots : PeerFile(s, i) = PeerFile(s, i)'
  BY DEF BucketsOf, BucketFile, PeerFile
<1> QED BY <1>1 DEF DataTypes

\* The texts a slot maps, as far as they are in its files.
LEMMA TextsType ==
    ASSUME LoadInv, LoadBounds, DataTypes, input \in Inputs, NEW s \in Slots, at[s] = "mapping"
    PROVE  TextsOf(s) \in Seq(Seq(Symbols))
<1>1. input.texts \in Seq(Seq(Symbols)) BY InputsAssumption
<1>2. CASE urls[s] = <<>>
  <2>1. chunk[s] \in Seq(Symbols) BY DEF DataTypes
  <2>2. <<chunk[s]>> \in Seq(Seq(Symbols)) BY <2>1
  <2> QED BY <1>2, <2>2 DEF TextsOf
<1>3. CASE urls[s] # <<>>
  <2> DEFINE texts == [i \in DOMAIN urls[s] |-> input.texts[inputFiles[InputFile(s, i)]]]
  <2>1. ASSUME NEW i \in DOMAIN urls[s] PROVE input.texts[inputFiles[InputFile(s, i)]] \in Seq(Symbols)
    <3>1. inputFiles[InputFile(s, i)] = urls[s][i] BY <2>1 DEF LoadInv, SlotFiles
    <3>2. urls[s][i] \in DOMAIN input.texts BY <2>1 DEF LoadBounds, Range
    <3>3. \A u \in DOMAIN input.texts : input.texts[u] \in Seq(Symbols) BY <1>1
    <3> QED BY <3>1, <3>2, <3>3
  <2>2. texts \in [DOMAIN urls[s] -> Seq(Symbols)] BY <2>1, Zenon
  <2>3. urls[s] \in Seq(Nat) BY DEF LoadInv, LoadTypes
  <2> HIDE DEF texts
  <2>4. texts \in Seq(Seq(Symbols)) BY <2>2, <2>3, MappedSeq, Zenon
  <2> QED BY <1>3, <2>4 DEF TextsOf, texts
<1> QED BY <1>2, <1>3

\* What a slot maps into a bucket.
LEMMA EmittedType ==
    ASSUME LoadInv, LoadBounds, DataTypes, input \in Inputs, NEW s \in Slots, at[s] = "mapping", NEW r
    PROVE  Emitted(s, r) \in Seq(JobPairs)
<1>1. PICK texts \in Seq(Seq(Symbols)) : texts = TextsOf(s) BY TextsType, Zenon
<1> DEFINE parts == [i \in DOMAIN texts |-> RunMap(input.job, texts[i], s, r)]
<1>2. input.job \in JobNames BY InputsAssumption
<1>3. \A i \in DOMAIN texts : RunMap(input.job, texts[i], s, r) \in Seq(JobPairs)
  <2>1. \A i \in DOMAIN texts : texts[i] \in Seq(Symbols) OBVIOUS
  <2> QED BY <1>2, <2>1, RunMapType
<1>4. parts \in [DOMAIN texts -> Seq(JobPairs)] BY <1>3, Zenon
<1>5. Emitted(s, r) = FlattenSeq(parts) BY <1>1 DEF Emitted
<1> HIDE DEF parts
<1>6. parts \in Seq(Seq(JobPairs)) BY <1>4, MappedSeq, Zenon
<1> QED BY <1>5, <1>6, FlattenSteps

\* Every step keeps the types of the data.
LEMMA DataStep ==
    ASSUME LoadInv, ControlTypes, LoadBounds, DataTypes, [PipelineNext]_pvars PROVE DataTypes'
<1> USE DEF downloadVars, jobVars, mapVars, reduceVars, endVars
<1>0. LoadTypes /\ <<>> \in Seq(JobPairs) /\ input \in Inputs BY DEF LoadInv, ControlTypes
<1>1. CASE Handlers
  <2>1. PICK s \in Slots :
        \/ Load(s) \/ Data(s) \/ MapBegin(s) \/ MapEnd(s) \/ MapTooLong(s)
        \/ \E i \in Slots : Fetch(s, i) \/ FetchFails(s, i)
        \/ Reduce(s) \/ ReduceFails(s) \/ Collect(s)
    BY <1>1 DEF Handlers
  <2>2. ASSUME NEW p, GoTo(s, p), p # "collected", at[s] # "collected"
        PROVE  \A t \in Slots : at'[t] = "collected" <=> at[t] = "collected"
    BY <1>0, <2>2 DEF GoTo, LoadTypes
  <2>3. CASE Load(s)
    <3>1. UNCHANGED <<jobVars, mapVars, reduceVars, endVars>> BY <2>3 DEF Load
    <3>2. \E p \in DownloadPlaces : GoTo(s, p)
      BY <2>3 DEF Load, DownloadStep, StartLoad, Get, GetFails, Copy, CopyFails, Install,
            InstallFails, GiveUp, Again, Written, DownloadPlaces
    <3>3. at[s] # "collected"
      BY <2>3 DEF Load, DownloadStep, StartLoad, Get, GetFails, Copy, CopyFails, Install,
            InstallFails, GiveUp, Written
    <3> QED BY <1>0, <2>2, <3>1, <3>2, <3>3, DataKept DEF DownloadPlaces
  <2>4. CASE Data(s) \/ MapTooLong(s) \/ ReduceFails(s)
    <3>1. UNCHANGED <<jobVars, mapVars, reduceVars, endVars>> BY <2>4 DEF Data, MapTooLong, ReduceFails
    <3>2. at[s] # "collected" /\ \E p \in {"loaded", "failed"} : GoTo(s, p)
      BY <2>4 DEF Data, MapTooLong, ReduceFails
    <3> QED BY <1>0, <2>2, <3>1, <3>2, DataKept
  <2>5. CASE MapBegin(s) \/ MapEnd(s)
    <3>1. UNCHANGED <<jobVars, reduceVars, endVars>> BY <2>5 DEF MapBegin, MapEnd, Written
    <3>2. at[s] # "collected" /\ \E p \in {"mapping", "mapped"} : GoTo(s, p)
      BY <2>5 DEF MapBegin, MapEnd, Written
    <3>3. PICK C \in [BucketsOf(s) -> Seq(JobPairs)] :
            buckets' = [f \in BucketsOf(s) \cup DOMAIN buckets |->
                          IF f \in BucketsOf(s) THEN C[f] ELSE buckets[f]]
      <4>1. CASE MapBegin(s)
        <5> DEFINE C == [f \in BucketsOf(s) |-> <<>>]
        <5>1. C \in [BucketsOf(s) -> Seq(JobPairs)] BY <1>0
        <5>2. buckets' = [f \in BucketsOf(s) \cup DOMAIN buckets |->
                            IF f \in BucketsOf(s) THEN C[f] ELSE buckets[f]]
          BY <4>1 DEF MapBegin, Written
        <5> QED BY <5>1, <5>2
      <4>2. CASE MapEnd(s)
        <5>1. PICK short : buckets' =
                [f \in BucketsOf(s) \cup DOMAIN buckets |->
                   IF f \in BucketsOf(s) THEN IF f[3] \in short THEN <<>> ELSE Emitted(s, f[3])
                   ELSE buckets[f]]
          BY <4>2 DEF MapEnd, Written
        <5> DEFINE C == [b \in BucketsOf(s) |-> IF b[3] \in short THEN <<>> ELSE Emitted(s, b[3])]
        <5>2. at[s] = "mapping" BY <4>2 DEF MapEnd, Written
        <5>3. \A r : Emitted(s, r) \in Seq(JobPairs) BY <1>0, <5>2, EmittedType
        <5>4. C \in [BucketsOf(s) -> Seq(JobPairs)] BY <1>0, <5>3
        <5>5. buckets' = [f \in BucketsOf(s) \cup DOMAIN buckets |->
                            IF f \in BucketsOf(s) THEN C[f] ELSE buckets[f]]
          BY <5>1
        <5> HIDE DEF C
        <5> QED BY <5>4, <5>5
      <4> QED BY <2>5, <4>1, <4>2
    <3>4. DOMAIN buckets' = BucketsOf(s) \cup DOMAIN buckets
          /\ \A b \in DOMAIN buckets' : buckets'[b] \in Seq(JobPairs)
      BY <3>3 DEF DataTypes
    <3>5. \A t \in Slots : at'[t] = "collected" <=> at[t] = "collected" BY <2>2, <3>2
    <3>6. UNION {BucketsOf(t) : t \in Slots} = (UNION {BucketsOf(t) : t \in Slots})'
          /\ {PeerFile(t, i) : t, i \in Slots} = {PeerFile(t, i) : t, i \in Slots}'
          /\ \A t, i \in Slots : PeerFile(t, i) = PeerFile(t, i)'
      BY DEF BucketsOf, BucketFile, PeerFile
    <3> QED BY <3>1, <3>4, <3>5, <3>6 DEF DataTypes
  <2>6. CASE \E i \in Slots : Fetch(s, i)
    <3>1. PICK i \in Slots : Fetch(s, i) BY <2>6
    <3>2. /\ UNCHANGED <<downloadVars, jobVars, mapVars, output, endVars>>
          /\ fetch' = [fetch EXCEPT ![s][i] = "ok"]
          /\ peerFiles' = [f \in {PeerFile(s, i)} \cup DOMAIN peerFiles |->
                             IF f \in {PeerFile(s, i)} THEN Served(BucketFile(i, s)) ELSE peerFiles[f]]
      BY <3>1 DEF Fetch, Written
    <3>3. Served(BucketFile(i, s)) \in Seq(JobPairs) BY <1>0 DEF Served, DataTypes
    <3>4. DOMAIN peerFiles' = {PeerFile(s, i)} \cup DOMAIN peerFiles
          /\ \A f \in DOMAIN peerFiles' : peerFiles'[f] \in Seq(JobPairs)
      BY <3>2, <3>3 DEF DataTypes
    <3>5. \A t, j \in Slots : fetch'[t][j] = "ok" => PeerFile(t, j) \in DOMAIN peerFiles'
      BY <3>2, <3>4 DEF DataTypes, ControlTypes
    <3>6. UNION {BucketsOf(t) : t \in Slots} = (UNION {BucketsOf(t) : t \in Slots})'
          /\ {PeerFile(t, j) : t, j \in Slots} = {PeerFile(t, j) : t, j \in Slots}'
          /\ \A t, j \in Slots : PeerFile(t, j) = PeerFile(t, j)'
      BY DEF BucketsOf, BucketFile, PeerFile
    <3>7. DOMAIN peerFiles' \subseteq {PeerFile(t, j) : t, j \in Slots}
      BY <3>4 DEF DataTypes
    <3>8. UNCHANGED <<chunk, buckets, output, result, merged, at>> BY <3>2
    <3> QED BY <3>4, <3>5, <3>6, <3>7, <3>8 DEF DataTypes
  <2>7. CASE \E i \in Slots : FetchFails(s, i)
    <3>1. PICK i \in Slots : FetchFails(s, i) BY <2>7
    <3>2. UNCHANGED <<urls, at, jobVars, mapVars, peerFiles, output, endVars>>
          /\ fetch' = [fetch EXCEPT ![s][i] = "err"]
      BY <3>1 DEF FetchFails
    <3>3. \A t, j \in Slots : fetch'[t][j] = "ok" => PeerFile(t, j) \in DOMAIN peerFiles'
      BY <3>2 DEF DataTypes, ControlTypes
    <3>4. UNION {BucketsOf(t) : t \in Slots} = (UNION {BucketsOf(t) : t \in Slots})'
          /\ {PeerFile(t, j) : t, j \in Slots} = {PeerFile(t, j) : t, j \in Slots}'
          /\ \A t, j \in Slots : PeerFile(t, j) = PeerFile(t, j)'
      BY DEF BucketsOf, BucketFile, PeerFile
    <3> QED BY <3>2, <3>3, <3>4 DEF DataTypes
  <2>8. CASE Reduce(s)
    <3> DEFINE copies == [i \in 1 .. N |-> peerFiles[PeerFile(s, i - 1)]]
    <3>1. /\ \A i \in Slots : fetch[s][i] = "ok"
          /\ output' = [output EXCEPT ![s] = RunReduce(input.job, SortByKey(FlattenSeq(copies)))]
          /\ GoTo(s, "reduced") /\ at[s] = "mapped"
          /\ UNCHANGED <<jobVars, mapVars, fetch, peerFiles, endVars>>
      BY <2>8 DEF Reduce
    <3>2. FlattenSeq(copies) \in Seq(JobPairs)
      <4>1. [i \in Slots |-> peerFiles[PeerFile(s, i)]] \in [Slots -> Seq(JobPairs)]
        BY <3>1 DEF DataTypes
      <4>2. \A i \in 1 .. N : i - 1 \in Slots BY ChunkingAssumption DEF Slots
      <4>3. PICK f \in [Slots -> Seq(JobPairs)] : \A i \in Slots : f[i] = peerFiles[PeerFile(s, i)]
        BY <4>1
      <4>4. copies = [i \in 1 .. N |-> f[i - 1]] BY <4>2, <4>3
      <4> HIDE DEF copies
      <4> QED BY <4>4, AllSlotsType
    <3> HIDE DEF copies
    <3>3. RunReduce(input.job, SortByKey(FlattenSeq(copies))) \in Seq(JobPairs)
      BY <3>2, SortByKeyType, RunReduceType
    <3>4. output' \in [Slots -> Seq(JobPairs)] BY <3>1, <3>3 DEF DataTypes
    <3>5. \A t \in Slots : at'[t] = "collected" <=> at[t] = "collected" BY <2>2, <3>1
    <3>6. \A t \in Slots : at[t] = "collected" => output'[t] = output[t]
      <4> SUFFICES ASSUME NEW t \in Slots, at[t] = "collected" PROVE output'[t] = output[t] OBVIOUS
      <4>1. t # s BY <3>1
      <4>2. output \in [Slots -> Seq(JobPairs)] BY DEF DataTypes
      <4> QED BY <3>1, <4>1, <4>2
    <3>7. UNION {BucketsOf(t) : t \in Slots} = (UNION {BucketsOf(t) : t \in Slots})'
          /\ {PeerFile(t, i) : t, i \in Slots} = {PeerFile(t, i) : t, i \in Slots}'
          /\ \A t, i \in Slots : PeerFile(t, i) = PeerFile(t, i)'
      BY DEF BucketsOf, BucketFile, PeerFile
    <3>8. \A t \in Slots : result[t] = IF at'[t] = "collected" THEN output'[t] ELSE <<>>
      BY <3>5, <3>6 DEF DataTypes
    <3>9. UNCHANGED <<chunk, buckets, peerFiles, fetch, result, merged>> BY <3>1
    <3> QED BY <3>4, <3>7, <3>8, <3>9 DEF DataTypes
  <2>9. CASE Collect(s)
    <3>1. /\ result' = [result EXCEPT ![s] = output[s]] /\ GoTo(s, "collected")
          /\ UNCHANGED <<jobVars, mapVars, reduceVars, merged>>
      BY <2>9 DEF Collect
    <3>2. result' \in [Slots -> Seq(JobPairs)] BY <3>1 DEF DataTypes
    <3>3. \A t \in Slots : result'[t] = IF at'[t] = "collected" THEN output[t] ELSE <<>>
      BY <1>0, <3>1 DEF DataTypes, GoTo, LoadTypes
    <3>4. UNION {BucketsOf(t) : t \in Slots} = (UNION {BucketsOf(t) : t \in Slots})'
          /\ {PeerFile(t, i) : t, i \in Slots} = {PeerFile(t, i) : t, i \in Slots}'
          /\ \A t, i \in Slots : PeerFile(t, i) = PeerFile(t, i)'
      BY DEF BucketsOf, BucketFile, PeerFile
    <3> QED BY <3>1, <3>2, <3>3, <3>4 DEF DataTypes
  <2> QED BY <2>1, <2>3, <2>4, <2>5, <2>6, <2>7, <2>8, <2>9
<1>2. CASE Run
  <2>1. CASE PrepareLocal
    <3>1. /\ UNCHANGED <<downloadVars, mapVars, reduceVars, endVars>> /\ input.mode = "local"
          /\ chunk' = [s \in Slots |-> ChunkForWorker(SplitIntoChunks(input.texts[1], ChunkSize), s)]
      BY <2>1 DEF PrepareLocal
    <3>2. input.texts[1] \in Seq(Symbols)
      <4>1. input.texts \in Seq(Seq(Symbols)) /\ Len(input.texts) = 1 BY <1>0, <3>1, InputsAssumption
      <4> QED BY <4>1
    <3>3. chunk' \in [Slots -> Seq(Symbols)] BY <3>1, <3>2, ChunkType
    <3>4. UNION {BucketsOf(t) : t \in Slots} = (UNION {BucketsOf(t) : t \in Slots})'
          /\ {PeerFile(t, i) : t, i \in Slots} = {PeerFile(t, i) : t, i \in Slots}'
          /\ \A t, i \in Slots : PeerFile(t, i) = PeerFile(t, i)'
      BY DEF BucketsOf, BucketFile, PeerFile
    <3> QED BY <3>1, <3>3, <3>4 DEF DataTypes
  <2>2. CASE PrepareURLs \/ LatestCrawl \/ ManifestFails
    BY <1>0, <2>2, DataKept DEF PrepareURLs, LatestCrawl, ManifestFails
  <2>3. CASE NextPhase \/ JobFails
    BY <1>0, <2>3, DataKept DEF NextPhase, JobFails
  <2>4. CASE Write \/ WriteEnds
    BY <1>0, <2>4, DataKept DEF Write, WriteEnds
  <2>5. CASE Merge
    <3>1. merged' = MergeResults(result) BY <2>5 DEF Merge
    <3>2. \A k \in DOMAIN merged' : merged'[k] \in Nat
      <4>1. result \in [Slots -> Seq(JobPairs)] BY DEF DataTypes
      <4>2. \A k \in DOMAIN MergeResults(result) : MergeResults(result)[k] \in Nat
        BY <4>1, MergeType
      <4> QED BY <3>1, <4>2
    <3> QED BY <1>0, <2>5, <3>2, DataKept DEF Merge
  <2> QED BY <1>2, <2>1, <2>2, <2>3, <2>4, <2>5 DEF Run
<1>3. CASE Terminated \/ UNCHANGED pvars
  BY <1>0, <1>3, DataKept DEF Terminated, pvars
<1> QED BY <1>1, <1>2, <1>3 DEF PipelineNext

\* All of it holds at the start.
LEMMA TypesInit == ASSUME PipelineInit PROVE TypeInv
<1> USE DownloadAssumption DEF PipelineInit, DownloadInit
<1>1. LoadInv BY LoadsInit
<1>2. FileInv BY DEF ResultFileInit, FileInv, ResultFileTypeOK, OldOrNew
<1>3. ControlTypes
  <2>1. pc \in Phases /\ pc # "failed" BY DEF Phases
  <2>2. manifestTries = 0 /\ 0 \in 0 .. MaxTries - 1 OBVIOUS
  <2>3. faults = 0 /\ 0 \in 0 .. MaxFaults OBVIOUS
  <2>4. fetch \in [Slots -> [Slots -> {"todo", "ok", "err"}]] OBVIOUS
  <2>5. input \in Inputs /\ lossy \in BOOLEAN OBVIOUS
  <2> QED BY <2>1, <2>2, <2>3, <2>4, <2>5 DEF ControlTypes
<1>4. LoadBounds
  <2>1. Len(<<>>) = 0 /\ Range(<<>>) = {} BY DEF Range
  <2>2. DOMAIN inputFiles = {} OBVIOUS
  <2> QED BY <2>1, <2>2 DEF LoadBounds
<1>5. DataTypes
  <2>1. <<>> \in Seq(Symbols) /\ <<>> \in Seq(JobPairs) /\ DOMAIN <<>> = {} OBVIOUS
  <2> QED BY <2>1 DEF DataTypes
<1> QED BY <1>1, <1>2, <1>3, <1>4, <1>5 DEF TypeInv

\* Every step keeps it.
LEMMA TypesStep == ASSUME TypeInv, [PipelineNext]_pvars PROVE TypeInv'
<1>1. input \in Inputs BY DEF TypeInv, ControlTypes
<1>2. LoadInv' BY <1>1, LoadsInductive DEF TypeInv
<1>3. FileInv'
  <2>1. CASE Write BY <2>1, FileStep DEF Write, TypeInv
  <2>2. CASE UNCHANGED fileState
    BY <2>2 DEF fileState, FileInv, ResultFileTypeOK, OldOrNew, TypeInv
  <2>3. CASE UNCHANGED pvars BY <2>2, <2>3 DEF pvars, endVars
  <2> QED BY <2>1, <2>2, <2>3, FileUntouched
<1>4. ControlTypes' BY ControlStep DEF TypeInv
<1>5. LoadBounds' BY <1>1, BoundsStep DEF TypeInv
<1>6. DataTypes' BY DataStep DEF TypeInv
<1> QED BY <1>2, <1>3, <1>4, <1>5, <1>6 DEF TypeInv

\* The variables have their types: among them, no slot counts more files than it
\* has URLs, no URL is tried more often than allowed, no bucket or copy is one of
\* another job's names, and a collected result is the output of its slot.
THEOREM PipelineTypes == PipelineSpec => []PipelineTypeOK
<1>1. PipelineInit => TypeInv BY TypesInit
<1>2. TypeInv /\ [PipelineNext]_pvars => TypeInv' BY TypesStep
<1>3. TypeInv => PipelineTypeOK
  <2> SUFFICES ASSUME TypeInv PROVE PipelineTypeOK OBVIOUS
  <2> USE DownloadAssumption
  <2>1. ResultFileTypeOK /\ input \in Inputs /\ pc \in Phases BY DEF TypeInv, FileInv, ControlTypes
  <2>2. /\ at \in [Slots -> DownloadPlaces \cup {"mapping", "mapped", "reduced", "collected", "failed"}]
        /\ temp \in [Slots -> {"none", "part", "whole"}] /\ urls \in [Slots -> Seq(Nat)]
        /\ got \in [Slots -> Nat]
    BY DEF TypeInv, LoadInv, LoadTypes
  <2>3. /\ manifestTries \in 0 .. IF pc = "failed" THEN MaxTries ELSE MaxTries - 1
        /\ fetch \in [Slots -> [Slots -> {"todo", "ok", "err"}]]
        /\ lossy \in BOOLEAN /\ faults \in 0 .. MaxFaults
    BY DEF TypeInv, ControlTypes
  <2>4. \A s \in Slots :
          /\ Range(urls[s]) \subseteq DOMAIN input.texts
          /\ tries[s] \in 0 .. IF at[s] \in {"giveup", "noinput"} THEN MaxTries ELSE MaxTries - 1
          /\ got[s] \in 0 .. Len(urls[s])
    <3> SUFFICES ASSUME NEW s \in Slots
                 PROVE  /\ Range(urls[s]) \subseteq DOMAIN input.texts
                        /\ tries[s] \in 0 .. IF at[s] \in {"giveup", "noinput"} THEN MaxTries ELSE MaxTries - 1
                        /\ got[s] \in 0 .. Len(urls[s])
      OBVIOUS
    <3>1. /\ tries[s] \in Nat /\ got[s] \in Nat /\ Len(urls[s]) \in Nat
          /\ Range(urls[s]) \subseteq DOMAIN input.texts
          /\ tries[s] <= IF at[s] \in {"giveup", "noinput"} THEN MaxTries ELSE MaxTries - 1
          /\ got[s] <= Len(urls[s])
      BY <2>2 DEF TypeInv, LoadBounds
    <3> QED BY <3>1
  <2>5. DOMAIN inputFiles \subseteq UNION {InputNames(s) : s \in Slots} BY DEF TypeInv, LoadBounds
  <2>6. /\ DOMAIN buckets \subseteq UNION {BucketsOf(s) : s \in Slots}
        /\ DOMAIN peerFiles \subseteq {PeerFile(s, i) : s, i \in Slots}
        /\ \A s \in Slots : Len(output[s]) \in Nat /\ result[s] \in {<<>>, output[s]}
        /\ \A k \in DOMAIN merged : merged[k] \in Nat
    BY DEF TypeInv, DataTypes
  <2> QED BY <2>1, <2>2, <2>3, <2>4, <2>5, <2>6 DEF PipelineTypeOK, Phases
<1> QED BY <1>1, <1>2, <1>3, PTL DEF PipelineSpec
=============================================================================
