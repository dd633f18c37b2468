------------------------------ MODULE Download ------------------------------
(***************************************************************************)
(* POST /load on a worker (worker/main.go): downloadInputs fetches a       *)
(* slot's URLs one after another, each into a temporary file that is then  *)
(* renamed, and tries each up to MaxTries times.  All slots are on one     *)
(* worker, as they may be after replacements, so the downloads of several  *)
(* slots run at once in one work directory.  A URL is a number.            *)
(***************************************************************************)
EXTENDS StreamReduce

CONSTANTS
    MaxTries,   \* attempts per URL, 4 in the code
    MaxFaults   \* bound on requests and file operations that fail

ASSUME DownloadAssumption == MaxTries \in Nat \ {0} /\ MaxFaults \in Nat

VARIABLES
    urls,       \* the URLs of each slot, as assigned by the coordinator
    at,         \* where the handler serving a slot is, see DownloadTypeOK
    got,        \* URLs of the slot whose files are complete, len(paths)
    tries,      \* failed attempts at the next one
    temp,       \* the slot's temporary file: "none", "part" or "whole"
    inputFiles, \* the final files that exist: name -> URL of the content
    faults

loadVars == <<got, tries, temp, inputFiles>>
downloadVars == <<urls, at, loadVars, faults>>

\* Seeded fault: a file is named without the slot it belongs to.
SharedName(s, i) == <<"cc-input", i>>
InputFile(s, i) == <<s, i>>

\* The files after some are removed, and after some are written over whatever
\* had their names.
Without(files, names) == Restrict(files, DOMAIN files \ names)
Written(files, names, Content(_)) ==
    [f \in names \cup DOMAIN files |-> IF f \in names THEN Content(f) ELSE files[f]]
InputNames(s) == {InputFile(s, i) : i \in DOMAIN urls[s]}

DownloadInit(assigned) ==
    /\ urls = assigned
    /\ at = [s \in Slots |-> "idle"]
    /\ got = [s \in Slots |-> 0] /\ tries = [s \in Slots |-> 0]
    /\ temp = [s \in Slots |-> "none"]
    /\ inputFiles = <<>>
    /\ faults = 0

Fault == faults < MaxFaults /\ faults' = faults + 1
GoTo(s, place) == at' = [at EXCEPT ![s] = place]

\* The handler begins.  resetInputs finds nothing to drop: a slot is loaded
\* once here.
StartLoad(s) ==
    /\ at[s] = "idle" /\ urls[s] # <<>>
    /\ GoTo(s, "get")
    /\ UNCHANGED <<urls, got, tries, temp, inputFiles, faults>>

\* Seeded fault: one attempt too many.
OneMoreTry(failed) == failed <= MaxTries
TriesLeft(failed) == failed < MaxTries

\* An attempt failed and its temporary file is gone: once more, or give up.
Again(s) ==
    /\ tries' = [tries EXCEPT ![s] = @ + 1]
    /\ GoTo(s, IF TriesLeft(tries[s] + 1) THEN "get" ELSE "giveup")
    /\ temp' = [temp EXCEPT ![s] = "none"]

\* The server answers 200 and the temporary file is created.
Get(s) ==
    /\ at[s] = "get"
    /\ temp' = [temp EXCEPT ![s] = "part"]
    /\ GoTo(s, "copy")
    /\ UNCHANGED <<urls, got, tries, inputFiles, faults>>

GetFails(s) ==
    /\ at[s] = "get" /\ Fault
    /\ Again(s)
    /\ UNCHANGED <<urls, got, inputFiles>>

Copy(s) ==
    /\ at[s] = "copy"
    /\ temp' = [temp EXCEPT ![s] = "whole"]
    /\ GoTo(s, "install")
    /\ UNCHANGED <<urls, got, tries, inputFiles, faults>>

CopyFails(s) ==
    /\ at[s] = "copy" /\ Fault
    /\ Again(s)
    /\ UNCHANGED <<urls, got, inputFiles>>

\* The final name is freed and the temporary file renamed to it.  A part of a
\* file would stand under its final name as URL 0.
Install(s) ==
    /\ at[s] = "install"
    /\ inputFiles' = Written(inputFiles, {InputFile(s, got[s] + 1)},
                        LAMBDA f : IF temp[s] = "whole" THEN urls[s][got[s] + 1] ELSE 0)
    /\ temp' = [temp EXCEPT ![s] = "none"]
    /\ got' = [got EXCEPT ![s] = @ + 1] /\ tries' = [tries EXCEPT ![s] = 0]
    /\ GoTo(s, IF got[s] + 1 = Len(urls[s]) THEN "loaded" ELSE "get")
    /\ UNCHANGED <<urls, faults>>

InstallFails(s) ==
    /\ at[s] = "install" /\ Fault
    /\ inputFiles' = Without(inputFiles, {InputFile(s, got[s] + 1)})
    /\ Again(s)
    /\ UNCHANGED <<urls, got>>

\* Seeded fault: downloadInputs returns without removing what it has.
KeepAll(s) == inputFiles
RemoveGot(s) == Without(inputFiles, {InputFile(s, i) : i \in 1 .. got[s]})

\* One URL could not be had: the others' files go too, and the answer is 500.
GiveUp(s) ==
    /\ at[s] = "giveup"
    /\ inputFiles' = RemoveGot(s)
    /\ GoTo(s, "noinput")
    /\ UNCHANGED <<urls, got, tries, temp, faults>>

DownloadStep(s) ==
    \/ StartLoad(s) \/ Get(s) \/ GetFails(s) \/ Copy(s) \/ CopyFails(s)
    \/ Install(s) \/ InstallFails(s) \/ GiveUp(s)

-----------------------------------------------------------------------------
(* Properties *)

DownloadPlaces == {"idle", "get", "copy", "install", "giveup", "loaded", "noinput"}

\* When /load has answered 200, every URL of the slot is there in a file of
\* its own and complete, whatever failed before and whatever the downloads of
\* the other slots did in the same directory.
InputsAreWhole ==
    \A s \in Slots : at[s] = "loaded" =>
        \A i \in DOMAIN urls[s] :
            /\ InputFile(s, i) \in DOMAIN inputFiles
            /\ inputFiles[InputFile(s, i)] = urls[s][i]

\* A /load that answered 500 leaves nothing in the directory: no temporary
\* file, and none of the files it had completed.
FailedLoadsLeaveNothing ==
    \A s \in Slots : at[s] = "noinput" =>
        temp[s] = "none" /\ InputNames(s) \cap DOMAIN inputFiles = {}
=============================================================================
