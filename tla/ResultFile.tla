----------------------------- MODULE ResultFile -----------------------------
(***************************************************************************)
(* writeFileAtomic (mapreduce/main.go): the result goes to a temporary     *)
(* file that is renamed to the output file.  Any step may fail, and the    *)
(* orchestrator may die between any two.  The bytes are abstracted to      *)
(* whether they are those of an earlier job, this one's, or a part.        *)
(***************************************************************************)
EXTENDS Integers

VARIABLES
    outFile,   \* the output file: "none", "old", "part" or "new"
    tmpFile,   \* the temporary file: "none", "part" or "new"
    writer     \* "idle", "created", "written", "renamed", "undo", "ok", "err" or "dead"

fileState == <<outFile, tmpFile, writer>>

ResultFileInit ==
    /\ outFile \in {"none", "old"}
    /\ tmpFile = "none"
    /\ writer = "idle"

CreateTemp ==
    /\ writer = "idle"
    /\ tmpFile' = "part" /\ writer' = "created"
    /\ UNCHANGED outFile

\* The directory or the temporary file cannot be created.
CreateTempFails ==
    /\ writer = "idle"
    /\ writer' = "err"
    /\ UNCHANGED <<outFile, tmpFile>>

WriteTemp ==
    /\ writer = "created"
    /\ tmpFile' = "new" /\ writer' = "written"
    /\ UNCHANGED outFile

\* Chmod, the write or the close fails.  What was written is not complete.
WriteTempFails ==
    /\ writer = "created"
    /\ writer' = "undo"
    /\ UNCHANGED <<outFile, tmpFile>>

\* Seeded fault: the file is written in place once the data is at hand.
WriteInPlace ==
    /\ writer = "written"
    /\ IF outFile = "part" THEN outFile' = "new" /\ tmpFile' = "none" /\ writer' = "renamed"
                           ELSE outFile' = "part" /\ UNCHANGED <<tmpFile, writer>>

RenameTemp ==
    /\ writer = "written"
    /\ outFile' = tmpFile /\ tmpFile' = "none" /\ writer' = "renamed"

\* The deferred Remove finds no file of that name, and the write returns nil.
ReportSuccess ==
    /\ writer = "renamed"
    /\ writer' = "ok"
    /\ UNCHANGED <<outFile, tmpFile>>

RenameFails ==
    /\ writer = "written"
    /\ writer' = "undo"
    /\ UNCHANGED <<outFile, tmpFile>>

\* The deferred function of a failed write.
RemoveTemp ==
    /\ writer = "undo"
    /\ tmpFile' = "none" /\ writer' = "err"
    /\ UNCHANGED outFile

\* The process is gone, before the write, within it, or when it has returned
\* and run() has not said so.
WriterDies ==
    /\ writer # "dead"
    /\ writer' = "dead"
    /\ UNCHANGED <<outFile, tmpFile>>

WriterSucceeds == CreateTemp \/ WriteTemp \/ RenameTemp \/ ReportSuccess \/ RemoveTemp
WriterFails == CreateTempFails \/ WriteTempFails \/ RenameFails \/ WriterDies

-----------------------------------------------------------------------------
(* Properties *)

ResultFileTypeOK ==
    /\ outFile \in {"none", "old", "part", "new"}
    /\ tmpFile \in {"none", "part", "new"}
    /\ writer \in {"idle", "created", "written", "renamed", "undo", "ok", "err", "dead"}

\* Whoever reads the output file sees the earlier result or the new one, never
\* a part, also after the orchestrator died at any moment.  A success that is
\* reported has the new result in place and a failure that is reported has not
\* touched the earlier one, and neither leaves a temporary file behind.
OldOrNew ==
    /\ outFile # "part"
    /\ writer = "ok" => outFile = "new"
    /\ writer = "err" => outFile # "new"
    /\ writer \in {"ok", "err"} => tmpFile = "none"
=============================================================================
