-------------------------- MODULE MapReduceClaims --------------------------
(* A statement the repository makes about a whole job that its code does    *)
(* not keep, the subject of a run that is expected to violate it.           *)
EXTENDS MCMapReduce

\* A job that reports success reduced all of its input: replacing a host
\* "forces any slot whose reduceEpoch is older to redo /reduce"
\* (coordinator.go:327-329), which "prevents stale peer topology from leaking
\* into final reduce outputs" (docs/report/REPORT.md:126).
SuccessIsComplete ==
    pc = "succeeded" => \A r \in Slots : result[r] = WithInput
============================================================================
