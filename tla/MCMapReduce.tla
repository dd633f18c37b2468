---------------------------- MODULE MCMapReduce ----------------------------
(* Instances of MapReduce for TLC: slot s starts on host s + 1, the spares  *)
(* come after and are listed in the opposite order of their names.          *)
EXTENDS MapReduce

MCSlotHosts == [s \in Slots |-> s + 1]
MCSpareRank == [h \in Hosts |-> Cardinality(Hosts) - h]
\* Written out, so that TLC can compare its members with the model value NoResult.
MCPayloads == {got : got \in SUBSET Slots}

\* No health poll starts within the job.
QuietNext == Handlers \/ Control \/ (\E h \in Hosts : Crash(h))
QuietSpec == MRInit /\ [][QuietNext]_mvars
QuietFairSpec == QuietSpec /\ MRFairness
============================================================================
