--------------------------- MODULE MCCoordinator ---------------------------
(* Instances of Coordinator for TLC.  Hosts are numbered so that slot s    *)
(* starts on host s + 1 and the spares come after; the list of spares is   *)
(* in the opposite order of the names, so the two orders are told apart.   *)
EXTENDS Coordinator

MCSlotHosts == [s \in Slots |-> s + 1]
MCSpareRank == [h \in Hosts |-> Cardinality(Hosts) - h]

\* The job when -health-interval exceeds its duration: no poll ever starts.
NoTickNext == Steps \/ Inspect \/ Terminated
NoTickSpec == Init /\ [][NoTickNext]_vars
NoTickFairSpec == NoTickSpec /\ Fairness
============================================================================
