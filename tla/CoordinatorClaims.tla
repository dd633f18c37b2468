------------------------- MODULE CoordinatorClaims -------------------------
(* Statements the repository makes about the coordinator that its code does *)
(* not keep.  Each is checked by a run that is expected to violate it; the  *)
(* README and PROJECT.json quote the statement beside the counterexample.   *)
EXTENDS MCCoordinator

\* identifyCulprit is documented to find the slot that owns the host at
\* fault, or nothing when that host "was already replaced"
\* (coordinator.go:615-616): the host a swap retires is the one the failed
\* call ran on, or the one it could not fetch from.
FaultyHost(s) == IF err[s] = s THEN callHost[s] ELSE peers[s][err[s]]
OnlyFaultyHostsRetired ==
    [][ pc = "inspect" /\ pc' = "claim" => host[err[idx]] = FaultyHost(idx) ]_vars

\* "markDead records that host should never be reused as a slot host"
\* (coordinator.go:306): no slot is rebound to a host already marked dead.
DeadHostsNeverReused ==
    [][ \A s \in Slots : host'[s] # host[s] => host'[s] \notin dead ]_vars

\* After watchHealth has marked a host dead "the matching slot (if any) is
\* forced into replacement on its next phase attempt"
\* (coordinator.go:754-756): no call for a slot is sent to a host marked dead.
DeadHostsForcedOut ==
    [][ \A s \in Slots :
          step[s] = "todo" /\ step'[s] = "calling" => host[s] \notin dead ]_vars
============================================================================
