----------------------------- MODULE SlotLedger -----------------------------
(***************************************************************************)
(* What the coordinator promises about its slot table, whatever the order  *)
(* of passes, errors, spares and health polls that brings it about.        *)
(*                                                                         *)
(* Each slot climbs one phase at a time on its present owner.  Changing    *)
(* the owner throws the slot's progress away and bumps the epoch; a reduce *)
(* is stamped with the epoch it was completed in, and one stamped with an  *)
(* older epoch is never collected and never part of a finished job.        *)
(***************************************************************************)
EXTENDS Integers

CONSTANTS Slots, Owners, FirstOwner

VARIABLES owner, phase, stamp, epoch, verdict

ledger == <<owner, phase, stamp, epoch, verdict>>

Pending == 0
Mapped  == 2
Reduced == 3
Done    == 4

Init ==
    /\ owner = FirstOwner
    /\ phase = [s \in Slots |-> Pending]
    /\ stamp = [s \in Slots |-> 0]
    /\ epoch = 0
    /\ verdict = "running"

\* One more phase of s is complete; a reduce only counts, and is only
\* collected, if no owner changed since it was requested.
Advance(s) ==
    /\ verdict = "running" /\ phase[s] < Done
    /\ phase[s] = Reduced => stamp[s] = epoch
    /\ phase' = [phase EXCEPT ![s] = @ + 1]
    /\ stamp' = IF phase[s] = Mapped THEN [stamp EXCEPT ![s] = epoch] ELSE stamp
    /\ UNCHANGED <<owner, epoch, verdict>>

\* Another worker takes the slot over and starts again.
Rebind(s, h) ==
    /\ verdict = "running" /\ h # owner[s]
    /\ owner' = [owner EXCEPT ![s] = h]
    /\ phase' = [phase EXCEPT ![s] = Pending]
    /\ stamp' = [stamp EXCEPT ![s] = 0]
    /\ epoch' = epoch + 1
    /\ UNCHANGED verdict

OutOfDate(s) == phase[s] >= Reduced /\ stamp[s] < epoch

\* Every reduce of an older epoch is to be done again.
Rewind ==
    /\ verdict = "running"
    /\ phase' = [s \in Slots |-> IF OutOfDate(s) THEN Mapped ELSE phase[s]]
    /\ UNCHANGED <<owner, stamp, epoch, verdict>>

Finish ==
    /\ verdict = "running"
    /\ \A s \in Slots : phase[s] = Done /\ stamp[s] = epoch
    /\ verdict' = "ok"
    /\ UNCHANGED <<owner, phase, stamp, epoch>>

GiveUp ==
    /\ verdict = "running"
    /\ verdict' = "failed"
    /\ UNCHANGED <<owner, phase, stamp, epoch>>

Next ==
    \/ \E s \in Slots : Advance(s) \/ \E h \in Owners : Rebind(s, h)
    \/ Rewind \/ Finish \/ GiveUp

Spec == Init /\ [][Next]_ledger
=============================================================================
