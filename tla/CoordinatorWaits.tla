-------------------------- MODULE CoordinatorWaits --------------------------
(***************************************************************************)
(* The backoff of drive (mapreduce/coordinator.go): how long it waits      *)
(* after the swap of a host.  A duration is a signed 64-bit integer; `<<`  *)
(* loses the bits shifted out.                                             *)
(***************************************************************************)
EXTENDS MCCoordinator

CONSTANTS
    SignBit,          \* the weight of a duration's sign bit, 2^63 in the code
    BackoffInitial,   \* -backoff-initial, 250 ms
    BackoffMax        \* 5 s

\* The flags are not validated: any attempt limit and any first wait will do.
ASSUME BackoffAssumption ==
    SignBit \in Nat \ {0} /\ BackoffInitial \in Int /\ BackoffMax \in Nat

\* BackoffInitial << n, before any bit is lost.
Shifted[n \in Nat] == IF n = 0 THEN BackoffInitial ELSE 2 * Shifted[n - 1]

Backoff(attempt) ==
    LET bits == Shifted[attempt] % (2 * SignBit)
        d == IF bits < SignBit THEN bits ELSE bits - 2 * SignBit
    IN IF d > BackoffMax THEN BackoffMax ELSE d

\* Seeded fault: the shift is one more than the retries before this one.
AllAttempts == attempts[err[idx]]
\* attempts - 1, as read before replaceHost charges the slot once more.
EarlierAttempts == attempts[err[idx]] - 1

-----------------------------------------------------------------------------
(* Properties *)

\* The wait the flag is documented to give (main.go:95, README.md:503): the
\* first one, doubled at every retry before this one, up to the cap.
Documented(n) == IF Shifted[n] > BackoffMax THEN BackoffMax ELSE Shifted[n]
WaitIsDocumented ==
    pc \in {"claim", "activate", "fallback", "assign"} =>
        Backoff(EarlierAttempts) = Documented(EarlierAttempts)

\* The first wait is not negative, and shifted by one less than the limit of
\* attempts it is still below the sign bit: with 250 ms, up to a limit of 36.
FlagsFit ==
    0 <= BackoffInitial /\ (MaxAttempts > 0 => Shifted[MaxAttempts - 1] < SignBit)

\* With such flags the wait after a swap is the documented one, however often
\* and for whatever the slot was charged before: a slot over its budget fails
\* the job before the shift gets that far.
WaitsDouble == FlagsFit => WaitIsDocumented
=============================================================================
