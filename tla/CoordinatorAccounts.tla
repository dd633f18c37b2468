------------------------- MODULE CoordinatorAccounts -------------------------
(* What the slots are charged for failed calls and swaps, proved for every   *)
(* number of slots and every attempt limit, and what that means for the      *)
(* waits between the passes.                                                 *)
EXTENDS CoordinatorWaits, CoordinatorProofs, DataInduction

Between == {"step", "inspect", "succeeded"}
Replacing == {"claim", "activate", "fallback", "assign"}

\* No slot is charged more than one past the limit before the charge that
\* ends the job.
WithinBudget ==
    \A s \in Slots : attempts[s] <= MaxAttempts + (IF pc = "exhausted" THEN 2 ELSE 1)

\* Between two results every swap has charged its slot twice.
Settled ==
    pc \in Between =>
      /\ \A s \in Slots : attempts[s] % 2 = 0
      /\ Total(attempts) = 2 * epoch

\* While a host is replaced, the culprit has been charged for the failed call
\* and not yet for the swap.
HalfCharged ==
    pc \in Replacing =>
      /\ attempts[err[idx]] \in 1 .. MaxAttempts
      /\ attempts[err[idx]] % 2 = 1
      /\ \A s \in Slots \ {err[idx]} : attempts[s] % 2 = 0
      /\ Total(attempts) = 2 * epoch + 1

AccountInv == WithinBudget /\ Settled /\ HalfCharged

-----------------------------------------------------------------------------
(* Totals *)

\* The bounds are numbers.
LEMMA Bounds == N \in Nat \ {0} /\ MaxAttempts \in Nat
BY CoordinatorAssumption DEF CoordinatorAssumption

\* There are finitely many slots to take totals over.
LEMMA SlotsFinite == IsFiniteSet(Slots)
<1>1. 0 \in Int /\ N - 1 \in Int BY Bounds
<1> QED BY <1>1, FS_Interval DEF Slots

\* No slot has been charged at the start.
LEMMA NothingCharged == Init => Total(attempts) = 0
<1> SUFFICES ASSUME Init PROVE Total(attempts) = 0 OBVIOUS
<1>1. attempts \in [Slots -> Int] /\ \A s \in Slots : attempts[s] = 0 BY DEF Init
<1> QED BY <1>1, SlotsFinite, SumOfZeros

\* Charging one slot once adds one to the total.
LEMMA OneCharge ==
    ASSUME TypeOK, NEW s \in Slots, attempts' = [attempts EXCEPT ![s] = @ + 1]
    PROVE  /\ attempts'[s] = attempts[s] + 1
           /\ \A r \in Slots \ {s} : attempts'[r] = attempts[r]
           /\ Total(attempts') = Total(attempts) + 1
<1>1. attempts \in [Slots -> Int] /\ attempts' \in [Slots -> Int] /\ attempts[s] \in Int
  BY DEF TypeOK, SlotsOK
<1>2. attempts'[s] = attempts[s] + 1 /\ \A r \in Slots \ {s} : attempts'[r] = attempts[r]
  BY <1>1
<1>3. Total(attempts') = Total(attempts) + attempts'[s] - attempts[s]
  <2>1. PICK f \in [Slots -> Int], h \in [Slots -> Int] : f = attempts /\ h = attempts'
    BY <1>1
  <2>2. \A r \in Slots \ {s} : h[r] = f[r] BY <1>2, <2>1, Zenon
  <2>3. Total(h) = Total(f) + h[s] - f[s] BY <2>2, SlotsFinite, SumOfUpdate
  <2> QED BY <2>1, <2>3, Zenon
<1>4. Total(attempts) \in Int BY <1>1, SlotsFinite, SumType
<1> QED BY <1>1, <1>2, <1>3, <1>4

-----------------------------------------------------------------------------
(* The accounts *)

\* At the start no slot is charged and no host was swapped.
LEMMA InitAccountInv == Init => AccountInv
<1> SUFFICES ASSUME Init PROVE AccountInv OBVIOUS
<1>1. pc = "step" /\ epoch = 0 /\ \A s \in Slots : attempts[s] = 0 BY DEF Init
<1>2. Total(attempts) = 0 BY NothingCharged
<1> QED BY <1>1, <1>2, Bounds DEF AccountInv, WithinBudget, Settled, HalfCharged,
                            Between, Replacing

\* Steps that charge nobody keep the accounts, as long as they stay between
\* two results, or within a replacement, or where they were.
LEMMA UnchargedAccountInv ==
    ASSUME AccountInv, UNCHANGED <<attempts, epoch>>,
           \/ pc \in Between /\ pc' \in Between
           \/ UNCHANGED <<err, idx>> /\ pc \in Replacing /\ pc' \in Replacing \cup {"nohost"}
           \/ UNCHANGED <<err, idx, pc>>
    PROVE  AccountInv'
<1> USE DEF Between, Replacing
<1>1. WithinBudget' BY DEF AccountInv, WithinBudget
<1>2. Settled' BY DEF AccountInv, Settled
<1>3. HalfCharged' BY DEF AccountInv, HalfCharged
<1> QED BY <1>1, <1>2, <1>3 DEF AccountInv

\* The culprit of a failed call is charged for it, within the limit.
LEMMA RetireAccountInv == TypeOK /\ AccountInv /\ Retire => AccountInv'
<1> SUFFICES ASSUME TypeOK, AccountInv, Retire PROVE AccountInv' OBVIOUS
<1> DEFINE c == err[idx]
<1>1. /\ pc = "inspect" /\ pc' = "claim" /\ UNCHANGED <<err, idx, epoch>>
      /\ attempts' = [attempts EXCEPT ![c] = @ + 1]
      /\ attempts[c] + 1 <= MaxAttempts
  BY DEF Retire, callVars, driveVars
<1>2. c \in Slots BY CulpritIsSlot DEF Retire
<1>3. attempts \in [Slots -> Nat] /\ epoch \in Nat BY DEF TypeOK, SlotsOK
<1>4. (\A s \in Slots : attempts[s] % 2 = 0) /\ Total(attempts) = 2 * epoch
  BY <1>1 DEF AccountInv, Settled, Between
<1>5. /\ attempts'[c] = attempts[c] + 1
      /\ \A r \in Slots \ {c} : attempts'[r] = attempts[r]
      /\ Total(attempts') = Total(attempts) + 1
  <2> HIDE DEF c
  <2> QED BY <1>1, <1>2, OneCharge
<1>6. WithinBudget'
  <2> SUFFICES ASSUME NEW s \in Slots PROVE attempts'[s] <= MaxAttempts + 1
    BY <1>1 DEF WithinBudget
  <2>1. attempts[s] <= MaxAttempts + 1 BY <1>1 DEF AccountInv, WithinBudget
  <2> QED BY <1>1, <1>3, <1>5, <2>1, Bounds
<1>7. HalfCharged'
  <2>1. err'[idx'] = c BY <1>1
  <2>2. attempts'[c] \in 1 .. MaxAttempts /\ attempts'[c] % 2 = 1
    BY <1>1, <1>2, <1>3, <1>4, <1>5, Bounds
  <2> HIDE DEF c
  <2> QED BY <1>1, <1>2, <1>3, <1>4, <1>5, <2>1, <2>2 DEF HalfCharged
<1>8. Settled' BY <1>1 DEF Settled, Between
<1> QED BY <1>6, <1>7, <1>8 DEF AccountInv

\* The charge that ends the job goes one further than a swap ever does.
LEMMA ExhaustedAccountInv == TypeOK /\ AccountInv /\ Exhausted => AccountInv'
<1> SUFFICES ASSUME TypeOK, AccountInv, Exhausted PROVE AccountInv' OBVIOUS
<1>1. /\ pc = "inspect" /\ pc' = "exhausted"
      /\ attempts' = [attempts EXCEPT ![err[idx]] = @ + 1]
  BY DEF Exhausted
<1>2. attempts \in [Slots -> Nat] BY DEF TypeOK, SlotsOK
<1>3. \A s \in Slots : attempts[s] <= MaxAttempts + 1
  BY <1>1 DEF AccountInv, WithinBudget
<1>4. WithinBudget' BY <1>1, <1>2, <1>3, Bounds DEF WithinBudget
<1>5. Settled' /\ HalfCharged' BY <1>1 DEF Settled, HalfCharged, Between, Replacing
<1> QED BY <1>4, <1>5 DEF AccountInv

\* The swap is charged to the same slot and counted in the epoch.
LEMMA AssignAccountInv == TypeOK /\ AccountInv /\ Assign => AccountInv'
<1> SUFFICES ASSUME TypeOK, AccountInv, Assign PROVE AccountInv' OBVIOUS
<1> DEFINE c == err[idx]
<1>1. /\ pc = "assign" /\ pc' = "inspect" /\ epoch' = epoch + 1
      /\ attempts' = [attempts EXCEPT ![c] = @ + 1]
  BY DEF Assign, EpochAfterSwap
<1>2. c \in Slots BY <1>1 DEF TypeOK, ReplacingOK
<1>3. attempts \in [Slots -> Nat] /\ epoch \in Nat BY DEF TypeOK, SlotsOK
<1>4. /\ attempts[c] \in 1 .. MaxAttempts
      /\ attempts[c] % 2 = 1
      /\ \A s \in Slots \ {c} : attempts[s] % 2 = 0
      /\ Total(attempts) = 2 * epoch + 1
  BY <1>1 DEF AccountInv, HalfCharged, Replacing
<1>5. \A s \in Slots : attempts[s] <= MaxAttempts + 1 BY <1>1 DEF AccountInv, WithinBudget
<1> HIDE DEF c
<1>6. /\ attempts'[c] = attempts[c] + 1
      /\ \A r \in Slots \ {c} : attempts'[r] = attempts[r]
      /\ Total(attempts') = Total(attempts) + 1
  BY <1>1, <1>2, OneCharge
<1>7. WithinBudget'
  <2> SUFFICES ASSUME NEW s \in Slots PROVE attempts'[s] <= MaxAttempts + 1
    BY <1>1 DEF WithinBudget
  <2>1. CASE s = c BY <1>2, <1>3, <1>4, <1>6, <2>1, Bounds
  <2>2. CASE s # c BY <1>5, <1>6, <2>2
  <2> QED BY <2>1, <2>2
<1>8. Settled'
  <2>1. attempts'[c] % 2 = 0 BY <1>2, <1>3, <1>4, <1>6
  <2>2. \A s \in Slots : attempts'[s] % 2 = 0 BY <1>4, <1>6, <2>1
  <2>3. Total(attempts') = 2 * (epoch + 1) BY <1>3, <1>4, <1>6
  <2> QED BY <1>1, <2>2, <2>3 DEF Settled
<1>9. HalfCharged' BY <1>1 DEF HalfCharged, Replacing
<1> QED BY <1>7, <1>8, <1>9 DEF AccountInv

\* Every step keeps the accounts.
LEMMA NextAccountInv == TypeOK /\ AccountInv /\ [Next]_vars => AccountInv'
<1> SUFFICES ASSUME TypeOK, AccountInv, [Next]_vars PROVE AccountInv' OBVIOUS
<1> USE DEF Between, Replacing
<1>1. ASSUME NEW s \in Slots, SkipStep(s) PROVE AccountInv'
  BY <1>1, UnchargedAccountInv DEF SkipStep, slotVars
<1>2. ASSUME NEW s \in Slots, StartStep(s) PROVE AccountInv'
  BY <1>2, UnchargedAccountInv DEF StartStep, slotVars
<1>3. ASSUME NEW s \in Slots, NEW kvs \in Payloads, ReturnOk(s, kvs) PROVE AccountInv'
  BY <1>3, UnchargedAccountInv DEF ReturnOk
<1>4. ASSUME NEW s \in Slots, NEW c \in Slots, ReturnErr(s, c) PROVE AccountInv'
  BY <1>4, UnchargedAccountInv DEF ReturnErr, slotVars
<1>5. CASE Barrier \/ NextResult \/ Succeed
  BY <1>5, UnchargedAccountInv DEF Barrier, NextResult, Succeed, Inspected, slotVars
<1>6. CASE Retry \/ NextDrive
  BY <1>6, UnchargedAccountInv DEF Retry, NextDrive, NewPass, Inspected
<1>7. ASSUME NEW h \in Hosts, ClaimSpare(h) PROVE AccountInv'
  BY <1>7, UnchargedAccountInv DEF ClaimSpare, slotVars, callVars
<1>8. CASE ActivateOk \/ ActivateFails
  BY <1>8, UnchargedAccountInv DEF ActivateOk, ActivateFails, slotVars, callVars, driveVars
<1>9. CASE NoSpare \/ NoActiveHost
  BY <1>9, UnchargedAccountInv DEF NoSpare, NoActiveHost, slotVars, callVars, driveVars
<1>10. ASSUME NEW h \in Hosts, ClaimActiveHost(h) PROVE AccountInv'
  BY <1>10, UnchargedAccountInv DEF ClaimActiveHost, slotVars, callVars
<1>11. CASE PollStart \/ UNCHANGED vars
  BY <1>11, UnchargedAccountInv DEF PollStart, vars, slotVars, callVars, driveVars
<1>12. ASSUME NEW h \in Hosts, PollOk(h) \/ PollFail(h) PROVE AccountInv'
  BY <1>12, UnchargedAccountInv DEF PollOk, PollFail, slotVars, callVars, driveVars
<1> QED
  BY <1>1, <1>2, <1>3, <1>4, <1>5, <1>6, <1>7, <1>8, <1>9, <1>10, <1>11, <1>12,
     RetireAccountInv, ExhaustedAccountInv, AssignAccountInv
     DEF Next, Steps, Inspect, Watch, Terminated

\* The accounts invariant holds in every reachable state.
LEMMA AccountInvariance == Spec => []AccountInv
<1>1. Init => AccountInv BY InitAccountInv
<1>2. TypeOK /\ AccountInv /\ [Next]_vars => AccountInv' BY NextAccountInv
<1> QED BY <1>1, <1>2, TypeCorrect, PTL DEF Spec

\* However many swaps there are and whatever they are for, every one has been
\* charged to its slot twice when the next result is looked at, the epoch
\* counts them, and no slot is charged more than two past -max-attempts.
THEOREM AccountsBalance == Spec => []AttemptsAccountForSwaps
<1>1. TypeOK /\ AccountInv => AttemptsAccountForSwaps
  <2> SUFFICES ASSUME TypeOK, AccountInv PROVE AttemptsAccountForSwaps OBVIOUS
  <2>1. ASSUME NEW s \in Slots PROVE attempts[s] <= MaxAttempts + 2
    BY Bounds DEF AccountInv, WithinBudget, TypeOK, SlotsOK
  <2>2. pc \in Between => FoldFunction(+, 0, attempts) = 2 * epoch
    BY Zenon DEF AccountInv, Settled, Total
  <2> QED BY <2>1, <2>2, Zenon DEF AttemptsAccountForSwaps, AccountInv, Settled, Between
<1> QED BY <1>1, AccountInvariance, TypeCorrect, PTL

-----------------------------------------------------------------------------
(* The waits *)

\* A shift by one more bit doubles.
LEMMA ShiftedDoubles ==
    /\ Shifted \in [Nat -> Int]
    /\ Shifted[0] = BackoffInitial
    /\ \A n \in Nat : Shifted[n + 1] = 2 * Shifted[n]
<1> DEFINE next == [x \in Nat \X Int |-> 2 * x[2]]
<1>1. PICK f \in [Nat -> Int] : Iterates(f, BackoffInitial, next)
  <2>1. BackoffInitial \in Int BY BackoffAssumption DEF BackoffAssumption
  <2>2. next \in [Nat \X Int -> Int] OBVIOUS
  <2> HIDE DEF next
  <2> QED BY <2>1, <2>2, NatRecursion, Zenon
<1>2. f = [n \in Nat |-> IF n = 0 THEN BackoffInitial ELSE 2 * f[n - 1]]
  <2>1. ASSUME NEW n \in Nat PROVE f[n] = IF n = 0 THEN BackoffInitial ELSE 2 * f[n - 1]
    <3>1. CASE n = 0 BY <1>1, <3>1 DEF Iterates
    <3>2. CASE n # 0
      <4>1. n - 1 \in Nat /\ (n - 1) + 1 = n BY <3>2
      <4>2. f[(n - 1) + 1] = next[<<n - 1, f[n - 1]>>] BY <1>1, <4>1 DEF Iterates
      <4> QED BY <1>1, <3>2, <4>1, <4>2
    <3> QED BY <3>1, <3>2
  <2> QED BY <2>1
<1>3. Shifted = [n \in Nat |-> IF n = 0 THEN BackoffInitial ELSE 2 * Shifted[n - 1]]
  BY <1>2, Zenon DEF Shifted
<1>4. ASSUME NEW n \in Nat PROVE Shifted[n] = IF n = 0 THEN BackoffInitial ELSE 2 * Shifted[n - 1]
  BY <1>3, Zenon
<1>5. ASSUME NEW n \in Nat PROVE Shifted[n + 1] = 2 * Shifted[n]
  <2>1. n + 1 \in Nat /\ n + 1 # 0 /\ (n + 1) - 1 = n OBVIOUS
  <2> QED BY <1>4, <2>1, Zenon
<1>6. Shifted[0] = BackoffInitial BY <1>4
<1>7. Shifted \in [Nat -> Int]
  <2> DEFINE P == {n \in Nat : Shifted[n] \in Int}
  <2>1. 0 \in P BY <1>6, BackoffAssumption DEF BackoffAssumption
  <2>2. ASSUME NEW n \in P PROVE n + 1 \in P
    <3>1. Shifted[n + 1] = 2 * Shifted[n] BY <1>5
    <3> QED BY <3>1
  <2>3. P \subseteq Nat OBVIOUS
  <2>4. P = Nat
    <3> HIDE DEF P
    <3> QED BY <2>1, <2>2, <2>3, InductionOnNat
  <2>5. \A n \in Nat : Shifted[n] \in Int BY <2>4
  <2> QED BY <1>3, <2>5
<1> QED BY <1>5, <1>6, <1>7

\* A first wait that is not negative never becomes so, and grows.
LEMMA ShiftedGrows ==
    ASSUME 0 <= BackoffInitial
    PROVE  \A n, k \in Nat : 0 <= Shifted[n] /\ Shifted[n] <= Shifted[n + k]
<1> DEFINE P == {n \in Nat : 0 <= Shifted[n]}
<1>1. P = Nat
  <2>1. 0 \in P BY ShiftedDoubles
  <2>2. ASSUME NEW n \in P PROVE n + 1 \in P
    <3>1. Shifted[n] \in Int /\ Shifted[n + 1] = 2 * Shifted[n] BY ShiftedDoubles
    <3> QED BY <3>1
  <2>3. P \subseteq Nat OBVIOUS
  <2> HIDE DEF P
  <2> QED BY <2>1, <2>2, <2>3, InductionOnNat
<1>2. \A n \in Nat : 0 <= Shifted[n] BY <1>1
<1> DEFINE Q == {k \in Nat : \A n \in Nat : Shifted[n] <= Shifted[n + k]}
<1>3. 0 \in Q BY ShiftedDoubles
<1>4. ASSUME NEW k \in Q PROVE k + 1 \in Q
  <2> SUFFICES ASSUME NEW n \in Nat PROVE Shifted[n] <= Shifted[n + (k + 1)] OBVIOUS
  <2>1. n + k \in Nat /\ n + (k + 1) = (n + k) + 1 OBVIOUS
  <2>2. Shifted[n] \in Int /\ Shifted[n + k] \in Int /\ Shifted[(n + k) + 1] = 2 * Shifted[n + k]
    BY <2>1, ShiftedDoubles
  <2>3. Shifted[n] <= Shifted[n + k] /\ 0 <= Shifted[n + k] BY <1>2, <2>1
  <2> QED BY <2>1, <2>2, <2>3
<1>5. Q = Nat
  <2>1. Q \subseteq Nat OBVIOUS
  <2> HIDE DEF Q
  <2> QED BY <1>3, <1>4, <2>1, InductionOnNat
<1> QED BY <1>2, <1>5

\* A shift that keeps clear of the sign bit loses no bit.
LEMMA ShiftLosesNothing ==
    ASSUME NEW n \in Nat, 0 <= Shifted[n], Shifted[n] < SignBit
    PROVE  Backoff(n) = Documented(n)
<1>1. SignBit \in Nat /\ BackoffMax \in Nat BY BackoffAssumption DEF BackoffAssumption
<1>2. PICK x \in Nat : x = Shifted[n] BY ShiftedDoubles
<1>3. x < SignBit BY <1>2
<1>4. x % (2 * SignBit) = x BY <1>1, <1>3
<1> QED BY <1>1, <1>2, <1>3, <1>4 DEF Backoff, Documented

\* Whatever a slot was charged before, the budget of attempts keeps the shift
\* at -max-attempts - 1 or less: if the flags fit, every wait after a swap is
\* the first one doubled at each retry up to the cap, with no bit lost.
THEOREM WaitsDoubleUpToCap == Spec => []WaitsDouble
<1>1. TypeOK /\ AccountInv => WaitsDouble
  <2> SUFFICES ASSUME TypeOK, AccountInv, FlagsFit, pc \in Replacing
               PROVE  Backoff(EarlierAttempts) = Documented(EarlierAttempts)
    BY DEF WaitsDouble, WaitIsDocumented, Replacing
  <2>1. attempts[err[idx]] \in 1 .. MaxAttempts BY DEF AccountInv, HalfCharged
  <2>2. PICK n \in Nat, k \in Nat : n = EarlierAttempts /\ n + k = MaxAttempts - 1
    <3>1. EarlierAttempts \in 0 .. (MaxAttempts - 1) BY <2>1, Bounds DEF EarlierAttempts
    <3>2. /\ EarlierAttempts \in Nat /\ (MaxAttempts - 1) - EarlierAttempts \in Nat
          /\ EarlierAttempts + ((MaxAttempts - 1) - EarlierAttempts) = MaxAttempts - 1
      BY <3>1, Bounds
    <3> QED BY <3>2
  <2>3. 0 <= BackoffInitial /\ Shifted[n + k] < SignBit
    BY <2>1, <2>2, Bounds DEF FlagsFit
  <2>4. 0 <= Shifted[n] /\ Shifted[n] <= Shifted[n + k] BY <2>3, ShiftedGrows
  <2>5. Shifted[n] \in Int /\ Shifted[n + k] \in Int /\ SignBit \in Int
    BY ShiftedDoubles, BackoffAssumption DEF BackoffAssumption
  <2>6. Shifted[n] < SignBit BY <2>3, <2>4, <2>5
  <2> QED BY <2>2, <2>4, <2>6, ShiftLosesNothing
<1> QED BY <1>1, AccountInvariance, TypeCorrect, PTL

\* The cap is applied too late to bound every shift: as neither flag is
\* validated, whatever the first wait is there is a number of earlier attempts
\* that makes the wait negative, so that time.After does not wait at all.
THEOREM CapComesTooLate ==
    ASSUME 0 < BackoffInitial, BackoffInitial < SignBit
    PROVE  \E n \in Nat : Backoff(n) < 0
<1>1. SignBit \in Nat \ {0} /\ BackoffInitial \in Int /\ BackoffMax \in Nat
  BY BackoffAssumption DEF BackoffAssumption
<1>2. ASSUME NEW n \in Nat, SignBit <= Shifted[n], Shifted[n] < 2 * SignBit
      PROVE  Backoff(n) < 0
  <2>1. PICK x \in Int : x = Shifted[n] BY ShiftedDoubles
  <2>2. x \in Nat /\ SignBit <= x /\ x < 2 * SignBit BY <1>1, <1>2, <2>1
  <2>3. x % (2 * SignBit) = x BY <1>1, <2>2
  <2>4. x - 2 * SignBit < 0 /\ ~(x < SignBit) /\ ~(x - 2 * SignBit > BackoffMax) BY <1>1, <2>2
  <2> QED BY <2>1, <2>3, <2>4 DEF Backoff
<1> SUFFICES ASSUME \A n \in Nat : ~(SignBit <= Shifted[n] /\ Shifted[n] < 2 * SignBit)
             PROVE  FALSE
  BY <1>2
<1> DEFINE P == {n \in Nat : n < Shifted[n] /\ Shifted[n] < SignBit}
<1>3. 0 \in P BY <1>1, ShiftedDoubles
<1>4. ASSUME NEW n \in P PROVE n + 1 \in P
  <2>1. Shifted[n] \in Int /\ Shifted[n + 1] \in Int /\ Shifted[n + 1] = 2 * Shifted[n]
    BY ShiftedDoubles
  <2>2. ~(SignBit <= Shifted[n + 1] /\ Shifted[n + 1] < 2 * SignBit) OBVIOUS
  <2> QED BY <1>1, <2>1, <2>2
<1>5. P = Nat
  <2>1. P \subseteq Nat OBVIOUS
  <2> HIDE DEF P
  <2> QED BY <1>3, <1>4, <2>1, InductionOnNat
<1>6. SignBit < Shifted[SignBit] /\ Shifted[SignBit] < SignBit BY <1>1, <1>5
<1> QED BY <1>1, <1>6, ShiftedDoubles

=============================================================================
