---------------------------- MODULE VaultProofs ----------------------------
(***************************************************************************)
(* Theorems about an owner's vault, the instance V of Vault, for every     *)
(* price, fee, reserve and gas cost.  The inductive invariant is the       *)
(* conjunction of the checked ones and Covered:                            *)
(* until the vault is overdrawn, what was received since the last split    *)
(* covers the costs since then, so the costs never eat into the overage.   *)
(***************************************************************************)
EXTENDS Owner, Integers, TLAPS

\* A share of the price in basis points is a natural number below the price.
LEMMA ShareOfPrice ==
  ASSUME V!VaultAssumption
  PROVE  \A bps \in V!BasisPoints : V!Share(bps) \in Nat /\ V!Share(bps) <= price
  <1> TAKE bps \in V!BasisPoints
  <1> DEFINE n == price * bps
             q == n \div 10000
  <1>1. price \in Nat  BY DEF V!VaultAssumption
  <1>2. n \in Nat /\ n <= price * 10000
    BY <1>1 DEF V!BasisPoints
  <1> HIDE DEF n
  <1>3. q \in Int /\ 10000 * q <= n /\ n < 10000 * (q + 1)
    BY <1>2
  <1> HIDE DEF q
  <1>4. q \in Nat /\ q <= price  BY <1>1, <1>2, <1>3
  <1> QED  BY <1>4 DEF q, n, V!Share

\* The shares of a split are natural numbers and add up to what was asked for
\* beyond the reserve.
LEMMA Shared ==
  ASSUME V!VaultAssumption
  PROVE  /\ V!admin_amount \in Nat /\ V!platform_amount \in Nat
         /\ V!required_payment \in Nat \ {0}
         /\ V!required_payment = V!admin_amount + V!platform_amount + MIN_GAS_RESERVE
  <1>1. V!admin_fee \in Nat /\ V!admin_fee <= price
    <2>1. admin_fee_bps \in V!BasisPoints  BY DEF V!VaultAssumption
    <2> QED  BY <2>1, ShareOfPrice DEF V!admin_fee
  <1>2. V!buyer_fee \in Nat
    <2>1. buyer_fee_bps \in V!BasisPoints  BY DEF V!VaultAssumption
    <2> QED  BY <2>1, ShareOfPrice DEF V!buyer_fee
  <1> QED
    BY <1>1, <1>2 DEF V!VaultAssumption, V!admin_amount, V!platform_amount, V!required_payment

Covered == ~overdrawn => spent <= accumulated_paid

VaultInv == V!TypeOK /\ V!Accounted /\ V!RingFenced /\ V!PaidInFull /\ Covered

LEMMA VaultInit == ASSUME V!VaultAssumption, V!Init PROVE VaultInv
  <1>1. V!TypeOK
    <2>1. V!Nothing \in V!Shares  BY DEF V!Nothing, V!Shares
    <2>2. 0 < V!required_payment  BY Shared
    <2> QED  BY <2>1, <2>2 DEF V!Init, V!TypeOK
  <1>2. V!Accounted  BY DEF V!Init, V!Accounted, V!Nothing
  <1>3. V!RingFenced /\ Covered  BY DEF V!Init, V!RingFenced, Covered
  <1>4. V!PaidInFull  BY DEF V!Init, V!PaidInFull
  <1> QED  BY <1>1, <1>2, <1>3, <1>4 DEF VaultInv

LEMMA AccumulateKeeps ==
  ASSUME V!VaultAssumption, VaultInv,
         NEW value \in Value, NEW gas \in GasUse, V!Accumulate(value, gas)
  PROVE  VaultInv'
  <1>1. value \in Nat /\ gas \in Nat /\ gas <= value /\ LOG_VALUE \in Nat
    BY DEF V!VaultAssumption, V!Accumulate, V!Affordable
  <1> DEFINE arrived == balance + value - gas
             log == V!Taken(arrived, LOG_VALUE)
  <1>2. /\ arrived \in Nat /\ log \in Nat /\ log <= arrived
        /\ accumulated_paid' = accumulated_paid + value
        /\ balance' = arrived - log
        /\ received' = received + value
        /\ spent' = spent + gas + log
        /\ overdrawn' = (overdrawn \/ accumulated_paid' < spent')
        /\ accumulated_paid' < V!required_payment
        /\ UNCHANGED <<overage_held, owed, paid>>
    BY <1>1 DEF V!Accumulate, V!Taken, VaultInv, V!TypeOK
  <1>3. arrived = balance + value - gas  OBVIOUS
  <1> HIDE DEF arrived, log
  <1>4. V!TypeOK'
    BY <1>1, <1>2 DEF VaultInv, V!TypeOK
  <1>5. V!Accounted'
    BY <1>1, <1>2, Shared DEF VaultInv, V!TypeOK, V!Accounted, V!Shares
  <1>6. V!RingFenced'
    BY <1>1, <1>2, <1>3 DEF VaultInv, V!TypeOK, V!RingFenced
  <1>7. V!PaidInFull'
    BY <1>2 DEF VaultInv, V!TypeOK, V!PaidInFull
  <1>8. Covered'
    <2> SUFFICES ASSUME ~overdrawn' PROVE spent' <= accumulated_paid'  BY DEF Covered
    <2>1. ~(accumulated_paid' < spent')  BY <1>2, Zenon
    <2> QED  BY <1>1, <1>2, <2>1 DEF VaultInv, V!TypeOK
  <1> QED  BY <1>4, <1>5, <1>6, <1>7, <1>8 DEF VaultInv

LEMMA SplitKeeps ==
  ASSUME V!VaultAssumption, VaultInv,
         NEW value \in Value, NEW gas \in GasUse, V!Split(value, gas)
  PROVE  VaultInv'
  <1>1. /\ value \in Nat /\ gas \in Nat /\ gas <= value
        /\ LOG_VALUE \in Nat /\ MIN_GAS_RESERVE \in Nat
    BY DEF V!VaultAssumption, V!Split, V!Affordable
  <1>2. /\ balance \in Nat /\ accumulated_paid \in Nat /\ overage_held \in Nat
        /\ received \in Nat /\ spent \in Nat /\ overdrawn \in BOOLEAN
    BY DEF VaultInv, V!TypeOK
  <1>3. owed \in V!Shares /\ paid \in V!Shares  BY DEF VaultInv, V!TypeOK
  <1> DEFINE arrived == balance + value - gas
             overage == accumulated_paid + value - V!required_payment
             toAdmin == V!Taken(arrived, V!admin_amount)
             toPlatform == V!Taken(arrived - toAdmin, V!platform_amount)
             log == V!Taken(arrived - toAdmin - toPlatform, LOG_VALUE)
  <1>4. /\ arrived = balance + value - gas /\ arrived \in Nat
        /\ overage = accumulated_paid + value - V!required_payment /\ overage \in Nat
    BY <1>1, <1>2, Shared DEF V!Split
  <1>5. /\ toAdmin \in Nat /\ toAdmin <= arrived
        /\ V!admin_amount <= arrived => toAdmin = V!admin_amount
    BY <1>4, Shared DEF V!Taken
  <1>6. /\ toPlatform \in Nat /\ toPlatform <= arrived - toAdmin
        /\ V!platform_amount <= arrived - toAdmin => toPlatform = V!platform_amount
    BY <1>4, <1>5, Shared DEF V!Taken
  <1>7. log \in Nat /\ log <= LOG_VALUE /\ log <= arrived - toAdmin - toPlatform
    BY <1>1, <1>4, <1>5, <1>6 DEF V!Taken
  <1>8. /\ accumulated_paid' = 0
        /\ overage_held' = overage_held + overage
        /\ balance' = arrived - toAdmin - toPlatform - log
        /\ received' = received + value
        /\ overdrawn' = (overdrawn \/ spent + gas + LOG_VALUE > MIN_GAS_RESERVE)
        /\ spent' = 0
    BY DEF V!Split
  <1>9. /\ owed' = V!Plus(owed, V!admin_amount, V!platform_amount, 0, MIN_GAS_RESERVE)
        /\ paid' = V!Plus(paid, toAdmin, toPlatform, 0, 0)
    BY DEF V!Split
  <1> HIDE DEF arrived, overage, toAdmin, toPlatform, log
  <1>10. /\ owed'.admin = owed.admin + V!admin_amount
         /\ owed'.platform = owed.platform + V!platform_amount
         /\ owed'.refund = owed.refund
         /\ owed'.kept = owed.kept + MIN_GAS_RESERVE
         /\ paid'.admin = paid.admin + toAdmin
         /\ paid'.platform = paid.platform + toPlatform
         /\ paid'.refund = paid.refund
         /\ paid'.kept = paid.kept
    BY <1>3, <1>5, <1>6, <1>9, Shared DEF V!Plus, V!Shares
  <1>11. owed' \in V!Shares /\ paid' \in V!Shares
    BY <1>1, <1>3, <1>5, <1>6, <1>9, Shared DEF V!Plus, V!Shares
  <1>12. V!TypeOK'
    BY <1>2, <1>1, <1>4, <1>5, <1>6, <1>7, <1>8, <1>11, Shared DEF V!TypeOK
  <1>13. V!Accounted'
    BY <1>1, <1>2, <1>3, <1>4, <1>8, <1>10, Shared DEF VaultInv, V!Accounted, V!Shares
  <1>14. ASSUME ~overdrawn'
         PROVE  /\ toAdmin = V!admin_amount /\ toPlatform = V!platform_amount
                /\ balance' >= overage_held'
    <2>0. ~overdrawn /\ ~(spent + gas + LOG_VALUE > MIN_GAS_RESERVE)
      BY <1>8, <1>14, Zenon
    <2>1. ~overdrawn /\ spent + gas + LOG_VALUE <= MIN_GAS_RESERVE
      BY <1>1, <1>2, <2>0
    <2>2. balance >= overage_held + accumulated_paid - spent
      BY <2>1 DEF VaultInv, V!RingFenced
    <2>3. arrived >= overage_held + overage + V!admin_amount + V!platform_amount + LOG_VALUE
      BY <1>1, <1>2, <1>4, <2>1, <2>2, Shared
    <2>4. toAdmin = V!admin_amount
      BY <1>1, <1>2, <1>4, <1>5, <2>3, Shared
    <2>5. toPlatform = V!platform_amount
      BY <1>1, <1>2, <1>4, <1>6, <2>3, <2>4, Shared
    <2> QED
      BY <1>1, <1>2, <1>4, <1>7, <1>8, <2>3, <2>4, <2>5, Shared
  <1>15. V!RingFenced'
    BY <1>1, <1>2, <1>4, <1>8, <1>14 DEF V!RingFenced
  <1>16. V!PaidInFull'
    BY <1>8, <1>10, <1>14 DEF VaultInv, V!PaidInFull
  <1>17. Covered'
    BY <1>8 DEF Covered
  <1> QED  BY <1>12, <1>13, <1>15, <1>16, <1>17 DEF VaultInv

LEMMA RefundKeeps ==
  ASSUME V!VaultAssumption, VaultInv, NEW gas \in GasUse, V!Refund(gas)
  PROVE  VaultInv'
  <1>1. /\ gas \in Nat /\ gas <= TRIGGER_GAS
        /\ TRIGGER_GAS \in Nat /\ REFUND_GAS \in Nat
    BY DEF V!VaultAssumption, V!Refund, V!Affordable
  <1>2. /\ balance \in Nat /\ accumulated_paid \in Nat /\ overage_held \in Nat
        /\ received \in Nat /\ spent \in Nat /\ overdrawn \in BOOLEAN
        /\ owed \in V!Shares /\ paid \in V!Shares
    BY DEF VaultInv, V!TypeOK
  <1> DEFINE refund_amount == overage_held - REFUND_GAS
             arrived == balance + TRIGGER_GAS - gas
             sent == V!Taken(arrived, refund_amount)
  <1>3. /\ refund_amount \in Nat /\ refund_amount = overage_held - REFUND_GAS
        /\ arrived \in Nat /\ arrived = balance + TRIGGER_GAS - gas
    BY <1>1, <1>2 DEF V!Refund
  <1>4. /\ sent \in Nat /\ sent <= arrived /\ sent <= refund_amount
        /\ refund_amount <= arrived => sent = refund_amount
    BY <1>3 DEF V!Taken
  <1>5. /\ overage_held' = 0 /\ balance' = arrived - sent
        /\ owed' = V!Plus(owed, 0, 0, refund_amount, REFUND_GAS)
        /\ paid' = V!Plus(paid, 0, 0, sent, 0)
        /\ UNCHANGED <<accumulated_paid, received, spent, overdrawn>>
    BY DEF V!Refund
  <1> HIDE DEF refund_amount, arrived, sent
  <1>6. /\ owed'.admin = owed.admin /\ owed'.platform = owed.platform
        /\ owed'.refund = owed.refund + refund_amount
        /\ owed'.kept = owed.kept + REFUND_GAS
        /\ paid'.admin = paid.admin /\ paid'.platform = paid.platform
        /\ paid'.refund = paid.refund + sent
        /\ owed' \in V!Shares /\ paid' \in V!Shares
    BY <1>1, <1>2, <1>3, <1>4, <1>5 DEF V!Plus, V!Shares
  <1>7. V!TypeOK'
    BY <1>1, <1>2, <1>3, <1>4, <1>5, <1>6 DEF VaultInv, V!TypeOK
  <1>8. V!Accounted'
    BY <1>1, <1>2, <1>3, <1>5, <1>6 DEF VaultInv, V!Accounted, V!Shares
  <1>9. ~overdrawn => sent = refund_amount
    <2> SUFFICES ASSUME ~overdrawn PROVE refund_amount <= arrived  BY <1>4
    <2>1. /\ balance >= overage_held + accumulated_paid - spent
          /\ spent <= accumulated_paid
      BY DEF VaultInv, V!RingFenced, Covered
    <2> QED  BY <1>1, <1>2, <1>3, <2>1
  <1>10. V!RingFenced'
    BY <1>1, <1>2, <1>3, <1>4, <1>5 DEF VaultInv, V!RingFenced
  <1>11. V!PaidInFull'
    BY <1>5, <1>6, <1>9 DEF VaultInv, V!PaidInFull
  <1>12. Covered'
    BY <1>5 DEF VaultInv, Covered
  <1> QED  BY <1>7, <1>8, <1>10, <1>11, <1>12 DEF VaultInv

LEMMA VaultInvariant == ASSUME V!VaultAssumption PROVE V!Spec => []VaultInv
  <1>1. VaultInv /\ [V!Next]_(V!vars) => VaultInv'
    <2> SUFFICES ASSUME VaultInv, [V!Next]_(V!vars) PROVE VaultInv'  OBVIOUS
    <2>1. ASSUME NEW gas \in GasUse, V!Refund(gas) PROVE VaultInv'
      BY <2>1, RefundKeeps
    <2>2. ASSUME NEW gas \in GasUse, NEW value \in Value, V!Pay(value, gas)
          PROVE  VaultInv'
      BY <2>2, AccumulateKeeps, SplitKeeps DEF V!Pay
    <2>3. CASE UNCHANGED V!vars
      BY <2>3 DEF V!vars, VaultInv, V!TypeOK, V!Accounted, V!RingFenced, V!PaidInFull, Covered
    <2> QED  BY <2>1, <2>2, <2>3 DEF V!Next
  <1> QED  BY <1>1, VaultInit, PTL DEF V!Spec

\* The balance and the running totals of the vault are never negative, and the
\* running total stays below the required amount.
THEOREM VaultTypeCorrect == ASSUME V!VaultAssumption PROVE V!Spec => []V!TypeOK
  BY VaultInvariant, PTL DEF VaultInv

\* Every unit received is waiting, held, or owed to exactly one recipient.
THEOREM VaultAccounted == ASSUME V!VaultAssumption PROVE V!Spec => []Accounted
  BY VaultInvariant, PTL DEF VaultInv, Accounted

\* What is held for the payers is really in the account until the vault is
\* overdrawn.
THEOREM VaultRingFenced == ASSUME V!VaultAssumption PROVE V!Spec => []RingFenced
  BY VaultInvariant, PTL DEF VaultInv, RingFenced

\* No payout of a split or a refund is dropped until the vault is overdrawn.
THEOREM VaultPaysInFull == ASSUME V!VaultAssumption PROVE V!Spec => []PaidInFull
  BY VaultInvariant, PTL DEF VaultInv, PaidInFull
=============================================================================
