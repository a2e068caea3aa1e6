---------------------------- MODULE UsageBudget ----------------------------
(***************************************************************************)
(* The usage-billing repository of one user: the prepaid balance, the      *)
(* reservations that hold part of it (and part of the monthly plan credit) *)
(* while a paid model call runs, the usage ledger and the balance          *)
(* transactions.  Every operation is one database transaction: those that  *)
(* read or change the balance are serialised on the lock of the account    *)
(* row, the others update one reservation row.  Each is one action.        *)
(*                                                                         *)
(* Amounts are small naturals (nano-USD in the code).  A billing month is  *)
(* a number; ttl is the number of clock ticks left until expires_at, kept  *)
(* while the reservation is active (nothing reads it later).  An operation *)
(* the code rejects changes nothing and is not enabled.                    *)
(***************************************************************************)
EXTENDS Integers, Sequences, FiniteSets, Totals

CONSTANTS
  Refs,           \* reference numbers (run ids) a caller may reserve under
  NoRef,          \* the authorization carries no reservation
  MaxActive,      \* UsageReservationMaxActivePerUser
  LeaseTicks,     \* usageReservationTTL, in clock ticks
  Prepaid,        \* values of the prepaid-amount setting; 0: share the budget
  Limits,         \* monthly plan credits an administrator may configure
  Charges,        \* what a call may turn out to cost; 0: free model
  Deposits,       \* top-ups, redemptions and rewards
  AdminBalances,  \* balances an administrator may set
  MaxMonth,       \* bound: months explored
  MaxAdjustments, \* bound: deposits and administrator settings explored
  MaxUnreserved   \* bound: ledger rows without a reservation explored

ASSUME RefsAssumption == IsFiniteSet(Refs) /\ NoRef \notin Refs
ASSUME BoundAssumption ==
  /\ MaxActive \in Nat \ {0} /\ LeaseTicks \in Nat \ {0}
  /\ MaxMonth \in Nat \ {0} /\ MaxAdjustments \in Nat /\ MaxUnreserved \in Nat
ASSUME AmountAssumption ==
  /\ Prepaid \subseteq Nat /\ Limits \subseteq Nat /\ Charges \subseteq Nat
  /\ Deposits \subseteq Nat \ {0} /\ AdminBalances \subseteq Nat

VARIABLES
  month,          \* the current billing month
  balance,        \* billing_accounts.balance_nanousd
  reservation,    \* usage_reservations, by ref_no
  ledger,         \* usage_ledgers, by id
  transactions    \* balance_transactions, by id

vars == <<month, balance, reservation, ledger, transactions>>

Months == 1..MaxMonth
Modes == {"usage", "period"}
Statuses == {"none", "active", "reconciliation", "settled", "released"}

Reservation ==
  [mode : Modes \cup {"none"}, balance : Nat, credit : Nat, limit : Nat,
   period : Months \cup {0}, status : Statuses, ttl : 0..LeaseTicks, ledgerId : Nat]

NoReservation ==
  [mode |-> "none", balance |-> 0, credit |-> 0, limit |-> 0, period |-> 0,
   status |-> "none", ttl |-> 0, ledgerId |-> 0]

\* billed is the chargeable amount (0 for a free model), covered the part paid
\* by plan credit (period_credit_covered_nanousd), limit the plan credit it was
\* settled under, date the month of billing_at, period the month settled.
LedgerRow ==
  [ref : Refs \cup {NoRef}, mode : Modes \cup {"self"}, billed : Nat, covered : Nat,
   limit : Nat, date : Months, period : Months \cup {0}]

\* rowId is the usage ledger id a charge refers to, 0 for other transactions.
Transaction == [amount : Int, after : Int, rowId : Nat]

TypeOK ==
  /\ month \in Months
  /\ balance \in Int
  /\ reservation \in [Refs -> Reservation]
  /\ ledger \in Seq(LedgerRow)
  /\ transactions \in Seq(Transaction)

Init ==
  /\ month = 1
  /\ balance = 0
  /\ reservation = [r \in Refs |-> NoReservation]
  /\ ledger = << >>
  /\ transactions = << >>

-----------------------------------------------------------------------------
Lesser(a, b) == IF a <= b THEN a ELSE b

\* Mutant of Remaining: what other reservations hold is not subtracted.
RemainingUnheld(limit, consumed, reserved) ==
  IF limit > consumed THEN limit - consumed ELSE 0

\* remainingNonNegativeBudget.
Remaining(limit, consumed, reserved) ==
  IF limit > consumed /\ limit - consumed > reserved
  THEN limit - consumed - reserved ELSE 0

\* divideBudgetAcrossSlots: an equal share of the budget, rounded up.
Share(available, slots) == (available + slots - 1) \div slots

\* A reservation that occupies a slot: leased, or kept for reconciliation.
Holding(v) == (v.status = "active" /\ v.ttl > 0) \/ v.status = "reconciliation"

Holders == {r \in Refs : Holding(reservation[r])}

HeldBalance ==
  Total([r \in Refs |-> IF Holding(reservation[r]) THEN reservation[r].balance ELSE 0])

HeldCredit(m, except) ==
  Total([r \in Refs |->
           IF Holding(reservation[r]) /\ reservation[r].period = m /\ r # except
           THEN reservation[r].credit ELSE 0])

\* What the ledger rows dated in month m have billed.
Used(m) ==
  Total([i \in DOMAIN ledger |-> IF ledger[i].date = m THEN ledger[i].billed ELSE 0])

-----------------------------------------------------------------------------
\* ReserveUsageBalance: the mode and the month come from the authorization.
Reserve(r, mode, prepaid, limit) ==
  LET forBalance == Remaining(balance, HeldBalance, 0)
      forCredit == IF mode = "period"
                   THEN Remaining(limit, Used(month), HeldCredit(month, NoRef)) ELSE 0
      available == forBalance + forCredit
      requested == IF prepaid > 0 THEN prepaid
                   ELSE Share(available, MaxActive - Cardinality(Holders))
      credit == Lesser(requested, forCredit)
  IN /\ reservation[r].status = "none"
     /\ Cardinality(Holders) < MaxActive
     /\ balance >= 0
     /\ requested > 0 /\ requested <= available
     /\ reservation' = [reservation EXCEPT ![r] =
          [mode |-> mode, balance |-> requested - credit, credit |-> credit,
           limit |-> IF mode = "period" THEN limit ELSE 0,
           period |-> IF mode = "period" THEN month ELSE 0,
           status |-> "active", ttl |-> LeaseTicks, ledgerId |-> 0]]
     /\ UNCHANGED <<month, balance, ledger, transactions>>

\* Mutant of Release: the status is not checked to be active.
ReleaseUnsettled(r) ==
  /\ reservation[r].status \in {"active", "reconciliation"}
  /\ reservation' = [reservation EXCEPT ![r].status = "released", ![r].ttl = 0]
  /\ UNCHANGED <<month, balance, ledger, transactions>>

\* ReleaseUsageBalanceReservation.
Release(r) ==
  /\ reservation[r].status = "active"
  /\ reservation' = [reservation EXCEPT ![r].status = "released", ![r].ttl = 0]
  /\ UNCHANGED <<month, balance, ledger, transactions>>

\* RenewUsageBalanceReservation.
Renew(r) ==
  /\ reservation[r].status = "active" /\ reservation[r].ttl > 0
  /\ reservation' = [reservation EXCEPT ![r].ttl = LeaseTicks]
  /\ UNCHANGED <<month, balance, ledger, transactions>>

\* MarkUsageReservationReconciliationRequired.
MarkReconciliation(r) ==
  /\ reservation[r].status \in {"active", "reconciliation"}
  /\ reservation' = [reservation EXCEPT ![r].status = "reconciliation", ![r].ttl = 0]
  /\ UNCHANGED <<month, balance, ledger, transactions>>

\* Mutant of Settleable: a reservation already settled is settled again.
SettleableAgain(r) ==
  r \in Refs => reservation[r].status \in {"active", "reconciliation", "settled"}

\* getUsageReservationForSettlement: an unsettled reservation, or none at all.
Settleable(r) ==
  r \in Refs => reservation[r].status \in {"active", "reconciliation"}

Unreserved == {i \in DOMAIN ledger : ledger[i].ref = NoRef}

RowAllowed(r) == r = NoRef => Cardinality(Unreserved) < MaxUnreserved

\* Write the row, take the overage from the balance, close the reservation.
Book(r, row, overage) ==
  /\ ledger' = Append(ledger, row)
  /\ balance' = balance - overage
  /\ transactions' =
       IF overage = 0 THEN transactions
       ELSE Append(transactions, [amount |-> -overage, after |-> balance - overage,
                                  rowId |-> Len(ledger) + 1])
  /\ reservation' =
       [s \in Refs |->
          IF s = r THEN [reservation[s] EXCEPT !.status = "settled", !.ttl = 0,
                                               !.ledgerId = Len(ledger) + 1]
          ELSE reservation[s]]
  /\ UNCHANGED month

\* AddUsageAndSettleBalance.
SettleUsage(r, charge, date) ==
  /\ Settleable(r)
  /\ r \in Refs => reservation[r].mode = "usage"
  /\ Book(r, [ref |-> r, mode |-> "usage", billed |-> charge, covered |-> 0,
              limit |-> 0, date |-> date, period |-> 0], charge)

\* Mutants of SettlePeriod: the usage billed before is not subtracted from the
\* plan credit; the balance pays no more than was reserved of it.
SettlePeriodUnused(r, charge, date, period, limit) ==
  LET covered == Lesser(charge, Remaining(limit, 0, HeldCredit(period, r)))
  IN /\ Settleable(r)
     /\ Book(r, [ref |-> r, mode |-> "period", billed |-> charge, covered |-> covered,
                 limit |-> limit, date |-> date, period |-> period], charge - covered)

SettlePeriodWithinHold(r, charge, date, period, limit) ==
  LET covered == Lesser(charge, Remaining(limit, Used(period), HeldCredit(period, r)))
  IN /\ r \in Refs /\ Settleable(r)
     /\ Book(r, [ref |-> r, mode |-> "period", billed |-> charge, covered |-> covered,
                 limit |-> limit, date |-> date, period |-> period],
             Lesser(charge - covered, reservation[r].balance))

\* AddPeriodUsageAndSettleOverage: the plan credit left after what is billed and
\* what other reservations hold covers the charge first.
SettlePeriod(r, charge, date, period, limit) ==
  LET covered == Lesser(charge, Remaining(limit, Used(period), HeldCredit(period, r)))
  IN /\ Settleable(r)
     /\ r \in Refs => reservation[r].mode = "period"
                      /\ reservation[r].period = period /\ reservation[r].limit = limit
     /\ Book(r, [ref |-> r, mode |-> "period", billed |-> charge, covered |-> covered,
                 limit |-> limit, date |-> date, period |-> period], charge - covered)

\* AddUsage: self-service mode records the usage and charges nobody.
AddUsage(charge, date) ==
  Book(NoRef, [ref |-> NoRef, mode |-> "self", billed |-> charge, covered |-> 0,
               limit |-> 0, date |-> date, period |-> 0], 0)

\* RecordUsageWithAuthorization: a reservation fixes mode, month and plan
\* credit; without one the plan in force at billing_at applies.
RecordUsage(r, charge, date) ==
  \/ /\ r \in Refs => reservation[r].mode = "usage"
     /\ SettleUsage(r, charge, date)
  \/ /\ r \in Refs /\ reservation[r].mode = "period"
     /\ SettlePeriod(r, charge, date, reservation[r].period, reservation[r].limit)
  \/ /\ r = NoRef
     /\ \E limit \in Limits : SettlePeriod(r, charge, date, date, limit)
  \/ /\ r = NoRef
     /\ AddUsage(charge, date)

\* billing_at is when the call started: not before the reservation was taken.
StartMonths(r) ==
  {d \in Months : d <= month /\ (r \in Refs => d >= reservation[r].period)}

-----------------------------------------------------------------------------
Adjustments == {i \in DOMAIN transactions : transactions[i].rowId = 0}

\* Mutant of Adjust: the transaction records the new balance as its amount.
AdjustWithBalance(next) ==
  /\ Cardinality(Adjustments) < MaxAdjustments
  /\ balance' = next
  /\ transactions' = Append(transactions, [amount |-> next, after |-> next, rowId |-> 0])
  /\ UNCHANGED <<month, reservation, ledger>>

Adjust(next) ==
  /\ Cardinality(Adjustments) < MaxAdjustments
  /\ balance' = next
  /\ transactions' = Append(transactions, [amount |-> next - balance, after |-> next,
                                           rowId |-> 0])
  /\ UNCHANGED <<month, reservation, ledger>>

\* Crediting half of MarkPaymentOrderPaidAndCreditBalance, of
\* applyRedemptionBalance and of ApplyInvitationReward.
Deposit(amount) == Adjust(balance + amount)

\* SetBillingAccountBalance; setting the balance it already has changes nothing.
AdminSet(next) == balance # next /\ Adjust(next)

\* A clock tick brings every unexpired lease closer to expires_at.
Tick ==
  /\ \E r \in Refs : reservation[r].ttl > 0
  /\ reservation' =
       [r \in Refs |-> IF reservation[r].ttl > 0
                       THEN [reservation[r] EXCEPT !.ttl = @ - 1] ELSE reservation[r]]
  /\ UNCHANGED <<month, balance, ledger, transactions>>

NextMonth ==
  /\ month < MaxMonth
  /\ month' = month + 1
  /\ UNCHANGED <<balance, reservation, ledger, transactions>>

Next ==
  \/ \E r \in Refs, mode \in Modes, prepaid \in Prepaid, limit \in Limits :
       Reserve(r, mode, prepaid, limit)
  \/ \E r \in Refs : Release(r) \/ Renew(r) \/ MarkReconciliation(r)
  \/ \E r \in Refs \cup {NoRef}, charge \in Charges :
       \E date \in StartMonths(r) : RowAllowed(r) /\ RecordUsage(r, charge, date)
  \/ \E amount \in Deposits : Deposit(amount)
  \/ \E next \in AdminBalances : AdminSet(next)
  \/ Tick
  \/ NextMonth

Spec == Init /\ [][Next]_vars

-----------------------------------------------------------------------------
(* Properties *)

\* A retried or repeated settlement never bills a call twice: a reservation's
\* usage is in at most one ledger row, the one it is settled with, and a
\* reservation is settled only by such a row (repository.go, alreadySettled).
ChargedOnce ==
  /\ \A i \in DOMAIN ledger : ledger[i].ref # NoRef =>
       /\ reservation[ledger[i].ref].status = "settled"
       /\ reservation[ledger[i].ref].ledgerId = i
  /\ \A r \in Refs : reservation[r].status = "settled" =>
       /\ reservation[r].ledgerId \in DOMAIN ledger
       /\ ledger[reservation[r].ledgerId].ref = r

\* The balance transactions explain the balance: each records the balance after
\* it, the difference to the one before is its amount, and the last one is the
\* balance of the account, whatever mix of charges, deposits and settings ran.
BalanceBefore(i) == IF i = 1 THEN 0 ELSE transactions[i - 1].after

AuditTrail ==
  /\ \A i \in DOMAIN transactions :
       transactions[i].after = BalanceBefore(i) + transactions[i].amount
  /\ balance = BalanceBefore(Len(transactions) + 1)

\* What was billed was paid: the part of a row that plan credit did not cover
\* was taken from the balance in exactly one transaction, and nothing else was.
Overage(i) == IF ledger[i].mode = "self" THEN 0 ELSE ledger[i].billed - ledger[i].covered

PaymentsOf(i) == {t \in DOMAIN transactions : transactions[t].rowId = i}

BilledIsPaid ==
  /\ \A i \in DOMAIN ledger :
       IF Overage(i) = 0 THEN PaymentsOf(i) = {}
       ELSE \E t \in DOMAIN transactions :
              PaymentsOf(i) = {t} /\ transactions[t].amount = -Overage(i)
  /\ \A t \in DOMAIN transactions : transactions[t].rowId \in 0..Len(ledger)

\* Concurrent settlements do not spend the same plan credit: whenever a row is
\* covered by credit, the credit given in that month up to and including it is
\* within the plan credit it was settled under (rows started in their month).
CoveredUpTo(i) ==
  Total([j \in 1..i |-> IF ledger[j].date = ledger[i].period
                           /\ ledger[j].period = ledger[i].period
                        THEN ledger[j].covered ELSE 0])

CreditWithinPlan ==
  \A i \in DOMAIN ledger :
    ledger[i].covered > 0 /\ ledger[i].date = ledger[i].period
      => CoveredUpTo(i) <= ledger[i].limit

\* Every month's credit, whenever the calls billed against it started
\* (service.go: one share of the credit is never taken twice).  The code does not
\* keep it: TLC finds a behaviour that violates it.
CreditWithinPlanAcrossMonths ==
  \A i \in DOMAIN ledger : ledger[i].covered > 0 =>
    Total([j \in 1..i |-> IF ledger[j].period = ledger[i].period
                          THEN ledger[j].covered ELSE 0]) <= ledger[i].limit

\* A grant never commits a budget that is already promised: after it at most
\* MaxActive reservations hold a slot, a grant that draws on the balance leaves
\* every balance hold covered, and one that draws on plan credit leaves every
\* credit hold covered by what the month's usage left.
Granted(r) == reservation[r].status = "none" /\ reservation'[r].status = "active"

GrantWithinBudget ==
  [][\A r \in Refs : Granted(r) =>
       /\ Cardinality(Holders') <= MaxActive
       /\ reservation'[r].balance > 0 => HeldBalance' <= balance
       /\ reservation'[r].credit > 0 =>
            Used(month) + HeldCredit(month, NoRef)' <= reservation'[r].limit]_vars

\* Reservations only bound the risk of concurrent calls and do not change what a
\* call is finally charged (repository.go): a settled row is covered by the plan
\* credit that the usage billed before it left.  The code does not keep it.
UsedBefore(i) ==
  Total([j \in 1..(i - 1) |-> IF ledger[j].date = ledger[i].period
                              THEN ledger[j].billed ELSE 0])

ReservationsDoNotChangeCharge ==
  \A i \in DOMAIN ledger : ledger[i].mode = "period" =>
    ledger[i].covered = Lesser(ledger[i].billed, Remaining(ledger[i].limit, UsedBefore(i), 0))

\* The inductive invariant of the proofs.
CoveredWithinBilled == \A i \in DOMAIN ledger : ledger[i].covered <= ledger[i].billed

Invariant ==
  /\ TypeOK /\ ChargedOnce /\ AuditTrail /\ BilledIsPaid
  /\ CoveredWithinBilled /\ CreditWithinPlan

-----------------------------------------------------------------------------
(* What a handler may rely on: the reservations implement a lease pool. *)

Phase(v) ==
  CASE v.status = "none" -> "free"
    [] v.status = "active" -> IF v.ttl > 0 THEN "held" ELSE "lapsed"
    [] v.status = "reconciliation" -> "blocked"
    [] v.status = "released" -> "returned"
    [] v.status = "settled" -> "billed"

Pool == INSTANCE LeasePool WITH
  Leases <- Refs, Slots <- MaxActive,
  phase <- [r \in Refs |-> Phase(reservation[r])],
  bills <- [r \in Refs |-> Cardinality({i \in DOMAIN ledger : ledger[i].ref = r})]

\* At most MaxActive leases are granted at a time, each call is billed at most
\* once, never after its reservation was released, and a reservation kept for
\* reconciliation keeps its slot until it is billed.
ImplementsLeasePool == Pool!Spec
=============================================================================
