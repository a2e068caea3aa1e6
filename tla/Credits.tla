------------------------------ MODULE Credits ------------------------------
(***************************************************************************)
(* What fills an account: payment orders completed by the callbacks of a   *)
(* payment provider, and redemption codes.  Each is one database           *)
(* transaction that takes row locks on its way, and several run at once;   *)
(* the model has one step for every lock and one for the commit, which     *)
(* writes everything the transaction changes.                              *)
(*                                                                         *)
(* A row reads what was committed: no transaction reads a row it changes   *)
(* without the lock.  The clock stamps the request (time.Now() in the      *)
(* handler) before the transaction waits for its locks.  The subscriptions *)
(* that a grant locks and rewrites are part of its commit.                 *)
(***************************************************************************)
EXTENDS Integers, Sequences, FiniteSets, Totals

CONSTANTS
  Users,
  Orders,         \* order numbers
  TopUps,         \* those that buy balance; the others buy a subscription
  Codes,          \* redemption codes
  BalanceCodes,   \* those worth balance; the others are worth a subscription
  Workers,        \* requests the server handles at a time
  NoRow, NoUser,
  Amounts,        \* credits of orders and codes
  OrderTicks,     \* lifetime of an order: 30 minutes
  Terms,          \* expiry times of codes
  Limits,         \* values of max_redemptions (0: unlimited) and per_user_limit
  MaxTime,        \* bound: clock ticks explored
  MaxFaults       \* bound: transactions rolled back

ASSUME RowsAssumption ==
  /\ TopUps \subseteq Orders /\ BalanceCodes \subseteq Codes /\ Orders \cap Codes = {}
  /\ NoRow \notin Orders \cup Codes /\ NoUser \notin Users
ASSUME CreditAssumption ==
  /\ Amounts \subseteq Nat \ {0} /\ OrderTicks \in Nat /\ Terms \subseteq Nat
  /\ Limits \subseteq Nat /\ MaxTime \in Nat /\ MaxFaults \in Nat

VARIABLES
  now,            \* the clock
  order,          \* billing_payment_orders, by order_no
  paid,           \* orders the customer has paid at the provider
  code,           \* billing_redemption_codes
  redemptions,    \* billing_redemptions, by id
  balance,        \* billing_accounts.balance_nanousd, by user
  transactions,   \* balance_transactions, by id
  grants,         \* subscriptions granted, in order
  tx,             \* the request each worker handles
  faults          \* transactions rolled back so far

rows == <<order, code, redemptions, balance, transactions, grants>>
vars == <<now, order, paid, code, redemptions, balance, transactions, grants, tx, faults>>

Times == 0..MaxTime
Rows == Orders \cup Codes

Order ==
  [user : Users \cup {NoUser}, credit : Nat, status : {"none", "pending", "paid", "expired"},
   expires : Nat]
NoOrder == [user |-> NoUser, credit |-> 0, status |-> "none", expires |-> 0]

Code ==
  [status : {"none", "active", "inactive", "deleted"}, credit : Nat, max : Nat,
   perUser : Nat, expires : Nat, redeemed : Nat]
NoCode ==
  [status |-> "none", credit |-> 0, max |-> 0, perUser |-> 0, expires |-> 0,
   redeemed |-> 0]

\* A row is the order or code that is the reason of a transaction or a grant.
Transaction == [user : Users, row : Rows, amount : Nat, after : Nat]
Entry == [user : Users, row : Rows]

\* received: the handler has its time stamp; locked: the order or code is locked
\* and valid; account: the account row is locked too and its balance was read.
Session ==
  [stage : {"idle", "received", "locked", "account"}, row : Rows \cup {NoRow},
   user : Users \cup {NoUser}, at : Times, seen : Nat]
Idle == [stage |-> "idle", row |-> NoRow, user |-> NoUser, at |-> 0, seen |-> 0]

TypeOK ==
  /\ now \in Times
  /\ order \in [Orders -> Order]
  /\ paid \subseteq Orders
  /\ code \in [Codes -> Code]
  /\ redemptions \in Seq(Entry)
  /\ balance \in [Users -> Nat]
  /\ transactions \in Seq(Transaction)
  /\ grants \in Seq(Entry)
  /\ tx \in [Workers -> Session]
  /\ faults \in 0..MaxFaults

Init ==
  /\ now = 0
  /\ order = [o \in Orders |-> NoOrder]
  /\ paid = {}
  /\ code = [c \in Codes |-> NoCode]
  /\ redemptions = << >>
  /\ balance = [u \in Users |-> 0]
  /\ transactions = << >>
  /\ grants = << >>
  /\ tx = [w \in Workers |-> Idle]
  /\ faults = 0

-----------------------------------------------------------------------------
\* Mutant of RowFree: the row is read without FOR UPDATE.
RowRead(row) == row \in Rows

\* SELECT ... FOR UPDATE of an order or a code waits for the transaction that
\* holds the row.
RowFree(row) == \A w \in Workers : tx[w].row = row => tx[w].stage \in {"idle", "received"}

\* Mutant of AccountFree: the account is read without FOR UPDATE.
AccountRead(u) == u \in Users

AccountFree(u) == \A w \in Workers : tx[w].user = u => tx[w].stage # "account"

InBalance(row) == row \in TopUps \cup BalanceCodes

RedeemedBy(u, c) ==
  Cardinality({i \in DOMAIN redemptions : redemptions[i] = [user |-> u, row |-> c]})

\* The order is not paid, and its callback did not come too late.
PayableOrder(o, at) == order[o].status = "pending" /\ order[o].expires >= at

\* validateRedeemableCode.
RedeemableCode(c, u, at) ==
  /\ code[c].status = "active" /\ code[c].expires > at
  /\ code[c].max > 0 => code[c].redeemed < code[c].max
  /\ RedeemedBy(u, c) < code[c].perUser

-----------------------------------------------------------------------------
\* CreatePaymentOrder, CreateTopUpPaymentOrder.
CreateOrder(o, u, credit) ==
  /\ order[o].status = "none"
  /\ order' = [order EXCEPT ![o] =
       [user |-> u, credit |-> IF o \in TopUps THEN credit ELSE 0,
        status |-> "pending", expires |-> now + OrderTicks]]
  /\ UNCHANGED <<now, paid, code, redemptions, balance, transactions, grants, tx, faults>>

\* The customer pays at the provider, whose checkout page knows no deadline.
CustomerPays(o) ==
  /\ order[o].status # "none" /\ o \notin paid
  /\ paid' = paid \cup {o}
  /\ UNCHANGED <<now, rows, tx, faults>>

Receive(w, row, u) ==
  /\ tx[w].stage = "idle"
  /\ tx' = [tx EXCEPT ![w] =
       [stage |-> "received", row |-> row, user |-> u, at |-> now, seen |-> 0]]
  /\ UNCHANGED <<now, rows, paid, faults>>

\* StripeWebhook, EPayNotify: the provider reports the payment, as often as it
\* likes; CompletePaymentOrder ends at once if the order reads as paid.
Callback(w, o) ==
  /\ o \in paid /\ order[o].status # "paid"
  /\ Receive(w, o, order[o].user)

\* RedeemCode.  (The billing mode may change at any time and is not modelled.)
Redeem(w, u, c) == Receive(w, c, u)

Close(w) == tx' = [tx EXCEPT ![w] = Idle]

\* Mutant of LockRow: a refused request is never answered.
LockRowSilently(w) ==
  LET s == tx[w] IN
  /\ s.stage = "received" /\ RowFree(s.row)
  /\ \/ s.row \in Orders /\ PayableOrder(s.row, s.at)
     \/ s.row \in Codes /\ RedeemableCode(s.row, s.user, s.at)
  /\ tx' = [tx EXCEPT ![w].stage = "locked"]
  /\ UNCHANGED <<now, rows, paid, faults>>

\* The first statement of the transaction locks the order or code and checks it;
\* a request refused here is rolled back, whatever it wrote before.
LockRow(w) ==
  LET s == tx[w] IN
  /\ s.stage = "received" /\ RowFree(s.row)
  /\ IF \/ s.row \in Orders /\ PayableOrder(s.row, s.at)
        \/ s.row \in Codes /\ RedeemableCode(s.row, s.user, s.at)
     THEN tx' = [tx EXCEPT ![w].stage = "locked"]
     ELSE Close(w)
  /\ UNCHANGED <<now, rows, paid, faults>>

\* getOrCreateBillingAccountForUpdate.
LockAccount(w) ==
  LET u == tx[w].user IN
  /\ tx[w].stage = "locked" /\ InBalance(tx[w].row) /\ AccountFree(u)
  /\ tx' = [tx EXCEPT ![w].stage = "account", ![w].seen = balance[u]]
  /\ UNCHANGED <<now, rows, paid, faults>>

\* Write the balance and the transaction that explains it.
Credit(u, row, amount, after) ==
  /\ balance' = [balance EXCEPT ![u] = after]
  /\ transactions' = Append(transactions,
       [user |-> u, row |-> row, amount |-> amount, after |-> after])
  /\ UNCHANGED grants

Grant(u, row) ==
  /\ grants' = Append(grants, [user |-> u, row |-> row])
  /\ UNCHANGED <<balance, transactions>>

\* Write the redemption and count it.
BookRedemption(u, c) ==
  /\ redemptions' = Append(redemptions, [user |-> u, row |-> c])
  /\ code' = [code EXCEPT ![c].redeemed = @ + 1]
  /\ UNCHANGED order

MarkPaid(o) ==
  /\ order' = [order EXCEPT ![o].status = "paid"]
  /\ UNCHANGED <<code, redemptions>>

\* MarkPaymentOrderPaidAndCreditBalance: the new balance is the one read.
CommitTopUp(w) ==
  LET o == tx[w].row
      credit == order[o].credit
  IN /\ tx[w].stage = "account" /\ o \in TopUps
     /\ Credit(order[o].user, o, credit, tx[w].seen + credit)
     /\ MarkPaid(o)
     /\ Close(w) /\ UNCHANGED <<now, paid, faults>>

\* applyRedemptionBalance: the database adds the credit to the balance.
CommitBalanceCode(w) ==
  LET c == tx[w].row
      u == tx[w].user
  IN /\ tx[w].stage = "account" /\ c \in BalanceCodes
     /\ Credit(u, c, code[c].credit, balance[u] + code[c].credit)
     /\ BookRedemption(u, c)
     /\ Close(w) /\ UNCHANGED <<now, paid, faults>>

\* MarkPaymentOrderPaidAndGrantSubscription, applyRedemptionSubscription.
CommitGrant(w) ==
  LET row == tx[w].row
      u == tx[w].user
  IN /\ tx[w].stage = "locked" /\ ~ InBalance(row)
     /\ Grant(u, row)
     /\ IF row \in Orders THEN MarkPaid(row) ELSE BookRedemption(u, row)
     /\ Close(w) /\ UNCHANGED <<now, paid, faults>>

\* The transaction is rolled back: a database error, a lock timeout, a server
\* that stops, or a plan or price that is no longer active.
Abort(w) ==
  /\ tx[w].stage # "idle" /\ faults < MaxFaults
  /\ faults' = faults + 1
  /\ Close(w) /\ UNCHANGED <<now, rows, paid>>

-----------------------------------------------------------------------------
\* The limits of a code: at least what was redeemed, one user within all.
LimitsAllowed(max, perUser, redeemed) ==
  /\ perUser > 0
  /\ max > 0 => max >= redeemed /\ perUser <= max

\* CreateRedemptionCodes.
CreateCode(c, credit, max, perUser, expires) ==
  /\ code[c].status = "none" /\ LimitsAllowed(max, perUser, 0) /\ expires > now
  /\ code' = [code EXCEPT ![c] =
       [status |-> "active", credit |-> IF c \in BalanceCodes THEN credit ELSE 0,
        max |-> max, perUser |-> perUser, expires |-> expires, redeemed |-> 0]]
  /\ UNCHANGED <<now, order, paid, redemptions, balance, transactions, grants, tx, faults>>

\* Mutant of PatchCode: the new limit is not compared with what was redeemed.
PatchCodeUnchecked(c, max, perUser, status, expires) ==
  /\ code[c].status \in {"active", "inactive"} /\ RowFree(c)
  /\ LimitsAllowed(max, perUser, 0)
  /\ code' = [code EXCEPT ![c].max = max, ![c].perUser = perUser, ![c].status = status,
                          ![c].expires = expires]
  /\ UNCHANGED <<now, order, paid, redemptions, balance, transactions, grants, tx, faults>>

\* UpdateRedemptionCode, PatchRedemptionCode; a field not patched keeps its value.
PatchCode(c, max, perUser, status, expires) ==
  /\ code[c].status \in {"active", "inactive"} /\ RowFree(c)
  /\ LimitsAllowed(max, perUser, code[c].redeemed)
  /\ code' = [code EXCEPT ![c].max = max, ![c].perUser = perUser, ![c].status = status,
                          ![c].expires = expires]
  /\ UNCHANGED <<now, order, paid, redemptions, balance, transactions, grants, tx, faults>>

\* DeleteRedemptionCode.
DeleteCode(c) ==
  /\ code[c].status \in {"active", "inactive"} /\ RowFree(c)
  /\ code' = [code EXCEPT ![c].status = "deleted"]
  /\ UNCHANGED <<now, order, paid, redemptions, balance, transactions, grants, tx, faults>>

Tick ==
  /\ now < MaxTime /\ now' = now + 1
  /\ UNCHANGED <<rows, paid, tx, faults>>

Commit(w) == CommitTopUp(w) \/ CommitBalanceCode(w) \/ CommitGrant(w)

Advance(w) == LockRow(w) \/ LockAccount(w) \/ Commit(w)

Customer ==
  \/ \E o \in Orders, u \in Users, credit \in Amounts : CreateOrder(o, u, credit)
  \/ \E o \in Orders : CustomerPays(o)

Request ==
  \/ \E w \in Workers, o \in Orders : Callback(w, o)
  \/ \E w \in Workers, u \in Users, c \in Codes : Redeem(w, u, c)

Administrator ==
  \/ \E c \in Codes, credit \in Amounts, max, perUser \in Limits, expires \in Terms :
       CreateCode(c, credit, max, perUser, expires)
  \/ \E c \in Codes, max, perUser \in Limits, status \in {"active", "inactive"} :
       \E expires \in {code[c].expires} \cup {t \in Terms : t > now} :
         PatchCode(c, max, perUser, status, expires)
  \/ \E c \in Codes : DeleteCode(c)

Next ==
  \/ Customer \/ Request \/ Administrator \/ Tick
  \/ \E w \in Workers : Advance(w) \/ Abort(w)

Spec == Init /\ [][Next]_vars

-----------------------------------------------------------------------------
(* Properties *)

PaymentsFor(row) == {i \in DOMAIN transactions : transactions[i].row = row}
GrantsFor(row) == {i \in DOMAIN grants : grants[i].row = row}

\* A payment is credited once, however often and however concurrently its
\* callback is delivered (repository.go, repeated callbacks are idempotent): a
\* paid order has the one transaction or grant it was for, given to its user, an
\* order that is not paid has none, and only what the customer paid is paid.
CreditedOnce ==
  \A o \in Orders :
    IF order[o].status # "paid" THEN PaymentsFor(o) = {} /\ GrantsFor(o) = {}
    ELSE /\ o \in paid
         /\ IF o \in TopUps
            THEN /\ GrantsFor(o) = {}
                 /\ \E i \in DOMAIN transactions :
                      /\ PaymentsFor(o) = {i}
                      /\ transactions[i].user = order[o].user
                      /\ transactions[i].amount = order[o].credit
            ELSE /\ PaymentsFor(o) = {}
                 /\ \E i \in DOMAIN grants :
                      GrantsFor(o) = {i} /\ grants[i].user = order[o].user

\* No credit is lost when several transactions change one account: the balance
\* is the sum of the amounts, and each transaction recorded the sum so far.
SumUpTo(u, n) ==
  Total([i \in 1..n |-> IF transactions[i].user = u THEN transactions[i].amount ELSE 0])

BalanceExplained ==
  /\ \A u \in Users : balance[u] = SumUpTo(u, Len(transactions))
  /\ \A i \in DOMAIN transactions : transactions[i].after = SumUpTo(transactions[i].user, i)

\* Requests that race for the last use of a code, and administrators who change
\* its limit meanwhile, leave it within its limit; the count of its uses is the
\* number of its redemptions, and each of them gave its reward.
RedemptionsOf(c) == {i \in DOMAIN redemptions : redemptions[i].row = c}

RedemptionsWithinLimits ==
  \A c \in Codes :
    /\ code[c].redeemed = Cardinality(RedemptionsOf(c))
    /\ code[c].max > 0 => code[c].redeemed <= code[c].max
    /\ Cardinality(PaymentsFor(c)) = IF c \in BalanceCodes THEN code[c].redeemed ELSE 0
    /\ Cardinality(GrantsFor(c)) = IF c \in BalanceCodes THEN 0 ELSE code[c].redeemed

\* A user who redeems a code several times at once never exceeds the limit per
\* user that is in force when the redemption commits.
WithinUserLimit ==
  [][\A u \in Users, c \in Codes :
       RedeemedBy(u, c)' > RedeemedBy(u, c) => RedeemedBy(u, c)' <= code[c].perUser]_vars

\* A callback that comes too late leaves its order expired (types.go:83).
\* The code does not keep it: TLC finds a behaviour that violates it.
ExpiredIsRecorded ==
  [][\A w \in Workers, o \in Orders :
       LockRow(w) /\ tx[w].row = o /\ order[o].status = "pending" /\ order[o].expires < tx[w].at
         => order'[o].status = "expired"]_vars

\* The inductive invariant of the proofs: locks are exclusive, and what a request
\* found under its locks still holds when it commits.
HoldsRow(s) == s.stage \in {"locked", "account"}

LocksExclusive ==
  \A v, w \in Workers : v # w =>
    /\ (HoldsRow(tx[v]) /\ HoldsRow(tx[w])) => tx[v].row # tx[w].row
    /\ (tx[v].stage = "account" /\ tx[w].stage = "account") => tx[v].user # tx[w].user

SessionSound(s) ==
  /\ s.stage # "idle" => s.row \in Rows /\ s.user \in Users
  /\ s.stage # "idle" /\ s.row \in Orders =>
       /\ s.row \in paid /\ order[s.row].status # "none"
       /\ order[s.row].user = s.user
  /\ HoldsRow(s) /\ s.row \in Orders => order[s.row].status = "pending"
  /\ HoldsRow(s) /\ s.row \in Codes => code[s.row].status # "none"
  /\ HoldsRow(s) /\ s.row \in Codes =>
       code[s.row].max = 0 \/ code[s.row].redeemed < code[s.row].max
  /\ s.stage = "account" => InBalance(s.row) /\ s.seen = balance[s.user]

SessionsSound == \A w \in Workers : SessionSound(tx[w])

\* An order has its user from the start and is paid after it was created; a code
\* is redeemed after it was created.
RowsSound ==
  /\ \A o \in Orders : order[o].status # "none" => order[o].user \in Users
  /\ \A o \in paid : order[o].status # "none"
  /\ \A c \in Codes : code[c].status = "none" => code[c].redeemed = 0

Invariant ==
  /\ TypeOK /\ LocksExclusive /\ SessionsSound /\ RowsSound
  /\ CreditedOnce /\ BalanceExplained /\ RedemptionsWithinLimits

\* The user of a request that has locked a code may redeem it once more.
UserLimitHeld(s) ==
  HoldsRow(s) /\ s.row \in Codes => RedeemedBy(s.user, s.row) < code[s.row].perUser

UserLimitsHeld == \A w \in Workers : UserLimitHeld(tx[w])

\* Every statement runs to its end, and the provider repeats a callback that was
\* not acknowledged.
FairSpec ==
  /\ Spec
  /\ \A w \in Workers : WF_vars(Advance(w))
  /\ \A o \in Orders : SF_vars(\E w \in Workers : Callback(w, o))

\* No request waits for ever for the locks of others.
RequestsEnd == \A w \in Workers : tx[w].stage # "idle" ~> tx[w].stage = "idle"

\* A customer who paid gets what was bought, unless the order expires first.
PaidIsSettled ==
  \A o \in Orders :
    o \in paid ~> order[o].status = "paid" \/ now > order[o].expires

\* Requests come to an end, those of the payment provider with the order settled.
Progress == RequestsEnd /\ PaidIsSettled
=============================================================================
