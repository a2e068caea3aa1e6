--------------------------- MODULE CreditsProofs ---------------------------
(***************************************************************************)
(* Proofs about Credits, for every set of users, orders, codes and         *)
(* workers, and for every amount and limit.                                *)
(***************************************************************************)
EXTENDS Credits, TotalsProofs, SequenceTheorems

\* What is credited for a row: the credit of the order or of the code.
Worth(row) == IF row \in Orders THEN order[row].credit ELSE code[row].credit

\* A commit by worker w, for the request it handles.
Effect(w, s) ==
  /\ HoldsRow(s) /\ s.row \in Rows /\ s.user \in Users
  /\ tx' = [tx EXCEPT ![w] = Idle]
  /\ now' = now /\ paid' = paid /\ faults' = faults
  /\ IF InBalance(s.row)
     THEN /\ s.stage = "account" /\ Worth(s.row) \in Nat
          /\ Credit(s.user, s.row, Worth(s.row), balance[s.user] + Worth(s.row))
     ELSE Grant(s.user, s.row)
  /\ s.row \in Orders => MarkPaid(s.row)
  /\ s.row \in Codes => BookRedemption(s.user, s.row)

\* A commit writes what its request found, on top of the balance as it is now.
LEMMA CommitEffect ==
  ASSUME TypeOK, SessionsSound, NEW w \in Workers, Commit(w)
  PROVE  Effect(w, tx[w])
<1> DEFINE s == tx[w]
<1>1. s \in Session /\ SessionSound(s)
  BY DEF TypeOK, SessionsSound
<1>2. s.stage # "idle" /\ HoldsRow(s)
  BY DEF Commit, CommitTopUp, CommitBalanceCode, CommitGrant, HoldsRow
<1>3. s.row \in Rows /\ s.user \in Users
  BY <1>1, <1>2 DEF SessionSound
<1>4. /\ s.row \in Orders => order[s.row] \in Order
      /\ s.row \in Codes => code[s.row] \in Code
      /\ balance[s.user] \in Nat
  BY <1>3 DEF TypeOK
<1>5. /\ s.row \in Orders => s.row \notin Codes
      /\ s.row \in TopUps => s.row \in Orders
      /\ s.row \in BalanceCodes => s.row \in Codes
  BY RowsAssumption
<1>6. CASE CommitTopUp(w)
  <2>1. s.row \in TopUps /\ s.stage = "account"
    BY <1>6 DEF CommitTopUp
  <2>2. s.seen = balance[s.user] /\ order[s.row].user = s.user
    BY <1>1, <1>2, <1>5, <2>1 DEF SessionSound
  <2>3. Worth(s.row) = order[s.row].credit /\ Worth(s.row) \in Nat
    BY <1>4, <1>5, <2>1 DEF Worth, Order
  <2>4. /\ Credit(s.user, s.row, Worth(s.row), balance[s.user] + Worth(s.row))
        /\ MarkPaid(s.row) /\ Close(w) /\ UNCHANGED <<now, paid, faults>>
    BY <1>6, <2>2, <2>3 DEF CommitTopUp
  <2> QED BY <1>2, <1>3, <1>5, <2>1, <2>3, <2>4 DEF Effect, InBalance, Close
<1>7. CASE CommitBalanceCode(w)
  <2>1. s.row \in BalanceCodes /\ s.stage = "account"
    BY <1>7 DEF CommitBalanceCode
  <2>2. Worth(s.row) = code[s.row].credit /\ Worth(s.row) \in Nat
    BY <1>4, <1>5, <2>1 DEF Worth, Code
  <2>3. /\ Credit(s.user, s.row, Worth(s.row), balance[s.user] + Worth(s.row))
        /\ BookRedemption(s.user, s.row) /\ Close(w) /\ UNCHANGED <<now, paid, faults>>
    BY <1>7, <2>2 DEF CommitBalanceCode
  <2> QED BY <1>2, <1>3, <1>5, <2>1, <2>2, <2>3 DEF Effect, InBalance, Close
<1>8. CASE CommitGrant(w)
  <2>1. /\ ~ InBalance(s.row) /\ Grant(s.user, s.row)
        /\ IF s.row \in Orders THEN MarkPaid(s.row) ELSE BookRedemption(s.user, s.row)
        /\ Close(w) /\ UNCHANGED <<now, paid, faults>>
    BY <1>8 DEF CommitGrant
  <2> QED BY <1>2, <1>3, <1>5, <2>1 DEF Effect, Close
<1> QED BY <1>6, <1>7, <1>8 DEF Commit

-----------------------------------------------------------------------------
(* Type correctness *)

LEMMA IdleType == Idle \in Session
BY CreditAssumption DEF Idle, Session, Times

LEMMA CloseType ==
  ASSUME TypeOK, NEW w \in Workers, tx' = [tx EXCEPT ![w] = Idle]
  PROVE  tx' \in [Workers -> Session]
BY IdleType DEF TypeOK

LEMMA EffectType ==
  ASSUME TypeOK, NEW w \in Workers, NEW s, Effect(w, s)
  PROVE  TypeOK'
<1>1. tx' \in [Workers -> Session]
  BY CloseType DEF Effect
<1>2. now' \in Times /\ paid' \subseteq Orders /\ faults' \in 0..MaxFaults
  BY DEF Effect, TypeOK
<1>3. s.row \in Rows /\ s.user \in Users /\ balance[s.user] \in Nat
  BY DEF Effect, TypeOK
<1>4. [user |-> s.user, row |-> s.row] \in Entry
  BY <1>3 DEF Entry
<1>5. balance' \in [Users -> Nat] /\ transactions' \in Seq(Transaction) /\ grants' \in Seq(Entry)
  <2>1. CASE InBalance(s.row)
    <3> DEFINE after == balance[s.user] + Worth(s.row)
               txn == [user |-> s.user, row |-> s.row, amount |-> Worth(s.row), after |-> after]
    <3>1. Worth(s.row) \in Nat /\ Credit(s.user, s.row, Worth(s.row), after)
      BY <2>1 DEF Effect
    <3>2. after \in Nat
      BY <1>3, <3>1
    <3>3. txn \in Transaction
      BY <1>3, <3>1, <3>2 DEF Transaction
    <3> HIDE DEF after
    <3>4. balance' = [balance EXCEPT ![s.user] = after] /\ transactions' = Append(transactions, txn)
          /\ grants' = grants
      BY <3>1 DEF Credit
    <3> HIDE DEF txn
    <3>5. transactions' \in Seq(Transaction) /\ grants' \in Seq(Entry)
      BY <3>3, <3>4 DEF TypeOK
    <3>6. balance' \in [Users -> Nat]
      BY <3>2, <3>4 DEF TypeOK
    <3> QED BY <3>5, <3>6
  <2>2. CASE ~ InBalance(s.row)
    <3>1. Grant(s.user, s.row)
      BY <2>2 DEF Effect
    <3> QED BY <1>4, <3>1 DEF Grant, TypeOK
  <2> QED BY <2>1, <2>2
<1>6. order' \in [Orders -> Order] /\ code' \in [Codes -> Code] /\ redemptions' \in Seq(Entry)
  <2>1. CASE s.row \in Orders
    <3>1. MarkPaid(s.row)
      BY <2>1 DEF Effect
    <3>2. order' \in [Orders -> Order]
      BY <2>1, <3>1 DEF MarkPaid, TypeOK, Order
    <3> QED BY <3>1, <3>2 DEF MarkPaid, TypeOK
  <2>2. CASE s.row \in Codes
    <3>1. BookRedemption(s.user, s.row)
      BY <2>2 DEF Effect
    <3>2. code' \in [Codes -> Code]
      <4>1. code[s.row] \in Code
        BY <2>2 DEF TypeOK
      <4>2. [code[s.row] EXCEPT !.redeemed = @ + 1] \in Code
        BY <4>1 DEF Code
      <4> QED BY <3>1, <4>2 DEF BookRedemption, TypeOK
    <3>3. redemptions' \in Seq(Entry)
      BY <1>4, <3>1 DEF BookRedemption, TypeOK
    <3> QED BY <3>1, <3>2, <3>3 DEF BookRedemption, TypeOK
  <2> QED BY <1>3, <2>1, <2>2 DEF Rows
<1> QED BY <1>1, <1>2, <1>5, <1>6 DEF TypeOK

LEMMA TypeStep ==
  ASSUME TypeOK, SessionsSound, [Next]_vars
  PROVE  TypeOK'
<1>1. ASSUME NEW o \in Orders, NEW u \in Users, NEW credit \in Amounts,
             CreateOrder(o, u, credit)
      PROVE  TypeOK'
  <2> DEFINE new == [user |-> u, credit |-> IF o \in TopUps THEN credit ELSE 0,
                     status |-> "pending", expires |-> now + OrderTicks]
  <2>1. new \in Order
    <3>1. credit \in Nat /\ now + OrderTicks \in Nat
      BY CreditAssumption DEF TypeOK, Times
    <3> QED BY <3>1 DEF Order
  <2>2. order' = [order EXCEPT ![o] = new]
    BY <1>1 DEF CreateOrder
  <2> HIDE DEF new
  <2>3. order' \in [Orders -> Order]
    BY <2>1, <2>2 DEF TypeOK
  <2> QED BY <1>1, <2>3 DEF CreateOrder, TypeOK
<1>2. ASSUME NEW o \in Orders, CustomerPays(o) PROVE TypeOK'
  BY <1>2 DEF CustomerPays, rows, TypeOK
<1>3. ASSUME NEW w \in Workers, NEW row \in Rows, NEW u \in Users \cup {NoUser},
             Receive(w, row, u)
      PROVE  TypeOK'
  <2> DEFINE new == [stage |-> "received", row |-> row, user |-> u, at |-> now, seen |-> 0]
  <2>1. new \in Session
    BY DEF Session, TypeOK
  <2>2. tx' = [tx EXCEPT ![w] = new]
    BY <1>3 DEF Receive
  <2> HIDE DEF new
  <2>3. tx' \in [Workers -> Session]
    BY <2>1, <2>2 DEF TypeOK
  <2> QED BY <1>3, <2>3 DEF Receive, rows, TypeOK
<1>4. ASSUME NEW w \in Workers, LockRow(w) PROVE TypeOK'
  <2>1. tx' \in [Workers -> Session]
    <3>1. CASE tx' = [tx EXCEPT ![w].stage = "locked"]
      BY <3>1 DEF TypeOK, Session
    <3>2. CASE Close(w)
      BY <3>2, CloseType DEF Close
    <3> QED BY <1>4, <3>1, <3>2 DEF LockRow
  <2> QED BY <1>4, <2>1 DEF LockRow, rows, TypeOK
<1>5. ASSUME NEW w \in Workers, LockAccount(w) PROVE TypeOK'
  <2>1. tx[w].user \in Users
    BY <1>5 DEF LockAccount, SessionsSound, SessionSound
  <2>2. balance[tx[w].user] \in Nat
    BY <2>1 DEF TypeOK
  <2>3. tx' \in [Workers -> Session]
    BY <1>5, <2>2, ZenonT(60) DEF LockAccount, TypeOK, Session
  <2> QED BY <1>5, <2>3 DEF LockAccount, rows, TypeOK
<1>6. ASSUME NEW w \in Workers, Commit(w) PROVE TypeOK'
  BY <1>6, CommitEffect, EffectType
<1>7. ASSUME NEW w \in Workers, Abort(w) PROVE TypeOK'
  <2>1. tx' \in [Workers -> Session]
    BY <1>7, CloseType DEF Abort, Close
  <2>2. faults' \in 0..MaxFaults
    BY <1>7, CreditAssumption DEF Abort, TypeOK
  <2> QED BY <1>7, <2>1, <2>2 DEF Abort, rows, TypeOK
<1>8. ASSUME NEW c \in Codes, NEW credit \in Amounts, NEW max \in Limits,
             NEW perUser \in Limits, NEW expires \in Terms,
             CreateCode(c, credit, max, perUser, expires)
      PROVE  TypeOK'
  <2> DEFINE new == [status |-> "active", credit |-> IF c \in BalanceCodes THEN credit ELSE 0,
                     max |-> max, perUser |-> perUser, expires |-> expires, redeemed |-> 0]
  <2>1. new \in Code
    <3>1. credit \in Nat /\ max \in Nat /\ perUser \in Nat /\ expires \in Nat
      BY CreditAssumption
    <3> QED BY <3>1 DEF Code
  <2>2. code' = [code EXCEPT ![c] = new]
    BY <1>8 DEF CreateCode
  <2> HIDE DEF new
  <2>3. code' \in [Codes -> Code]
    BY <2>1, <2>2 DEF TypeOK
  <2> QED BY <1>8, <2>3 DEF CreateCode, TypeOK
<1>9. ASSUME NEW c \in Codes, NEW max \in Limits, NEW perUser \in Limits,
             NEW status \in {"active", "inactive"},
             NEW expires \in {code[c].expires} \cup {t \in Terms : t > now},
             PatchCode(c, max, perUser, status, expires)
      PROVE  TypeOK'
  <2>1. max \in Nat /\ perUser \in Nat /\ expires \in Nat
    BY CreditAssumption DEF TypeOK, Code
  <2>2. [code[c] EXCEPT !.max = max, !.perUser = perUser, !.status = status,
                        !.expires = expires] \in Code
    BY <2>1 DEF TypeOK, Code
  <2>3. code' \in [Codes -> Code]
    BY <1>9, <2>2 DEF PatchCode, TypeOK
  <2> QED BY <1>9, <2>3 DEF PatchCode, TypeOK
<1>10. ASSUME NEW c \in Codes, DeleteCode(c) PROVE TypeOK'
  <2>1. [code[c] EXCEPT !.status = "deleted"] \in Code
    BY DEF TypeOK, Code
  <2>2. code' \in [Codes -> Code]
    BY <1>10, <2>1 DEF DeleteCode, TypeOK
  <2> QED BY <1>10, <2>2 DEF DeleteCode, TypeOK
<1>11. CASE Tick
  BY <1>11, CreditAssumption DEF Tick, rows, TypeOK, Times
<1>12. CASE UNCHANGED vars
  BY <1>12 DEF vars, TypeOK
<1>13. ASSUME NEW w \in Workers, NEW o \in Orders, Callback(w, o) PROVE TypeOK'
  <2>1. order[o].user \in Users \cup {NoUser}
    BY DEF TypeOK, Order
  <2> QED BY <1>3, <1>13, <2>1 DEF Callback, Rows
<1>14. ASSUME NEW w \in Workers, NEW u \in Users, NEW c \in Codes, Redeem(w, u, c)
       PROVE  TypeOK'
  BY <1>3, <1>14 DEF Redeem, Rows
<1>15. CASE Customer
  BY <1>1, <1>2, <1>15 DEF Customer
<1>16. CASE Request
  BY <1>13, <1>14, <1>16 DEF Request
<1>17. CASE Administrator
  <2>1. CASE \E c \in Codes, max, perUser \in Limits, status \in {"active", "inactive"} :
               \E expires \in {code[c].expires} \cup {t \in Terms : t > now} :
                 PatchCode(c, max, perUser, status, expires)
    BY <1>9, <2>1
  <2> QED BY <1>8, <1>10, <1>17, <2>1 DEF Administrator
<1>18. CASE \E w \in Workers : Advance(w) \/ Abort(w)
  BY <1>4, <1>5, <1>6, <1>7, <1>18 DEF Advance
<1> QED BY <1>11, <1>12, <1>15, <1>16, <1>17, <1>18 DEF Next

-----------------------------------------------------------------------------
(* The steps, as the remaining proofs tell them apart *)

\* An administrator changes code c, which no request has locked.
CodeChange(c) ==
  /\ UNCHANGED <<now, order, paid, redemptions, balance, transactions, grants, tx, faults>>
  /\ code[c].status = "none" \/ RowFree(c)
  /\ \E new \in Code :
       /\ code' = [code EXCEPT ![c] = new]
       /\ new.status # "none" /\ new.redeemed = code[c].redeemed
       /\ new.max > 0 => new.redeemed <= new.max

LEMMA CodeChanges ==
  ASSUME Invariant, Administrator
  PROVE  \E c \in Codes : CodeChange(c)
<1>0. TypeOK /\ RowsSound /\ RedemptionsWithinLimits
  BY DEF Invariant
<1>1. ASSUME NEW c \in Codes, NEW credit \in Amounts, NEW max \in Limits,
             NEW perUser \in Limits, NEW expires \in Terms,
             CreateCode(c, credit, max, perUser, expires)
      PROVE  CodeChange(c)
  <2> DEFINE new == [status |-> "active", credit |-> IF c \in BalanceCodes THEN credit ELSE 0,
                     max |-> max, perUser |-> perUser, expires |-> expires, redeemed |-> 0]
  <2>1. credit \in Nat /\ max \in Nat /\ perUser \in Nat /\ expires \in Nat
    BY CreditAssumption
  <2>2. /\ new \in Code /\ new.status # "none" /\ new.redeemed = 0
        /\ new.max > 0 => new.redeemed <= new.max
    BY <2>1 DEF Code
  <2>3. code' = [code EXCEPT ![c] = new] /\ code[c].status = "none"
        /\ UNCHANGED <<now, order, paid, redemptions, balance, transactions, grants, tx, faults>>
    BY <1>1 DEF CreateCode
  <2>4. code[c].redeemed = 0
    BY <1>0, <2>3 DEF RowsSound
  <2> HIDE DEF new
  <2> QED BY <2>2, <2>3, <2>4 DEF CodeChange
<1>2. ASSUME NEW c \in Codes, NEW max \in Limits, NEW perUser \in Limits,
             NEW status \in {"active", "inactive"},
             NEW expires \in {code[c].expires} \cup {t \in Terms : t > now},
             PatchCode(c, max, perUser, status, expires)
      PROVE  CodeChange(c)
  <2> DEFINE new == [code[c] EXCEPT !.max = max, !.perUser = perUser, !.status = status,
                                    !.expires = expires]
  <2>1. max \in Nat /\ perUser \in Nat /\ expires \in Nat /\ code[c] \in Code
    BY <1>0, CreditAssumption DEF TypeOK, Code
  <2>2. new \in Code /\ new.status # "none" /\ new.redeemed = code[c].redeemed /\ new.max = max
    BY <2>1 DEF Code
  <2>3. max > 0 => code[c].redeemed <= max
    BY <1>2 DEF PatchCode, LimitsAllowed
  <2>4. code' = [code EXCEPT ![c] = new] /\ RowFree(c)
        /\ UNCHANGED <<now, order, paid, redemptions, balance, transactions, grants, tx, faults>>
    BY <1>0, <1>2 DEF PatchCode, TypeOK
  <2> HIDE DEF new
  <2> QED BY <2>2, <2>3, <2>4 DEF CodeChange
<1>3. ASSUME NEW c \in Codes, DeleteCode(c) PROVE CodeChange(c)
  <2> DEFINE new == [code[c] EXCEPT !.status = "deleted"]
  <2>1. code[c] \in Code
    BY <1>0 DEF TypeOK
  <2>2. /\ new \in Code /\ new.status # "none" /\ new.redeemed = code[c].redeemed
        /\ new.max = code[c].max
    BY <2>1 DEF Code
  <2>3. code[c].max > 0 => code[c].redeemed <= code[c].max
    BY <1>0 DEF RedemptionsWithinLimits
  <2>4. code' = [code EXCEPT ![c] = new] /\ RowFree(c)
        /\ UNCHANGED <<now, order, paid, redemptions, balance, transactions, grants, tx, faults>>
    BY <1>0, <1>3 DEF DeleteCode, TypeOK
  <2> HIDE DEF new
  <2> QED BY <2>2, <2>3, <2>4 DEF CodeChange
<1>4. CASE \E c \in Codes, max, perUser \in Limits, status \in {"active", "inactive"} :
             \E expires \in {code[c].expires} \cup {t \in Terms : t > now} :
               PatchCode(c, max, perUser, status, expires)
  BY <1>2, <1>4
<1> QED BY <1>1, <1>3, <1>4 DEF Administrator

\* A step that writes no row: of the customer at the provider, of a request that
\* is received, takes a lock or ends without a commit, or of the clock.
Reading ==
  \/ \E o \in Orders : CustomerPays(o)
  \/ Request
  \/ \E w \in Workers : LockRow(w) \/ LockAccount(w) \/ Abort(w)
  \/ Tick
  \/ UNCHANGED vars

LEMMA ReadingWritesNothing ==
  ASSUME Reading
  PROVE  UNCHANGED rows /\ paid \subseteq paid'
<1>1. CASE \E o \in Orders : CustomerPays(o)
  BY <1>1 DEF CustomerPays
<1>2. CASE Request
  BY <1>2 DEF Request, Callback, Redeem, Receive
<1>3. CASE \E w \in Workers : LockRow(w) \/ LockAccount(w) \/ Abort(w)
  BY <1>3 DEF LockRow, LockAccount, Abort
<1>4. CASE Tick
  BY <1>4 DEF Tick
<1>5. CASE UNCHANGED vars
  BY <1>5 DEF vars, rows
<1> QED BY <1>1, <1>2, <1>3, <1>4, <1>5 DEF Reading

LEMMA StepCases ==
  ASSUME Invariant, [Next]_vars
  PROVE  \/ Reading
         \/ \E o \in Orders, u \in Users, credit \in Amounts : CreateOrder(o, u, credit)
         \/ \E w \in Workers : Effect(w, tx[w])
         \/ \E c \in Codes : CodeChange(c)
<1>1. CASE \E w \in Workers : Advance(w) \/ Abort(w)
  <2> PICK w \in Workers : Advance(w) \/ Abort(w)
    BY <1>1
  <2>1. CASE Commit(w)
    BY <2>1, CommitEffect DEF Invariant
  <2> QED BY <2>1 DEF Advance, Reading
<1>2. CASE Customer
  BY <1>2 DEF Customer, Reading
<1>3. CASE Administrator
  BY <1>3, CodeChanges
<1> QED BY <1>1, <1>2, <1>3 DEF Next, Reading

-----------------------------------------------------------------------------
(* Locks and requests *)

\* A request without locks in the place of another takes no lock.
LEMMA LocksReleased ==
  ASSUME TypeOK, LocksExclusive, NEW w \in Workers, NEW s, ~ HoldsRow(s),
         tx' = [tx EXCEPT ![w] = s]
  PROVE  LocksExclusive'
<1>1. \A v \in Workers : tx'[v] = IF v = w THEN s ELSE tx[v]
  BY DEF TypeOK
<1> QED BY <1>1 DEF LocksExclusive, HoldsRow

LEMMA LocksStep ==
  ASSUME Invariant, [Next]_vars
  PROVE  LocksExclusive'
<1>0. TypeOK /\ LocksExclusive
  BY DEF Invariant
<1>1. ASSUME UNCHANGED tx PROVE LocksExclusive'
  BY <1>0, <1>1 DEF LocksExclusive, HoldsRow
<1>2. ASSUME NEW w \in Workers, NEW row, NEW u, Receive(w, row, u) PROVE LocksExclusive'
  <2> DEFINE s == [stage |-> "received", row |-> row, user |-> u, at |-> now, seen |-> 0]
  <2>1. ~ HoldsRow(s) /\ tx' = [tx EXCEPT ![w] = s]
    BY <1>2 DEF Receive, HoldsRow
  <2> HIDE DEF s
  <2> QED BY <1>0, <2>1, LocksReleased
<1>3. ASSUME NEW w \in Workers, tx' = [tx EXCEPT ![w] = Idle] PROVE LocksExclusive'
  BY <1>0, <1>3, LocksReleased DEF Idle, HoldsRow
<1>4. ASSUME NEW w \in Workers, LockRow(w) PROVE LocksExclusive'
  <2>1. CASE tx' = [tx EXCEPT ![w].stage = "locked"]
    <3>1. \A v \in Workers : tx[v] \in Session
      BY <1>0 DEF TypeOK
    <3>2. \A v \in Workers : v # w => tx'[v] = tx[v]
      BY <1>0, <2>1 DEF TypeOK
    <3>3. tx'[w].row = tx[w].row /\ tx'[w].stage = "locked"
      BY <1>0, <2>1, <3>1 DEF TypeOK, Session
    <3>4. \A v \in Workers : HoldsRow(tx[v]) => tx[v].row # tx[w].row
      BY <1>4 DEF LockRow, RowFree, HoldsRow
    <3> QED BY <1>0, <3>2, <3>3, <3>4 DEF LocksExclusive, HoldsRow
  <2>2. CASE Close(w)
    BY <1>3, <2>2 DEF Close
  <2> QED BY <1>4, <2>1, <2>2 DEF LockRow
<1>5. ASSUME NEW w \in Workers, LockAccount(w) PROVE LocksExclusive'
  <2>1. \A v \in Workers : tx[v] \in Session
    BY <1>0 DEF TypeOK
  <2>2. \A v \in Workers : v # w => tx'[v] = tx[v]
    BY <1>0, <1>5 DEF LockAccount, TypeOK
  <2>3. /\ tx[w].stage = "locked" /\ tx'[w].stage = "account"
        /\ tx'[w].row = tx[w].row /\ tx'[w].user = tx[w].user
    BY <1>0, <1>5, <2>1 DEF LockAccount, TypeOK, Session
  <2>4. \A v \in Workers : tx[v].stage = "account" => tx[v].user # tx[w].user
    BY <1>5 DEF LockAccount, AccountFree
  <2> QED BY <1>0, <2>2, <2>3, <2>4 DEF LocksExclusive, HoldsRow
<1>6. CASE Reading
  <2>1. CASE Request
    BY <1>2, <2>1 DEF Request, Callback, Redeem
  <2>2. CASE \E w \in Workers : LockRow(w) \/ LockAccount(w) \/ Abort(w)
    BY <1>3, <1>4, <1>5, <2>2 DEF Abort, Close
  <2> QED BY <1>1, <1>6, <2>1, <2>2 DEF Reading, CustomerPays, Tick, vars
<1>7. CASE \E o \in Orders, u \in Users, credit \in Amounts : CreateOrder(o, u, credit)
  BY <1>1, <1>7 DEF CreateOrder
<1>8. CASE \E w \in Workers : Effect(w, tx[w])
  BY <1>3, <1>8 DEF Effect
<1>9. CASE \E c \in Codes : CodeChange(c)
  BY <1>1, <1>9 DEF CodeChange
<1> QED BY <1>6, <1>7, <1>8, <1>9, StepCases

LEMMA RowsStep ==
  ASSUME Invariant, [Next]_vars
  PROVE  RowsSound'
<1>0. TypeOK /\ RowsSound /\ SessionsSound
  BY DEF Invariant
<1>1. CASE Reading
  <2>1. order' = order /\ code' = code
    BY <1>1, ReadingWritesNothing DEF rows
  <2>2. \A o \in paid' : order[o].status # "none"
    <3>1. CASE \E o \in Orders : CustomerPays(o)
      BY <1>0, <3>1 DEF CustomerPays, RowsSound
    <3>2. CASE Request
      BY <1>0, <3>2 DEF Request, Callback, Redeem, Receive, RowsSound
    <3>3. CASE \E w \in Workers : LockRow(w) \/ LockAccount(w) \/ Abort(w)
      BY <1>0, <3>3 DEF LockRow, LockAccount, Abort, RowsSound
    <3>4. CASE Tick \/ UNCHANGED vars
      BY <1>0, <3>4 DEF Tick, vars, RowsSound
    <3> QED BY <1>1, <3>1, <3>2, <3>3, <3>4 DEF Reading
  <2> QED BY <1>0, <2>1, <2>2 DEF RowsSound
<1>2. CASE \E o \in Orders, u \in Users, credit \in Amounts : CreateOrder(o, u, credit)
  BY <1>0, <1>2 DEF CreateOrder, RowsSound, TypeOK
<1>3. ASSUME NEW w \in Workers, Effect(w, tx[w]) PROVE RowsSound'
  <2> DEFINE s == tx[w]
  <2>1. paid' = paid /\ HoldsRow(s) /\ s.row \in Rows /\ SessionSound(s)
    BY <1>0, <1>3 DEF Effect, SessionsSound
  <2>2. CASE s.row \in Orders
    <3>1. MarkPaid(s.row) /\ s.row \in paid /\ order[s.row].status = "pending"
      BY <1>3, <2>1, <2>2 DEF Effect, SessionSound, HoldsRow
    <3>2. \A o \in Orders : /\ order'[o].user = order[o].user
                            /\ order'[o].status = "none" <=> order[o].status = "none"
      BY <1>0, <3>1 DEF MarkPaid, TypeOK, Order
    <3> QED BY <1>0, <2>1, <3>1, <3>2 DEF MarkPaid, RowsSound, TypeOK
  <2>3. CASE s.row \in Codes
    <3>1. BookRedemption(s.user, s.row) /\ code[s.row].status # "none"
      BY <1>3, <2>1, <2>3 DEF Effect, SessionSound
    <3>2. \A c \in Codes : code'[c].status = "none" => code[c].status = "none" /\ c # s.row
      BY <1>0, <3>1 DEF BookRedemption, TypeOK, Code
    <3>3. \A c \in Codes : c # s.row => code'[c] = code[c]
      BY <1>0, <3>1 DEF BookRedemption, TypeOK
    <3> QED BY <1>0, <2>1, <3>1, <3>2, <3>3 DEF BookRedemption, RowsSound
  <2> QED BY <2>1, <2>2, <2>3 DEF Rows
<1>4. ASSUME NEW c \in Codes, CodeChange(c) PROVE RowsSound'
  <2> PICK new \in Code : code' = [code EXCEPT ![c] = new] /\ new.status # "none"
    BY <1>4 DEF CodeChange
  <2>1. \A d \in Codes : code'[d] = IF d = c THEN new ELSE code[d]
    BY <1>0 DEF TypeOK
  <2> QED BY <1>0, <1>4, <2>1 DEF CodeChange, RowsSound
<1> QED BY <1>1, <1>2, <1>3, <1>4, StepCases

\* A request keeps what it found while no row it reads changes.
LEMMA SessionKept ==
  ASSUME NEW v \in Workers, SessionSound(tx[v]), tx'[v] = tx[v],
         UNCHANGED rows, paid \subseteq paid'
  PROVE  SessionSound(tx[v])'
BY DEF SessionSound, HoldsRow, InBalance, rows

\* A request that ends holds nothing.
LEMMA ClosedIsSound ==
  ASSUME NEW w \in Workers, tx'[w] = Idle
  PROVE  SessionSound(tx[w])'
BY DEF SessionSound, HoldsRow, Idle

LEMMA SessionsReading ==
  ASSUME Invariant, Reading
  PROVE  SessionsSound'
<1>0. TypeOK /\ SessionsSound /\ RowsSound /\ UNCHANGED rows /\ paid \subseteq paid'
  BY ReadingWritesNothing DEF Invariant
<1>1. ASSUME UNCHANGED tx PROVE SessionsSound'
  BY <1>0, <1>1, SessionKept DEF SessionsSound
<1>2. ASSUME NEW w \in Workers, SessionSound(tx[w])', \A v \in Workers : v # w => tx'[v] = tx[v]
      PROVE  SessionsSound'
  BY <1>0, <1>2, SessionKept DEF SessionsSound
<1>3. ASSUME NEW w \in Workers, Close(w) PROVE SessionsSound'
  <2>1. tx'[w] = Idle /\ \A v \in Workers : v # w => tx'[v] = tx[v]
    BY <1>0, <1>3 DEF Close, TypeOK
  <2> QED BY <1>2, <2>1, ClosedIsSound
<1>4. ASSUME NEW w \in Workers, NEW row \in Rows, NEW u \in Users, Receive(w, row, u),
             row \in Orders => row \in paid /\ order[row].status # "none" /\ order[row].user = u
      PROVE  SessionsSound'
  <2> DEFINE s == [stage |-> "received", row |-> row, user |-> u, at |-> now, seen |-> 0]
  <2>1. tx'[w] = s /\ \A v \in Workers : v # w => tx'[v] = tx[v]
    BY <1>0, <1>4 DEF Receive, TypeOK
  <2>2. SessionSound(tx[w])'
    BY <1>0, <1>4, <2>1 DEF SessionSound, HoldsRow, rows
  <2> QED BY <1>2, <2>1, <2>2
<1>5. ASSUME NEW w \in Workers, NEW o \in Orders, Callback(w, o) PROVE SessionsSound'
  <2>1. o \in paid /\ order[o].status # "none" /\ order[o].user \in Users
    BY <1>0, <1>5 DEF Callback, RowsSound
  <2> QED BY <1>4, <1>5, <2>1 DEF Callback, Rows
<1>6. ASSUME NEW w \in Workers, NEW u \in Users, NEW c \in Codes, Redeem(w, u, c)
      PROVE  SessionsSound'
  BY <1>4, <1>6, RowsAssumption DEF Redeem, Rows
<1>7. ASSUME NEW w \in Workers, LockRow(w) PROVE SessionsSound'
  <2>1. CASE /\ \/ tx[w].row \in Orders /\ PayableOrder(tx[w].row, tx[w].at)
                \/ tx[w].row \in Codes /\ RedeemableCode(tx[w].row, tx[w].user, tx[w].at)
             /\ tx' = [tx EXCEPT ![w].stage = "locked"]
    <3>1. tx[w] \in Session /\ SessionSound(tx[w]) /\ tx[w].stage = "received"
      BY <1>0, <1>7 DEF LockRow, SessionsSound, TypeOK
    <3>2. /\ tx'[w].stage = "locked" /\ tx'[w].row = tx[w].row /\ tx'[w].user = tx[w].user
          /\ \A v \in Workers : v # w => tx'[v] = tx[v]
      BY <1>0, <2>1, <3>1 DEF TypeOK, Session
    <3>3. tx[w].row \in Orders => order[tx[w].row].status = "pending"
      BY <2>1, RowsAssumption DEF PayableOrder
    <3>4. tx[w].row \in Codes =>
            /\ code[tx[w].row].status # "none"
            /\ code[tx[w].row].max = 0 \/ code[tx[w].row].redeemed < code[tx[w].row].max
      <4> SUFFICES ASSUME tx[w].row \in Codes
                   PROVE  /\ code[tx[w].row].status # "none"
                          /\ \/ code[tx[w].row].max = 0
                             \/ code[tx[w].row].redeemed < code[tx[w].row].max
        OBVIOUS
      <4>1. RedeemableCode(tx[w].row, tx[w].user, tx[w].at)
        BY <2>1, RowsAssumption
      <4>2. code[tx[w].row].max \in Nat
        BY <1>0 DEF TypeOK, Code
      <4> QED BY <4>1, <4>2 DEF RedeemableCode
    <3>5. SessionSound(tx[w])'
      BY <1>0, <3>1, <3>2, <3>3, <3>4 DEF SessionSound, HoldsRow, rows
    <3> QED BY <1>2, <3>2, <3>5
  <2>2. CASE Close(w)
    BY <1>3, <2>2
  <2> QED BY <1>7, <2>1, <2>2 DEF LockRow
<1>8. ASSUME NEW w \in Workers, LockAccount(w) PROVE SessionsSound'
  <2>1. /\ tx[w] \in Session /\ SessionSound(tx[w]) /\ tx[w].stage = "locked"
        /\ InBalance(tx[w].row)
    BY <1>0, <1>8 DEF LockAccount, SessionsSound, TypeOK
  <2>2. /\ tx'[w].stage = "account" /\ tx'[w].row = tx[w].row /\ tx'[w].user = tx[w].user
        /\ tx'[w].seen = balance[tx[w].user]
        /\ \A v \in Workers : v # w => tx'[v] = tx[v]
    BY <1>0, <1>8, <2>1 DEF LockAccount, TypeOK, Session
  <2>3. SessionSound(tx[w])'
    BY <1>0, <2>1, <2>2 DEF SessionSound, HoldsRow, rows, InBalance
  <2> QED BY <1>2, <2>2, <2>3
<1>9. CASE Request
  BY <1>5, <1>6, <1>9 DEF Request
<1>10. CASE \E w \in Workers : LockRow(w) \/ LockAccount(w) \/ Abort(w)
  BY <1>3, <1>7, <1>8, <1>10 DEF Abort
<1> QED BY <1>1, <1>9, <1>10 DEF Reading, CustomerPays, Tick, vars

LEMMA SessionsEffect ==
  ASSUME Invariant, NEW w \in Workers, Effect(w, tx[w])
  PROVE  SessionsSound'
<1> DEFINE s == tx[w]
<1>0. TypeOK /\ SessionsSound /\ LocksExclusive
  BY DEF Invariant
<1>1. tx'[w] = Idle /\ \A v \in Workers : v # w => tx'[v] = tx[v]
  BY <1>0 DEF Effect, TypeOK
<1>2. HoldsRow(s) /\ s.row \in Rows /\ s.user \in Users /\ paid' = paid
  BY DEF Effect
<1>3. /\ \A o \in Orders : /\ o # s.row => order'[o] = order[o]
                           /\ order'[o].user = order[o].user
                           /\ order'[o].status = "none" => order[o].status = "none"
      /\ \A c \in Codes : c # s.row => code'[c] = code[c]
  <2>1. CASE s.row \in Orders
    <3>1. MarkPaid(s.row)
      BY <2>1 DEF Effect
    <3> QED BY <1>0, <3>1 DEF MarkPaid, TypeOK, Order
  <2>2. CASE s.row \in Codes
    <3>1. BookRedemption(s.user, s.row)
      BY <2>2 DEF Effect
    <3> QED BY <1>0, <3>1 DEF BookRedemption, TypeOK
  <2> QED BY <1>2, <2>1, <2>2 DEF Rows
<1>4. \A u \in Users : s.stage # "account" \/ u # s.user => balance'[u] = balance[u]
  BY <1>0 DEF Effect, Credit, Grant, TypeOK
<1>5. ASSUME NEW v \in Workers, v # w PROVE SessionSound(tx[v])'
  <2> DEFINE r == tx[v]
  <2>1. SessionSound(r) /\ r \in Session
    BY <1>0 DEF SessionsSound, TypeOK
  <2>2. HoldsRow(r) => r.row # s.row
    BY <1>0, <1>2, <1>5 DEF LocksExclusive
  <2>3. r.stage = "account" => s.stage # "account" \/ r.user # s.user
    BY <1>0, <1>5 DEF LocksExclusive
  <2>4. r.stage = "account" => r.user \in Users
    BY <2>1 DEF SessionSound
  <2>5. r.stage = "account" => balance'[r.user] = balance[r.user]
    BY <1>4, <2>3, <2>4
  <2>6. tx'[v] = r
    BY <1>1, <1>5
  <2> HIDE DEF r
  <2>7. SessionSound(r)'
    BY <1>2, <1>3, <2>1, <2>2, <2>5, <2>6 DEF SessionSound, HoldsRow, InBalance, r
  <2> QED BY <2>7 DEF r
<1> QED BY <1>1, <1>5, ClosedIsSound DEF SessionsSound

LEMMA SessionsStep ==
  ASSUME Invariant, [Next]_vars
  PROVE  SessionsSound'
<1>0. TypeOK /\ SessionsSound
  BY DEF Invariant
<1>1. ASSUME NEW o \in Orders, NEW u \in Users, NEW credit \in Amounts, CreateOrder(o, u, credit)
      PROVE  SessionsSound'
  <2>1. /\ order[o].status = "none" /\ \A p \in Orders : p # o => order'[p] = order[p]
        /\ UNCHANGED <<paid, code, balance, tx>>
    BY <1>0, <1>1 DEF CreateOrder, TypeOK
  <2> SUFFICES ASSUME NEW v \in Workers PROVE SessionSound(tx[v])'
    BY DEF SessionsSound
  <2>2. SessionSound(tx[v])
    BY <1>0 DEF SessionsSound
  <2>3. tx[v].stage # "idle" => tx[v].row # o
    BY <2>1, <2>2 DEF SessionSound
  <2> QED BY <2>1, <2>2, <2>3 DEF SessionSound, HoldsRow, InBalance
<1>2. ASSUME NEW c \in Codes, CodeChange(c) PROVE SessionsSound'
  <2>1. /\ code[c].status = "none" \/ RowFree(c)
        /\ \A d \in Codes : d # c => code'[d] = code[d]
        /\ UNCHANGED <<paid, order, balance, tx>>
    BY <1>0, <1>2 DEF CodeChange, TypeOK
  <2> SUFFICES ASSUME NEW v \in Workers PROVE SessionSound(tx[v])'
    BY DEF SessionsSound
  <2>2. SessionSound(tx[v])
    BY <1>0 DEF SessionsSound
  <2>3. HoldsRow(tx[v]) => tx[v].row # c
    BY <2>1, <2>2 DEF SessionSound, RowFree, HoldsRow
  <2> QED BY <2>1, <2>2, <2>3 DEF SessionSound, HoldsRow, InBalance
<1> QED BY <1>1, <1>2, SessionsReading, SessionsEffect, StepCases

-----------------------------------------------------------------------------
(* What was paid, granted and redeemed *)

LEMMA RowsOfAppend ==
  ASSUME NEW T, NEW seq \in Seq(T), NEW e \in T, NEW row
  PROVE  {i \in DOMAIN Append(seq, e) : Append(seq, e)[i].row = row} =
           IF e.row = row THEN {i \in DOMAIN seq : seq[i].row = row} \cup {Len(seq) + 1}
           ELSE {i \in DOMAIN seq : seq[i].row = row}
<1>1. /\ DOMAIN Append(seq, e) = DOMAIN seq \cup {Len(seq) + 1}
      /\ \A i \in DOMAIN seq : Append(seq, e)[i] = seq[i]
      /\ Append(seq, e)[Len(seq) + 1] = e
      /\ Len(seq) + 1 \notin DOMAIN seq
  OBVIOUS
<1> QED BY <1>1

\* A commit adds one transaction or one grant, which is for its row.
LEMMA EffectTables ==
  ASSUME TypeOK, NEW w \in Workers, NEW s, Effect(w, s), NEW row
  PROVE  /\ PaymentsFor(row)' = IF InBalance(s.row) /\ s.row = row
                                THEN PaymentsFor(row) \cup {Len(transactions) + 1}
                                ELSE PaymentsFor(row)
         /\ GrantsFor(row)' = IF ~ InBalance(s.row) /\ s.row = row
                              THEN GrantsFor(row) \cup {Len(grants) + 1}
                              ELSE GrantsFor(row)
         /\ RedemptionsOf(row)' = IF s.row \in Codes /\ s.row = row
                                  THEN RedemptionsOf(row) \cup {Len(redemptions) + 1}
                                  ELSE RedemptionsOf(row)
<1>1. s.row \in Rows /\ s.user \in Users /\ balance[s.user] \in Nat
  BY DEF Effect, TypeOK
<1> DEFINE e == [user |-> s.user, row |-> s.row]
<1>2. e \in Entry /\ e.row = s.row
  BY <1>1 DEF Entry
<1>3. RedemptionsOf(row)' = IF s.row \in Codes /\ s.row = row
                            THEN RedemptionsOf(row) \cup {Len(redemptions) + 1}
                            ELSE RedemptionsOf(row)
  <2>1. CASE s.row \in Codes
    <3>1. redemptions' = Append(redemptions, e)
      BY <2>1 DEF Effect, BookRedemption
    <3> HIDE DEF e
    <3> QED BY <1>2, <2>1, <3>1, RowsOfAppend DEF RedemptionsOf, TypeOK
  <2>2. CASE s.row \notin Codes
    <3>1. redemptions' = redemptions
      BY <1>1, <2>2 DEF Effect, MarkPaid, Rows
    <3> QED BY <2>2, <3>1 DEF RedemptionsOf
  <2> QED BY <2>1, <2>2
<1>4. CASE InBalance(s.row)
  <2> DEFINE txn == [user |-> s.user, row |-> s.row, amount |-> Worth(s.row),
                     after |-> balance[s.user] + Worth(s.row)]
  <2>1. Worth(s.row) \in Nat /\ transactions' = Append(transactions, txn) /\ grants' = grants
    BY <1>4 DEF Effect, Credit
  <2>2. txn \in Transaction /\ txn.row = s.row
    BY <1>1, <2>1 DEF Transaction
  <2> HIDE DEF txn
  <2>3. PaymentsFor(row)' = IF s.row = row THEN PaymentsFor(row) \cup {Len(transactions) + 1}
                            ELSE PaymentsFor(row)
    BY <2>1, <2>2, RowsOfAppend DEF PaymentsFor, TypeOK
  <2>4. GrantsFor(row)' = GrantsFor(row)
    BY <2>1 DEF GrantsFor
  <2> QED BY <1>3, <1>4, <2>3, <2>4
<1>5. CASE ~ InBalance(s.row)
  <2>1. grants' = Append(grants, e) /\ transactions' = transactions
    BY <1>5 DEF Effect, Grant
  <2> HIDE DEF e
  <2>2. GrantsFor(row)' = IF s.row = row THEN GrantsFor(row) \cup {Len(grants) + 1}
                          ELSE GrantsFor(row)
    BY <1>2, <2>1, RowsOfAppend DEF GrantsFor, TypeOK
  <2>3. PaymentsFor(row)' = PaymentsFor(row)
    BY <2>1 DEF PaymentsFor
  <2> QED BY <1>3, <1>5, <2>2, <2>3
<1> QED BY <1>4, <1>5

LEMMA AppendKeeps ==
  ASSUME NEW T, NEW seq \in Seq(T), NEW e
  PROVE  \A i \in DOMAIN seq : i \in DOMAIN Append(seq, e) /\ Append(seq, e)[i] = seq[i]
OBVIOUS

\* A commit leaves the transactions and grants there are.
LEMMA EffectKeeps ==
  ASSUME TypeOK, NEW w \in Workers, NEW s, Effect(w, s)
  PROVE  /\ \A i \in DOMAIN transactions :
              i \in DOMAIN transactions' /\ transactions'[i] = transactions[i]
         /\ \A i \in DOMAIN grants : i \in DOMAIN grants' /\ grants'[i] = grants[i]
<1>1. transactions \in Seq(Transaction) /\ grants \in Seq(Entry)
  BY DEF TypeOK
<1>2. CASE InBalance(s.row)
  <2> DEFINE txn == [user |-> s.user, row |-> s.row, amount |-> Worth(s.row),
                     after |-> balance[s.user] + Worth(s.row)]
  <2>1. transactions' = Append(transactions, txn) /\ grants' = grants
    BY <1>2 DEF Effect, Credit
  <2> HIDE DEF txn
  <2> QED BY <1>1, <2>1, AppendKeeps
<1>3. CASE ~ InBalance(s.row)
  <2> DEFINE e == [user |-> s.user, row |-> s.row]
  <2>1. grants' = Append(grants, e) /\ transactions' = transactions
    BY <1>3 DEF Effect, Grant
  <2> HIDE DEF e
  <2> QED BY <1>1, <2>1, AppendKeeps
<1> QED BY <1>2, <1>3

LEMMA CreditedOnceStep ==
  ASSUME Invariant, [Next]_vars
  PROVE  CreditedOnce'
<1>0. TypeOK /\ SessionsSound /\ CreditedOnce
  BY DEF Invariant
<1>1. ASSUME UNCHANGED <<order, transactions, grants>>, paid \subseteq paid' PROVE CreditedOnce'
  BY <1>0, <1>1 DEF CreditedOnce, PaymentsFor, GrantsFor
<1>2. CASE Reading
  BY <1>1, <1>2, ReadingWritesNothing DEF rows
<1>3. CASE \E c \in Codes : CodeChange(c)
  BY <1>1, <1>3 DEF CodeChange
<1>4. ASSUME NEW o \in Orders, NEW u \in Users, NEW credit \in Amounts, CreateOrder(o, u, credit)
      PROVE  CreditedOnce'
  <2>1. /\ order[o].status = "none" /\ order'[o].status = "pending"
        /\ \A p \in Orders : p # o => order'[p] = order[p]
        /\ UNCHANGED <<paid, transactions, grants>>
    BY <1>0, <1>4 DEF CreateOrder, TypeOK
  <2> QED BY <1>0, <2>1 DEF CreditedOnce, PaymentsFor, GrantsFor
<1>5. ASSUME NEW w \in Workers, Effect(w, tx[w]) PROVE CreditedOnce'
  <2> DEFINE s == tx[w]
  <2>1. SessionSound(s) /\ HoldsRow(s) /\ s.row \in Rows /\ s.user \in Users /\ paid' = paid
    BY <1>0, <1>5 DEF SessionsSound, Effect
  <2> SUFFICES ASSUME NEW o \in Orders
               PROVE  (IF order[o].status # "paid" THEN PaymentsFor(o) = {} /\ GrantsFor(o) = {}
                       ELSE /\ o \in paid
                            /\ IF o \in TopUps
                               THEN /\ GrantsFor(o) = {}
                                    /\ \E i \in DOMAIN transactions :
                                         /\ PaymentsFor(o) = {i}
                                         /\ transactions[i].user = order[o].user
                                         /\ transactions[i].amount = order[o].credit
                               ELSE /\ PaymentsFor(o) = {}
                                    /\ \E i \in DOMAIN grants :
                                         GrantsFor(o) = {i} /\ grants[i].user = order[o].user)'
    BY DEF CreditedOnce
  <2>2. CASE o # s.row
    <3>1. order'[o] = order[o]
      BY <1>0, <1>5, <2>1, <2>2 DEF Effect, MarkPaid, BookRedemption, Rows, TypeOK
    <3>2. PaymentsFor(o)' = PaymentsFor(o) /\ GrantsFor(o)' = GrantsFor(o)
      BY <1>0, <1>5, <2>2, EffectTables
    <3>3. /\ \A i \in DOMAIN transactions :
               i \in DOMAIN transactions' /\ transactions'[i] = transactions[i]
          /\ \A i \in DOMAIN grants : i \in DOMAIN grants' /\ grants'[i] = grants[i]
      BY <1>0, <1>5, EffectKeeps
    <3> QED BY <1>0, <2>1, <3>1, <3>2, <3>3 DEF CreditedOnce
  <2>3. CASE o = s.row
    <3>1. /\ order[o].status = "pending" /\ order[o].user = s.user /\ o \in paid
          /\ order'[o].status = "paid" /\ order'[o].user = s.user
          /\ order'[o].credit = order[o].credit
      BY <1>0, <1>5, <2>1, <2>3, ZenonT(60) DEF SessionSound, HoldsRow, Effect, MarkPaid, TypeOK, Order
    <3>2. PaymentsFor(o) = {} /\ GrantsFor(o) = {}
      BY <1>0, <3>1 DEF CreditedOnce
    <3>3. InBalance(o) <=> o \in TopUps
      BY RowsAssumption DEF InBalance
    <3>4. CASE o \in TopUps
      <4> DEFINE n == Len(transactions) + 1
      <4>1. PaymentsFor(o)' = {n} /\ GrantsFor(o)' = {}
        BY <1>0, <1>5, <2>3, <3>2, <3>3, <3>4, EffectTables
      <4>2. /\ n \in DOMAIN transactions' /\ transactions'[n].user = s.user
            /\ transactions'[n].amount = order[o].credit
        BY <1>0, <1>5, <2>3, <3>3, <3>4 DEF Effect, Credit, Worth, TypeOK
      <4> QED BY <2>1, <3>1, <3>4, <4>1, <4>2
    <3>5. CASE o \notin TopUps
      <4> DEFINE n == Len(grants) + 1
      <4>1. PaymentsFor(o)' = {} /\ GrantsFor(o)' = {n}
        BY <1>0, <1>5, <2>3, <3>2, <3>3, <3>5, EffectTables
      <4>2. n \in DOMAIN grants' /\ grants'[n].user = s.user
        BY <1>0, <1>5, <2>3, <3>3, <3>5 DEF Effect, Grant, TypeOK
      <4> QED BY <2>1, <3>1, <3>5, <4>1, <4>2
    <3> QED BY <3>4, <3>5
  <2> QED BY <2>2, <2>3
<1> QED BY <1>2, <1>3, <1>4, <1>5, StepCases

LEMMA NextRow ==
  ASSUME NEW n \in Nat, NEW R, R \subseteq 1..n
  PROVE  Cardinality(R \cup {n + 1}) = Cardinality(R) + 1
<1>1. IsFiniteSet(1..n)
  BY FS_Interval
<1>2. IsFiniteSet(R)
  BY <1>1, FS_Subset
<1>3. n + 1 \notin R
  OBVIOUS
<1> QED BY <1>2, <1>3, FS_AddElement

LEMMA RedemptionsStep ==
  ASSUME Invariant, [Next]_vars
  PROVE  RedemptionsWithinLimits'
<1>0. TypeOK /\ SessionsSound /\ RedemptionsWithinLimits
  BY DEF Invariant
<1>1. ASSUME UNCHANGED <<code, redemptions, transactions, grants>>
      PROVE  RedemptionsWithinLimits'
  BY <1>0, <1>1 DEF RedemptionsWithinLimits, RedemptionsOf, PaymentsFor, GrantsFor
<1>2. CASE Reading
  BY <1>1, <1>2, ReadingWritesNothing DEF rows
<1>3. CASE \E o \in Orders, u \in Users, credit \in Amounts : CreateOrder(o, u, credit)
  BY <1>1, <1>3 DEF CreateOrder
<1>4. ASSUME NEW d \in Codes, CodeChange(d) PROVE RedemptionsWithinLimits'
  <2> PICK new \in Code :
        /\ code' = [code EXCEPT ![d] = new] /\ new.redeemed = code[d].redeemed
        /\ new.max > 0 => new.redeemed <= new.max
    BY <1>4 DEF CodeChange
  <2>1. /\ \A c \in Codes : code'[c] = IF c = d THEN new ELSE code[c]
        /\ UNCHANGED <<redemptions, transactions, grants>>
    BY <1>0, <1>4 DEF CodeChange, TypeOK
  <2> QED BY <1>0, <2>1, ZenonT(60) DEF RedemptionsWithinLimits, RedemptionsOf, PaymentsFor, GrantsFor
<1>5. ASSUME NEW w \in Workers, Effect(w, tx[w]) PROVE RedemptionsWithinLimits'
  <2> DEFINE s == tx[w]
  <2>1. SessionSound(s) /\ HoldsRow(s) /\ s.row \in Rows /\ s.user \in Users
    BY <1>0, <1>5 DEF SessionsSound, Effect
  <2> SUFFICES ASSUME NEW c \in Codes
               PROVE  (/\ code[c].redeemed = Cardinality(RedemptionsOf(c))
                       /\ code[c].max > 0 => code[c].redeemed <= code[c].max
                       /\ Cardinality(PaymentsFor(c)) =
                            IF c \in BalanceCodes THEN code[c].redeemed ELSE 0
                       /\ Cardinality(GrantsFor(c)) =
                            IF c \in BalanceCodes THEN 0 ELSE code[c].redeemed)'
    BY DEF RedemptionsWithinLimits
  <2>2. /\ code[c].redeemed = Cardinality(RedemptionsOf(c))
        /\ code[c].max > 0 => code[c].redeemed <= code[c].max
        /\ Cardinality(PaymentsFor(c)) = IF c \in BalanceCodes THEN code[c].redeemed ELSE 0
        /\ Cardinality(GrantsFor(c)) = IF c \in BalanceCodes THEN 0 ELSE code[c].redeemed
    BY <1>0 DEF RedemptionsWithinLimits
  <2>3. CASE c # s.row
    <3>1. code'[c] = code[c]
      BY <1>0, <1>5, <2>1, <2>3 DEF Effect, MarkPaid, BookRedemption, Rows, TypeOK
    <3>2. /\ PaymentsFor(c)' = PaymentsFor(c) /\ GrantsFor(c)' = GrantsFor(c)
          /\ RedemptionsOf(c)' = RedemptionsOf(c)
      BY <1>0, <1>5, <2>3, EffectTables
    <3> QED BY <2>2, <3>1, <3>2
  <2>4. CASE c = s.row
    <3>1. code[c] \in Code /\ (code[c].max = 0 \/ code[c].redeemed < code[c].max)
      BY <1>0, <2>1, <2>4 DEF SessionSound, TypeOK
    <3>2. code'[c].redeemed = code[c].redeemed + 1 /\ code'[c].max = code[c].max
      <4>1. code' = [code EXCEPT ![c].redeemed = @ + 1]
        BY <1>5, <2>4 DEF Effect, BookRedemption
      <4>2. code \in [Codes -> Code]
        BY <1>0 DEF TypeOK
      <4> QED BY <3>1, <4>1, <4>2 DEF Code
    <3>3. InBalance(c) <=> c \in BalanceCodes
      BY RowsAssumption DEF InBalance
    <3>4. /\ Cardinality(RedemptionsOf(c)') = Cardinality(RedemptionsOf(c)) + 1
          /\ Cardinality(PaymentsFor(c)') =
               IF c \in BalanceCodes THEN Cardinality(PaymentsFor(c)) + 1
               ELSE Cardinality(PaymentsFor(c))
          /\ Cardinality(GrantsFor(c)') =
               IF c \in BalanceCodes THEN Cardinality(GrantsFor(c))
               ELSE Cardinality(GrantsFor(c)) + 1
      <4>1. /\ PaymentsFor(c)' = IF c \in BalanceCodes
                                 THEN PaymentsFor(c) \cup {Len(transactions) + 1}
                                 ELSE PaymentsFor(c)
            /\ GrantsFor(c)' = IF c \in BalanceCodes THEN GrantsFor(c)
                               ELSE GrantsFor(c) \cup {Len(grants) + 1}
            /\ RedemptionsOf(c)' = RedemptionsOf(c) \cup {Len(redemptions) + 1}
        BY <1>0, <1>5, <2>4, <3>3, EffectTables
      <4>2. Cardinality(RedemptionsOf(c) \cup {Len(redemptions) + 1}) =
              Cardinality(RedemptionsOf(c)) + 1
        <5>1. Len(redemptions) \in Nat /\ RedemptionsOf(c) \subseteq 1..Len(redemptions)
          BY <1>0 DEF TypeOK, RedemptionsOf
        <5> QED BY <5>1, NextRow
      <4>3. Cardinality(PaymentsFor(c) \cup {Len(transactions) + 1}) =
              Cardinality(PaymentsFor(c)) + 1
        <5>1. Len(transactions) \in Nat /\ PaymentsFor(c) \subseteq 1..Len(transactions)
          BY <1>0 DEF TypeOK, PaymentsFor
        <5> QED BY <5>1, NextRow
      <4>4. Cardinality(GrantsFor(c) \cup {Len(grants) + 1}) = Cardinality(GrantsFor(c)) + 1
        <5>1. Len(grants) \in Nat /\ GrantsFor(c) \subseteq 1..Len(grants)
          BY <1>0 DEF TypeOK, GrantsFor
        <5> QED BY <5>1, NextRow
      <4> QED BY <4>1, <4>2, <4>3, <4>4
    <3>5. code[c].redeemed \in Nat /\ code[c].max \in Nat
      BY <3>1 DEF Code
    <3> QED BY <2>2, <3>1, <3>2, <3>4, <3>5
  <2> QED BY <2>3, <2>4
<1> QED BY <1>2, <1>3, <1>4, <1>5, StepCases

-----------------------------------------------------------------------------
(* The limit per user *)

UsesOf(u, c) == {i \in DOMAIN redemptions : redemptions[i] = [user |-> u, row |-> c]}

\* A commit for a code is one more use by its user, and no other user's.
LEMMA UsesAfter ==
  ASSUME TypeOK, NEW w \in Workers, NEW s, Effect(w, s), NEW u \in Users, NEW c \in Codes
  PROVE  /\ s.row = c /\ s.user = u => RedeemedBy(u, c)' = RedeemedBy(u, c) + 1
         /\ s.row # c \/ s.user # u => RedeemedBy(u, c)' = RedeemedBy(u, c)
<1> DEFINE e == [user |-> s.user, row |-> s.row]
           n == Len(redemptions)
<1>1. /\ n \in Nat /\ DOMAIN redemptions = 1..n /\ redemptions \in Seq(Entry)
      /\ UsesOf(u, c) \subseteq 1..n
  BY DEF TypeOK, UsesOf
<1>2. e \in Entry /\ (e = [user |-> u, row |-> c] <=> s.row = c /\ s.user = u)
  BY DEF Effect, Entry
<1>3. CASE s.row \in Codes
  <2>1. redemptions' = Append(redemptions, e)
    BY <1>3 DEF Effect, BookRedemption
  <2> HIDE DEF e
  <2>2. /\ DOMAIN redemptions' = 1..(n + 1) /\ redemptions'[n + 1] = e
        /\ \A i \in 1..n : redemptions'[i] = redemptions[i]
    BY <1>1, <1>2, <2>1
  <2>3. UsesOf(u, c)' = IF s.row = c /\ s.user = u THEN UsesOf(u, c) \cup {n + 1} ELSE UsesOf(u, c)
    BY <1>1, <1>2, <2>2 DEF UsesOf
  <2>4. Cardinality(UsesOf(u, c) \cup {n + 1}) = Cardinality(UsesOf(u, c)) + 1
    BY <1>1, NextRow
  <2> QED BY <2>3, <2>4 DEF RedeemedBy, UsesOf
<1>4. CASE s.row \notin Codes
  <2>1. redemptions' = redemptions
    BY <1>4 DEF Effect, MarkPaid, Rows
  <2> QED BY <1>4, <2>1 DEF RedeemedBy
<1> QED BY <1>3, <1>4

\* No other step books a use.
LEMMA UsesKept ==
  ASSUME UNCHANGED redemptions
  PROVE  \A u, c : RedeemedBy(u, c)' = RedeemedBy(u, c)
BY DEF RedeemedBy

\* A request that has its locks keeps what it found, or found it in this step.
LEMMA LimitsReading ==
  ASSUME Invariant, UserLimitsHeld, Reading
  PROVE  UserLimitsHeld'
<1>0. TypeOK /\ SessionsSound /\ UNCHANGED <<code, redemptions>>
  BY ReadingWritesNothing DEF Invariant, rows
<1> SUFFICES ASSUME NEW v \in Workers, HoldsRow(tx'[v]), tx'[v].row \in Codes
             PROVE  RedeemedBy(tx'[v].user, tx'[v].row) < code[tx'[v].row].perUser
  BY <1>0, UsesKept DEF UserLimitsHeld, UserLimitHeld, HoldsRow
<1>1. CASE HoldsRow(tx[v]) /\ tx'[v].row = tx[v].row /\ tx'[v].user = tx[v].user
  BY <1>1 DEF UserLimitsHeld, UserLimitHeld
<1>2. CASE LockRow(v)
  <2>1. tx[v] \in Session /\ tx[v].stage = "received"
    BY <1>0, <1>2 DEF LockRow, TypeOK
  <2>2. CASE tx' = [tx EXCEPT ![v].stage = "locked"]
    <3>1. tx'[v].row = tx[v].row /\ tx'[v].user = tx[v].user
      BY <1>0, <2>1, <2>2 DEF TypeOK, Session
    <3>2. RedeemableCode(tx[v].row, tx[v].user, tx[v].at) \/ tx' = [tx EXCEPT ![v] = Idle]
      BY <1>2, <3>1, RowsAssumption DEF LockRow, Close
    <3>3. tx' # [tx EXCEPT ![v] = Idle]
      BY <1>0 DEF HoldsRow, Idle, TypeOK
    <3> QED BY <3>1, <3>2, <3>3 DEF RedeemableCode
  <2>3. CASE Close(v)
    BY <1>0, <2>3 DEF Close, Idle, HoldsRow, TypeOK
  <2> QED BY <1>2, <2>2, <2>3 DEF LockRow
<1>3. CASE LockAccount(v)
  <2>1. /\ tx[v].stage = "locked" /\ tx'[v].row = tx[v].row /\ tx'[v].user = tx[v].user
    BY <1>0, <1>3 DEF LockAccount, TypeOK, Session
  <2> QED BY <1>1, <2>1 DEF HoldsRow
<1>4. CASE tx'[v] = tx[v]
  BY <1>1, <1>4
<1>5. ASSUME NEW w \in Workers, LockRow(w) \/ LockAccount(w) \/ Abort(w), w # v
      PROVE  tx'[v] = tx[v]
  BY <1>0, <1>5 DEF LockRow, LockAccount, Abort, Close, TypeOK
<1>6. ~ Abort(v)
  BY <1>0 DEF Abort, Close, Idle, HoldsRow, TypeOK
<1>7. ASSUME NEW w \in Workers, NEW row, NEW u, Receive(w, row, u) PROVE tx'[v] = tx[v]
  BY <1>0, <1>7 DEF Receive, HoldsRow, TypeOK
<1>8. CASE Request
  BY <1>4, <1>7, <1>8 DEF Request, Callback, Redeem
<1>9. CASE UNCHANGED tx
  BY <1>4, <1>9
<1> QED BY <1>2, <1>3, <1>4, <1>5, <1>6, <1>8, <1>9 DEF Reading, CustomerPays, Tick, vars

LEMMA LimitsStep ==
  ASSUME Invariant, UserLimitsHeld, [Next]_vars
  PROVE  UserLimitsHeld'
<1>0. TypeOK /\ SessionsSound /\ LocksExclusive
  BY DEF Invariant
<1>1. CASE \E o \in Orders, u \in Users, credit \in Amounts : CreateOrder(o, u, credit)
  BY <1>1, UsesKept DEF CreateOrder, UserLimitsHeld, UserLimitHeld, HoldsRow
<1>2. ASSUME NEW c \in Codes, CodeChange(c) PROVE UserLimitsHeld'
  <2>1. /\ code[c].status = "none" \/ RowFree(c)
        /\ \A d \in Codes : d # c => code'[d] = code[d]
        /\ UNCHANGED <<redemptions, tx>>
    BY <1>0, <1>2 DEF CodeChange, TypeOK
  <2>2. ASSUME NEW v \in Workers PROVE UserLimitHeld(tx[v])'
    <3>1. HoldsRow(tx[v]) => tx[v].row # c
      BY <1>0, <2>1 DEF SessionsSound, SessionSound, RowFree, HoldsRow
    <3> QED BY <2>1, <3>1, UsesKept DEF UserLimitsHeld, UserLimitHeld, HoldsRow
  <2> QED BY <2>2 DEF UserLimitsHeld
<1>3. ASSUME NEW w \in Workers, Effect(w, tx[w]) PROVE UserLimitsHeld'
  <2>1. tx'[w] = Idle /\ \A v \in Workers : v # w => tx'[v] = tx[v]
    BY <1>0, <1>3 DEF Effect, TypeOK
  <2>2. HoldsRow(tx[w]) /\ \A c \in Codes : c # tx[w].row => code'[c] = code[c]
    BY <1>0, <1>3 DEF Effect, MarkPaid, BookRedemption, Rows, TypeOK
  <2>3. ASSUME NEW v \in Workers PROVE UserLimitHeld(tx[v])'
    <3>1. CASE v = w
      BY <2>1, <3>1 DEF UserLimitHeld, HoldsRow, Idle
    <3>2. CASE v # w /\ HoldsRow(tx[v]) /\ tx[v].row \in Codes
      <4>1. tx[v].row # tx[w].row /\ tx[v].user \in Users
        BY <1>0, <2>2, <3>2 DEF LocksExclusive, SessionsSound, SessionSound, HoldsRow
      <4>2. PICK u \in Users, c \in Codes : u = tx[v].user /\ c = tx[v].row
        BY <3>2, <4>1
      <4>3. RedeemedBy(u, c)' = RedeemedBy(u, c)
        BY <1>0, <1>3, <4>1, <4>2, UsesAfter
      <4>4. RedeemedBy(u, c) < code[c].perUser
        BY <3>2, <4>2 DEF UserLimitsHeld, UserLimitHeld
      <4>5. tx'[v] = tx[v] /\ code'[c] = code[c]
        BY <2>1, <2>2, <3>2, <4>1, <4>2
      <4>6. RedeemedBy(tx[v].user, tx[v].row)' = RedeemedBy(u, c)'
        BY <4>2, <4>5 DEF RedeemedBy
      <4> QED BY <4>2, <4>3, <4>4, <4>5, <4>6 DEF UserLimitHeld
    <3>3. CASE v # w /\ ~ (HoldsRow(tx[v]) /\ tx[v].row \in Codes)
      BY <2>1, <3>3 DEF UserLimitHeld, HoldsRow
    <3> QED BY <3>1, <3>2, <3>3
  <2> QED BY <2>3 DEF UserLimitsHeld
<1> QED BY <1>1, <1>2, <1>3, LimitsReading, StepCases

-----------------------------------------------------------------------------
(* The balance *)

\* The column of the amounts of user u among the first n rows of a table.
AmountsOf(table, u, n) == [i \in 1..n |-> IF table[i].user = u THEN table[i].amount ELSE 0]

LEMMA AmountsType ==
  ASSUME NEW table \in Seq(Transaction), NEW u, NEW n \in 0..Len(table)
  PROVE  AmountsOf(table, u, n) \in [1..n -> Nat]
<1>1. \A i \in 1..n : table[i] \in Transaction
  OBVIOUS
<1>2. \A i \in 1..n : table[i].amount \in Nat
  BY <1>1 DEF Transaction
<1> QED BY <1>2 DEF AmountsOf

\* The sum up to a row is the sum before it, and its amount if it is the user's.
LEMMA SumStep ==
  ASSUME NEW table \in Seq(Transaction), NEW u, NEW n \in Nat, n + 1 \in DOMAIN table
  PROVE  /\ Total(AmountsOf(table, u, n)) \in Nat
         /\ Total(AmountsOf(table, u, n + 1)) =
              Total(AmountsOf(table, u, n))
                + IF table[n + 1].user = u THEN table[n + 1].amount ELSE 0
<1> DEFINE f == AmountsOf(table, u, n + 1)
           g == AmountsOf(table, u, n)
<1>1. n \in 0..Len(table) /\ n + 1 \in 0..Len(table)
  OBVIOUS
<1>2. f \in [1..(n + 1) -> Nat] /\ g \in [1..n -> Nat]
  BY <1>1, AmountsType
<1>3. 1..(n + 1) = (1..n) \cup {n + 1} /\ n + 1 \notin 1..n
  OBVIOUS
<1>4. IsFiniteSet(1..n)
  BY FS_Interval
<1>5. g = [i \in 1..n |-> f[i]]
  BY <1>3 DEF AmountsOf
<1>6. f[n + 1] = IF table[n + 1].user = u THEN table[n + 1].amount ELSE 0
  BY <1>3 DEF AmountsOf
<1> HIDE DEF f, g
<1>7. Total(f) = Total(g) + f[n + 1]
  BY <1>2, <1>3, <1>4, <1>5, TotalSplit, ZenonT(60)
<1>8. Total(g) \in Nat
  BY <1>2, <1>4, TotalType
<1> QED BY <1>6, <1>7, <1>8 DEF f, g

LEMMA BalanceStep ==
  ASSUME Invariant, [Next]_vars
  PROVE  BalanceExplained'
<1>0. TypeOK /\ SessionsSound /\ BalanceExplained /\ TypeOK'
  BY TypeStep DEF Invariant
<1>1. ASSUME UNCHANGED <<balance, transactions>> PROVE BalanceExplained'
  BY <1>0, <1>1 DEF BalanceExplained, SumUpTo
<1>2. ASSUME NEW w \in Workers, Effect(w, tx[w]) PROVE BalanceExplained'
  <2> DEFINE s == tx[w]
             amount == Worth(s.row)
             txn == [user |-> s.user, row |-> s.row, amount |-> amount,
                     after |-> balance[s.user] + amount]
  <2>1. CASE ~ InBalance(s.row)
    BY <1>1, <1>2, <2>1 DEF Effect, Grant
  <2>2. CASE InBalance(s.row)
    <3> PICK n \in Nat : n = Len(transactions)
      BY <1>0 DEF TypeOK
    <3>1. /\ s.user \in Users /\ amount \in Nat /\ balance[s.user] \in Nat
          /\ transactions' = Append(transactions, txn)
          /\ balance' = [balance EXCEPT ![s.user] = balance[s.user] + amount]
      BY <1>0, <1>2, <2>2 DEF Effect, Credit, TypeOK
    <3>2. transactions \in Seq(Transaction)
      BY <1>0 DEF TypeOK
    <3>3. txn.user = s.user /\ txn.amount = amount /\ txn.after = balance[s.user] + amount
      OBVIOUS
    <3> HIDE DEF txn, amount, s
    <3>4. /\ Len(transactions') = n + 1 /\ DOMAIN transactions' = 1..(n + 1)
          /\ \A i \in 1..n : transactions'[i] = transactions[i]
          /\ transactions'[n + 1] = txn
      BY <3>1, <3>2
    <3>5. \A u, m : m \in 0..n => SumUpTo(u, m)' = SumUpTo(u, m)
      BY <3>2, <3>4 DEF SumUpTo
    <3>6. \A u : SumUpTo(u, n + 1)' = SumUpTo(u, n) + IF s.user = u THEN amount ELSE 0
      <4> TAKE u
      <4>1. transactions' \in Seq(Transaction) /\ n + 1 \in DOMAIN transactions'
        BY <1>0, <3>2, <3>4 DEF TypeOK
      <4>2. Total(AmountsOf(transactions', u, n + 1)) =
              Total(AmountsOf(transactions', u, n)) + IF txn.user = u THEN txn.amount ELSE 0
        BY <3>2, <3>4, <4>1, SumStep
      <4>3. /\ SumUpTo(u, n + 1)' = Total(AmountsOf(transactions', u, n + 1))
            /\ SumUpTo(u, n)' = Total(AmountsOf(transactions', u, n))
        BY DEF SumUpTo, AmountsOf
      <4>4. SumUpTo(u, n)' = SumUpTo(u, n)
        BY <3>2, <3>5
      <4> QED BY <3>3, <4>2, <4>3, <4>4
    <3>7. \A u \in Users : balance[u] \in Nat /\ balance[u] = SumUpTo(u, n)
      BY <1>0 DEF BalanceExplained, TypeOK
    <3>8. \A u \in Users : balance'[u] = SumUpTo(u, Len(transactions))'
      BY <1>0, <3>1, <3>4, <3>6, <3>7 DEF TypeOK
    <3>9. ASSUME NEW i \in 1..(n + 1)
          PROVE  transactions'[i].after = SumUpTo(transactions[i].user, i)'
      <4>1. CASE i = n + 1
        BY <3>1, <3>3, <3>4, <3>6, <3>7, <4>1
      <4>2. CASE i \in 1..n
        <5>1. transactions[i].after = SumUpTo(transactions[i].user, i)
          BY <1>0, <3>2, <4>2 DEF BalanceExplained
        <5> QED BY <3>2, <3>4, <3>5, <4>2, <5>1
      <4> QED BY <3>2, <4>1, <4>2
    <3> QED BY <3>4, <3>8, <3>9 DEF BalanceExplained
  <2> QED BY <2>1, <2>2
<1>3. CASE Reading
  BY <1>1, <1>3, ReadingWritesNothing DEF rows
<1>4. CASE \E o \in Orders, u \in Users, credit \in Amounts : CreateOrder(o, u, credit)
  BY <1>1, <1>4 DEF CreateOrder
<1>5. CASE \E c \in Codes : CodeChange(c)
  BY <1>1, <1>5 DEF CodeChange
<1> QED BY <1>2, <1>3, <1>4, <1>5, StepCases

-----------------------------------------------------------------------------
(* Theorems *)

LEMMA InitInvariant == Init => Invariant
<1> SUFFICES ASSUME Init PROVE Invariant
  OBVIOUS
<1>1. TypeOK
  BY IdleType, CreditAssumption DEF Init, TypeOK, Times, NoOrder, Order, NoCode, Code
<1>2. LocksExclusive /\ SessionsSound
  BY DEF Init, LocksExclusive, SessionsSound, SessionSound, HoldsRow, Idle
<1>3. RowsSound
  BY DEF Init, RowsSound, NoOrder, NoCode
<1>4. \A row : PaymentsFor(row) = {} /\ GrantsFor(row) = {} /\ RedemptionsOf(row) = {}
  BY DEF Init, PaymentsFor, GrantsFor, RedemptionsOf
<1>5. CreditedOnce
  BY <1>4 DEF Init, CreditedOnce, NoOrder
<1>6. RedemptionsWithinLimits
  <2>1. \A c \in Codes : code[c].redeemed = 0 /\ code[c].max = 0
    BY DEF Init, NoCode
  <2>2. Cardinality({}) = 0
    BY FS_EmptySet
  <2> QED BY <1>4, <2>1, <2>2 DEF RedemptionsWithinLimits
<1>7. BalanceExplained
  <2>1. Len(transactions) = 0 /\ DOMAIN transactions = {}
    BY DEF Init
  <2>2. \A u : SumUpTo(u, 0) = 0
    BY FS_EmptySet DEF SumUpTo, Total
  <2> QED BY <2>1, <2>2 DEF Init, BalanceExplained
<1> QED BY <1>1, <1>2, <1>3, <1>5, <1>6, <1>7 DEF Invariant

\* The locks are exclusive and what a request found under them still holds, so
\* that what it commits is right.
THEOREM CreditsInvariant == Spec => []Invariant
<1>1. Invariant /\ [Next]_vars => Invariant'
  BY TypeStep, LocksStep, SessionsStep, RowsStep, CreditedOnceStep, BalanceStep,
     RedemptionsStep DEF Invariant
<1> QED BY <1>1, InitInvariant, PTL DEF Spec

\* Every variable keeps its type: a balance never becomes negative.
THEOREM CreditsTypeCorrect == Spec => []TypeOK
<1>1. Invariant => TypeOK
  BY DEF Invariant
<1> QED BY <1>1, CreditsInvariant, PTL

\* Whatever callbacks the provider repeats, and whoever handles them at once, an
\* order is delivered once, to the user who paid it.
THEOREM PaymentsCreditedOnce == Spec => []CreditedOnce
<1>1. Invariant => CreditedOnce
  BY DEF Invariant
<1> QED BY <1>1, CreditsInvariant, PTL

\* No transaction overwrites the balance another one wrote.
THEOREM NoCreditLost == Spec => []BalanceExplained
<1>1. Invariant => BalanceExplained
  BY DEF Invariant
<1> QED BY <1>1, CreditsInvariant, PTL

\* A code is never redeemed beyond its limit, and each use gave its reward.
THEOREM CodesWithinLimits == Spec => []RedemptionsWithinLimits
<1>1. Invariant => RedemptionsWithinLimits
  BY DEF Invariant
<1> QED BY <1>1, CreditsInvariant, PTL

\* Requests of one user that race for a code never exceed the limit per user in force
\* when they commit (validateRedeemableCode under the lock of the code).
THEOREM UserLimitKept == Spec => WithinUserLimit
<1>1. Init => UserLimitsHeld
  BY DEF Init, Idle, UserLimitsHeld, UserLimitHeld, HoldsRow
<1>2. Invariant /\ UserLimitsHeld /\ [Next]_vars => UserLimitsHeld'
  BY LimitsStep
<1>3. Invariant /\ UserLimitsHeld /\ [Next]_vars =>
        [\A u \in Users, c \in Codes :
           RedeemedBy(u, c)' > RedeemedBy(u, c) => RedeemedBy(u, c)' <= code[c].perUser]_vars
  <2> SUFFICES ASSUME Invariant, UserLimitsHeld, [Next]_vars, NEW u \in Users, NEW c \in Codes,
                      RedeemedBy(u, c)' > RedeemedBy(u, c)
               PROVE  RedeemedBy(u, c)' <= code[c].perUser
    OBVIOUS
  <2>0. TypeOK /\ code[c].perUser \in Nat /\ RedeemedBy(u, c) \in Nat
    <3>1. TypeOK /\ code[c].perUser \in Nat
      BY DEF Invariant, TypeOK, Code
    <3>2. UsesOf(u, c) \subseteq 1..Len(redemptions) /\ Len(redemptions) \in Nat
      BY <3>1 DEF TypeOK, UsesOf
    <3>3. IsFiniteSet(1..Len(redemptions))
      BY <3>2, FS_Interval
    <3>5. IsFiniteSet(UsesOf(u, c))
      BY <3>2, <3>3, FS_Subset
    <3>4. Cardinality(UsesOf(u, c)) \in Nat
      BY <3>5, FS_CardinalityType
    <3> QED BY <3>1, <3>4 DEF RedeemedBy, UsesOf
  <2>1. redemptions' # redemptions
    BY <2>0, UsesKept
  <2>2. PICK w \in Workers : Effect(w, tx[w])
    BY <2>1, StepCases, ReadingWritesNothing DEF rows, CreateOrder, CodeChange
  <2>3. tx[w].row = c /\ tx[w].user = u /\ RedeemedBy(u, c)' = RedeemedBy(u, c) + 1
    BY <2>0, <2>2, UsesAfter
  <2>4. RedeemedBy(u, c) < code[c].perUser
    BY <2>2, <2>3 DEF Effect, UserLimitsHeld, UserLimitHeld
  <2> QED BY <2>0, <2>3, <2>4
<1> QED BY <1>1, <1>2, <1>3, CreditsInvariant, PTL DEF Spec, WithinUserLimit
=============================================================================
