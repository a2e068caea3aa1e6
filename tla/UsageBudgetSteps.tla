-------------------------- MODULE UsageBudgetSteps --------------------------
(***************************************************************************)
(* ReserveUsageBalance statement by statement.  The transaction holds the  *)
(* lock of the account row, so that nothing that reads or changes the      *)
(* balance runs beside it; releasing, renewing and marking a reservation   *)
(* lock only that reservation and commit between two of its reads, which   *)
(* at READ COMMITTED see them.  The rest is UsageBudget.                   *)
(*                                                                         *)
(* The transaction takes less than a tick and compares with one `now`.     *)
(***************************************************************************)
EXTENDS UsageBudget

CONSTANT Punctual   \* TRUE: no call whose lease has lapsed marks its reservation

VARIABLE tx         \* what the open transaction has read; fair: history, the largest
                    \* ShareNow of the earlier states since its first read

steps == <<month, balance, reservation, ledger, transactions, tx>>
rows == <<month, balance, reservation, ledger, transactions>>

NoTx == [at |-> "none"]

StepsInit == Init /\ tx = NoTx

\* The share that an atomic reservation would get of the rows as they are.
ShareNow(mode, limit) ==
  LET credit == IF mode = "period"
                THEN Remaining(limit, Used(month), HeldCredit(month, NoRef)) ELSE 0
  IN  IF Cardinality(Holders) >= MaxActive THEN 0
      ELSE Share(Remaining(balance, HeldBalance, 0) + credit,
                 MaxActive - Cardinality(Holders))

\* The account is locked, the reference number is new, the slots are counted.
Count(r, mode, prepaid, limit) ==
  /\ tx = NoTx
  /\ reservation[r].status = "none"
  /\ Cardinality(Holders) < MaxActive
  /\ balance >= 0
  /\ tx' = [at |-> "counted", ref |-> r, mode |-> mode, prepaid |-> prepaid,
            limit |-> limit, slots |-> MaxActive - Cardinality(Holders),
            forBalance |-> 0, forCredit |-> 0, fair |-> ShareNow(mode, limit)]
  /\ UNCHANGED rows

\* Mutant of SumBalance: only what is kept for reconciliation is held.
SumBalanceKept ==
  /\ tx.at = "counted"
  /\ tx' = [tx EXCEPT !.at = "summed", !.forBalance = Remaining(balance,
              Total([r \in Refs |-> IF reservation[r].status = "reconciliation"
                                    THEN reservation[r].balance ELSE 0]), 0)]
  /\ UNCHANGED rows

SumBalance ==
  /\ tx.at = "counted"
  /\ tx' = [tx EXCEPT !.at = "summed", !.forBalance = Remaining(balance, HeldBalance, 0)]
  /\ UNCHANGED rows

\* The ledger changes under the lock of the account only.
SumCredit ==
  /\ tx.at = "summed" /\ tx.mode = "period"
  /\ tx' = [tx EXCEPT !.at = "ready",
                      !.forCredit = Remaining(tx.limit, Used(month),
                                              HeldCredit(month, NoRef))]
  /\ UNCHANGED rows

Ready == tx.at = "ready" \/ (tx.at = "summed" /\ tx.mode = "usage")

Available == tx.forBalance + tx.forCredit

Requested == IF tx.prepaid > 0 THEN tx.prepaid ELSE Share(Available, tx.slots)

\* Whoever does not get what he asked for gets nothing.
Insert ==
  LET credit == Lesser(Requested, tx.forCredit)
  IN  /\ Ready
      /\ Requested > 0 /\ Requested <= Available
      /\ reservation' = [reservation EXCEPT ![tx.ref] =
           [mode |-> tx.mode, balance |-> Requested - credit, credit |-> credit,
            limit |-> IF tx.mode = "period" THEN tx.limit ELSE 0,
            period |-> IF tx.mode = "period" THEN month ELSE 0,
            status |-> "active", ttl |-> LeaseTicks, ledgerId |-> 0]]
      /\ tx' = NoTx
      /\ UNCHANGED <<month, balance, ledger, transactions>>

Reject ==
  /\ Ready
  /\ Requested = 0 \/ Requested > Available
  /\ tx' = NoTx
  /\ UNCHANGED rows

Lapsed(r) == reservation[r].status = "active" /\ reservation[r].ttl = 0

Greater(a, b) == IF a >= b THEN a ELSE b

\* What needs no lock of the account ...
Unlocked ==
  /\ \E r \in Refs : \/ Release(r) \/ Renew(r)
                     \/ (Punctual => ~Lapsed(r)) /\ MarkReconciliation(r)
  /\ tx' = IF tx = NoTx THEN NoTx
           ELSE [tx EXCEPT !.fair = Greater(@, ShareNow(tx.mode, tx.limit))]

\* ... and what waits for it.
Locked ==
  /\ tx = NoTx
  /\ \/ \E r \in Refs, charge \in Charges :
          \E date \in StartMonths(r) : RecordUsage(r, charge, date)
     \/ \E amount \in Deposits : Deposit(amount)
     \/ Tick
     \/ NextMonth
  /\ UNCHANGED tx

StepsNext ==
  \/ \E r \in Refs, mode \in Modes, prepaid \in Prepaid, limit \in Limits :
       Count(r, mode, prepaid, limit)
  \/ SumBalance \/ SumCredit \/ Insert \/ Reject
  \/ Unlocked \/ Locked

StepsSpec == StepsInit /\ [][StepsNext]_steps

-----------------------------------------------------------------------------
(* Properties.                                                             *)

Tx == [at : {"counted", "summed", "ready"}, ref : Refs, mode : Modes, prepaid : Prepaid,
       limit : Limits, slots : 1..MaxActive, forBalance : Nat, forCredit : Nat, fair : Nat]

StepsTypeOK ==
  /\ TypeOK
  /\ tx \in {NoTx} \cup Tx
  /\ tx # NoTx => reservation[tx.ref].status = "none"

\* "Atomically reserves" (ReserveUsageBalance): what commits between its reads
\* never makes a grant exceed what is free when it commits.
GrantsWithinBudget ==
  [][\A r \in Refs : Granted(r) =>
       /\ Cardinality(Holders') <= MaxActive
       /\ reservation'[r].balance > 0 => HeldBalance' <= balance
       /\ reservation'[r].credit > 0 =>
            Used(month) + HeldCredit(month, NoRef)' <= reservation'[r].limit]_steps

\* Why it holds: what the transaction has read is free as long as it runs.  What commits
\* meanwhile gives back, and never takes, if no lapsed call takes its slot again.
ReadsHold ==
  tx # NoTx =>
    /\ tx.slots + Cardinality(Holders) <= MaxActive
    /\ tx.forBalance > 0 => HeldBalance + tx.forBalance <= balance
    /\ tx.forCredit > 0 => Used(month) + HeldCredit(month, NoRef) + tx.forCredit <= tx.limit
    /\ tx.at = "ready" => tx.mode = "period"
    /\ tx.at # "ready" => tx.forCredit = 0

StepsInvariant == StepsTypeOK /\ ReadsHold

-----------------------------------------------------------------------------
(* What the code does not keep: TLC finds a behaviour that violates it.    *)

\* "The default budget is divided by the free slots, which limits the risk of
\* concurrency and keeps branches running in parallel": a grant takes no more
\* than the share it would get at some moment of the transaction.
SharesLeaveRoom == [][Insert /\ tx.prepaid = 0 =>
       Requested <= Greater(tx.fair, ShareNow(tx.mode, tx.limit))]_steps
=============================================================================
