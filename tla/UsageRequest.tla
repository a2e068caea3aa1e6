---------------------------- MODULE UsageRequest ----------------------------
(***************************************************************************)
(* A paid model call from its handler's point of view: authorize, run the  *)
(* call, then release the budget or record the bill, over the repository   *)
(* of UsageBudget.  Database calls may fail before they commit or lose the *)
(* answer after it, the billing context may be done, the process may stop. *)
(***************************************************************************)
EXTENDS UsageBudget

CONSTANTS
  Detached,      \* requests billed under a context of their own (streams, media,
                 \* temporary chats); the others bill under the HTTP request's
  Interrupted,   \* requests whose billing context may end before billing does
  Repriced,      \* requests whose model may lose its price while the call runs
  Attempts,      \* usageBillingRetryAttempts
  MaxFaults,     \* bound: database calls that fail
  MaxCrashes     \* bound: times the process stops

ASSUME RequestAssumption ==
  /\ Detached \subseteq Refs /\ Interrupted \subseteq Refs /\ Repriced \subseteq Refs
  /\ Attempts \in Nat \ {0} /\ MaxFaults \in Nat /\ MaxCrashes \in Nat

VARIABLES
  stage,         \* where the handler of each request is
  billable,      \* SendMessageResult.Billable of a call that returned
  usage,         \* the usage ledger entry built for it: what it cost and when
  tries,         \* attempts made in the current retry loop
  cancelled,     \* the billing context is done
  faults,        \* database calls that failed so far
  crashes        \* times the process stopped so far

handler == <<stage, billable, usage, tries, cancelled, faults, crashes>>
allVars == <<vars, handler>>

Stages ==
  {"idle", "running", "releasing", "building", "settling", "marking", "done", "killed"}
Billing == {"building", "settling", "marking"}
Live == {"running", "releasing"} \cup Billing
Usage == [charge : Charges \cup {0}, date : Months]

RequestTypeOK ==
  /\ TypeOK
  /\ stage \in [Refs -> Stages]
  /\ billable \in [Refs -> BOOLEAN]
  /\ usage \in [Refs -> Usage]
  /\ tries \in [Refs -> 0..(Attempts - 1)]
  /\ cancelled \in [Refs -> BOOLEAN]
  /\ faults \in 0..MaxFaults /\ crashes \in 0..MaxCrashes

RequestInit ==
  /\ Init
  /\ stage = [r \in Refs |-> "idle"]
  /\ billable = [r \in Refs |-> FALSE]
  /\ usage = [r \in Refs |-> [charge |-> 0, date |-> 1]]
  /\ tries = [r \in Refs |-> 0]
  /\ cancelled = [r \in Refs |-> FALSE]
  /\ faults = 0 /\ crashes = 0

-----------------------------------------------------------------------------
Goto(r, next) == stage' = [stage EXCEPT ![r] = next] /\ tries' = [tries EXCEPT ![r] = 0]

\* One database call fails: rolled back, or committed with its answer lost.
Fault(operation) ==
  /\ faults < MaxFaults /\ faults' = faults + 1
  /\ operation \/ UNCHANGED vars

\* retryUsageBillingOperation: a database fault is retried at once, until the
\* attempts are used up or the context is done.
Retry(r, giveUp) ==
  IF tries[r] + 1 < Attempts
  THEN tries' = [tries EXCEPT ![r] = @ + 1] /\ UNCHANGED stage
  ELSE Goto(r, giveUp)

\* AuthorizeUsage: budget reserved, or reserved without the handler learning it.
Authorize(r) ==
  LET reserve == \E mode \in Modes, prepaid \in Prepaid, limit \in Limits :
                   Reserve(r, mode, prepaid, limit)
  IN /\ stage[r] = "idle"
     /\ \/ reserve /\ Goto(r, "running") /\ UNCHANGED faults
        \/ Fault(reserve) /\ Goto(r, "done")
     /\ UNCHANGED <<billable, usage, cancelled, crashes>>

\* Mutant of RenewLease: renewal is not stopped when the handler returns.
RenewLeaseForever(r) ==
  /\ stage[r] # "idle"
  /\ Renew(r)
  /\ UNCHANGED handler

\* startUsageAuthorizationRenewal: until the handler returns; errors are ignored.
RenewLease(r) ==
  /\ stage[r] \in Live
  /\ Renew(r)
  /\ UNCHANGED handler

\* Mutant of CallReturns: a call that failed after the model was paid for is
\* treated like one that left nothing to bill.
CallReturnsOrFails(r) ==
  /\ stage[r] = "running"
  /\ \/ Goto(r, "building") /\ billable' = [billable EXCEPT ![r] = TRUE]
     \/ Goto(r, "releasing") /\ billable' = [billable EXCEPT ![r] = TRUE]
  /\ UNCHANGED <<vars, usage, cancelled, faults, crashes>>

\* The model call returns: with usage to bill, or without.
CallReturns(r) ==
  /\ stage[r] = "running"
  /\ \/ Goto(r, "building") /\ billable' = [billable EXCEPT ![r] = TRUE]
     \/ Goto(r, "releasing") /\ UNCHANGED billable
  /\ UNCHANGED <<vars, usage, cancelled, faults, crashes>>

\* releaseSendMessageUsageAuthorization: once, under its own context; a
\* reservation that is no longer active is left as it is.
ReleaseBudget(r) ==
  LET release == Release(r) \/ (reservation[r].status # "active" /\ UNCHANGED vars)
  IN /\ stage[r] = "releasing"
     /\ (release /\ UNCHANGED faults) \/ Fault(release)
     /\ Goto(r, "done")
     /\ UNCHANGED <<billable, usage, cancelled, crashes>>

\* buildSendMessageUsageLedger prices the call; it reads only.  A model whose
\* price is gone by now, or a context that is done, is not retried.
BuildLedger(r) ==
  /\ stage[r] = "building"
  /\ \/ /\ ~cancelled[r]
        /\ \E charge \in Charges, date \in StartMonths(r) :
             usage' = [usage EXCEPT ![r] = [charge |-> charge, date |-> date]]
        /\ Goto(r, "settling") /\ UNCHANGED <<vars, faults>>
     \/ /\ ~cancelled[r] /\ Fault(FALSE) /\ Retry(r, "marking") /\ UNCHANGED usage
     \/ /\ cancelled[r] \/ r \in Repriced
        /\ Goto(r, "marking") /\ UNCHANGED <<vars, usage, faults>>
  /\ UNCHANGED <<billable, cancelled, crashes>>

\* recordUsageWithRetry: a settlement already committed is restored, not
\* repeated; one that conflicts with the reservation is not retried.
SettleBudget(r) ==
  LET settle == \/ RecordUsage(r, usage[r].charge, usage[r].date)
                \/ reservation[r].status = "settled" /\ UNCHANGED vars
      conflict == reservation[r].status \notin {"active", "reconciliation", "settled"}
  IN /\ stage[r] = "settling"
     /\ \/ ~cancelled[r] /\ settle /\ Goto(r, "done") /\ UNCHANGED faults
        \/ ~cancelled[r] /\ Fault(settle) /\ Retry(r, "marking")
        \/ (cancelled[r] \/ conflict) /\ Goto(r, "marking") /\ UNCHANGED <<vars, faults>>
     /\ UNCHANGED <<billable, usage, cancelled, crashes>>

\* Mutant of MarkBudget: the call is marked without retrying.
MarkBudgetOnce(r) ==
  /\ stage[r] = "marking" /\ ~cancelled[r]
  /\ (MarkReconciliation(r) /\ UNCHANGED faults) \/ Fault(MarkReconciliation(r))
  /\ Goto(r, "done")
  /\ UNCHANGED <<billable, usage, cancelled, crashes>>

\* markUsageAuthorizationForReconciliation, under the same context; a conflict
\* (already settled) is not retried.
MarkBudget(r) ==
  LET conflict == ~Settleable(r)
  IN /\ stage[r] = "marking"
     /\ \/ /\ ~cancelled[r] /\ MarkReconciliation(r)
           /\ Goto(r, "done") /\ UNCHANGED faults
        \/ ~cancelled[r] /\ Fault(MarkReconciliation(r)) /\ Retry(r, "done")
        \/ (cancelled[r] \/ conflict) /\ Goto(r, "done") /\ UNCHANGED <<vars, faults>>
     /\ UNCHANGED <<billable, usage, cancelled, crashes>>

\* The billing context ends: a request's own when its client goes away, a
\* detached one when billing outlasts its deadline.
ContextEnds(r) ==
  /\ r \in Interrupted /\ ~cancelled[r]
  /\ stage[r] \in IF r \in Detached THEN Billing ELSE Live
  /\ cancelled' = [cancelled EXCEPT ![r] = TRUE]
  /\ UNCHANGED <<vars, stage, billable, usage, tries, faults, crashes>>

\* The process stops: nothing about a call in flight survives but its rows.
Crash ==
  /\ crashes < MaxCrashes /\ crashes' = crashes + 1
  /\ \E r \in Refs : stage[r] \in Live
  /\ stage' = [r \in Refs |-> IF stage[r] \in Live THEN "killed" ELSE stage[r]]
  /\ UNCHANGED <<vars, billable, usage, tries, cancelled, faults>>

Environment ==
  /\ \/ \E amount \in Deposits : Deposit(amount)
     \/ \E next \in AdminBalances : AdminSet(next)
     \/ Tick
     \/ NextMonth
  /\ UNCHANGED handler

HandlerStep(r) ==
  CallReturns(r) \/ ReleaseBudget(r) \/ BuildLedger(r) \/ SettleBudget(r) \/ MarkBudget(r)

RequestNext ==
  \/ \E r \in Refs : Authorize(r) \/ RenewLease(r) \/ HandlerStep(r) \/ ContextEnds(r)
  \/ Crash
  \/ Environment

RequestSpec == RequestInit /\ [][RequestNext]_allVars

\* Calls return (upstream timeouts), handlers run on, the clock advances.
FairRequestSpec ==
  /\ RequestSpec
  /\ \A r \in Refs : WF_allVars(HandlerStep(r))
  /\ WF_allVars(Tick /\ UNCHANGED handler)

-----------------------------------------------------------------------------
(* Properties *)

\* Budget is given back only for calls that left nothing to bill, whatever
\* failed, was retried or raced (handler_message_send.go, result.Billable).
ReleasedOnlyUnbilled ==
  \A r \in Refs : reservation[r].status = "released" => ~billable[r]

\* When the handler of a call with usage to bill has returned, and its billing
\* context did not end first, the usage is billed or its budget is kept for
\* reconciliation: it never just lapses, whatever failed and was retried
\* (service_billing.go, markUsageAuthorizationForReconciliation).
AccountedFor(r) == reservation[r].status \in {"settled", "reconciliation"}

BillableAccountedFor ==
  \A r \in Refs : stage[r] = "done" /\ billable[r] /\ ~cancelled[r] => AccountedFor(r)

\* The same of every request, also one whose client went away.
BillableNeverLapses ==
  \A r \in Refs : stage[r] = "done" /\ billable[r] => AccountedFor(r)

\* A settled call was billed what it cost, once, although settlement was
\* retried after answers were lost.
BilledWhatItCost ==
  \A r \in Refs : reservation[r].status = "settled" =>
    LET rows == {i \in DOMAIN ledger : ledger[i].ref = r}
    IN \E i \in rows : rows = {i} /\ ledger[i].billed = usage[r].charge

\* The inductive invariant of the proofs.  How far the handler of a request has come
\* says what its reservation can be, and what a settled one was billed.
HandlerSound(r) ==
  /\ stage[r] \in {"idle", "running", "releasing"} => ~billable[r]
  /\ stage[r] \in {"idle", "running"} => reservation[r].status # "released"
  /\ stage[r] \in {"idle", "running", "releasing", "building"} =>
       reservation[r].status # "settled"
  /\ stage[r] = "settling" => usage[r].charge \in Charges /\ usage[r].date \in StartMonths(r)
  /\ reservation[r].status = "released" => ~billable[r]
  /\ reservation[r].status = "settled" =>
       ledger[reservation[r].ledgerId].billed = usage[r].charge

\* As long as fewer database calls fail than a retry loop makes, no loop gives up, and
\* the handler returns with the usage accounted for.
AccountSound(r) ==
  /\ tries[r] <= faults
  /\ stage[r] = "running" => reservation[r].status = "active"
  /\ stage[r] \in Billing => reservation[r].status \in {"active", "reconciliation", "settled"}
  /\ stage[r] = "done" /\ billable[r] /\ ~cancelled[r] => AccountedFor(r)

RequestInvariant == RequestTypeOK /\ Invariant /\ \A r \in Refs : HandlerSound(r)

\* No hold outlives its call for ever: it is settled, released, kept for
\* reconciliation, or lapses (after a crash, a lost answer or a failed release).
HoldsEnd ==
  \A r \in Refs :
    (reservation[r].status = "active" /\ reservation[r].ttl > 0)
      ~> ~(reservation[r].status = "active" /\ reservation[r].ttl > 0)

\* Usage that is to be billed is eventually billed or kept for reconciliation,
\* unless its billing context ends or the process stops before.
BillableEventuallyAccountedFor ==
  \A r \in Refs : billable[r] ~> AccountedFor(r) \/ cancelled[r] \/ stage[r] = "killed"

\* No call leaves its budget or its bill open for ever.
CallsSettle == HoldsEnd /\ BillableEventuallyAccountedFor
=============================================================================
