--------------------------- MODULE GenerationLease --------------------------
(***************************************************************************)
(* Who runs one run id: requests register with the registry of their       *)
(* process and with the shared cache, a goroutine keeps the lease alive,   *)
(* users cancel from any process, a timer bounds the run time, and the     *)
(* handler finishes the run.  A retry may register under the same run id.  *)
(***************************************************************************)
EXTENDS Integers

CONSTANTS
  Processes,     \* server processes that share the cache
  Requests,      \* requests of the run's owner with this run id
  Places,        \* which process may serve which request: functions
  NoRequest,
  MaxCancels     \* bound: calls of CancelMessageGeneration

ASSUME LeaseAssumption ==
  Places \subseteq [Requests -> Processes] /\ NoRequest \notin Requests /\ MaxCancels \in Nat

VARIABLES
  At,            \* the process that serves a request; chosen at the start
  overlapped,    \* history: two requests were under way at the same time
  owner,         \* the owner key in the cache: "none", "held" or "expiring"
  lease,         \* the run is listed as active
  canceled,      \* the shared cancel marker
  active,        \* per process: the entry of the registry
  pc,            \* where the handler of a request is
  context,       \* whether the context of a request is still open
  refreshing,    \* requests whose lease goroutine has not been stopped
  touching,      \* those whose goroutine is about to write the lease
  timed,         \* requests whose timer is armed
  firing,        \* those whose timer function was started and waits for the lock
  dropped,       \* those whose timer removed the entry and goes on to clean up
  taken,         \* the entry that a finishing handler removed
  cancel,        \* per process: where a call that cancels is
  calls          \* those made

vars == <<owner, lease, canceled, active, pc, context, refreshing, touching,
          timed, firing, dropped, taken, cancel, calls>>

Stages == {"idle", "stored", "generating", "ended", "removed", "cleared", "done",
           "crashed"}

TypeOK ==
  /\ At \in Places /\ overlapped \in BOOLEAN
  /\ owner \in {"none", "held", "expiring"}
  /\ lease \in BOOLEAN /\ canceled \in BOOLEAN
  /\ active \in [Processes -> Requests \cup {NoRequest}]
  /\ pc \in [Requests -> Stages]
  /\ context \in [Requests -> {"open", "cancelled"}]
  /\ refreshing \subseteq Requests /\ touching \subseteq Requests
  /\ timed \subseteq refreshing /\ firing \subseteq Requests /\ dropped \subseteq Requests
  /\ taken \in [Requests -> Requests \cup {NoRequest}]
  /\ cancel \in [Processes -> {"idle", "marked", "stopped"}] /\ calls \in 0..MaxCancels

Init ==
  /\ At \in Places /\ overlapped = FALSE
  /\ owner = "none" /\ lease = FALSE /\ canceled = FALSE
  /\ active = [p \in Processes |-> NoRequest]
  /\ pc = [r \in Requests |-> "idle"]
  /\ context = [r \in Requests |-> "open"]
  /\ refreshing = {} /\ touching = {} /\ timed = {}
  /\ firing = {} /\ dropped = {}
  /\ taken = [r \in Requests |-> NoRequest]
  /\ cancel = [p \in Processes |-> "idle"] /\ calls = 0

-----------------------------------------------------------------------------
(* The cache: only the owner may touch or clear the lease. *)

Touch == lease' = (lease \/ owner # "none")
Clear == lease' = (lease /\ owner = "none")

\* stopActiveGeneration.
Stop(r) == timed' = timed \ {r} /\ refreshing' = refreshing \ {r}

-----------------------------------------------------------------------------
(* register *)

\* The cache learns the owner and forgets an older cancellation ...
StoreRegistration(r) ==
  /\ pc[r] = "idle"
  /\ pc' = [pc EXCEPT ![r] = "stored"]
  /\ owner' = "held" /\ canceled' = FALSE
  /\ UNCHANGED <<lease, active, context, refreshing, touching, timed, dropped, taken,
                 firing, cancel, calls>>

\* Mutant of Install: the entry that is replaced is forgotten.
InstallForgetful(r) ==
  /\ pc[r] = "stored"
  /\ Touch
  /\ active' = [active EXCEPT ![At[r]] = r]
  /\ pc' = [pc EXCEPT ![r] = "generating"]
  /\ refreshing' = refreshing \cup {r} /\ timed' = timed \cup {r}
  /\ UNCHANGED <<owner, canceled, context, touching, dropped, taken, firing, cancel, calls>>

\* ... then the entry of the process is replaced and what it held is stopped.
Install(r) ==
  LET replaced == active[At[r]] IN
  /\ pc[r] = "stored"
  /\ Touch
  /\ active' = [active EXCEPT ![At[r]] = r]
  /\ pc' = [pc EXCEPT ![r] = "generating"]
  /\ refreshing' = (refreshing \cup {r}) \ {replaced}
  /\ timed' = (timed \cup {r}) \ {replaced}
  /\ context' = [q \in Requests |-> IF q = replaced THEN "cancelled" ELSE context[q]]
  /\ UNCHANGED <<owner, canceled, touching, dropped, taken, firing, cancel, calls>>

\* A request that is refused before it registers, which is finished all the same.
Refuse(r) ==
  /\ pc[r] = "idle"
  /\ pc' = [pc EXCEPT ![r] = "ended"]
  /\ UNCHANGED <<owner, lease, canceled, active, context, refreshing, touching, timed,
                 dropped, taken, firing, cancel, calls>>

-----------------------------------------------------------------------------
(* The lease goroutine: a tick may be under way when the goroutine is stopped. *)

Tick(r) ==
  /\ r \in refreshing \ touching /\ touching' = touching \cup {r}
  /\ UNCHANGED <<owner, lease, canceled, active, pc, context, refreshing, timed, dropped,
                 taken, firing, cancel, calls>>

\* Mutant of WriteLease: the lease is set once and not refreshed.
WriteLeaseNever(r) ==
  /\ r \in touching /\ touching' = touching \ {r}
  /\ UNCHANGED <<owner, lease, canceled, active, pc, context, refreshing, timed, dropped,
                 taken, firing, cancel, calls>>

\* TouchGenerationStreamActive; with its context cancelled the call may be given up.
WriteLease(r) ==
  /\ r \in touching /\ touching' = touching \ {r}
  /\ Touch \/ (r \notin refreshing /\ UNCHANGED lease)
  /\ UNCHANGED <<owner, canceled, active, pc, context, refreshing, timed, dropped, taken,
                 firing, cancel, calls>>

\* Refreshed three times as often as it runs out, the lease only does when nobody does.
LeaseExpires ==
  /\ lease /\ refreshing = {} /\ touching = {} /\ lease' = FALSE
  /\ UNCHANGED <<owner, canceled, active, pc, context, refreshing, touching, timed,
                 dropped, taken, firing, cancel, calls>>

OwnerExpires ==
  /\ owner = "expiring" /\ owner' = "none"
  /\ UNCHANGED <<lease, canceled, active, pc, context, refreshing, touching, timed,
                 dropped, taken, firing, cancel, calls>>

-----------------------------------------------------------------------------
(* The generation. *)

End(r) ==
  /\ pc' = [pc EXCEPT ![r] = "ended"]
  /\ UNCHANGED <<owner, lease, canceled, active, context, refreshing, touching, timed,
                 dropped, taken, firing, cancel, calls>>

Complete(r) == pc[r] = "generating" /\ End(r)

\* Mutant of NoticeCancel: the shared marker is not polled.
NoticeContextOnly(r) == pc[r] = "generating" /\ context[r] = "cancelled" /\ End(r)

\* Its context was cancelled, or an event of the stream finds the marker.
NoticeCancel(r) ==
  /\ pc[r] = "generating" /\ (context[r] = "cancelled" \/ canceled)
  /\ End(r)

-----------------------------------------------------------------------------
(* finish *)

FinishRemove(r) ==
  /\ pc[r] = "ended"
  /\ pc' = [pc EXCEPT ![r] = "removed"]
  /\ taken' = [taken EXCEPT ![r] = active[At[r]]]
  /\ active' = [active EXCEPT ![At[r]] = NoRequest]
  /\ UNCHANGED <<owner, lease, canceled, context, refreshing, touching, timed, dropped,
                 firing, cancel, calls>>

FinishClear(r) ==
  /\ pc[r] = "removed"
  /\ pc' = [pc EXCEPT ![r] = "cleared"] /\ Clear
  /\ UNCHANGED <<owner, canceled, active, context, refreshing, touching, timed, dropped,
                 taken, firing, cancel, calls>>

FinishStop(r) ==
  /\ pc[r] = "cleared"
  /\ pc' = [pc EXCEPT ![r] = "done"]
  /\ owner' = IF owner = "none" THEN "none" ELSE "expiring"
  /\ Stop(taken[r]) /\ taken' = [taken EXCEPT ![r] = NoRequest]
  /\ UNCHANGED <<lease, canceled, active, context, touching, dropped, firing, cancel, calls>>

-----------------------------------------------------------------------------
(* cancel and cancelForced, at any process *)

CancelMark(p) ==
  /\ cancel[p] = "idle" /\ owner # "none" /\ calls < MaxCancels
  /\ cancel' = [cancel EXCEPT ![p] = "marked"] /\ calls' = calls + 1
  /\ canceled' = TRUE
  /\ UNCHANGED <<owner, lease, active, pc, context, refreshing, touching, timed, dropped,
                 taken, firing>>

CancelStop(p) ==
  /\ cancel[p] = "marked"
  /\ cancel' = [cancel EXCEPT ![p] = "stopped"]
  /\ active' = [active EXCEPT ![p] = NoRequest]
  /\ Stop(active[p])
  /\ context' = [r \in Requests |-> IF r = active[p] THEN "cancelled" ELSE context[r]]
  /\ UNCHANGED <<owner, lease, canceled, pc, touching, dropped, taken, firing, calls>>

CancelClear(p) ==
  /\ cancel[p] = "stopped"
  /\ cancel' = [cancel EXCEPT ![p] = "idle"] /\ Clear
  /\ UNCHANGED <<owner, canceled, active, pc, context, refreshing, touching, timed,
                 dropped, taken, firing, calls>>

-----------------------------------------------------------------------------
(* The timer that bounds the run time. *)

\* The runtime starts the function, which stopActiveGeneration then cannot stop.
TimerStarts(r) ==
  /\ r \in timed /\ timed' = timed \ {r} /\ firing' = firing \cup {r}
  /\ UNCHANGED <<owner, lease, canceled, active, pc, context, refreshing, touching,
                 dropped, taken, cancel, calls>>

TimerFires(r) ==
  /\ r \in firing /\ firing' = firing \ {r}
  /\ IF active[At[r]] = r
     THEN /\ active' = [active EXCEPT ![At[r]] = NoRequest]
          /\ dropped' = dropped \cup {r}
          /\ Stop(r)
     ELSE UNCHANGED <<active, dropped, refreshing, timed>>
  /\ UNCHANGED <<owner, lease, canceled, pc, context, touching, taken, cancel, calls>>

TimerCancels(r) ==
  /\ r \in dropped /\ dropped' = dropped \ {r}
  /\ Clear /\ context' = [context EXCEPT ![r] = "cancelled"]
  /\ UNCHANGED <<owner, canceled, active, pc, refreshing, touching, timed, taken, firing,
                 cancel, calls>>

\* A process stops with everything it served; the cache stays.
Crash(p) ==
  LET local == {r \in Requests : At[r] = p}
      served == {r \in local : pc[r] \notin {"idle", "done", "crashed"}} IN
  /\ served # {}
  /\ pc' = [r \in Requests |-> IF r \in served THEN "crashed" ELSE pc[r]]
  /\ active' = [active EXCEPT ![p] = NoRequest]
  /\ refreshing' = refreshing \ local /\ touching' = touching \ local
  /\ timed' = timed \ local /\ firing' = firing \ local
  /\ dropped' = dropped \ local
  /\ taken' = [r \in Requests |-> IF r \in served THEN NoRequest ELSE taken[r]]
  /\ cancel' = [cancel EXCEPT ![p] = "idle"]
  /\ UNCHANGED <<owner, lease, canceled, context, calls>>

-----------------------------------------------------------------------------
Handle(r) ==
  \/ Install(r) \/ NoticeCancel(r) \/ FinishRemove(r) \/ FinishClear(r) \/ FinishStop(r)
  \/ TimerFires(r) \/ TimerCancels(r)

Refresh(r) == Tick(r) \/ WriteLease(r)

UnderWay(r) == pc[r] \notin {"idle", "done", "crashed"}

Step ==
  \/ \E r \in Requests :
       \/ StoreRegistration(r) \/ Refuse(r) \/ Complete(r) \/ TimerStarts(r)
       \/ Handle(r) \/ Refresh(r)
  \/ \E p \in Processes : CancelMark(p) \/ CancelStop(p) \/ CancelClear(p) \/ Crash(p)
  \/ LeaseExpires \/ OwnerExpires

Next ==
  /\ Step /\ UNCHANGED At
  /\ overlapped' = (overlapped \/ \E q, r \in Requests : q # r /\ UnderWay(q)' /\ UnderWay(r)')

Spec == Init /\ [][Next]_<<At, overlapped, vars>>

\* A handler that has something to do does it; a running generation need not complete.
FairSpec ==
  /\ Spec /\ WF_vars(LeaseExpires)
  /\ \A r \in Requests : WF_vars(Handle(r)) /\ WF_vars(Refresh(r))
  /\ \A p \in Processes : WF_vars(CancelStop(p) \/ CancelClear(p))

-----------------------------------------------------------------------------
Running(r) == pc[r] = "generating" /\ context[r] = "open" /\ ~canceled
Over == \A r \in Requests : pc[r] \in {"idle", "done", "crashed"}

\* No goroutine goes on refreshing a lease that nobody will stop: each belongs to an
\* entry of a registry, or to a handler that has taken the entry and is finishing.
RefreshIsOwned ==
  \A r \in refreshing : active[At[r]] = r \/ \E q \in Requests : taken[q] = r

\* A generation that goes on can be stopped at its process, unless the timer that
\* removed its entry is about to cancel it.  Excepted are requests that overlap under
\* one run id: the first to finish removes the entry of the other.
RunningIsStoppable ==
  ~overlapped => \A r \in Requests : Running(r) => active[At[r]] = r \/ r \in dropped

LeaseSafety == TypeOK /\ RefreshIsOwned /\ RunningIsStoppable

\* What makes the two inductive: a registry holds requests of its own process only, and
\* only a handler between removing and stopping has taken an entry.
EntriesAreLocal ==
  /\ \A p \in Processes : active[p] # NoRequest => At[active[p]] = p
  /\ \A r \in Requests : taken[r] # NoRequest =>
       At[taken[r]] = At[r] /\ pc[r] \in {"removed", "cleared"}

LeaseInvariant == LeaseSafety /\ EntriesAreLocal

\* Once all handlers are done the run is not listed any more; it may be listed
\* again for the length of a lease, but not for ever.
LeaseEnds == []<>(Over => ~lease)

\* A running generation that was not cancelled is listed, at the latest when its
\* lease is refreshed, if no other request overlaps with it.
RunningIsListed ==
  \A r \in Requests : Running(r) ~> (lease \/ overlapped \/ ~Running(r))

\* The list of running generations is true again and again.
ListIsTrue == LeaseEnds /\ RunningIsListed

\* A generation that was cancelled, at its own process or another one, stops; unless
\* meanwhile a request under its run id registered at another process, which clears the
\* marker that all share.
CancelStops ==
  \A r \in Requests :
    pc[r] = "generating" /\ canceled
      ~> pc[r] # "generating" \/ (overlapped /\ \E q \in Requests : At[q] # At[r])
=============================================================================
