-------------------------- MODULE GenerationProofs --------------------------
(***************************************************************************)
(* Proofs about GenerationLease: whatever registers, finishes, cancels,    *)
(* times out or stops, and in whatever order, no lease goroutine is left   *)
(* without somebody who stops it, and a running generation can be stopped; *)
(* and about GenerationStream: what was withdrawn is not kept for clients  *)
(* that resume, and every client holds exactly the text that was published *)
(* up to the last event it saw.                                            *)
(***************************************************************************)
EXTENDS GenerationLease, GenerationStream, SequenceTheorems, WellFoundedInduction, TLAPS

(* The lease: GenerationLease. *)

\* The steps that concern one request, and those of the cache alone.
RequestStep(r) ==
  \/ StoreRegistration(r) \/ Refuse(r) \/ Complete(r) \/ TimerStarts(r)
  \/ Handle(r) \/ Refresh(r)
ProcessStep(p) == CancelMark(p) \/ CancelStop(p) \/ CancelClear(p) \/ Crash(p)

\* What Next adds to Step.
Overlaps == \E q, r \in Requests : q # r /\ UnderWay(q)' /\ UnderWay(r)'
Noted == At' = At /\ overlapped' = (overlapped \/ Overlaps)

-----------------------------------------------------------------------------
(* Types.                                                                  *)

LEMMA TypeInit == Init => TypeOK
<1> SUFFICES ASSUME Init PROVE TypeOK
  OBVIOUS
<1>1. 0 \in 0..MaxCancels
  BY LeaseAssumption
<1> QED BY <1>1 DEF Init, TypeOK, Stages

LEMMA LeaseType == (Touch \/ Clear) /\ lease \in BOOLEAN => lease' \in BOOLEAN
BY DEF Touch, Clear

LEMMA StopType ==
  ASSUME NEW r, timed \subseteq refreshing, refreshing \subseteq Requests, Stop(r)
  PROVE  timed' \subseteq refreshing' /\ refreshing' \subseteq Requests
BY DEF Stop

LEMMA TypeStep == TypeOK /\ Step /\ Noted => TypeOK'
<1> SUFFICES ASSUME TypeOK, Step, Noted PROVE TypeOK'
  OBVIOUS
<1> USE LeaseAssumption, LeaseType, StopType DEF TypeOK
<1>1. At' \in Places /\ overlapped' \in BOOLEAN
  BY DEF Noted, Overlaps
<1>2. ASSUME NEW r \in Requests, RequestStep(r) PROVE TypeOK'
  <2>1. CASE StoreRegistration(r)
    BY <1>1, <2>1 DEF StoreRegistration, Stages
  <2>2. CASE Refuse(r) \/ Complete(r) \/ NoticeCancel(r)
    BY <1>1, <2>2 DEF Refuse, Complete, NoticeCancel, End, Stages
  <2>3. CASE Install(r)
    <3>1. active' \in [Processes -> Requests \cup {NoRequest}]
      BY <2>3 DEF Install
    <3>2. context' \in [Requests -> {"open", "cancelled"}]
      BY <2>3 DEF Install
    <3> QED BY <1>1, <2>3, <3>1, <3>2 DEF Install, Stages
  <2>4. CASE FinishRemove(r)
    BY <1>1, <2>4 DEF FinishRemove, Stages
  <2>5. CASE FinishClear(r)
    BY <1>1, <2>5 DEF FinishClear, Stages
  <2>6. CASE FinishStop(r)
    BY <1>1, <2>6 DEF FinishStop, Stages
  <2>7. CASE TimerStarts(r)
    BY <1>1, <2>7 DEF TimerStarts
  <2>8. CASE TimerFires(r)
    BY <1>1, <2>8 DEF TimerFires
  <2>9. CASE TimerCancels(r)
    BY <1>1, <2>9 DEF TimerCancels
  <2>10. CASE Refresh(r)
    BY <1>1, <2>10 DEF Refresh, Tick, WriteLease
  <2> QED BY <1>2, <2>1, <2>2, <2>3, <2>4, <2>5, <2>6, <2>7, <2>8, <2>9, <2>10
          DEF RequestStep, Handle
<1>3. ASSUME NEW p \in Processes, ProcessStep(p) PROVE TypeOK'
  <2>1. CASE CancelMark(p)
    BY <1>1, <2>1 DEF CancelMark
  <2>2. CASE CancelStop(p)
    BY <1>1, <2>2 DEF CancelStop
  <2>3. CASE CancelClear(p)
    BY <1>1, <2>3 DEF CancelClear
  <2>4. CASE Crash(p)
    <3>1. pc' \in [Requests -> Stages] /\ taken' \in [Requests -> Requests \cup {NoRequest}]
      BY <2>4 DEF Crash, Stages
    <3> QED BY <1>1, <2>4, <3>1 DEF Crash
  <2> QED BY <1>3, <2>1, <2>2, <2>3, <2>4 DEF ProcessStep
<1>4. CASE LeaseExpires \/ OwnerExpires
  BY <1>1, <1>4 DEF LeaseExpires, OwnerExpires
<1> QED BY <1>2, <1>3, <1>4 DEF Step, RequestStep, ProcessStep

-----------------------------------------------------------------------------
(* Who owns a lease goroutine.                                             *)

Owned == EntriesAreLocal /\ RefreshIsOwned

\* A step that takes no entry out of a registry or of a handler and starts no goroutine.
LEMMA OwnedFrame ==
  ASSUME Owned, At' = At, active' = active, taken' = taken, refreshing' \subseteq refreshing,
         \A q \in Requests : taken[q] # NoRequest => pc'[q] \in {"removed", "cleared"}
  PROVE  Owned'
BY DEF Owned, EntriesAreLocal, RefreshIsOwned

LEMMA OwnedStep == TypeOK /\ Owned /\ Step /\ Noted => Owned'
<1> SUFFICES ASSUME TypeOK, Owned, Step, Noted PROVE Owned'
  OBVIOUS
<1>1. At' = At
  BY DEF Noted
<1> USE LeaseAssumption DEF TypeOK
<1>2. ASSUME NEW r \in Requests, RequestStep(r) PROVE Owned'
  <2>1. CASE StoreRegistration(r) \/ Refuse(r) \/ Complete(r) \/ NoticeCancel(r)
    <3>1. pc[r] \notin {"removed", "cleared"} /\ \A q \in Requests \ {r} : pc'[q] = pc[q]
      BY <2>1 DEF StoreRegistration, Refuse, Complete, NoticeCancel, End
    <3> QED BY <1>1, <2>1, <3>1, OwnedFrame
            DEF StoreRegistration, Refuse, Complete, NoticeCancel, End, Owned, EntriesAreLocal
  \* The goroutine of the entry that is replaced is stopped.
  <2>2. CASE Install(r)
    <3>1. /\ taken' = taken /\ active'[At[r]] = r
          /\ \A p \in Processes \ {At[r]} : active'[p] = active[p]
          /\ \A q \in refreshing' : q = r \/ (q \in refreshing /\ q # active[At[r]])
          /\ \A q \in Requests \ {r} : pc'[q] = pc[q]
          /\ taken[r] = NoRequest
      BY <2>2 DEF Install, Owned, EntriesAreLocal
    <3>2. EntriesAreLocal'
      BY <1>1, <3>1 DEF Owned, EntriesAreLocal
    <3>3. RefreshIsOwned'
      BY <1>1, <3>1 DEF Owned, RefreshIsOwned
    <3> QED BY <3>2, <3>3 DEF Owned
  \* The entry moves from the registry to the handler ...
  <2>3. CASE FinishRemove(r)
    <3>1. /\ refreshing' = refreshing /\ taken[r] = NoRequest
          /\ active'[At[r]] = NoRequest /\ taken'[r] = active[At[r]]
          /\ \A p \in Processes \ {At[r]} : active'[p] = active[p]
          /\ pc'[r] = "removed"
          /\ \A q \in Requests \ {r} : taken'[q] = taken[q] /\ pc'[q] = pc[q]
      BY <2>3 DEF FinishRemove, Owned, EntriesAreLocal
    <3>2. EntriesAreLocal'
      BY <1>1, <3>1 DEF Owned, EntriesAreLocal
    <3>3. RefreshIsOwned'
      BY <1>1, <3>1 DEF Owned, RefreshIsOwned
    <3> QED BY <3>2, <3>3 DEF Owned
  <2>4. CASE FinishClear(r)
    BY <1>1, <2>4, OwnedFrame DEF FinishClear, Owned, EntriesAreLocal
  \* ... which stops its goroutine before it lets go of it.
  <2>5. CASE FinishStop(r)
    <3>1. /\ active' = active /\ refreshing' = refreshing \ {taken[r]}
          /\ taken'[r] = NoRequest
          /\ \A q \in Requests \ {r} : taken'[q] = taken[q] /\ pc'[q] = pc[q]
      BY <2>5 DEF FinishStop, Stop
    <3>2. EntriesAreLocal'
      BY <1>1, <3>1 DEF Owned, EntriesAreLocal
    <3>3. RefreshIsOwned'
      BY <1>1, <3>1 DEF Owned, RefreshIsOwned
    <3> QED BY <3>2, <3>3 DEF Owned
  <2>6. CASE TimerFires(r) /\ active[At[r]] = r
    <3>1. /\ taken' = taken /\ pc' = pc /\ refreshing' = refreshing \ {r}
          /\ active' = [active EXCEPT ![At[r]] = NoRequest]
      BY <2>6 DEF TimerFires, Stop
    <3>2. EntriesAreLocal'
      BY <1>1, <3>1 DEF Owned, EntriesAreLocal
    <3>3. RefreshIsOwned'
      BY <1>1, <2>6, <3>1 DEF Owned, RefreshIsOwned, EntriesAreLocal
    <3> QED BY <3>2, <3>3 DEF Owned
  <2>7. CASE \/ TimerFires(r) /\ active[At[r]] # r
             \/ TimerStarts(r) \/ TimerCancels(r) \/ Refresh(r)
    BY <1>1, <2>7, OwnedFrame
       DEF TimerFires, TimerStarts, TimerCancels, Refresh, Tick, WriteLease, Owned,
           EntriesAreLocal
  <2> QED BY <1>2, <2>1, <2>2, <2>3, <2>4, <2>5, <2>6, <2>7 DEF RequestStep, Handle
<1>3. ASSUME NEW p \in Processes, ProcessStep(p) PROVE Owned'
  <2>1. CASE CancelMark(p) \/ CancelClear(p)
    BY <1>1, <2>1, OwnedFrame DEF CancelMark, CancelClear, Owned, EntriesAreLocal
  <2>2. CASE CancelStop(p)
    <3>1. /\ taken' = taken /\ pc' = pc /\ refreshing' = refreshing \ {active[p]}
          /\ active' = [active EXCEPT ![p] = NoRequest]
      BY <2>2 DEF CancelStop, Stop
    <3>2. EntriesAreLocal'
      BY <1>1, <3>1 DEF Owned, EntriesAreLocal
    <3>3. RefreshIsOwned'
      BY <1>1, <3>1 DEF Owned, RefreshIsOwned, EntriesAreLocal
    <3> QED BY <3>2, <3>3 DEF Owned
  \* What the process held, and its handlers had taken, was served by the process.
  <2>3. CASE Crash(p)
    <3>1. /\ active' = [active EXCEPT ![p] = NoRequest]
          /\ \A q \in refreshing' : q \in refreshing /\ At[q] # p
          /\ \A q \in Requests : \/ taken'[q] = taken[q] /\ pc'[q] = pc[q]
                                 \/ taken'[q] = NoRequest /\ At[q] = p
      BY <2>3 DEF Crash
    <3>2. EntriesAreLocal'
      BY <1>1, <3>1 DEF Owned, EntriesAreLocal
    <3>3. RefreshIsOwned'
      BY <1>1, <3>1 DEF Owned, RefreshIsOwned, EntriesAreLocal
    <3> QED BY <3>2, <3>3 DEF Owned
  <2> QED BY <1>3, <2>1, <2>2, <2>3 DEF ProcessStep
<1>4. CASE LeaseExpires \/ OwnerExpires
  BY <1>1, <1>4, OwnedFrame DEF LeaseExpires, OwnerExpires, Owned, EntriesAreLocal
<1> QED BY <1>2, <1>3, <1>4 DEF Step, RequestStep, ProcessStep

-----------------------------------------------------------------------------
(* Who can stop a running generation.                                      *)

\* Nobody starts to run, and what is taken from a registry stops, or will be stopped.
LEMMA StoppableFrame ==
  ASSUME RunningIsStoppable, Noted,
         \A r \in Requests : Running(r)' =>
           /\ Running(r)
           /\ active'[At[r]] = active[At[r]] \/ active'[At[r]] = r
           /\ r \in dropped => r \in dropped'
  PROVE  RunningIsStoppable'
BY DEF RunningIsStoppable, Noted

LEMMA StoppableStep ==
  TypeOK /\ EntriesAreLocal /\ RunningIsStoppable /\ Step /\ Noted => RunningIsStoppable'
<1> SUFFICES ASSUME TypeOK, EntriesAreLocal, RunningIsStoppable, Step, Noted
             PROVE  RunningIsStoppable'
  OBVIOUS
<1> USE LeaseAssumption DEF TypeOK
<1>1. At' = At /\ (overlapped \/ Overlaps => overlapped')
  BY DEF Noted
\* A step of one request while another one runs.
<1>2. ASSUME NEW q \in Requests, NEW r \in Requests, q # r,
             pc'[q] = "generating", pc'[r] \notin {"idle", "done", "crashed"}
      PROVE  RunningIsStoppable'
  BY <1>1, <1>2 DEF Overlaps, UnderWay, RunningIsStoppable
<1>3. ASSUME NEW r \in Requests, RequestStep(r) PROVE RunningIsStoppable'
  <2>1. CASE \/ StoreRegistration(r) \/ Refuse(r) \/ Install(r) \/ FinishRemove(r)
             \/ FinishClear(r)
    <3>1. /\ pc'[r] \notin {"idle", "done", "crashed"}
          /\ pc'[r] = "generating" => active'[At[r]] = r
      BY <2>1 DEF StoreRegistration, Refuse, Install, FinishRemove, FinishClear
    <3>2. CASE \E q \in Requests \ {r} : pc'[q] = "generating"
      BY <1>2, <3>1, <3>2
    <3>3. CASE \A q \in Requests \ {r} : pc'[q] # "generating"
      BY <1>1, <3>1, <3>3 DEF RunningIsStoppable, Running
    <3> QED BY <3>2, <3>3
  <2>2. CASE Complete(r) \/ NoticeCancel(r)
    BY <2>2, StoppableFrame DEF Complete, NoticeCancel, End, Running
  <2>3. CASE FinishStop(r)
    BY <2>3, StoppableFrame DEF FinishStop, Running
  <2>4. CASE TimerFires(r) /\ active[At[r]] = r
    <3>1. /\ active' = [active EXCEPT ![At[r]] = NoRequest]
          /\ dropped' = dropped \cup {r}
          /\ \A q \in Requests : Running(q)' = Running(q)
      BY <2>4 DEF TimerFires, Running
    <3> QED BY <1>1, <2>4, <3>1 DEF RunningIsStoppable
  <2>5. CASE TimerFires(r) /\ active[At[r]] # r
    BY <2>5, StoppableFrame DEF TimerFires, Running
  <2>6. CASE TimerCancels(r)
    BY <2>6, StoppableFrame DEF TimerCancels, Running
  <2>7. CASE TimerStarts(r) \/ Refresh(r)
    BY <2>7, StoppableFrame DEF TimerStarts, Refresh, Tick, WriteLease, Running
  <2> QED BY <1>3, <2>1, <2>2, <2>3, <2>4, <2>5, <2>6, <2>7 DEF RequestStep, Handle
<1>4. ASSUME NEW p \in Processes, ProcessStep(p) PROVE RunningIsStoppable'
  <2>1. CASE CancelMark(p) \/ CancelClear(p)
    BY <2>1, StoppableFrame DEF CancelMark, CancelClear, Running
  <2>2. CASE CancelStop(p)
    <3>1. \A r \in Requests : Running(r)' => Running(r) /\ r # active[p]
      BY <2>2 DEF CancelStop, Running
    <3>2. dropped' = dropped /\ \A r \in Requests : r # active[p] /\ active[At[r]] = r
                                                    => active'[At[r]] = r
      BY <2>2 DEF CancelStop, EntriesAreLocal
    <3> QED BY <1>1, <3>1, <3>2 DEF RunningIsStoppable
  <2>3. CASE Crash(p)
    <3>1. \A r \in Requests : Running(r)' => Running(r) /\ At[r] # p
      BY <2>3 DEF Crash, Running
    <3> QED BY <2>3, <3>1, StoppableFrame DEF Crash
  <2> QED BY <1>4, <2>1, <2>2, <2>3 DEF ProcessStep
<1>5. CASE LeaseExpires \/ OwnerExpires
  BY <1>5, StoppableFrame DEF LeaseExpires, OwnerExpires, Running
<1> QED BY <1>3, <1>4, <1>5 DEF Step, RequestStep, ProcessStep

-----------------------------------------------------------------------------
(* The theorems.                                                           *)

LEMMA LeaseInvariantInit == Init => LeaseInvariant
<1> SUFFICES ASSUME Init PROVE LeaseInvariant
  OBVIOUS
<1>1. EntriesAreLocal /\ RefreshIsOwned /\ RunningIsStoppable
  BY DEF Init, EntriesAreLocal, RefreshIsOwned, RunningIsStoppable, Running
<1> QED BY <1>1, TypeInit DEF LeaseInvariant, LeaseSafety

LEMMA LeaseInvariantStep ==
  LeaseInvariant /\ [Next]_<<At, overlapped, vars>> => LeaseInvariant'
<1> SUFFICES ASSUME LeaseInvariant, [Next]_<<At, overlapped, vars>> PROVE LeaseInvariant'
  OBVIOUS
<1>1. CASE Next
  <2>1. Step /\ Noted
    BY <1>1 DEF Next, Noted, Overlaps
  <2> QED BY <2>1, TypeStep, OwnedStep, StoppableStep
          DEF LeaseInvariant, LeaseSafety, Owned
<1>2. CASE UNCHANGED <<At, overlapped, vars>>
  BY <1>2 DEF LeaseInvariant, LeaseSafety, TypeOK, EntriesAreLocal, RefreshIsOwned,
              RunningIsStoppable, Running, vars
<1> QED BY <1>1, <1>2

\* The registries, the cache and the timers have their types; every goroutine that
\* refreshes the lease belongs to an entry or to a handler that will stop it; and a
\* generation that goes on can be stopped at its process, unless requests overlapped:
\* for any number of processes, requests and cancellations.
THEOREM LeaseSafetyCorrect == Spec => []LeaseSafety
<1>1. LeaseInvariant => LeaseSafety
  BY DEF LeaseInvariant
<1> QED BY <1>1, LeaseInvariantInit, LeaseInvariantStep, PTL DEF Spec

-----------------------------------------------------------------------------
(* Streams: GenerationStream. *)

\* The last n of a sequence are no more than n, and elements of it.
LEMMA LastOfElements ==
  ASSUME NEW S, NEW s \in Seq(S), NEW n \in Nat
  PROVE  /\ LastOf(s, n) \in Seq(S) /\ Len(LastOf(s, n)) <= n
         /\ \A i \in DOMAIN LastOf(s, n) : \E j \in DOMAIN s : LastOf(s, n)[i] = s[j]
<1>1. CASE Len(s) > n
  <2> DEFINE m == Len(s) - n + 1
  <2>1. Len(s) \in Nat /\ m \in 1..(Len(s) + 1) /\ LastOf(s, n) = SubSeq(s, m, Len(s))
    BY <1>1 DEF LastOf
  <2>2. /\ LastOf(s, n) \in Seq(S) /\ Len(LastOf(s, n)) = n
        /\ \A i \in 1..n : LastOf(s, n)[i] = s[m + i - 1]
    BY <2>1, SubSeqProperties
  <2>3. DOMAIN LastOf(s, n) = 1..n /\ DOMAIN s = 1..Len(s)
    BY <2>2
  <2>4. ASSUME NEW i \in 1..n PROVE \E j \in DOMAIN s : LastOf(s, n)[i] = s[j]
    <3>1. m + i - 1 \in 1..Len(s)
      BY <2>1
    <3> QED BY <2>2, <2>3, <3>1
  <2> QED BY <2>2, <2>3, <2>4
<1>2. CASE ~(Len(s) > n)
  BY <1>2 DEF LastOf
<1> QED BY <1>1, <1>2

\* An event that is appended is numbered next, and the window keeps its length.
LEMMA AppendKeeps ==
  ASSUME CacheTypeOK, NEW type \in EventTypes, seq + 1 \in Seqs, AppendEvent(type)
  PROVE  /\ seq' = seq + 1 /\ seq' \in Nat
         /\ events' \in Seq(Event) /\ Len(events') <= MaxEvents
         /\ text' \in Seq(Seqs) /\ said' \in Seq(Seqs) /\ textSeq' \in 0..seq'
         /\ \A i \in DOMAIN events' : \/ events'[i].type = type
                                      \/ \E j \in DOMAIN events : events'[i] = events[j]
         /\ type # "delta" => UNCHANGED <<text, said>>
         /\ text = said => text' = said'
<1> DEFINE e == [seq |-> seq + 1, type |-> type]
           all == Append(events, e)
<1>1. seq \in Nat /\ events \in Seq(Event) /\ text \in Seq(Seqs) /\ said \in Seq(Seqs) /\ textSeq \in 0..seq
  BY DEF CacheTypeOK
<1>2. e \in Event
  BY DEF Event
<1>3. /\ all \in Seq(Event)
      /\ \A j \in DOMAIN all : all[j] = e \/ \E k \in DOMAIN events : all[j] = events[k]
  <2>1. all \in Seq(Event) /\ Len(all) = Len(events) + 1
        /\ \A j \in 1..Len(events) : all[j] = events[j]
        /\ all[Len(events) + 1] = e
    BY <1>1, <1>2, AppendProperties
  <2>2. DOMAIN all = 1..(Len(events) + 1) /\ DOMAIN events = 1..Len(events) /\ Len(events) \in Nat
    BY <1>1, <2>1
  <2>3. ASSUME NEW j \in DOMAIN all PROVE j = Len(events) + 1 \/ j \in DOMAIN events
    BY <2>2
  <2> QED BY <2>1, <2>2, <2>3
<1>4. events' = LastOf(all, MaxEvents) /\ MaxEvents \in Nat
  BY StreamAssumption DEF AppendEvent
<1> HIDE DEF all
<1>5. /\ events' \in Seq(Event) /\ Len(events') <= MaxEvents
      /\ \A i \in DOMAIN events' : \E j \in DOMAIN all : events'[i] = all[j]
  BY <1>3, <1>4, LastOfElements
<1>6. \A i \in DOMAIN events' : \/ events'[i].type = type
                                \/ \E j \in DOMAIN events : events'[i] = events[j]
  BY <1>3, <1>5
<1>7. /\ seq' = seq + 1 /\ seq' \in Nat
      /\ text' \in Seq(Seqs) /\ said' \in Seq(Seqs) /\ textSeq' \in 0..seq'
  <2>1. CASE type = "delta"
    <3>1. /\ seq' = seq + 1 /\ text' = Append(text, seq + 1) /\ said' = Append(said, seq + 1)
          /\ textSeq' = seq + 1
      BY <2>1 DEF AppendEvent
    <3>2. text' \in Seq(Seqs) /\ said' \in Seq(Seqs)
      BY <1>1, <3>1, AppendProperties
    <3> QED BY <1>1, <3>1, <3>2
  <2>2. CASE type # "delta"
    BY <1>1, <2>2 DEF AppendEvent
  <2> QED BY <2>1, <2>2
<1>8. (type # "delta" => UNCHANGED <<text, said>>) /\ (text = said => text' = said')
  BY DEF AppendEvent
<1> QED BY <1>5, <1>6, <1>7, <1>8

LEMMA ResetKeeps ==
  ASSUME CacheTypeOK, ResetEvents
  PROVE  /\ seq' = seq /\ events' = <<>> /\ text' = <<>> /\ textSeq' \in 0..seq' /\ said' = said
         /\ events' \in Seq(Event) /\ Len(events') <= MaxEvents /\ text' \in Seq(Seqs)
         /\ DOMAIN events' = {}
BY StreamAssumption, EmptySeq DEF ResetEvents, CacheTypeOK

LEMMA CacheInit == StreamInit => CacheInvariant
<1> SUFFICES ASSUME StreamInit PROVE CacheInvariant
  OBVIOUS
<1>1. CacheTypeOK
  BY StreamAssumption, EmptySeq DEF StreamInit, CacheTypeOK
<1>2. SeqWithin
  BY StreamAssumption DEF StreamInit, SeqWithin
<1>3. CacheSound
  BY DEF StreamInit, CacheSound
<1> QED BY <1>1, <1>2, <1>3 DEF CacheInvariant

\* What serves the clients, and the lease, leave the stream alone.
LEMMA OthersRead ==
  ASSUME CacheTypeOK,
         \/ RunExpires
         \/ \E c \in Clients : Disconnect(c) \/ SubscribeList(c) \/ Serve(c)
  PROVE  UNCHANGED <<phase, late, seq, events, text, textSeq, said>> /\ leased' \in BOOLEAN
BY DEF RunExpires, Disconnect, SubscribeList, Serve, SubscribeSnapshot, CheckActive, ActiveTick,
       ReadEvents, Deliver, Update, CacheTypeOK

LEMMA CacheStep == CacheInvariant /\ [StreamNext]_streamVars => CacheInvariant'
<1> SUFFICES ASSUME CacheInvariant, [StreamNext]_streamVars
             PROVE  CacheInvariant'
  OBVIOUS
<1>1. CacheTypeOK /\ SeqWithin /\ CacheSound /\ MaxSeq \in Nat /\ MaxEvents \in Nat
  BY StreamAssumption DEF CacheInvariant
<1>2. CASE UNCHANGED <<phase, late, seq, events, text, textSeq, said>> /\ leased' \in BOOLEAN
  BY <1>1, <1>2 DEF CacheInvariant, CacheTypeOK, SeqWithin, CacheSound
<1>3. ASSUME NEW type \in {"delta", "note"}, Publish(type)
      PROVE  CacheInvariant'
  <2>1. AppendEvent(type) /\ phase = "generating" /\ seq < MaxSeq /\ UNCHANGED <<phase, late, leased>>
    BY <1>3 DEF Publish, Flush
  <2>2. seq + 1 \in Seqs /\ type \in EventTypes
    BY <1>1, <2>1 DEF CacheTypeOK, Seqs, EventTypes
  <2>3. CacheTypeOK' /\ SeqWithin'
    BY <1>1, <2>1, <2>2, AppendKeeps DEF CacheTypeOK, SeqWithin
  <2>4. ASSUME late' = "none"
        PROVE  text' = said' /\ \A i \in DOMAIN events' : events'[i].type # "moderation_blocked"
    <3>1. text = said /\ \A j \in DOMAIN events : events[j].type # "moderation_blocked"
      BY <1>1, <2>1, <2>4 DEF CacheSound
    <3>2. /\ text = said => text' = said'
          /\ \A i \in DOMAIN events' : \/ events'[i].type = type
                                       \/ \E j \in DOMAIN events : events'[i] = events[j]
      BY <1>1, <2>1, <2>2, AppendKeeps
    <3> QED BY <3>1, <3>2
  <2>5. CacheSound'
    BY <2>1, <2>4 DEF CacheSound
  <2> QED BY <2>3, <2>5 DEF CacheInvariant
<1>4. CASE Settle
  BY <1>1, <1>4 DEF Settle, CacheInvariant, CacheTypeOK, SeqWithin, CacheSound
<1>5. CASE Withdraw
  BY <1>1, <1>5, ResetKeeps DEF Withdraw, CacheInvariant, CacheTypeOK, SeqWithin, CacheSound
<1>6. CASE TellBlocked
  <2>1. /\ AppendEvent("moderation_blocked") /\ phase = "withdrawing" /\ phase' = "terminal"
        /\ UNCHANGED <<late, leased>>
    BY <1>6 DEF TellBlocked, Flush
  <2>2. seq + 1 \in Seqs /\ "moderation_blocked" \in EventTypes
    BY <1>1, <2>1 DEF CacheTypeOK, SeqWithin, Seqs, EventTypes, Terminal
  <2>3. CacheTypeOK' /\ SeqWithin'
    BY <1>1, <2>1, <2>2, AppendKeeps DEF CacheTypeOK, SeqWithin
  <2>4. CacheSound'
    BY <1>1, <2>1, <2>2, AppendKeeps DEF CacheSound
  <2> QED BY <2>3, <2>4 DEF CacheInvariant
<1>7. ASSUME NEW type \in {"completed", "error"}, Conclude(type)
      PROVE  CacheInvariant'
  <2>1. /\ AppendEvent(type) /\ phase \in {"generating", "settled"} /\ phase' = "terminal"
        /\ UNCHANGED <<late, leased>>
    BY <1>7 DEF Conclude, Flush
  <2>2. seq + 1 \in Seqs /\ type \in EventTypes
    BY <1>1, <2>1 DEF CacheTypeOK, SeqWithin, Seqs, EventTypes, Terminal
  <2>3. CacheTypeOK' /\ SeqWithin'
    BY <1>1, <2>1, <2>2, AppendKeeps DEF CacheTypeOK, SeqWithin
  <2>4. CacheSound'
    BY <1>1, <2>1, <2>2, AppendKeeps DEF CacheSound
  <2> QED BY <2>3, <2>4 DEF CacheInvariant
<1>8. CASE Finish
  BY <1>1, <1>8 DEF Finish, CacheInvariant, CacheTypeOK, SeqWithin, CacheSound
<1>9. CASE HandlerStops
  BY <1>1, <1>9 DEF HandlerStops, CacheInvariant, CacheTypeOK, SeqWithin, CacheSound
<1>10. CASE LateWithdraw
  BY <1>1, <1>10, ResetKeeps DEF LateWithdraw, CacheInvariant, CacheTypeOK, SeqWithin, CacheSound
<1>11. CASE LateTellBlocked
  <2>1. /\ AppendEvent("moderation_blocked") /\ late = "clearing" /\ late' = "told"
        /\ UNCHANGED <<phase, leased>>
    BY <1>11 DEF LateTellBlocked
  <2>2. seq + 1 \in Seqs /\ "moderation_blocked" \in EventTypes
    BY <1>1, <2>1 DEF CacheTypeOK, SeqWithin, Seqs, EventTypes, Terminal
  <2>3. CacheTypeOK' /\ SeqWithin'
    BY <1>1, <2>1, <2>2, AppendKeeps DEF CacheTypeOK, SeqWithin
  <2>4. CacheSound'
    BY <2>1 DEF CacheSound
  <2> QED BY <2>3, <2>4 DEF CacheInvariant
<1>12. CASE \/ RunExpires
            \/ \E c \in Clients : Disconnect(c) \/ SubscribeList(c) \/ Serve(c)
  BY <1>1, <1>2, <1>12, OthersRead
<1>13. CASE UNCHANGED streamVars
  BY <1>1, <1>2, <1>13 DEF streamVars, CacheTypeOK
<1> QED
  BY <1>3, <1>4, <1>5, <1>6, <1>7, <1>8, <1>9, <1>10, <1>11, <1>12, <1>13
     DEF StreamNext, HandlerStep

\* Every reachable state of the cache of a stream has the declared types, for any window,
\* any number of events and clients: the window is never longer than its bound.
THEOREM CacheTypeCorrect == StreamSpec => []CacheTypeOK
BY CacheInit, CacheStep, PTL DEF StreamSpec, CacheInvariant

\* Once the barrier has blocked a run nothing is retained that a client that resumes could
\* be shown of it, whatever is published, stops or resumes around the withdrawal.
THEOREM NothingWithdrawnRetainedCorrect == StreamSpec => []NothingWithdrawnRetained
<1>1. CacheInvariant => NothingWithdrawnRetained
  BY DEF CacheInvariant, CacheSound, NothingWithdrawnRetained, Withdrawn
<1> QED BY <1>1, CacheInit, CacheStep, PTL DEF StreamSpec

-----------------------------------------------------------------------------
(* Replays: a recursive function exists, and what holds of it, by induction over a set. *)

\* Induction up to m, over a set: numbers that are closed under the successor.
LEMMA Induction ==
  ASSUME NEW m \in Nat, NEW T, 0 \in T, \A n \in 0..(m - 1) : n \in T => n + 1 \in T
  PROVE  \A n \in 0..m : n \in T
<1> DEFINE Out == {n \in 0..m : n \notin T}
<1> SUFFICES ASSUME Out # {} PROVE FALSE
  OBVIOUS
<1>1. IsWellFoundedOn(OpToRel(<, Nat), Nat)
  BY NatLessThanWellFounded
<1>2. Out \subseteq Nat
  OBVIOUS
<1>3. PICK x \in Out : \A y \in Out : ~(<<y, x>> \in OpToRel(<, Nat))
  BY <1>1, <1>2, WFMin
<1>4. \A y \in Out : ~(y < x)
  BY <1>2, <1>3 DEF OpToRel
<1>5. x \in 0..m /\ x \notin T /\ x # 0
  OBVIOUS
<1>6. x - 1 \in 0..(m - 1) /\ x - 1 \in 0..m /\ x - 1 < x /\ (x - 1) + 1 = x
  BY <1>5
<1>7. x - 1 \in T
  BY <1>4, <1>6
<1> QED BY <1>5, <1>6, <1>7

\* f is the states of a replay, event by event.
AreStates(f, cl, s, positions) ==
  f = [n \in 0..Len(s) |->
        IF n = 0 THEN cl
        ELSE IF n \in positions THEN Apply(f[n - 1], s[n]) ELSE f[n - 1]]

\* The states of a replay exist, and the replay is the last one.
LEMMA ReplayStates ==
  ASSUME NEW S, NEW cl, NEW s \in Seq(S), NEW positions
  PROVE  \E f : AreStates(f, cl, s, positions) /\ Replay(cl, s, positions) = f[Len(s)]
<1> DEFINE StateAt(g, n) == IF n = 0 THEN cl
                            ELSE IF n \in positions THEN Apply(g[n - 1], s[n]) ELSE g[n - 1]
           T == {m \in 0..Len(s) : \E g : g = [n \in 0..m |-> StateAt(g, n)]}
<1>1. Len(s) \in Nat
  OBVIOUS
<1>2. 0 \in T
  <2> DEFINE g == [n \in 0..0 |-> cl]
  <2>1. g = [n \in 0..0 |-> StateAt(g, n)]
    OBVIOUS
  <2>2. 0 \in 0..Len(s)
    BY <1>1
  <2> HIDE DEF g
  <2> QED BY <2>1, <2>2
<1>3. ASSUME NEW m \in 0..(Len(s) - 1), m \in T PROVE m + 1 \in T
  <2>1. PICK g : g = [n \in 0..m |-> StateAt(g, n)]
    BY <1>3
  <2> DEFINE v == IF m + 1 \in positions THEN Apply(g[m], s[m + 1]) ELSE g[m]
             h == [n \in 0..(m + 1) |-> IF n = m + 1 THEN v ELSE g[n]]
  <2>2. ASSUME NEW n \in 0..(m + 1) PROVE h[n] = StateAt(h, n)
    <3>1. CASE n = m + 1
      <4>1. h[n] = v /\ h[n - 1] = g[m] /\ n # 0
        BY <1>1, <3>1
      <4> HIDE DEF h
      <4> QED BY <3>1, <4>1
    <3>2. CASE n # m + 1
      <4>1. n \in 0..m /\ h[n] = g[n] /\ (n # 0 => h[n - 1] = g[n - 1])
        BY <1>1, <3>2
      <4>2. g[n] = StateAt(g, n)
        BY <2>1, <4>1
      <4> HIDE DEF h
      <4> QED BY <4>1, <4>2
    <3> QED BY <3>1, <3>2
  <2>3. h = [n \in 0..(m + 1) |-> StateAt(h, n)]
    BY <2>2
  <2>4. m + 1 \in 0..Len(s)
    BY <1>1
  <2> HIDE DEF h
  <2> QED BY <2>3, <2>4
<1>4. Len(s) \in T
  <2>1. \A n \in 0..(Len(s) - 1) : n \in T => n + 1 \in T
    BY <1>3
  <2> HIDE DEF T
  <2>2. \A n \in 0..Len(s) : n \in T
    BY <1>1, <1>2, <2>1, Induction
  <2> QED BY <1>1, <2>2
<1>5. \E g : g = [n \in 0..Len(s) |-> StateAt(g, n)]
  BY <1>4
<1> DEFINE f == CHOOSE g : g = [n \in 0..Len(s) |-> StateAt(g, n)]
<1>6. f = [n \in 0..Len(s) |-> StateAt(f, n)]
  BY <1>5
<1>7. Replay(cl, s, positions) = f[Len(s)]
  BY DEF Replay
<1> QED BY <1>6, <1>7 DEF AreStates

\* What a client is, with its flag apart: the provers keep Boolean fields in sets of their own.
LEMMA RecordsAre ==
  ASSUME NEW cl \in Records
  PROVE  /\ cl.connection \in Connections /\ cl.resumes \in 0..MaxResumes
         /\ cl.after \in 0..seq /\ cl.text \in Seq(Seqs) /\ cl.notes \in SUBSET Seqs
         /\ cl.outcome \in Terminal \cup {"none", "interrupted", "refused"}
         /\ cl.window \in Seq(Event) /\ cl.from \in 0..seq /\ cl.cursor \in 0..seq
         /\ cl.covered \in 0..seq /\ cl.batch \in Seq(Event)
<1> DEFINE A == BOOLEAN
<1>1. cl \in [ connection : Connections, resumes : 0..MaxResumes,
             after : 0..seq, text : Seq(Seqs), notes : SUBSET Seqs,
             outcome : Terminal \cup {"none", "interrupted", "refused"},
             window : Seq(Event), from : 0..seq, cursor : 0..seq, covered : 0..seq,
             batch : Seq(Event), overrun : A ]
  BY DEF Records
<1> HIDE DEF A
<1> QED BY <1>1

\* A client y has read what x has, or more, and is otherwise where x is.
Reads(x, y) ==
  /\ y \in Records /\ x.after <= y.after
  /\ y.connection = x.connection /\ y.window = x.window /\ y.from = x.from
  /\ y.cursor = x.cursor /\ y.covered = x.covered /\ y.batch = x.batch
  /\ y.overrun = x.overrun

LEMMA ApplyIs ==
  ASSUME NEW A1, NEW A2, NEW A3, NEW A4, NEW A5, NEW A6, NEW A7, NEW A8, NEW A9, NEW A10, NEW A11, NEW A12,
         NEW x \in [ connection : A1, resumes : A2, after : A3, text : A4, notes : A5, outcome : A6,
                     window : A7, from : A8, cursor : A9, covered : A10, batch : A11, overrun : A12 ],
         NEW a \in A3, NEW t \in A4, NEW n \in A5, NEW o \in A6,
         NEW y, y = [x EXCEPT !.after = a, !.text = t, !.notes = n, !.outcome = o]
  PROVE  /\ y \in [ connection : A1, resumes : A2, after : A3, text : A4, notes : A5, outcome : A6,
                     window : A7, from : A8, cursor : A9, covered : A10, batch : A11, overrun : A12 ]
         /\ y.after = a /\ y.text = t /\ y.notes = n /\ y.outcome = o
         /\ y.connection = x.connection /\ y.window = x.window /\ y.from = x.from
         /\ y.cursor = x.cursor /\ y.covered = x.covered /\ y.batch = x.batch
         /\ y.overrun = x.overrun
OBVIOUS

\* An event of the stream, or a checkpoint of its text.
Readable(e) ==
  /\ e.seq \in 0..seq
  /\ \/ e.type \in EventTypes /\ e.seq \in Seqs
     \/ e.type = "replace" /\ e.text \in Seq(Seqs)

\* y is the client x when the event e has brought its text and taken it on.
Applied(x, e, y) ==
  /\ Reads(x, y) /\ y.after = Greater(x.after, e.seq) /\ e.seq <= y.after
  /\ y.text = CASE e.type = "delta" -> Append(x.text, e.seq)
                [] e.type = "replace" -> e.text
                [] OTHER -> x.text
  /\ y.outcome = IF e.type \in Terminal /\ x.outcome = "none" THEN e.type ELSE x.outcome

LEMMA ApplyReads ==
  ASSUME seq \in Nat, NEW x \in Records, NEW e, Readable(e)
  PROVE  Applied(x, e, Apply(x, e))
<1> USE DEF Readable
<1> DEFINE y == Apply(x, e)
           a == Greater(x.after, e.seq)
           t == CASE e.type = "delta" -> Append(x.text, e.seq)
                  [] e.type = "replace" -> e.text
                  [] OTHER -> x.text
           n == IF e.type = "note" THEN x.notes \cup {e.seq} ELSE x.notes
           o == IF e.type \in Terminal /\ x.outcome = "none" THEN e.type ELSE x.outcome
<1>1. /\ x.after \in 0..seq /\ x.text \in Seq(Seqs) /\ x.notes \in SUBSET Seqs
      /\ x.outcome \in Terminal \cup {"none", "interrupted", "refused"}
  BY RecordsAre
<1>2. a \in 0..seq /\ x.after <= a /\ e.seq <= a
  BY <1>1 DEF Greater
<1>3. t \in Seq(Seqs)
  <2>1. CASE e.type = "delta"
    <3>1. e.seq \in Seqs /\ t = Append(x.text, e.seq)
      BY <2>1
    <3> HIDE DEF t, Readable
    <3>2. Append(x.text, e.seq) \in Seq(Seqs)
      BY <1>1, <3>1, AppendProperties
    <3> QED BY <3>1, <3>2
  <2>2. CASE e.type = "replace"
    <3>1. "replace" \notin EventTypes
      BY DEF EventTypes, Terminal
    <3> QED BY <2>2, <3>1
  <2>3. CASE e.type \notin {"delta", "replace"}
    <3>1. t = x.text
      BY <2>3
    <3> QED BY <1>1, <3>1
  <2> QED BY <2>1, <2>2, <2>3
<1>4. n \in SUBSET Seqs
  <2>1. CASE e.type = "note"
    <3>1. e.seq \in Seqs
      BY <2>1
    <3> QED BY <1>1, <2>1, <3>1
  <2>2. CASE e.type # "note"
    BY <1>1, <2>2
  <2> QED BY <2>1, <2>2
<1>5. o \in Terminal \cup {"none", "interrupted", "refused"}
  BY <1>1
<1>6. y = [x EXCEPT !.after = a, !.text = t, !.notes = n, !.outcome = o]
  BY DEF Apply
<1> HIDE DEF y, a, t, n, o
<1>7. /\ y \in Records
      /\ y.after = a /\ y.text = t /\ y.notes = n /\ y.outcome = o
      /\ y.connection = x.connection /\ y.window = x.window /\ y.from = x.from
      /\ y.cursor = x.cursor /\ y.covered = x.covered /\ y.batch = x.batch
      /\ y.overrun = x.overrun
  BY <1>2, <1>3, <1>4, <1>5, <1>6, ApplyIs, Zenon DEF Records
<1>8. Reads(x, y)
  BY <1>2, <1>7 DEF Reads
<1> QED BY <1>2, <1>7, <1>8 DEF y, a, t, o, Applied

\* A replay that skips the deltas brings no text.
LEMMA ReplayReads ==
  ASSUME seq \in Nat, NEW x \in Records, NEW s \in Seq(Event), NEW positions,
         \A n \in DOMAIN s : s[n].seq <= seq,
         \A n \in DOMAIN s : n \in positions => s[n].type # "delta"
  PROVE  Reads(x, Replay(x, s, positions)) /\ Replay(x, s, positions).text = x.text
<1>1. PICK f : AreStates(f, x, s, positions) /\ Replay(x, s, positions) = f[Len(s)]
  BY ReplayStates
<1> DEFINE Good(y) == Reads(x, y) /\ y.text = x.text
           T == {n \in 0..Len(s) : Good(f[n])}
<1>2. Len(s) \in Nat /\ DOMAIN s = 1..Len(s)
  OBVIOUS
<1>3. Good(x)
  <2>1. x.after \in 0..seq
    BY RecordsAre
  <2> QED BY <2>1 DEF Reads
<1>4. ASSUME NEW y, Good(y), NEW n \in DOMAIN s, n \in positions
      PROVE  Good(Apply(y, s[n]))
  <2>1. y \in Records /\ y.after \in 0..seq /\ x.after \in 0..seq
    BY <1>4, RecordsAre DEF Reads
  <2>2. s[n] \in Event /\ s[n].seq <= seq /\ s[n].type # "delta"
    BY <1>4
  <2>3. /\ s[n].seq \in Seqs /\ s[n].seq \in 0..seq /\ s[n].type \in EventTypes
        /\ s[n].type # "replace"
    <3>1. StreamAssumption
      BY StreamAssumption
    <3> QED BY <2>2 DEF Event, Seqs, EventTypes, Terminal
  <2> DEFINE z == Apply(y, s[n])
  <2>4. Reads(y, z) /\ z.text = y.text
    <3> DEFINE e == s[n]
    <3>1. /\ e.seq \in 0..seq /\ e.type \in EventTypes /\ e.seq \in Seqs
          /\ e.type # "delta" /\ e.type # "replace"
      BY <2>2, <2>3
    <3> HIDE DEF e
    <3>2. Readable(e)
      BY <3>1 DEF Readable
    <3>3. Applied(y, e, Apply(y, e))
      BY <2>1, <3>2, ApplyReads
    <3>4. Reads(y, Apply(y, e)) /\ Apply(y, e).text = y.text
      BY <3>1, <3>3 DEF Applied
    <3> QED BY <3>4 DEF e
  <2>5. z.after \in 0..seq
    BY <2>4, RecordsAre DEF Reads
  <2> HIDE DEF z
  <2>6. Reads(x, z) /\ z.text = x.text
    BY <1>4, <2>1, <2>4, <2>5 DEF Reads
  <2> QED BY <2>6 DEF z
<1>5. 0 \in T
  <2>1. 0 \in 0..Len(s) /\ f[0] = x
    BY <1>1, <1>2 DEF AreStates
  <2> QED BY <1>3, <2>1
<1>6. ASSUME NEW n \in 0..(Len(s) - 1), n \in T PROVE n + 1 \in T
  <2>1. n + 1 \in 0..Len(s) /\ n + 1 \in DOMAIN s /\ n + 1 # 0 /\ (n + 1) - 1 = n
    BY <1>2
  <2>2. f[n + 1] = IF n + 1 \in positions THEN Apply(f[n], s[n + 1]) ELSE f[n]
    BY <1>1, <2>1 DEF AreStates
  <2>3. Good(f[n])
    BY <1>6
  <2> HIDE DEF Good
  <2>4. Good(f[n + 1])
    BY <1>4, <2>1, <2>2, <2>3
  <2> QED BY <2>1, <2>4
<1>7. Good(f[Len(s)])
  <2>1. \A n \in 0..(Len(s) - 1) : n \in T => n + 1 \in T
    BY <1>6
  <2> HIDE DEF T
  <2>2. \A n \in 0..Len(s) : n \in T
    BY <1>2, <1>5, <2>1, Induction
  <2>3. Len(s) \in T
    BY <1>2, <2>2
  <2> USE DEF T
  <2> HIDE DEF Good
  <2> QED BY <2>3
<1> QED BY <1>1, <1>7

\* The replay of a subscription: nothing but its checkpoint brings text.
LEMMA ServedReads ==
  ASSUME seq \in Nat, NEW x \in Records, WindowSound(x),
         NEW covers \in 0..seq, NEW content \in Seq(Seqs),
         \A n \in DOMAIN x.window : x.window[n].type = "delta" => x.window[n].seq <= covers
  PROVE  LET y == Served(x, covers, content) IN
         /\ Reads(x, y) /\ y.text = (IF covers = 0 THEN x.text ELSE content)
         /\ covers <= y.after \/ covers = 0
<1> DEFINE w == x.window
           fresh == {n \in DOMAIN w : w[n].seq > x.from /\ ~(w[n].type = "delta" /\ w[n].seq <= covers)}
           past == {n \in DOMAIN w : w[n].seq > covers}
           checkpoint == [seq |-> covers, type |-> "replace", text |-> content]
           a == fresh \ past
           b == fresh \cap past
           before == Replay(x, w, a)
           z == IF covers = 0 THEN before ELSE Apply(before, checkpoint)
           y == Replay(z, w, b)
<1>1. w \in Seq(Event) /\ x.after \in 0..seq /\ \A n \in DOMAIN w : w[n].seq <= seq
  BY RecordsAre DEF WindowSound
<1>2. \A n \in DOMAIN w : n \in a \/ n \in b => w[n].type # "delta"
  OBVIOUS
<1>3. y = Served(x, covers, content)
  BY DEF Served
<1> HIDE DEF w, a, b, y
<1>4. Reads(x, before) /\ before.text = x.text
  BY <1>1, <1>2, ReplayReads
<1> HIDE DEF before
<1>5. before \in Records /\ before.after \in 0..seq
  BY <1>4, RecordsAre DEF Reads
<1>6. /\ Reads(x, z) /\ z.text = (IF covers = 0 THEN x.text ELSE content)
      /\ covers <= z.after \/ covers = 0
  <2>1. CASE covers = 0
    BY <1>4, <2>1
  <2>2. CASE covers # 0
    <3>1. checkpoint.seq = covers /\ checkpoint.type = "replace" /\ checkpoint.text = content
      OBVIOUS
    <3> HIDE DEF checkpoint
    <3> DEFINE v == Apply(before, checkpoint)
    <3>2. Reads(before, v) /\ covers <= v.after /\ v.text = content
      <4>1. Readable(checkpoint)
        BY <3>1 DEF Readable
      <4>2. Applied(before, checkpoint, v)
        BY <1>5, <4>1, ApplyReads
      <4> HIDE DEF v
      <4> QED BY <3>1, <4>2 DEF Applied
    <3>3. v = z
      BY <2>2
    <3> HIDE DEF v, z
    <3>4. v \in Records /\ v.after \in 0..seq
      BY <3>2, RecordsAre DEF Reads
    <3>5. Reads(x, v)
      BY <1>1, <1>4, <1>5, <3>2, <3>4 DEF Reads
    <3> QED BY <2>2, <3>2, <3>3, <3>5
  <2> QED BY <2>1, <2>2
<1> HIDE DEF z
<1>7. z \in Records /\ z.after \in 0..seq
  BY <1>6, RecordsAre DEF Reads
<1>8. Reads(z, y) /\ y.text = z.text
  BY <1>1, <1>2, <1>7, ReplayReads DEF y
<1>9. y \in Records /\ y.after \in 0..seq
  BY <1>8, RecordsAre DEF Reads
<1>10. Reads(x, y)
  BY <1>1, <1>6, <1>7, <1>8, <1>9 DEF Reads
<1> QED BY <1>3, <1>6, <1>7, <1>8, <1>9, <1>10 DEF Reads

-----------------------------------------------------------------------------
(* What was said, and what a step may do to it. *)

LEMMA PrefixIs ==
  ASSUME NEW S, NEW s \in Seq(S), NEW t \in Seq(S)
  PROVE  IsPrefix(s, t) <=> Len(s) <= Len(t) /\ \A i \in 1..Len(s) : s[i] = t[i]
<1>1. Len(s) \in Nat /\ Len(t) \in Nat
  OBVIOUS
<1>2. ASSUME Len(s) <= Len(t)
      PROVE  SubSeq(s, 1, Len(s)) = SubSeq(t, 1, Len(s)) <=> \A i \in 1..Len(s) : s[i] = t[i]
  <2> DEFINE a == SubSeq(s, 1, Len(s))
             b == SubSeq(t, 1, Len(s))
  <2>1. 1 \in 1..(Len(s) + 1) /\ 1 \in 1..(Len(t) + 1) /\ Len(s) \in (1 - 1)..Len(s)
        /\ Len(s) \in (1 - 1)..Len(t)
    BY <1>1, <1>2
  <2>2. /\ a \in Seq(S) /\ Len(a) = Len(s) - 1 + 1 /\ \A i \in 1..(Len(s) - 1 + 1) : a[i] = s[1 + i - 1]
    BY <2>1, SubSeqProperties
  <2>3. /\ b \in Seq(S) /\ Len(b) = Len(s) - 1 + 1 /\ \A i \in 1..(Len(s) - 1 + 1) : b[i] = t[1 + i - 1]
    BY <2>1, SubSeqProperties
  <2> HIDE DEF a, b
  <2>4. Len(s) - 1 + 1 = Len(s) /\ \A i \in 1..Len(s) : 1 + i - 1 = i
    BY <1>1
  <2>5. /\ Len(a) = Len(s) /\ Len(b) = Len(s)
        /\ \A i \in 1..Len(s) : a[i] = s[i] /\ b[i] = t[i]
    BY <2>2, <2>3, <2>4
  <2>6. (\A i \in 1..Len(s) : s[i] = t[i]) => a = b
    <3>1. SUFFICES ASSUME \A i \in 1..Len(s) : s[i] = t[i] PROVE a = b
      OBVIOUS
    <3>2. \A i \in 1..Len(a) : a[i] = b[i]
      BY <2>5, <3>1
    <3> QED BY <2>2, <2>3, <2>5, <3>2, SeqEqual
  <2>7. a = b => \A i \in 1..Len(s) : s[i] = t[i]
    BY <2>5
  <2> QED BY <2>6, <2>7 DEF a, b
<1> QED BY <1>2 DEF IsPrefix

\* A step publishes at most one delta, numbered next.
SaidMoves ==
  /\ seq \in Nat /\ seq' \in Nat /\ seq <= seq'
  /\ said \in Seq(Seqs) /\ said' \in Seq(Seqs)
  /\ said' = said \/ (said' = Append(said, seq + 1) /\ seq < seq')

\* What was said stays, and what is new is numbered beyond seq.
LEMMA SaidGrows ==
  ASSUME SaidMoves
  PROVE  /\ DOMAIN said = 1..Len(said) /\ DOMAIN said' = 1..Len(said') /\ Len(said) \in Nat
         /\ Len(said') \in Nat /\ Len(said) <= Len(said')
         /\ \A i \in DOMAIN said : i \in DOMAIN said' /\ said'[i] = said[i]
         /\ \A i \in DOMAIN said' : i \notin DOMAIN said => said'[i] = seq + 1 /\ i = Len(said) + 1
         /\ \A n \in Int : n <= seq =>
              ((\E k \in DOMAIN said' : said'[k] = n) <=> (\E k \in DOMAIN said : said[k] = n))
<1>1. /\ DOMAIN said = 1..Len(said) /\ DOMAIN said' = 1..Len(said')
      /\ Len(said) \in Nat /\ Len(said') \in Nat
  BY DEF SaidMoves
<1>2. CASE said' = said
  BY <1>1, <1>2
<1>3. CASE said' = Append(said, seq + 1)
  <2>1. /\ Len(said') = Len(said) + 1 /\ said'[Len(said) + 1] = seq + 1
        /\ \A i \in 1..Len(said) : said'[i] = said[i]
    BY <1>3 DEF SaidMoves
  <2>2. \A i \in DOMAIN said' : i \in DOMAIN said \/ i = Len(said) + 1
    BY <1>1, <2>1
  <2>3. seq \in Nat
    BY DEF SaidMoves
  <2> QED BY <1>1, <2>1, <2>2, <2>3
<1> QED BY <1>2, <1>3 DEF SaidMoves

\* What a step may do to the stream as clients see it.
CacheMoves == SaidMoves /\ (Kept' => Kept) /\ (Cleared => Cleared')

LEMMA EventsAre ==
  ASSUME NEW s \in Seq(Event)
  PROVE  /\ DOMAIN s = 1..Len(s) /\ Len(s) \in Nat
         /\ \A i \in DOMAIN s : /\ s[i] \in Event /\ s[i].seq \in Seqs /\ s[i].seq \in Nat
                               /\ s[i].seq >= 1 /\ s[i].type \in EventTypes
<1>1. /\ DOMAIN s = 1..Len(s) /\ Len(s) \in Nat
      /\ \A i \in DOMAIN s : s[i] \in Event
  OBVIOUS
<1>2. ASSUME NEW e \in Event PROVE e.seq \in Seqs /\ e.type \in EventTypes
  BY DEF Event
<1>3. ASSUME NEW n \in Seqs PROVE n \in Nat /\ n >= 1
  BY StreamAssumption DEF Seqs
<1> QED BY <1>1, <1>2, <1>3

LEMMA RecordsMove ==
  ASSUME SaidMoves, NEW x \in Records
  PROVE  x \in Records'
<1> DEFINE A == BOOLEAN
<1>1. 0..seq \subseteq 0..seq'
  BY DEF SaidMoves
<1>2. x \in [ connection : Connections, resumes : 0..MaxResumes,
             after : 0..seq, text : Seq(Seqs), notes : SUBSET Seqs,
             outcome : Terminal \cup {"none", "interrupted", "refused"},
             window : Seq(Event), from : 0..seq, cursor : 0..seq, covered : 0..seq,
             batch : Seq(Event), overrun : A ]
  BY DEF Records
<1> HIDE DEF A
<1>3. x \in [ connection : Connections, resumes : 0..MaxResumes,
             after : 0..seq', text : Seq(Seqs), notes : SUBSET Seqs,
             outcome : Terminal \cup {"none", "interrupted", "refused"},
             window : Seq(Event), from : 0..seq', cursor : 0..seq', covered : 0..seq',
             batch : Seq(Event), overrun : A ]
  <2> DEFINE B == 0..seq
             C == 0..seq'
  <2> HIDE DEF B, C
  <2> QED BY <1>1, <1>2 DEF B, C
<1> QED BY <1>3 DEF Records, A

LEMMA PrefixMoves ==
  ASSUME SaidMoves, NEW t \in Seq(Seqs), IsPrefix(t, said)
  PROVE  IsPrefix(t, said)'
<1>1. Len(t) \in Nat /\ Len(t) <= Len(said) /\ \A i \in 1..Len(t) : t[i] = said[i]
  BY PrefixIs DEF SaidMoves
<1>2. Len(t) <= Len(said') /\ \A i \in 1..Len(t) : t[i] = said'[i]
  BY <1>1, SaidGrows
<1>3. IsPrefix(t, said')
  BY <1>2, PrefixIs DEF SaidMoves
<1> QED BY <1>3

LEMMA MarkedMoves ==
  ASSUME SaidMoves, NEW s \in Seq(Event), Marked(s), \A i \in DOMAIN s : s[i].seq <= seq
  PROVE  Marked(s)'
<1>1. \A i \in DOMAIN s : s[i].seq \in Int /\ s[i].seq <= seq
  BY EventsAre
<1>2. ASSUME NEW i \in DOMAIN s
      PROVE  s[i].type = "delta" <=> \E k \in DOMAIN said' : said'[k] = s[i].seq
  <2>1. s[i].type = "delta" <=> \E k \in DOMAIN said : said[k] = s[i].seq
    BY DEF Marked
  <2> QED BY <1>1, <2>1, SaidGrows
<1> QED BY <1>2 DEF Marked

\* A client that a step leaves as it is.
LEMMA ClientFrame ==
  ASSUME CacheMoves, NEW x \in Records, ClientSound(x),
         x.connection = "live" => said' = said
  PROVE  x \in Records' /\ ClientSound(x)'
<1>1. SaidMoves /\ (Kept' => Kept) /\ (Cleared => Cleared')
  BY DEF CacheMoves
<1>2. /\ x.text \in Seq(Seqs) /\ x.after \in 0..seq /\ x.window \in Seq(Event) /\ x.from \in 0..seq
      /\ x.cursor \in 0..seq /\ x.covered \in 0..seq /\ x.batch \in Seq(Event) /\ seq \in Nat
  BY <1>1, RecordsAre DEF SaidMoves
<1> DEFINE t == x.text
<1>3. TextSound(x)'
  <2>1. CASE x.overrun
    BY <2>1 DEF TextSound
  <2>2. CASE IsPrefix(t, said) /\ (Kept => IsSaidUpTo(t, x.after))
    <3>1. IsPrefix(t, said)'
      BY <1>1, <1>2, <2>2, PrefixMoves
    <3>2. ASSUME Kept' PROVE IsSaidUpTo(t, x.after)'
      <4>1. IsPrefix(t, said) /\ \A i \in DOMAIN said : said[i] <= x.after <=> i <= Len(t)
        BY <1>1, <2>2, <3>2 DEF IsSaidUpTo
      <4>2. Len(t) <= Len(said)
        BY <4>1 DEF IsPrefix
      <4>3. \A i \in DOMAIN said' : said'[i] <= x.after <=> i <= Len(t)
        BY <1>1, <1>2, <4>1, <4>2, SaidGrows
      <4> QED BY <3>1, <4>3 DEF IsSaidUpTo
    <3> QED BY <3>1, <3>2 DEF TextSound
  <2> QED BY <2>1, <2>2 DEF ClientSound, TextSound
<1>4. x.connection = "live" /\ Kept' => t = said'
  BY <1>1 DEF ClientSound
<1>5. x.connection = "listed" => WindowSound(x)'
  <2> SUFFICES ASSUME x.connection = "listed" PROVE WindowSound(x)'
    OBVIOUS
  <2>1. Marked(x.window) /\ \A i \in DOMAIN x.window : x.window[i].seq <= seq
    BY DEF ClientSound, WindowSound
  <2>2. Marked(x.window)'
    BY <1>1, <1>2, <2>1, MarkedMoves
  <2>3. \A i \in DOMAIN x.window : x.window[i].seq \in Int
    BY <1>2, EventsAre
  <2>4. \A i \in DOMAIN x.window : x.window[i].seq <= seq'
    BY <1>1, <2>1, <2>3 DEF SaidMoves
  <2> QED BY <2>2, <2>4 DEF WindowSound
<1>6. CASE x.connection \in {"checking", "reading"}
  <2>1. ReaderSound(x)
    BY <1>6 DEF ClientSound
  <2>2. Numbered(x.batch, x.cursor)'
    BY <2>1 DEF ReaderSound, Numbered
  <2>3. Marked(x.batch)'
    <3>1. \A i \in DOMAIN x.batch : x.batch[i].seq <= seq
      <4>1. DOMAIN x.batch = 1..Len(x.batch) /\ Len(x.batch) \in Nat
        BY <1>2
      <4>2. \A i \in DOMAIN x.batch : x.batch[i].seq = x.cursor - Len(x.batch) + i
        BY <2>1 DEF ReaderSound, Numbered
      <4> QED BY <1>2, <4>1, <4>2
    <3> QED BY <1>1, <1>2, <2>1, <3>1, MarkedMoves DEF ReaderSound
  <2>4. x.overrun \/ InStep(x)' \/ Frozen(x)'
    <3>1. CASE x.overrun
      BY <3>1
    <3>2. CASE ~x.overrun /\ InStep(x)
      <4>1. Len(t) <= Len(said) /\ Len(t) \in Nat
        BY <1>2, <3>2 DEF ClientSound, TextSound, IsPrefix
      <4>2. Place(x) \in Int /\ Place(x) <= seq
        BY <1>2 DEF Place
      <4>3. /\ \A i \in DOMAIN said : (said[i] <= Place(x) \/ said[i] <= x.covered) <=> i <= Len(t)
            /\ \A i \in DOMAIN said : said[i] <= x.from => said[i] <= x.covered
        BY <3>2 DEF InStep
      <4>4. \A i \in DOMAIN said' : (said'[i] <= Place(x) \/ said'[i] <= x.covered) <=> i <= Len(t)
        BY <1>1, <1>2, <4>1, <4>2, <4>3, SaidGrows
      <4>5. \A i \in DOMAIN said' : said'[i] <= x.from => said'[i] <= x.covered
        BY <1>1, <1>2, <4>3, SaidGrows
      <4> QED BY <4>4, <4>5 DEF InStep, Place
    <3>3. CASE Frozen(x)
      BY <1>1, <3>3 DEF Frozen
    <3> QED BY <2>1, <3>1, <3>2, <3>3 DEF ReaderSound
  <2>5. ReaderSound(x)'
    BY <2>2, <2>3, <2>4 DEF ReaderSound
  <2> QED BY <1>1, <1>3, <1>4, <1>5, <1>6, <2>5, RecordsMove DEF ClientSound
<1>7. CASE x.connection \notin {"checking", "reading"}
  <2>1. x.batch = <<>>
    BY <1>7 DEF ClientSound
  <2> QED BY <1>1, <1>3, <1>4, <1>5, <1>7, <2>1, RecordsMove DEF ClientSound
<1> QED BY <1>6, <1>7

\* Where the last elements of a sequence stood in it.
LEMMA LastOfPlaces ==
  ASSUME NEW S, NEW s \in Seq(S), NEW n \in Nat
  PROVE  /\ LastOf(s, n) \in Seq(S) /\ Len(LastOf(s, n)) <= Len(s)
         /\ \A i \in DOMAIN LastOf(s, n) :
              /\ Len(s) - Len(LastOf(s, n)) + i \in DOMAIN s
              /\ LastOf(s, n)[i] = s[Len(s) - Len(LastOf(s, n)) + i]
<1>1. CASE Len(s) > n
  <2> DEFINE m == Len(s) - n + 1
  <2>1. /\ Len(s) \in Nat /\ m \in 1..(Len(s) + 1) /\ LastOf(s, n) = SubSeq(s, m, Len(s))
        /\ DOMAIN s = 1..Len(s)
    BY <1>1 DEF LastOf
  <2>2. /\ LastOf(s, n) \in Seq(S) /\ Len(LastOf(s, n)) = n
        /\ \A i \in 1..n : LastOf(s, n)[i] = s[m + i - 1]
    BY <2>1, SubSeqProperties, SMTT(30)
  <2>3. \A i \in 1..n : m + i - 1 = Len(s) - n + i /\ Len(s) - n + i \in DOMAIN s
    BY <1>1, <2>1
  <2>4. DOMAIN LastOf(s, n) = 1..n
    BY <2>2
  <2> QED BY <1>1, <2>1, <2>2, <2>3, <2>4
<1>2. CASE ~(Len(s) > n)
  <2>1. LastOf(s, n) = s /\ Len(s) \in Nat /\ DOMAIN s = 1..Len(s)
    BY <1>2 DEF LastOf
  <2>2. \A i \in DOMAIN s : Len(s) - Len(s) + i = i
    BY <2>1
  <2> QED BY <2>1, <2>2
<1> QED BY <1>1, <1>2

LEMMA TextsAre ==
  ASSUME NEW t \in Seq(Seqs)
  PROVE  /\ DOMAIN t = 1..Len(t) /\ Len(t) \in Nat
         /\ \A i \in DOMAIN t : t[i] \in Nat /\ t[i] >= 1
<1>1. DOMAIN t = 1..Len(t) /\ Len(t) \in Nat /\ \A i \in DOMAIN t : t[i] \in Seqs
  OBVIOUS
<1>2. ASSUME NEW n \in Seqs PROVE n \in Nat /\ n >= 1
  BY StreamAssumption DEF Seqs
<1> QED BY <1>1, <1>2

\* An event that is appended keeps the stream in order.
LEMMA AppendSound ==
  ASSUME CacheTypeOK, StreamSound, NEW type \in EventTypes, seq + 1 \in Seqs, AppendEvent(type),
         type = "delta" => phase = "generating",
         phase # "generating" => phase' # "generating"
  PROVE  StreamSound' /\ CacheMoves
<1>1. /\ seq \in Nat /\ events \in Seq(Event) /\ text \in Seq(Seqs) /\ said \in Seq(Seqs)
      /\ SaidInOrder /\ Numbered(events, seq) /\ Marked(events) /\ (Kept \/ Cleared)
  BY DEF CacheTypeOK, StreamSound
<1>2. /\ seq' = seq + 1 /\ events' \in Seq(Event) /\ said' \in Seq(Seqs)
      /\ type # "delta" => UNCHANGED <<text, textSeq, said>>
      /\ type = "delta" => /\ text' = Append(text, seq + 1) /\ textSeq' = seq + 1
                           /\ said' = Append(said, seq + 1)
  <2>1. seq' = seq + 1 /\ events' \in Seq(Event) /\ said' \in Seq(Seqs)
    BY AppendKeeps
  <2> QED BY <2>1 DEF AppendEvent
<1>3. SaidMoves
  BY <1>1, <1>2 DEF SaidMoves
<1>4. type = "delta" => Kept /\ ~Cleared
  BY <1>1 DEF Cleared
<1>5. SaidInOrder'
  <2>1. \A k \in DOMAIN said : said[k] \in Nat /\ said[k] <= seq
    BY <1>1, TextsAre DEF SaidInOrder
  <2>2. /\ DOMAIN said = 1..Len(said) /\ Len(said) \in Nat /\ DOMAIN said' = 1..Len(said')
        /\ \A i \in DOMAIN said : i \in DOMAIN said' /\ said'[i] = said[i]
        /\ \A i \in DOMAIN said' : i \notin DOMAIN said => said'[i] = seq + 1 /\ i = Len(said) + 1
    BY <1>3, SaidGrows
  <2>3. ASSUME NEW k \in DOMAIN said' PROVE said'[k] <= seq'
    <3>1. seq \in Nat /\ seq' = seq + 1
      BY <1>1, <1>2
    <3>2. CASE k \in DOMAIN said
      BY <2>1, <2>2, <3>1, <3>2
    <3>3. CASE k \notin DOMAIN said
      BY <2>2, <3>1, <3>3
    <3> QED BY <3>2, <3>3
  <2>4. ASSUME NEW j \in DOMAIN said', NEW k \in DOMAIN said', j < k PROVE said'[j] < said'[k]
    <3>1. j \in DOMAIN said
      BY <2>2, <2>4
    <3>2. said'[j] = said[j] /\ said[j] <= seq /\ said[j] \in Nat
      BY <2>1, <2>2, <3>1
    <3>3. CASE k \in DOMAIN said
      BY <1>1, <2>2, <2>4, <3>1, <3>2, <3>3 DEF SaidInOrder
    <3>4. CASE k \notin DOMAIN said
      BY <1>1, <2>2, <3>2, <3>4
    <3> QED BY <3>3, <3>4
  <2> QED BY <2>3, <2>4 DEF SaidInOrder
<1> DEFINE e == [seq |-> seq + 1, type |-> type]
           all == Append(events, e)
           m == Len(events)
<1>6. e \in Event /\ e.seq = seq + 1 /\ e.type = type
  BY DEF Event
<1>7. /\ all \in Seq(Event) /\ Len(all) = m + 1 /\ m \in Nat
      /\ \A j \in 1..m : all[j] = events[j]
      /\ all[m + 1] = e
  BY <1>1, <1>6, AppendProperties
<1>8. events' = LastOf(all, MaxEvents) /\ MaxEvents \in Nat
  BY StreamAssumption DEF AppendEvent
<1> HIDE DEF all, e
<1>9. /\ Len(events') \in Nat /\ DOMAIN events' = 1..Len(events') /\ DOMAIN events = 1..m
      /\ \A i \in DOMAIN events' : /\ m + 1 - Len(events') + i \in 1..(m + 1)
                                   /\ events'[i] = all[m + 1 - Len(events') + i]
  <2>1. DOMAIN all = 1..(m + 1)
    BY <1>7
  <2> QED BY <1>1, <1>2, <1>7, <1>8, <2>1, LastOfPlaces, SMTT(30)
<1>10. ASSUME NEW j \in 1..(m + 1) PROVE all[j].seq = seq + 1 - (m + 1) + j
  <2>1. CASE j = m + 1
    BY <1>1, <1>6, <1>7, <2>1
  <2>2. CASE j # m + 1
    <3>1. j \in DOMAIN events /\ all[j] = events[j]
      BY <1>7, <1>9, <2>2
    <3>2. events[j].seq = seq - m + j
      BY <1>1, <3>1 DEF Numbered
    <3> QED BY <1>1, <1>7, <3>1, <3>2
  <2> QED BY <2>1, <2>2
<1>11. Numbered(events, seq)'
  <2>1. ASSUME NEW i \in DOMAIN events' PROVE events'[i].seq = seq' - Len(events') + i
    <3>1. m + 1 - Len(events') + i \in 1..(m + 1)
      BY <1>9
    <3>2. events'[i].seq = seq + 1 - (m + 1) + (m + 1 - Len(events') + i)
      BY <1>9, <1>10, <3>1
    <3>3. i \in Nat
      BY <1>9
    <3> QED BY <1>1, <1>2, <1>7, <1>9, <3>2, <3>3
  <2> QED BY <2>1 DEF Numbered
<1>12. ASSUME NEW j \in 1..(m + 1)
       PROVE  all[j].type = "delta" <=> \E k \in DOMAIN said' : said'[k] = all[j].seq
  <2>1. CASE j = m + 1
    <3>1. all[j].type = type /\ all[j].seq = seq + 1
      BY <1>6, <1>7, <2>1
    <3>2. CASE type = "delta"
      <4>1. said' = Append(said, seq + 1) /\ Len(said) + 1 \in DOMAIN said' /\ said'[Len(said) + 1] = seq + 1
        BY <1>1, <1>2, <3>2
      <4> QED BY <3>1, <3>2, <4>1
    <3>3. CASE type # "delta"
      <4>1. said' = said /\ \A k \in DOMAIN said : said[k] <= seq /\ said[k] \in Int
        BY <1>1, <1>2, <3>3, TextsAre DEF SaidInOrder
      <4> QED BY <1>1, <3>1, <3>3, <4>1
    <3> QED BY <3>2, <3>3
  <2>2. CASE j # m + 1
    <3>1. j \in DOMAIN events /\ all[j] = events[j]
      BY <1>7, <1>9, <2>2
    <3>2. events[j].type = "delta" <=> \E k \in DOMAIN said : said[k] = events[j].seq
      BY <1>1, <3>1 DEF Marked
    <3>3. events[j].seq \in Int /\ events[j].seq <= seq
      <4>1. events[j].seq = seq - m + j
        BY <1>1, <3>1 DEF Numbered
      <4> QED BY <1>1, <1>7, <1>9, <3>1, <4>1
    <3> QED BY <1>3, <3>1, <3>2, <3>3, SaidGrows
  <2> QED BY <2>1, <2>2
<1>13. Marked(events)'
  <2>1. ASSUME NEW i \in DOMAIN events'
        PROVE  events'[i].type = "delta" <=> \E k \in DOMAIN said' : said'[k] = events'[i].seq
    BY <1>9, <1>12
  <2> QED BY <2>1 DEF Marked
<1>14. CASE type = "delta"
  <2>1. text' = said' /\ textSeq' = seq' /\ Kept /\ ~Cleared
    BY <1>2, <1>4, <1>14 DEF Kept
  <2>2. Kept'
    BY <1>5, <2>1 DEF Kept, SaidInOrder
  <2> QED BY <1>3, <1>5, <1>11, <1>13, <2>1, <2>2 DEF StreamSound, CacheMoves
<1>15. CASE type # "delta"
  <2>1. text' = text /\ textSeq' = textSeq /\ said' = said
    BY <1>2, <1>15
  <2>2. Kept' <=> Kept
    BY <2>1 DEF Kept
  <2>3. ASSUME Cleared PROVE Cleared'
    <3>1. \A i \in DOMAIN events : events[i].type # "delta"
      BY <2>3 DEF Cleared
    <3>2. \A j \in 1..(m + 1) : all[j].type # "delta"
      BY <1>6, <1>7, <1>9, <1>15, <3>1
    <3>3. \A i \in DOMAIN events' : events'[i].type # "delta"
      BY <1>9, <3>2
    <3> QED BY <2>1, <2>3, <3>3 DEF Cleared
  <2> QED BY <1>1, <1>3, <1>5, <1>11, <1>13, <2>2, <2>3 DEF StreamSound, CacheMoves
<1> QED BY <1>14, <1>15

\* A reset withdraws the text for good.
LEMMA ResetSound ==
  ASSUME CacheTypeOK, StreamSound, ResetEvents, phase' # "generating"
  PROVE  StreamSound' /\ CacheMoves /\ said' = said
<1>1. /\ seq' = seq /\ events' = <<>> /\ text' = <<>> /\ textSeq' = 0 /\ said' = said
      /\ seq \in Nat /\ said \in Seq(Seqs) /\ SaidInOrder /\ (Kept \/ Cleared)
  BY DEF ResetEvents, CacheTypeOK, StreamSound
<1>2. DOMAIN events' = {}
  BY <1>1, EmptySeq
<1>3. SaidMoves /\ SaidInOrder'
  BY <1>1 DEF SaidMoves, SaidInOrder
<1>4. Numbered(events, seq)' /\ Marked(events)' /\ Cleared'
  BY <1>1, <1>2 DEF Numbered, Marked, Cleared
<1>5. ASSUME Kept' PROVE Kept
  <2>1. said = <<>>
    BY <1>1, <1>5 DEF Kept
  <2>2. text = said /\ DOMAIN said = {}
    BY <1>1, <2>1, EmptySeq DEF Kept, Cleared
  <2> QED BY <2>2 DEF Kept
<1> QED BY <1>1, <1>3, <1>4, <1>5 DEF StreamSound, CacheMoves

\* A step that leaves the stream alone.
LEMMA StillSound ==
  ASSUME CacheTypeOK, StreamSound, UNCHANGED <<seq, events, text, textSeq, said>>,
         phase # "generating" => phase' # "generating"
  PROVE  StreamSound' /\ CacheMoves /\ said' = said
BY DEF StreamSound, CacheMoves, SaidMoves, SaidInOrder, Numbered, Marked, Kept, Cleared, CacheTypeOK

-----------------------------------------------------------------------------
(* The steps of a client. *)

\* What the changes of a client leave, for any sets of values.
LEMMA ClientChanges ==
  ASSUME NEW A1, NEW A2, NEW A3, NEW A4, NEW A5, NEW A6, NEW A7, NEW A8, NEW A9, NEW A10, NEW A11, NEW A12,
         NEW R, R = [ connection : A1, resumes : A2, after : A3, text : A4, notes : A5, outcome : A6,
                      window : A7, from : A8, cursor : A9, covered : A10, batch : A11, overrun : A12 ],
         NEW x \in R, NEW c \in A1, NEW r \in A2, NEW o \in A6, NEW w \in A7, NEW f \in A8, NEW n \in A9,
         NEW k \in A10, NEW b \in A11, NEW v \in A12
  PROVE  /\ LET y == [x EXCEPT !.connection = c, !.window = w, !.batch = b, !.cursor = n,
                               !.covered = k, !.from = f]
            IN  /\ y \in R /\ y.connection = c /\ y.batch = b /\ y.text = x.text
                /\ y.after = x.after /\ y.overrun = x.overrun
         /\ LET y == [x EXCEPT !.connection = c, !.resumes = r, !.from = f, !.window = w]
            IN  /\ y \in R /\ y.connection = c /\ y.batch = x.batch /\ y.text = x.text
                /\ y.after = x.after /\ y.overrun = x.overrun /\ y.window = w
         /\ LET y == [x EXCEPT !.connection = c, !.window = w, !.cursor = n, !.covered = k]
            IN  /\ y \in R /\ y.connection = c /\ y.batch = x.batch /\ y.text = x.text
                /\ y.after = x.after /\ y.overrun = x.overrun /\ y.from = x.from /\ y.cursor = n
                /\ y.covered = k
         /\ LET y == [x EXCEPT !.connection = c]
            IN  /\ y \in R /\ y.connection = c /\ y.batch = x.batch /\ y.text = x.text
                /\ y.after = x.after /\ y.overrun = x.overrun /\ y.from = x.from
                /\ y.cursor = x.cursor /\ y.covered = x.covered
         /\ LET y == [x EXCEPT !.outcome = o]
            IN  /\ y \in R /\ y.text = x.text /\ y.after = x.after /\ y.overrun = x.overrun
         /\ LET y == [x EXCEPT !.batch = b]
            IN  /\ y \in R /\ y.connection = x.connection /\ y.batch = b /\ y.text = x.text
                /\ y.after = x.after /\ y.overrun = x.overrun /\ y.from = x.from
                /\ y.cursor = x.cursor /\ y.covered = x.covered /\ y.outcome = x.outcome
         /\ LET y == [x EXCEPT !.batch = b, !.cursor = n, !.overrun = v]
            IN  /\ y \in R /\ y.connection = x.connection /\ y.batch = b /\ y.text = x.text
                /\ y.after = x.after /\ y.overrun = v /\ y.from = x.from /\ y.cursor = n
                /\ y.covered = x.covered
<1> DEFINE y1 == [x EXCEPT !.connection = c, !.window = w, !.batch = b, !.cursor = n, !.covered = k, !.from = f]
           y2 == [x EXCEPT !.connection = c, !.resumes = r, !.from = f, !.window = w]
           y3 == [x EXCEPT !.connection = c, !.window = w, !.cursor = n, !.covered = k]
           y4 == [x EXCEPT !.batch = b, !.cursor = n, !.overrun = v]
<1>1. /\ y1 \in R /\ y1.connection = c /\ y1.batch = b /\ y1.text = x.text
      /\ y1.after = x.after /\ y1.overrun = x.overrun
  OBVIOUS
<1>2. /\ y2 \in R /\ y2.connection = c /\ y2.batch = x.batch /\ y2.text = x.text
      /\ y2.after = x.after /\ y2.overrun = x.overrun /\ y2.window = w
  OBVIOUS
<1>3. /\ y3 \in R /\ y3.connection = c /\ y3.batch = x.batch /\ y3.text = x.text
      /\ y3.after = x.after /\ y3.overrun = x.overrun /\ y3.from = x.from /\ y3.cursor = n
      /\ y3.covered = k
  OBVIOUS
<1>4. /\ y4 \in R /\ y4.connection = x.connection /\ y4.batch = b /\ y4.text = x.text
      /\ y4.after = x.after /\ y4.overrun = v /\ y4.from = x.from /\ y4.cursor = n
      /\ y4.covered = x.covered
  OBVIOUS
<1> HIDE DEF y1, y2, y3, y4
<1> QED BY <1>1, <1>2, <1>3, <1>4 DEF y1, y2, y3, y4

\* A client whose connection ends keeps what it has.
LEMMA ClosedIs ==
  ASSUME seq \in Nat, NEW x \in Records
  PROVE  /\ Closed(x) \in Records /\ Closed(x).connection \in {"off", "done"}
         /\ Closed(x).batch = <<>> /\ Closed(x).text = x.text
         /\ Closed(x).after = x.after /\ Closed(x).overrun = x.overrun
<1> DEFINE c == IF x.outcome = "none" THEN "off" ELSE "done"
<1>1. c \in Connections /\ c \in {"off", "done"} /\ <<>> \in Seq(Event) /\ 0 \in 0..seq
  BY EmptySeq DEF Connections
<1> HIDE DEF c
<1>2. LET y == [x EXCEPT !.connection = c, !.window = <<>>, !.batch = <<>>, !.cursor = 0,
                         !.covered = 0, !.from = 0]
      IN  /\ y \in Records /\ y.connection = c /\ y.batch = <<>> /\ y.text = x.text
          /\ y.after = x.after /\ y.overrun = x.overrun
  BY <1>1, ClientChanges DEF Records
<1> QED BY <1>1, <1>2 DEF Closed, c

\* Clients with the same text.
SameText(x, y) == y.text = x.text /\ y.after = x.after /\ y.overrun = x.overrun

LEMMA TextFrame ==
  ASSUME NEW x, NEW y, SameText(x, y), TextSound(x)
  PROVE  TextSound(y)
BY DEF SameText, TextSound

LEMMA ClosedSound ==
  ASSUME seq \in Nat, NEW x \in Records, TextSound(x)
  PROVE  Closed(x) \in Records /\ ClientSound(Closed(x))
<1> DEFINE y == Closed(x)
<1>1. /\ y \in Records /\ y.connection \in {"off", "done"} /\ y.batch = <<>> /\ SameText(x, y)
  BY ClosedIs DEF SameText
<1> HIDE DEF y
<1>2. TextSound(y)
  BY <1>1, TextFrame
<1>3. ClientSound(y)
  BY <1>1, <1>2 DEF ClientSound
<1> QED BY <1>1, <1>3 DEF y

\* The first read of a subscription.
LEMMA ListSound ==
  ASSUME CacheTypeOK, StreamSound, NEW x \in Records, ClientSound(x),
         x.connection = "off", x.resumes < MaxResumes,
         NEW y, y = [x EXCEPT !.connection = "listed", !.resumes = x.resumes + 1,
                              !.from = x.after, !.window = events]
  PROVE  y \in Records /\ ClientSound(y)
<1>1. /\ seq \in Nat /\ events \in Seq(Event) /\ Numbered(events, seq) /\ Marked(events)
      /\ x.after \in 0..seq /\ x.resumes \in 0..MaxResumes /\ MaxResumes \in Nat
  BY StreamAssumption, RecordsAre DEF CacheTypeOK, StreamSound
<1>2. x.resumes + 1 \in 0..MaxResumes /\ "listed" \in Connections
  BY <1>1 DEF Connections
<1>3. /\ y \in Records /\ y.connection = "listed" /\ y.batch = x.batch /\ SameText(x, y)
      /\ y.window = events
  <2> DEFINE r == x.resumes + 1
             a == x.after
  <2>1. r \in 0..MaxResumes /\ a \in 0..seq
    BY <1>1, <1>2
  <2> HIDE DEF r, a
  <2>2. LET z == [x EXCEPT !.connection = "listed", !.resumes = r, !.from = a, !.window = events]
        IN  /\ z \in Records /\ z.connection = "listed" /\ z.batch = x.batch /\ z.text = x.text
            /\ z.after = x.after /\ z.overrun = x.overrun /\ z.window = events
    BY <1>1, <1>2, <2>1, ClientChanges DEF Records
  <2> QED BY <2>2 DEF r, a, SameText
<1>4. WindowSound(y)
  <2>1. \A i \in DOMAIN events : events[i].seq <= seq
    BY <1>1, EventsAre DEF Numbered
  <2> QED BY <1>1, <1>3, <2>1 DEF WindowSound
<1>5. TextSound(y) /\ x.batch = <<>>
  BY <1>3, TextFrame DEF ClientSound
<1> QED BY <1>3, <1>4, <1>5 DEF ClientSound

\* The second read, and the replay, for a stream that can be replayed.
LEMMA ServedSound ==
  ASSUME CacheTypeOK, StreamSound, NEW x \in Records, ClientSound(x), x.connection = "listed",
         ~(textSeq = 0 /\ \E i \in DOMAIN x.window : x.window[i].type = "delta"),
         NEW y, y = Served(x, textSeq, text)
  PROVE  /\ Reads(x, y) /\ TextSound(y)
         /\ x.overrun \/ \/ Cleared
                         \/ \A i \in DOMAIN said : said[i] <= textSeq /\ i <= Len(y.text)
<1>1. /\ seq \in Nat /\ text \in Seq(Seqs) /\ said \in Seq(Seqs) /\ textSeq \in 0..seq
      /\ Kept \/ Cleared
  BY DEF CacheTypeOK, StreamSound
<1>2. WindowSound(x) /\ TextSound(x)
  BY DEF ClientSound
<1>3. \A i \in DOMAIN said : said[i] \in Nat /\ said[i] >= 1 /\ i <= Len(said)
  BY <1>1, TextsAre
<1>4. \A n \in DOMAIN x.window : x.window[n].type = "delta" => x.window[n].seq <= textSeq
  <2>1. CASE Kept
    BY <1>2, <2>1 DEF WindowSound, Marked, Kept
  <2>2. CASE Cleared
    BY <2>2 DEF Cleared
  <2> QED BY <1>1, <2>1, <2>2
<1>5. /\ Reads(x, y) /\ y.text = (IF textSeq = 0 THEN x.text ELSE text)
      /\ textSeq <= y.after \/ textSeq = 0
  BY <1>1, <1>2, <1>4, ServedReads
<1>6. y.overrun = x.overrun /\ x.text \in Seq(Seqs) /\ y.after \in 0..seq
  BY <1>5, RecordsAre DEF Reads
<1>7. CASE x.overrun
  BY <1>5, <1>6, <1>7 DEF TextSound
<1>8. CASE ~x.overrun /\ Kept
  <2>1. \A i \in DOMAIN said : said[i] <= textSeq
    BY <1>8 DEF Kept
  <2>2. CASE textSeq = 0
    <3>1. DOMAIN said = {} /\ y.text = x.text
      <4>1. ASSUME NEW i \in DOMAIN said PROVE FALSE
        BY <1>3, <2>1, <2>2
      <4> QED BY <1>5, <2>2, <4>1
    <3>2. IsPrefix(y.text, said)
      BY <1>2, <1>8, <3>1 DEF TextSound
    <3>3. IsSaidUpTo(y.text, y.after)
      BY <3>1, <3>2 DEF IsSaidUpTo
    <3> QED BY <1>5, <3>1, <3>2, <3>3 DEF TextSound
  <2>3. CASE textSeq # 0
    <3>1. y.text = said /\ textSeq <= y.after
      BY <1>5, <1>8, <2>3 DEF Kept
    <3>2. IsPrefix(said, said)
      BY <1>1, PrefixIs
    <3>3. \A i \in DOMAIN said : said[i] <= y.after
      BY <1>1, <1>3, <1>6, <2>1, <3>1
    <3>4. IsSaidUpTo(y.text, y.after)
      BY <1>3, <3>1, <3>2, <3>3 DEF IsSaidUpTo
    <3> QED BY <1>3, <1>5, <2>1, <3>1, <3>2, <3>4 DEF TextSound
  <2> QED BY <2>2, <2>3
<1>9. CASE ~x.overrun /\ ~Kept
  <2>1. Cleared /\ y.text = x.text
    BY <1>1, <1>5, <1>9 DEF Cleared
  <2>2. IsPrefix(y.text, said)
    BY <1>2, <1>9, <2>1 DEF TextSound
  <2> QED BY <1>5, <1>9, <2>1, <2>2 DEF TextSound
<1> QED BY <1>7, <1>8, <1>9

\* The client that follows the stream after its replay.
LEMMA FollowSound ==
  ASSUME CacheTypeOK, StreamSound, NEW x \in Records, ClientSound(x), x.connection = "listed",
         ~(textSeq = 0 /\ \E i \in DOMAIN x.window : x.window[i].type = "delta"),
         NEW last, last = IF x.window = <<>> THEN 0 ELSE Last(x.window).seq,
         NEW y, y = [Served(x, textSeq, text) EXCEPT !.connection = "checking", !.window = <<>>,
                                                     !.cursor = last, !.covered = textSeq]
  PROVE  y \in Records /\ ClientSound(y)
<1> DEFINE s == Served(x, textSeq, text)
<1>1. /\ Reads(x, s) /\ TextSound(s)
      /\ x.overrun \/ \/ Cleared
                      \/ \A i \in DOMAIN said : said[i] <= textSeq /\ i <= Len(s.text)
  BY ServedSound
<1>2. /\ seq \in Nat /\ textSeq \in 0..seq /\ x.window \in Seq(Event) /\ said \in Seq(Seqs)
      /\ x.batch = <<>> /\ WindowSound(x)
  BY RecordsAre DEF CacheTypeOK, ClientSound
<1>3. last \in 0..seq
  <2>1. CASE x.window = <<>>
    BY <1>2, <2>1
  <2>2. CASE x.window # <<>>
    <3>1. Len(x.window) \in DOMAIN x.window
      BY <1>2, <2>2, EmptySeq
    <3>2. last = x.window[Len(x.window)].seq
      BY <2>2 DEF Last
    <3> QED BY <1>2, <3>1, <3>2, EventsAre DEF WindowSound
  <2> QED BY <2>1, <2>2
<1>4. "checking" \in Connections /\ <<>> \in Seq(Event)
  BY EmptySeq DEF Connections
<1> HIDE DEF s
<1>5. /\ y \in Records /\ y.connection = "checking" /\ y.batch = s.batch /\ y.text = s.text
      /\ y.after = s.after /\ y.overrun = s.overrun /\ y.from = s.from /\ y.cursor = last
      /\ y.covered = textSeq
  <2>1. s \in Records
    BY <1>1 DEF Reads
  <2>2. LET z == [s EXCEPT !.connection = "checking", !.window = <<>>, !.cursor = last, !.covered = textSeq]
        IN  /\ z \in Records /\ z.connection = "checking" /\ z.batch = s.batch /\ z.text = s.text
            /\ z.after = s.after /\ z.overrun = s.overrun /\ z.from = s.from /\ z.cursor = last
            /\ z.covered = textSeq
    BY <1>2, <1>3, <1>4, <2>1, ClientChanges DEF Records
  <2> QED BY <2>2 DEF s
<1>6. TextSound(y) /\ y.batch = <<>> /\ y.overrun = x.overrun
  <2>1. SameText(s, y)
    BY <1>5 DEF SameText
  <2> QED BY <1>1, <1>2, <1>5, <2>1, TextFrame DEF Reads
<1>7. DOMAIN y.batch = {}
  BY <1>6, EmptySeq
<1>8. Numbered(y.batch, y.cursor) /\ Marked(y.batch)
  BY <1>7 DEF Numbered, Marked
<1>9. y.overrun \/ InStep(y) \/ Frozen(y)
  <2>1. CASE x.overrun
    BY <1>6, <2>1
  <2>2. CASE Cleared
    BY <1>7, <2>2 DEF Frozen
  <2>3. CASE \A i \in DOMAIN said : said[i] <= textSeq /\ i <= Len(s.text)
    BY <1>5, <2>3 DEF InStep
  <2> QED BY <1>1, <2>1, <2>2, <2>3
<1> QED BY <1>5, <1>6, <1>8, <1>9 DEF ClientSound, ReaderSound

\* A client that is refused, or told that the run was interrupted.
LEMMA RefusedSound ==
  ASSUME seq \in Nat, NEW x \in Records, ClientSound(x), NEW o \in {"interrupted", "refused"}
  PROVE  /\ Closed([x EXCEPT !.outcome = o]) \in Records
         /\ ClientSound(Closed([x EXCEPT !.outcome = o]))
<1> DEFINE y == [x EXCEPT !.outcome = o]
<1>1. y \in Records /\ SameText(x, y)
  <2>1. LET z == [x EXCEPT !.outcome = o]
        IN  z \in Records /\ z.text = x.text /\ z.after = x.after /\ z.overrun = x.overrun
    BY ClientChanges DEF Records
  <2> QED BY <2>1 DEF SameText
<1> HIDE DEF y
<1>2. TextSound(y)
  BY <1>1, TextFrame DEF ClientSound
<1> QED BY <1>1, <1>2, ClosedSound DEF y

\* The handler's loop begins.
LEMMA ReadingSound ==
  ASSUME NEW x \in Records, ClientSound(x), x.connection = "checking",
         NEW y, y = [x EXCEPT !.connection = "reading"]
  PROVE  y \in Records /\ ClientSound(y)
<1>1. /\ y \in Records /\ y.connection = "reading" /\ y.batch = x.batch /\ y.text = x.text
      /\ y.after = x.after /\ y.overrun = x.overrun /\ y.from = x.from
      /\ y.cursor = x.cursor /\ y.covered = x.covered
  <2>1. "reading" \in Connections
    BY DEF Connections
  <2>2. LET z == [x EXCEPT !.connection = "reading"]
        IN  /\ z \in Records /\ z.connection = "reading" /\ z.batch = x.batch /\ z.text = x.text
            /\ z.after = x.after /\ z.overrun = x.overrun /\ z.from = x.from
            /\ z.cursor = x.cursor /\ z.covered = x.covered
    BY <2>1, ClientChanges DEF Records
  <2> QED BY <2>2
<1>2. TextSound(y)
  BY <1>1, TextFrame DEF ClientSound, SameText
<1>3. ReaderSound(x)
  BY DEF ClientSound
<1>4. ReaderSound(y)
  BY <1>1, <1>3 DEF ReaderSound, InStep, Frozen, Place
<1> QED BY <1>1, <1>2, <1>4 DEF ClientSound

LEMMA SegmentIs ==
  ASSUME NEW S, NEW s \in Seq(S), NEW m \in 1..Len(s), NEW n \in m..Len(s)
  PROVE  /\ SubSeq(s, m, n) \in Seq(S) /\ Len(SubSeq(s, m, n)) = n - m + 1
         /\ \A i \in 1..(n - m + 1) : SubSeq(s, m, n)[i] = s[m + i - 1]
<1>1. m \in 1..(Len(s) + 1) /\ n \in (m - 1)..Len(s)
  OBVIOUS
<1> QED BY <1>1, SubSeqProperties

\* A segment of the numbered events is numbered, and the deltas are those that were said.
LEMMA SegmentSound ==
  ASSUME NEW s \in Seq(Event), NEW last \in Int, Numbered(s, last), Marked(s),
         NEW m \in 1..Len(s), NEW n \in m..Len(s)
  PROVE  Numbered(SubSeq(s, m, n), s[n].seq) /\ Marked(SubSeq(s, m, n))
<1> DEFINE b == SubSeq(s, m, n)
<1>1. b \in Seq(Event) /\ Len(b) = n - m + 1 /\ \A i \in 1..(n - m + 1) : b[i] = s[m + i - 1]
  BY SegmentIs
<1> HIDE DEF b
<1>2. DOMAIN b = 1..(n - m + 1) /\ DOMAIN s = 1..Len(s) /\ Len(s) \in Nat
  BY <1>1
<1>3. \A i \in DOMAIN b : m + i - 1 \in DOMAIN s /\ b[i] = s[m + i - 1]
  BY <1>1, <1>2
<1>4. \A i \in DOMAIN s : s[i].seq = last - Len(s) + i
  BY DEF Numbered
<1>5. n \in DOMAIN s /\ s[n].seq = last - Len(s) + n
  BY <1>2, <1>4, SMTT(30)
<1>6. ASSUME NEW i \in DOMAIN b PROVE b[i].seq = s[n].seq - Len(b) + i
  <2>1. b[i].seq = last - Len(s) + (m + i - 1) /\ i \in Int
    BY <1>2, <1>3, <1>4
  <2> QED BY <1>1, <1>2, <1>5, <2>1
<1>7. Numbered(b, s[n].seq)
  BY <1>6 DEF Numbered
<1>8. Marked(b)
  BY <1>3 DEF Marked
<1> QED BY <1>7, <1>8 DEF b

\* One read of the cache: a client is in step with what it reads, or overrun.
LEMMA ReadSound ==
  ASSUME CacheTypeOK, StreamSound, NEW x \in Records, ClientSound(x),
         x.connection \in {"checking", "reading"}, x.batch = <<>>,
         NEW first \in DOMAIN events, NEW limit,
         limit = IF first + ReadLimit <= Len(events) THEN first + ReadLimit - 1 ELSE Len(events),
         events[first].seq > x.cursor,
         NEW over, over = (\E i \in DOMAIN said : x.cursor < said[i] /\ said[i] < events[first].seq
                                                  /\ x.covered < said[i]),
         NEW y, y = [x EXCEPT !.batch = SubSeq(events, first, limit), !.cursor = events[limit].seq,
                              !.overrun = x.overrun \/ over]
  PROVE  y \in Records /\ ClientSound(y)
<1> DEFINE b == SubSeq(events, first, limit)
           n == events[limit].seq
           k == limit - first + 1
<1>1. /\ seq \in Nat /\ events \in Seq(Event) /\ said \in Seq(Seqs) /\ Numbered(events, seq)
      /\ Marked(events) /\ x.cursor \in 0..seq /\ x.covered \in 0..seq
      /\ x.overrun \in BOOLEAN /\ ReadLimit \in Nat \ {0}
  <2>1. x.overrun \in BOOLEAN
    BY DEF Records
  <2> QED BY <2>1, StreamAssumption, RecordsAre DEF CacheTypeOK, StreamSound
<1>2. DOMAIN events = 1..Len(events) /\ Len(events) \in Nat
  BY <1>1
<1>3. limit \in DOMAIN events /\ first <= limit /\ k \in Nat \ {0}
  BY <1>1, <1>2
<1>4. \A i \in DOMAIN events : events[i] \in Event /\ events[i].seq = seq - Len(events) + i
  BY <1>1 DEF Numbered
<1>5. /\ b \in Seq(Event) /\ Len(b) = k /\ \A i \in 1..k : b[i] = events[first + i - 1]
  <2>1. first \in 1..Len(events) /\ limit \in first..Len(events)
    BY <1>2, <1>3
  <2>2. /\ b \in Seq(Event) /\ Len(b) = limit - first + 1
        /\ \A i \in 1..(limit - first + 1) : b[i] = events[first + i - 1]
    BY <1>1, <2>1, SegmentIs
  <2> QED BY <2>2
<1>6. n \in 0..seq
  <2>1. n = seq - Len(events) + limit /\ n \in Nat
    BY <1>1, <1>3, <1>4, EventsAre
  <2> HIDE DEF n
  <2> QED BY <1>1, <1>2, <1>3, <2>1
<1> HIDE DEF b, n
<1>7. /\ y \in Records /\ y.connection = x.connection /\ y.batch = b /\ y.text = x.text
      /\ y.after = x.after /\ y.overrun = (x.overrun \/ over) /\ y.from = x.from /\ y.cursor = n
      /\ y.covered = x.covered
  <2> DEFINE v == x.overrun \/ over
             A12 == BOOLEAN
  <2>1. v \in A12
    OBVIOUS
  <2>2. y = [x EXCEPT !.batch = b, !.cursor = n, !.overrun = v]
    BY DEF b, n
  <2> HIDE DEF v, A12
  <2>3. LET z == [x EXCEPT !.batch = b, !.cursor = n, !.overrun = v]
        IN  /\ z \in Records /\ z.connection = x.connection /\ z.batch = b /\ z.text = x.text
            /\ z.after = x.after /\ z.overrun = v /\ z.from = x.from /\ z.cursor = n
            /\ z.covered = x.covered
    BY <1>5, <1>6, <2>1, ClientChanges DEF Records, A12
  <2> QED BY <2>2, <2>3 DEF v
<1>8. DOMAIN b = 1..k
  BY <1>5
<1>9. \A i \in 1..k : first + i - 1 \in DOMAIN events /\ b[i] = events[first + i - 1]
  BY <1>2, <1>3, <1>5, SMTT(30)
<1>10. n = seq - Len(events) + limit
  BY <1>3, <1>4 DEF n
<1>11. Numbered(b, n) /\ Marked(b)
  <2>1. first \in 1..Len(events) /\ limit \in first..Len(events)
    BY <1>2, <1>3
  <2> QED BY <1>1, <2>1, SegmentSound DEF b, n
<1>12. Place(y) = events[first].seq - 1
  <2>1. events[first].seq = seq - Len(events) + first
    BY <1>4
  <2> QED BY <1>1, <1>2, <1>3, <1>5, <1>7, <1>10, <2>1, SMTT(30) DEF Place
<1>13. ReaderSound(x)
  BY DEF ClientSound
<1>14. Place(x) = x.cursor
  <2>1. Len(x.batch) = 0
    BY EmptySeq
  <2> QED BY <1>1, <2>1 DEF Place
<1>15. y.overrun \/ InStep(y) \/ Frozen(y)
  <2>1. CASE x.overrun \/ over
    BY <1>7, <2>1, Zenon
  <2>2. CASE ~x.overrun /\ ~over /\ InStep(x)
    <3>1. /\ \A i \in DOMAIN said : (said[i] <= x.cursor \/ said[i] <= x.covered) <=> i <= Len(x.text)
          /\ \A i \in DOMAIN said : said[i] <= x.from => said[i] <= x.covered
      BY <1>14, <2>2 DEF InStep
    <3>2. \A i \in DOMAIN said : said[i] \in Nat
      BY <1>1, TextsAre
    <3>3. events[first].seq \in Nat
      BY <1>1, EventsAre
    <3>4. ASSUME NEW i \in DOMAIN said
          PROVE  (said[i] <= events[first].seq - 1 \/ said[i] <= x.covered) <=> i <= Len(x.text)
      <4>1. ~(x.cursor < said[i] /\ said[i] < events[first].seq /\ x.covered < said[i])
        BY <2>2
      <4>2. (said[i] <= events[first].seq - 1 \/ said[i] <= x.covered)
               <=> (said[i] <= x.cursor \/ said[i] <= x.covered)
        BY <1>1, <3>2, <3>3, <4>1, SMTT(30)
      <4> QED BY <3>1, <4>2
    <3> QED BY <1>7, <1>12, <3>1, <3>4 DEF InStep
  <2>3. CASE Frozen(x)
    <3>1. \A i \in DOMAIN events : events[i].type # "delta"
      BY <2>3 DEF Frozen, Cleared
    <3>2. \A i \in DOMAIN b : b[i].type # "delta"
      BY <1>8, <1>9, <3>1
    <3> QED BY <1>7, <2>3, <3>2 DEF Frozen
  <2>4. x.overrun \/ InStep(x) \/ Frozen(x)
    BY <1>13 DEF ReaderSound
  <2> QED BY <2>1, <2>2, <2>3, <2>4
<1>16. TextSound(y)
  <2>1. TextSound(x)
    BY DEF ClientSound
  <2> QED BY <1>7, <2>1 DEF TextSound
<1>17. ReaderSound(y)
  BY <1>7, <1>11, <1>15 DEF ReaderSound
<1> QED BY <1>7, <1>16, <1>17 DEF ClientSound

\* The delta at a client's place is the next one of what was said.
LEMMA NextSaid ==
  ASSUME said \in Seq(Seqs), SaidInOrder, NEW t \in Seq(Seqs), IsPrefix(t, said),
         NEW p \in Int, NEW covered \in Int, covered < p + 1,
         \A i \in DOMAIN said : (said[i] <= p \/ said[i] <= covered) <=> i <= Len(t),
         NEW k \in DOMAIN said, said[k] = p + 1
  PROVE  /\ IsPrefix(Append(t, p + 1), said) /\ Len(Append(t, p + 1)) = Len(t) + 1
         /\ k = Len(t) + 1
         /\ \A i \in DOMAIN said : said[i] <= p + 1 <=> i <= Len(t) + 1
<1>1. /\ DOMAIN said = 1..Len(said) /\ Len(said) \in Nat
      /\ \A i \in DOMAIN said : said[i] \in Nat
  BY TextsAre
<1>2. Len(t) \in Nat /\ Len(t) <= Len(said) /\ \A i \in 1..Len(t) : t[i] = said[i]
  BY PrefixIs
<1>3. \A i, j \in DOMAIN said : i < j => said[i] < said[j]
  BY DEF SaidInOrder
<1>4. ~(k <= Len(t))
  OBVIOUS
<1>5. k = Len(t) + 1
  <2>1. CASE Len(t) + 1 < k
    <3>1. Len(t) + 1 \in DOMAIN said
      BY <1>1, <1>2, <2>1
    <3>2. said[Len(t) + 1] < p + 1 /\ said[Len(t) + 1] \in Nat
      BY <1>1, <1>3, <2>1, <3>1
    <3>3. said[Len(t) + 1] <= p
      BY <3>2
    <3>4. Len(t) + 1 <= Len(t)
      BY <3>1, <3>3
    <3> QED BY <1>2, <3>4
  <2> QED BY <1>1, <1>2, <1>4, <2>1
<1> DEFINE u == Append(t, p + 1)
<1>6. said[k] \in Seqs
  OBVIOUS
<1>7. u \in Seq(Seqs) /\ Len(u) = Len(t) + 1 /\ u[Len(t) + 1] = p + 1 /\ \A i \in 1..Len(t) : u[i] = t[i]
  BY <1>6, AppendProperties
<1> HIDE DEF u
<1>8. IsPrefix(u, said)
  <2>1. Len(u) <= Len(said)
    BY <1>1, <1>5, <1>7
  <2>2. ASSUME NEW i \in 1..Len(u) PROVE u[i] = said[i]
    <3>1. CASE i = Len(t) + 1
      BY <1>5, <1>7, <3>1
    <3>2. CASE i # Len(t) + 1
      <4>1. i \in 1..Len(t)
        BY <1>2, <1>7, <3>2
      <4> QED BY <1>2, <1>7, <4>1
    <3> QED BY <3>1, <3>2
  <2> QED BY <1>7, <2>1, <2>2, PrefixIs
<1>9. ASSUME NEW i \in DOMAIN said PROVE said[i] <= p + 1 <=> i <= Len(t) + 1
  <2>1. CASE i = k
    BY <1>5, <2>1
  <2>2. CASE i < k
    BY <1>1, <1>3, <1>5, <2>2
  <2>3. CASE i > k
    BY <1>1, <1>3, <1>5, <2>3
  <2> QED BY <1>1, <2>1, <2>2, <2>3
<1> QED BY <1>5, <1>7, <1>8, <1>9 DEF u

\* What a client becomes by a delivery, apart from its record.
Delivers(x, e, y) ==
  /\ y.connection = x.connection /\ y.overrun = x.overrun /\ y.from = x.from
  /\ y.cursor = x.cursor /\ y.covered = x.covered /\ y.batch = Tail(x.batch)
  /\ IF e.seq <= x.from \/ (e.type = "delta" /\ e.seq <= x.covered)
     THEN y.text = x.text /\ y.after = x.after
     ELSE /\ y.text = (IF e.type = "delta" THEN Append(x.text, e.seq) ELSE x.text)
          /\ y.after = Greater(x.after, e.seq)

\* The place moves on by one, and the batch is still numbered.
LEMMA TailSound ==
  ASSUME NEW b \in Seq(Event), b # <<>>, NEW n \in Nat, Numbered(b, n), Marked(b)
  PROVE  /\ Numbered(Tail(b), n) /\ Marked(Tail(b)) /\ Tail(b) \in Seq(Event)
         /\ n - Len(Tail(b)) = n - Len(b) + 1
         /\ Head(b) \in Event /\ Head(b).seq = n - Len(b) + 1
         /\ Head(b).type = "delta" <=> \E k \in DOMAIN said : said[k] = n - Len(b) + 1
         /\ \A i \in DOMAIN Tail(b) : i + 1 \in DOMAIN b /\ Tail(b)[i] = b[i + 1]
         /\ Head(b) = b[1] /\ 1 \in DOMAIN b
<1>1. Len(b) \in Nat \ {0} /\ DOMAIN b = 1..Len(b)
  BY EmptySeq
<1>2. /\ Tail(b) \in Seq(Event) /\ Len(Tail(b)) = Len(b) - 1
      /\ \A i \in 1..Len(Tail(b)) : Tail(b)[i] = b[i + 1]
      /\ Head(b) = b[1]
  BY HeadTailProperties
<1>3. DOMAIN Tail(b) = 1..(Len(b) - 1)
  BY <1>2
<1>4. \A i \in DOMAIN Tail(b) : i + 1 \in DOMAIN b /\ Tail(b)[i] = b[i + 1]
  BY <1>1, <1>2, <1>3
<1>5. \A i \in DOMAIN b : b[i] \in Event /\ b[i].seq = n - Len(b) + i
  BY DEF Numbered
<1>6. 1 \in DOMAIN b
  BY <1>1
<1>7. ASSUME NEW i \in DOMAIN Tail(b) PROVE Tail(b)[i].seq = n - Len(Tail(b)) + i
  <2>1. Tail(b)[i].seq = n - Len(b) + (i + 1) /\ i \in Nat
    BY <1>3, <1>4, <1>5
  <2> QED BY <1>1, <1>2, <2>1
<1>8. Numbered(Tail(b), n)
  BY <1>7 DEF Numbered
<1>9. Marked(Tail(b))
  BY <1>4 DEF Marked
<1>10. Head(b) \in Event /\ Head(b).seq = n - Len(b) + 1
  BY <1>2, <1>5, <1>6
<1>11. Head(b).type = "delta" <=> \E k \in DOMAIN said : said[k] = Head(b).seq
  BY <1>2, <1>6 DEF Marked
<1>12. n - Len(Tail(b)) = n - Len(b) + 1
  BY <1>1, <1>2
<1> QED BY <1>2, <1>4, <1>6, <1>8, <1>9, <1>10, <1>11, <1>12

\* A client that is given the record at its place is in step with the next place.
LEMMA DeliverInStep ==
  ASSUME CacheTypeOK, StreamSound, NEW x \in Records, ~x.overrun, TextSound(x), InStep(x),
         NEW y, NEW e, Delivers(x, e, y), e.seq = Place(x) + 1, Place(y) = Place(x) + 1,
         e.type = "delta" <=> \E k \in DOMAIN said : said[k] = Place(x) + 1
  PROVE  TextSound(y) /\ InStep(y)
<1> DEFINE p == Place(x)
           t == x.text
<1>1. /\ seq \in Nat /\ said \in Seq(Seqs) /\ SaidInOrder /\ t \in Seq(Seqs) /\ x.after \in 0..seq
      /\ x.covered \in 0..seq /\ x.from \in 0..seq /\ p \in Int
  <2>1. x.cursor \in 0..seq /\ x.batch \in Seq(Event)
    BY RecordsAre
  <2> QED BY <2>1, RecordsAre DEF CacheTypeOK, StreamSound, Place
<1>2. \A i \in DOMAIN said : said[i] \in Nat
  BY <1>1, TextsAre
<1>3. /\ \A i \in DOMAIN said : (said[i] <= p \/ said[i] <= x.covered) <=> i <= Len(t)
      /\ \A i \in DOMAIN said : said[i] <= x.from => said[i] <= x.covered
  BY DEF InStep
<1>4. IsPrefix(t, said) /\ (Kept => \A i \in DOMAIN said : said[i] <= x.after <=> i <= Len(t))
  BY DEF TextSound, IsSaidUpTo
<1>5. /\ y.overrun = x.overrun /\ y.from = x.from /\ y.covered = x.covered
      /\ e.seq = p + 1 /\ Place(y) = p + 1
      /\ e.type = "delta" <=> \E k \in DOMAIN said : said[k] = p + 1
  BY DEF Delivers
<1> HIDE DEF p, t
<1>6. CASE e.seq <= x.from \/ (e.type = "delta" /\ e.seq <= x.covered)
  <2>1. y.text = t /\ y.after = x.after
    BY <1>6 DEF Delivers, t
  <2>2. TextSound(y)
    BY <1>5, <2>1 DEF TextSound, t
  <2>3. ASSUME NEW i \in DOMAIN said
        PROVE  (said[i] <= p + 1 \/ said[i] <= x.covered) <=> i <= Len(t)
    <3>1. CASE said[i] = p + 1
      <4>1. said[i] <= x.covered
        BY <1>3, <1>5, <1>6, <3>1
      <4> QED BY <1>3, <4>1
    <3>2. CASE said[i] # p + 1
      <4>1. said[i] <= p + 1 <=> said[i] <= p
        BY <1>1, <1>2, <3>2
      <4> QED BY <1>3, <4>1
    <3> QED BY <3>1, <3>2
  <2>4. InStep(y)
    BY <1>3, <1>5, <2>1, <2>3 DEF InStep
  <2> QED BY <2>2, <2>4
<1>7. CASE ~(e.seq <= x.from) /\ e.type # "delta"
  <2>1. y.text = t /\ y.after = Greater(x.after, p + 1)
    BY <1>5, <1>7 DEF Delivers, t
  <2>2. \A i \in DOMAIN said : said[i] # p + 1
    BY <1>5, <1>7
  <2>3. \A i \in DOMAIN said : said[i] <= p + 1 <=> said[i] <= p
    BY <1>1, <1>2, <2>2
  <2>4. InStep(y)
    BY <1>3, <1>5, <2>1, <2>3 DEF InStep
  <2>5. ASSUME Kept, NEW i \in DOMAIN said PROVE said[i] <= y.after <=> i <= Len(t)
    <3>1. CASE x.after < p + 1
      <4>1. y.after = p + 1
        BY <1>1, <2>1, <3>1 DEF Greater
      <4>2. (said[i] <= p \/ said[i] <= x.covered) <=> i <= Len(t)
        BY <1>3
      <4>3. said[i] <= x.after <=> i <= Len(t)
        BY <1>4, <2>5
      <4>4. said[i] <= p + 1 <=> said[i] <= p
        BY <2>3
      <4>5. said[i] <= x.after => said[i] <= p + 1
        BY <1>1, <1>2, <3>1
      <4> QED BY <4>1, <4>2, <4>3, <4>4, <4>5
    <3>2. CASE ~(x.after < p + 1)
      <4>1. y.after = x.after
        BY <1>1, <2>1, <3>2 DEF Greater
      <4> QED BY <1>4, <2>5, <4>1
    <3> QED BY <3>1, <3>2
  <2>6. TextSound(y)
    BY <1>4, <1>5, <2>1, <2>5 DEF TextSound, IsSaidUpTo
  <2> QED BY <2>4, <2>6
<1>8. CASE ~(e.seq <= x.from) /\ e.type = "delta" /\ ~(e.seq <= x.covered)
  <2>1. y.text = Append(t, p + 1) /\ y.after = Greater(x.after, p + 1)
    BY <1>5, <1>8 DEF Delivers, t
  <2>2. PICK k \in DOMAIN said : said[k] = p + 1
    BY <1>5, <1>8
  <2>3. x.covered < p + 1 /\ x.covered \in Int
    BY <1>1, <1>5, <1>8
  <2> DEFINE u == Append(t, p + 1)
  <2>4. /\ IsPrefix(u, said) /\ Len(u) = Len(t) + 1 /\ k = Len(t) + 1
        /\ \A i \in DOMAIN said : said[i] <= p + 1 <=> i <= Len(t) + 1
    BY <1>1, <1>3, <1>4, <2>2, <2>3, NextSaid
  <2> HIDE DEF u
  <2>5. y.text = u
    BY <2>1 DEF u
  <2>6. \A i \in DOMAIN said : said[i] <= x.covered => said[i] <= p + 1
    BY <1>1, <1>2, <2>3
  <2>7. InStep(y)
    BY <1>3, <1>5, <2>4, <2>5, <2>6 DEF InStep
  <2>8. ASSUME Kept PROVE IsSaidUpTo(u, y.after)
    <3>1. said[k] <= x.after <=> k <= Len(t)
      BY <1>4, <2>8
    <3>2. Len(t) \in Nat
      BY <1>1
    <3>3. ~(p + 1 <= x.after)
      BY <2>2, <2>4, <3>1, <3>2
    <3>4. y.after = p + 1
      BY <1>1, <2>1, <3>3 DEF Greater
    <3> QED BY <2>4, <3>4 DEF IsSaidUpTo
  <2>9. TextSound(y)
    BY <2>4, <2>5, <2>8 DEF TextSound
  <2> QED BY <2>7, <2>9
<1> QED BY <1>6, <1>7, <1>8

\* A client of a withdrawn answer is given no text.
LEMMA DeliverFrozen ==
  ASSUME CacheTypeOK, StreamSound, NEW x \in Records, ~x.overrun, TextSound(x), Frozen(x),
         NEW y, NEW e, Delivers(x, e, y), e.type # "delta",
         \A i \in DOMAIN y.batch : y.batch[i].type # "delta"
  PROVE  TextSound(y) /\ Frozen(y)
<1>1. Frozen(y)
  BY DEF Frozen
<1>2. y.text = x.text /\ y.overrun = x.overrun
  BY DEF Delivers
<1>3. IsPrefix(y.text, said)
  BY <1>2 DEF TextSound
<1>4. Kept => DOMAIN said = {}
  BY EmptySeq DEF Kept, Frozen, Cleared
<1>5. Kept => IsSaidUpTo(y.text, y.after)
  BY <1>3, <1>4 DEF IsSaidUpTo
<1> QED BY <1>1, <1>3, <1>5 DEF TextSound

\* One record for a client, whether it is skipped or brings something.
LEMMA DeliverSound ==
  ASSUME CacheTypeOK, StreamSound, NEW x \in Records, ClientSound(x),
         x.connection = "reading", x.batch # <<>>,
         NEW e, e = Head(x.batch),
         NEW rest, rest = [x EXCEPT !.batch = Tail(x.batch)],
         NEW y, y = IF e.seq <= x.from \/ (e.type = "delta" /\ e.seq <= x.covered)
                    THEN rest ELSE Apply(rest, e)
  PROVE  y \in Records /\ ClientSound(y) /\ TextSound(y)
<1> DEFINE b == x.batch
<1>1. /\ seq \in Nat /\ b \in Seq(Event) /\ x.cursor \in 0..seq
      /\ ReaderSound(x) /\ TextSound(x)
  BY RecordsAre DEF CacheTypeOK, ClientSound
<1>2. /\ Numbered(Tail(b), x.cursor) /\ Marked(Tail(b)) /\ Tail(b) \in Seq(Event)
      /\ x.cursor - Len(Tail(b)) = x.cursor - Len(b) + 1
      /\ e \in Event /\ e.seq = x.cursor - Len(b) + 1
      /\ e.type = "delta" <=> \E k \in DOMAIN said : said[k] = x.cursor - Len(b) + 1
      /\ \A i \in DOMAIN Tail(b) : i + 1 \in DOMAIN b /\ Tail(b)[i] = b[i + 1]
      /\ e = b[1] /\ 1 \in DOMAIN b
  BY <1>1, TailSound DEF ReaderSound
<1>3. /\ rest \in Records /\ rest.connection = x.connection /\ rest.batch = Tail(b)
      /\ rest.text = x.text /\ rest.after = x.after /\ rest.overrun = x.overrun
      /\ rest.from = x.from /\ rest.cursor = x.cursor /\ rest.covered = x.covered
  <2> DEFINE v == Tail(b)
  <2>1. v \in Seq(Event)
    BY <1>2
  <2> HIDE DEF v
  <2>2. LET z == [x EXCEPT !.batch = v]
        IN  /\ z \in Records /\ z.connection = x.connection /\ z.batch = v /\ z.text = x.text
            /\ z.after = x.after /\ z.overrun = x.overrun /\ z.from = x.from
            /\ z.cursor = x.cursor /\ z.covered = x.covered /\ z.outcome = x.outcome
    BY <2>1, ClientChanges DEF Records
  <2> QED BY <2>2 DEF v
<1>4. Readable(e) /\ e.type # "replace"
  <2>1. e.type \in EventTypes /\ e.seq \in Seqs
    BY <1>2 DEF Event
  <2>2. "replace" \notin EventTypes
    BY DEF EventTypes, Terminal
  <2>3. Len(b) \in Nat \ {0}
    BY <1>1, EmptySeq
  <2>4. e.seq \in 0..seq
    <3>1. e.seq >= 1 /\ e.seq \in Nat
      BY <1>1, <1>2, EventsAre
    <3> QED BY <1>1, <1>2, <2>3, <3>1
  <2> QED BY <2>1, <2>2, <2>4 DEF Readable
<1>5. Applied(rest, e, Apply(rest, e))
  BY <1>1, <1>3, <1>4, ApplyReads
<1>6. y \in Records /\ Delivers(x, e, y)
  <2>1. CASE e.seq <= x.from \/ (e.type = "delta" /\ e.seq <= x.covered)
    BY <1>3, <2>1 DEF Delivers
  <2>2. CASE ~(e.seq <= x.from \/ (e.type = "delta" /\ e.seq <= x.covered))
    <3> DEFINE z == Apply(rest, e)
    <3>1. y = z
      BY <2>2
    <3>2. Applied(rest, e, z)
      BY <1>5
    <3> HIDE DEF z
    <3> QED BY <1>3, <1>4, <2>2, <3>1, <3>2 DEF Applied, Reads, Delivers
  <2> QED BY <2>1, <2>2
<1>7. /\ y.connection = "reading" /\ y.batch = Tail(b) /\ y.cursor = x.cursor
      /\ y.overrun = x.overrun
  BY <1>6 DEF Delivers
<1>8. Place(y) = Place(x) + 1 /\ e.seq = Place(x) + 1
  BY <1>2, <1>7 DEF Place
<1>9. CASE x.overrun
  <2>1. TextSound(y)
    BY <1>7, <1>9 DEF TextSound
  <2>2. ReaderSound(y)
    BY <1>2, <1>7, <1>9 DEF ReaderSound
  <2> QED BY <1>6, <1>7, <2>1, <2>2 DEF ClientSound
<1>10. CASE ~x.overrun /\ InStep(x)
  <2>1. e.type = "delta" <=> \E k \in DOMAIN said : said[k] = Place(x) + 1
    BY <1>2 DEF Place
  <2>2. TextSound(y) /\ InStep(y)
    BY <1>1, <1>6, <1>8, <1>10, <2>1, DeliverInStep
  <2>3. ReaderSound(y)
    BY <1>2, <1>7, <2>2 DEF ReaderSound
  <2> QED BY <1>6, <1>7, <2>2, <2>3 DEF ClientSound
<1>11. CASE ~x.overrun /\ Frozen(x)
  <2>1. \A i \in DOMAIN b : b[i].type # "delta"
    BY <1>11 DEF Frozen
  <2>2. e.type # "delta" /\ \A i \in DOMAIN y.batch : y.batch[i].type # "delta"
    BY <1>2, <1>7, <2>1, ZenonT(60)
  <2>3. TextSound(y) /\ Frozen(y)
    BY <1>1, <1>6, <1>11, <2>2, DeliverFrozen
  <2>4. ReaderSound(y)
    BY <1>2, <1>7, <2>3 DEF ReaderSound
  <2> QED BY <1>6, <1>7, <2>3, <2>4 DEF ClientSound
<1> QED BY <1>1, <1>9, <1>10, <1>11 DEF ReaderSound

-----------------------------------------------------------------------------
(* Events that are written as they are stored. *)

\* A client to which an event is written as it is stored.
LEMMA FlushApplies ==
  ASSUME seq \in Nat, seq' = seq + 1, NEW x \in Records, NEW type \in EventTypes, seq + 1 \in Seqs,
         NEW y, y = Apply(x, [seq |-> seq + 1, type |-> type])
  PROVE  /\ y \in Records' /\ y.after = seq + 1
         /\ y.text = IF type = "delta" THEN Append(x.text, seq + 1) ELSE x.text
         /\ y.connection = x.connection /\ y.batch = x.batch /\ y.overrun = x.overrun
<1> DEFINE e == [seq |-> seq + 1, type |-> type]
           t == IF type = "delta" THEN Append(x.text, seq + 1) ELSE x.text
           n == IF type = "note" THEN x.notes \cup {seq + 1} ELSE x.notes
           o == IF type \in Terminal /\ x.outcome = "none" THEN type ELSE x.outcome
           k == seq + 1
<1>1. /\ x.after \in 0..seq /\ x.text \in Seq(Seqs) /\ x.notes \in SUBSET Seqs
      /\ x.outcome \in Terminal \cup {"none", "interrupted", "refused"}
  BY RecordsAre
<1>2. e.seq = k /\ e.type = type /\ k \in 0..seq' /\ k \in Seqs
  OBVIOUS
<1>3. Greater(x.after, k) = k
  BY <1>1 DEF Greater
<1>4. t \in Seq(Seqs)
  <2>1. Append(x.text, k) \in Seq(Seqs)
    BY <1>1, <1>2, AppendProperties
  <2> QED BY <1>1, <2>1
<1>5. n \in SUBSET Seqs
  BY <1>1
<1>6. o \in Terminal \cup {"none", "interrupted", "refused"}
  BY <1>1
<1>7. "replace" \notin EventTypes
  BY DEF EventTypes, Terminal
<1>8. t = CASE type = "delta" -> Append(x.text, k) [] type = "replace" -> e.text [] OTHER -> x.text
  BY <1>7
<1>9. y = [x EXCEPT !.after = k, !.text = t, !.notes = n, !.outcome = o]
  BY <1>2, <1>3, <1>8 DEF Apply
<1>10. x \in Records'
  <2>1. 0..seq \subseteq 0..seq'
    OBVIOUS
  <2> DEFINE A == BOOLEAN
             B == 0..seq
             C == 0..seq'
  <2>2. x \in [ connection : Connections, resumes : 0..MaxResumes, after : B, text : Seq(Seqs),
                notes : SUBSET Seqs, outcome : Terminal \cup {"none", "interrupted", "refused"},
                window : Seq(Event), from : B, cursor : B, covered : B, batch : Seq(Event), overrun : A ]
    BY DEF Records
  <2>3. B \subseteq C
    BY <2>1
  <2> HIDE DEF A, B, C
  <2>4. x \in [ connection : Connections, resumes : 0..MaxResumes, after : C, text : Seq(Seqs),
                notes : SUBSET Seqs, outcome : Terminal \cup {"none", "interrupted", "refused"},
                window : Seq(Event), from : C, cursor : C, covered : C, batch : Seq(Event), overrun : A ]
    BY <2>2, <2>3
  <2> QED BY <2>4 DEF Records, A, C
<1> HIDE DEF t, n, o, k
<1>11. /\ y \in Records' /\ y.after = k /\ y.text = t
       /\ y.connection = x.connection /\ y.batch = x.batch /\ y.overrun = x.overrun
  <2> DEFINE A == BOOLEAN
             C == 0..seq'
             R == [ connection : Connections, resumes : 0..MaxResumes, after : C, text : Seq(Seqs),
                    notes : SUBSET Seqs, outcome : Terminal \cup {"none", "interrupted", "refused"},
                    window : Seq(Event), from : C, cursor : C, covered : C, batch : Seq(Event), overrun : A ]
  <2>1. Records' = R
    BY DEF Records
  <2>2. k \in C
    BY <1>2
  <2> HIDE DEF A, C
  <2>3. x \in R
    BY <1>10, <2>1
  <2> DEFINE z == [x EXCEPT !.after = k, !.text = t, !.notes = n, !.outcome = o]
  <2>4. z = [x EXCEPT !.after = k, !.text = t, !.notes = n, !.outcome = o]
    OBVIOUS
  <2> HIDE DEF z
  <2>5. /\ z \in R /\ z.after = k /\ z.text = t
        /\ z.connection = x.connection /\ z.batch = x.batch /\ z.overrun = x.overrun
    BY <1>4, <1>5, <1>6, <2>2, <2>3, <2>4, ApplyIs, Zenon
  <2>6. y = z
    BY <1>9, <2>4
  <2> HIDE DEF R
  <2> QED BY <2>1, <2>5, <2>6
<1> QED BY <1>11 DEF t, k

\* The request that started the run has all the text, with what the event adds.
LEMMA FlushSound ==
  ASSUME CacheTypeOK, StreamSound, StreamSound', CacheMoves, NEW type \in EventTypes, seq + 1 \in Seqs,
         AppendEvent(type), type = "delta" => phase = "generating",
         NEW x \in Records, ClientSound(x), x.connection = "live",
         NEW y, y = Apply(x, [seq |-> seq + 1, type |-> type])
  PROVE  y \in Records' /\ TextSound(y)' /\ ClientSound(y)'
<1>1. /\ seq \in Nat /\ seq' = seq + 1 /\ said \in Seq(Seqs)
      /\ IF type = "delta" THEN text' = Append(text, seq + 1) /\ said' = Append(said, seq + 1)
         ELSE said' = said
      /\ Kept' => Kept
  BY DEF CacheTypeOK, AppendEvent, CacheMoves
<1>2. /\ y \in Records' /\ y.after = seq + 1
      /\ y.text = IF type = "delta" THEN Append(x.text, seq + 1) ELSE x.text
      /\ y.connection = "live" /\ y.batch = x.batch /\ y.overrun = x.overrun
  BY <1>1, FlushApplies
<1>3. /\ x.batch = <<>> /\ (Kept => x.text = said) /\ x.text \in Seq(Seqs)
      /\ x.overrun \/ IsPrefix(x.text, said)
  BY RecordsAre DEF ClientSound, TextSound
<1>4. Kept' => y.text = said'
  BY <1>1, <1>2, <1>3
<1>5. Kept' => IsSaidUpTo(y.text, y.after)'
  <2> SUFFICES ASSUME Kept' PROVE IsSaidUpTo(y.text, y.after)'
    OBVIOUS
  <2>1. said' \in Seq(Seqs) /\ y.text = said' /\ y.after = seq'
    BY <1>1, <1>2, <1>4 DEF CacheMoves, SaidMoves
  <2>2. IsPrefix(said', said')
    BY <2>1, PrefixIs
  <2>3. \A i \in DOMAIN said' : said'[i] <= seq' /\ i <= Len(said')
    BY <2>1 DEF StreamSound, SaidInOrder
  <2> QED BY <2>1, <2>2, <2>3 DEF IsSaidUpTo
<1>6. CASE type = "delta"
  <2>1. Kept
    BY <1>6 DEF StreamSound, Cleared
  <2>2. said' \in Seq(Seqs) /\ y.text = said'
    BY <1>1, <1>2, <1>3, <1>6, <2>1 DEF CacheMoves, SaidMoves
  <2>3. IsPrefix(said', said')
    BY <2>2, PrefixIs
  <2>4. TextSound(y)'
    BY <1>5, <2>2, <2>3 DEF TextSound
  <2> QED BY <1>2, <1>3, <1>4, <2>4 DEF ClientSound
<1>7. CASE type # "delta"
  <2>1. TextSound(y)'
    <3>1. y.text = x.text /\ said' = said
      BY <1>1, <1>2, <1>7
    <3> QED BY <1>2, <1>3, <1>5, <3>1 DEF TextSound
  <2> QED BY <1>2, <1>3, <1>4, <2>1 DEF ClientSound
<1> QED BY <1>6, <1>7

\* A connection that ends with the event.
LEMMA FlushClosedSound ==
  ASSUME seq' \in Nat, NEW x \in Records', TextSound(x)'
  PROVE  Closed(x) \in Records' /\ ClientSound(Closed(x))'
<1> DEFINE c == IF x.outcome = "none" THEN "off" ELSE "done"
           y == Closed(x)
<1>1. c \in Connections /\ c \in {"off", "done"} /\ <<>> \in Seq(Event) /\ 0 \in 0..seq'
  BY EmptySeq DEF Connections
<1>2. y = [x EXCEPT !.connection = c, !.window = <<>>, !.batch = <<>>, !.cursor = 0,
                    !.covered = 0, !.from = 0]
  BY DEF Closed
<1> HIDE DEF c, y
<1>3. LET z == [x EXCEPT !.connection = c, !.window = <<>>, !.batch = <<>>, !.cursor = 0,
                         !.covered = 0, !.from = 0]
      IN  /\ z \in Records' /\ z.connection = c /\ z.batch = <<>> /\ z.text = x.text
          /\ z.after = x.after /\ z.overrun = x.overrun
  BY <1>1, ClientChanges DEF Records
<1>4. /\ y \in Records' /\ y.connection = c /\ y.batch = <<>> /\ y.text = x.text
      /\ y.after = x.after /\ y.overrun = x.overrun
  BY <1>2, <1>3
<1>5. TextSound(y)'
  BY <1>4 DEF TextSound
<1>6. ClientSound(y)'
  BY <1>1, <1>4, <1>5 DEF ClientSound
<1> QED BY <1>4, <1>6 DEF y

-----------------------------------------------------------------------------
(* The invariant and its steps. *)

LEMMA InvariantIs ==
  ASSUME StreamInvariant
  PROVE  /\ CacheTypeOK /\ StreamSound /\ client \in [Clients -> Records]
         /\ \A c \in Clients : client[c] \in Records /\ ClientSound(client[c])
<1>1. client \in [Clients -> Records] /\ \A cl \in Range(client) : ClientSound(cl)
  BY DEF StreamInvariant
<1>2. \A c \in Clients : client[c] \in Records /\ client[c] \in Range(client)
  BY <1>1 DEF Range
<1> QED BY <1>1, <1>2 DEF StreamInvariant, CacheInvariant

\* The invariant, client by client.
LEMMA InvariantBuilt ==
  ASSUME CacheInvariant', StreamSound', NEW g, client' = g, g = [c \in Clients |-> g[c]],
         \A c \in Clients : \A y : y = g[c] => y \in Records' /\ ClientSound(y)'
  PROVE  StreamInvariant'
<1>1. g \in [Clients -> Records']
  BY Zenon
<1>2. ASSUME NEW cl \in Range(g) PROVE ClientSound(cl)'
  <2>1. PICK c \in Clients : cl = g[c]
    BY DEF Range
  <2> QED BY <2>1
<1>3. (client \in [Clients -> Records])'
  BY <1>1
<1>4. (\A cl \in Range(client) : ClientSound(cl))'
  BY <1>2
<1> QED BY <1>3, <1>4 DEF StreamInvariant

\* A step that publishes no text, whose clients are as they may be before it.
LEMMA FrameStep ==
  ASSUME CacheInvariant', StreamSound', CacheMoves, said' = said,
         NEW g, client' = g, g = [c \in Clients |-> g[c]],
         \A c \in Clients : g[c] \in Records /\ ClientSound(g[c])
  PROVE  StreamInvariant'
<1>1. ASSUME NEW c \in Clients, NEW y, y = g[c] PROVE y \in Records' /\ ClientSound(y)'
  <2>1. y \in Records /\ ClientSound(y)
    BY <1>1
  <2> QED BY <2>1, ClientFrame
<1> QED BY <1>1, InvariantBuilt

\* A step of one client.
LEMMA UpdateStep ==
  ASSUME StreamInvariant, CacheInvariant', NEW c \in Clients, NEW y \in Records, ClientSound(y),
         Update(c, y)
  PROVE  StreamInvariant'
<1>1. /\ CacheTypeOK /\ StreamSound /\ client \in [Clients -> Records]
      /\ \A d \in Clients : client[d] \in Records /\ ClientSound(client[d])
  BY InvariantIs
<1>2. StreamSound' /\ CacheMoves /\ said' = said
  BY <1>1, StillSound DEF Update
<1> DEFINE g == [client EXCEPT ![c] = y]
<1>3. client' = g /\ g = [d \in Clients |-> g[d]]
  BY <1>1 DEF Update
<1>4. \A d \in Clients : g[d] = IF d = c THEN y ELSE client[d]
  BY <1>1
<1> HIDE DEF g
<1>5. \A d \in Clients : g[d] \in Records /\ ClientSound(g[d])
  BY <1>1, <1>4
<1> QED BY <1>2, <1>3, <1>5, FrameStep

\* An event is stored and written to the request that started the run.
LEMMA FlushStep ==
  ASSUME StreamInvariant, CacheInvariant', NEW type \in EventTypes, seq + 1 \in Seqs, Flush(type),
         type = "delta" => phase = "generating",
         phase # "generating" => phase' # "generating"
  PROVE  StreamInvariant'
<1>1. /\ CacheTypeOK /\ StreamSound /\ client \in [Clients -> Records]
      /\ \A c \in Clients : client[c] \in Records /\ ClientSound(client[c])
  BY InvariantIs
<1>2. AppendEvent(type)
  BY DEF Flush
<1>3. StreamSound' /\ CacheMoves
  BY <1>1, <1>2, AppendSound
<1> DEFINE e == [seq |-> seq + 1, type |-> type]
           g == [c \in Clients |-> IF client[c].connection # "live" THEN client[c]
                                   ELSE LET cl == Apply(client[c], e) IN
                                        IF type \in Terminal THEN Closed(cl) ELSE cl]
<1>4. client' = g /\ g = [c \in Clients |-> g[c]]
  BY DEF Flush
<1>5. ASSUME NEW c \in Clients, NEW y, y = g[c] PROVE y \in Records' /\ ClientSound(y)'
  <2> DEFINE x == client[c]
             z == Apply(x, e)
  <2>1. x \in Records /\ ClientSound(x)
    BY <1>1
  <2>2. y = IF x.connection # "live" THEN x ELSE IF type \in Terminal THEN Closed(z) ELSE z
    BY <1>5
  <2> HIDE DEF g
  <2>3. CASE x.connection # "live"
    <3>1. y = x
      BY <2>2, <2>3
    <3>2. y \in Records /\ ClientSound(y) /\ y.connection # "live"
      BY <2>1, <2>3, <3>1
    <3> QED BY <1>3, <3>2, ClientFrame
  <2>4. CASE x.connection = "live"
    <3>1. ASSUME NEW u \in Records, ClientSound(u), u.connection = "live", NEW v, v = Apply(u, e)
          PROVE  v \in Records' /\ TextSound(v)' /\ ClientSound(v)'
      BY <1>1, <1>2, <1>3, <3>1, FlushSound
    <3>2. seq' \in Nat
      BY <1>3 DEF CacheMoves, SaidMoves
    <3>3. ASSUME NEW v, v = z PROVE v \in Records' /\ TextSound(v)' /\ ClientSound(v)'
      <4> DEFINE u == client[c]
      <4>1. u \in Records /\ ClientSound(u) /\ u.connection = "live" /\ v = Apply(u, e)
        BY <2>1, <2>4, <3>3
      <4> QED BY <3>1, <4>1
    <3>4. CASE type \in Terminal
      <4>1. ASSUME NEW v, v = z PROVE Closed(v) \in Records' /\ ClientSound(Closed(v))'
        <5>1. v \in Records' /\ TextSound(v)'
          BY <3>3, <4>1
        <5> QED BY <3>2, <5>1, FlushClosedSound
      <4> QED BY <2>2, <2>4, <3>4, <4>1
    <3>5. CASE type \notin Terminal
      BY <2>2, <2>4, <3>3, <3>5
    <3> QED BY <3>4, <3>5
  <2> QED BY <2>3, <2>4
<1> HIDE DEF g
<1> QED BY <1>3, <1>4, <1>5, InvariantBuilt

LEMMA StreamInvariantInit == StreamInit => StreamInvariant
<1> SUFFICES ASSUME StreamInit PROVE StreamInvariant
  OBVIOUS
<1>1. /\ phase = "generating" /\ seq = 0 /\ events = <<>> /\ text = <<>> /\ textSeq = 0 /\ said = <<>>
      /\ client = [c \in Clients |-> NewClient(c)]
  BY DEF StreamInit
<1>2. DOMAIN said = {} /\ DOMAIN events = {} /\ <<>> \in Seq(Seqs) /\ <<>> \in Seq(Event)
  BY <1>1, EmptySeq
<1>3. Kept /\ StreamSound
  BY <1>1, <1>2 DEF StreamSound, SaidInOrder, Numbered, Marked, Kept
<1>4. IsPrefix(<<>>, <<>>)
  <2>1. ASSUME NEW t \in Seq(Seqs) PROVE IsPrefix(t, t)
    BY PrefixIs
  <2> QED BY <1>2, <2>1
<1>5. ASSUME NEW c \in Clients PROVE NewClient(c) \in Records /\ ClientSound(NewClient(c))
  <2> DEFINE k == IF c = Starter THEN "live" ELSE "off"
             x == NewClient(c)
             A == BOOLEAN
  <2>1. k \in Connections /\ k \in {"live", "off"} /\ 0 \in 0..seq /\ 0 \in 0..MaxResumes /\ FALSE \in A
    BY <1>1, StreamAssumption DEF Connections
  <2>2. "none" \in Terminal \cup {"none", "interrupted", "refused"} /\ {} \in SUBSET Seqs
    OBVIOUS
  <2>3. x = [ connection |-> k, resumes |-> 0, after |-> 0, text |-> <<>>, notes |-> {}, outcome |-> "none",
              window |-> <<>>, from |-> 0, cursor |-> 0, covered |-> 0, batch |-> <<>>, overrun |-> FALSE ]
    BY DEF NewClient
  <2> HIDE DEF k, x, A
  <2>4. /\ x \in [ connection : Connections, resumes : 0..MaxResumes, after : 0..seq, text : Seq(Seqs),
                   notes : SUBSET Seqs, outcome : Terminal \cup {"none", "interrupted", "refused"},
                   window : Seq(Event), from : 0..seq, cursor : 0..seq, covered : 0..seq,
                   batch : Seq(Event), overrun : A ]
        /\ x.connection = k /\ x.text = <<>> /\ x.after = 0 /\ x.batch = <<>>
    BY <1>2, <2>1, <2>2, <2>3
  <2>5. x \in Records
    BY <2>4 DEF Records, A
  <2>6. TextSound(x)
    BY <1>1, <1>2, <1>4, <2>4 DEF TextSound, IsSaidUpTo
  <2>7. ClientSound(x)
    BY <1>1, <2>1, <2>4, <2>6 DEF ClientSound
  <2> QED BY <2>5, <2>7 DEF x
<1>6. client \in [Clients -> Records]
  BY <1>1, <1>5
<1>7. ASSUME NEW cl \in Range(client) PROVE ClientSound(cl)
  BY <1>1, <1>5 DEF Range
<1> QED BY <1>3, <1>6, <1>7, CacheInit DEF StreamInvariant

\* A step of a client, or of a goroutine that serves it.
LEMMA ServeStep ==
  ASSUME StreamInvariant, CacheInvariant', NEW c \in Clients,
         Disconnect(c) \/ SubscribeList(c) \/ Serve(c)
  PROVE  StreamInvariant'
<1> DEFINE x == client[c]
<1>1. /\ CacheTypeOK /\ StreamSound /\ x \in Records /\ ClientSound(x) /\ TextSound(x)
      /\ seq \in Nat
  BY InvariantIs DEF CacheTypeOK, ClientSound
<1> SUFFICES \E y : y \in Records /\ ClientSound(y) /\ Update(c, y)
  BY UpdateStep
<1>2. CASE Disconnect(c)
  BY <1>1, <1>2, ClosedSound DEF Disconnect
<1>3. CASE SubscribeList(c)
  <2> DEFINE y == [x EXCEPT !.connection = "listed", !.resumes = x.resumes + 1,
                            !.from = x.after, !.window = events]
  <2>1. x.connection = "off" /\ x.resumes < MaxResumes /\ Update(c, y)
    BY <1>3 DEF SubscribeList
  <2>2. y \in Records /\ ClientSound(y)
    BY <1>1, <2>1, ListSound
  <2> QED BY <2>1, <2>2
<1>4. CASE SubscribeSnapshot(c)
  <2> DEFINE unsafe == textSeq = 0 /\ \E i \in DOMAIN x.window : x.window[i].type = "delta"
             last == IF x.window = <<>> THEN 0 ELSE Last(x.window).seq
             ended == \E i \in DOMAIN x.window : x.window[i].type \in Terminal
             served == Served(x, textSeq, text)
             following == [served EXCEPT !.connection = "checking", !.window = <<>>,
                                         !.cursor = last, !.covered = textSeq]
  <2>1. /\ x.connection = "listed"
        /\ Update(c, IF unsafe THEN Closed([x EXCEPT !.outcome = "refused"])
                     ELSE IF ended THEN Closed(served) ELSE following)
    BY <1>4 DEF SubscribeSnapshot
  <2>2. CASE unsafe
    <3>1. /\ Closed([x EXCEPT !.outcome = "refused"]) \in Records
          /\ ClientSound(Closed([x EXCEPT !.outcome = "refused"]))
      BY <1>1, RefusedSound
    <3> QED BY <2>1, <2>2, <3>1
  <2>3. CASE ~unsafe /\ ended
    <3>1. served \in Records /\ TextSound(served)
      BY <1>1, <2>1, <2>3, ServedSound DEF Reads
    <3>2. Closed(served) \in Records /\ ClientSound(Closed(served))
      BY <1>1, <3>1, ClosedSound
    <3> QED BY <2>1, <2>3, <3>2
  <2>4. CASE ~unsafe /\ ~ended
    <3>1. following \in Records /\ ClientSound(following)
      BY <1>1, <2>1, <2>4, FollowSound
    <3> QED BY <2>1, <2>4, <3>1
  <2> QED BY <2>2, <2>3, <2>4
<1>5. CASE CheckActive(c)
  <2> DEFINE y == [x EXCEPT !.connection = "reading"]
             z == [x EXCEPT !.outcome = "interrupted"]
  <2>1. x.connection = "checking" /\ Update(c, IF leased THEN y ELSE Closed(z))
    BY <1>5 DEF CheckActive
  <2>2. y \in Records /\ ClientSound(y)
    BY <1>1, <2>1, ReadingSound
  <2>3. Closed(z) \in Records /\ ClientSound(Closed(z))
    BY <1>1, RefusedSound
  <2> QED BY <2>1, <2>2, <2>3
<1>6. CASE ActiveTick(c)
  <2> DEFINE z == [x EXCEPT !.outcome = "interrupted"]
  <2>1. Update(c, Closed(z))
    BY <1>6 DEF ActiveTick
  <2>2. Closed(z) \in Records /\ ClientSound(Closed(z))
    BY <1>1, RefusedSound
  <2> QED BY <2>1, <2>2
<1>7. CASE ReadEvents(c)
  <2>1. PICK first \in DOMAIN events :
          LET limit == IF first + ReadLimit <= Len(events) THEN first + ReadLimit - 1 ELSE Len(events)
              over == \E i \in DOMAIN said : x.cursor < said[i] /\ said[i] < events[first].seq
                                             /\ x.covered < said[i]
          IN  /\ x.connection \in {"checking", "reading"} /\ x.batch = <<>>
              /\ events[first].seq > x.cursor
              /\ Update(c, [x EXCEPT !.batch = SubSeq(events, first, limit), !.cursor = events[limit].seq,
                                     !.overrun = x.overrun \/ over])
    BY <1>7 DEF ReadEvents
  <2> DEFINE limit == IF first + ReadLimit <= Len(events) THEN first + ReadLimit - 1 ELSE Len(events)
             over == \E i \in DOMAIN said : x.cursor < said[i] /\ said[i] < events[first].seq
                                            /\ x.covered < said[i]
             y == [x EXCEPT !.batch = SubSeq(events, first, limit), !.cursor = events[limit].seq,
                            !.overrun = x.overrun \/ over]
  <2>2. y \in Records /\ ClientSound(y)
    BY <1>1, <2>1, ReadSound, ZenonT(60)
  <2> QED BY <2>1, <2>2
<1>8. CASE Deliver(c)
  <2> DEFINE e == Head(x.batch)
             skipped == e.seq <= x.from \/ (e.type = "delta" /\ e.seq <= x.covered)
             rest == [x EXCEPT !.batch = Tail(x.batch)]
             told == IF skipped THEN rest ELSE Apply(rest, e)
  <2>1. /\ x.connection = "reading" /\ x.batch # <<>>
        /\ Update(c, IF ~skipped /\ e.type \in Terminal THEN Closed(told) ELSE told)
    BY <1>8 DEF Deliver
  <2>2. told \in Records /\ ClientSound(told) /\ TextSound(told)
    BY <1>1, <2>1, DeliverSound
  <2>3. Closed(told) \in Records /\ ClientSound(Closed(told))
    BY <1>1, <2>2, ClosedSound
  <2> QED BY <2>1, <2>2, <2>3
<1> QED BY <1>2, <1>3, <1>4, <1>5, <1>6, <1>7, <1>8 DEF Serve

LEMMA StreamInvariantStep == StreamInvariant /\ [StreamNext]_streamVars => StreamInvariant'
<1> SUFFICES ASSUME StreamInvariant, [StreamNext]_streamVars PROVE StreamInvariant'
  OBVIOUS
<1>1. CacheInvariant'
  BY CacheStep DEF StreamInvariant
<1>2. /\ CacheTypeOK /\ StreamSound /\ SeqWithin /\ client \in [Clients -> Records] /\ seq \in Nat
      /\ MaxSeq \in Nat
      /\ \A c \in Clients : client[c] \in Records /\ ClientSound(client[c])
  BY InvariantIs, StreamAssumption DEF StreamInvariant, CacheInvariant, CacheTypeOK
\* Clients that a step leaves as they are.
<1>3. ASSUME StreamSound', CacheMoves, said' = said, client' = client PROVE StreamInvariant'
  <2>1. client = [c \in Clients |-> client[c]]
    BY <1>2
  <2> QED BY <1>1, <1>2, <1>3, <2>1, FrameStep
<1>4. ASSUME NEW type \in {"delta", "note"}, Publish(type) PROVE StreamInvariant'
  <2>1. seq + 1 \in Seqs /\ type \in EventTypes
    BY <1>2, <1>4 DEF Publish, Seqs, EventTypes
  <2> QED BY <1>1, <1>4, <2>1, FlushStep DEF Publish
<1>5. CASE Settle \/ Finish \/ RunExpires
  <2>1. UNCHANGED <<seq, events, text, textSeq, said, client>> /\ (phase # "generating" => phase' # "generating")
    BY <1>5 DEF Settle, Finish, RunExpires
  <2> QED BY <1>2, <1>3, <2>1, StillSound
<1>6. CASE Withdraw \/ LateWithdraw
  <2>1. ResetEvents /\ phase' # "generating" /\ client' = client
    BY <1>6 DEF Withdraw, LateWithdraw
  <2> QED BY <1>2, <1>3, <2>1, ResetSound
<1>7. CASE TellBlocked
  <2>1. seq + 1 \in Seqs /\ "moderation_blocked" \in EventTypes
    BY <1>2, <1>7 DEF TellBlocked, SeqWithin, Seqs, EventTypes, Terminal
  <2> QED BY <1>1, <1>7, <2>1, FlushStep DEF TellBlocked
<1>8. ASSUME NEW type \in {"completed", "error"}, Conclude(type) PROVE StreamInvariant'
  <2>1. seq + 1 \in Seqs /\ type \in EventTypes /\ type # "delta"
    BY <1>2, <1>8 DEF Conclude, SeqWithin, Seqs, EventTypes, Terminal
  <2> QED BY <1>1, <1>8, <2>1, FlushStep DEF Conclude
<1>9. CASE HandlerStops
  <2> DEFINE g == [c \in Clients |-> IF client[c].connection = "live" THEN Closed(client[c]) ELSE client[c]]
  <2>1. /\ UNCHANGED <<seq, events, text, textSeq, said>> /\ phase' = "crashed"
        /\ client' = g /\ g = [c \in Clients |-> g[c]]
    BY <1>9 DEF HandlerStops
  <2>2. StreamSound' /\ CacheMoves /\ said' = said
    BY <1>2, <2>1, StillSound
  <2>3. ASSUME NEW c \in Clients PROVE g[c] \in Records /\ ClientSound(g[c])
    <3>1. /\ client[c] \in Records /\ ClientSound(client[c])
          /\ Closed(client[c]) \in Records /\ ClientSound(Closed(client[c]))
      BY <1>2, ClosedSound DEF ClientSound
    <3> QED BY <3>1
  <2> HIDE DEF g
  <2> QED BY <1>1, <2>1, <2>2, <2>3, FrameStep
<1>10. CASE LateTellBlocked
  <2>1. /\ AppendEvent("moderation_blocked") /\ phase' = phase /\ client' = client
        /\ seq + 1 \in Seqs /\ "moderation_blocked" \in EventTypes
    BY <1>2, <1>10 DEF LateTellBlocked, SeqWithin, Seqs, EventTypes, Terminal
  <2>2. StreamSound' /\ CacheMoves
    BY <1>2, <2>1, AppendSound
  <2>3. said' = said
    BY <2>1 DEF AppendEvent
  <2> QED BY <1>3, <2>1, <2>2, <2>3
<1>11. ASSUME NEW c \in Clients, Disconnect(c) \/ SubscribeList(c) \/ Serve(c) PROVE StreamInvariant'
  BY <1>1, <1>11, ServeStep
<1>12. CASE UNCHANGED streamVars
  <2>1. UNCHANGED <<seq, events, text, textSeq, said, client>> /\ phase' = phase
    BY <1>12 DEF streamVars
  <2> QED BY <1>2, <1>3, <2>1, StillSound
<1> QED BY <1>4, <1>5, <1>6, <1>7, <1>8, <1>9, <1>10, <1>11, <1>12 DEF StreamNext, HandlerStep

LEMMA StreamInvariantSafe == StreamInvariant => StreamSafety
<1> SUFFICES ASSUME StreamInvariant PROVE StreamSafety
  OBVIOUS
<1>1. /\ CacheTypeOK /\ StreamSound
      /\ \A c \in Clients : client[c] \in Records /\ ClientSound(client[c])
  BY InvariantIs
<1>2. ~Withdrawn => Kept
  <2> SUFFICES ASSUME Cleared, text = said PROVE Kept
    BY <1>1 DEF Withdrawn, StreamSound
  <2>1. DOMAIN said = {}
    BY EmptySeq DEF Cleared
  <2> QED BY <2>1 DEF Kept
<1>3. ASSUME NEW c \in Clients
      PROVE  /\ client[c].connection \in Connections
             /\ client[c].resumes \in 0..MaxResumes
             /\ client[c].after \in 0..seq /\ client[c].cursor \in 0..seq
             /\ client[c].text \in Seq(Seqs) /\ client[c].notes \subseteq Seqs
             /\ client[c].outcome \in Terminal \cup {"none", "interrupted", "refused"}
  <2> DEFINE x == client[c]
  <2>1. x \in Records
    BY <1>1
  <2> HIDE DEF x
  <2>2. /\ x.connection \in Connections
        /\ x.resumes \in 0..MaxResumes
        /\ x.after \in 0..seq /\ x.cursor \in 0..seq
        /\ x.text \in Seq(Seqs) /\ x.notes \subseteq Seqs
        /\ x.outcome \in Terminal \cup {"none", "interrupted", "refused"}
    BY <2>1, RecordsAre
  <2> QED BY <2>2 DEF x
<1>4. ASSUME NEW c \in Clients
      PROVE  /\ (~client[c].overrun /\ ~Withdrawn) => IsSaidUpTo(client[c].text, client[c].after)
             /\ ~client[c].overrun => IsPrefix(client[c].text, said)
  BY <1>1, <1>2 DEF ClientSound, TextSound
<1> QED BY <1>1, <1>3, <1>4 DEF StreamSafety, StreamTypeOK, TextIsExact

\* Every client holds the text that was published up to the last event it saw, neither a delta
\* less nor one twice, however replays, checkpoints and live events overlap with the handler,
\* with withdrawals and with processes that stop: for any number of clients, any window, any
\* size of a read and any number of events and of resumed requests.
THEOREM StreamSafetyCorrect == StreamSpec => []StreamSafety
BY StreamInvariantInit, StreamInvariantStep, StreamInvariantSafe, PTL DEF StreamSpec
=============================================================================
