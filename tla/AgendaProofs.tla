---------------------------- MODULE AgendaProofs ----------------------------
(***************************************************************************)
(* The safety of what the companion keeps for its owner: of reminders      *)
(* (ReminderDispatch), and of the to-do list (TodoOperations).             *)
(***************************************************************************)
EXTENDS ReminderDispatch, TodoOperations, FiniteSetTheorems, SequenceTheorems, TLAPS

Schedule == [start : Nat \ {0}, period : Nat, until : Nat]

LEMMA DivIs ==
  ASSUME NEW a \in Nat, NEW p \in Nat \ {0}
  PROVE  a \div p \in Nat /\ a < (a \div p + 1) * p
OBVIOUS

\* The next time is later, if there is one.
LEMMA NextIs ==
  ASSUME NEW s \in Schedules, NEW after \in Int
  PROVE  NextTime(s, after) \in Nat /\ (NextTime(s, after) = 0 \/ NextTime(s, after) > after)
<1>1. s \in Schedule
  BY ReminderAssumption DEF Schedule
<1> QED BY <1>1, DivIs DEF NextTime, Schedule

-----------------------------------------------------------------------------
(* Occurrences that change *)

\* f is an occurrence of the same time as e.
Same(e, f) ==
  f \in Event /\ f.version = e.version /\ f.scheduled = e.scheduled /\ Key(f) = Key(e)

\* f is e with another state.
Becomes(e, f, status, notice) ==
  Same(e, f) /\ f.due = e.due /\ f.status = status /\ f.notice = notice

LEMMA StatedIs ==
  ASSUME NEW e \in Event, NEW status \in Statuses, NEW notice \in Notices
  PROVE  Becomes(e, [e EXCEPT !.status = status, !.notice = notice], status, notice)
BY DEF Event, Becomes, Same, Key

LEMMA NotedIs ==
  ASSUME NEW e \in Event, NEW notice \in Notices
  PROVE  Becomes(e, [e EXCEPT !.notice = notice], e.status, notice)
BY DEF Event, Becomes, Same, Key

LEMMA RevisedIs ==
  ASSUME NEW e \in Event
  PROVE  Becomes(e, [e EXCEPT !.rev = @ + 1], e.status, e.notice)
BY DEF Event, Becomes, Same, Key

LEMMA ActedIs ==
  ASSUME NEW e \in Event, NEW status \in Statuses, NEW notice \in Notices
  PROVE  Becomes(e, [e EXCEPT !.status = status, !.notice = notice, !.rev = @ + 1], status, notice)
<1> DEFINE f == [e EXCEPT !.status = status, !.notice = notice]
<1>1. Becomes(e, f, status, notice)
  BY StatedIs
<1>3. [e EXCEPT !.status = status, !.notice = notice, !.rev = @ + 1] = [f EXCEPT !.rev = @ + 1]
  BY DEF Event
<1> HIDE DEF f
<1>2. Becomes(f, [f EXCEPT !.rev = @ + 1], f.status, f.notice)
  BY <1>1, RevisedIs DEF Becomes, Same
<1> QED BY <1>1, <1>2, <1>3 DEF Becomes, Same

LEMMA MovedIs ==
  ASSUME NEW e \in Event, NEW t \in Nat
  PROVE  Same(e, [e EXCEPT !.due = t]) /\ [e EXCEPT !.due = t].due = t
BY DEF Event, Same, Key

LEMMA SnoozedIs ==
  ASSUME NEW e \in Event, NEW d \in Nat \ {0}, now \in Nat
  PROVE  LET f == Snoozed(e, d) IN
         /\ Same(e, f) /\ f.due > now /\ f.due > e.due
         /\ f.status = "pending" /\ f.notice = "none"
<1>1. e.due \in Nat
  BY DEF Event
<1> DEFINE m == Max({now, e.due})
<1>2. m \in {now, e.due} /\ m >= now /\ m >= e.due
  <2>1. \E x \in {now, e.due} : \A y \in {now, e.due} : x >= y
    BY <1>1
  <2> QED BY <2>1 DEF Max
<1>3. m \in Nat
  BY <1>1, <1>2
<1> DEFINE g == [e EXCEPT !.due = m + d]
           f == [g EXCEPT !.status = "pending", !.notice = "none", !.rev = @ + 1]
<1>4. Snoozed(e, d) = f
  BY DEF Snoozed, Event
<1> HIDE DEF m
<1>5. Same(e, f) /\ f.due = m + d /\ f.status = "pending" /\ f.notice = "none"
  <2>1. "pending" \in Statuses /\ "none" \in Notices /\ m + d \in Nat
    BY <1>3 DEF Statuses, Notices
  <2>2. Same(e, g) /\ g.due = m + d
    BY <2>1, MovedIs
  <2> HIDE DEF g
  <2>3. Becomes(g, f, "pending", "none")
    BY <2>1, <2>2, ActedIs DEF Same
  <2> HIDE DEF f
  <2> QED BY <2>2, <2>3 DEF Becomes, Same
<1>6. m + d > now /\ m + d > e.due
  BY <1>1, <1>2, <1>3
<1> QED BY <1>4, <1>5, <1>6

LEMMA OccurrenceIs ==
  ASSUME NEW t \in Nat, plan \in Plan
  PROVE  LET f == Occurrence(t) IN
         /\ f \in Event /\ Key(f) = <<plan.version, t>> /\ f.version = plan.version
         /\ f.scheduled = t /\ f.due = t /\ f.status = "pending" /\ f.notice = "none"
<1>1. plan.version \in Nat
  BY ReminderAssumption DEF Plan
<1> QED BY <1>1 DEF Occurrence, Event, Statuses, Notices, Key

\* The occurrences are rewritten one by one by h, and `new` come with keys of their own.
Rewritten(es, h, new) ==
  /\ \A f \in es : f \in new \/ \E e \in events : f = h[e]
  /\ \A e \in events : h[e] \in es /\ Key(h[e]) = Key(e)
  /\ \A f \in new : \A e \in events : Key(e) # Key(f)
  /\ \A f, g \in new : Key(f) = Key(g) => f = g

Unique(es) == \A e, f \in es : Key(e) = Key(f) => e = f
KeepsKeys(es) == \A e \in events : \E f \in es : Key(f) = Key(e)

LEMMA RewrittenIs ==
  ASSUME OncePerTime, NEW es, NEW h, NEW new, Rewritten(es, h, new)
  PROVE  Unique(es) /\ KeepsKeys(es)
<1>1. KeepsKeys(es)
  BY DEF Rewritten, KeepsKeys
<1>2. ASSUME NEW f \in es, NEW g \in es, Key(f) = Key(g)
      PROVE  f = g
  <2>1. CASE f \in new /\ g \in new
    BY <1>2, <2>1 DEF Rewritten
  <2>2. CASE f \notin new /\ g \in new
    BY <1>2, <2>2 DEF Rewritten
  <2>3. CASE f \in new /\ g \notin new
    BY <1>2, <2>3 DEF Rewritten
  <2>4. CASE f \notin new /\ g \notin new
    <3>1. PICK a \in events : f = h[a]
      BY <2>4 DEF Rewritten
    <3>2. PICK b \in events : g = h[b]
      BY <2>4 DEF Rewritten
    <3>3. Key(a) = Key(b)
      BY <1>2, <3>1, <3>2 DEF Rewritten
    <3> QED BY <3>1, <3>2, <3>3 DEF OncePerTime
  <2> QED BY <2>1, <2>2, <2>3, <2>4
<1> QED BY <1>1, <1>2 DEF Unique

-----------------------------------------------------------------------------
(* The parts of the invariant *)

EventSound(p, e) ==
  /\ e.status = "pending" => e.notice = "none"
  /\ e.notice \in {"queued", "dispatching"} => e.status = "due"
  /\ e.version <= p.version
  /\ e.version = p.version /\ p.cursor # 0 => e.scheduled < p.cursor
  /\ e.status = "suspended" => p.status = "paused" /\ e.version = p.version
  /\ e.status \in {"pending", "due"} =>
       p.status = "active" /\ e.version = p.version /\ e.due > p.since
  /\ e.status = "due" => e.due <= now

PlanSound(p, es) ==
  /\ p.status # "none" /\ p.since <= now
  /\ p.status = "active" /\ p.cursor # 0 => p.cursor > p.since
  /\ p.status = "ended" => p.cursor = 0 /\ Unfinished(es) = {}

\* What may be sent comes later than anything sent, or might have been sent before.
Waits(e) == e.status = "pending" \/ e.notice = "queued"
SentAfter(e, f) == Waits(f) => f.due > now \/ (f.due = e.due /\ Waits(e))

\* endReminderIfFinished ends a reminder, or leaves it alone.
LEMMA EndedIs ==
  ASSUME NEW p \in Plan, NEW es
  PROVE  LET q == EndIfFinished(p, es) IN
         /\ q \in Plan /\ q.version = p.version /\ q.cursor = p.cursor /\ q.since = p.since
         /\ q.schedule = p.schedule
         /\ \/ q.status = p.status /\ (p.status = "active" => p.cursor # 0 \/ Open(es) # {})
            \/ p.status = "active" /\ q.status = "ended" /\ p.cursor = 0 /\ Open(es) = {}
BY DEF EndIfFinished, Plan

\* What is open stays sound when its reminder ends: there is nothing open then.
LEMMA EndedSound ==
  ASSUME NEW p \in Plan, NEW es, \A e \in es : EventSound(p, e), PlanSound(p, es)
  PROVE  LET q == EndIfFinished(p, es) IN
         /\ PlanSound(q, es) /\ \A e \in es : EventSound(q, e)
         /\ q.status = "active" => q.cursor # 0 \/ Open(es) # {}
<1> DEFINE q == EndIfFinished(p, es)
<1>1. /\ q.version = p.version /\ q.cursor = p.cursor /\ q.since = p.since
      /\ \/ q.status = p.status /\ (p.status = "active" => p.cursor # 0 \/ Open(es) # {})
         \/ p.status = "active" /\ q.status = "ended" /\ p.cursor = 0 /\ Open(es) = {}
  BY EndedIs
<1> HIDE DEF q
<1>2. PlanSound(q, es) /\ \A e \in es : EventSound(q, e)
  <2>1. CASE q.status = p.status
    BY <1>1, <2>1 DEF PlanSound, EventSound
  <2>2. CASE p.status = "active" /\ q.status = "ended" /\ p.cursor = 0 /\ Open(es) = {}
    <3>1. \A e \in es : e.status \notin {"pending", "due", "suspended"}
      BY <2>2 DEF Open, EventSound
    <3>2. Unfinished(es) = {}
      BY <3>1 DEF Unfinished
    <3> QED BY <1>1, <2>2, <3>1, <3>2 DEF PlanSound, EventSound
  <2> QED BY <1>1, <2>1, <2>2
<1>3. q.status = "active" => q.cursor # 0 \/ Open(es) # {}
  BY <1>1
<1> QED BY <1>2, <1>3 DEF q

\* The invariant, from its parts.
LEMMA InvariantParts ==
  ASSUME ReminderInvariant
  PROVE  /\ plan \in Plan /\ events \in SUBSET Event /\ now \in Nat
         /\ \A e \in events : EventSound(plan, e)
         /\ plan.status # "none" => PlanSound(plan, events)
BY ReminderAssumption DEF ReminderInvariant, TypeOK, CalendarSound, ActiveIsAlive, EventSound, PlanSound

\* Nothing is sent, and nothing of what was sent loses its occurrence.
LEMMA SendingKept ==
  ASSUME ReminderInvariant, now' \in Nat, now <= now', UNCHANGED sent,
         KeepsKeys(events'),
         Holders' \subseteq Holders, \A w \in Holders' : worker'[w] = worker[w],
         \A f \in events' : Waits(f) => ~Used(<<Key(f), f.due>>)
  PROVE  SendingSound'
<1> USE DEF ReminderInvariant, TypeOK
<1>1. ASSUME NEW i \in DOMAIN sent
      PROVE  sent[i][2] <= now' /\ \E f \in events' : Key(f) = sent[i][1]
  <2>1. sent[i] \in Keys \X Nat
    OBVIOUS
  <2>2. sent[i][2] \in Nat /\ now \in Nat
    BY <2>1, ReminderAssumption
  <2>3. sent[i][2] <= now /\ \E e \in events : Key(e) = sent[i][1]
    BY DEF SendingSound
  <2> QED BY <2>2, <2>3 DEF KeepsKeys
<1>2. ASSUME NEW w \in Holders'
      PROVE  /\ worker'[w].due <= now' /\ \E f \in events' : Key(f) = worker'[w].key
             /\ \A i \in DOMAIN sent : sent[i] # Held(w)
             /\ \A v \in Holders' : Held(v) = Held(w) => v = w
  <2>1. w \in Holders /\ w \in Workers
    BY DEF Holders
  <2>2. worker[w] \in Sending
    BY <2>1 DEF Holders, Idle, Finishing
  <2>3. worker[w].due \in Nat /\ now \in Nat
    BY <2>2, ReminderAssumption DEF Sending
  <2>4. worker[w].due <= now /\ \E e \in events : Key(e) = worker[w].key
    BY <2>1 DEF SendingSound
  <2>5. worker'[w].due <= now' /\ \E f \in events' : Key(f) = worker'[w].key
    BY <2>3, <2>4 DEF KeepsKeys
  <2> QED BY <2>1, <2>5 DEF SendingSound
<1>3. \A w \in Holders' : Held(w)' = Held(w)
  BY DEF Held
<1>4. \A f \in events' : Waits(f) => ~Used(<<Key(f), f.due>>)'
  BY <1>3 DEF Used
<1> QED BY <1>1, <1>2, <1>3, <1>4 DEF SendingSound, Waits

-----------------------------------------------------------------------------
(* A step of the user or of the scheduler: the plan becomes p and its      *)
(* occurrences es, but it ends if it is finished.                          *)

LEMMA PlanStep ==
  ASSUME ReminderInvariant, NEW p \in Plan, NEW es \in SUBSET Event, NEW h, NEW new,
         Rewritten(es, h, new), \A e \in events : SentAfter(e, h[e]),
         PlanSound(p, es), \A f \in es : EventSound(p, f),
         plan' = EndIfFinished(p, es), events' = es,
         p.version <= commands', commands' \in 0..MaxCommands,
         UNCHANGED <<now, account, worker, old, sent, crashes>>
  PROVE  ReminderInvariant'
<1> DEFINE q == EndIfFinished(p, es)
<1>1. /\ q \in Plan /\ q.version = p.version
      /\ PlanSound(q, es) /\ \A f \in es : EventSound(q, f)
      /\ q.status = "active" => q.cursor # 0 \/ Open(es) # {}
  BY EndedIs, EndedSound
<1>2. plan' = q
  OBVIOUS
<1> HIDE DEF q
<1>3. TypeOK'
  <2>1. TypeOK
    BY DEF ReminderInvariant
  <2> QED BY <1>1, <1>2, <2>1 DEF TypeOK, EventSound
<1>4. Unique(es) /\ KeepsKeys(es)
  BY RewrittenIs DEF ReminderInvariant
<1>5. OncePerTime'
  BY <1>4 DEF Unique, OncePerTime
<1>6. SentOnce'
  BY DEF ReminderInvariant, SentOnce
<1>7. ActiveIsAlive'
  BY <1>1, <1>2 DEF ActiveIsAlive, PlanSound
<1>8. CalendarSound'
  BY <1>1, <1>2 DEF CalendarSound, PlanSound, EventSound
<1>9. SendingSound'
  <2>1. now \in Nat /\ now' = now
    BY InvariantParts
  <2>2. ASSUME NEW f \in es, Waits(f)
        PROVE  ~Used(<<Key(f), f.due>>)
    <3>1. CASE f \in new
      <4>1. \A e \in events : Key(e) # Key(f)
        BY <3>1 DEF Rewritten
      <4> QED BY <4>1 DEF ReminderInvariant, SendingSound, Used, Held
    <3>2. CASE f \notin new
      <4>1. PICK e \in events : f = h[e]
        BY <3>2 DEF Rewritten
      <4>2. Key(f) = Key(e) /\ SentAfter(e, f)
        BY <4>1 DEF Rewritten
      <4>3. CASE f.due > now
        <5>1. \A i \in DOMAIN sent : sent[i][2] <= now
          BY DEF ReminderInvariant, SendingSound
        <5>2. \A w \in Holders : worker[w].due <= now
          BY DEF ReminderInvariant, SendingSound
        <5>3. f.due \in Nat
          BY DEF Event
        <5>4. f.due # now /\ ~(f.due <= now)
          BY <2>1, <4>3, <5>3
        <5> QED BY <5>1, <5>2, <5>4 DEF Used, Held
      <4>4. CASE f.due = e.due /\ Waits(e)
        BY <4>2, <4>4 DEF ReminderInvariant, SendingSound, Waits
      <4> QED BY <2>2, <4>2, <4>3, <4>4 DEF SentAfter
    <3> QED BY <3>1, <3>2
  <2>3. Holders' = Holders
    BY DEF Holders
  <2> QED BY <1>4, <2>1, <2>2, <2>3, SendingKept
<1> QED BY <1>3, <1>5, <1>6, <1>7, <1>8, <1>9 DEF ReminderInvariant

\* Some of the occurrences change, each for itself; the others do not.
LEMMA ChangedIs ==
  ASSUME NEW S \in SUBSET events, NEW g, \A e \in S : Key(g[e]) = Key(e)
  PROVE  Rewritten((events \ S) \union {g[e] : e \in S},
                   [e \in events |-> IF e \in S THEN g[e] ELSE e], {})
BY DEF Rewritten

LEMMA CommandStep ==
  ASSUME ReminderInvariant, NEW p \in Plan, NEW es \in SUBSET Event, NEW h, NEW new,
         Rewritten(es, h, new), \A e \in events : SentAfter(e, h[e]),
         PlanSound(p, es), \A f \in es : EventSound(p, f),
         Commanded(p, es), p.version <= commands + 1
  PROVE  ReminderInvariant'
<1>1. commands' \in 0..MaxCommands /\ commands' = commands + 1
  BY ReminderAssumption DEF Commanded, ReminderInvariant, TypeOK
<1> QED BY <1>1, PlanStep DEF Commanded

LEMMA ChangeStep ==
  ASSUME ReminderInvariant, NEW p \in Plan, NEW S \in SUBSET events, NEW g,
         \A e \in S : Same(e, g[e]) /\ SentAfter(e, g[e]) /\ EventSound(p, g[e]),
         \A e \in events \ S : EventSound(p, e),
         PlanSound(p, (events \ S) \union {g[e] : e \in S}),
         Commanded(p, (events \ S) \union {g[e] : e \in S}), p.version <= commands + 1
  PROVE  ReminderInvariant'
<1> DEFINE es == (events \ S) \union {g[e] : e \in S}
           h == [e \in events |-> IF e \in S THEN g[e] ELSE e]
<1>1. Rewritten(es, h, {})
  BY ChangedIs DEF Same
<1>2. \A e \in events : SentAfter(e, h[e])
  BY DEF SentAfter
<1>3. es \in SUBSET Event /\ \A f \in es : EventSound(p, f)
  BY InvariantParts DEF Same
<1> HIDE DEF h
<1> QED BY <1>1, <1>2, <1>3, CommandStep

\* A command that leaves the calendar alone.
LEMMA StoppedSound ==
  ASSUME NEW e \in events, ReminderInvariant, NEW status \in {"canceled", "suspended"},
         NEW p, p.version = plan.version, p.cursor = plan.cursor,
         status = "suspended" => p.status = "paused"
  PROVE  LET f == [e EXCEPT !.status = status, !.notice = "canceled", !.rev = @ + 1] IN
         /\ e \in Unfinished(events) => Same(e, f) /\ SentAfter(e, f) /\ EventSound(p, f)
         /\ e \notin Unfinished(events) => EventSound(p, e)
<1> DEFINE f == [e EXCEPT !.status = status, !.notice = "canceled", !.rev = @ + 1]
<1>1. e \in Event /\ EventSound(plan, e)
  BY InvariantParts
<1>2. status \in Statuses /\ "canceled" \in Notices
  BY DEF Statuses, Notices
<1>3. Becomes(e, f, status, "canceled")
  BY <1>1, <1>2, ActedIs
<1> HIDE DEF f
<1>4. e \in Unfinished(events) => Same(e, f) /\ SentAfter(e, f) /\ EventSound(p, f)
  BY <1>1, <1>3 DEF Unfinished, Becomes, Same, SentAfter, Waits, EventSound
<1>5. e \notin Unfinished(events) => EventSound(p, e)
  BY <1>1 DEF Unfinished, EventSound
<1> QED BY <1>4, <1>5 DEF f

LEMMA StopStep ==
  ASSUME ReminderInvariant, Exists, NEW status \in {"canceled", "suspended"}, NEW to,
         to = IF status = "canceled" THEN "deleted" ELSE "paused",
         Commanded([plan EXCEPT !.status = to], Stopped(status))
  PROVE  ReminderInvariant'
<1> DEFINE p == [plan EXCEPT !.status = to]
           S == Unfinished(events)
           g == [e \in events |-> [e EXCEPT !.status = status, !.notice = "canceled", !.rev = @ + 1]]
<1>1. /\ plan \in Plan /\ PlanSound(plan, events) /\ plan.version <= commands
      /\ plan.version \in Nat /\ commands \in Nat
  BY InvariantParts, ReminderAssumption
     DEF Exists, ReminderInvariant, CalendarSound, TypeOK, Plan
<1>2. /\ p \in Plan /\ p.version = plan.version /\ p.cursor = plan.cursor /\ p.status = to
      /\ p.since = plan.since
  BY <1>1 DEF Plan
<1>3. S \in SUBSET events /\ Stopped(status) = (events \ S) \union {g[e] : e \in S}
  BY DEF Stopped, Unfinished
<1>4. \A e \in S : Same(e, g[e]) /\ SentAfter(e, g[e]) /\ EventSound(p, g[e])
  BY <1>2, <1>3, StoppedSound
<1>5. \A e \in events \ S : EventSound(p, e)
  BY <1>2, StoppedSound
<1> HIDE DEF g
<1>6. PlanSound(p, (events \ S) \union {g[e] : e \in S})
  BY <1>1, <1>2 DEF PlanSound
<1> HIDE DEF p, S
<1>7. Commanded(p, (events \ S) \union {g[e] : e \in S}) /\ p.version <= commands + 1
  BY <1>1, <1>2, <1>3 DEF p
<1> QED BY <1>2, <1>3, <1>4, <1>5, <1>6, <1>7, ChangeStep

LEMMA DeleteStep == ASSUME ReminderInvariant, Delete PROVE ReminderInvariant'
BY StopStep DEF Delete

LEMMA PauseStep == ASSUME ReminderInvariant, Pause PROVE ReminderInvariant'
BY StopStep DEF Pause

LEMMA RenameStep ==
  ASSUME ReminderInvariant, Rename
  PROVE  ReminderInvariant'
<1> DEFINE S == Unfinished(events)
           g == [e \in events |-> [e EXCEPT !.rev = @ + 1]]
<1>1. /\ plan \in Plan /\ PlanSound(plan, events) /\ plan.version <= commands
      /\ plan.version \in Nat /\ commands \in Nat
  BY InvariantParts, ReminderAssumption
     DEF Rename, Exists, ReminderInvariant, CalendarSound, TypeOK, Plan
<1>2. S \in SUBSET events
  BY DEF Unfinished
<1>3. ASSUME NEW e \in S
      PROVE  Same(e, g[e]) /\ SentAfter(e, g[e]) /\ EventSound(plan, g[e])
  <2>1. e \in Event /\ e \in events /\ EventSound(plan, e)
    BY <1>2, InvariantParts
  <2>2. Becomes(e, g[e], e.status, e.notice)
    BY <2>1, RevisedIs
  <2> HIDE DEF g
  <2> QED BY <2>1, <2>2 DEF Becomes, Same, SentAfter, Waits, EventSound
<1>4. \A e \in events \ S : EventSound(plan, e)
  BY InvariantParts
<1>5. Commanded(plan, (events \ S) \union {g[e] : e \in S})
  <2>1. {g[e] : e \in S} = {[e EXCEPT !.rev = @ + 1] : e \in S}
    BY <1>2
  <2> QED BY <2>1 DEF Rename
<1> HIDE DEF g
<1>6. PlanSound(plan, (events \ S) \union {g[e] : e \in S})
  <2>1. CASE S = {}
    <3>1. (events \ S) \union {g[e] : e \in S} = events
      BY <2>1
    <3> QED BY <1>1, <3>1
  <2>2. CASE S # {}
    BY <1>1, <2>2 DEF PlanSound
  <2> QED BY <2>1, <2>2
<1> HIDE DEF S
<1>7. plan.version <= commands + 1
  BY <1>1
<1> QED BY <1>1, <1>2, <1>3, <1>4, <1>5, <1>6, <1>7, ChangeStep

LEMMA RecalendaredIs ==
  ASSUME ReminderInvariant, NEW s \in Schedules, commands < MaxCommands
  PROVE  LET p == Recalendared(s) IN
         /\ p \in Plan /\ p.version = plan.version + 1 /\ p.cursor = NextTime(s, now)
         /\ p.status = "active" /\ p.since = now
<1>1. plan \in Plan /\ plan.version <= commands /\ now \in Nat
  BY InvariantParts DEF ReminderInvariant, CalendarSound
<1>2. plan.version + 1 \in 0..MaxCommands /\ NextTime(s, now) \in Nat
  <2>1. plan.version \in Nat /\ commands \in Nat /\ MaxCommands \in Nat
    BY <1>1, ReminderAssumption DEF ReminderInvariant, TypeOK, Plan
  <2>2. NextTime(s, now) \in Nat
    BY <1>1, NextIs
  <2> QED BY <1>1, <2>1, <2>2
<1>3. [plan EXCEPT !.schedule = s, !.version = @ + 1, !.cursor = NextTime(s, now)]
        \in [status : {"none", "active", "paused", "ended", "deleted"}, schedule : Schedules,
             version : 0..MaxCommands, cursor : Nat, since : Nat]
  BY <1>1, <1>2 DEF Plan
<1> QED BY <1>1, <1>2, <1>3 DEF Recalendared, Plan

LEMMA RescheduleStep ==
  ASSUME ReminderInvariant, NEW s \in Schedules, Reschedule(s)
  PROVE  ReminderInvariant'
<1> DEFINE p == Recalendared(s)
           S == Unfinished(events)
           g == [e \in events |-> [e EXCEPT !.status = "canceled", !.notice = "canceled",
                                            !.rev = @ + 1]]
<1>1. /\ plan \in Plan /\ plan.version <= commands /\ plan.version \in Nat
      /\ commands \in Nat /\ commands < MaxCommands /\ now \in Nat
  BY InvariantParts, ReminderAssumption
     DEF Reschedule, Commanded, ReminderInvariant, CalendarSound, TypeOK, Plan
<1>2. /\ p \in Plan /\ p.version = plan.version + 1 /\ p.cursor = NextTime(s, now)
      /\ p.status = "active" /\ p.since = now
  BY <1>1, RecalendaredIs
<1>3. p.cursor > now
  BY <1>2 DEF Reschedule
<1> HIDE DEF p
<1>4. S \in SUBSET events /\ Stopped("canceled") = (events \ S) \union {g[e] : e \in S}
  BY DEF Stopped, Unfinished
<1>5. ASSUME NEW e \in S
      PROVE  Same(e, g[e]) /\ SentAfter(e, g[e]) /\ EventSound(p, g[e])
  <2>1. e \in Event /\ e \in events /\ EventSound(plan, e)
    BY <1>4, InvariantParts
  <2>2. "canceled" \in Statuses /\ "canceled" \in Notices
    BY DEF Statuses, Notices
  <2>3. Becomes(e, g[e], "canceled", "canceled")
    BY <2>1, <2>2, ActedIs
  <2>4. e.version \in Nat /\ e.version <= plan.version
    BY <2>1 DEF Event, EventSound
  <2> HIDE DEF g
  <2> QED BY <1>1, <1>2, <2>1, <2>3, <2>4 DEF Becomes, Same, SentAfter, Waits, EventSound
<1>6. ASSUME NEW e \in events \ S
      PROVE  EventSound(p, e)
  <2>1. e \in Event /\ EventSound(plan, e) /\ e.status \notin {"pending", "due", "suspended"}
    BY InvariantParts DEF Unfinished
  <2>2. e.version \in Nat /\ e.version <= plan.version
    BY <2>1 DEF Event, EventSound
  <2> QED BY <1>1, <1>2, <2>1, <2>2 DEF EventSound
<1> HIDE DEF g, S
<1>7. PlanSound(p, (events \ S) \union {g[e] : e \in S})
  BY <1>1, <1>2, <1>3 DEF PlanSound
<1>8. Commanded(p, (events \ S) \union {g[e] : e \in S})
  BY <1>4 DEF Reschedule, p
<1>9. p.version <= commands + 1
  BY <1>1, <1>2
<1> QED BY <1>2, <1>4, <1>5, <1>6, <1>7, <1>8, <1>9, ChangeStep

LEMMA ResumedIs ==
  ASSUME NEW e \in Event, now \in Nat
  PROVE  LET f == Resumed(e) IN
         \/ e.due > now /\ Becomes(e, f, "pending", "none")
         \/ ~(e.due > now) /\ Becomes(e, f, "missed", "expired")
<1>1. /\ "pending" \in Statuses /\ "missed" \in Statuses
      /\ "none" \in Notices /\ "expired" \in Notices
  BY DEF Statuses, Notices
<1>2. CASE e.due > now
  <2>1. Becomes(e, [e EXCEPT !.status = "pending", !.notice = "none", !.rev = @ + 1],
                "pending", "none")
    BY <1>1, ActedIs
  <2> QED BY <1>2, <2>1 DEF Resumed
<1>3. CASE ~(e.due > now)
  <2>1. Becomes(e, [e EXCEPT !.status = "missed", !.notice = "expired", !.rev = @ + 1],
                "missed", "expired")
    BY <1>1, ActedIs
  <2> QED BY <1>3, <2>1 DEF Resumed
<1> QED BY <1>2, <1>3

LEMMA ResumeStep ==
  ASSUME ReminderInvariant, Resume
  PROVE  ReminderInvariant'
<1> DEFINE cursor == IF plan.cursor # 0 /\ plan.cursor <= now
                     THEN NextTime(plan.schedule, now) ELSE plan.cursor
           q == [plan EXCEPT !.status = "active", !.cursor = cursor]
           p == [plan EXCEPT !.status = "active", !.cursor = cursor, !.since = now]
           S == {e \in events : e.status = "suspended"}
           g == [e \in events |-> Resumed(e)]
<1>1. /\ plan \in Plan /\ plan.version <= commands /\ plan.version \in Nat
      /\ plan.cursor \in Nat /\ plan.schedule \in Schedules
      /\ commands \in Nat /\ now \in Nat /\ plan.status = "paused"
  BY InvariantParts, ReminderAssumption
     DEF Resume, ReminderInvariant, CalendarSound, TypeOK, Plan
<1>2. cursor \in Nat /\ (cursor = 0 \/ (cursor > now /\ cursor >= plan.cursor /\ plan.cursor # 0))
  <2>1. NextTime(plan.schedule, now) \in Nat
        /\ (NextTime(plan.schedule, now) = 0 \/ NextTime(plan.schedule, now) > now)
    BY <1>1, NextIs
  <2> QED BY <1>1, <2>1
<1>3. Commanded(p, (events \ S) \union {g[e] : e \in S})
  <2>1. {g[e] : e \in S} = {Resumed(e) : e \in S}
    OBVIOUS
  <2> HIDE DEF g
  <2> QED BY <2>1 DEF Resume
<1> HIDE DEF cursor
<1>4. p \in Plan /\ p.version = plan.version /\ p.cursor = cursor /\ p.status = "active" /\ p.since = now
  <2>1. q \in Plan /\ q.version = plan.version /\ q.cursor = cursor /\ q.status = "active"
    BY <1>1, <1>2 DEF Plan
  <2>2. p = [q EXCEPT !.since = now]
    BY <1>1 DEF Plan
  <2> HIDE DEF p, q
  <2> QED BY <1>1, <2>1, <2>2 DEF Plan
<1> HIDE DEF p
<1>5. ASSUME NEW e \in S
      PROVE  Same(e, g[e]) /\ SentAfter(e, g[e]) /\ EventSound(p, g[e])
  <2>1. e \in Event /\ e \in events /\ EventSound(plan, e) /\ e.status = "suspended"
    BY InvariantParts
  <2>2. \/ e.due > now /\ Becomes(e, g[e], "pending", "none")
        \/ Becomes(e, g[e], "missed", "expired")
    BY <1>1, <2>1, ResumedIs
  <2>3. e.scheduled \in Nat
    BY <2>1 DEF Event
  <2> HIDE DEF g
  <2> QED BY <1>1, <1>2, <1>4, <2>1, <2>2, <2>3 DEF Becomes, Same, SentAfter, Waits, EventSound
<1>6. ASSUME NEW e \in events \ S
      PROVE  EventSound(p, e)
  <2>1. e \in Event /\ EventSound(plan, e) /\ e.status # "suspended"
    BY InvariantParts
  <2>2. e.scheduled \in Nat
    BY <2>1 DEF Event
  <2> QED BY <1>1, <1>2, <1>4, <2>1, <2>2 DEF EventSound
<1> HIDE DEF g, S
<1>7. PlanSound(p, (events \ S) \union {g[e] : e \in S})
  BY <1>1, <1>2, <1>4 DEF PlanSound
<1>8. p.version <= commands + 1
  BY <1>1, <1>4
<1>9. S \in SUBSET events
  BY DEF S
<1> QED BY <1>3, <1>4, <1>5, <1>6, <1>7, <1>8, <1>9, ChangeStep

\* The next time of the calendar gets its occurrence, and it is acted on at once.
NextUp == [plan EXCEPT !.cursor = NextTime(plan.schedule, plan.cursor)]

\* What a command makes of an open occurrence is closed, or comes later.
Settled(e, f) ==
  /\ Same(e, f) /\ SentAfter(e, f) /\ f.notice \in {"none", "canceled"}
  /\ \/ f.status = "completed"
     \/ f.status = "pending" /\ f.due > e.due /\ f.notice = "none"

LEMMA OpenStep ==
  ASSUME ReminderInvariant, plan.status = "active", NEW e \in Open(events), NEW f,
         Settled(e, f), Commanded(plan, (events \ {e}) \union {f})
  PROVE  ReminderInvariant'
<1> DEFINE g == [x \in {e} |-> f]
<1>1. /\ plan \in Plan /\ PlanSound(plan, events) /\ plan.version <= commands
      /\ plan.version \in Nat /\ commands \in Nat
  BY InvariantParts, ReminderAssumption
     DEF ReminderInvariant, CalendarSound, TypeOK, Plan
<1>2. /\ e \in events /\ e \in Event /\ EventSound(plan, e) /\ e.status \in {"pending", "due"}
      /\ plan.since \in Nat
  BY <1>1, InvariantParts DEF Open, Plan
<1>3. EventSound(plan, f)
  <2>1. e.due \in Nat /\ (f.due \in Nat)
    BY <1>2 DEF Event, Settled, Same
  <2>2. e.version = plan.version /\ e.due > plan.since
    BY <1>2 DEF EventSound
  <2> QED BY <1>1, <1>2, <2>1, <2>2 DEF Settled, Same, EventSound
<1>4. \A x \in {e} : Same(x, g[x]) /\ SentAfter(x, g[x]) /\ EventSound(plan, g[x])
  BY <1>3 DEF Settled
<1>5. {g[x] : x \in {e}} = {f}
  OBVIOUS
<1> HIDE DEF g
<1>6. Commanded(plan, (events \ {e}) \union {g[x] : x \in {e}})
  BY <1>5
<1>7. PlanSound(plan, (events \ {e}) \union {g[x] : x \in {e}})
  BY <1>1 DEF PlanSound
<1>8. {e} \in SUBSET events /\ \A x \in events \ {e} : EventSound(plan, x)
  BY <1>2, InvariantParts
<1>9. plan.version <= commands + 1
  BY <1>1
<1> QED BY <1>1, <1>4, <1>6, <1>7, <1>8, <1>9, ChangeStep

LEMMA NextStep ==
  ASSUME ReminderInvariant, plan.status = "active", plan.cursor # 0, NEW f,
         Settled(Occurrence(plan.cursor), f), Commanded(NextUp, events \union {f})
  PROVE  ReminderInvariant'
<1> DEFINE o == Occurrence(plan.cursor)
           p == NextUp
           h == [e \in events |-> e]
<1>1. /\ plan \in Plan /\ PlanSound(plan, events) /\ plan.version <= commands
      /\ plan.version \in Nat /\ commands \in Nat /\ plan.cursor \in Nat /\ plan.since \in Nat
      /\ plan.schedule \in Schedules
  BY InvariantParts, ReminderAssumption
     DEF ReminderInvariant, CalendarSound, TypeOK, Plan
<1>2. /\ o \in Event /\ Key(o) = <<plan.version, plan.cursor>> /\ o.version = plan.version
      /\ o.scheduled = plan.cursor /\ o.due = plan.cursor /\ o.status = "pending"
      /\ o.notice = "none"
  BY <1>1, OccurrenceIs
<1> HIDE DEF o
<1>3. /\ p \in Plan /\ p.version = plan.version /\ p.status = "active" /\ p.since = plan.since
      /\ p.cursor \in Nat /\ (p.cursor = 0 \/ p.cursor > plan.cursor)
  <2>1. /\ NextTime(plan.schedule, plan.cursor) \in Nat
        /\ NextTime(plan.schedule, plan.cursor) = 0
           \/ NextTime(plan.schedule, plan.cursor) > plan.cursor
    BY <1>1, NextIs
  <2> QED BY <1>1, <2>1 DEF NextUp, Plan
<1> HIDE DEF p
<1>4. Settled(o, f)
  BY DEF o
<1>5. plan.cursor > plan.since
  BY <1>1 DEF PlanSound
<1>6. EventSound(p, f) /\ f \in Event /\ Key(f) = Key(o) /\ f.due \in Nat
  <2>1. f.due \in Nat /\ f \in Event
    BY <1>4 DEF Event, Settled, Same
  <2> QED BY <1>1, <1>2, <1>3, <1>4, <1>5, <2>1 DEF Settled, Same, EventSound
<1>7. ASSUME NEW e \in events
      PROVE  EventSound(p, e) /\ Key(e) # Key(f)
  <2>1. e \in Event /\ EventSound(plan, e)
    BY InvariantParts
  <2>2. e.scheduled \in Nat /\ e.version \in Nat
    BY <2>1 DEF Event
  <2>3. e.version = plan.version => e.scheduled < plan.cursor
    BY <2>1 DEF EventSound
  <2>4. Key(e) # Key(o)
    BY <1>1, <1>2, <2>2, <2>3 DEF Key
  <2> QED BY <1>1, <1>3, <1>6, <2>1, <2>2, <2>3, <2>4 DEF EventSound
<1>8. Rewritten(events \union {f}, h, {f})
  BY <1>7 DEF Rewritten
<1>9. \A e \in events : SentAfter(e, h[e])
  BY DEF SentAfter
<1> HIDE DEF h
<1>10. events \union {f} \in SUBSET Event /\ \A e \in events \union {f} : EventSound(p, e)
  BY <1>6, <1>7, InvariantParts
<1>11. PlanSound(p, events \union {f})
  BY <1>1, <1>3, <1>5 DEF PlanSound
<1>12. Commanded(p, events \union {f}) /\ p.version <= commands + 1
  BY <1>1, <1>3 DEF p
<1> QED BY <1>3, <1>8, <1>9, <1>10, <1>11, <1>12, CommandStep

LEMMA CompletedSettled ==
  ASSUME NEW e \in Event
  PROVE  Settled(e, Completed(e))
<1>1. "completed" \in Statuses /\ "canceled" \in Notices
  BY DEF Statuses, Notices
<1>2. Becomes(e, Completed(e), "completed", "canceled")
  BY <1>1, ActedIs DEF Completed
<1> QED BY <1>2 DEF Becomes, Settled, SentAfter, Waits

LEMMA SnoozedSettled ==
  ASSUME NEW e \in Event, NEW d \in Delays, now \in Nat
  PROVE  Settled(e, Snoozed(e, d))
BY SnoozedIs, ReminderAssumption DEF Settled, SentAfter

LEMMA CompleteStep ==
  ASSUME ReminderInvariant, Complete
  PROVE  ReminderInvariant'
<1>1. plan.status = "active" /\ plan \in Plan /\ plan.cursor \in Nat
  BY InvariantParts DEF Complete, OnOccurrence, Plan
<1>2. CASE \E e \in Open(events) : Commanded(plan, (events \ {e}) \union {Completed(e)})
  <2>1. PICK e \in Open(events) : Commanded(plan, (events \ {e}) \union {Completed(e)})
    BY <1>2
  <2>2. e \in Event
    BY InvariantParts DEF Open
  <2> QED BY <1>1, <2>1, <2>2, CompletedSettled, OpenStep
<1>3. CASE /\ plan.cursor # 0
           /\ Commanded(NextUp, events \union {Completed(Occurrence(plan.cursor))})
  BY <1>1, <1>3, OccurrenceIs, CompletedSettled, NextStep
<1> QED BY <1>2, <1>3 DEF Complete, OnOccurrence, NextUp

LEMMA SnoozeStep ==
  ASSUME ReminderInvariant, NEW d \in Delays, Snooze(d)
  PROVE  ReminderInvariant'
<1>1. plan.status = "active" /\ plan \in Plan /\ plan.cursor \in Nat /\ now \in Nat
  BY InvariantParts DEF Snooze, OnOccurrence, Plan
<1>2. CASE \E e \in Open(events) : Commanded(plan, (events \ {e}) \union {Snoozed(e, d)})
  <2>1. PICK e \in Open(events) : Commanded(plan, (events \ {e}) \union {Snoozed(e, d)})
    BY <1>2
  <2>2. e \in Event
    BY InvariantParts DEF Open
  <2> QED BY <1>1, <2>1, <2>2, SnoozedSettled, OpenStep
<1>3. CASE /\ plan.cursor # 0
           /\ Commanded(NextUp, events \union {Snoozed(Occurrence(plan.cursor), d)})
  BY <1>1, <1>3, OccurrenceIs, SnoozedSettled, NextStep
<1> QED BY <1>2, <1>3 DEF Snooze, OnOccurrence, NextUp

-----------------------------------------------------------------------------
(* The first calendar, and the scheduler *)

LEMMA CreateStep ==
  ASSUME ReminderInvariant, NEW s \in Schedules, Create(s)
  PROVE  ReminderInvariant'
<1> DEFINE p == [status |-> "active", schedule |-> s, version |-> 0,
                 cursor |-> NextTime(s, now), since |-> now]
           h == [e \in events |-> e]
<1>1. now \in Nat /\ NextTime(s, now) \in Nat
  BY InvariantParts, NextIs
<1>2. p \in Plan
  BY <1>1, ReminderAssumption DEF Plan
<1>3. events = {} /\ plan' = p /\ NextTime(s, now) > now
  BY DEF Create, ReminderInvariant, CalendarSound
<1>4. plan' = EndIfFinished(p, {})
  BY <1>1, <1>3 DEF EndIfFinished
<1>5. Rewritten({}, h, {}) /\ \A e \in events : SentAfter(e, h[e])
  BY <1>3 DEF Rewritten
<1>6. PlanSound(p, {})
  BY <1>1, <1>3 DEF PlanSound
<1>7. p.version <= commands' /\ commands' \in 0..MaxCommands
  BY ReminderAssumption DEF Create, ReminderInvariant, TypeOK
<1> HIDE DEF p, h
<1> QED BY <1>2, <1>3, <1>4, <1>5, <1>6, <1>7, PlanStep DEF Create

LEMMA AnnouncedIs ==
  ASSUME NEW e \in Event, NEW p, EventSound(p, e), now \in Nat
  PROVE  LET f == Announced(e) IN
         f \in Event /\ Same(e, f) /\ SentAfter(e, f) /\ EventSound(p, f)
<1>1. /\ "missed" \in Statuses /\ "due" \in Statuses
      /\ "queued" \in Notices /\ "expired" \in Notices
  BY DEF Statuses, Notices
<1> DEFINE f == Announced(e)
<1>2. \/ f = e
      \/ e.status = "pending" /\ Becomes(e, f, "missed", "expired")
      \/ e.status = "pending" /\ ~(e.due > now) /\ Becomes(e, f, "due", "queued")
  <2>1. CASE e.status # "pending" \/ e.due > now
    BY <2>1 DEF Announced
  <2>2. CASE e.status = "pending" /\ ~(e.due > now) /\ e.due < now - Grace
    <3>1. Becomes(e, [e EXCEPT !.status = "missed", !.notice = "expired"], "missed", "expired")
      BY <1>1, StatedIs
    <3> QED BY <2>2, <3>1 DEF Announced
  <2>3. CASE e.status = "pending" /\ ~(e.due > now) /\ ~(e.due < now - Grace)
    <3>1. Becomes(e, [e EXCEPT !.status = "due", !.notice = "queued"], "due", "queued")
      BY <1>1, StatedIs
    <3> QED BY <2>3, <3>1 DEF Announced
  <2> QED BY <2>1, <2>2, <2>3
<1> HIDE DEF f
<1>3. Same(e, f) /\ SentAfter(e, f) /\ EventSound(p, f)
  <2>1. CASE f = e
    BY <2>1 DEF Same, SentAfter
  <2>2. CASE e.status = "pending" /\ Becomes(e, f, "missed", "expired")
    BY <2>2 DEF Becomes, Same, SentAfter, Waits, EventSound
  <2>3. CASE e.status = "pending" /\ ~(e.due > now) /\ Becomes(e, f, "due", "queued")
    <3>1. f.due = e.due /\ f.status = "due" /\ f.notice = "queued" /\ Same(e, f)
      BY <2>3 DEF Becomes
    <3>2. SentAfter(e, f)
      BY <2>3, <3>1 DEF SentAfter, Waits
    <3>3. e.due \in Nat /\ e.due <= now
      BY <2>3 DEF Event
    <3>4. EventSound(p, f)
      BY <2>3, <3>1, <3>3 DEF Same, EventSound
    <3> QED BY <3>1, <3>2, <3>4
  <2> QED BY <1>2, <2>1, <2>2, <2>3
<1> QED BY <1>3 DEF f, Same

LEMMA TickStep ==
  ASSUME ReminderInvariant, Tick
  PROVE  ReminderInvariant'
<1> DEFINE s      == plan.schedule
           stale  == plan.cursor # 0 /\ plan.cursor < now - Grace
           m      == [Occurrence(plan.cursor) EXCEPT !.status = "missed", !.notice = "expired"]
           missed == IF stale THEN {m} ELSE {}
           first  == IF stale THEN NextTime(s, now - Grace) ELSE plan.cursor
           fresh  == IF first = 0 THEN {}
                     ELSE {Occurrence(t) : t \in Times(s, first, now)}
           after  == IF first # 0 /\ first <= now THEN NextTime(s, now) ELSE first
           es     == {Announced(e) : e \in events \union missed \union fresh}
           p      == [plan EXCEPT !.cursor = after]
           new    == {Announced(e) : e \in missed \union fresh}
           h      == [e \in events |-> Announced(e)]
<1>1. /\ plan.status = "active" /\ events' = es /\ plan' = EndIfFinished(p, es)
      /\ UNCHANGED <<now, account, worker, old, sent, commands, crashes>>
  BY DEF Tick
<1>2. /\ plan \in Plan /\ PlanSound(plan, events) /\ plan.version <= commands
      /\ plan.version \in Nat /\ commands \in 0..MaxCommands /\ plan.cursor \in Nat
      /\ plan.since \in Nat /\ s \in Schedules /\ now \in Nat /\ Grace \in Nat
  BY <1>1, InvariantParts, ReminderAssumption, SMTT(30)
     DEF ReminderInvariant, CalendarSound, TypeOK, Plan
<1>3. /\ first \in Nat
      /\ first = 0 \/ (plan.cursor # 0 /\ first >= plan.cursor /\ (stale => first > plan.cursor))
  <2>1. CASE stale
    <3>1. NextTime(s, now - Grace) \in Nat
          /\ (NextTime(s, now - Grace) = 0 \/ NextTime(s, now - Grace) > now - Grace)
      BY <1>2, NextIs
    <3> QED BY <1>2, <2>1, <3>1
  <2>2. CASE ~stale
    BY <1>2, <2>2
  <2> QED BY <2>1, <2>2
<1>4. after \in Nat /\ (after = 0 \/ (first # 0 /\ after >= first /\ after > now))
  <2>1. NextTime(s, now) \in Nat /\ (NextTime(s, now) = 0 \/ NextTime(s, now) > now)
    BY <1>2, NextIs
  <2> HIDE DEF first, s
  <2> QED BY <1>2, <1>3, <2>1
<1>5. /\ p \in Plan /\ p.version = plan.version /\ p.cursor = after /\ p.status = "active"
      /\ p.since = plan.since
  <2> HIDE DEF after
  <2> QED BY <1>1, <1>2, <1>4 DEF Plan
<1> HIDE DEF p
\* What is new is for a time between the cursor and now, a time of its own.
<1> DEFINE New(x) ==
             /\ plan.cursor # 0 /\ x \in Event /\ x.version = plan.version
             /\ Key(x) = <<plan.version, x.scheduled>> /\ x.due = x.scheduled
             /\ x.scheduled >= plan.cursor /\ x.scheduled <= now
             /\ after = 0 \/ x.scheduled < after
             /\ \/ x.status = "pending" /\ x.notice = "none"
                \/ x.status = "missed" /\ x.notice = "expired"
<1>6. ASSUME stale
      PROVE  New(m) /\ m.scheduled = plan.cursor
  <2>1. LET o == Occurrence(plan.cursor) IN
        /\ o \in Event /\ Key(o) = <<plan.version, plan.cursor>> /\ o.version = plan.version
        /\ o.scheduled = plan.cursor /\ o.due = plan.cursor
    BY <1>2, OccurrenceIs
  <2>2. "missed" \in Statuses /\ "expired" \in Notices
    BY DEF Statuses, Notices
  <2>3. Becomes(Occurrence(plan.cursor), m, "missed", "expired")
    BY <2>1, <2>2, StatedIs
  <2> HIDE DEF m
  <2>4. /\ m \in Event /\ m.version = plan.version /\ m.scheduled = plan.cursor
        /\ Key(m) = <<plan.version, plan.cursor>> /\ m.due = plan.cursor
        /\ m.status = "missed" /\ m.notice = "expired"
    BY <2>1, <2>3 DEF Becomes, Same
  <2>5. plan.cursor <= now /\ (after = 0 \/ plan.cursor < after)
    <3> HIDE DEF after, first
    <3> QED BY <1>2, <1>4, <1>6
  <2> HIDE DEF after
  <2> QED BY <1>2, <1>6, <2>4, <2>5
<1>7. ASSUME NEW x \in fresh
      PROVE  New(x) /\ x.scheduled >= first /\ first # 0 /\ x = Occurrence(x.scheduled)
  <2>1. first # 0
    OBVIOUS
  <2>2. PICK t \in Times(s, first, now) : x = Occurrence(t)
    BY <2>1
  <2> HIDE DEF first, after
  <2>3. t \in Nat /\ t >= first /\ t <= now
    BY <1>2, <1>3, <2>2 DEF Times
  <2>4. /\ x \in Event /\ Key(x) = <<plan.version, t>> /\ x.version = plan.version
        /\ x.scheduled = t /\ x.due = t /\ x.status = "pending" /\ x.notice = "none"
    BY <1>2, <2>2, <2>3, OccurrenceIs
  <2>5. t >= plan.cursor /\ plan.cursor # 0 /\ (after = 0 \/ t < after)
    BY <1>2, <1>3, <1>4, <2>1, <2>3
  <2> QED BY <2>1, <2>2, <2>3, <2>4, <2>5
<1>8. ASSUME NEW x \in missed \union fresh
      PROVE  New(x)
  <2>1. CASE x \in missed
    <3>1. stale /\ x = m
      BY <2>1
    <3> QED BY <1>6, <3>1
  <2>2. CASE x \in fresh
    BY <1>7, <2>2
  <2> QED BY <2>1, <2>2
<1>9. ASSUME NEW x \in missed \union fresh, NEW y \in missed \union fresh, Key(x) = Key(y)
      PROVE  x = y
  <2>1. Key(x)[2] = x.scheduled /\ Key(y)[2] = y.scheduled
    BY DEF Key
  <2>2. x.scheduled = y.scheduled
    BY <1>9, <2>1
  <2>3. x \in missed => stale /\ x = m
    OBVIOUS
  <2>4. y \in missed => stale /\ y = m
    OBVIOUS
  <2> HIDE DEF missed, fresh, first, stale, m
  <2>5. CASE x \in missed /\ y \in missed
    BY <2>3, <2>4, <2>5
  <2>6. CASE x \in fresh /\ y \in fresh
    BY <1>7, <2>2, <2>6
  <2>7. CASE x \in missed /\ y \in fresh
    BY <1>2, <1>3, <1>6, <1>7, <2>1, <2>2, <2>3, <2>7
  <2>8. CASE x \in fresh /\ y \in missed
    BY <1>2, <1>3, <1>6, <1>7, <2>1, <2>2, <2>4, <2>8
  <2> QED BY <2>5, <2>6, <2>7, <2>8
<1> HIDE DEF missed, fresh
<1>10. ASSUME NEW e \in events
       PROVE  /\ e \in Event /\ EventSound(p, e)
              /\ \A x \in missed \union fresh : Key(e) # Key(x)
  <2>1. e \in Event /\ EventSound(plan, e)
    BY InvariantParts
  <2>2. e.scheduled \in Nat /\ e.version \in Nat
    BY <2>1 DEF Event
  <2>3. e.version = plan.version /\ plan.cursor # 0 => e.scheduled < plan.cursor
    BY <2>1 DEF EventSound
  <2>4. ASSUME NEW x \in missed \union fresh
        PROVE  Key(e) # Key(x)
    <3>1. /\ plan.cursor # 0 /\ Key(x) = <<plan.version, x.scheduled>>
          /\ x.scheduled >= plan.cursor /\ x.scheduled \in Nat
      BY <1>8 DEF Event
    <3> QED BY <1>2, <2>2, <2>3, <3>1 DEF Key
  <2>5. after = 0 \/ (plan.cursor # 0 /\ after >= plan.cursor)
    <3> HIDE DEF after, first
    <3> QED BY <1>2, <1>3, <1>4
  <2> HIDE DEF after
  <2>6. EventSound(p, e)
    BY <1>1, <1>2, <1>4, <1>5, <2>1, <2>2, <2>3, <2>5 DEF EventSound
  <2> QED BY <2>1, <2>4, <2>6
<1>11. ASSUME NEW x \in missed \union fresh
       PROVE  x \in Event /\ EventSound(p, x)
  <2>1. New(x)
    BY <1>8
  <2>2. plan.cursor > plan.since
    BY <1>1, <1>2, <2>1 DEF PlanSound
  <2>3. x.scheduled \in Nat
    BY <2>1 DEF Event
  <2> HIDE DEF after
  <2> QED BY <1>2, <1>4, <1>5, <2>1, <2>2, <2>3 DEF EventSound
<1> HIDE DEF New, first, after, stale, m, s
<1>12. \A e \in events \union missed \union fresh :
         LET f == Announced(e) IN f \in Event /\ Same(e, f) /\ SentAfter(e, f) /\ EventSound(p, f)
  BY <1>2, <1>10, <1>11, AnnouncedIs
<1>13. Rewritten(es, h, new)
  <2>1. \A e \in events \union missed \union fresh : Key(Announced(e)) = Key(e)
    BY <1>12 DEF Same
  <2>2. \A f \in es : f \in new \/ \E e \in events : f = h[e]
    OBVIOUS
  <2>3. \A e \in events : h[e] \in es /\ Key(h[e]) = Key(e)
    BY <2>1
  <2>4. \A f \in new : \A e \in events : Key(e) # Key(f)
    BY <1>10, <2>1
  <2>5. \A f, g \in new : Key(f) = Key(g) => f = g
    <3>1. SUFFICES ASSUME NEW f \in new, NEW g \in new, Key(f) = Key(g) PROVE f = g
      OBVIOUS
    <3>2. PICK x \in missed \union fresh : f = Announced(x)
      OBVIOUS
    <3>3. PICK y \in missed \union fresh : g = Announced(y)
      OBVIOUS
    <3>4. Key(x) = Key(y)
      BY <2>1, <3>1, <3>2, <3>3
    <3> QED BY <1>9, <3>2, <3>3, <3>4
  <2> HIDE DEF es, h, new
  <2> QED BY <2>2, <2>3, <2>4, <2>5 DEF Rewritten
<1>14. \A e \in events : SentAfter(e, h[e])
  BY <1>12
<1>15. es \in SUBSET Event /\ \A f \in es : EventSound(p, f)
  BY <1>12
<1>16. PlanSound(p, es)
  <2>1. after # 0 => plan.cursor # 0 /\ plan.cursor > plan.since /\ after >= plan.cursor
    BY <1>1, <1>2, <1>3, <1>4 DEF PlanSound
  <2>2. after # 0 => after > plan.since
    BY <1>2, <1>4, <2>1
  <2> QED BY <1>2, <1>5, <2>2 DEF PlanSound
<1>17. p.version <= commands' /\ commands' \in 0..MaxCommands
  BY <1>1, <1>2, <1>5
<1> HIDE DEF es, h, new
<1> QED BY <1>1, <1>5, <1>13, <1>14, <1>15, <1>16, <1>17, PlanStep

-----------------------------------------------------------------------------
(* The dispatchers *)

Working == {Idle, [at |-> "claim"]} \union Sending \union Finishing

\* One dispatcher goes on; unless it sends now, the others alone hold a message.
LEMMA WorkerIs ==
  ASSUME ReminderInvariant, NEW w \in Workers, NEW x \in Working, worker' = [worker EXCEPT ![w] = x]
  PROVE  /\ worker' \in [Workers -> Working] /\ worker'[w] = x
         /\ \A v \in Workers : v # w => worker'[v] = worker[v]
         /\ Holders \ {w} \subseteq Holders'
         /\ x.at # "send" => Holders' = Holders \ {w} /\ \A v \in Holders' : worker'[v] = worker[v]
BY DEF ReminderInvariant, TypeOK, Working, Holders

\* What a dispatcher is doing tells what it knows.
LEMMA WorkingIs ==
  ASSUME ReminderInvariant, NEW w \in Workers
  PROVE  /\ worker[w].at = "send" => worker[w] \in Sending
         /\ worker[w].at = "finish" => worker[w] \in Finishing
         /\ worker[w].at \in {"send", "finish"} =>
              worker[w].key \in Keys /\ worker[w].rev \in Nat /\ worker[w].due \in Nat
<1>1. worker[w] \in Working
  BY DEF ReminderInvariant, TypeOK, Working
<1>2. /\ worker[w].at = "send" => worker[w] \in Sending
      /\ worker[w].at = "finish" => worker[w] \in Finishing
  BY <1>1 DEF Working, Idle, Sending, Finishing
<1> QED BY <1>2 DEF Sending, Finishing

\* The occurrences stay as they are, and nothing is sent.
LEMMA QuietStep ==
  ASSUME ReminderInvariant, UNCHANGED <<plan, events, sent, commands>>,
         now' \in 1..Horizon, now <= now', worker' \in [Workers -> Working],
         account' \in Account,
         account'.receipts \subseteq account'.accepted,
         ~account'.enabled => account'.credits = 0,
         old' \subseteq Keys, crashes' \in 0..MaxCrashes,
         Holders' \subseteq Holders, \A v \in Holders' : worker'[v] = worker[v]
  PROVE  ReminderInvariant'
<1>1. now \in Nat /\ now' \in Nat
  BY InvariantParts, ReminderAssumption
<1>2. TypeOK'
  BY DEF ReminderInvariant, TypeOK, Working
<1>3. OncePerTime' /\ SentOnce' /\ ActiveIsAlive'
  BY DEF ReminderInvariant, OncePerTime, SentOnce, ActiveIsAlive
<1>4. CalendarSound'
  <2>1. \A e \in events : e.due \in Nat
    BY DEF ReminderInvariant, TypeOK, Event
  <2>2. plan.since \in Nat
    BY DEF ReminderInvariant, TypeOK, Plan
  <2> QED BY <1>1, <2>1, <2>2 DEF ReminderInvariant, CalendarSound
<1>5. SendingSound'
  <2>1. KeepsKeys(events')
    BY DEF KeepsKeys
  <2>2. \A f \in events' : Waits(f) => ~Used(<<Key(f), f.due>>)
    BY DEF ReminderInvariant, SendingSound, Waits
  <2> QED BY <1>1, <2>1, <2>2, SendingKept
<1> QED BY <1>2, <1>3, <1>4, <1>5 DEF ReminderInvariant

\* A notice that waits, or is being sent, goes on; none waits anew.
Noticed(e, f) ==
  /\ Same(e, f) /\ f.due = e.due /\ f.status = e.status
  /\ f.notice = e.notice \/ e.notice \in {"queued", "dispatching"}
  /\ f.notice = "queued" => e.notice = "queued"

LEMMA NoticedParts ==
  ASSUME ReminderInvariant, NEW h, events' = {h[e] : e \in events},
         \A e \in events : Noticed(e, h[e]), UNCHANGED <<now, plan, commands>>
  PROVE  /\ events' \in SUBSET Event /\ \A f \in events' : EventSound(plan, f)
         /\ OncePerTime' /\ ActiveIsAlive' /\ CalendarSound' /\ KeepsKeys(events')
<1>1. \A e \in events : e \in Event /\ EventSound(plan, e)
  BY InvariantParts
<1>2. Rewritten(events', h, {})
  BY DEF Rewritten, Noticed, Same
<1>3. Unique(events') /\ KeepsKeys(events')
  BY <1>2, RewrittenIs DEF ReminderInvariant
<1>4. \A f \in events' : f \in Event /\ EventSound(plan, f)
  BY <1>1 DEF Noticed, Same, EventSound
<1>5. \A e \in events : h[e].status = e.status /\ h[e] \in events'
  BY DEF Noticed
<1>6. ActiveIsAlive'
  <2>1. Open(events) # {} => Open(events') # {}
    BY <1>5 DEF Open
  <2>2. Unfinished(events) = {} => Unfinished(events') = {}
    BY <1>5 DEF Unfinished
  <2> QED BY <2>1, <2>2 DEF ReminderInvariant, ActiveIsAlive
<1>7. CalendarSound'
  <2>1. plan.status = "none" => events' = {}
    BY DEF ReminderInvariant, CalendarSound
  <2> QED BY <1>4, <2>1 DEF ReminderInvariant, CalendarSound, EventSound
<1> QED BY <1>3, <1>4, <1>6, <1>7 DEF Unique, OncePerTime

LEMMA NoticedStep ==
  ASSUME ReminderInvariant, NEW h, events' = {h[e] : e \in events},
         \A e \in events : Noticed(e, h[e]),
         UNCHANGED <<now, plan, account, old, sent, commands, crashes>>,
         worker' \in [Workers -> Working],
         Holders' \subseteq Holders, \A v \in Holders' : worker'[v] = worker[v]
  PROVE  ReminderInvariant'
<1>1. /\ events' \in SUBSET Event /\ \A f \in events' : EventSound(plan, f)
      /\ OncePerTime' /\ ActiveIsAlive' /\ CalendarSound' /\ KeepsKeys(events')
  BY NoticedParts
<1>2. TypeOK'
  BY <1>1 DEF ReminderInvariant, TypeOK, Working, EventSound
<1>3. SentOnce'
  BY DEF ReminderInvariant, SentOnce
<1>4. \A f \in events' : Waits(f) => ~Used(<<Key(f), f.due>>)
  BY DEF ReminderInvariant, SendingSound, Waits, Noticed, Same
<1>5. now \in Nat /\ now' = now
  BY InvariantParts
<1>6. SendingSound'
  BY <1>1, <1>4, <1>5, SendingKept
<1> QED BY <1>1, <1>2, <1>3, <1>6 DEF ReminderInvariant

LEMMA BeginClaimStep ==
  ASSUME ReminderInvariant, NEW w \in Workers, BeginClaim(w)
  PROVE  ReminderInvariant'
<1> DEFINE h == [e \in events |-> Recovered(e)]
<1>1. events' = {h[e] : e \in events}
  BY DEF BeginClaim
<1>2. ASSUME NEW e \in events
      PROVE  Noticed(e, h[e])
  <2>1. e \in Event /\ "uncertain" \in Notices
    BY InvariantParts DEF Notices
  <2>2. Becomes(e, [e EXCEPT !.notice = "uncertain"], e.status, "uncertain")
    BY <2>1, NotedIs
  <2> QED BY <2>1, <2>2 DEF Recovered, Noticed, Becomes, Same
<1> HIDE DEF h
<1>3. [at |-> "claim"] \in Working /\ [at |-> "claim"].at # "send"
  BY DEF Working
<1>4. worker' = [worker EXCEPT ![w] = [at |-> "claim"]]
  BY DEF BeginClaim
<1>5. /\ worker' \in [Workers -> Working] /\ Holders' \subseteq Holders
      /\ \A v \in Holders' : worker'[v] = worker[v]
  BY <1>3, <1>4, WorkerIs, ZenonT(60)
<1> QED BY <1>1, <1>2, <1>5, NoticedStep DEF BeginClaim

LEMMA SkipStep ==
  ASSUME ReminderInvariant, NEW w \in Workers, Skip(w)
  PROVE  ReminderInvariant'
<1>1. PICK e \in events :
        /\ e.notice = "queued"
        /\ events' = (events \ {e}) \union
             {[e EXCEPT !.notice = IF plan.status # "active" \/ e.status # "due" THEN "canceled"
                                   ELSE IF e.due < now - Grace THEN "expired"
                                   ELSE "not_authorized"]}
  BY DEF Skip
<1> DEFINE n == IF plan.status # "active" \/ e.status # "due" THEN "canceled"
                ELSE IF e.due < now - Grace THEN "expired" ELSE "not_authorized"
           h == [x \in events |-> IF x = e THEN [e EXCEPT !.notice = n] ELSE x]
<1>2. e \in Event /\ n \in Notices /\ n # "queued"
  BY InvariantParts DEF Notices
<1>3. events' = {h[x] : x \in events}
  BY <1>1
<1> HIDE DEF n
<1>4. Becomes(e, [e EXCEPT !.notice = n], e.status, n)
  BY <1>2, NotedIs
<1>5. \A x \in events : Noticed(x, h[x])
  BY <1>1, <1>2, <1>4, InvariantParts DEF Noticed, Becomes, Same
<1> HIDE DEF h
<1>6. /\ worker' \in [Workers -> Working] /\ Holders' = Holders
      /\ \A v \in Holders' : worker'[v] = worker[v]
  BY DEF Skip, ReminderInvariant, TypeOK, Working, Holders
<1> QED BY <1>3, <1>5, <1>6, NoticedStep DEF Skip

LEMMA FinishStep ==
  ASSUME ReminderInvariant, NEW w \in Workers, Finish(w)
  PROVE  ReminderInvariant'
<1> DEFINE mine(e) == /\ Key(e) = worker[w].key /\ e.rev = worker[w].rev
                      /\ e.notice = "dispatching"
           h == [e \in events |->
                   IF mine(e) THEN [e EXCEPT !.notice = worker[w].status] ELSE e]
<1>1. events' = {h[e] : e \in events}
  BY DEF Finish
<1>2. worker[w].status \in {"sent", "uncertain"}
  BY WorkingIs DEF Finish, Finishing
<1>3. ASSUME NEW e \in events
      PROVE  Noticed(e, h[e])
  <2>1. e \in Event /\ worker[w].status \in Notices
    BY <1>2, InvariantParts DEF Notices
  <2>2. Becomes(e, [e EXCEPT !.notice = worker[w].status], e.status, worker[w].status)
    BY <2>1, NotedIs
  <2> QED BY <1>2, <2>1, <2>2 DEF Noticed, Becomes, Same
<1> HIDE DEF h
<1>4. Idle \in Working /\ Idle.at # "send" /\ worker' = [worker EXCEPT ![w] = Idle]
  BY DEF Finish, Working, Idle
<1>5. /\ worker' \in [Workers -> Working] /\ Holders' \subseteq Holders
      /\ \A v \in Holders' : worker'[v] = worker[v]
  BY <1>4, WorkerIs
<1> QED BY <1>1, <1>3, <1>5, NoticedStep DEF Finish

LEMMA CreditsIs ==
  ASSUME NEW a \in Account, NEW n \in Nat
  PROVE  LET b == [a EXCEPT !.credits = n] IN
         /\ b \in Account /\ b.credits = n
         /\ b.receipts = a.receipts /\ b.accepted = a.accepted /\ b.enabled = a.enabled
BY DEF Account

\* What is claimed was not sent for this due time, and nobody is sending it.
LEMMA ClaimStep ==
  ASSUME ReminderInvariant, NEW w \in Workers, Claim(w)
  PROVE  ReminderInvariant'
<1>1. PICK e \in events :
        /\ e.notice = "queued" /\ Deliverable(e) /\ Authorized
        /\ events' = (events \ {e}) \union {[e EXCEPT !.notice = "dispatching"]}
        /\ old' = old \ {Key(e)}
        /\ worker' = [worker EXCEPT ![w] =
                        [at |-> "send", key |-> Key(e), rev |-> e.rev, due |-> e.due]]
  BY DEF Claim
<1> DEFINE f == [e EXCEPT !.notice = "dispatching"]
           x == [at |-> "send", key |-> Key(e), rev |-> e.rev, due |-> e.due]
           h == [y \in events |-> IF y = e THEN f ELSE y]
<1>2. e \in Event /\ "dispatching" \in Notices /\ EventSound(plan, e)
  BY InvariantParts DEF Notices
<1>3. events' = {h[y] : y \in events}
  BY <1>1
<1>4. Becomes(e, f, e.status, "dispatching")
  BY <1>2, NotedIs
<1> HIDE DEF f
<1>5. \A y \in events : Noticed(y, h[y])
  BY <1>1, <1>2, <1>4, InvariantParts DEF Noticed, Becomes, Same
<1>6. \A g \in events' : g = f \/ (g \in events /\ g # e)
  BY <1>1 DEF f
<1> HIDE DEF h
<1>7. /\ events' \in SUBSET Event /\ \A g \in events' : EventSound(plan, g)
      /\ OncePerTime' /\ ActiveIsAlive' /\ CalendarSound' /\ KeepsKeys(events')
  BY <1>3, <1>5, NoticedParts DEF Claim
<1>8. /\ Key(e) \in Keys /\ e.due \in Nat /\ x \in Working /\ x.at = "send"
      /\ x.key = Key(e) /\ x.due = e.due /\ worker' = [worker EXCEPT ![w] = x]
  BY <1>1, <1>2 DEF Event, Key, Keys, Sending, Working
<1> HIDE DEF x
<1>9. /\ worker' \in [Workers -> Working] /\ worker'[w] = x
      /\ \A v \in Workers : v # w => worker'[v] = worker[v]
  BY <1>8, WorkerIs
<1>10. worker[w].at = "claim" /\ account' = [account EXCEPT !.credits = @ - 1]
       /\ UNCHANGED <<now, plan, sent, commands, crashes>>
  BY DEF Claim
<1>11. TypeOK'
  <2>1. TypeOK /\ account.enabled /\ account.credits > 0 /\ account.credits \in Nat
    <3>1. TypeOK /\ account \in Account
      BY DEF ReminderInvariant, TypeOK
    <3>2. account.credits \in Nat
      BY <3>1 DEF Account
    <3> QED BY <1>1, <3>1, <3>2 DEF Authorized
  <2>2. /\ account' \in Account
        /\ account'.receipts = account.receipts /\ account'.accepted = account.accepted
        /\ account'.enabled = account.enabled
    <3>1. account \in Account /\ account.credits - 1 \in Nat
      BY <2>1 DEF TypeOK
    <3>2. account' = [account EXCEPT !.credits = account.credits - 1]
      BY <1>10
    <3> QED BY <3>1, <3>2, CreditsIs
  <2>3. account'.receipts \subseteq account'.accepted /\ account'.enabled
    BY <2>1, <2>2 DEF TypeOK
  <2>4. /\ now' \in 1..Horizon /\ plan' \in Plan /\ old' \subseteq Keys
        /\ sent' \in Seq(Keys \X Nat) /\ commands' \in 0..MaxCommands /\ crashes' \in 0..MaxCrashes
    BY <1>1, <1>10, <2>1 DEF TypeOK
  <2>5. \A g \in events' :
          /\ g.status = "pending" => g.notice = "none"
          /\ g.notice \in {"queued", "dispatching"} => g.status = "due"
    BY <1>7 DEF EventSound
  <2> QED BY <1>7, <1>9, <2>2, <2>3, <2>4, <2>5 DEF TypeOK, Working
<1>12. SentOnce'
  BY <1>10 DEF ReminderInvariant, SentOnce
<1>13. SendingSound'
  <2>1. ~Used(<<Key(e), e.due>>) /\ e.due <= now
    BY <1>1, <1>2 DEF ReminderInvariant, SendingSound, Deliverable, EventSound
  <2>2. Holders' = Holders \union {w} /\ w \notin Holders
    BY <1>8, <1>9, <1>10 DEF Holders
  <2>3. /\ Held(w)' = <<Key(e), e.due>>
        /\ \A v \in Holders : v # w /\ worker'[v] = worker[v] /\ Held(v)' = Held(v)
    BY <1>8, <1>9, <2>2 DEF Held, Holders
  <2>4. \A k \in Keys : (\E y \in events : Key(y) = k) => \E g \in events' : Key(g) = k
    BY <1>7 DEF KeepsKeys
  <2>5. \A i \in DOMAIN sent : sent[i][2] <= now /\ \E g \in events' : Key(g) = sent[i][1]
    BY <1>7 DEF ReminderInvariant, SendingSound, KeepsKeys
  <2>6. ASSUME NEW v \in Holders'
        PROVE  /\ worker'[v].due <= now /\ \E g \in events' : Key(g) = worker'[v].key
               /\ \A i \in DOMAIN sent : sent[i] # Held(v)'
               /\ \A u \in Holders' : Held(u)' = Held(v)' => u = v
    <3>1. \A u \in Holders : Held(u) # <<Key(e), e.due>>
      BY <2>1 DEF Used
    <3>2. CASE v = w
      <4>1. \E g \in events' : Key(g) = Key(e)
        BY <1>7 DEF KeepsKeys
      <4>2. \A i \in DOMAIN sent : sent[i] # <<Key(e), e.due>>
        BY <2>1 DEF Used
      <4> QED BY <1>8, <1>9, <2>1, <2>2, <2>3, <3>1, <3>2, <4>1, <4>2
    <3>3. CASE v # w
      <4>1. v \in Holders
        BY <2>2, <3>3
      <4>2. /\ worker[v].due <= now /\ \E y \in events : Key(y) = worker[v].key
            /\ \A i \in DOMAIN sent : sent[i] # Held(v)
            /\ \A u \in Holders : Held(u) = Held(v) => u = v
        BY <4>1 DEF ReminderInvariant, SendingSound
      <4>3. \E g \in events' : Key(g) = worker[v].key
        BY <1>7, <4>2 DEF KeepsKeys
      <4> QED BY <2>2, <2>3, <3>1, <4>1, <4>2, <4>3
    <3> QED BY <3>2, <3>3
  <2>7. ASSUME NEW g \in events', g.status = "pending" \/ g.notice = "queued"
        PROVE  ~Used(<<Key(g), g.due>>)'
    <3>1. g # f
      BY <1>1, <1>2, <1>4, <2>7 DEF Becomes, EventSound
    <3>2. g \in events /\ g # e
      BY <1>6, <3>1
    <3>3. ~Used(<<Key(g), g.due>>)
      BY <2>7, <3>2 DEF ReminderInvariant, SendingSound
    <3>4. Key(g) # Key(e)
      BY <3>2 DEF ReminderInvariant, OncePerTime
    <3>5. <<Key(g), g.due>> # <<Key(e), e.due>>
      BY <3>4
    <3> QED BY <1>10, <2>2, <2>3, <3>3, <3>5 DEF Used
  <2> QED BY <1>10, <2>5, <2>6, <2>7 DEF SendingSound
<1> QED BY <1>7, <1>11, <1>12, <1>13 DEF ReminderInvariant

\* What is held becomes what was sent, or is forgotten.
LEMMA SendStep ==
  ASSUME ReminderInvariant, NEW w \in Workers, NEW reached \in BOOLEAN, NEW answered \in BOOLEAN,
         Send(w, reached, answered)
  PROVE  ReminderInvariant'
<1> DEFINE x == [at |-> "finish", key |-> worker[w].key, rev |-> worker[w].rev,
                 due |-> worker[w].due, status |-> IF answered THEN "sent" ELSE "uncertain"]
           m == <<worker[w].key, worker[w].due>>
<1>1. /\ worker[w].at = "send" /\ worker' = [worker EXCEPT ![w] = x]
      /\ sent' = IF reached THEN Append(sent, m) ELSE sent
      /\ UNCHANGED <<now, plan, events, account, old, commands, crashes>>
  BY DEF Send
<1>2. worker[w].key \in Keys /\ worker[w].rev \in Nat /\ worker[w].due \in Nat
  BY <1>1, WorkingIs
<1>3. x \in Working /\ x.at # "send"
  BY <1>2 DEF Working, Finishing
<1>4. w \in Holders /\ m = Held(w) /\ m \in Keys \X Nat
  BY <1>1, <1>2 DEF Holders, Held
<1> HIDE DEF x, m
<1>5. /\ worker' \in [Workers -> Working] /\ Holders' = Holders \ {w}
      /\ \A v \in Holders' : worker'[v] = worker[v]
  BY <1>1, <1>3, WorkerIs
<1>6. CASE ~reached
  <2>1. sent' = sent
    BY <1>1, <1>6
  <2>2. TypeOK
    BY DEF ReminderInvariant
  <2>3. now' \in 1..Horizon /\ now <= now'
    BY <1>1, <2>2, InvariantParts DEF TypeOK
  <2> QED BY <1>1, <1>5, <2>1, <2>2, <2>3, QuietStep DEF TypeOK
<1>7. CASE reached
  <2>1. sent' = Append(sent, m) /\ sent \in Seq(Keys \X Nat)
    BY <1>1, <1>7 DEF ReminderInvariant, TypeOK
  <2>2. /\ sent' \in Seq(Keys \X Nat) /\ Len(sent') = Len(sent) + 1 /\ Len(sent) \in Nat
        /\ DOMAIN sent = 1..Len(sent) /\ DOMAIN sent' = 1..(Len(sent) + 1)
        /\ sent'[Len(sent) + 1] = m /\ \A i \in 1..Len(sent) : sent'[i] = sent[i]
    BY <1>4, <2>1
  <2>3. TypeOK'
    BY <1>1, <1>5, <2>2 DEF ReminderInvariant, TypeOK, Working
  <2>4. /\ \A i \in DOMAIN sent : sent[i] # m
        /\ \A v \in Holders : v # w => Held(v) # m
        /\ m[2] <= now /\ \E e \in events : Key(e) = m[1]
    BY <1>4 DEF ReminderInvariant, SendingSound, Held
  <2>5. \A i \in DOMAIN sent' : i \in DOMAIN sent \/ i = Len(sent) + 1
    BY <2>2
  <2>6. SentOnce'
    BY <2>2, <2>4, <2>5, SMTT(30) DEF ReminderInvariant, SentOnce
  <2>7. \A v \in Holders' : Held(v)' = Held(v) /\ v \in Holders /\ v # w
    BY <1>5 DEF Held
  <2>8. \A pair : Used(pair)' => Used(pair)
    <3>1. ASSUME NEW pair, Used(pair)' PROVE Used(pair)
      <4>1. CASE \E i \in DOMAIN sent' : sent'[i] = pair
        BY <1>4, <2>2, <2>5, <4>1 DEF Used
      <4>2. CASE \E v \in Holders' : Held(v)' = pair
        BY <2>7, <4>2 DEF Used
      <4> QED BY <3>1, <4>1, <4>2 DEF Used
    <3> QED BY <3>1
  <2>9. SendingSound'
    <3>1. \A i \in DOMAIN sent' : sent'[i][2] <= now /\ \E e \in events : Key(e) = sent'[i][1]
      BY <2>2, <2>4, <2>5 DEF ReminderInvariant, SendingSound
    <3>2. \A v \in Holders' : /\ worker'[v].due <= now /\ \E e \in events : Key(e) = worker'[v].key
                              /\ \A i \in DOMAIN sent' : sent'[i] # Held(v)'
                              /\ \A u \in Holders' : Held(u)' = Held(v)' => u = v
      BY <1>5, <2>2, <2>4, <2>5, <2>7 DEF ReminderInvariant, SendingSound
    <3>3. \A e \in events : e.status = "pending" \/ e.notice = "queued" =>
                              ~Used(<<Key(e), e.due>>)'
      BY <2>8 DEF ReminderInvariant, SendingSound
    <3> QED BY <1>1, <3>1, <3>2, <3>3 DEF SendingSound
  <2>10. OncePerTime' /\ ActiveIsAlive' /\ CalendarSound'
    BY <1>1 DEF ReminderInvariant, OncePerTime, ActiveIsAlive, CalendarSound
  <2> QED BY <2>3, <2>6, <2>9, <2>10 DEF ReminderInvariant
<1> QED BY <1>6, <1>7

\* A dispatcher that gives up, or finds nothing, changes nothing else.
LEMMA IdleStep ==
  ASSUME ReminderInvariant, NEW w \in Workers, ClaimNothing(w) \/ Crash(w)
  PROVE  ReminderInvariant'
<1>1. /\ worker' = [worker EXCEPT ![w] = Idle]
      /\ UNCHANGED <<now, plan, events, account, old, sent, commands>>
  BY DEF ClaimNothing, Crash
<1>2. TypeOK
  BY DEF ReminderInvariant
<1>3. crashes' \in 0..MaxCrashes
  BY <1>2, ReminderAssumption DEF ClaimNothing, Crash, TypeOK
<1>4. Idle \in Working /\ Idle.at # "send"
  BY DEF Working, Idle
<1>5. /\ worker' \in [Workers -> Working] /\ Holders' \subseteq Holders
      /\ \A v \in Holders' : worker'[v] = worker[v]
  BY <1>1, <1>4, WorkerIs
<1>6. now' \in 1..Horizon /\ now <= now'
  BY <1>1, <1>2, InvariantParts DEF TypeOK
<1> QED BY <1>1, <1>2, <1>3, <1>5, <1>6, QuietStep DEF TypeOK

-----------------------------------------------------------------------------
(* Consent and time *)

LEMMA WorkersIdle ==
  ASSUME ReminderInvariant, UNCHANGED worker
  PROVE  /\ worker' \in [Workers -> Working] /\ Holders' = Holders
         /\ \A v \in Holders' : worker'[v] = worker[v]
BY DEF ReminderInvariant, TypeOK, Working, Holders

\* A new receipt is kept, unless the client sends none.
LEMMA GrantedIs ==
  ASSUME account \in Account, account.receipts \subseteq account.accepted,
         NEW c \in Consents, NEW automatic, Granted(c, automatic)
  PROVE  /\ account' \in Account /\ account'.enabled = TRUE
         /\ account'.receipts \subseteq account'.accepted
         /\ account'.accepted = account.accepted \union {c}
         /\ c \notin account.receipts
         /\ account'.receipts = IF c \in Legacy THEN account.receipts
                                ELSE account.receipts \union {c}
         /\ account'.credits = CreditsWith(c)
<1>1. account.credits \in Nat /\ account.receipts \subseteq Consents /\ account.accepted \subseteq Consents
  BY DEF Account
<1> DEFINE held == IF account.enabled THEN account.credits ELSE 0
<1>2. held \in Nat
  BY <1>1
<1>3. CreditsWith(c) = IF c \in Legacy THEN Max({held, 1}) ELSE held + 1
  BY DEF CreditsWith
<1> HIDE DEF held
<1>4. Max({held, 1}) \in Nat
  <2>1. \E x \in {held, 1} : \A y \in {held, 1} : x >= y
    BY <1>2
  <2>2. Max({held, 1}) \in {held, 1}
    BY <2>1 DEF Max
  <2> QED BY <1>2, <2>2
<1>5. CreditsWith(c) \in Nat
  BY <1>2, <1>3, <1>4
<1> QED BY <1>1, <1>5 DEF Granted, Account

LEMMA GrantStep ==
  ASSUME ReminderInvariant, NEW c \in Consents, NEW automatic \in BOOLEAN, Grant(c, automatic)
  PROVE  ReminderInvariant'
<1>1. TypeOK
  BY DEF ReminderInvariant
<1>2. /\ account' \in Account /\ account'.enabled = TRUE
      /\ account'.receipts \subseteq account'.accepted
  BY <1>1, GrantedIs DEF Grant, TypeOK
<1>3. UNCHANGED <<now, plan, events, worker, old, sent, commands, crashes>>
  BY DEF Grant
<1>4. now' \in 1..Horizon /\ now <= now'
  BY <1>1, <1>3, InvariantParts DEF TypeOK
<1>5. old' \subseteq Keys /\ crashes' \in 0..MaxCrashes
  BY <1>1, <1>3 DEF TypeOK
<1> QED BY <1>2, <1>3, <1>4, <1>5, WorkersIdle, QuietStep

LEMMA DisabledIs ==
  ASSUME NEW a \in Account
  PROVE  LET b == [a EXCEPT !.enabled = FALSE, !.credits = 0] IN
         /\ b \in Account /\ b.credits = 0 /\ b.receipts = a.receipts /\ b.accepted = a.accepted
BY DEF Account

LEMMA DisableStep ==
  ASSUME ReminderInvariant, Disable
  PROVE  ReminderInvariant'
<1>1. TypeOK
  BY DEF ReminderInvariant
<1>2. /\ account' \in Account /\ account'.credits = 0
      /\ account'.receipts \subseteq account'.accepted
  BY <1>1, DisabledIs DEF Disable, TypeOK
<1>3. UNCHANGED <<now, plan, events, worker, old, sent, commands, crashes>>
  BY DEF Disable
<1>4. now' \in 1..Horizon /\ now <= now'
  BY <1>1, <1>3, InvariantParts DEF TypeOK
<1>5. old' \subseteq Keys /\ crashes' \in 0..MaxCrashes
  BY <1>1, <1>3 DEF TypeOK
<1> QED BY <1>2, <1>3, <1>4, <1>5, WorkersIdle, QuietStep

LEMMA AdvanceStep ==
  ASSUME ReminderInvariant, Advance
  PROVE  ReminderInvariant'
<1>1. TypeOK
  BY DEF ReminderInvariant
<1>2. now' \in 1..Horizon /\ now <= now'
  BY <1>1, ReminderAssumption DEF TypeOK, Advance
<1>3. UNCHANGED <<plan, events, account, worker, old, sent, commands, crashes>>
  BY DEF Advance
<1> QED BY <1>1, <1>2, <1>3, WorkersIdle, QuietStep DEF TypeOK

LEMMA MinuteStep ==
  ASSUME ReminderInvariant, Minute
  PROVE  ReminderInvariant'
<1>1. TypeOK
  BY DEF ReminderInvariant
<1>2. PICK e \in events : old' = old \union {Key(e)}
  BY DEF Minute
<1>3. Key(e) \in Keys
  BY <1>1, <1>2 DEF TypeOK, Event, Key, Keys
<1>4. UNCHANGED <<now, plan, events, account, worker, sent, commands, crashes>>
  BY DEF Minute
<1>5. now' \in 1..Horizon /\ now <= now'
  BY <1>1, <1>4, InvariantParts DEF TypeOK
<1>6. old' \subseteq Keys
  BY <1>1, <1>2, <1>3 DEF TypeOK
<1> QED BY <1>1, <1>4, <1>5, <1>6, WorkersIdle, QuietStep DEF TypeOK

-----------------------------------------------------------------------------
(* The invariant *)

LEMMA InitInvariant == Init => ReminderInvariant
<1> SUFFICES ASSUME Init PROVE ReminderInvariant
  OBVIOUS
<1>1. plan.schedule \in Schedules /\ plan \in Plan
  BY ReminderAssumption DEF Init, Plan
<1>2. account \in Account /\ account.receipts \subseteq account.accepted /\ account.credits = 0
  BY DEF Init, Account
<1>3. worker \in [Workers -> Working] /\ Holders = {}
  BY DEF Init, Working, Holders, Idle
<1>4. /\ now \in 1..Horizon /\ events = {} /\ old = {} /\ sent \in Seq(Keys \X Nat) /\ sent = <<>>
      /\ commands \in 0..MaxCommands /\ crashes \in 0..MaxCrashes /\ commands = 0
  BY ReminderAssumption DEF Init
<1>5. TypeOK
  BY <1>1, <1>2, <1>3, <1>4 DEF TypeOK, Working
<1>6. OncePerTime /\ SentOnce /\ ActiveIsAlive /\ CalendarSound
  BY <1>4 DEF Init, OncePerTime, SentOnce, ActiveIsAlive, CalendarSound
<1>7. SendingSound
  BY <1>3, <1>4 DEF SendingSound
<1> QED BY <1>5, <1>6, <1>7 DEF ReminderInvariant

LEMMA StutterStep == ReminderInvariant /\ UNCHANGED vars => ReminderInvariant'
<1> SUFFICES ASSUME ReminderInvariant, UNCHANGED vars PROVE ReminderInvariant'
  OBVIOUS
<1>1. TypeOK
  BY DEF ReminderInvariant
<1>2. UNCHANGED <<now, plan, events, account, worker, old, sent, commands, crashes>>
  BY DEF vars
<1>3. now' \in 1..Horizon /\ now <= now'
  BY <1>1, <1>2, InvariantParts DEF TypeOK
<1> QED BY <1>1, <1>2, <1>3, WorkersIdle, QuietStep DEF TypeOK

LEMMA NextInvariant == ReminderInvariant /\ [Next]_vars => ReminderInvariant'
<1> SUFFICES ASSUME ReminderInvariant, [Next]_vars PROVE ReminderInvariant'
  OBVIOUS
<1>1. CASE Command
  <2>1. CASE \E s \in Schedules : Create(s) \/ Reschedule(s)
    BY <2>1, CreateStep, RescheduleStep
  <2>2. CASE \E d \in Delays : Snooze(d)
    BY <2>2, SnoozeStep
  <2> QED BY <1>1, <2>1, <2>2, DeleteStep, PauseStep, ResumeStep, RenameStep, CompleteStep
          DEF Command
<1>2. CASE Tick \/ Disable \/ Advance \/ Minute
  BY <1>2, TickStep, DisableStep, AdvanceStep, MinuteStep
<1>3. CASE \E c \in Consents, automatic \in BOOLEAN : Grant(c, automatic)
  BY <1>3, GrantStep
<1>4. ASSUME NEW w \in Workers, WorkerStep(w) \/ Crash(w)
      PROVE  ReminderInvariant'
  <2>1. CASE \E reached, answered \in BOOLEAN : Send(w, reached, answered)
    BY <2>1, SendStep
  <2> QED BY <1>4, <2>1, BeginClaimStep, SkipStep, ClaimStep, IdleStep, FinishStep DEF WorkerStep
<1>5. CASE UNCHANGED vars
  BY <1>5, StutterStep
<1> QED BY <1>1, <1>2, <1>3, <1>4, <1>5 DEF Next

LEMMA InvariantCorrect == Spec => []ReminderInvariant
BY InitInvariant, NextInvariant, PTL DEF Spec

-----------------------------------------------------------------------------
(* Consents: one message for each, where every client sends its receipts *)

LEMMA CreditsInit == Init => CreditsSound
<1> SUFFICES ASSUME Init PROVE CreditsSound
  OBVIOUS
<1>1. Holders = {}
  BY DEF Init, Holders, Idle
<1>2. account.accepted = {} /\ account.receipts = {} /\ account.credits = 0 /\ Len(sent) = 0
  BY DEF Init
<1> QED BY <1>1, <1>2, FS_EmptySet DEF CreditsSound

\* Nobody takes a message, and what was accepted stays.
LEMMA CreditsQuiet ==
  ASSUME ReminderInvariant, CreditsSound, UNCHANGED <<account, sent>>, Holders' \subseteq Holders
  PROVE  CreditsSound'
<1>1. /\ IsFiniteSet(Holders') /\ Cardinality(Holders') <= Cardinality(Holders)
      /\ Cardinality(Holders) \in Nat /\ Cardinality(Holders') \in Nat
      /\ Cardinality(account.accepted) \in Nat
  BY FS_Subset, FS_CardinalityType DEF CreditsSound
<1>2. account.credits \in Nat /\ Len(sent) \in Nat
  <2>1. account \in Account /\ sent \in Seq(Keys \X Nat)
    BY DEF ReminderInvariant, TypeOK
  <2> QED BY <2>1 DEF Account
<1> QED BY <1>1, <1>2 DEF CreditsSound

LEMMA CreditsOfAccount ==
  ASSUME ReminderInvariant, CreditsSound, Legacy = {}, UNCHANGED <<worker, sent>>,
         Disable \/ \E c \in Consents, automatic \in BOOLEAN : Grant(c, automatic)
  PROVE  CreditsSound'
<1>1. account \in Account /\ account.receipts \subseteq account.accepted
  BY DEF ReminderInvariant, TypeOK
<1>2. Holders' = Holders
  BY DEF Holders
<1>3. /\ Cardinality(Holders) \in Nat /\ Cardinality(account.accepted) \in Nat
      /\ account.credits \in Nat /\ Len(sent) \in Nat
  <2>1. sent \in Seq(Keys \X Nat)
    BY DEF ReminderInvariant, TypeOK
  <2> QED BY <1>1, <2>1, FS_CardinalityType DEF CreditsSound, Account
<1>4. CASE Disable
  <2>1. /\ account'.credits = 0 /\ account'.receipts = account.receipts
        /\ account'.accepted = account.accepted
    BY <1>1, <1>4, DisabledIs DEF Disable
  <2> QED BY <1>2, <1>3, <2>1 DEF CreditsSound
<1>5. ASSUME NEW c \in Consents, NEW automatic \in BOOLEAN, Grant(c, automatic)
      PROVE  CreditsSound'
  <2>1. /\ account'.accepted = account.accepted \union {c}
        /\ account'.receipts = account.receipts \union {c}
        /\ c \notin account.receipts /\ account'.credits = CreditsWith(c)
    BY <1>1, <1>5, GrantedIs DEF Grant
  <2>2. /\ IsFiniteSet(account'.accepted)
        /\ Cardinality(account'.accepted) = Cardinality(account.accepted) + 1
    BY <2>1, FS_AddElement, SMTT(30) DEF CreditsSound
  <2>3. CreditsWith(c) \in Nat /\ CreditsWith(c) <= account.credits + 1
    BY <1>3 DEF CreditsWith
  <2> QED BY <1>2, <1>3, <2>1, <2>2, <2>3 DEF CreditsSound
<1> QED BY <1>4, <1>5

LEMMA CreditsOfClaim ==
  ASSUME ReminderInvariant, CreditsSound, NEW w \in Workers, Claim(w)
  PROVE  CreditsSound'
<1>1. PICK e \in events :
        /\ Authorized
        /\ worker' = [worker EXCEPT ![w] =
                        [at |-> "send", key |-> Key(e), rev |-> e.rev, due |-> e.due]]
  BY DEF Claim
<1>2. Holders' = Holders \union {w} /\ w \notin Holders
  BY <1>1 DEF Claim, Holders, ReminderInvariant, TypeOK
<1>3. account \in Account /\ sent \in Seq(Keys \X Nat)
  BY DEF ReminderInvariant, TypeOK
<1>4. account.credits \in Nat /\ Len(sent) \in Nat /\ account.credits - 1 \in Nat
  <2>1. account.credits \in Nat /\ Len(sent) \in Nat
    BY <1>3 DEF Account
  <2> QED BY <1>1, <2>1 DEF Authorized
<1>5. /\ account'.credits = account.credits - 1 /\ account'.receipts = account.receipts
      /\ account'.accepted = account.accepted /\ sent' = sent
  BY <1>3, <1>4, CreditsIs DEF Claim
<1>6. /\ IsFiniteSet(Holders') /\ Cardinality(Holders') = Cardinality(Holders) + 1
      /\ Cardinality(Holders) \in Nat /\ Cardinality(account.accepted) \in Nat
  BY <1>2, FS_AddElement, FS_CardinalityType DEF CreditsSound
<1> QED BY <1>4, <1>5, <1>6 DEF CreditsSound

LEMMA CreditsOfSend ==
  ASSUME ReminderInvariant, CreditsSound, NEW w \in Workers,
         NEW reached \in BOOLEAN, NEW answered \in BOOLEAN, Send(w, reached, answered)
  PROVE  CreditsSound'
<1>1. /\ worker[w].at = "send" /\ worker'[w].at = "finish" /\ account' = account
      /\ \A v \in Workers : v # w => worker'[v] = worker[v]
  BY DEF Send, ReminderInvariant, TypeOK
<1>2. Holders' = Holders \ {w} /\ w \in Holders
  BY <1>1 DEF Holders
<1>3. account \in Account /\ sent \in Seq(Keys \X Nat)
  BY DEF ReminderInvariant, TypeOK
<1>4. account.credits \in Nat /\ Len(sent) \in Nat
  BY <1>3 DEF Account
<1>5. <<worker[w].key, worker[w].due>> \in Keys \X Nat
  BY <1>1, WorkingIs
<1>6. Len(sent') = Len(sent) \/ Len(sent') = Len(sent) + 1
  BY <1>3, <1>5 DEF Send
<1>7. /\ IsFiniteSet(Holders') /\ Cardinality(Holders') = Cardinality(Holders) - 1
      /\ Cardinality(Holders) \in Nat /\ Cardinality(account.accepted) \in Nat
  BY <1>2, FS_RemoveElement, FS_CardinalityType DEF CreditsSound
<1> QED BY <1>1, <1>4, <1>6, <1>7 DEF CreditsSound

LEMMA CreditsNext ==
  ASSUME Legacy = {}
  PROVE  ReminderInvariant /\ CreditsSound /\ [Next]_vars => CreditsSound'
<1> SUFFICES ASSUME ReminderInvariant, CreditsSound, [Next]_vars PROVE CreditsSound'
  OBVIOUS
<1>1. CASE UNCHANGED <<account, sent, worker>>
  BY <1>1, CreditsQuiet, WorkersIdle
<1>2. CASE Command \/ Tick \/ Advance \/ Minute \/ UNCHANGED vars
  <2>1. UNCHANGED <<account, sent, worker>>
    BY <1>2 DEF Command, Create, Reschedule, Delete, Pause, Resume, Rename, Complete, Snooze,
                OnOccurrence, Commanded, Tick, Advance, Minute, vars
  <2> QED BY <1>1, <2>1
<1>3. CASE Disable \/ \E c \in Consents, automatic \in BOOLEAN : Grant(c, automatic)
  BY <1>3, CreditsOfAccount DEF Disable, Grant
<1>4. ASSUME NEW w \in Workers, WorkerStep(w) \/ Crash(w)
      PROVE  CreditsSound'
  <2>1. CASE BeginClaim(w) \/ Skip(w) \/ ClaimNothing(w) \/ Finish(w) \/ Crash(w)
    <3>1. UNCHANGED <<account, sent>>
      BY <2>1 DEF BeginClaim, Skip, ClaimNothing, Finish, Crash
    <3>2. Holders' \subseteq Holders
      BY <2>1 DEF BeginClaim, Skip, ClaimNothing, Finish, Crash, Idle, Holders,
                  ReminderInvariant, TypeOK
    <3> QED BY <3>1, <3>2, CreditsQuiet
  <2>2. CASE Claim(w)
    BY <2>2, CreditsOfClaim
  <2>3. CASE \E reached, answered \in BOOLEAN : Send(w, reached, answered)
    BY <2>3, CreditsOfSend
  <2> QED BY <1>4, <2>1, <2>2, <2>3 DEF WorkerStep
<1> QED BY <1>2, <1>3, <1>4 DEF Next

-----------------------------------------------------------------------------
(* Theorems *)

\* Whatever the user, the scheduler and any number of dispatchers do in any order, and
\* wherever a dispatcher stops: each time of the calendar has one occurrence, no occurrence
\* is sent twice for the same due time, no more is sent than was accepted, and what ends is
\* over; where each client sends a receipt with each consent.
THEOREM ReminderSafetyCorrect ==
  ASSUME Legacy = {}
  PROVE  Spec => []ReminderSafety
<1>1. ReminderInvariant /\ CreditsSound => ReminderSafety
  <2> SUFFICES ASSUME ReminderInvariant, CreditsSound PROVE ReminderSafety
    OBVIOUS
  <2>1. account \in Account /\ sent \in Seq(Keys \X Nat)
    BY DEF ReminderInvariant, TypeOK
  <2>2. account.credits \in Nat /\ Len(sent) \in Nat
    BY <2>1 DEF Account
  <2>3. Cardinality(Holders) \in Nat /\ Cardinality(account.accepted) \in Nat
    BY FS_CardinalityType DEF CreditsSound
  <2>4. SendsWithinConsents
    BY <2>2, <2>3 DEF SendsWithinConsents, CreditsSound
  <2> QED BY <2>4 DEF ReminderInvariant, ReminderSafety
<1>2. Init => ReminderInvariant /\ CreditsSound
  BY InitInvariant, CreditsInit
<1>3. ReminderInvariant /\ CreditsSound /\ [Next]_vars => (ReminderInvariant /\ CreditsSound)'
  BY NextInvariant, CreditsNext
<1> QED BY <1>1, <1>2, <1>3, PTL DEF Spec

\* Of these, what is not about consents holds with clients of either kind.
THEOREM SentOnceCorrect == Spec => [](OncePerTime /\ SentOnce /\ ActiveIsAlive)
<1>1. ReminderInvariant => OncePerTime /\ SentOnce /\ ActiveIsAlive
  BY DEF ReminderInvariant
<1> QED BY <1>1, InvariantCorrect, PTL

\* What a dispatcher claims belongs to the present calendar of an active reminder and fell
\* due, not too long ago, while the reminder was active.
THEOREM ClaimedIsCurrentCorrect == Spec => ClaimedIsCurrent
<1> DEFINE Current(w) ==
             worker'[w].at = "send" /\ worker[w].at = "claim" =>
               /\ plan.status = "active"
               /\ worker'[w].key[1] = plan.version
               /\ worker'[w].due \in (now - Grace)..now
               /\ worker'[w].due > plan.since
<1>1. ASSUME ReminderInvariant, [Next]_vars, NEW w \in Workers
      PROVE  Current(w)
  <2> SUFFICES ASSUME worker'[w].at = "send", worker[w].at = "claim"
               PROVE  /\ plan.status = "active"
                      /\ worker'[w].key[1] = plan.version
                      /\ worker'[w].due \in (now - Grace)..now
                      /\ worker'[w].due > plan.since
    OBVIOUS
  <2>1. Claim(w)
    <3>1. CASE UNCHANGED worker
      BY <3>1
    <3>2. ASSUME NEW v \in Workers, WorkerStep(v) \/ Crash(v), ~UNCHANGED worker
          PROVE  v = w /\ Claim(w)
      <4>1. \A u \in Workers : u # v => worker'[u] = worker[u]
        BY <1>1, <3>2 DEF WorkerStep, BeginClaim, Skip, Claim, ClaimNothing, Send, Finish, Crash,
                    ReminderInvariant, TypeOK
      <4>2. v = w
        BY <4>1
      <4>3. ~Claim(w) => worker'[w].at # "send"
        BY <1>1, <3>2, <4>2 DEF WorkerStep, BeginClaim, Skip, ClaimNothing, Send, Finish, Crash,
                          ReminderInvariant, TypeOK, Idle
      <4> QED BY <4>2, <4>3
    <3>3. CASE Command \/ Tick \/ Advance \/ Minute \/ Disable \/ UNCHANGED vars
               \/ \E c \in Consents, automatic \in BOOLEAN : Grant(c, automatic)
      <4>1. UNCHANGED worker
        BY <3>3 DEF Command, Create, Reschedule, Delete, Pause, Resume, Rename, Complete, Snooze,
                    OnOccurrence, Commanded, Tick, Advance, Minute, Disable, Grant, vars
      <4> QED BY <3>1, <4>1
    <3> QED BY <1>1, <3>1, <3>2, <3>3 DEF Next
  <2>2. PICK e \in events :
          /\ Deliverable(e)
          /\ worker' = [worker EXCEPT ![w] =
                          [at |-> "send", key |-> Key(e), rev |-> e.rev, due |-> e.due]]
    BY <2>1 DEF Claim
  <2>3. worker'[w].key[1] = e.version /\ worker'[w].due = e.due
    BY <1>1, <2>2 DEF Key, ReminderInvariant, TypeOK
  <2>4. e \in Event /\ EventSound(plan, e) /\ now \in Nat
    BY <1>1, InvariantParts
  <2>5. e.due \in Nat
    BY <2>4 DEF Event
  <2> QED BY <2>2, <2>3, <2>4, <2>5, ReminderAssumption DEF Deliverable, EventSound
<1>2. ReminderInvariant /\ [Next]_vars => [\A w \in Workers : Current(w)]_vars
  BY <1>1
<1> QED BY <1>2, InvariantCorrect, PTL DEF Spec, ClaimedIsCurrent

-----------------------------------------------------------------------------
(* The rows of the to-do list. *)

\* Rows of any size, and what the fields of one are; B is BOOLEAN.
RowOf(B) == [version : Nat, gen : Nat, list : Lists, repeat : B,
             updated : Nat, completed : Nat, deleted : Nat]
IsRow(y, v, g, l, r, u, c, d) ==
  /\ y.version = v /\ y.gen = g /\ y.list = l /\ y.repeat = r
  /\ y.updated = u /\ y.completed = c /\ y.deleted = d

LEMMA RowOfIs ==
  ASSUME NEW B, NEW x \in RowOf(B)
  PROVE  /\ x.version \in Nat /\ x.gen \in Nat /\ x.list \in Lists /\ x.repeat \in B
         /\ x.updated \in Nat /\ x.completed \in Nat /\ x.deleted \in Nat
BY DEF RowOf

LEMMA WrittenIs ==
  ASSUME NEW B, NEW x \in RowOf(B), NEW n \in Nat
  PROVE  /\ Written(x, n) \in RowOf(B)
         /\ IsRow(Written(x, n), x.version + 1, x.gen, x.list, x.repeat, n, x.completed, x.deleted)
<1>1. Written(x, n) \in RowOf(B)
  <2>1. x.version + 1 \in Nat
    BY RowOfIs
  <2>2. \A v \in Nat : [x EXCEPT !.version = v, !.updated = n] \in RowOf(B)
    BY DEF RowOf
  <2> QED
    BY <2>1, <2>2, Zenon DEF Written
<1>2. IsRow(Written(x, n), x.version + 1, x.gen, x.list, x.repeat, n, x.completed, x.deleted)
  BY DEF Written, RowOf, IsRow
<1> QED
  BY <1>1, <1>2

LEMMA ListedIs ==
  ASSUME NEW B, NEW x \in RowOf(B), NEW l \in Lists
  PROVE  /\ [x EXCEPT !.list = l] \in RowOf(B)
         /\ IsRow([x EXCEPT !.list = l],
                  x.version, x.gen, l, x.repeat, x.updated, x.completed, x.deleted)
<1>1. [x EXCEPT !.list = l] \in RowOf(B)
  BY DEF RowOf
<1>2. IsRow([x EXCEPT !.list = l],
            x.version, x.gen, l, x.repeat, x.updated, x.completed, x.deleted)
  BY DEF RowOf, IsRow
<1> QED
  BY <1>1, <1>2

LEMMA EditedIs ==
  ASSUME NEW B, NEW x \in RowOf(B), NEW l \in Lists, NEW r \in B
  PROVE  /\ [x EXCEPT !.list = l, !.repeat = r] \in RowOf(B)
         /\ IsRow([x EXCEPT !.list = l, !.repeat = r],
                  x.version, x.gen, l, r, x.updated, x.completed, x.deleted)
<1>1. [x EXCEPT !.list = l, !.repeat = r] \in RowOf(B)
  BY DEF RowOf
<1>2. IsRow([x EXCEPT !.list = l, !.repeat = r],
            x.version, x.gen, l, r, x.updated, x.completed, x.deleted)
  BY DEF RowOf, IsRow
<1> QED
  BY <1>1, <1>2

LEMMA CompletedIs ==
  ASSUME NEW B, NEW x \in RowOf(B), NEW c \in Nat
  PROVE  /\ [x EXCEPT !.completed = c] \in RowOf(B)
         /\ IsRow([x EXCEPT !.completed = c],
                  x.version, x.gen, x.list, x.repeat, x.updated, c, x.deleted)
<1>1. [x EXCEPT !.completed = c] \in RowOf(B)
  BY DEF RowOf
<1>2. IsRow([x EXCEPT !.completed = c],
            x.version, x.gen, x.list, x.repeat, x.updated, c, x.deleted)
  BY DEF RowOf, IsRow
<1> QED
  BY <1>1, <1>2

LEMMA DeletedIs ==
  ASSUME NEW B, NEW x \in RowOf(B), NEW d \in Nat
  PROVE  /\ [x EXCEPT !.deleted = d] \in RowOf(B)
         /\ IsRow([x EXCEPT !.deleted = d],
                  x.version, x.gen, x.list, x.repeat, x.updated, x.completed, d)
<1>1. [x EXCEPT !.deleted = d] \in RowOf(B)
  BY DEF RowOf
<1>2. IsRow([x EXCEPT !.deleted = d],
            x.version, x.gen, x.list, x.repeat, x.updated, x.completed, d)
  BY DEF RowOf, IsRow
<1> QED
  BY <1>1, <1>2

\* A copy of x, made as version v.
Copy(x, v, n) ==
  [x EXCEPT !.version = v, !.gen = v, !.updated = n, !.completed = 0, !.deleted = 0]

LEMMA CopyIs ==
  ASSUME NEW B, NEW x \in RowOf(B), NEW v \in Nat, NEW n \in Nat
  PROVE  /\ Copy(x, v, n) \in RowOf(B)
         /\ IsRow(Copy(x, v, n), v, v, x.list, x.repeat, n, 0, 0)
<1>1. Copy(x, v, n) \in RowOf(B)
  BY DEF RowOf, Copy
<1>2. IsRow(Copy(x, v, n), v, v, x.list, x.repeat, n, 0, 0)
  BY DEF RowOf, IsRow, Copy
<1> QED
  BY <1>1, <1>2

LEMMA RowTypes ==
  ASSUME TodoAssumption
  PROVE  /\ Row \subseteq RowOf(BOOLEAN) /\ MaxOps \in Nat
         /\ \A x \in Row : x.version <= 4 * MaxOps /\ x.updated <= MaxOps
BY DEF Row, RowOf, TodoAssumption

-----------------------------------------------------------------------------
(* Names of rows. *)

LEMMA IdsAre ==
  ASSUME TodoAssumption
  PROVE  /\ \A i \in Ids : i[1] \in Occs /\ Task(i[1]) \in Ids /\ i \in Family(i[1])
         /\ \A i \in Ids : i[2] = "task" <=> i = Task(i[1])
         /\ \A k \in Occs : /\ Task(k) \in Ids /\ Task(k) \in Family(k) /\ Task(k) \notin StepsOf(k)
                            /\ Task(k)[1] = k /\ Task(k)[2] = "task" /\ k \in Nat
                            /\ Family(k) = {Task(k)} \cup StepsOf(k) /\ Family(k) \subseteq Ids
         /\ \A k \in Occs : \A i \in Family(k) : i[1] = k /\ i \in Ids
         /\ \A k \in Occs : \A s \in StepsOf(k) : s[1] = k /\ s[2] \in Steps /\ s[2] # "task"
         /\ \A j, k \in Occs : Task(j) = Task(k) => j = k
BY DEF TodoAssumption, Ids, Occs, Task, Family, StepsOf

LEMMA VisibleSame ==
  ASSUME NEW t, NEW u,
         \A i \in Ids : Alive(t, i) <=> Alive(u, i),
         \A i \in Ids : Alive(t, i) => /\ t[i].list = u[i].list /\ t[i].completed = u[i].completed
                                       /\ t[i].repeat = u[i].repeat
  PROVE  Visible(t) = Visible(u)
<1>1. ASSUME NEW i \in Ids
      PROVE  (IF Alive(t, i) THEN <<t[i].list, t[i].completed > 0, t[i].repeat>> ELSE <<>>)
               = (IF Alive(u, i) THEN <<u[i].list, u[i].completed > 0, u[i].repeat>> ELSE <<>>)
  <2>1. CASE Alive(t, i)
    BY <2>1, Zenon
  <2>2. CASE ~Alive(t, i)
    BY <2>2, Zenon
  <2> QED
    BY <2>1, <2>2
<1> QED
  BY <1>1, Zenon DEF Visible

-----------------------------------------------------------------------------
(* What each operation makes of the rows. *)

Rows == [Ids -> RowOf(BOOLEAN)]
IsRows(t) == t = [i \in Ids |-> t[i]]

\* A step's change is a version of its task; a task's is one already.
LEMMA WithTaskIs ==
  ASSUME TodoAssumption, NEW i \in Ids, NEW n, NEW x, IsRows(x), NEW u, u = WithTask(x, i, n)
  PROVE  /\ IsRows(u)
         /\ \A j \in Ids : j # Task(i[1]) => u[j] = x[j]
         /\ i = Task(i[1]) => u = x
         /\ i # Task(i[1]) => u[Task(i[1])] = Written(x[Task(i[1])], n)
<1>1. i[2] = "task" <=> i = Task(i[1])
  BY IdsAre
<1>2. /\ i = Task(i[1]) => u = x
      /\ i # Task(i[1]) => u = [x EXCEPT ![Task(i[1])] = Written(@, n)]
  BY <1>1, Zenon DEF WithTask
<1>3. Task(i[1]) \in Ids
  BY IdsAre
<1> QED
  BY <1>2, <1>3 DEF IsRows

SavedAs(t, i, l, r, n, u) ==
  /\ IsRows(u)
  /\ \A j \in Ids : j \notin Family(i[1]) => u[j] = t[j]
  /\ u[i] = Written([t[i] EXCEPT !.list = l, !.repeat = r], n)
  /\ i # Task(i[1]) => u[Task(i[1])] = Written(t[Task(i[1])], n)
  /\ \A j \in StepsOf(i[1]) : j # i /\ u[j] # t[j] =>
       Stored(t, j) /\ i = Task(i[1]) /\ u[j] = Written([t[j] EXCEPT !.list = l], n)

LEMMA SavedIs ==
  ASSUME TodoAssumption, NEW t \in Rows, NEW i \in Ids, NEW l \in Lists, NEW r \in BOOLEAN,
         NEW n \in Nat, NEW u, u = Saved(t, i, l, r, n)
  PROVE  SavedAs(t, i, l, r, n, u)
<1> DEFINE moved == IF i[2] = "task" /\ Stored(t, i) /\ t[i].list # l
                    THEN {s \in StepsOf(i[1]) : Stored(t, s)} ELSE {}
           w == [j \in Ids |-> IF j \in moved THEN Written([t[j] EXCEPT !.list = l], n) ELSE t[j]]
           x == [w EXCEPT ![i] = Written([@ EXCEPT !.list = l, !.repeat = r], n)]
<1>1. u = WithTask(x, i, n)
  BY DEF Saved, Cascade
<1>2. /\ IsRows(w) /\ IsRows(x) /\ x[i] = Written([t[i] EXCEPT !.list = l, !.repeat = r], n)
      /\ \A j \in Ids : j # i => x[j] = w[j]
      /\ \A j \in Ids : w[j] = IF j \in moved THEN Written([t[j] EXCEPT !.list = l], n) ELSE t[j]
  <2>1. i \notin moved /\ w[i] = t[i]
    BY IdsAre DEF Rows
  <2> QED
    BY <2>1 DEF IsRows
<1>3. \A j \in moved : j \in StepsOf(i[1]) /\ Stored(t, j) /\ i = Task(i[1])
  BY IdsAre
<1>4. i[1] \in Occs /\ Task(i[1]) \in Ids /\ i \in Family(i[1])
  BY IdsAre
<1>5. \A j \in Ids : j \notin Family(i[1]) => j \notin StepsOf(i[1]) /\ j # i /\ j # Task(i[1])
  BY <1>4, IdsAre
<1>6. \A j \in StepsOf(i[1]) : j \in Ids /\ j # Task(i[1])
  BY <1>4, IdsAre
<1> HIDE DEF moved, w, x
<1>7. /\ IsRows(u)
      /\ \A j \in Ids : j # Task(i[1]) => u[j] = x[j]
      /\ i = Task(i[1]) => u = x
      /\ i # Task(i[1]) => u[Task(i[1])] = Written(x[Task(i[1])], n)
  BY <1>1, <1>2, WithTaskIs
<1>8. \A j \in Ids : j \notin Family(i[1]) => u[j] = t[j]
  BY <1>2, <1>3, <1>5, <1>7
<1>9. u[i] = Written([t[i] EXCEPT !.list = l, !.repeat = r], n)
  BY <1>2, <1>7
<1>10. i # Task(i[1]) => u[Task(i[1])] = Written(t[Task(i[1])], n)
  <2>1. w[Task(i[1])] = t[Task(i[1])]
    BY <1>2, <1>3, <1>4, <1>6
  <2> QED
    BY <1>2, <1>4, <1>6, <1>7, <2>1
<1>11. ASSUME NEW j \in StepsOf(i[1]), j # i, u[j] # t[j]
       PROVE  Stored(t, j) /\ i = Task(i[1]) /\ u[j] = Written([t[j] EXCEPT !.list = l], n)
  BY <1>2, <1>3, <1>6, <1>7, <1>11
<1> QED
  BY <1>7, <1>8, <1>9, <1>10, <1>11 DEF SavedAs

ToggledAs(t, s, n, u) ==
  /\ IsRows(u)
  /\ \A j \in Ids : j # s /\ j # Task(s[1]) => u[j] = t[j]
  /\ u[s] = Written([t[s] EXCEPT !.completed = IF t[s].completed = 0 THEN n ELSE 0], n)
  /\ u[Task(s[1])] = Written(t[Task(s[1])], n)

LEMMA ToggledIs ==
  ASSUME TodoAssumption, NEW t \in Rows, NEW s \in Ids, s # Task(s[1]), NEW n \in Nat,
         NEW u, u = Toggled(t, s, n)
  PROVE  ToggledAs(t, s, n, u)
<1> DEFINE y == Written([t[s] EXCEPT !.completed = IF t[s].completed = 0 THEN n ELSE 0], n)
           x == [t EXCEPT ![s] = y]
<1>1. u = WithTask(x, s, n)
  BY DEF Toggled
<1>2. /\ IsRows(x) /\ \A j \in Ids : j # s => x[j] = t[j]
      /\ x[s] = Written([t[s] EXCEPT !.completed = IF t[s].completed = 0 THEN n ELSE 0], n)
  <2> HIDE DEF y
  <2>1. IsRows(x) /\ (\A j \in Ids : j # s => x[j] = t[j]) /\ x[s] = y
    BY DEF Rows, IsRows
  <2> QED
    BY <2>1 DEF y
<1> HIDE DEF x
<1>3. Task(s[1]) \in Ids
  BY IdsAre
<1> QED
  BY <1>1, <1>2, <1>3, WithTaskIs DEF ToggledAs

RemovedAs(t, i, n, u) ==
  /\ IsRows(u)
  /\ u[i] = Written([t[i] EXCEPT !.deleted = n], n)
  /\ \A j \in Ids : j \notin Family(i[1]) => u[j] = t[j]
  /\ \A j \in StepsOf(i[1]) : j # i =>
       u[j] = IF i = Task(i[1]) /\ Alive(t, j) THEN Written([t[j] EXCEPT !.deleted = n], n)
                                              ELSE t[j]
  /\ i # Task(i[1]) => u[Task(i[1])] = Written(t[Task(i[1])], n)

LEMMA RemovedIs ==
  ASSUME TodoAssumption, NEW t \in Rows, NEW i \in Ids, NEW n \in Nat, NEW u, u = Removed(t, i, n)
  PROVE  RemovedAs(t, i, n, u)
<1> DEFINE S == {i} \cup (IF i[2] = "task" THEN {s \in StepsOf(i[1]) : Alive(t, s)} ELSE {})
           x == [j \in Ids |-> IF j \in S THEN Written([t[j] EXCEPT !.deleted = n], n) ELSE t[j]]
<1>1. u = WithTask(x, i, n)
  BY DEF Removed, Cascade
<1>2. i[1] \in Occs /\ (i[2] = "task" <=> i = Task(i[1])) /\ i \in Family(i[1])
  BY IdsAre
<1>3. /\ i \in S /\ S \subseteq Family(i[1]) /\ (i # Task(i[1]) => S = {i})
      /\ \A j \in StepsOf(i[1]) : j # i => (j \in S <=> i = Task(i[1]) /\ Alive(t, j))
  BY <1>2, IdsAre
<1>4. \A j \in StepsOf(i[1]) : j \in Ids /\ j # Task(i[1])
  BY <1>2, IdsAre
<1>7. /\ IsRows(x) /\ n \in Nat /\ 0 \in Nat
      /\ \A j \in Ids : x[j] = IF j \in S THEN Written([t[j] EXCEPT !.deleted = n], n) ELSE t[j]
  BY DEF IsRows
<1> HIDE DEF S, x
<1>5. /\ IsRows(u)
      /\ \A j \in Ids : j # Task(i[1]) => u[j] = x[j]
      /\ i = Task(i[1]) => u = x
      /\ i # Task(i[1]) => u[Task(i[1])] = Written(x[Task(i[1])], n)
  BY <1>1, <1>7, WithTaskIs
<1>6. Task(i[1]) \in Family(i[1]) /\ Task(i[1]) \in Ids
  BY <1>2, IdsAre
<1>8. u[i] = x[i]
  BY <1>5
<1>9. i # Task(i[1]) => x[Task(i[1])] = t[Task(i[1])]
  BY <1>3, <1>6, <1>7
<1>10. u[i] = Written([t[i] EXCEPT !.deleted = n], n)
  BY <1>3, <1>7, <1>8
<1>11. \A j \in Ids : j \notin Family(i[1]) => u[j] = t[j]
  BY <1>3, <1>5, <1>6, <1>7
<1>12. i # Task(i[1]) => u[Task(i[1])] = Written(t[Task(i[1])], n)
  BY <1>5, <1>9
<1>13. \A j \in StepsOf(i[1]) : u[j] = x[j]
  BY <1>4, <1>5
<1> QED
  BY <1>3, <1>4, <1>5, <1>7, <1>10, <1>11, <1>12, <1>13 DEF RemovedAs

ReturnedAs(t, i, n, u) ==
  /\ IsRows(u)
  /\ u[i] = Written([t[i] EXCEPT !.deleted = 0], n)
  /\ \A j \in Ids : j \notin Family(i[1]) => u[j] = t[j]
  /\ \A j \in StepsOf(i[1]) : j # i =>
       u[j] = IF i = Task(i[1]) /\ t[j].deleted = t[i].deleted
              THEN Written([t[j] EXCEPT !.deleted = 0], n) ELSE t[j]
  /\ i # Task(i[1]) => u[Task(i[1])] = Written(t[Task(i[1])], n)

LEMMA ReturnedIs ==
  ASSUME TodoAssumption, NEW t \in Rows, NEW i \in Ids, NEW n \in Nat, NEW u, u = Returned(t, i, n)
  PROVE  ReturnedAs(t, i, n, u)
<1> DEFINE S == Restored(t, i)
           x == [j \in Ids |-> IF j \in S THEN Written([t[j] EXCEPT !.deleted = 0], n) ELSE t[j]]
<1>1. u = WithTask(x, i, n)
  BY DEF Returned, Cascade
<1>2. i[1] \in Occs /\ (i[2] = "task" <=> i = Task(i[1])) /\ i \in Family(i[1])
  BY IdsAre
<1>3. /\ i \in S /\ S \subseteq Family(i[1]) /\ (i # Task(i[1]) => S = {i})
      /\ \A j \in StepsOf(i[1]) : j # i => (j \in S <=> i = Task(i[1]) /\ t[j].deleted = t[i].deleted)
  BY <1>2, IdsAre DEF Restored
<1>4. \A j \in StepsOf(i[1]) : j \in Ids /\ j # Task(i[1])
  BY <1>2, IdsAre
<1>7. /\ IsRows(x) /\ n \in Nat /\ 0 \in Nat
      /\ \A j \in Ids : x[j] = IF j \in S THEN Written([t[j] EXCEPT !.deleted = 0], n) ELSE t[j]
  BY DEF IsRows
<1> HIDE DEF S, x
<1>5. /\ IsRows(u)
      /\ \A j \in Ids : j # Task(i[1]) => u[j] = x[j]
      /\ i = Task(i[1]) => u = x
      /\ i # Task(i[1]) => u[Task(i[1])] = Written(x[Task(i[1])], n)
  BY <1>1, <1>7, WithTaskIs
<1>6. Task(i[1]) \in Family(i[1]) /\ Task(i[1]) \in Ids
  BY <1>2, IdsAre
<1>8. u[i] = x[i]
  BY <1>5
<1>9. i # Task(i[1]) => x[Task(i[1])] = t[Task(i[1])]
  BY <1>3, <1>6, <1>7
<1>10. u[i] = Written([t[i] EXCEPT !.deleted = 0], n)
  BY <1>3, <1>7, <1>8
<1>11. \A j \in Ids : j \notin Family(i[1]) => u[j] = t[j]
  BY <1>3, <1>5, <1>6, <1>7
<1>12. i # Task(i[1]) => u[Task(i[1])] = Written(t[Task(i[1])], n)
  BY <1>5, <1>9
<1>13. \A j \in StepsOf(i[1]) : u[j] = x[j]
  BY <1>4, <1>5
<1> QED
  BY <1>3, <1>4, <1>5, <1>7, <1>10, <1>11, <1>12, <1>13 DEF ReturnedAs

\* The rows of other occurrences are other rows.
LEMMA FamiliesApart ==
  ASSUME TodoAssumption, NEW k \in Occs, NEW j \in Ids
  PROVE  /\ ~(j \in Family(k) /\ j \in Family(k + 1))
         /\ j \in Family(k + 1) => <<k, j[2]>> \in Family(k) /\ k + 1 \in Occs /\ j[1] = k + 1
         /\ (j = Task(k + 1) => <<k, j[2]>> = Task(k))
         /\ j \in StepsOf(k + 1) => <<k, j[2]>> \in StepsOf(k)
         /\ k + 1 \in Occs => Task(k + 1) \in Family(k + 1)
BY DEF TodoAssumption, Family, Occs, Ids, Task, StepsOf

FinishedAs(t, k, n, u) ==
  /\ IsRows(u)
  /\ u[Task(k)] = Written([t[Task(k)] EXCEPT !.completed = n], n)
  /\ \A j \in StepsOf(k) :
       u[j] = IF Ongoing(t, j) THEN Written([t[j] EXCEPT !.completed = n], n) ELSE t[j]
  /\ \A j \in Ids : j \notin Family(k) /\ u[j] # t[j] =>
       /\ t[Task(k)].repeat /\ j \in Family(k + 1)
       /\ j = Task(k + 1) \/ Alive(t, <<k, j[2]>>)
       /\ \E x \in RowOf(BOOLEAN) :
            u[j] = Copy(x, t[j].version + 1, n) /\ x.list = t[<<k, j[2]>>].list
  /\ t[Task(k)].repeat =>
       \E x \in RowOf(BOOLEAN) : u[Task(k + 1)] = Copy(x, t[Task(k + 1)].version + 1, n)

LEMMA FinishedIs ==
  ASSUME TodoAssumption, NEW t \in Rows, NEW k \in Occs, NEW n \in Nat,
         t[Task(k)].repeat => k + 1 \in Occs, NEW u, u = Finished(t, k, n)
  PROVE  FinishedAs(t, k, n, u)
<1> DEFINE w == [j \in Ids |-> IF j \in {s \in StepsOf(k) : Ongoing(t, s)}
                               THEN Written([t[j] EXCEPT !.completed = n], n) ELSE t[j]]
           v == IF t[Task(k)].repeat THEN Generated(w, k, n) ELSE w
           alive(j) == Alive(w, <<k, j[2]>>)
<1>1. u = [v EXCEPT ![Task(k)] = Written([@ EXCEPT !.completed = n], n)]
  BY DEF Finished, Cascade
<1>2. /\ Task(k) \in Ids /\ Task(k) \in Family(k) /\ Task(k) \notin StepsOf(k)
      /\ Family(k) = {Task(k)} \cup StepsOf(k) /\ Family(k) \subseteq Ids
  BY IdsAre
<1>3. /\ IsRows(w)
      /\ \A j \in Ids : w[j] = IF j \in StepsOf(k) /\ Ongoing(t, j)
                             THEN Written([t[j] EXCEPT !.completed = n], n) ELSE t[j]
  BY DEF IsRows
<1> HIDE DEF w
<1>4. \A j \in Ids : /\ w[j] \in RowOf(BOOLEAN) /\ w[j].list = t[j].list
                     /\ Alive(w, j) => Alive(t, j)
  <2>1. ASSUME NEW j \in Ids, j \in StepsOf(k), Ongoing(t, j)
        PROVE  /\ w[j] \in RowOf(BOOLEAN) /\ w[j].list = t[j].list
               /\ Alive(w, j) => Alive(t, j)
    <3>1. t[j] \in RowOf(BOOLEAN) /\ w[j] = Written([t[j] EXCEPT !.completed = n], n)
      BY <1>3, <2>1 DEF Rows
    <3>2. [t[j] EXCEPT !.completed = n] \in RowOf(BOOLEAN) /\ [t[j] EXCEPT !.completed = n].list = t[j].list
      BY <3>1, CompletedIs DEF IsRow
    <3> DEFINE z == [t[j] EXCEPT !.completed = n]
    <3> HIDE DEF z
    <3>3. Written(z, n) \in RowOf(BOOLEAN) /\ Written(z, n).list = z.list
      BY <3>2, WrittenIs DEF IsRow, z
    <3>4. Alive(t, j)
      BY <2>1 DEF Ongoing
    <3> QED
      BY <3>1, <3>2, <3>3, <3>4 DEF z
  <2>2. ASSUME NEW j \in Ids, ~(j \in StepsOf(k) /\ Ongoing(t, j))
        PROVE  /\ w[j] \in RowOf(BOOLEAN) /\ w[j].list = t[j].list
               /\ Alive(w, j) => Alive(t, j)
    BY <1>3, <2>2 DEF Rows, Alive, Stored
  <2> QED
    BY <2>1, <2>2
<1>5. /\ IsRows(v)
      /\ \A j \in Ids : j \notin Family(k + 1) \/ ~t[Task(k)].repeat => v[j] = w[j]
      /\ \A j \in Ids : v[j] # w[j] =>
           (j = Task(k + 1) \/ alive(j)) /\ v[j] = Copy(w[<<k, j[2]>>], w[j].version + 1, n)
      /\ t[Task(k)].repeat =>
           v[Task(k + 1)] = Copy(w[Task(k)], w[Task(k + 1)].version + 1, n)
  <2>1. CASE ~t[Task(k)].repeat
    BY <1>3, <2>1
  <2>2. CASE t[Task(k)].repeat
    <3> DEFINE copied == {s \in StepsOf(k + 1) : alive(s)}
    <3>1. v = [j \in Ids |-> IF j = Task(k + 1) \/ j \in copied
                             THEN Copy(w[<<k, j[2]>>], w[j].version + 1, n) ELSE w[j]]
      BY <2>2 DEF Generated, Copy
    <3>2. /\ Task(k + 1) \in Family(k + 1) /\ StepsOf(k + 1) \subseteq Family(k + 1)
          /\ <<k, Task(k + 1)[2]>> = Task(k) /\ Task(k + 1) \in Ids
      BY <2>2, IdsAre, FamiliesApart
    <3>3. \A j \in copied : alive(j) /\ j \in Family(k + 1)
      BY <3>2
    <3> HIDE DEF alive, copied, v
    <3> QED
      BY <2>2, <3>1, <3>2, <3>3 DEF IsRows
  <2> QED
    BY <2>1, <2>2
<1> HIDE DEF v
<1>6. v[Task(k)] = t[Task(k)]
  BY <1>2, <1>3, <1>5, FamiliesApart
<1>7. /\ IsRows(u) /\ u[Task(k)] = Written([t[Task(k)] EXCEPT !.completed = n], n)
      /\ \A j \in Ids : j # Task(k) => u[j] = v[j]
  BY <1>1, <1>2, <1>5, <1>6 DEF IsRows
<1>8. \A j \in StepsOf(k) :
        u[j] = IF Ongoing(t, j) THEN Written([t[j] EXCEPT !.completed = n], n) ELSE t[j]
  BY <1>2, <1>3, <1>5, <1>7, FamiliesApart
<1>9. \A j \in Ids : j \notin Family(k) => w[j] = t[j]
  BY <1>2, <1>3
<1>10. ASSUME NEW j \in Ids, j \notin Family(k), u[j] # t[j]
       PROVE  /\ t[Task(k)].repeat /\ j \in Family(k + 1)
              /\ j = Task(k + 1) \/ Alive(t, <<k, j[2]>>)
              /\ \E x \in RowOf(BOOLEAN) :
                   u[j] = Copy(x, t[j].version + 1, n) /\ x.list = t[<<k, j[2]>>].list
  <2>1. u[j] = v[j] /\ v[j] # w[j] /\ w[j] = t[j]
    BY <1>2, <1>7, <1>9, <1>10
  <2>2. t[Task(k)].repeat /\ j \in Family(k + 1)
    BY <1>5, <2>1
  <2>3. <<k, j[2]>> \in Ids
    BY <1>2, <2>2, FamiliesApart
  <2> QED
    BY <1>4, <1>5, <2>1, <2>2, <2>3
<1>11. ASSUME t[Task(k)].repeat
       PROVE  \E x \in RowOf(BOOLEAN) : u[Task(k + 1)] = Copy(x, t[Task(k + 1)].version + 1, n)
  <2>1. Task(k + 1) \in Ids /\ Task(k + 1) \notin Family(k)
    BY <1>11, IdsAre, FamiliesApart
  <2> QED
    BY <1>2, <1>4, <1>5, <1>7, <1>9, <1>11, <2>1
<1> QED
  BY <1>7, <1>8, <1>10, <1>11 DEF FinishedAs

\* Step j was completed with task k, and not changed since.
Mine(t, k, j) ==
  Alive(t, j) /\ t[j].completed = t[Task(k)].completed /\ t[j].updated = t[Task(k)].completed

ReopenedAs(t, k, n, u) ==
  /\ IsRows(u)
  /\ u[Task(k)] = Written([t[Task(k)] EXCEPT !.completed = 0], n)
  /\ \A j \in StepsOf(k) :
       u[j] = IF Mine(t, k, j) THEN Written([t[j] EXCEPT !.completed = 0], n) ELSE t[j]
  /\ \A j \in Ids : j \notin Family(k) =>
       u[j] = IF t[Task(k)].repeat /\ j \in Family(k + 1) /\ Stored(t, j)
              THEN Written([t[j] EXCEPT !.deleted = n], n) ELSE t[j]

LEMMA ReopenedIs ==
  ASSUME TodoAssumption, NEW t \in Rows, NEW k \in Occs, NEW n \in Nat,
         NEW u, u = Reopened(t, k, n)
  PROVE  ReopenedAs(t, k, n, u)
<1> DEFINE S == {s \in StepsOf(k) : Mine(t, k, s)} \cup {Task(k)}
           w == [j \in Ids |-> IF j \in {i \in Family(k + 1) : Stored(t, i)}
                               THEN Written([t[j] EXCEPT !.deleted = n], n) ELSE t[j]]
           v == IF t[Task(k)].repeat THEN w ELSE t
<1>1. u = [j \in Ids |-> IF j \in S THEN Written([v[j] EXCEPT !.completed = 0], n) ELSE v[j]]
  BY DEF Reopened, Cascade, Mine
<1>2. /\ Task(k) \in Ids /\ Task(k) \in Family(k) /\ Task(k) \notin StepsOf(k)
      /\ Family(k) = {Task(k)} \cup StepsOf(k) /\ Family(k) \subseteq Ids
  BY IdsAre
<1>3. \A j \in Ids : v[j] = IF t[Task(k)].repeat /\ j \in Family(k + 1) /\ Stored(t, j)
                           THEN Written([t[j] EXCEPT !.deleted = n], n) ELSE t[j]
  OBVIOUS
<1>4. /\ S \subseteq Family(k) /\ Task(k) \in S
      /\ \A j \in StepsOf(k) : j \in S <=> Mine(t, k, j)
  BY <1>2
<1> HIDE DEF S, v, w
<1>5. \A j \in Family(k) : v[j] = t[j]
  BY <1>2, <1>3, FamiliesApart
<1>6. /\ IsRows(u)
      /\ u[Task(k)] = Written([t[Task(k)] EXCEPT !.completed = 0], n)
      /\ \A j \in StepsOf(k) :
           u[j] = IF Mine(t, k, j) THEN Written([t[j] EXCEPT !.completed = 0], n) ELSE t[j]
  BY <1>1, <1>2, <1>4, <1>5 DEF IsRows
<1>7. \A j \in Ids : j \notin Family(k) =>
              u[j] = IF t[Task(k)].repeat /\ j \in Family(k + 1) /\ Stored(t, j)
                     THEN Written([t[j] EXCEPT !.deleted = n], n) ELSE t[j]
  BY <1>1, <1>3, <1>4
<1> QED
  BY <1>6, <1>7 DEF ReopenedAs

-----------------------------------------------------------------------------
(* A row that an operation writes at time n. *)

NewVersion(x, y, n) ==
  /\ y \in RowOf(BOOLEAN) /\ y.version = x.version + 1 /\ y.updated = n
  /\ y.completed \in {x.completed, 0, n} /\ y.deleted \in {x.deleted, 0, n}

\* The new version y of x, with these list, repeat, completed and deleted.
IsChange(x, y, n, l, r, c, d) ==
  /\ NewVersion(x, y, n) /\ y.gen = x.gen
  /\ y.list = l /\ y.repeat = r /\ y.completed = c /\ y.deleted = d

LEMMA Versions ==
  ASSUME NEW x \in RowOf(BOOLEAN), NEW n \in Nat
  PROVE  IsChange(x, Written(x, n), n, x.list, x.repeat, x.completed, x.deleted)
<1> DEFINE y == Written(x, n)
<1>1. /\ y \in RowOf(BOOLEAN)
      /\ IsRow(y, x.version + 1, x.gen, x.list, x.repeat, n, x.completed, x.deleted)
  BY WrittenIs, Zenon
<1> HIDE DEF y
<1>2. IsChange(x, y, n, x.list, x.repeat, x.completed, x.deleted)
  BY <1>1, Zenon DEF IsRow, IsChange, NewVersion
<1> QED
  BY <1>2 DEF y

LEMMA Edits ==
  ASSUME NEW x \in RowOf(BOOLEAN), NEW n \in Nat, NEW l \in Lists, NEW r \in BOOLEAN
  PROVE  IsChange(x, Written([x EXCEPT !.list = l, !.repeat = r], n), n, l, r, x.completed, x.deleted)
<1> DEFINE z == [x EXCEPT !.list = l, !.repeat = r]
           y == Written(z, n)
<1>1. /\ z \in RowOf(BOOLEAN)
      /\ IsRow(z, x.version, x.gen, l, r, x.updated, x.completed, x.deleted)
  BY EditedIs, ZenonT(60)
<1> HIDE DEF z
<1>2. /\ y \in RowOf(BOOLEAN)
      /\ IsRow(y, z.version + 1, z.gen, z.list, z.repeat, n, z.completed, z.deleted)
  BY <1>1, WrittenIs, Zenon
<1> HIDE DEF y
<1>3. IsChange(x, y, n, l, r, x.completed, x.deleted)
  BY <1>1, <1>2 DEF IsRow, IsChange, NewVersion
<1> QED
  BY <1>3 DEF y, z

LEMMA Moves ==
  ASSUME NEW x \in RowOf(BOOLEAN), NEW n \in Nat, NEW l \in Lists
  PROVE  IsChange(x, Written([x EXCEPT !.list = l], n), n, l, x.repeat, x.completed, x.deleted)
<1> DEFINE z == [x EXCEPT !.list = l]
           y == Written(z, n)
<1>1. /\ z \in RowOf(BOOLEAN)
      /\ IsRow(z, x.version, x.gen, l, x.repeat, x.updated, x.completed, x.deleted)
  BY ListedIs
<1> HIDE DEF z
<1>2. /\ y \in RowOf(BOOLEAN)
      /\ IsRow(y, z.version + 1, z.gen, z.list, z.repeat, n, z.completed, z.deleted)
  BY <1>1, WrittenIs, Zenon
<1> HIDE DEF y
<1>3. IsChange(x, y, n, l, x.repeat, x.completed, x.deleted)
  BY <1>1, <1>2 DEF IsRow, IsChange, NewVersion
<1> QED
  BY <1>3 DEF y, z

LEMMA Finishes ==
  ASSUME NEW x \in RowOf(BOOLEAN), NEW n \in Nat, NEW c \in {0, n}, c \in Nat
  PROVE  IsChange(x, Written([x EXCEPT !.completed = c], n), n, x.list, x.repeat, c, x.deleted)
<1> DEFINE z == [x EXCEPT !.completed = c]
           y == Written(z, n)
<1>1. /\ z \in RowOf(BOOLEAN)
      /\ IsRow(z, x.version, x.gen, x.list, x.repeat, x.updated, c, x.deleted)
  BY CompletedIs
<1> HIDE DEF z
<1>2. /\ y \in RowOf(BOOLEAN)
      /\ IsRow(y, z.version + 1, z.gen, z.list, z.repeat, n, z.completed, z.deleted)
  BY <1>1, WrittenIs, Zenon
<1> HIDE DEF y
<1>3. IsChange(x, y, n, x.list, x.repeat, c, x.deleted)
  BY <1>1, <1>2 DEF IsRow, IsChange, NewVersion
<1> QED
  BY <1>3 DEF y, z

LEMMA Marks ==
  ASSUME NEW x \in RowOf(BOOLEAN), NEW n \in Nat, NEW d \in {0, n}, d \in Nat
  PROVE  IsChange(x, Written([x EXCEPT !.deleted = d], n), n, x.list, x.repeat, x.completed, d)
<1> DEFINE z == [x EXCEPT !.deleted = d]
           y == Written(z, n)
<1>1. /\ z \in RowOf(BOOLEAN)
      /\ IsRow(z, x.version, x.gen, x.list, x.repeat, x.updated, x.completed, d)
  BY DeletedIs
<1> HIDE DEF z
<1>2. /\ y \in RowOf(BOOLEAN)
      /\ IsRow(y, z.version + 1, z.gen, z.list, z.repeat, n, z.completed, z.deleted)
  BY <1>1, WrittenIs, Zenon
<1> HIDE DEF y
<1>3. IsChange(x, y, n, x.list, x.repeat, x.completed, d)
  BY <1>1, <1>2 DEF IsRow, IsChange, NewVersion
<1> QED
  BY <1>3 DEF y, z

LEMMA CopiedIs ==
  ASSUME NEW x \in RowOf(BOOLEAN), NEW z \in RowOf(BOOLEAN), NEW n \in Nat,
         NEW y, y = Copy(z, x.version + 1, n)
  PROVE  /\ NewVersion(x, y, n) /\ y.gen = y.version /\ y.list = z.list
         /\ y.completed = 0 /\ y.deleted = 0
<1>1. x.version + 1 \in Nat
  BY RowOfIs
<1>2. y \in RowOf(BOOLEAN) /\ IsRow(y, x.version + 1, x.version + 1, z.list, z.repeat, n, 0, 0)
  BY <1>1, CopyIs
<1> QED
  BY <1>2, Zenon DEF IsRow, NewVersion

-----------------------------------------------------------------------------
(* What an operation's rows have to satisfy for the invariant to be kept. *)

LEMMA StateIs ==
  ASSUME TodoAssumption, OperationsTypeOK, RowsSound
  PROVE  /\ task \in Rows /\ time \in Nat /\ MaxOps \in Nat /\ time + 1 \in Nat
         /\ \A i \in Ids : /\ task[i] \in RowOf(BOOLEAN) /\ task[i].version <= time
                           /\ task[i].updated <= time /\ task[i].gen <= task[i].version
                           /\ task[i].completed <= task[i].updated
                           /\ task[i].deleted <= task[i].updated
                           /\ task[i].version = 0 => task[i].deleted = 0
<1>1. task \in [Ids -> Row] /\ Row \subseteq RowOf(BOOLEAN)
  BY RowTypes DEF OperationsTypeOK
<1>2. task \in Rows /\ \A i \in Ids : task[i] \in RowOf(BOOLEAN)
  BY <1>1 DEF Rows
<1>3. time \in Nat /\ MaxOps \in Nat /\ time + 1 \in Nat
  BY RowTypes DEF OperationsTypeOK
<1>4. \A i \in Ids : task[i].deleted \in Nat
  BY <1>2, RowOfIs
<1> QED
  BY <1>2, <1>3, <1>4 DEF OperationsTypeOK, RowsSound

\* Every row is as it was, or a new version of it.
Changes(u, n) ==
  /\ IsRows(u)
  /\ \A j \in Ids : u[j] # task[j] =>
       NewVersion(task[j], u[j], n) /\ u[j].gen \in {task[j].gen, u[j].version}

\* A row that differs from what was generated, or is as it was with its task.
Worn(j) == NewVersion(task[j], task'[j], time + 1) /\ task'[j].gen = task[j].gen
StillWorn(j) == j \in touched /\ task'[j] = task[j] /\ task'[Task(j[1])] = task[Task(j[1])]

Versioned == \A i \in Ids : task'[i] # task[i] => task'[i].version > task[i].version

LEMMA ChangeIsSound ==
  ASSUME TodoAssumption, OperationsTypeOK, RowsSound, time < MaxOps, time' = time + 1,
         Changes(task', time + 1), touched' \subseteq Ids,
         lists' \in [Lists -> {"new", "live", "deleted"}], lists'["inbox"] = "live"
  PROVE  OperationsTypeOK' /\ RowsSound' /\ Versioned
<1>1. /\ task \in Rows /\ time \in Nat /\ MaxOps \in Nat
      /\ \A i \in Ids : /\ task[i] \in RowOf(BOOLEAN) /\ task[i].version <= time
                        /\ task[i].updated <= time /\ task[i].gen <= task[i].version
                        /\ task[i].completed <= task[i].updated
                        /\ task[i].deleted <= task[i].updated
                        /\ task[i].version = 0 => task[i].updated = 0
  BY StateIs DEF RowsSound
<1>2. ASSUME NEW i \in Ids
      PROVE  /\ task'[i] \in RowOf(BOOLEAN) /\ task'[i].version <= time + 1
             /\ task'[i].updated <= time + 1 /\ task'[i].gen <= task'[i].version
             /\ task'[i].completed <= task'[i].updated
             /\ task'[i].deleted <= task'[i].updated
             /\ task'[i].version = 0 => task'[i].updated = 0
             /\ task'[i] # task[i] => task'[i].version > task[i].version
  <2> DEFINE x == task[i]
             y == task'[i]
  <2>1. x \in RowOf(BOOLEAN)
    BY <1>1
  <2>2. /\ x.version \in Nat /\ x.gen \in Nat /\ x.updated \in Nat
        /\ x.completed \in Nat /\ x.deleted \in Nat
    BY <2>1, RowOfIs, Zenon
  <2>3. /\ x.version <= time /\ x.updated <= time /\ x.gen <= x.version
        /\ x.completed <= x.updated /\ x.deleted <= x.updated
        /\ x.version = 0 => x.updated = 0
    BY <1>1
  <2>4. CASE task'[i] = task[i]
    <3>1. y = x
      BY <2>4
    <3> HIDE DEF x, y
    <3>2. /\ y \in RowOf(BOOLEAN) /\ y.version <= time + 1 /\ y.updated <= time + 1
          /\ y.gen <= y.version /\ y.completed <= y.updated /\ y.deleted <= y.updated
          /\ y.version = 0 => y.updated = 0
      BY <1>1, <2>2, <2>1, <2>3, <3>1
    <3> QED
      BY <2>4, <3>2 DEF y
  <2>5. CASE task'[i] # task[i]
    <3>1. NewVersion(x, y, time + 1) /\ y.gen \in {x.gen, y.version}
      BY <2>5 DEF Changes
    <3> HIDE DEF x, y
    <3>2. y \in RowOf(BOOLEAN) /\ y.version = x.version + 1 /\ y.updated = time + 1
      BY <3>1 DEF NewVersion
    <3>3. y.completed \in {x.completed, 0, time + 1} /\ y.deleted \in {x.deleted, 0, time + 1}
      BY <3>1 DEF NewVersion
    <3>4. /\ y.version <= time + 1 /\ y.updated <= time + 1 /\ y.gen <= y.version
          /\ y.completed <= y.updated /\ y.deleted <= y.updated
          /\ y.version # 0 /\ y.version > x.version
      BY <1>1, <2>2, <2>3, <3>1, <3>2, <3>3
    <3> QED
      BY <3>2, <3>4 DEF x, y
  <2> QED
    BY <2>4, <2>5
<1>3. ASSUME NEW i \in Ids
      PROVE  task'[i] \in Row
  <2>1. /\ task'[i].version \in Nat /\ task'[i].gen \in Nat /\ task'[i].updated \in Nat
        /\ task'[i].completed \in Nat /\ task'[i].deleted \in Nat
    BY <1>2, RowOfIs
  <2>2. /\ task'[i].version \in 0..(4 * MaxOps) /\ task'[i].gen \in 0..(4 * MaxOps)
        /\ task'[i].updated \in 0..MaxOps /\ task'[i].completed \in 0..MaxOps
        /\ task'[i].deleted \in 0..MaxOps
    BY <1>1, <1>2, <2>1
  <2> QED
    BY <1>2, <2>2 DEF Row, RowOf
<1>4. task' \in [Ids -> Row]
  BY <1>3 DEF Changes, IsRows
<1>5. time' \in 0..MaxOps
  BY <1>1
<1>6. OperationsTypeOK'
  BY <1>2, <1>4, <1>5 DEF OperationsTypeOK
<1>7. RowsSound' /\ Versioned
  BY <1>2 DEF RowsSound, Versioned
<1> QED
  BY <1>6, <1>7

LEMMA WornIsTouched ==
  ASSUME TodoAssumption, OperationsTypeOK, RowsSound, TouchedSound, touched' \subseteq Ids,
         \A j \in touched' : Stored(task', j) => Worn(j) \/ Worn(Task(j[1])) \/ StillWorn(j)
  PROVE  TouchedSound'
<1>1. ASSUME NEW j \in Ids, Worn(j)
      PROVE  ~Untouched(j)'
  <2>1. task[j] \in RowOf(BOOLEAN) /\ task[j].gen <= task[j].version
    BY StateIs, Zenon
  <2>2. task[j].version \in Nat /\ task[j].gen \in Nat
    BY <2>1, RowOfIs
  <2>3. task'[j].version = task[j].version + 1 /\ task'[j].gen = task[j].gen
    BY <1>1 DEF Worn, NewVersion
  <2> QED
    BY <2>1, <2>2, <2>3 DEF Untouched
<1>2. ASSUME NEW j \in touched', Stored(task', j), StillWorn(j)
      PROVE  (~Untouched(j) \/ ~Untouched(Task(j[1])))'
  BY <1>2 DEF StillWorn, TouchedSound, Untouched, Stored
<1>3. \A j \in Ids : Task(j[1]) \in Ids
  BY IdsAre
<1> QED
  BY <1>1, <1>2, <1>3 DEF TouchedSound

-----------------------------------------------------------------------------
(* Every operation keeps the invariant. *)

\* The step of UndoKeepsChanges.
Kept ==
  \A k \in Occs : \A i \in Family(k) :
    /\ task[Task(k)].completed = 0 /\ Alive(task, i) /\ ~Alive(task', i)
    /\ k > 0 /\ task[Task(k - 1)].completed > 0 /\ task'[Task(k - 1)].completed = 0
    => i \notin touched

SafeStep == OperationsInvariant' /\ Versioned /\ Kept

LEMMA StepIsSafe ==
  ASSUME TodoAssumption, OperationsInvariant, time < MaxOps, time' = time + 1,
         Changes(task', time + 1), touched' \subseteq Ids,
         lists' \in [Lists -> {"new", "live", "deleted"}], lists'["inbox"] = "live",
         \A j \in touched' : Stored(task', j) => Worn(j) \/ Worn(Task(j[1])) \/ StillWorn(j),
         StepsFollowTask', ListsAreLive', UndoReady', Kept
  PROVE  SafeStep
<1>1. OperationsTypeOK /\ RowsSound /\ TouchedSound
  BY DEF OperationsInvariant
<1>2. OperationsTypeOK' /\ RowsSound' /\ Versioned
  BY <1>1, ChangeIsSound
<1>3. TouchedSound'
  BY <1>1, WornIsTouched
<1> QED
  BY <1>2, <1>3 DEF SafeStep, OperationsInvariant

LEMMA KeptIf ==
  /\ (\A j \in Ids : Alive(task, j) => Alive(task', j)) => Kept
  /\ TodoAssumption /\ (\A k \in Occs : task'[Task(k)].completed = task[Task(k)].completed) => Kept
<1>1. ASSUME TodoAssumption, NEW k \in Occs, k > 0
      PROVE  k - 1 \in Occs
  BY <1>1 DEF Occs, TodoAssumption
<1>2. \A k \in Occs : Family(k) \subseteq Ids
  BY DEF Family, Ids
<1>3. ASSUME \A j \in Ids : Alive(task, j) => Alive(task', j)
      PROVE  Kept
  BY <1>2, <1>3 DEF Kept
<1>4. ASSUME TodoAssumption, \A k \in Occs : task'[Task(k)].completed = task[Task(k)].completed
      PROVE  Kept
  <2>1. ASSUME NEW k \in Occs, k > 0, task[Task(k - 1)].completed > 0,
               task'[Task(k - 1)].completed = 0
        PROVE  FALSE
    BY <1>1, <1>4, <2>1
  <2> QED
    BY <2>1 DEF Kept
<1> QED
  BY <1>3, <1>4

LEMMA SaveIsSafe ==
  ASSUME TodoAssumption, OperationsInvariant,
         NEW i \in Ids, NEW l \in Lists, NEW r \in BOOLEAN, Save(i, l, r)
  PROVE  SafeStep
<1> DEFINE n == time + 1
           u == task'
           root == Task(i[1])
<1>1. /\ OperationsTypeOK /\ StepsFollowTask /\ ListsAreLive /\ RowsSound
      /\ task \in Rows /\ n \in Nat
      /\ \A j \in Ids : task[j] \in RowOf(BOOLEAN)
      /\ \A j \in Ids : task[j].version \in Nat
      /\ \A j \in Ids : task[j].version = 0 => task[j].deleted = 0
  BY StateIs, RowOfIs DEF OperationsInvariant
<1>2. /\ time < MaxOps /\ time' = n /\ u = Saved(task, i, l, r, n)
      /\ touched' = touched \cup Family(i[1]) /\ shadow' = <<>> /\ lists' = lists
      /\ MayCreate(i) \/ Alive(task, i)
      /\ lists[l] = "live" /\ StepAllowed(i, l)
  BY DEF Save, Apply
<1>3. /\ root \in Ids /\ i[1] \in Occs /\ root \in Family(i[1]) /\ i \in Family(i[1])
      /\ Family(i[1]) = {root} \cup StepsOf(i[1]) /\ Family(i[1]) \subseteq Ids
      /\ \A j \in Family(i[1]) : j[1] = i[1]
      /\ \A j \in Ids : j[1] \in Occs /\ Task(j[1]) \in Ids /\ j \in Family(j[1])
      /\ \A j \in Ids : Task(j[1]) \in Family(i[1]) => j \in Family(i[1])
  BY IdsAre
<1>4. /\ IsRows(u)
      /\ \A j \in Ids : j \notin Family(i[1]) => u[j] = task[j]
      /\ u[i] = Written([task[i] EXCEPT !.list = l, !.repeat = r], n)
      /\ i # root => u[root] = Written(task[root], n)
      /\ \A j \in StepsOf(i[1]) : j # i /\ u[j] # task[j] =>
           Stored(task, j) /\ i = root /\ u[j] = Written([task[j] EXCEPT !.list = l], n)
  <2> HIDE DEF u, n
  <2> QED
    <3>1. task \in Rows /\ n \in Nat /\ u = Saved(task, i, l, r, n)
      BY <1>1, <1>2
    <3>2. SavedAs(task, i, l, r, n, u)
      BY <3>1, SavedIs
    <3> QED
      BY <3>2 DEF SavedAs
<1>5. /\ NewVersion(task[i], u[i], n) /\ u[i].gen = task[i].gen /\ u[i].list = l
      /\ u[i].deleted = task[i].deleted
  <2>1. IsChange(task[i], Written([task[i] EXCEPT !.list = l, !.repeat = r], n), n,
                 l, r, task[i].completed, task[i].deleted)
    BY <1>1, Edits, Zenon
  <2> HIDE DEF u, n
  <2> QED
    BY <1>4, <2>1 DEF IsChange
<1>6. i # root => /\ NewVersion(task[root], u[root], n) /\ u[root].gen = task[root].gen
                  /\ u[root].list = task[root].list /\ u[root].deleted = task[root].deleted
  BY <1>1, <1>3, <1>4, Versions DEF IsChange
<1>7. \A j \in StepsOf(i[1]) : j # i /\ u[j] # task[j] =>
        /\ Stored(task, j) /\ NewVersion(task[j], u[j], n) /\ u[j].gen = task[j].gen
        /\ u[j].list = l /\ u[j].deleted = task[j].deleted
  <2>1. ASSUME NEW j \in Ids
        PROVE  IsChange(task[j], Written([task[j] EXCEPT !.list = l], n), n,
                        l, task[j].repeat, task[j].completed, task[j].deleted)
    BY <1>1, Moves, Zenon
  <2> HIDE DEF u, n
  <2> QED
    BY <1>3, <1>4, <2>1, ZenonT(60) DEF IsChange
<1> HIDE DEF u, n
<1>8. \A j \in Ids :
        /\ u[j].deleted = task[j].deleted /\ u[j].gen = task[j].gen
        /\ u[j] = task[j] \/ (j \in Family(i[1]) /\ NewVersion(task[j], u[j], n))
  BY <1>3, <1>4, <1>5, <1>6, <1>7
<1>9. Changes(u, n)
  BY <1>4, <1>8 DEF Changes
<1>10. Worn(root)
  BY <1>5, <1>6 DEF Worn, u, n
<1>11. touched' \subseteq Ids
  BY <1>1, <1>2, <1>3 DEF OperationsTypeOK
<1>12. ASSUME NEW j \in touched'
       PROVE  Worn(j) \/ Worn(Task(j[1])) \/ StillWorn(j)
  <2>1. CASE j \in Family(i[1])
    BY <1>3, <1>10, <2>1
  <2>2. CASE j \notin Family(i[1])
    BY <1>2, <1>3, <1>4, <1>11, <2>2 DEF StillWorn, u
  <2> QED
    BY <2>1, <2>2
<1>13. Alive(u, root)
  <2>1. Stored(u, root)
    BY <1>1, <1>3, <1>5, <1>6 DEF Stored, NewVersion
  <2>2. task[root].deleted = 0
    BY <1>1, <1>2, <1>3, IdsAre DEF MayCreate, StepAllowed, Alive, Ongoing, Stored
  <2> QED
    BY <1>3, <1>8, <2>1, <2>2 DEF Alive
<1>14. StepsFollowTask'
  <2>1. ASSUME NEW j \in Ids, Alive(u, j)
        PROVE  Alive(u, Task(j[1]))
    <3>1. CASE j \in Family(i[1])
      BY <1>3, <1>13, <3>1
    <3>2. CASE j \notin Family(i[1])
      BY <1>1, <1>3, <1>4, <2>1, <3>2 DEF StepsFollowTask, Alive, Stored
    <3> QED
      BY <3>1, <3>2
  <2> QED
    BY <2>1 DEF StepsFollowTask, u
<1>15. ListsAreLive'
  <2>1. ASSUME NEW j \in Ids, Stored(u, j)
        PROVE  lists[u[j].list] = "live"
    <3>1. CASE u[j].list = l
      BY <1>2, <3>1
    <3>2. CASE u[j].list # l
      <4>1. u[j].list = task[j].list /\ Stored(task, j)
        BY <1>2, <1>3, <1>4, <1>5, <1>6, <1>7, <2>1, <3>2, IdsAre
        DEF StepAllowed, Alive, Ongoing, Stored
      <4> QED
        BY <1>1, <4>1 DEF ListsAreLive
    <3> QED
      BY <3>1, <3>2
  <2> QED
    BY <1>2, <2>1 DEF ListsAreLive, u
<1>16. Kept
  <2>1. ASSUME NEW j \in Ids, Alive(task, j)
        PROVE  Alive(task', j)
    BY <1>1, <1>8, <2>1 DEF Alive, Stored, NewVersion, u
  <2> QED
    BY <2>1, KeptIf
<1>17. UndoReady'
  BY <1>2 DEF UndoReady
<1> QED
  BY <1>1, <1>2, <1>9, <1>11, <1>12, <1>14, <1>15, <1>16, <1>17, StepIsSafe
  DEF OperationsTypeOK, RowsSound, u, n

LEMMA ToggleIsSafe ==
  ASSUME TodoAssumption, OperationsInvariant, NEW s \in Ids, ToggleStep(s)
  PROVE  SafeStep
<1> DEFINE n == time + 1
           u == task'
           root == Task(s[1])
           c == IF task[s].completed = 0 THEN n ELSE 0
<1>1. /\ OperationsTypeOK /\ StepsFollowTask /\ ListsAreLive /\ RowsSound
      /\ task \in Rows /\ n \in Nat /\ c \in {0, n} /\ c \in Nat
      /\ \A j \in Ids : task[j] \in RowOf(BOOLEAN)
      /\ \A j \in Ids : task[j].version \in Nat
  BY StateIs, RowOfIs DEF OperationsInvariant
<1>2. /\ time < MaxOps /\ time' = n /\ u = Toggled(task, s, n)
      /\ touched' = touched \cup Family(s[1]) /\ shadow' = <<>> /\ lists' = lists
      /\ s[2] # "task" /\ Alive(task, s)
  BY DEF ToggleStep, Apply
<1>3. /\ root \in Ids /\ s[1] \in Occs /\ root \in Family(s[1]) /\ s \in Family(s[1])
      /\ Family(s[1]) = {root} \cup StepsOf(s[1]) /\ Family(s[1]) \subseteq Ids
      /\ \A j \in Family(s[1]) : j[1] = s[1]
      /\ \A j \in Ids : j[1] \in Occs /\ Task(j[1]) \in Ids /\ j \in Family(j[1])
      /\ s # root
  BY <1>2, IdsAre
<1> HIDE DEF u, n, c
<1>4. ToggledAs(task, s, n, u)
  BY <1>1, <1>2, <1>3, ToggledIs DEF root
<1>5. IsChange(task[s], u[s], n, task[s].list, task[s].repeat, c, task[s].deleted)
  <2>1. IsChange(task[s], Written([task[s] EXCEPT !.completed = c], n), n,
                 task[s].list, task[s].repeat, c, task[s].deleted)
    BY <1>1, Finishes, Zenon
  <2> QED
    BY <1>4, <2>1, Zenon DEF ToggledAs, c
<1>6. IsChange(task[root], u[root], n, task[root].list, task[root].repeat,
               task[root].completed, task[root].deleted)
  BY <1>1, <1>3, <1>4, Versions DEF ToggledAs
<1>7. \A j \in Ids : j # s /\ j # root => u[j] = task[j]
  BY <1>4 DEF ToggledAs
<1>8. \A j \in Ids :
        /\ u[j].deleted = task[j].deleted /\ u[j].gen = task[j].gen /\ u[j].list = task[j].list
        /\ u[j] = task[j] \/ (j \in {s, root} /\ NewVersion(task[j], u[j], n))
  BY <1>5, <1>6, <1>7 DEF IsChange
<1>9. Changes(u, n)
  BY <1>4, <1>8 DEF Changes, ToggledAs
<1>10. Worn(root)
  BY <1>6 DEF Worn, u, n, IsChange
<1>11. touched' \subseteq Ids
  BY <1>1, <1>2, <1>3 DEF OperationsTypeOK
<1>12. ASSUME NEW j \in touched'
       PROVE  Worn(j) \/ Worn(Task(j[1])) \/ StillWorn(j)
  <2>1. CASE j[1] = s[1]
    BY <1>10, <2>1
  <2>2. CASE j[1] # s[1]
    <3>1. j \in Ids /\ j \in touched
      BY <1>2, <1>3, <1>11, <2>2
    <3>2. j # s /\ j # root /\ Task(j[1]) # s /\ Task(j[1]) # root
      BY <1>2, <1>3, <2>2, <3>1, IdsAre
    <3> QED
      BY <1>3, <1>7, <3>1, <3>2 DEF StillWorn, u
  <2> QED
    BY <2>1, <2>2
<1>13. \A j \in Ids : /\ Stored(task, j) <=> Stored(u, j)
                      /\ Alive(task, j) <=> Alive(u, j)
  <2>1. ASSUME NEW j \in Ids
        PROVE  Stored(task, j) <=> Stored(u, j)
    <3>1. CASE u[j] = task[j]
      BY <3>1 DEF Stored
    <3>2. CASE j \in {s, root}
      <4>1. Alive(task, root)
        BY <1>1, <1>2 DEF StepsFollowTask
      <4>2. Stored(task, j) /\ u[j].version = task[j].version + 1
        BY <1>2, <1>5, <1>6, <3>2, <4>1 DEF Alive, IsChange, NewVersion
      <4> QED
        BY <1>1, <1>3, <3>2, <4>2 DEF Stored
    <3> QED
      BY <1>8, <3>1, <3>2
  <2> QED
    BY <1>8, <2>1 DEF Alive
<1>14. StepsFollowTask'
  BY <1>1, <1>3, <1>13 DEF StepsFollowTask, u
<1>15. ListsAreLive'
  <2>1. \A j \in Ids : Stored(u, j) => lists[u[j].list] = "live"
    BY <1>1, <1>8, <1>13 DEF ListsAreLive
  <2> QED
    BY <1>2, <2>1 DEF ListsAreLive, u
<1>16. Kept
  BY <1>13, KeptIf DEF u
<1>17. UndoReady'
  BY <1>2 DEF UndoReady
<1> QED
  BY <1>1, <1>2, <1>9, <1>11, <1>12, <1>14, <1>15, <1>16, <1>17, StepIsSafe
  DEF OperationsTypeOK, RowsSound, u, n

LEMMA DeleteListIsSafe ==
  ASSUME TodoAssumption, OperationsInvariant, NEW l \in Lists, DeleteList(l)
  PROVE  SafeStep
<1> DEFINE n == time + 1
           u == task'
<1>1. /\ OperationsTypeOK /\ StepsFollowTask /\ ListsAreLive /\ RowsSound
      /\ task \in Rows /\ n \in Nat /\ "inbox" \in Lists
      /\ \A j \in Ids : task[j] \in RowOf(BOOLEAN)
      /\ \A j \in Ids : task[j].version \in Nat
      /\ lists \in [Lists -> {"new", "live", "deleted"}] /\ lists["inbox"] = "live"
  BY StateIs, RowOfIs DEF OperationsInvariant, OperationsTypeOK, RowsSound, Lists
<1>2. /\ time < MaxOps /\ time' = n
      /\ u = [j \in Ids |-> IF j \in Emptied(l) THEN Written([task[j] EXCEPT !.list = "inbox"], n)
                            ELSE task[j]]
      /\ touched' = touched \cup Emptied(l) /\ shadow' = <<>>
      /\ lists' = [lists EXCEPT ![l] = "deleted"] /\ l # "inbox"
  BY DEF DeleteList, Apply, Cascade
<1>3. /\ lists' \in [Lists -> {"new", "live", "deleted"}] /\ lists'["inbox"] = "live"
      /\ \A m \in Lists : m # l /\ lists[m] = "live" => lists'[m] = "live"
  BY <1>1, <1>2
<1> HIDE DEF u, n
<1>4. /\ IsRows(u)
      /\ \A j \in Ids : u[j] = IF j \in Emptied(l) THEN Written([task[j] EXCEPT !.list = "inbox"], n)
                               ELSE task[j]
  BY <1>2 DEF IsRows
<1>5. ASSUME NEW j \in Ids, j \in Emptied(l)
      PROVE  IsChange(task[j], u[j], n, "inbox", task[j].repeat, task[j].completed, task[j].deleted)
  <2>1. IsChange(task[j], Written([task[j] EXCEPT !.list = "inbox"], n), n,
                 "inbox", task[j].repeat, task[j].completed, task[j].deleted)
    BY <1>1, Moves, Zenon
  <2> QED
    BY <1>4, <1>5, <2>1, Zenon
<1>6. \A j \in Ids :
        /\ u[j].deleted = task[j].deleted /\ u[j].gen = task[j].gen
        /\ j \notin Emptied(l) => u[j] = task[j]
        /\ j \in Emptied(l) => NewVersion(task[j], u[j], n) /\ u[j].list = "inbox"
  BY <1>4, <1>5 DEF IsChange
<1>7. Changes(u, n)
  BY <1>4, <1>6 DEF Changes
<1>8. \A j \in Emptied(l) : Worn(j) /\ j \in Ids
  BY <1>6 DEF Worn, u, n, Emptied
<1>9. touched' \subseteq Ids
  BY <1>1, <1>2, <1>8 DEF OperationsTypeOK
<1>10. ASSUME NEW j \in touched'
       PROVE  Worn(j) \/ Worn(Task(j[1])) \/ StillWorn(j)
  <2>1. j \in Ids /\ Task(j[1]) \in Ids
    BY <1>9, IdsAre
  <2> QED
    BY <1>2, <1>6, <1>8, <2>1 DEF StillWorn, u
<1>11. \A j \in Ids : /\ Stored(task, j) <=> Stored(u, j)
                      /\ Alive(task, j) <=> Alive(u, j)
  <2>1. ASSUME NEW j \in Ids
        PROVE  Stored(task, j) <=> Stored(u, j)
    <3>1. CASE j \notin Emptied(l)
      BY <1>6, <3>1 DEF Stored
    <3>2. CASE j \in Emptied(l)
      <4>1. Stored(task, j) /\ u[j].version = task[j].version + 1
        BY <1>6, <3>2 DEF Emptied, NewVersion
      <4> QED
        BY <1>1, <4>1 DEF Stored
    <3> QED
      BY <3>1, <3>2
  <2> QED
    BY <1>6, <2>1 DEF Alive
<1>12. StepsFollowTask'
  BY <1>1, <1>11, IdsAre DEF StepsFollowTask, u
<1>13. ListsAreLive'
  <2>1. ASSUME NEW j \in Ids, Stored(u, j)
        PROVE  lists'[u[j].list] = "live"
    <3>1. CASE j \in Emptied(l)
      BY <1>3, <1>6, <3>1
    <3>2. CASE j \notin Emptied(l)
      <4>1. u[j] = task[j] /\ Stored(task, j) /\ task[j].list # l /\ task[j].list \in Lists
        BY <1>1, <1>6, <1>11, <2>1, <3>2, RowOfIs DEF Emptied
      <4> QED
        BY <1>1, <1>3, <4>1 DEF ListsAreLive
    <3> QED
      BY <3>1, <3>2
  <2> QED
    BY <2>1 DEF ListsAreLive, u
<1>14. Kept
  BY <1>11, KeptIf DEF u
<1>15. UndoReady'
  BY <1>2 DEF UndoReady
<1> QED
  BY <1>1, <1>2, <1>3, <1>7, <1>9, <1>10, <1>12, <1>13, <1>14, <1>15, StepIsSafe DEF u, n

LEMMA CreateListIsSafe ==
  ASSUME TodoAssumption, OperationsInvariant, NEW l \in Lists, CreateList(l)
  PROVE  SafeStep
<1>1. UNCHANGED <<task, time, touched, shadow>> /\ lists' = [lists EXCEPT ![l] = "live"]
  BY DEF CreateList
<1>2. OperationsTypeOK /\ StepsFollowTask /\ ListsAreLive /\ RowsSound /\ TouchedSound /\ UndoReady
  BY DEF OperationsInvariant
<1>3. OperationsTypeOK' /\ RowsSound'
  BY <1>1, <1>2 DEF OperationsTypeOK, RowsSound, Lists
<1>4. StepsFollowTask' /\ TouchedSound'
  BY <1>1, <1>2 DEF StepsFollowTask, TouchedSound, Alive, Stored, Untouched
<1>5. ListsAreLive'
  <2>1. \A j \in Ids : task[j].list \in Lists
    BY <1>2, StateIs, RowOfIs
  <2> QED
    BY <1>1, <1>2, <2>1 DEF ListsAreLive, OperationsTypeOK
<1>6. UndoReady'
  BY <1>1, <1>2 DEF UndoReady
<1>7. Versioned /\ Kept
  <2>1. Versioned
    BY <1>1 DEF Versioned
  <2>2. \A j \in Ids : Alive(task, j) => Alive(task', j)
    BY <1>1 DEF Alive, Stored
  <2> QED
    BY <2>1, <2>2, KeptIf
<1> QED
  BY <1>3, <1>4, <1>5, <1>6, <1>7 DEF SafeStep, OperationsInvariant

-----------------------------------------------------------------------------
(* Deleting and restoring, row by row. *)

\* u[j] is t[j], a new version of it, or a new version with another time of deletion.
AsBefore(t, u, j) == u[j] = t[j]
Counted(t, u, j, n) ==
  IsChange(t[j], u[j], n, t[j].list, t[j].repeat, t[j].completed, t[j].deleted)
Marked(t, u, j, n, d) == IsChange(t[j], u[j], n, t[j].list, t[j].repeat, t[j].completed, d)
Redone(t, u, j, n, c) == IsChange(t[j], u[j], n, t[j].list, t[j].repeat, c, t[j].deleted)

LEMMA RowsAre ==
  ASSUME NEW t \in Rows, NEW j \in Ids, NEW n \in Nat, NEW u
  PROVE  /\ u[j] = Written(t[j], n) => Counted(t, u, j, n)
         /\ u[j] = Written([t[j] EXCEPT !.deleted = n], n) => Marked(t, u, j, n, n)
         /\ u[j] = Written([t[j] EXCEPT !.deleted = 0], n) => Marked(t, u, j, n, 0)
         /\ u[j] = Written([t[j] EXCEPT !.completed = n], n) => Redone(t, u, j, n, n)
         /\ u[j] = Written([t[j] EXCEPT !.completed = 0], n) => Redone(t, u, j, n, 0)
<1> DEFINE x == t[j]
<1>1. x \in RowOf(BOOLEAN) /\ n \in {0, n} /\ 0 \in {0, n} /\ 0 \in Nat
  BY DEF Rows
<1> HIDE DEF x
<1>2. IsChange(x, Written(x, n), n, x.list, x.repeat, x.completed, x.deleted)
  BY <1>1, Versions, Zenon
<1>3. /\ IsChange(x, Written([x EXCEPT !.deleted = n], n), n, x.list, x.repeat, x.completed, n)
      /\ IsChange(x, Written([x EXCEPT !.deleted = 0], n), n, x.list, x.repeat, x.completed, 0)
  BY <1>1, Marks, Zenon
<1>4. /\ IsChange(x, Written([x EXCEPT !.completed = n], n), n, x.list, x.repeat, n, x.deleted)
      /\ IsChange(x, Written([x EXCEPT !.completed = 0], n), n, x.list, x.repeat, 0, x.deleted)
  BY <1>1, Finishes, Zenon
<1> QED
  BY <1>2, <1>3, <1>4, Zenon DEF x, Counted, Marked, Redone

LEMMA ChangedRowsAre ==
  ASSUME NEW t \in Rows, NEW u, IsRows(u),
         \A j \in Ids : AsBefore(t, u, j) \/ u[j] \in RowOf(BOOLEAN)
  PROVE  u \in Rows
<1>1. \A j \in Ids : u[j] \in RowOf(BOOLEAN)
  BY DEF Rows, AsBefore
<1> QED
  BY <1>1 DEF Rows, IsRows

\* What became of the rows when row i was deleted at n.
RemovedTo(t, i, n, u) ==
  /\ IsRows(u) /\ u \in Rows /\ Marked(t, u, i, n, n)
  /\ \A j \in Ids : j \notin Family(i[1]) => AsBefore(t, u, j)
  /\ \A j \in StepsOf(i[1]) : j # i =>
       IF i = Task(i[1]) /\ Alive(t, j) THEN Marked(t, u, j, n, n) ELSE AsBefore(t, u, j)
  /\ i # Task(i[1]) => Counted(t, u, Task(i[1]), n)

LEMMA RemovedRows ==
  ASSUME TodoAssumption, NEW t \in Rows, NEW i \in Ids, NEW n \in Nat, NEW u, u = Removed(t, i, n)
  PROVE  RemovedTo(t, i, n, u)
<1>1. RemovedAs(t, i, n, u)
  BY RemovedIs
<1>2. /\ i[1] \in Occs /\ Task(i[1]) \in Ids /\ StepsOf(i[1]) \subseteq Ids
      /\ Family(i[1]) = {Task(i[1])} \cup StepsOf(i[1])
  BY IdsAre
<1>3. Marked(t, u, i, n, n)
  BY <1>1, RowsAre, Zenon DEF RemovedAs
<1>4. \A j \in Ids : j \notin Family(i[1]) => AsBefore(t, u, j)
  BY <1>1 DEF RemovedAs, AsBefore
<1>5. ASSUME NEW j \in StepsOf(i[1]), j # i
      PROVE  IF i = Task(i[1]) /\ Alive(t, j) THEN Marked(t, u, j, n, n) ELSE AsBefore(t, u, j)
  <2>1. CASE i = Task(i[1]) /\ Alive(t, j)
    <3>1. u[j] = Written([t[j] EXCEPT !.deleted = n], n) /\ j \in Ids
      BY <1>1, <1>2, <1>5, <2>1 DEF RemovedAs
    <3> QED
      BY <2>1, <3>1, RowsAre, Zenon
  <2>2. CASE ~(i = Task(i[1]) /\ Alive(t, j))
    BY <1>1, <1>5, <2>2 DEF RemovedAs, AsBefore
  <2> QED
    BY <2>1, <2>2
<1>6. i # Task(i[1]) => Counted(t, u, Task(i[1]), n)
  BY <1>1, <1>2, RowsAre, Zenon DEF RemovedAs
<1>7. \A j \in Ids : AsBefore(t, u, j) \/ u[j] \in RowOf(BOOLEAN)
  BY <1>2, <1>3, <1>4, <1>5, <1>6 DEF Marked, Counted, IsChange, NewVersion
<1>8. IsRows(u) /\ u \in Rows
  BY <1>1, <1>7, ChangedRowsAre DEF RemovedAs
<1> QED
  BY <1>3, <1>4, <1>5, <1>6, <1>8 DEF RemovedTo

\* What became of the rows when row i was restored at n.
ReturnedTo(t, i, n, u) ==
  /\ IsRows(u) /\ u \in Rows /\ Marked(t, u, i, n, 0)
  /\ \A j \in Ids : j \notin Family(i[1]) => AsBefore(t, u, j)
  /\ \A j \in StepsOf(i[1]) : j # i =>
       IF i = Task(i[1]) /\ t[j].deleted = t[i].deleted THEN Marked(t, u, j, n, 0)
                                                        ELSE AsBefore(t, u, j)
  /\ i # Task(i[1]) => Counted(t, u, Task(i[1]), n)

LEMMA ReturnedRows ==
  ASSUME TodoAssumption, NEW t \in Rows, NEW i \in Ids, NEW n \in Nat, NEW u, u = Returned(t, i, n)
  PROVE  ReturnedTo(t, i, n, u)
<1>1. ReturnedAs(t, i, n, u)
  BY ReturnedIs
<1>2. /\ i[1] \in Occs /\ Task(i[1]) \in Ids /\ StepsOf(i[1]) \subseteq Ids
      /\ Family(i[1]) = {Task(i[1])} \cup StepsOf(i[1])
  BY IdsAre
<1>3. Marked(t, u, i, n, 0)
  BY <1>1, RowsAre, Zenon DEF ReturnedAs
<1>4. \A j \in Ids : j \notin Family(i[1]) => AsBefore(t, u, j)
  BY <1>1 DEF ReturnedAs, AsBefore
<1>5. ASSUME NEW j \in StepsOf(i[1]), j # i
      PROVE  IF i = Task(i[1]) /\ t[j].deleted = t[i].deleted THEN Marked(t, u, j, n, 0)
                                                              ELSE AsBefore(t, u, j)
  <2>1. CASE i = Task(i[1]) /\ t[j].deleted = t[i].deleted
    <3>1. u[j] = Written([t[j] EXCEPT !.deleted = 0], n) /\ j \in Ids
      BY <1>1, <1>2, <1>5, <2>1 DEF ReturnedAs
    <3> QED
      BY <2>1, <3>1, RowsAre, Zenon
  <2>2. CASE ~(i = Task(i[1]) /\ t[j].deleted = t[i].deleted)
    BY <1>1, <1>5, <2>2 DEF ReturnedAs, AsBefore
  <2> QED
    BY <2>1, <2>2
<1>6. i # Task(i[1]) => Counted(t, u, Task(i[1]), n)
  BY <1>1, <1>2, RowsAre, Zenon DEF ReturnedAs
<1>7. \A j \in Ids : AsBefore(t, u, j) \/ u[j] \in RowOf(BOOLEAN)
  BY <1>2, <1>3, <1>4, <1>5, <1>6 DEF Marked, Counted, IsChange, NewVersion
<1>8. IsRows(u) /\ u \in Rows
  BY <1>1, <1>7, ChangedRowsAre DEF ReturnedAs
<1> QED
  BY <1>3, <1>4, <1>5, <1>6, <1>8 DEF ReturnedTo

\* Restoring what was just deleted leaves what was visible before.
LEMMA DeletionCanBeUndone ==
  ASSUME TodoAssumption, NEW t \in Rows, NEW i \in Ids, NEW n \in Nat,
         Alive(t, i), Alive(t, Task(i[1])), \A j \in Ids : t[j].deleted < n,
         NEW u, u = Removed(t, i, n), NEW v, v = Returned(u, i, n + 1)
  PROVE  Visible(v) = Visible(t)
<1>1. RemovedTo(t, i, n, u)
  BY RemovedRows
<1>2. u \in Rows /\ n + 1 \in Nat
  BY <1>1 DEF RemovedTo
<1>3. ReturnedTo(u, i, n + 1, v)
  BY <1>2, ReturnedRows
<1>4. /\ i[1] \in Occs /\ Task(i[1]) \in Ids /\ StepsOf(i[1]) \subseteq Ids
      /\ Family(i[1]) = {Task(i[1])} \cup StepsOf(i[1])
  BY IdsAre
<1> DEFINE Alike(j) == /\ Alive(v, j) <=> Alive(t, j)
                       /\ v[j].list = t[j].list /\ v[j].completed = t[j].completed
                       /\ v[j].repeat = t[j].repeat
<1>5. \A j \in Ids : t[j].version \in Nat
  BY RowOfIs DEF Rows
<1>6. ASSUME NEW j \in Ids, Alive(t, j), Marked(t, u, j, n, n), Marked(u, v, j, n + 1, 0)
      PROVE  Alike(j)
  BY <1>5, <1>6 DEF Marked, IsChange, NewVersion, Alive, Stored
<1>7. ASSUME NEW j \in Ids, Alive(t, j), Counted(t, u, j, n), Counted(u, v, j, n + 1)
      PROVE  Alike(j)
  BY <1>5, <1>7 DEF Counted, IsChange, NewVersion, Alive, Stored
<1>8. ASSUME NEW j \in Ids, AsBefore(t, u, j), AsBefore(u, v, j)
      PROVE  Alike(j)
  BY <1>8 DEF AsBefore, Alive, Stored
<1>9. u[i].deleted = n
  BY <1>1 DEF RemovedTo, Marked, IsChange
<1>10. \A j \in StepsOf(i[1]) : AsBefore(t, u, j) => u[j].deleted # n
  BY <1>4 DEF AsBefore
<1>11. \A j \in StepsOf(i[1]) : Marked(t, u, j, n, n) => u[j].deleted = n
  BY DEF Marked, IsChange
<1> HIDE DEF Alike
<1>12. Alike(i)
  BY <1>1, <1>3, <1>6 DEF RemovedTo, ReturnedTo
<1>13. ASSUME NEW j \in Ids, j \notin Family(i[1])
       PROVE  Alike(j)
  BY <1>1, <1>3, <1>8, <1>13 DEF RemovedTo, ReturnedTo
<1>14. i # Task(i[1]) => Alike(Task(i[1]))
  BY <1>1, <1>3, <1>4, <1>7 DEF RemovedTo, ReturnedTo
<1>15. ASSUME NEW j \in StepsOf(i[1]), j # i
       PROVE  Alike(j)
  <2>1. CASE i = Task(i[1]) /\ Alive(t, j)
    <3>1. Marked(t, u, j, n, n) /\ j \in Ids
      BY <1>1, <1>4, <1>15, <2>1 DEF RemovedTo
    <3>2. Marked(u, v, j, n + 1, 0)
      BY <1>3, <1>9, <1>11, <1>15, <2>1, <3>1 DEF ReturnedTo
    <3> QED
      BY <1>6, <2>1, <3>1, <3>2
  <2>2. CASE ~(i = Task(i[1]) /\ Alive(t, j))
    <3>1. AsBefore(t, u, j) /\ j \in Ids
      BY <1>1, <1>4, <1>15, <2>2 DEF RemovedTo
    <3>2. AsBefore(u, v, j)
      BY <1>3, <1>9, <1>10, <1>15, <2>2, <3>1 DEF ReturnedTo
    <3> QED
      BY <1>8, <3>1, <3>2
  <2> QED
    BY <2>1, <2>2
<1>16. \A j \in Ids : Alike(j)
  BY <1>4, <1>12, <1>13, <1>14, <1>15
<1> QED
  BY <1>16, VisibleSame DEF Alike

LEMMA DeleteIsSafe ==
  ASSUME TodoAssumption, OperationsInvariant, NEW i \in Ids, DeleteTask(i)
  PROVE  SafeStep
<1> DEFINE n == time + 1
           u == task'
           root == Task(i[1])
<1>1. /\ OperationsTypeOK /\ StepsFollowTask /\ ListsAreLive /\ RowsSound
      /\ task \in Rows /\ n \in Nat /\ n # 0
      /\ \A j \in Ids : /\ task[j] \in RowOf(BOOLEAN) /\ task[j].version \in Nat
                        /\ task[j].deleted < n
  <2>1. OperationsTypeOK /\ StepsFollowTask /\ ListsAreLive /\ RowsSound
    BY DEF OperationsInvariant
  <2>2. task \in Rows /\ n \in Nat /\ n # 0 /\ time \in Nat
    BY <2>1, StateIs
  <2>3. ASSUME NEW j \in Ids
        PROVE  /\ task[j] \in RowOf(BOOLEAN) /\ task[j].version \in Nat
               /\ task[j].deleted < n
    <3>1. /\ task[j] \in RowOf(BOOLEAN) /\ task[j].deleted <= task[j].updated
          /\ task[j].updated <= time
      BY <2>1, StateIs
    <3>2. task[j].version \in Nat /\ task[j].deleted \in Nat /\ task[j].updated \in Nat
      BY <3>1, RowOfIs
    <3> QED
      BY <2>2, <3>1, <3>2
  <2> QED
    BY <2>1, <2>2, <2>3
<1>2. /\ time < MaxOps /\ time' = n /\ u = Removed(task, i, n)
      /\ touched' = touched \cup Family(i[1]) /\ shadow' = <<i, Visible(task)>> /\ lists' = lists
      /\ Alive(task, i)
  BY DEF DeleteTask, Apply
<1>3. /\ root \in Ids /\ i[1] \in Occs /\ root \in Family(i[1]) /\ i \in Family(i[1])
      /\ Family(i[1]) = {root} \cup StepsOf(i[1]) /\ Family(i[1]) \subseteq Ids
      /\ \A j \in Family(i[1]) : j[1] = i[1]
      /\ \A j \in Ids : j[1] \in Occs /\ Task(j[1]) \in Ids /\ j \in Family(j[1])
      /\ \A j \in Ids : Task(j[1]) \in Family(i[1]) => j \in Family(i[1])
      /\ \A k \in Occs : Task(k) \in Family(i[1]) => Task(k) = root
  BY IdsAre
<1>4. Alive(task, root)
  BY <1>1, <1>2 DEF StepsFollowTask
<1> HIDE DEF u, n
<1>5. RemovedTo(task, i, n, u)
  BY <1>1, <1>2, RemovedRows
<1>6. \A j \in Ids :
        \/ AsBefore(task, u, j)
        \/ j \in Family(i[1]) /\ Alive(task, j) /\ Marked(task, u, j, n, n)
        \/ j = root /\ i # root /\ Counted(task, u, j, n)
  BY <1>2, <1>3, <1>5 DEF RemovedTo
<1>7. \A j \in Ids :
        /\ u[j].gen = task[j].gen /\ u[j].list = task[j].list /\ u[j].completed = task[j].completed
        /\ u[j] = task[j] \/ (j \in Family(i[1]) /\ Stored(task, j) /\ NewVersion(task[j], u[j], n))
  BY <1>3, <1>4, <1>6 DEF AsBefore, Marked, Counted, IsChange, Alive
<1>8. Changes(u, n)
  BY <1>5, <1>7 DEF Changes, RemovedTo
<1>9. Worn(root)
  <2>1. u[root].gen = task[root].gen /\ (i = root \/ Counted(task, u, root, n))
    BY <1>3, <1>5, <1>7 DEF RemovedTo
  <2>2. Marked(task, u, i, n, n)
    BY <1>5 DEF RemovedTo
  <2>3. NewVersion(task[root], u[root], n)
    BY <2>1, <2>2 DEF Marked, Counted, IsChange
  <2> QED
    BY <2>1, <2>3 DEF Worn, u, n
<1>10. touched' \subseteq Ids
  BY <1>1, <1>2, <1>3 DEF OperationsTypeOK
<1>11. ASSUME NEW j \in touched'
       PROVE  Worn(j) \/ Worn(Task(j[1])) \/ StillWorn(j)
  <2>1. CASE j \in Family(i[1])
    BY <1>3, <1>9, <2>1
  <2>2. CASE j \notin Family(i[1])
    BY <1>2, <1>3, <1>7, <1>10, <2>2 DEF StillWorn, u
  <2> QED
    BY <2>1, <2>2
<1>12. \A j \in Ids : Stored(u, j) => Stored(task, j)
  BY <1>7 DEF Stored
<1>13. u[i].deleted = n /\ ~Alive(u, i)
  BY <1>1, <1>5 DEF RemovedTo, Marked, IsChange, Alive
<1>14. StepsFollowTask'
  <2>1. ASSUME NEW j \in Ids, Alive(u, j)
        PROVE  Alive(u, Task(j[1]))
    <3>1. CASE j \in Family(i[1]) /\ i = root
      <4>1. j # i
        BY <1>13, <2>1
      <4>2. j \in StepsOf(i[1])
        BY <1>3, <3>1, <4>1
      <4>3. CASE Alive(task, j)
        <5>1. Marked(task, u, j, n, n)
          BY <1>5, <3>1, <4>1, <4>2, <4>3 DEF RemovedTo
        <5> QED
          BY <1>1, <2>1, <5>1 DEF Marked, IsChange, Alive
      <4>4. CASE ~Alive(task, j)
        <5>1. AsBefore(task, u, j)
          BY <1>5, <3>1, <4>1, <4>2, <4>4 DEF RemovedTo
        <5> QED
          BY <2>1, <4>4, <5>1 DEF AsBefore, Alive, Stored
      <4> QED
        BY <4>3, <4>4
    <3>2. CASE j \in Family(i[1]) /\ i # root
      <4>1. Counted(task, u, root, n) /\ task[root].version \in Nat
        BY <1>1, <1>3, <1>5, <3>2 DEF RemovedTo
      <4>2. Alive(u, root)
        BY <1>4, <4>1 DEF Counted, IsChange, NewVersion, Alive, Stored
      <4> QED
        BY <1>3, <3>2, <4>2
    <3>3. CASE j \notin Family(i[1])
      BY <1>1, <1>3, <1>7, <2>1, <3>3 DEF StepsFollowTask, Alive, Stored
    <3> QED
      BY <3>1, <3>2, <3>3
  <2> QED
    BY <2>1 DEF StepsFollowTask, u
<1>15. ListsAreLive'
  <2>1. \A j \in Ids : Stored(u, j) => lists[u[j].list] = "live"
    BY <1>1, <1>7, <1>12 DEF ListsAreLive
  <2> QED
    BY <1>2, <2>1 DEF ListsAreLive, u
<1>16. Kept
  <2>1. \A k \in Occs : task'[Task(k)].completed = task[Task(k)].completed
    BY <1>7, IdsAre DEF u
  <2> QED
    BY <2>1, KeptIf
<1>17. UndoReady'
  <2>1. Visible(Returned(u, i, n + 1)) = Visible(task)
    BY <1>1, <1>2, <1>4, DeletionCanBeUndone
  <2>2. shadow'[1] = i /\ shadow'[2] = Visible(task)
    BY <1>2
  <2>3. Visible(Returned(task', shadow'[1], time' + 1)) = shadow'[2]
    BY <1>2, <2>1, <2>2 DEF u
  <2>4. ASSUME NEW k \in Occs, shadow'[1] = Task(k), Alive(task', Task(k))
        PROVE  FALSE
    BY <1>13, <2>2, <2>4 DEF u
  <2> QED
    BY <2>2, <2>3, <2>4 DEF UndoReady
<1> QED
  BY <1>1, <1>2, <1>8, <1>10, <1>11, <1>14, <1>15, <1>16, <1>17, StepIsSafe
  DEF OperationsTypeOK, RowsSound, u, n

LEMMA RestoreIsSafe ==
  ASSUME TodoAssumption, OperationsInvariant, NEW i \in Ids, Restore(i)
  PROVE  SafeStep
<1> DEFINE n == time + 1
           u == task'
           root == Task(i[1])
<1>1. /\ OperationsTypeOK /\ StepsFollowTask /\ ListsAreLive /\ RowsSound
      /\ task \in Rows /\ n \in Nat
      /\ \A j \in Ids : task[j] \in RowOf(BOOLEAN)
      /\ \A j \in Ids : task[j].version \in Nat
      /\ \A j \in Ids : task[j].version = 0 => task[j].deleted = 0
  BY StateIs, RowOfIs DEF OperationsInvariant
<1>2. /\ time < MaxOps /\ time' = n /\ u = Returned(task, i, n)
      /\ touched' = touched \cup Family(i[1]) /\ shadow' = <<>> /\ lists' = lists
      /\ MayRestore(i)
  BY DEF Restore, Apply
<1>3. /\ root \in Ids /\ i[1] \in Occs /\ root \in Family(i[1]) /\ i \in Family(i[1])
      /\ Family(i[1]) = {root} \cup StepsOf(i[1]) /\ Family(i[1]) \subseteq Ids
      /\ \A j \in Family(i[1]) : j[1] = i[1]
      /\ \A j \in Ids : j[1] \in Occs /\ Task(j[1]) \in Ids /\ j \in Family(j[1])
      /\ \A j \in Ids : Task(j[1]) \in Family(i[1]) => j \in Family(i[1])
      /\ i[2] = "task" <=> i = root
  BY IdsAre
<1>4. /\ Stored(task, i) /\ task[i].deleted > 0
      /\ i # root => Alive(task, root)
  BY <1>2, <1>3 DEF MayRestore
<1> HIDE DEF u, n
<1>5. ReturnedTo(task, i, n, u)
  BY <1>1, <1>2, ReturnedRows
<1>6. \A j \in Ids : task[j].deleted = task[i].deleted => Stored(task, j)
  BY <1>1, <1>4 DEF Stored
<1>7. \A j \in Ids :
        \/ AsBefore(task, u, j)
        \/ j \in Family(i[1]) /\ Stored(task, j) /\ Marked(task, u, j, n, 0)
        \/ j = root /\ i # root /\ Counted(task, u, j, n)
  BY <1>3, <1>4, <1>5, <1>6 DEF ReturnedTo
<1>8. \A j \in Ids :
        /\ u[j].gen = task[j].gen /\ u[j].list = task[j].list /\ u[j].completed = task[j].completed
        /\ u[j] = task[j] \/ (j \in Family(i[1]) /\ Stored(task, j) /\ NewVersion(task[j], u[j], n))
  BY <1>3, <1>4, <1>7 DEF AsBefore, Marked, Counted, IsChange, Alive
<1>9. Changes(u, n)
  BY <1>5, <1>8 DEF Changes, ReturnedTo
<1>10. Worn(root)
  <2>1. u[root].gen = task[root].gen /\ (i = root \/ Counted(task, u, root, n))
    BY <1>3, <1>5, <1>8 DEF ReturnedTo
  <2>2. Marked(task, u, i, n, 0)
    BY <1>5 DEF ReturnedTo
  <2>3. NewVersion(task[root], u[root], n)
    BY <2>1, <2>2 DEF Marked, Counted, IsChange
  <2> QED
    BY <2>1, <2>3 DEF Worn, u, n
<1>11. touched' \subseteq Ids
  BY <1>1, <1>2, <1>3 DEF OperationsTypeOK
<1>12. ASSUME NEW j \in touched'
       PROVE  Worn(j) \/ Worn(Task(j[1])) \/ StillWorn(j)
  <2>1. CASE j \in Family(i[1])
    BY <1>3, <1>10, <2>1
  <2>2. CASE j \notin Family(i[1])
    BY <1>2, <1>3, <1>8, <1>11, <2>2 DEF StillWorn, u
  <2> QED
    BY <2>1, <2>2
<1>13. \A j \in Ids : Stored(u, j) => Stored(task, j)
  BY <1>8 DEF Stored
<1>14. Alive(u, root)
  <2>1. CASE i = root
    BY <1>1, <1>4, <1>5, <2>1 DEF ReturnedTo, Marked, IsChange, NewVersion, Alive, Stored
  <2>2. CASE i # root
    BY <1>1, <1>3, <1>4, <1>5, <2>2 DEF ReturnedTo, Counted, IsChange, NewVersion, Alive, Stored
  <2> QED
    BY <2>1, <2>2
<1>15. StepsFollowTask'
  <2>1. ASSUME NEW j \in Ids, Alive(u, j)
        PROVE  Alive(u, Task(j[1]))
    <3>1. CASE j \in Family(i[1])
      BY <1>3, <1>14, <3>1
    <3>2. CASE j \notin Family(i[1])
      BY <1>1, <1>3, <1>8, <2>1, <3>2 DEF StepsFollowTask, Alive, Stored
    <3> QED
      BY <3>1, <3>2
  <2> QED
    BY <2>1 DEF StepsFollowTask, u
<1>16. ListsAreLive'
  <2>1. \A j \in Ids : Stored(u, j) => lists[u[j].list] = "live"
    BY <1>1, <1>8, <1>13 DEF ListsAreLive
  <2> QED
    BY <1>2, <2>1 DEF ListsAreLive, u
<1>17. Kept
  <2>1. \A k \in Occs : task'[Task(k)].completed = task[Task(k)].completed
    BY <1>8, IdsAre DEF u
  <2> QED
    BY <2>1, KeptIf
<1>18. UndoReady'
  BY <1>2 DEF UndoReady
<1> QED
  BY <1>1, <1>2, <1>9, <1>11, <1>12, <1>15, <1>16, <1>17, <1>18, StepIsSafe
  DEF OperationsTypeOK, RowsSound, u, n

-----------------------------------------------------------------------------
(* Completing and reopening, row by row. *)

\* u[j] is the copy of the row of occurrence k that the next occurrence has in its place.
Copied(t, u, j, k, n) ==
  /\ NewVersion(t[j], u[j], n) /\ u[j].gen = u[j].version
  /\ u[j].list = t[<<k, j[2]>>].list /\ u[j].completed = 0 /\ u[j].deleted = 0

\* What became of the rows when occurrence k was completed at n.
FinishedTo(t, k, n, u) ==
  /\ IsRows(u) /\ u \in Rows /\ Redone(t, u, Task(k), n, n)
  /\ \A j \in StepsOf(k) : IF Ongoing(t, j) THEN Redone(t, u, j, n, n) ELSE AsBefore(t, u, j)
  /\ \A j \in Ids : j \notin Family(k) /\ ~AsBefore(t, u, j) =>
       /\ t[Task(k)].repeat /\ j \in Family(k + 1) /\ Copied(t, u, j, k, n)
       /\ j = Task(k + 1) \/ Alive(t, <<k, j[2]>>)
  /\ t[Task(k)].repeat => NewVersion(t[Task(k + 1)], u[Task(k + 1)], n) /\ u[Task(k + 1)].deleted = 0

LEMMA FinishedRows ==
  ASSUME TodoAssumption, NEW t \in Rows, NEW k \in Occs, NEW n \in Nat,
         t[Task(k)].repeat => k + 1 \in Occs, NEW u, u = Finished(t, k, n)
  PROVE  FinishedTo(t, k, n, u)
<1>1. FinishedAs(t, k, n, u)
  BY FinishedIs
<1>2. /\ Task(k) \in Ids /\ StepsOf(k) \subseteq Ids
      /\ Family(k) = {Task(k)} \cup StepsOf(k)
      /\ \A j \in Ids : t[j] \in RowOf(BOOLEAN)
      /\ k + 1 \in Occs => Task(k + 1) \in Ids
  BY IdsAre DEF Rows
<1>3. Redone(t, u, Task(k), n, n)
  BY <1>1, <1>2, RowsAre, Zenon DEF FinishedAs
<1>4. ASSUME NEW j \in StepsOf(k)
      PROVE  IF Ongoing(t, j) THEN Redone(t, u, j, n, n) ELSE AsBefore(t, u, j)
  <2>1. CASE Ongoing(t, j)
    <3>1. u[j] = Written([t[j] EXCEPT !.completed = n], n) /\ j \in Ids
      BY <1>1, <1>2, <2>1 DEF FinishedAs
    <3> QED
      BY <2>1, <3>1, RowsAre, Zenon
  <2>2. CASE ~Ongoing(t, j)
    BY <1>1, <2>2 DEF FinishedAs, AsBefore
  <2> QED
    BY <2>1, <2>2
<1>5. ASSUME NEW j \in Ids, j \notin Family(k), ~AsBefore(t, u, j)
      PROVE  /\ t[Task(k)].repeat /\ j \in Family(k + 1) /\ Copied(t, u, j, k, n)
             /\ j = Task(k + 1) \/ Alive(t, <<k, j[2]>>)
  <2>1. /\ t[Task(k)].repeat /\ j \in Family(k + 1)
        /\ j = Task(k + 1) \/ Alive(t, <<k, j[2]>>)
        /\ \E x \in RowOf(BOOLEAN) :
             u[j] = Copy(x, t[j].version + 1, n) /\ x.list = t[<<k, j[2]>>].list
    BY <1>1, <1>5 DEF FinishedAs, AsBefore
  <2>2. PICK x \in RowOf(BOOLEAN) :
          u[j] = Copy(x, t[j].version + 1, n) /\ x.list = t[<<k, j[2]>>].list
    BY <2>1
  <2>3. /\ NewVersion(t[j], u[j], n) /\ u[j].gen = u[j].version /\ u[j].list = x.list
        /\ u[j].completed = 0 /\ u[j].deleted = 0
    <3>1. t[j] \in RowOf(BOOLEAN)
      BY <1>2
    <3> QED
      <4>1. u[j] = Copy(x, t[j].version + 1, n)
        BY <2>2
      <4> QED
        BY <3>1, <4>1, CopiedIs
  <2> QED
    BY <2>1, <2>2, <2>3 DEF Copied
<1>6. ASSUME t[Task(k)].repeat
      PROVE  NewVersion(t[Task(k + 1)], u[Task(k + 1)], n) /\ u[Task(k + 1)].deleted = 0
  <2>1. PICK x \in RowOf(BOOLEAN) : u[Task(k + 1)] = Copy(x, t[Task(k + 1)].version + 1, n)
    BY <1>1, <1>6 DEF FinishedAs
  <2>2. t[Task(k + 1)] \in RowOf(BOOLEAN)
    BY <1>2, <1>6
  <2> QED
    BY <2>1, <2>2, CopiedIs, ZenonT(60)
<1>7. \A j \in Ids : AsBefore(t, u, j) \/ u[j] \in RowOf(BOOLEAN)
  BY <1>2, <1>3, <1>4, <1>5 DEF Redone, Copied, IsChange, NewVersion
<1>8. IsRows(u) /\ u \in Rows
  BY <1>1, <1>7, ChangedRowsAre DEF FinishedAs
<1> QED
  BY <1>3, <1>4, <1>5, <1>6, <1>8 DEF FinishedTo

\* What became of the rows when occurrence k was reopened at n.
ReopenedTo(t, k, n, u) ==
  /\ IsRows(u) /\ u \in Rows /\ Redone(t, u, Task(k), n, 0)
  /\ \A j \in StepsOf(k) : IF Mine(t, k, j) THEN Redone(t, u, j, n, 0) ELSE AsBefore(t, u, j)
  /\ \A j \in Ids : j \notin Family(k) =>
       IF t[Task(k)].repeat /\ j \in Family(k + 1) /\ Stored(t, j)
       THEN Marked(t, u, j, n, n) ELSE AsBefore(t, u, j)

LEMMA ReopenedRows ==
  ASSUME TodoAssumption, NEW t \in Rows, NEW k \in Occs, NEW n \in Nat, NEW u, u = Reopened(t, k, n)
  PROVE  ReopenedTo(t, k, n, u)
<1>1. ReopenedAs(t, k, n, u)
  BY ReopenedIs
<1>2. /\ Task(k) \in Ids /\ StepsOf(k) \subseteq Ids
      /\ Family(k) = {Task(k)} \cup StepsOf(k)
  BY IdsAre
<1>3. Redone(t, u, Task(k), n, 0)
  BY <1>1, <1>2, RowsAre, Zenon DEF ReopenedAs
<1>4. ASSUME NEW j \in StepsOf(k)
      PROVE  IF Mine(t, k, j) THEN Redone(t, u, j, n, 0) ELSE AsBefore(t, u, j)
  <2>1. CASE Mine(t, k, j)
    <3>1. u[j] = Written([t[j] EXCEPT !.completed = 0], n) /\ j \in Ids
      BY <1>1, <1>2, <2>1 DEF ReopenedAs
    <3> QED
      BY <2>1, <3>1, RowsAre, Zenon
  <2>2. CASE ~Mine(t, k, j)
    BY <1>1, <2>2 DEF ReopenedAs, AsBefore
  <2> QED
    BY <2>1, <2>2
<1>5. ASSUME NEW j \in Ids, j \notin Family(k)
      PROVE  IF t[Task(k)].repeat /\ j \in Family(k + 1) /\ Stored(t, j)
             THEN Marked(t, u, j, n, n) ELSE AsBefore(t, u, j)
  <2>1. CASE t[Task(k)].repeat /\ j \in Family(k + 1) /\ Stored(t, j)
    <3>1. u[j] = Written([t[j] EXCEPT !.deleted = n], n)
      BY <1>1, <1>5, <2>1 DEF ReopenedAs
    <3> QED
      BY <2>1, <3>1, RowsAre, Zenon
  <2>2. CASE ~(t[Task(k)].repeat /\ j \in Family(k + 1) /\ Stored(t, j))
    BY <1>1, <1>5, <2>2 DEF ReopenedAs, AsBefore
  <2> QED
    BY <2>1, <2>2
<1>6. \A j \in Ids : AsBefore(t, u, j) \/ u[j] \in RowOf(BOOLEAN)
  BY <1>2, <1>3, <1>4, <1>5 DEF Marked, Redone, IsChange, NewVersion
<1>7. IsRows(u) /\ u \in Rows
  BY <1>1, <1>6, ChangedRowsAre DEF ReopenedAs
<1> QED
  BY <1>3, <1>4, <1>5, <1>7 DEF ReopenedTo

\* Reopening what was just completed leaves what was visible before.
LEMMA CompletionCanBeUndone ==
  ASSUME TodoAssumption, NEW t \in Rows, NEW k \in Occs, NEW n \in Nat,
         Ongoing(t, Task(k)), t[Task(k)].repeat => k + 1 \in Occs,
         \A j \in Ids : t[Task(k)].repeat /\ j \in Family(k + 1) => ~Alive(t, j),
         \A j \in Ids : t[j].completed < n,
         NEW u, u = Finished(t, k, n), NEW v, v = Reopened(u, k, n + 1)
  PROVE  Visible(v) = Visible(t)
<1>1. FinishedTo(t, k, n, u)
  BY FinishedRows
<1>2. u \in Rows /\ n + 1 \in Nat /\ n + 1 # 0
  BY <1>1 DEF FinishedTo
<1>3. ReopenedTo(u, k, n + 1, v)
  BY <1>2, ReopenedRows
<1>4. /\ Task(k) \in Ids /\ StepsOf(k) \subseteq Ids
      /\ Family(k) = {Task(k)} \cup StepsOf(k)
  BY IdsAre
<1>5. \A j \in Ids : t[j].version \in Nat
  BY RowOfIs DEF Rows
<1> DEFINE Alike(j) == /\ Alive(v, j) <=> Alive(t, j)
                       /\ Alive(v, j) => /\ v[j].list = t[j].list /\ v[j].completed = t[j].completed
                                         /\ v[j].repeat = t[j].repeat
<1>6. ASSUME NEW j \in Ids, Ongoing(t, j), Redone(t, u, j, n, n), Redone(u, v, j, n + 1, 0)
      PROVE  Alike(j)
  BY <1>5, <1>6 DEF Redone, IsChange, NewVersion, Alive, Stored, Ongoing
<1>7. ASSUME NEW j \in Ids, AsBefore(t, u, j), AsBefore(u, v, j)
      PROVE  Alike(j)
  BY <1>7 DEF AsBefore, Alive, Stored
<1>8. u[Task(k)].completed = n /\ u[Task(k)].repeat = t[Task(k)].repeat
  BY <1>1 DEF FinishedTo, Redone, IsChange
<1>9. Alike(Task(k))
  BY <1>1, <1>3, <1>4, <1>6 DEF FinishedTo, ReopenedTo
<1>10. ASSUME NEW j \in StepsOf(k)
       PROVE  Alike(j)
  <2>1. CASE Ongoing(t, j)
    <3>1. Redone(t, u, j, n, n) /\ j \in Ids
      BY <1>1, <1>4, <2>1 DEF FinishedTo
    <3>2. Mine(u, k, j)
      BY <1>5, <1>8, <2>1, <3>1 DEF Mine, Redone, IsChange, NewVersion, Alive, Stored, Ongoing
    <3>3. Redone(u, v, j, n + 1, 0)
      BY <1>3, <3>2 DEF ReopenedTo
    <3> QED
      BY <1>6, <2>1, <3>1, <3>3
  <2>2. CASE ~Ongoing(t, j)
    <3>1. AsBefore(t, u, j) /\ j \in Ids
      BY <1>1, <1>4, <2>2 DEF FinishedTo
    <3>2. ~Mine(u, k, j)
      BY <1>8, <3>1 DEF Mine, AsBefore
    <3>3. AsBefore(u, v, j)
      BY <1>3, <3>2 DEF ReopenedTo
    <3> QED
      BY <1>7, <3>1, <3>3
  <2> QED
    BY <2>1, <2>2
<1>11. ASSUME NEW j \in Ids, j \notin Family(k)
       PROVE  Alike(j)
  <2>1. CASE t[Task(k)].repeat /\ j \in Family(k + 1) /\ Stored(u, j)
    <3>1. Marked(u, v, j, n + 1, n + 1)
      BY <1>3, <1>8, <1>11, <2>1 DEF ReopenedTo
    <3> QED
      BY <1>2, <2>1, <3>1 DEF Marked, IsChange, Alive
  <2>2. CASE t[Task(k)].repeat /\ j \in Family(k + 1) /\ ~Stored(u, j)
    <3>1. AsBefore(u, v, j)
      BY <1>3, <1>8, <1>11, <2>2 DEF ReopenedTo
    <3> QED
      BY <2>2, <3>1 DEF AsBefore, Alive, Stored
  <2>3. CASE ~(t[Task(k)].repeat /\ j \in Family(k + 1))
    BY <1>1, <1>3, <1>7, <1>8, <1>11, <2>3 DEF FinishedTo, ReopenedTo
  <2> QED
    BY <2>1, <2>2, <2>3
<1> HIDE DEF Alike
<1>12. \A j \in Ids : Alike(j)
  BY <1>4, <1>9, <1>10, <1>11
<1> QED
  BY <1>12, VisibleSame DEF Alike

LEMMA CompleteIsSafe ==
  ASSUME TodoAssumption, OperationsInvariant, NEW k \in Occs, CompleteTask(k)
  PROVE  SafeStep
<1> DEFINE n == time + 1
           u == task'
           repeats == task[Task(k)].repeat
<1>1. /\ OperationsTypeOK /\ StepsFollowTask /\ ListsAreLive /\ RowsSound
      /\ task \in Rows /\ n \in Nat
      /\ \A j \in Ids : /\ task[j] \in RowOf(BOOLEAN) /\ task[j].version \in Nat
                        /\ task[j].completed < n
  <2>1. OperationsTypeOK /\ StepsFollowTask /\ ListsAreLive /\ RowsSound
    BY DEF OperationsInvariant
  <2>2. task \in Rows /\ n \in Nat /\ time \in Nat
    BY <2>1, StateIs
  <2>3. ASSUME NEW j \in Ids
        PROVE  /\ task[j] \in RowOf(BOOLEAN) /\ task[j].version \in Nat
               /\ task[j].completed < n
    <3>1. /\ task[j] \in RowOf(BOOLEAN) /\ task[j].completed <= task[j].updated
          /\ task[j].updated <= time
      BY <2>1, StateIs
    <3>2. task[j].version \in Nat /\ task[j].completed \in Nat /\ task[j].updated \in Nat
      BY <3>1, RowOfIs
    <3> QED
      BY <2>2, <3>1, <3>2
  <2> QED
    BY <2>1, <2>2, <2>3
<1>2. /\ time < MaxOps /\ time' = n /\ u = Finished(task, k, n) /\ lists' = lists
      /\ touched' = (touched \cup Family(k)) \ (IF repeats THEN Family(k + 1) ELSE {})
      /\ shadow' = <<Task(k), Visible(task)>>
      /\ Ongoing(task, Task(k)) /\ MayFinish(k)
  BY DEF CompleteTask
<1>3. repeats => k + 1 \in Occs /\ ~Alive(task, Task(k + 1))
  BY <1>2 DEF MayFinish, Occs, TodoAssumption
<1>4. /\ Task(k) \in Ids /\ Task(k) \in Family(k) /\ StepsOf(k) \subseteq Ids
      /\ Family(k) = {Task(k)} \cup StepsOf(k) /\ Family(k) \subseteq Ids
      /\ \A j \in Family(k) : j[1] = k
      /\ \A j \in Ids : j[1] \in Occs /\ Task(j[1]) \in Ids /\ j \in Family(j[1])
      /\ \A j \in Ids : Task(j[1]) \in Family(k) => j \in Family(k)
      /\ \A m \in Occs : Task(m) = Task(k) => m = k
  BY IdsAre
<1>5. ASSUME NEW j \in Ids
      PROVE  /\ Task(j[1]) \in Family(k + 1) => j \in Family(k + 1)
             /\ j \in Family(k + 1) => j[1] = k + 1 /\ <<k, j[2]>> \in Family(k)
             /\ j = Task(k + 1) => <<k, j[2]>> = Task(k)
  <2>1. Task(j[1]) \in Family(k + 1) => j[1] = k + 1
    BY <1>4, FamiliesApart, IdsAre
  <2> QED
    BY <1>4, <2>1, FamiliesApart
<1> HIDE DEF u, n
<1>6. FinishedTo(task, k, n, u)
  BY <1>1, <1>2, <1>3, FinishedRows
<1>7. Redone(task, u, Task(k), n, n) /\ Stored(task, Task(k))
  BY <1>2, <1>6 DEF FinishedTo, Ongoing, Alive
<1>8. \A j \in Family(k) :
        AsBefore(task, u, j) \/ (Redone(task, u, j, n, n) /\ Stored(task, j))
  <2>1. ASSUME NEW j \in StepsOf(k)
        PROVE  AsBefore(task, u, j) \/ (Redone(task, u, j, n, n) /\ Stored(task, j))
    BY <1>6 DEF FinishedTo, Ongoing, Alive
  <2> QED
    BY <1>4, <1>7, <2>1
<1>9. \A j \in Family(k) :
        /\ u[j].deleted = task[j].deleted /\ u[j].gen = task[j].gen /\ u[j].list = task[j].list
        /\ u[j] = task[j] \/ (Stored(task, j) /\ NewVersion(task[j], u[j], n))
  BY <1>8 DEF AsBefore, Redone, IsChange
<1>10. \A j \in Ids : j \notin Family(k) /\ u[j] # task[j] =>
         /\ repeats /\ j \in Family(k + 1)
         /\ j = Task(k + 1) \/ Alive(task, <<k, j[2]>>)
         /\ NewVersion(task[j], u[j], n) /\ u[j].gen = u[j].version
         /\ u[j].list = task[<<k, j[2]>>].list /\ u[j].deleted = 0
  BY <1>6 DEF FinishedTo, Copied, AsBefore
<1>11. Changes(u, n)
  <2>1. \A j \in Ids : u[j] # task[j] =>
          NewVersion(task[j], u[j], n) /\ u[j].gen \in {task[j].gen, u[j].version}
    BY <1>9, <1>10
  <2> QED
    BY <1>6, <2>1 DEF Changes, FinishedTo
<1>12. Worn(Task(k))
  BY <1>7 DEF Worn, Redone, IsChange, u, n
<1>13. touched' \subseteq Ids
  BY <1>1, <1>2, <1>4 DEF OperationsTypeOK
<1>14. ASSUME NEW j \in touched'
       PROVE  Worn(j) \/ Worn(Task(j[1])) \/ StillWorn(j)
  <2>1. CASE j \in Family(k)
    BY <1>4, <1>12, <2>1
  <2>2. CASE j \notin Family(k)
    <3>1. j \in Ids /\ Task(j[1]) \in Ids /\ j \in touched /\ (repeats => j \notin Family(k + 1))
      BY <1>2, <1>4, <1>13, <2>2
    <3>2. Task(j[1]) \notin Family(k) /\ (repeats => Task(j[1]) \notin Family(k + 1))
      BY <1>4, <1>5, <2>2, <3>1
    <3> QED
      BY <1>10, <2>2, <3>1, <3>2 DEF StillWorn, u
  <2> QED
    BY <2>1, <2>2
<1>15. ASSUME NEW j \in Ids, Alive(task, j)
       PROVE  Alive(u, j)
  <2>1. CASE u[j] = task[j]
    BY <1>15, <2>1 DEF Alive, Stored
  <2>2. CASE u[j] # task[j]
    <3>1. NewVersion(task[j], u[j], n) /\ u[j].deleted \in {task[j].deleted, 0}
      BY <1>9, <1>10, <2>2
    <3>2. task[j].version \in Nat
      BY <1>1
    <3> QED
      BY <1>15, <3>1, <3>2 DEF Alive, Stored, NewVersion
  <2> QED
    BY <2>1, <2>2
<1>16. ASSUME NEW j \in Ids, Alive(u, j), u[j] = task[j] \/ j \in Family(k)
       PROVE  Alive(task, j)
  BY <1>9, <1>16 DEF Alive, Stored
<1>17. repeats => Alive(u, Task(k + 1))
  <2>1. ASSUME repeats
        PROVE  Alive(u, Task(k + 1))
    <3>1. NewVersion(task[Task(k + 1)], u[Task(k + 1)], n) /\ u[Task(k + 1)].deleted = 0
      BY <1>6, <2>1 DEF FinishedTo
    <3>2. task[Task(k + 1)].version \in Nat
      BY <1>1, <1>3, <2>1, IdsAre
    <3> QED
      BY <3>1, <3>2 DEF NewVersion, Alive, Stored
  <2> QED
    BY <2>1
<1>18. StepsFollowTask'
  <2>1. ASSUME NEW j \in Ids, Alive(u, j)
        PROVE  Alive(u, Task(j[1]))
    <3>1. CASE u[j] = task[j] \/ j \in Family(k)
      BY <1>1, <1>4, <1>15, <1>16, <2>1, <3>1 DEF StepsFollowTask
    <3>2. CASE u[j] # task[j] /\ j \notin Family(k)
      BY <1>5, <1>10, <1>17, <3>2
    <3> QED
      BY <3>1, <3>2
  <2> QED
    BY <2>1 DEF StepsFollowTask, u
<1>19. ListsAreLive'
  <2>1. ASSUME NEW j \in Ids, Stored(u, j)
        PROVE  lists[u[j].list] = "live"
    <3>1. CASE u[j] = task[j] \/ j \in Family(k)
      <4>1. u[j].list = task[j].list /\ Stored(task, j)
        BY <1>9, <2>1, <3>1 DEF Stored
      <4> QED
        BY <1>1, <4>1 DEF ListsAreLive
    <3>2. CASE u[j] # task[j] /\ j \notin Family(k)
      <4>1. /\ u[j].list = task[<<k, j[2]>>].list /\ <<k, j[2]>> \in Ids
            /\ Stored(task, <<k, j[2]>>)
        BY <1>4, <1>5, <1>7, <1>10, <3>2 DEF Alive
      <4> QED
        BY <1>1, <4>1 DEF ListsAreLive
    <3> QED
      BY <3>1, <3>2
  <2> QED
    BY <1>2, <2>1 DEF ListsAreLive, u
<1>20. Kept
  BY <1>15, KeptIf DEF u
<1>21. UndoReady'
  <2>1. \A j \in Ids : repeats /\ j \in Family(k + 1) => ~Alive(task, j)
    BY <1>1, <1>3, <1>5 DEF StepsFollowTask
  <2>2. Visible(Reopened(u, k, n + 1)) = Visible(task)
    BY <1>1, <1>2, <1>3, <2>1, CompletionCanBeUndone
  <2>3. shadow'[1] = Task(k) /\ shadow'[2] = Visible(task)
    BY <1>2
  <2>4. u[Task(k)].deleted = 0
    BY <1>2, <1>7 DEF Redone, IsChange, Ongoing, Alive
  <2>5. ~(task'[shadow'[1]].deleted > 0)
    BY <2>3, <2>4 DEF u
  <2>6. ASSUME NEW m \in Occs, shadow'[1] = Task(m)
        PROVE  Visible(Reopened(task', m, time' + 1)) = shadow'[2]
    <3>1. m = k
      BY <1>4, <2>3, <2>6
    <3> QED
      BY <1>2, <2>2, <2>3, <3>1 DEF u
  <2> QED
    BY <1>4, <2>3, <2>5, <2>6 DEF UndoReady
<1> QED
  BY <1>1, <1>2, <1>11, <1>13, <1>14, <1>18, <1>19, <1>20, <1>21, StepIsSafe
  DEF OperationsTypeOK, RowsSound, u, n

LEMMA ReopenIsSafe ==
  ASSUME TodoAssumption, OperationsInvariant, NEW k \in Occs, ReopenTask(k)
  PROVE  SafeStep
<1> DEFINE n == time + 1
           u == task'
           repeats == task[Task(k)].repeat
<1>1. /\ OperationsTypeOK /\ StepsFollowTask /\ ListsAreLive /\ RowsSound /\ TouchedSound
      /\ task \in Rows /\ n \in Nat /\ n # 0
      /\ \A j \in Ids : task[j] \in RowOf(BOOLEAN)
      /\ \A j \in Ids : task[j].version \in Nat
  <2>1. OperationsTypeOK /\ StepsFollowTask /\ ListsAreLive /\ RowsSound /\ TouchedSound
    BY DEF OperationsInvariant
  <2>2. /\ task \in Rows /\ n \in Nat /\ time \in Nat
        /\ \A j \in Ids : task[j] \in RowOf(BOOLEAN)
    BY <2>1, StateIs
  <2> QED
    BY <2>1, <2>2, RowOfIs
<1>2. /\ time < MaxOps /\ time' = n /\ u = Reopened(task, k, n) /\ lists' = lists
      /\ touched' = touched \cup Family(k) /\ shadow' = <<>>
      /\ Alive(task, Task(k)) /\ (repeats => MayUndo(k))
  BY DEF ReopenTask, Apply
<1>3. /\ Task(k) \in Ids /\ Task(k) \in Family(k) /\ StepsOf(k) \subseteq Ids
      /\ Family(k) = {Task(k)} \cup StepsOf(k) /\ Family(k) \subseteq Ids
      /\ \A j \in Family(k) : j[1] = k
      /\ \A j \in Ids : j[1] \in Occs /\ Task(j[1]) \in Ids /\ j \in Family(j[1])
      /\ \A j \in Ids : Task(j[1]) \in Family(k) => j \in Family(k)
  BY IdsAre
<1>4. ASSUME NEW j \in Ids, Task(j[1]) \in Family(k + 1)
      PROVE  j \in Family(k + 1)
  <2>1. Task(j[1]) \in Ids /\ j[1] \in Occs
    BY <1>3
  <2>2. k + 1 \in Occs /\ Task(j[1])[1] = k + 1
    BY <1>4, <2>1, FamiliesApart
  <2>3. j[1] = k + 1
    BY <2>1, <2>2, IdsAre
  <2> QED
    BY <1>3, <2>3
<1> HIDE DEF u, n
<1>5. ReopenedTo(task, k, n, u)
  BY <1>1, <1>2, ReopenedRows
<1>6. \A j \in Family(k) :
        AsBefore(task, u, j) \/ (Redone(task, u, j, n, 0) /\ Stored(task, j))
  <2>1. ASSUME NEW j \in StepsOf(k)
        PROVE  AsBefore(task, u, j) \/ (Redone(task, u, j, n, 0) /\ Stored(task, j))
    BY <1>5 DEF ReopenedTo, Mine, Alive
  <2>2. Redone(task, u, Task(k), n, 0) /\ Stored(task, Task(k))
    BY <1>2, <1>5 DEF ReopenedTo, Alive
  <2> QED
    BY <1>3, <2>1, <2>2
<1>7. \A j \in Family(k) :
        /\ u[j].deleted = task[j].deleted /\ u[j].gen = task[j].gen /\ u[j].list = task[j].list
        /\ u[j] = task[j] \/ (Stored(task, j) /\ NewVersion(task[j], u[j], n))
  BY <1>6 DEF AsBefore, Redone, IsChange
<1>8. \A j \in Ids : j \notin Family(k) /\ u[j] # task[j] =>
        /\ repeats /\ j \in Family(k + 1) /\ Stored(task, j)
        /\ NewVersion(task[j], u[j], n) /\ u[j].gen = task[j].gen
        /\ u[j].list = task[j].list /\ u[j].deleted = n
  BY <1>5 DEF ReopenedTo, Marked, AsBefore, IsChange
<1>9. Changes(u, n)
  <2>1. \A j \in Ids : u[j] # task[j] =>
          NewVersion(task[j], u[j], n) /\ u[j].gen \in {task[j].gen, u[j].version}
    BY <1>7, <1>8
  <2> QED
    BY <1>5, <2>1 DEF Changes, ReopenedTo
<1>10. \A j \in Ids : u[j] # task[j] => Worn(j)
  BY <1>7, <1>8 DEF Worn, u, n
<1>11. Worn(Task(k))
  BY <1>5 DEF ReopenedTo, Redone, IsChange, Worn, u, n
<1>12. touched' \subseteq Ids
  BY <1>1, <1>2, <1>3 DEF OperationsTypeOK
<1>13. ASSUME NEW j \in touched'
       PROVE  Worn(j) \/ Worn(Task(j[1])) \/ StillWorn(j)
  <2>1. CASE j \in Family(k)
    BY <1>3, <1>11, <2>1
  <2>2. CASE j \notin Family(k)
    BY <1>2, <1>3, <1>10, <1>12, <2>2 DEF StillWorn, u
  <2> QED
    BY <2>1, <2>2
<1>14. \A j \in Ids : /\ Stored(u, j) => Stored(task, j) /\ u[j].list = task[j].list
                      /\ Stored(task, j) => Stored(u, j)
  <2>1. ASSUME NEW j \in Ids
        PROVE  /\ Stored(u, j) => Stored(task, j) /\ u[j].list = task[j].list
               /\ Stored(task, j) => Stored(u, j)
    <3>1. CASE u[j] = task[j]
      BY <3>1 DEF Stored
    <3>2. CASE u[j] # task[j]
      <4>1. Stored(task, j) /\ NewVersion(task[j], u[j], n) /\ u[j].list = task[j].list
        BY <1>7, <1>8, <3>2
      <4> QED
        BY <1>1, <4>1 DEF Stored, NewVersion
    <3> QED
      BY <3>1, <3>2
  <2> QED
    BY <2>1
<1>15. \A j \in Family(k) : Alive(u, j) <=> Alive(task, j)
  BY <1>3, <1>7, <1>14 DEF Alive
<1>16. StepsFollowTask'
  <2>1. ASSUME NEW j \in Ids, Alive(u, j)
        PROVE  Alive(u, Task(j[1]))
    <3>1. CASE j \in Family(k)
      BY <1>2, <1>3, <1>15, <3>1
    <3>2. CASE j \notin Family(k)
      <4>1. u[j] = task[j]
        BY <1>1, <1>8, <2>1, <3>2 DEF Alive
      <4>2. Alive(task, j) /\ Alive(task, Task(j[1]))
        BY <1>1, <2>1, <4>1 DEF StepsFollowTask, Alive, Stored
      <4>3. Task(j[1]) \in Ids /\ Task(j[1]) \notin Family(k)
        BY <1>3, <3>2
      <4>4. ~(repeats /\ j \in Family(k + 1))
        <5>1. ASSUME repeats, j \in Family(k + 1)
              PROVE  FALSE
          <6>1. Marked(task, u, j, n, n)
            BY <1>5, <3>2, <4>2, <5>1 DEF ReopenedTo, Alive
          <6> QED
            BY <1>1, <2>1, <6>1 DEF Marked, IsChange, Alive
        <5> QED
          BY <5>1
      <4>5. u[Task(j[1])] = task[Task(j[1])]
        BY <1>4, <1>8, <4>3, <4>4
      <4> QED
        BY <4>2, <4>5 DEF Alive, Stored
    <3> QED
      BY <3>1, <3>2
  <2> QED
    BY <2>1 DEF StepsFollowTask, u
<1>17. ListsAreLive'
  <2>1. \A j \in Ids : Stored(u, j) => lists[u[j].list] = "live"
    BY <1>1, <1>14 DEF ListsAreLive
  <2> QED
    BY <1>2, <2>1 DEF ListsAreLive, u
<1>18. ASSUME NEW m \in Occs, NEW j \in Family(m), Alive(task, j), ~Alive(u, j)
       PROVE  j \notin touched
  <2>1. j \in Ids
    BY <1>18, IdsAre
  <2>2. repeats /\ j \in Family(k + 1) /\ Stored(task, j)
    BY <1>8, <1>15, <1>18, <2>1 DEF Alive, Stored
  <2>3. /\ j[1] = k + 1
        /\ j = Task(k + 1) \/ j \in StepsOf(k + 1)
    <3>1. k + 1 \in Occs /\ j[1] = k + 1
      BY <2>1, <2>2, FamiliesApart
    <3> QED
      BY <2>2, <3>1, IdsAre
  <2>4. Untouched(Task(k + 1)) /\ Untouched(j)
    BY <1>2, <2>2, <2>3 DEF MayUndo, Untouched
  <2> QED
    BY <1>1, <2>2, <2>3, <2>4 DEF TouchedSound
<1>19. Kept
  BY <1>18 DEF Kept, u
<1>20. UndoReady'
  BY <1>2 DEF UndoReady
<1> QED
  BY <1>1, <1>2, <1>9, <1>12, <1>13, <1>16, <1>17, <1>19, <1>20, StepIsSafe
  DEF OperationsTypeOK, RowsSound, u, n

-----------------------------------------------------------------------------

\* The inductive invariant of the operations, and what each step of theirs keeps.
LEMMA NextIsSafe ==
  ASSUME TodoAssumption, OperationsInvariant, [OperationsNext]_operationVars
  PROVE  SafeStep
<1>1. ASSUME NEW i \in Ids, NEW l \in Lists, NEW r \in BOOLEAN, Save(i, l, r)
      PROVE  SafeStep
  BY <1>1, SaveIsSafe
<1>2. ASSUME NEW k \in Occs, CompleteTask(k) \/ ReopenTask(k)
      PROVE  SafeStep
  BY <1>2, CompleteIsSafe, ReopenIsSafe
<1>3. ASSUME NEW i \in Ids, ToggleStep(i) \/ DeleteTask(i) \/ Restore(i)
      PROVE  SafeStep
  BY <1>3, ToggleIsSafe, DeleteIsSafe, RestoreIsSafe
<1>4. ASSUME NEW l \in Lists, CreateList(l) \/ DeleteList(l)
      PROVE  SafeStep
  BY <1>4, CreateListIsSafe, DeleteListIsSafe
<1>5. CASE UNCHANGED operationVars
  <2>1. OperationsInvariant'
    BY <1>5 DEF operationVars, OperationsInvariant, OperationsTypeOK, StepsFollowTask, ListsAreLive,
                RowsSound, TouchedSound, UndoReady, Alive, Stored, Untouched
  <2>2. Versioned /\ Kept
    BY <1>5 DEF operationVars, Versioned, Kept, Alive, Stored
  <2> QED
    BY <2>1, <2>2 DEF SafeStep
<1> QED
  BY <1>1, <1>2, <1>3, <1>4, <1>5 DEF OperationsNext

LEMMA InitIsSafe ==
  ASSUME TodoAssumption, OperationsInit
  PROVE  OperationsInvariant
<1>1. NoRow \in Row
  BY DEF NoRow, Row, Lists, TodoAssumption
<1>2. \A i \in Ids : task[i] = NoRow
  BY DEF OperationsInit
<1>3. OperationsTypeOK
  BY <1>1, <1>2 DEF OperationsInit, OperationsTypeOK, NoRow, Lists, TodoAssumption
<1>4. \A i \in Ids : ~Stored(task, i) /\ ~Alive(task, i)
  BY <1>2 DEF NoRow, Stored, Alive
<1>5. StepsFollowTask /\ ListsAreLive
  BY <1>4 DEF StepsFollowTask, ListsAreLive
<1>6. RowsSound
  BY <1>2 DEF OperationsInit, RowsSound, NoRow, Lists
<1>7. TouchedSound /\ UndoReady
  BY DEF OperationsInit, TouchedSound, UndoReady
<1> QED
  BY <1>3, <1>5, <1>6, <1>7 DEF OperationsInvariant

\* An undo is ready when the operation before it has changed nothing else.
LEMMA UndoIsReady ==
  ASSUME TodoAssumption, OperationsInvariant, shadow # <<>>,
         Restore(shadow[1]) \/ \E k \in Occs : shadow[1] = Task(k) /\ ReopenTask(k)
  PROVE  Visible(task') = shadow[2]
<1>1. UndoReady
  BY DEF OperationsInvariant
<1>2. CASE Restore(shadow[1])
  BY <1>1, <1>2 DEF UndoReady, Restore, MayRestore, Apply
<1>3. ASSUME NEW k \in Occs, shadow[1] = Task(k), ReopenTask(k)
      PROVE  Visible(task') = shadow[2]
  BY <1>1, <1>3 DEF UndoReady, ReopenTask, Apply
<1> QED
  BY <1>2, <1>3

\* The rows of an owner's to-do list (persistence/miniapptodo/operations.go): a step is not
\* left behind by its task, no row is in a deleted list, a row that changes gets a new
\* version, an undone completion deletes nothing that was touched, and an undo is exact.
THEOREM OperationsAreSafeCorrect ==
  ASSUME TodoAssumption
  PROVE  OperationsSpec => OperationsAreSafe
<1>1. OperationsInit => OperationsInvariant
  BY InitIsSafe
<1>2. OperationsInvariant /\ [OperationsNext]_operationVars => SafeStep
  BY NextIsSafe
<1>3. SafeStep => OperationsInvariant'
  BY DEF SafeStep
<1>4. OperationsInvariant => OperationsTypeOK /\ StepsFollowTask /\ ListsAreLive
  BY DEF OperationsInvariant
<1>5. SafeStep => [\A i \in Ids : task'[i] # task[i] =>
                     task'[i].version > task[i].version]_operationVars
  BY DEF SafeStep, Versioned
<1>6. SafeStep =>
        [\A k \in Occs : \A i \in Family(k) :
           /\ task[Task(k)].completed = 0 /\ Alive(task, i) /\ ~Alive(task', i)
           /\ k > 0 /\ task[Task(k - 1)].completed > 0 /\ task'[Task(k - 1)].completed = 0
           => i \notin touched]_operationVars
  BY DEF SafeStep, Kept
<1>7. OperationsInvariant =>
        [shadow # <<>> /\ (Restore(shadow[1]) \/ \E k \in Occs : shadow[1] = Task(k) /\ ReopenTask(k))
           => Visible(task') = shadow[2]]_operationVars
  BY UndoIsReady
<1> QED
  BY <1>1, <1>2, <1>3, <1>4, <1>5, <1>6, <1>7, PTL
  DEF OperationsSpec, OperationsAreSafe, ChangeIsVersioned, UndoKeepsChanges, UndoIsExact
=============================================================================
