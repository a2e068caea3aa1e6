------------------------ MODULE SubscriptionTimeline ------------------------
(***************************************************************************)
(* The subscriptions of one user as rows of periods.  A paid order or a    *)
(* redeemed code grants time of a plan: the timeline is rebuilt so that a  *)
(* better plan comes first and pushes the others back.  An administrator   *)
(* replaces all of it, or takes all of it by setting the free plan; the    *)
(* user may switch to the free plan when nothing paid is left.             *)
(*                                                                         *)
(* A grant is a transaction under READ COMMITTED: its SELECT ... FOR UPDATE*)
(* takes a snapshot of the active rows, waits for those that another       *)
(* transaction holds and then sees their last version, but never a row     *)
(* that was inserted after the snapshot.                                   *)
(*                                                                         *)
(* Time is counted in slots; a period [start, end) has end - start slots.  *)
(***************************************************************************)
EXTENDS Integers, FiniteSets, FiniteSetsExt

CONSTANTS Plans,        \* the paid plans
          Rank,         \* their tiers
          Durations,    \* the lengths of grants
          Terms,        \* the lengths an administrator sets
          Calls,        \* the transactions that may be open at the same time
          Serial,       \* TRUE: they are not open at the same time
          MaxGrants,    \* bound: grants
          Horizon       \* bound: the last slot

\* What the constants must satisfy.
TimelineAssumption ==
  /\ IsFiniteSet(Plans) /\ Rank \in [Plans -> Nat \ {0}]
  /\ Durations \union Terms \subseteq Nat \ {0} /\ Serial \in BOOLEAN
  /\ MaxGrants \in Nat /\ Horizon \in Nat

VARIABLES now,
          subscriptions,         \* the active rows of paid plans
          nextId,       \* the identifier of the next row
          call,         \* what each transaction is doing
          grants,
          switching     \* has "no paid plan" been read for a switch to the free one?

timelineVars == <<now, subscriptions, nextId, call, grants, switching>>

Idle == [at |-> "idle"]

TimelineInit ==
  /\ now = 0 /\ subscriptions = {} /\ nextId = 1 /\ grants = 0 /\ switching = FALSE
  /\ call = [c \in Calls |-> Idle]

-----------------------------------------------------------------------------
(* The timeline: segments [id, plan, start, end]; what is new has the id 0.  *)

\* The order of normalizeSubscriptionTimeline.
Before(s, t) ==
  \/ s.start < t.start
  \/ s.start = t.start /\ Rank[s.plan] > Rank[t.plan]
  \/ s.start = t.start /\ Rank[s.plan] = Rank[t.plan] /\ s.end < t.end

\* Do s and t become one segment?  They do when everything from s to t only differs
\* in time and each begins before the end of what goes before it.
Joined(segs, s, t) ==
  /\ Before(s, t) /\ <<s.id, s.plan>> = <<t.id, t.plan>>
  /\ \A u \in segs : Before(s, u) /\ ~Before(t, u) =>
       /\ <<s.id, s.plan>> = <<u.id, u.plan>>
       /\ \E v \in segs : ~Before(v, s) /\ Before(v, u) /\ u.start <= v.end

Joint(segs, s) == {s} \union {t \in segs : Joined(segs, s, t)}

\* Every segment that is joined to none before it takes in those joined to it.
Normalize(segs) ==
  LET heads == {s \in segs : \A r \in segs : ~Joined(segs, r, s)}
  IN  {[s EXCEPT !.end = Max({t.end : t \in Joint(segs, s)})] : s \in heads}

\* Mutant of Blocks: only higher tiers go first, not what was bought earlier.
BlocksHigher(s, rank, t) == Rank[s.plan] > rank /\ s.start <= t /\ t < s.end

\* A grant does not touch slots of its own or a higher tier.
Blocks(s, rank, t) == Rank[s.plan] >= rank /\ s.start <= t /\ t < s.end

\* The first `length` slots from `start` that nothing blocks.
FreeSlots(segs, rank, start, length) ==
  LET far     == Max({start} \union {s.end : s \in segs}) + length
      free    == {t \in start..far : \A s \in segs : ~Blocks(s, rank, t)}
  IN  {t \in free : Cardinality({u \in free : u < t}) < length}

\* The periods these slots make up: [start, end).
Periods(slots) ==
  LET end(t) == Min({u \in t + 1 .. Max(slots) + 1 : u \notin slots})
  IN  {[start |-> t, end |-> end(t)] : t \in {t \in slots : t - 1 \notin slots}}

Overlaps(s, p) == s.start < p.end /\ p.start < s.end

\* What is left of segment s without these slots.
Remains(s, slots) ==
  {[s EXCEPT !.start = p.start, !.end = p.end] : p \in Periods((s.start .. s.end - 1) \ slots)}

\* Mutant of Cut: a segment cut in two keeps its first part only.
CutFirst(segs, rank, slots) ==
  UNION {IF Rank[s.plan] < rank THEN {r \in Remains(s, slots) : r.start = s.start} ELSE {s} : s \in segs}

\* Lower tiers keep what is left and right of the slots that are taken.
Cut(segs, rank, slots) ==
  UNION {IF Rank[s.plan] < rank THEN Remains(s, slots) ELSE {s} : s \in segs}

\* What period p takes from segment s: it is granted again, behind p and behind what is
\* left of s.  turn is the number of the placement.
Again(s, p, turn) ==
  [ of |-> s, turn |-> turn, at |-> p.start, start |-> Max({p.end, s.end}),
    length |-> Min({s.end, p.end}) - Max({s.start, p.start}) ]

Displaced(segs, rank, periods, turn) ==
  LET hit == {h \in segs \X periods : Rank[h[1].plan] < rank /\ Overlaps(h[1], h[2])}
  IN  {Again(h[1], h[2], turn) : h \in hit}

\* What a placement displaces goes before the grants behind it, in the order of time.
Earlier(g, h) ==
  \/ g.turn > h.turn
  \/ g.turn = h.turn /\ g.at < h.at
  \/ g.turn = h.turn /\ g.at = h.at /\ Before(g.of, h.of)

\* placeSubscriptionTimelineGrant, for the first grant of the queue.
Place(line, turn) ==
  LET g       == CHOOSE g \in line.queue : \A h \in line.queue : ~Earlier(h, g)
      rank    == Rank[g.of.plan]
      slots   == FreeSlots(line.segs, rank, g.start, g.length)
      periods == Periods(slots)
      mine    == {[g.of EXCEPT !.start = p.start, !.end = p.end] : p \in periods}
  IN  [ segs  |-> Normalize(Cut(line.segs, rank, slots) \union mine),
        queue |-> (line.queue \ {g}) \union Displaced(line.segs, rank, periods, turn) ]

\* Placements until the queue is empty: each slot of the grant displaces a slot of a lower
\* tier at most, and that one again.
Build(segs, grant) ==
  LET limit == grant.length * Cardinality(Plans)
      built[n \in 0..limit] ==
        IF n = 0 THEN [segs |-> Normalize(segs), queue |-> {grant}]
        ELSE LET line == built[n - 1]
             IN  IF line.queue = {} THEN line ELSE Place(line, n)
  IN  Normalize(built[limit].segs)

-----------------------------------------------------------------------------
(* grantSubscriptionOnTimeline.                                            *)

Running == {r \in subscriptions : r.end > now}

Segment(r) == [id |-> r.id, plan |-> r.plan, start |-> Max({r.start, now}),
               end |-> r.end]

\* A row is used again for the first of its segments that does not move the
\* beginning of a period under way into the future.
Reused(r, targets) ==
  LET fits == {t \in targets : ~(r.start < now /\ t.start > now)}
  IN  IF fits = {} THEN {} ELSE {CHOOSE t \in fits : \A u \in fits : ~Before(u, t)}

Updated(r, t) ==
  [id |-> r.id, plan |-> t.plan, end |-> t.end,
   start |-> IF r.start < now /\ t.start <= now THEN r.start ELSE t.start]

\* applySubscriptionTimeline: rows without a segment expire, segments without
\* a row get one.
Apply(existing, segs) ==
  LET of(r)   == {s \in segs : s.id = r.id}
      reused  == UNION {Reused(r, of(r)) : r \in existing}
      kept    == UNION {{Updated(r, t) : t \in Reused(r, of(r))} : r \in existing}
      fresh   == segs \ reused
      number  == CHOOSE f \in [fresh -> 1..Cardinality(fresh)] :
                   \A t, u \in fresh : f[t] = f[u] => t = u
      created == {[id |-> nextId + number[t] - 1, plan |-> t.plan,
                   start |-> t.start, end |-> t.end] : t \in fresh}
  IN  /\ subscriptions' = (subscriptions \ existing) \union kept \union created
      /\ nextId' = nextId + Cardinality(fresh)

\* The assumption of the runs in which nothing overlaps.
Alone == Serial => ~switching /\ \A c \in Calls : call[c].at = "idle"

\* SELECT ... FOR UPDATE, first half: the snapshot.
Read(c, p, d) ==
  /\ call[c].at = "idle" /\ grants < MaxGrants
  /\ Alone
  /\ grants' = grants + 1
  /\ call' = [call EXCEPT ![c] = [at |-> "read", plan |-> p, length |-> d,
                                  ids |-> {r.id : r \in Running}]]
  /\ UNCHANGED <<now, subscriptions, nextId, switching>>

\* Second half: the locks of its rows, once nobody else holds one of them.
Lock(c) ==
  /\ call[c].at = "read"
  /\ \A b \in Calls : call[b].at = "locked" => call[b].ids \intersect call[c].ids = {}
  /\ call' = [call EXCEPT ![c].at = "locked"]
  /\ UNCHANGED <<now, subscriptions, nextId, grants, switching>>

\* What is granted: time of a plan from now on, in a row of its own.
Grant(p, d) ==
  [ of |-> [id |-> 0, plan |-> p, start |-> now, end |-> now],
    turn |-> 0, at |-> now, start |-> now, length |-> d ]

Commit(c) ==
  LET g        == call[c]
      existing == {r \in Running : r.id \in g.ids}
  IN  /\ g.at = "locked"
      /\ Apply(existing, Build({Segment(r) : r \in existing}, Grant(g.plan, g.length)))
      /\ call' = [call EXCEPT ![c] = Idle]
      /\ UNCHANGED <<now, grants, switching>>

-----------------------------------------------------------------------------
(* ReplaceSubscription.                                                    *)

NobodyLocked == \A c \in Calls : call[c].at # "locked"

\* SetUserSubscriptionByPlanCode: an administrator sets plan and expiry.  Subscribe to a plan
\* that costs nothing does the same, and asks nobody what the user has paid for.
Set(p, d) ==
  /\ NobodyLocked /\ Alone /\ grants < MaxGrants
  /\ grants' = grants + 1
  /\ subscriptions' = {[id |-> nextId, plan |-> p, start |-> now, end |-> now + d]}
  /\ nextId' = nextId + 1
  /\ UNCHANGED <<now, call, switching>>

\* SetUserSubscriptionByPlanCode with the free plan, or none: everything paid expires, unasked.
SetFree ==
  /\ NobodyLocked /\ Alone /\ grants < MaxGrants
  /\ grants' = grants + 1
  /\ subscriptions' = {}
  /\ UNCHANGED <<now, nextId, call, switching>>

\* Subscribe to the free plan: first it is read that nothing paid is left ...
CheckFree ==
  /\ Alone /\ ~switching /\ Running = {}
  /\ switching' = TRUE
  /\ UNCHANGED <<now, subscriptions, nextId, call, grants>>

\* ... then, in a transaction, every active row expires for the free one.
SwitchToFree ==
  /\ switching /\ NobodyLocked
  /\ switching' = FALSE
  /\ subscriptions' = {}
  /\ UNCHANGED <<now, nextId, call, grants>>

\* A transaction takes less than a slot.
Advance ==
  /\ now < Horizon
  /\ ~switching /\ \A c \in Calls : call[c].at = "idle"
  /\ now' = now + 1
  /\ subscriptions' = {r \in subscriptions : r.end > now + 1}
  /\ UNCHANGED <<nextId, call, grants, switching>>

TimelineNext ==
  \/ \E c \in Calls, p \in Plans, d \in Durations : Read(c, p, d)
  \/ \E c \in Calls : Lock(c) \/ Commit(c)
  \/ \E p \in Plans, d \in Terms : Set(p, d)
  \/ SetFree \/ CheckFree \/ SwitchToFree \/ Advance

TimelineSpec == TimelineInit /\ [][TimelineNext]_timelineVars

-----------------------------------------------------------------------------
(* Properties.                                                             *)

Row == [id : Nat \ {0}, plan : Plans, start : Nat, end : Nat]

CallRecord ==
  {Idle} \union [at : {"read", "locked"}, plan : Plans, length : Durations, ids : SUBSET Nat]

TimelineTypeOK ==
  /\ now \in 0..Horizon /\ grants \in 0..MaxGrants /\ nextId \in Nat \ {0}
  /\ switching \in BOOLEAN /\ call \in [Calls -> CallRecord]
  /\ subscriptions \subseteq Row /\ IsFiniteSet(subscriptions)
  /\ \A r \in subscriptions : r.id < nextId /\ now < r.end /\ r.start < r.end
  /\ \A r, s \in subscriptions : r.id = s.id => r = s

\* selectCurrentSubscription: the plan in force.
Current == {r.plan : r \in {r \in subscriptions : r.start <= now}}

\* Periods of one user do not overlap, leave no gap from now on, and a better
\* plan comes before a lesser one: nothing waits behind what is worth less.
Contiguous ==
  /\ \A r, s \in subscriptions : r # s => ~Overlaps(r, s)
  /\ \A r \in subscriptions : r.start > now => \E s \in subscriptions : s.end = r.start
  /\ \A r, s \in subscriptions : r.start < s.start => Rank[r.plan] >= Rank[s.plan]

\* The safety of the timeline.
TimelineSafety == TimelineTypeOK /\ Contiguous

\* The inductive invariant behind it, for calls that do not overlap: the rows that a grant
\* has read are the rows there are.
CallsSound ==
  \A c \in Calls : call[c].at # "idle" =>
    /\ ~switching
    /\ \A b \in Calls : b # c => call[b].at = "idle"
    /\ call[c].ids = {r.id : r \in subscriptions}

\* A switch to the free plan ends nothing, and what is read for it stays so.
FreeIsEmpty == switching => subscriptions = {}

TimelineInvariant == TimelineTypeOK /\ Contiguous /\ CallsSound /\ FreeIsEmpty

\* The time left for a plan, however it is spread over rows: the slots from now on.
SlotsOf(segs, p) == UNION {s.start .. s.end - 1 : s \in {s \in segs : s.plan = p}}

Left(p) == Cardinality({t \in SlotsOf(subscriptions, p) : t >= now})

Bank == INSTANCE SubscriptionBank WITH Durations <- Durations \union Terms,
                                         left <- [p \in Plans |-> Left(p)]

\* The timeline is a bank of time per plan that always spends the best plan:
\* no grant shortens what was bought before, whichever tier displaces which,
\* and no slot passes for a plan while a better one waits.  Only an administrator takes time.
ImplementsBank == Bank!Spec

-----------------------------------------------------------------------------
(* What the code does not keep: TLC finds a behaviour that violates each.  *)

\* The user interface promises that an upgrade preserves what is unused, and
\* that nobody switches to the free plan before what is paid has expired.  So a
\* grant adds its slots to those that are covered already ...
Covered == UNION {{t \in now..r.end - 1 : t >= r.start} : r \in subscriptions}
PaidTimeIsKept ==
  [][\A c \in Calls :
       Commit(c) => Cardinality(Covered') = Cardinality(Covered) + call[c].length]_timelineVars

\* ... and the switch to the free plan ends nothing that is paid.
FreeOnlyWhenEmpty == [][SwitchToFree => subscriptions = {}]_timelineVars
=============================================================================
