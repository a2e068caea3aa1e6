--------------------------- MODULE TimelineProofs ---------------------------
(***************************************************************************)
(* The subscription timeline for every set of plans, tiers, lengths and    *)
(* bounds: what a rebuilding of the timeline keeps of its order, and the   *)
(* invariant of the rows.                                                  *)
(***************************************************************************)
EXTENDS SubscriptionTimeline, FiniteSetTheorems, FunctionTheorems, WellFoundedInduction, TLAPS

-----------------------------------------------------------------------------
(* Finite sets: least elements, greatest numbers, images.                  *)

\* Induction up to m, as a statement about sets of numbers.
LEMMA Induction ==
  ASSUME NEW m \in Nat, NEW T, 0 \in T, \A n \in 0..(m - 1) : n \in T => n + 1 \in T
  PROVE  \A n \in 0..m : n \in T
<1> DEFINE Out == {n \in 0..m : n \notin T}
<1> SUFFICES ASSUME Out # {} PROVE FALSE
  OBVIOUS
<1>1. IsWellFoundedOn(OpToRel(<, Nat), Nat)
  BY NatLessThanWellFounded
<1>2. Out \subseteq Nat
  OBVIOUS
<1>3. PICK x \in Out : \A y \in Out : ~(<<y, x>> \in OpToRel(<, Nat))
  BY <1>1, <1>2, WFMin
<1>4. \A y \in Out : ~(y < x)
  BY <1>2, <1>3 DEF OpToRel
<1>5. x \in 0..m /\ x \notin T /\ x # 0
  OBVIOUS
<1>6. x - 1 \in 0..(m - 1) /\ x - 1 \in 0..m /\ x - 1 < x /\ (x - 1) + 1 = x
  BY <1>5
<1>7. x - 1 \in T
  BY <1>4, <1>6
<1> QED BY <1>5, <1>6, <1>7

\* A relation that orders S strictly.
Orders(R, S) ==
  /\ \A x \in S : <<x, x>> \notin R
  /\ \A x, y, z \in S : <<x, y>> \in R /\ <<y, z>> \in R => <<x, z>> \in R

Least(R, S) == \E x \in S : \A y \in S : <<y, x>> \notin R

\* A finite set that is not empty has a least element.
LEMMA FiniteSetHasLeast ==
  ASSUME NEW S, IsFiniteSet(S), S # {}, NEW R, Orders(R, S)
  PROVE  Least(R, S)
<1> DEFINE T == {n \in Nat : \A U \in SUBSET S : U # {} /\ Cardinality(U) = n => Least(R, U)}
           m == Cardinality(S)
<1>1. m \in Nat /\ \A U \in SUBSET S : IsFiniteSet(U) /\ Cardinality(U) \in Nat
  BY FS_CardinalityType, FS_Subset
<1>2. 0 \in T
  BY <1>1, FS_EmptySet
<1>3. ASSUME NEW n \in 0..(m - 1), n \in T
      PROVE  n + 1 \in T
  <2> SUFFICES ASSUME NEW U \in SUBSET S, U # {}, Cardinality(U) = n + 1
               PROVE  Least(R, U)
    BY <1>1
  <2>1. PICK x \in U : TRUE
    OBVIOUS
  <2> DEFINE V == U \ {x}
  <2>2. V \in SUBSET S /\ Cardinality(V) = n
    <3>1. IsFiniteSet(U) /\ n \in Nat
      BY <1>1
    <3>2. Cardinality(V) = Cardinality(U) - 1
      BY <2>1, <3>1, FS_RemoveElement
    <3> QED BY <3>1, <3>2
  <2>3. CASE V = {}
    <3>1. \A y \in U : y = x
      BY <2>3
    <3> QED BY <2>1, <3>1 DEF Least, Orders
  <2>4. CASE V # {}
    <3>1. Least(R, V)
      BY <1>3, <2>2, <2>4
    <3>2. PICK z \in V : \A y \in V : <<y, z>> \notin R
      BY <3>1 DEF Least
    <3>3. CASE <<x, z>> \in R
      <4>1. \A y \in U : <<y, x>> \notin R
        <5> SUFFICES ASSUME NEW y \in U, <<y, x>> \in R PROVE FALSE
          OBVIOUS
        <5>1. y # x
          BY DEF Orders
        <5>2. <<y, z>> \in R
          BY <2>1, <3>2, <3>3 DEF Orders
        <5> QED BY <3>2, <5>1, <5>2
      <4> QED BY <2>1, <4>1 DEF Least
    <3>4. CASE <<x, z>> \notin R
      BY <3>2, <3>4 DEF Least
    <3> QED BY <3>3, <3>4
  <2> QED BY <2>3, <2>4
<1> HIDE DEF T
<1>4. \A n \in 0..m : n \in T
  BY <1>1, <1>2, <1>3, Induction
<1> QED BY <1>1, <1>4 DEF T

LEMMA MaxIs ==
  ASSUME NEW S, S \subseteq Int, IsFiniteSet(S), S # {}
  PROVE  Max(S) \in S /\ \A x \in S : x <= Max(S)
<1> DEFINE R == {p \in S \X S : p[1] > p[2]}
<1>1. Orders(R, S)
  BY DEF Orders
<1>2. Least(R, S)
  BY <1>1, FiniteSetHasLeast
<1>3. \E x \in S : \A y \in S : x >= y
  <2>1. \A x, y \in S : <<y, x>> \notin R => x >= y
    OBVIOUS
  <2> HIDE DEF R
  <2> QED BY <1>2, <2>1 DEF Least
<1> QED BY <1>3 DEF Max

LEMMA MinIs ==
  ASSUME NEW S, S \subseteq Int, IsFiniteSet(S), S # {}
  PROVE  Min(S) \in S /\ \A x \in S : Min(S) <= x
<1> DEFINE R == {p \in S \X S : p[1] < p[2]}
<1>1. Orders(R, S)
  BY DEF Orders
<1>2. Least(R, S)
  BY <1>1, FiniteSetHasLeast
<1>3. \E x \in S : \A y \in S : x =< y
  <2>1. \A x, y \in S : <<y, x>> \notin R => x =< y
    OBVIOUS
  <2> HIDE DEF R
  <2> QED BY <1>2, <2>1 DEF Least
<1> QED BY <1>3 DEF Min

LEMMA ImageIsFinite ==
  ASSUME NEW S, IsFiniteSet(S), NEW f
  PROVE  IsFiniteSet({f[x] : x \in S})
<1> DEFINE T == {f[x] : x \in S}
           g == [x \in S |-> f[x]]
<1>1. g \in Surjection(S, T)
  BY DEF Surjection
<1> QED BY <1>1, FS_Surjection

-----------------------------------------------------------------------------
(* Segments and the order of normalizeSubscriptionTimeline.                *)

Segs == [id : Nat, plan : Plans, start : Nat, end : Nat]

\* Finitely many segments, none of them empty.
SegsSound(segs) ==
  /\ segs \subseteq Segs /\ IsFiniteSet(segs)
  /\ \A s \in segs : s.start < s.end

\* Before is a strict weak order that looks at the start first.
LEMMA BeforeIs ==
  ASSUME TimelineAssumption
  PROVE  /\ \A s \in Segs : ~Before(s, s)
         /\ \A s, t, u \in Segs : Before(s, t) /\ Before(t, u) => Before(s, u)
         /\ \A s, t, u \in Segs : ~Before(s, t) /\ ~Before(t, u) => ~Before(s, u)
         /\ \A s, t \in Segs : Before(s, t) => s.start <= t.start
         /\ \A s, t \in Segs : s.start < t.start => Before(s, t)
<1> DEFINE At(s) == s.start
           Till(s) == s.end
           Tier(s) == Rank[s.plan]
<1>1. \A s \in Segs : At(s) \in Nat /\ Till(s) \in Nat /\ Tier(s) \in Nat
  BY DEF Segs, TimelineAssumption
<1>2. \A s, t \in Segs : Before(s, t) <=>
        \/ At(s) < At(t)
        \/ At(s) = At(t) /\ Tier(s) > Tier(t)
        \/ At(s) = At(t) /\ Tier(s) = Tier(t) /\ Till(s) < Till(t)
  BY DEF Before
<1>3. \A s, t \in Segs : (s.start < t.start <=> At(s) < At(t)) /\ (s.start <= t.start <=> At(s) <= At(t))
  OBVIOUS
<1> HIDE DEF At, Till, Tier
<1> QED BY <1>1, <1>2, <1>3

LEMMA FirstSegment ==
  ASSUME TimelineAssumption, NEW S, S \subseteq Segs, IsFiniteSet(S), S # {}
  PROVE  \E s \in S : \A t \in S : ~Before(t, s)
<1> DEFINE R == {p \in S \X S : Before(p[1], p[2])}
<1>1. \A s, t \in S : <<s, t>> \in R <=> Before(s, t)
  OBVIOUS
<1> HIDE DEF R
<1>2. Orders(R, S)
  BY <1>1, BeforeIs DEF Orders
<1>3. Least(R, S)
  BY <1>2, FiniteSetHasLeast
<1> QED BY <1>1, <1>3 DEF Least

LEMMA LastSegment ==
  ASSUME TimelineAssumption, NEW S, S \subseteq Segs, IsFiniteSet(S), S # {}
  PROVE  \E s \in S : \A t \in S : ~Before(s, t)
<1> DEFINE R == {p \in S \X S : Before(p[2], p[1])}
<1>1. \A s, t \in S : <<s, t>> \in R <=> Before(t, s)
  OBVIOUS
<1> HIDE DEF R
<1>2. Orders(R, S)
  BY <1>1, BeforeIs DEF Orders
<1>3. Least(R, S)
  BY <1>2, FiniteSetHasLeast
<1> QED BY <1>1, <1>3 DEF Least

-----------------------------------------------------------------------------
(* Normalize: heads and what is joined to them.                            *)

SameKey(s, t) == s.id = t.id /\ s.plan = t.plan

LEMMA JoinedIs ==
  ASSUME NEW segs, NEW s, NEW t
  PROVE  Joined(segs, s, t) <=>
           /\ Before(s, t) /\ SameKey(s, t)
           /\ \A u \in segs : Before(s, u) /\ ~Before(t, u) =>
                /\ SameKey(s, u)
                /\ \E v \in segs : ~Before(v, s) /\ Before(v, u) /\ u.start <= v.end
BY DEF Joined, SameKey

LEMMA JoinedPrefix ==
  ASSUME TimelineAssumption, NEW segs, segs \subseteq Segs,
         NEW s \in segs, NEW t \in segs, NEW u \in segs,
         Joined(segs, s, t), Before(s, u), ~Before(t, u)
  PROVE  Joined(segs, s, u)
<1>1. \A w \in segs : ~Before(u, w) => ~Before(t, w)
  BY BeforeIs
<1> QED BY <1>1, JoinedIs

LEMMA JoinedTransitive ==
  ASSUME TimelineAssumption, NEW segs, segs \subseteq Segs,
         NEW s \in segs, NEW t \in segs, NEW u \in segs,
         Joined(segs, s, t), Joined(segs, t, u)
  PROVE  Joined(segs, s, u)
<1>1. Before(s, t) /\ Before(t, u) /\ Before(s, u) /\ SameKey(s, t) /\ SameKey(s, u)
  BY JoinedIs, BeforeIs DEF SameKey
<1>2. ASSUME NEW w \in segs, Before(s, w), ~Before(u, w)
      PROVE  /\ SameKey(s, w)
             /\ \E v \in segs : ~Before(v, s) /\ Before(v, w) /\ w.start <= v.end
  <2>1. CASE ~Before(t, w)
    BY <1>2, <2>1, JoinedIs
  <2>2. CASE Before(t, w)
    <3>1. SameKey(t, w)
      BY <1>2, <2>2, JoinedIs
    <3>2. PICK v \in segs : ~Before(v, t) /\ Before(v, w) /\ w.start <= v.end
      BY <1>2, <2>2, JoinedIs
    <3>3. ~Before(v, s)
      BY <1>1, <3>2, BeforeIs
    <3> QED BY <1>1, <3>1, <3>2, <3>3 DEF SameKey
  <2> QED BY <2>1, <2>2
<1> QED BY <1>1, <1>2, JoinedIs

IsHead(segs, h) == h \in segs /\ \A r \in segs : ~Joined(segs, r, h)

\* Every segment belongs to a head.
LEMMA HeadOf ==
  ASSUME TimelineAssumption, NEW segs, SegsSound(segs), NEW t \in segs
  PROVE  \E h \in segs : IsHead(segs, h) /\ t \in Joint(segs, h)
<1> DEFINE S == {g \in segs : g = t \/ Joined(segs, g, t)}
<1>1. S \subseteq Segs /\ IsFiniteSet(S) /\ t \in S
  BY FS_Subset DEF SegsSound
<1>2. PICK h \in S : \A g \in S : ~Before(g, h)
  BY <1>1, FirstSegment
<1>3. ASSUME NEW r \in segs, Joined(segs, r, h) PROVE FALSE
  <2>1. Joined(segs, r, t)
    BY <1>2, <1>3, JoinedTransitive DEF SegsSound
  <2>2. Before(r, h)
    BY <1>3, JoinedIs
  <2> QED BY <1>2, <2>1, <2>2
<1> QED BY <1>2, <1>3 DEF IsHead, Joint

\* What is joined to s.
LEMMA JointIs ==
  ASSUME TimelineAssumption, NEW segs, SegsSound(segs), NEW s \in segs
  PROVE  /\ Joint(segs, s) \subseteq segs /\ s \in Joint(segs, s)
         /\ \A t \in Joint(segs, s) : SameKey(s, t) /\ s.start <= t.start
         /\ Max({t.end : t \in Joint(segs, s)}) \in Nat
         /\ \E t \in Joint(segs, s) : Max({u.end : u \in Joint(segs, s)}) = t.end
         /\ \A t \in Joint(segs, s) : t.end <= Max({u.end : u \in Joint(segs, s)})
<1>1. Joint(segs, s) \subseteq segs /\ s \in Joint(segs, s)
  BY DEF Joint
<1>2. \A t \in Joint(segs, s) : SameKey(s, t) /\ s.start <= t.start
  BY JoinedIs, BeforeIs DEF Joint, SameKey, SegsSound, Segs
<1> DEFINE J == Joint(segs, s)
           ends == {t.end : t \in J}
           f == [t \in J |-> t.end]
<1>3. IsFiniteSet(J)
  BY <1>1, FS_Subset DEF SegsSound
<1>4. ends = {f[t] : t \in J}
  OBVIOUS
<1>5. ends \subseteq Nat /\ ends # {}
  BY <1>1 DEF SegsSound, Segs
<1> HIDE DEF f, J
<1>6. IsFiniteSet(ends)
  BY <1>3, <1>4, ImageIsFinite
<1>7. Max(ends) \in ends /\ \A x \in ends : x <= Max(ends)
  <2> HIDE DEF ends
  <2>1. ends \subseteq Int
    BY <1>5
  <2> QED BY <1>5, <1>6, <2>1, MaxIs
<1> QED BY <1>1, <1>2, <1>5, <1>7 DEF J

\* What becomes of head h.
Merged(segs, h) == [h EXCEPT !.end = Max({t.end : t \in Joint(segs, h)})]

LEMMA NormalizeIs ==
  ASSUME NEW segs
  PROVE  /\ \A m \in Normalize(segs) : \E h \in segs : IsHead(segs, h) /\ m = Merged(segs, h)
         /\ \A h \in segs : IsHead(segs, h) => Merged(segs, h) \in Normalize(segs)
BY DEF Normalize, IsHead, Merged

LEMMA MergedIs ==
  ASSUME TimelineAssumption, NEW segs, SegsSound(segs), NEW h \in segs
  PROVE  /\ Merged(segs, h) \in Segs /\ SameKey(h, Merged(segs, h))
         /\ Merged(segs, h).start = h.start
         /\ \E t \in Joint(segs, h) : Merged(segs, h).end = t.end
         /\ \A t \in Joint(segs, h) : t.end <= Merged(segs, h).end
<1>1. h \in Segs
  BY DEF SegsSound
<1> DEFINE x == Max({t.end : t \in Joint(segs, h)})
<1>2. /\ x \in Nat /\ \E t \in Joint(segs, h) : x = t.end
      /\ \A t \in Joint(segs, h) : t.end <= x
  BY JointIs
<1>3. Merged(segs, h) = [h EXCEPT !.end = x]
  BY DEF Merged
<1> HIDE DEF x
<1>4. LET m == [h EXCEPT !.end = x]
      IN  m \in Segs /\ SameKey(h, m) /\ m.start = h.start /\ m.end = x
  BY <1>1, <1>2 DEF Segs, SameKey
<1> QED BY <1>2, <1>3, <1>4

LEMMA NormalizeSound ==
  ASSUME TimelineAssumption, NEW segs, SegsSound(segs)
  PROVE  SegsSound(Normalize(segs))
<1>1. ASSUME NEW m \in Normalize(segs)
      PROVE  m \in Segs /\ m.start < m.end
  <2>1. PICK h \in segs : IsHead(segs, h) /\ m = Merged(segs, h)
    BY NormalizeIs
  <2>2. h.start < h.end /\ h.end <= m.end /\ m.start = h.start /\ m \in Segs /\ h \in Segs
    BY <2>1, MergedIs, JointIs DEF SegsSound
  <2> QED BY <2>2 DEF Segs
<1> DEFINE f == [h \in segs |-> Merged(segs, h)]
<1>2. IsFiniteSet({f[h] : h \in segs})
  BY ImageIsFinite DEF SegsSound
<1>3. Normalize(segs) \subseteq {f[h] : h \in segs}
  BY NormalizeIs
<1>4. IsFiniteSet(Normalize(segs))
  BY <1>2, <1>3, FS_Subset
<1> QED BY <1>1, <1>4 DEF SegsSound

-----------------------------------------------------------------------------
(* Timelines without gaps: what Normalize keeps.                           *)

Disjoint(segs) == \A s, t \in segs : s # t => ~Overlaps(s, t)

\* From `from` on there is no gap, and better tiers come first.
InOrder(segs, from) ==
  /\ \A s \in segs : from <= s.start
  /\ Disjoint(segs)
  /\ \A s, t \in segs : s.start < t.start => Rank[s.plan] >= Rank[t.plan]
  /\ \A s \in segs : s.start > from => \E t \in segs : t.end = s.start

\* The tiers from `rank` up reach t.
Reaches(segs, rank, from, t) ==
  t = from \/ \E s \in segs : Rank[s.plan] >= rank /\ t <= s.end

\* Segments that do not overlap are ordered by their start.
LEMMA DisjointIs ==
  ASSUME TimelineAssumption, NEW segs, SegsSound(segs), Disjoint(segs)
  PROVE  /\ \A s, t \in segs : s.start <= t.start /\ s # t => s.end <= t.start /\ s.start < t.start
         /\ \A s, t \in segs : Before(s, t) <=> s.start < t.start
<1>1. \A s, t \in segs : s.start \in Nat /\ s.end \in Nat /\ s.start < s.end
  BY DEF SegsSound, Segs
<1>2. \A s, t \in segs : s.start <= t.start /\ s # t => s.end <= t.start /\ s.start < t.start
  BY <1>1 DEF Disjoint, Overlaps
<1>3. \A s, t \in segs : Before(s, t) => s # t /\ s.start <= t.start
  BY BeforeIs DEF SegsSound
<1>4. \A s, t \in segs : s.start < t.start => Before(s, t)
  BY BeforeIs DEF SegsSound
<1> QED BY <1>2, <1>3, <1>4

\* What is joined to a head ends before a later head begins.
LEMMA GroupsApart ==
  ASSUME TimelineAssumption, NEW segs, SegsSound(segs), Disjoint(segs),
         NEW g \in segs, NEW h \in segs, IsHead(segs, h), g.start < h.start,
         NEW t \in Joint(segs, g)
  PROVE  t.end <= h.start
<1>1. t \in segs /\ segs \subseteq Segs
  BY JointIs DEF SegsSound
<1>2. \A s, u \in segs : Before(s, u) <=> s.start < u.start
  BY DisjointIs
<1>3. t.start < h.start
  <2> SUFFICES ASSUME ~(t.start < h.start) PROVE FALSE
    OBVIOUS
  <2>1. t # g
    OBVIOUS
  <2>2. Joined(segs, g, t)
    BY <2>1 DEF Joint
  <2>3. Before(g, h) /\ ~Before(t, h)
    BY <1>1, <1>2
  <2>4. Joined(segs, g, h)
    BY <1>1, <2>2, <2>3, JoinedPrefix
  <2> QED BY <2>4 DEF IsHead
<1>4. t # h
  BY <1>1, <1>3 DEF Segs
<1> QED BY <1>1, <1>3, <1>4, DisjointIs DEF Segs

LEMMA NormalizeInOrder ==
  ASSUME TimelineAssumption, NEW segs, SegsSound(segs), NEW from \in Nat, InOrder(segs, from)
  PROVE  InOrder(Normalize(segs), from)
<1>1. Disjoint(segs)
  BY DEF InOrder
<1>2. \A m \in Normalize(segs) : \E h \in segs : IsHead(segs, h) /\ m = Merged(segs, h)
  BY NormalizeIs
<1>3. \A h \in segs : /\ Merged(segs, h).start = h.start
                       /\ Merged(segs, h).plan = h.plan
                       /\ h.start \in Nat /\ h.end \in Nat /\ Merged(segs, h).end \in Nat
  BY MergedIs DEF SameKey, SegsSound, Segs
<1>4. \A g, h \in segs : IsHead(segs, h) /\ g.start < h.start => Merged(segs, g).end <= h.start
  <2> SUFFICES ASSUME NEW g \in segs, NEW h \in segs, IsHead(segs, h), g.start < h.start
               PROVE  Merged(segs, g).end <= h.start
    OBVIOUS
  <2>1. PICK t \in Joint(segs, g) : Merged(segs, g).end = t.end
    BY MergedIs
  <2> QED BY <1>1, <2>1, GroupsApart
<1>5. Disjoint(Normalize(segs))
  <2> SUFFICES ASSUME NEW m \in Normalize(segs), NEW n \in Normalize(segs), m # n
               PROVE  ~Overlaps(m, n)
    BY DEF Disjoint
  <2>1. PICK g \in segs : IsHead(segs, g) /\ m = Merged(segs, g)
    BY <1>2
  <2>2. PICK h \in segs : IsHead(segs, h) /\ n = Merged(segs, h)
    BY <1>2
  <2>3. g.start < h.start \/ h.start < g.start
    <3>1. g # h
      BY <2>1, <2>2
    <3> QED BY <1>1, <1>3, <3>1, DisjointIs
  <2>4. m.end <= n.start \/ n.end <= m.start
    BY <1>3, <1>4, <2>1, <2>2, <2>3
  <2>5. m.start \in Nat /\ m.end \in Nat /\ n.start \in Nat /\ n.end \in Nat
    BY <1>3, <2>1, <2>2
  <2> QED BY <2>4, <2>5 DEF Overlaps
<1>6. \A m, n \in Normalize(segs) : m.start < n.start => Rank[m.plan] >= Rank[n.plan]
  BY <1>2, <1>3 DEF InOrder
<1>7. ASSUME NEW n \in Normalize(segs), n.start > from
      PROVE  \E m \in Normalize(segs) : m.end = n.start
  <2>1. PICK h \in segs : IsHead(segs, h) /\ n = Merged(segs, h)
    BY <1>2
  <2>2. PICK t \in segs : t.end = h.start
    BY <1>3, <1>7, <2>1 DEF InOrder
  <2>3. PICK g \in segs : IsHead(segs, g) /\ t \in Joint(segs, g)
    BY HeadOf
  <2>4. g.start <= t.start /\ t.start < t.end /\ t.start \in Nat
    BY <2>3, JointIs DEF SegsSound, Segs
  <2>5. t.end <= Merged(segs, g).end
    BY <2>3, MergedIs
  <2>6. Merged(segs, g).end <= h.start
    BY <1>3, <1>4, <2>1, <2>2, <2>4
  <2>7. Merged(segs, g).end = n.start
    BY <1>3, <2>1, <2>2, <2>5, <2>6
  <2> QED BY <2>3, <2>7, NormalizeIs
<1>8. \A m \in Normalize(segs) : from <= m.start
  BY <1>2, <1>3 DEF InOrder
<1> QED BY <1>5, <1>6, <1>7, <1>8 DEF InOrder

LEMMA NormalizeReaches ==
  ASSUME TimelineAssumption, NEW segs, SegsSound(segs), NEW from \in Nat,
         NEW rank \in Nat, NEW t \in Nat, Reaches(segs, rank, from, t)
  PROVE  Reaches(Normalize(segs), rank, from, t)
<1>1. CASE t = from
  BY <1>1 DEF Reaches
<1>2. CASE t # from
  <2>1. PICK s \in segs : Rank[s.plan] >= rank /\ t <= s.end
    BY <1>2 DEF Reaches
  <2>2. PICK h \in segs : IsHead(segs, h) /\ s \in Joint(segs, h)
    BY HeadOf
  <2>3. s.end <= Merged(segs, h).end /\ Merged(segs, h).plan = s.plan
    <3>1. SameKey(h, s)
      BY <2>2, JointIs
    <3>2. SameKey(h, Merged(segs, h)) /\ s.end <= Merged(segs, h).end
      BY <2>2, MergedIs
    <3> QED BY <3>1, <3>2 DEF SameKey
  <2>4. s.end \in Nat /\ Merged(segs, h).end \in Nat
    BY <2>2, MergedIs DEF SegsSound, Segs
  <2>5. Merged(segs, h) \in Normalize(segs)
    BY <2>2, NormalizeIs
  <2> QED BY <2>1, <2>3, <2>4, <2>5 DEF Reaches
<1> QED BY <1>1, <1>2

-----------------------------------------------------------------------------
(* Slots and periods.                                                      *)

\* The last slot that Slots looks at.
LEMMA FarIs ==
  ASSUME TimelineAssumption, NEW segs, SegsSound(segs), NEW start \in Nat
  PROVE  /\ Max({start} \union {s.end : s \in segs}) \in Nat
         /\ start <= Max({start} \union {s.end : s \in segs})
         /\ \A s \in segs : s.end <= Max({start} \union {t.end : t \in segs})
<1> DEFINE f == [s \in segs |-> s.end]
           ends == {s.end : s \in segs}
           all == {start} \union ends
<1>1. ends = {f[s] : s \in segs} /\ ends \subseteq Nat
  BY DEF SegsSound, Segs
<1>2. \A s \in segs : s.end \in ends
  OBVIOUS
<1> HIDE DEF f, ends
<1>3. IsFiniteSet(ends)
  BY <1>1, ImageIsFinite DEF SegsSound
<1>4. IsFiniteSet(all)
  BY <1>3, FS_Singleton, FS_Union
<1>5. all \subseteq Int /\ all # {} /\ all \subseteq Nat
  BY <1>1
<1>6. start \in all /\ \A s \in segs : s.end \in all
  BY <1>2
<1> HIDE DEF all
<1>7. Max(all) \in all /\ \A x \in all : x <= Max(all)
  BY <1>4, <1>5, MaxIs
<1> QED BY <1>5, <1>6, <1>7 DEF all, ends

LEMMA SlotsAre ==
  ASSUME TimelineAssumption, NEW segs, SegsSound(segs), NEW start \in Nat, NEW length \in Nat,
         NEW rank \in Nat
  PROVE  /\ FreeSlots(segs, rank, start, length) \subseteq Nat
         /\ IsFiniteSet(FreeSlots(segs, rank, start, length))
         /\ \A t \in FreeSlots(segs, rank, start, length) : start <= t
<1> DEFINE far == Max({start} \union {s.end : s \in segs}) + length
<1>1. far \in Nat
  BY FarIs
<1>2. FreeSlots(segs, rank, start, length) \subseteq start..far
  BY DEF FreeSlots
<1> HIDE DEF far
<1>3. IsFiniteSet(start..far) /\ start..far \subseteq Nat
  BY <1>1, FS_Interval
<1>4. \A t \in FreeSlots(segs, rank, start, length) : start <= t
  BY <1>1, <1>2
<1> QED BY <1>2, <1>3, <1>4, FS_Subset

\* Where the tiers from `rank` up end.
EndOf(segs, rank, from, e) ==
  /\ e \in Nat
  /\ e = from \/ \E s \in segs : Rank[s.plan] >= rank /\ s.end = e
  /\ \A s \in segs : Rank[s.plan] >= rank => s.end <= e
  /\ \A s \in segs : Rank[s.plan] < rank => e <= s.start

LEMMA EndExists ==
  ASSUME TimelineAssumption, NEW segs, SegsSound(segs), NEW from \in Nat, InOrder(segs, from),
         NEW rank \in Nat
  PROVE  \E e \in Nat : EndOf(segs, rank, from, e) /\ from <= e
<1> DEFINE High == {s \in segs : Rank[s.plan] >= rank}
<1>1. \A s \in segs : /\ s.start \in Nat /\ s.end \in Nat /\ s.start < s.end
                      /\ Rank[s.plan] \in Nat /\ from <= s.start
  BY DEF SegsSound, Segs, TimelineAssumption, InOrder
<1>2. CASE High = {}
  <2>1. \A s \in segs : Rank[s.plan] < rank
    BY <1>1, <1>2
  <2> QED BY <1>1, <2>1 DEF EndOf
<1>3. CASE High # {}
  <2>1. High \subseteq Segs /\ IsFiniteSet(High)
    BY FS_Subset DEF SegsSound
  <2>2. PICK s \in High : \A t \in High : ~Before(s, t)
    BY <1>3, <2>1, LastSegment
  <2>3. /\ \A t, u \in segs : t.start <= u.start /\ t # u => t.end <= u.start /\ t.start < u.start
        /\ \A t, u \in segs : Before(t, u) <=> t.start < u.start
    BY DisjointIs DEF InOrder
  <2>4. \A t \in segs : Rank[t.plan] >= rank => t.end <= s.end
    <3> SUFFICES ASSUME NEW t \in segs, Rank[t.plan] >= rank PROVE t.end <= s.end
      OBVIOUS
    <3>1. t.start <= s.start
      BY <1>1, <2>2, <2>3
    <3> QED BY <1>1, <2>3, <3>1
  <2>5. \A t \in segs : Rank[t.plan] < rank => s.end <= t.start
    <3> SUFFICES ASSUME NEW t \in segs, Rank[t.plan] < rank PROVE s.end <= t.start
      OBVIOUS
    <3>1. t # s /\ ~(t.start < s.start)
      BY <1>1, <2>2 DEF InOrder
    <3> QED BY <1>1, <2>3, <3>1
  <2>6. s.end \in Nat /\ from <= s.end
    BY <1>1
  <2> QED BY <2>2, <2>4, <2>5, <2>6 DEF EndOf
<1> QED BY <1>2, <1>3

\* The tiers from `rank` up leave no gap before their end.
LEMMA HighCovers ==
  ASSUME TimelineAssumption, NEW segs, SegsSound(segs), NEW from \in Nat, InOrder(segs, from),
         NEW rank \in Nat, NEW e \in Nat, EndOf(segs, rank, from, e),
         NEW t \in Nat, from <= t, t < e
  PROVE  \E s \in segs : Blocks(s, rank, t)
<1> DEFINE Later == {s \in segs : Rank[s.plan] >= rank /\ t < s.end}
<1>1. \A s \in segs : /\ s.start \in Nat /\ s.end \in Nat /\ s.start < s.end
                      /\ Rank[s.plan] \in Nat
  BY DEF SegsSound, Segs, TimelineAssumption
<1>2. Later # {}
  BY DEF EndOf
<1>3. Later \subseteq Segs /\ IsFiniteSet(Later)
  BY FS_Subset DEF SegsSound
<1>4. PICK s \in Later : \A u \in Later : ~Before(u, s)
  BY <1>2, <1>3, FirstSegment
<1>5. s.start <= t
  <2> SUFFICES ASSUME s.start > t PROVE FALSE
    BY <1>1
  <2>1. PICK u \in segs : u.end = s.start
    BY <1>1 DEF InOrder
  <2>2. u.start < s.start
    BY <1>1, <2>1
  <2>3. Rank[u.plan] >= Rank[s.plan]
    BY <2>2 DEF InOrder
  <2>4. u \in Later
    BY <1>1, <2>1, <2>3
  <2>5. Before(u, s)
    BY <2>2, BeforeIs DEF SegsSound
  <2> QED BY <1>4, <2>4, <2>5
<1> QED BY <1>4, <1>5 DEF Blocks

\* A grant that the tiers before it reach is placed in one piece behind them.
LEMMA SlotsInOrder ==
  ASSUME TimelineAssumption, NEW segs, SegsSound(segs), NEW from \in Nat, InOrder(segs, from),
         NEW rank \in Nat, NEW start \in Nat, from <= start, Reaches(segs, rank, from, start),
         NEW length \in Nat \ {0}, NEW e \in Nat, EndOf(segs, rank, from, e), from <= e
  PROVE  start <= e /\ FreeSlots(segs, rank, start, length) = e .. e + length - 1
<1>1. \A s \in segs : /\ s.start \in Nat /\ s.end \in Nat /\ s.start < s.end
                      /\ Rank[s.plan] \in Nat
  BY DEF SegsSound, Segs, TimelineAssumption
<1>2. start <= e
  BY <1>1 DEF Reaches, EndOf
<1> DEFINE top == Max({start} \union {s.end : s \in segs})
           free == {t \in start..(top + length) : \A s \in segs : ~Blocks(s, rank, t)}
<1>3. top \in Nat /\ start <= top /\ \A s \in segs : s.end <= top
  BY FarIs
<1>4. FreeSlots(segs, rank, start, length) = {t \in free : Cardinality({u \in free : u < t}) < length}
  BY DEF FreeSlots
<1> HIDE DEF top
<1>5. e <= top
  <2>1. CASE e = from
    BY <1>2, <1>3, <2>1
  <2>2. CASE e # from
    BY <1>3, <2>2 DEF EndOf
  <2> QED BY <2>1, <2>2
<1>6. free = e..(top + length)
  <2>1. \A t \in start..(top + length) : t < e => \E s \in segs : Blocks(s, rank, t)
    BY <1>3, HighCovers
  <2>2. \A t \in start..(top + length) : e <= t => \A s \in segs : ~Blocks(s, rank, t)
    BY <1>1, <1>3 DEF EndOf, Blocks
  <2> QED BY <1>2, <1>3, <2>1, <2>2
<1> HIDE DEF free
<1>7. ASSUME NEW t \in e..(top + length)
      PROVE  Cardinality({u \in free : u < t}) = t - e
  <2>1. {u \in free : u < t} = e..(t - 1)
    BY <1>3, <1>6
  <2>2. Cardinality(e..(t - 1)) = IF e > t - 1 THEN 0 ELSE (t - 1) - e + 1
    BY <1>3, FS_Interval
  <2>3. (IF e > t - 1 THEN 0 ELSE (t - 1) - e + 1) = t - e
    BY <1>3
  <2> QED BY <2>1, <2>2, <2>3
<1>8. {t \in free : Cardinality({u \in free : u < t}) < length} = {t \in free : t - e < length}
  BY <1>6, <1>7
<1>9. {t \in free : t - e < length} = e .. e + length - 1
  BY <1>3, <1>5, <1>6
<1> QED BY <1>2, <1>4, <1>8, <1>9

\* What Periods finds: pieces that begin and end at slots of the set.
LEMMA PeriodsAre ==
  ASSUME NEW slots, slots \subseteq Nat, IsFiniteSet(slots)
  PROVE  /\ IsFiniteSet(Periods(slots))
         /\ \A p \in Periods(slots) :
              /\ p \in [start : Nat, end : Nat] /\ p.start < p.end
              /\ p.start \in slots /\ p.end - 1 \in slots
<1> DEFINE last == Max(slots)
           ends(t) == {u \in t + 1 .. last + 1 : u \notin slots}
           f == [t \in slots |-> [start |-> t, end |-> Min(ends(t))]]
<1>1. ASSUME NEW t \in slots
      PROVE  /\ Min(ends(t)) \in Nat /\ t < Min(ends(t)) /\ Min(ends(t)) - 1 \in slots
  <2>1. last \in slots /\ \A u \in slots : u <= last
    <3>1. slots \subseteq Int /\ slots # {}
      OBVIOUS
    <3> QED BY <3>1, MaxIs
  <2> HIDE DEF last
  <2>2. last \in Nat /\ t \in Nat /\ t <= last
    BY <2>1
  <2>3. last + 1 \in ends(t)
    BY <2>1, <2>2
  <2>4. IsFiniteSet(ends(t)) /\ ends(t) \subseteq Int
    <3>1. IsFiniteSet(t + 1 .. last + 1) /\ ends(t) \subseteq t + 1 .. last + 1
      BY <2>2, FS_Interval
    <3> QED BY <2>2, <3>1, FS_Subset
  <2> DEFINE m == Min(ends(t))
  <2>5. m \in ends(t) /\ \A u \in ends(t) : m <= u
    BY <2>3, <2>4, MinIs
  <2> HIDE DEF m
  <2>6. m \in Nat /\ t < m /\ m - 1 \in Nat
    BY <2>2, <2>5
  <2>7. m - 1 \in slots
    <3>1. CASE m - 1 = t
      BY <3>1
    <3>2. CASE m - 1 # t
      <4>1. m - 1 \in t + 1 .. last + 1
        BY <2>2, <2>5, <2>6, <3>2
      <4>2. m - 1 \notin ends(t)
        BY <2>5, <2>6
      <4> QED BY <4>1, <4>2
    <3> QED BY <3>1, <3>2
  <2> QED BY <2>6, <2>7 DEF m
<1>2. Periods(slots) \subseteq {f[t] : t \in slots}
  BY DEF Periods
<1>3. IsFiniteSet(Periods(slots))
  <2> HIDE DEF f
  <2>1. IsFiniteSet({f[t] : t \in slots})
    BY ImageIsFinite
  <2> QED BY <1>2, <2>1, FS_Subset
<1>4. \A t \in slots : f[t] = [start |-> t, end |-> Min(ends(t))]
  OBVIOUS
<1> HIDE DEF f, ends
<1>5. ASSUME NEW p \in Periods(slots)
      PROVE  /\ p \in [start : Nat, end : Nat] /\ p.start < p.end
             /\ p.start \in slots /\ p.end - 1 \in slots
  <2>1. PICK t \in slots : p = [start |-> t, end |-> Min(ends(t))]
    BY <1>2, <1>4
  <2> QED BY <1>1, <2>1
<1> QED BY <1>3, <1>5

\* One piece.
LEMMA PeriodsOfInterval ==
  ASSUME NEW a \in Nat, NEW b \in Nat, a < b
  PROVE  Periods(a .. b - 1) = {[start |-> a, end |-> b]}
<1> DEFINE slots == a .. b - 1
           last == Max(slots)
<1>1. last = b - 1
  <2>1. IsFiniteSet(slots) /\ slots \subseteq Int /\ slots # {} /\ b - 1 \in slots
    <3>1. a \in Int /\ b - 1 \in Int
      OBVIOUS
    <3>2. IsFiniteSet(slots)
      BY <3>1, FS_Interval
    <3> QED BY <3>2
  <2>2. last \in slots /\ \A u \in slots : u <= last
    <3> HIDE DEF slots
    <3> QED BY <2>1, MaxIs
  <2> HIDE DEF last
  <2> QED BY <2>1, <2>2
<1>2. {t \in slots : t - 1 \notin slots} = {a}
  OBVIOUS
<1>3. {u \in a + 1 .. last + 1 : u \notin slots} = {b}
  BY <1>1
<1>4. Min({b}) = b
  BY DEF Min
<1>5. Periods(slots) =
        {[start |-> t, end |-> Min({u \in t + 1 .. last + 1 : u \notin slots})] :
           t \in {t \in slots : t - 1 \notin slots}}
  BY DEF Periods
<1> HIDE DEF slots, last
<1> QED BY <1>2, <1>3, <1>4, <1>5 DEF slots

LEMMA PeriodsOfNone == Periods({}) = {}
BY DEF Periods

-----------------------------------------------------------------------------
(* Cut: what a placement leaves of the other segments.                     *)

\* r is a piece of segment s.
PieceOf(s, r) ==
  /\ r \in Segs /\ SameKey(s, r) /\ s.start <= r.start /\ r.start < r.end /\ r.end <= s.end

LEMMA RemainsAre ==
  ASSUME NEW s \in Segs, NEW slots
  PROVE  IsFiniteSet(Remains(s, slots)) /\ \A r \in Remains(s, slots) : PieceOf(s, r)
<1> DEFINE left == (s.start .. s.end - 1) \ slots
           f == [p \in Periods(left) |-> [s EXCEPT !.start = p.start, !.end = p.end]]
<1>1. left \subseteq Nat /\ IsFiniteSet(left) /\ s.start \in Nat /\ s.end \in Nat
  <2>1. s.start \in Nat /\ s.end \in Nat /\ s.start \in Int /\ s.end - 1 \in Int
    BY DEF Segs
  <2>2. IsFiniteSet(s.start .. s.end - 1)
    BY <2>1, FS_Interval
  <2>3. left \in SUBSET (s.start .. s.end - 1)
    OBVIOUS
  <2>4. IsFiniteSet(left)
    BY <2>2, <2>3, FS_Subset
  <2> QED BY <2>1, <2>3, <2>4
<1>2. Remains(s, slots) = {f[p] : p \in Periods(left)}
  BY DEF Remains
<1>3. \A x \in left : s.start <= x /\ x <= s.end - 1
  BY <1>1
<1> HIDE DEF left
<1>4. IsFiniteSet(Periods(left))
  BY <1>1, PeriodsAre
<1>5. IsFiniteSet({f[p] : p \in Periods(left)})
  <2> HIDE DEF f
  <2> QED BY <1>4, ImageIsFinite
<1>6. ASSUME NEW p \in Periods(left) PROVE PieceOf(s, f[p])
  <2>1. /\ p.start \in Nat /\ p.end \in Nat /\ p.start < p.end
        /\ s.start <= p.start /\ p.end - 1 <= s.end - 1
    <3>1. /\ p \in [start : Nat, end : Nat] /\ p.start < p.end
          /\ p.start \in left /\ p.end - 1 \in left
      BY <1>1, PeriodsAre
    <3> QED BY <1>3, <3>1
  <2>2. f[p] = [s EXCEPT !.start = p.start, !.end = p.end]
    OBVIOUS
  <2>3. p.end <= s.end
    BY <1>1, <2>1
  <2> HIDE DEF f
  <2> QED BY <2>1, <2>2, <2>3 DEF PieceOf, SameKey, Segs
<1> HIDE DEF f
<1> QED BY <1>2, <1>5, <1>6

LEMMA CutIs ==
  ASSUME TimelineAssumption, NEW segs, SegsSound(segs), NEW rank, NEW slots
  PROVE  /\ SegsSound(Cut(segs, rank, slots))
         /\ \A r \in Cut(segs, rank, slots) : \E s \in segs : PieceOf(s, r)
<1> DEFINE part(s) == IF Rank[s.plan] < rank THEN Remains(s, slots) ELSE {s}
           f == [s \in segs |-> part(s)]
<1>1. Cut(segs, rank, slots) = UNION {f[s] : s \in segs}
  BY DEF Cut
<1>2. ASSUME NEW s \in segs
      PROVE  IsFiniteSet(f[s]) /\ \A r \in f[s] : PieceOf(s, r)
  <2>1. s \in Segs /\ s.start < s.end
    BY DEF SegsSound
  <2>2. PieceOf(s, s)
    BY <2>1 DEF PieceOf, SameKey, Segs
  <2> QED BY <2>1, <2>2, RemainsAre, FS_Singleton
<1> HIDE DEF f
<1>3. IsFiniteSet({f[s] : s \in segs})
  BY ImageIsFinite DEF SegsSound
<1>4. IsFiniteSet(UNION {f[s] : s \in segs})
  BY <1>2, <1>3, FS_UNION
<1>5. \A r \in Cut(segs, rank, slots) : \E s \in segs : PieceOf(s, r)
  BY <1>1, <1>2
<1> QED BY <1>1, <1>4, <1>5 DEF SegsSound, PieceOf

\* What slots before or inside a segment leave of it.
RightOf(s, n) == [s EXCEPT !.start = IF s.start < n THEN n ELSE s.start]

LEMMA RightOfIs ==
  ASSUME NEW s \in Segs, NEW n \in Nat
  PROVE  /\ RightOf(s, n) \in Segs /\ SameKey(s, RightOf(s, n)) /\ RightOf(s, n).end = s.end
         /\ RightOf(s, n).start = IF s.start < n THEN n ELSE s.start
<1> DEFINE x == IF s.start < n THEN n ELSE s.start
<1>1. x \in Nat
  BY DEF Segs
<1>2. RightOf(s, n) = [s EXCEPT !.start = x]
  BY DEF RightOf
<1> HIDE DEF x
<1>3. LET r == [s EXCEPT !.start = x]
      IN  r \in Segs /\ SameKey(s, r) /\ r.end = s.end /\ r.start = x
  BY <1>1 DEF Segs, SameKey
<1> QED BY <1>2, <1>3 DEF x

LEMMA RemainsRight ==
  ASSUME NEW s \in Segs, s.start < s.end, NEW e \in Nat, NEW n \in Nat, e < n, e <= s.start
  PROVE  Remains(s, e .. n - 1) = IF s.end <= n THEN {} ELSE {RightOf(s, n)}
<1>1. s.start \in Nat /\ s.end \in Nat
  BY DEF Segs
<1> DEFINE a == IF s.start < n THEN n ELSE s.start
           left == (s.start .. s.end - 1) \ (e .. n - 1)
<1>2. Remains(s, e .. n - 1) = {[s EXCEPT !.start = p.start, !.end = p.end] : p \in Periods(left)}
  BY DEF Remains
<1>3. left = a .. s.end - 1 /\ a \in Nat
  BY <1>1
<1>4. CASE s.end <= n
  <2>1. left = {}
    BY <1>1, <1>4
  <2> HIDE DEF left
  <2>2. Periods(left) = {}
    BY <2>1, PeriodsOfNone
  <2> QED BY <1>2, <1>4, <2>2
<1>5. CASE ~(s.end <= n)
  <2>1. a < s.end
    BY <1>1, <1>5
  <2> HIDE DEF left, a
  <2>2. Periods(left) = {[start |-> a, end |-> s.end]}
    BY <1>1, <1>3, <2>1, PeriodsOfInterval
  <2>3. Remains(s, e .. n - 1) = {[s EXCEPT !.start = a, !.end = s.end]}
    <3> DEFINE q == [start |-> a, end |-> s.end]
    <3>1. q.start = a /\ q.end = s.end /\ Periods(left) = {q}
      BY <2>2
    <3> HIDE DEF q
    <3>2. Remains(s, e .. n - 1) = {[s EXCEPT !.start = p.start, !.end = p.end] : p \in {q}}
      BY <1>2, <3>1
    <3>3. Remains(s, e .. n - 1) = {[s EXCEPT !.start = q.start, !.end = q.end]}
      BY <3>2
    <3> QED BY <3>1, <3>3
  <2>4. [s EXCEPT !.start = a, !.end = s.end] = [s EXCEPT !.start = a]
    BY DEF Segs
  <2>5. RightOf(s, n) = [s EXCEPT !.start = a]
    BY DEF RightOf, a
  <2> QED BY <1>5, <2>3, <2>4, <2>5
<1> QED BY <1>4, <1>5

-----------------------------------------------------------------------------
(* A placement in a timeline without gaps.                                 *)

\* Where the tiers below `rank` begin behind e, a cut from e to n leaves of each segment
\* what is behind n.
LEMMA CutBehind ==
  ASSUME TimelineAssumption, NEW segs, SegsSound(segs), NEW rank \in Nat,
         NEW e \in Nat, NEW n \in Nat, e < n,
         \A s \in segs : Rank[s.plan] < rank => e <= s.start
  PROVE  /\ \A r \in Cut(segs, rank, e .. n - 1) :
              \E s \in segs : IF Rank[s.plan] < rank THEN n < s.end /\ r = RightOf(s, n) ELSE r = s
         /\ \A s \in segs : Rank[s.plan] < rank /\ n < s.end =>
              RightOf(s, n) \in Cut(segs, rank, e .. n - 1)
         /\ \A s \in segs : ~(Rank[s.plan] < rank) => s \in Cut(segs, rank, e .. n - 1)
<1> DEFINE part(s) == IF Rank[s.plan] < rank THEN Remains(s, e .. n - 1) ELSE {s}
<1>1. \A r : r \in Cut(segs, rank, e .. n - 1) <=> \E s \in segs : r \in part(s)
  BY DEF Cut
<1>2. ASSUME NEW s \in segs, Rank[s.plan] < rank
      PROVE  part(s) = IF s.end <= n THEN {} ELSE {RightOf(s, n)}
  <2>1. s \in Segs /\ s.start < s.end /\ e <= s.start
    BY <1>2 DEF SegsSound
  <2> QED BY <1>2, <2>1, RemainsRight
<1>3. \A s \in segs : ~(Rank[s.plan] < rank) => part(s) = {s}
  OBVIOUS
<1>4. \A s \in segs : s.end <= n <=> ~(n < s.end)
  BY DEF SegsSound, Segs
<1> HIDE DEF part
<1> QED BY <1>1, <1>2, <1>3, <1>4

\* The timeline after new has been placed where the tiers from its own up end.
Placed(segs, rank, new) == Cut(segs, rank, new.start .. new.end - 1) \union {new}

\* A segment of the new timeline is the new one, one of an equal or higher tier before it, or
\* what is left of one of a lower tier behind it.
LEMMA PlacedIs ==
  ASSUME TimelineAssumption, NEW segs, SegsSound(segs), NEW from \in Nat, NEW rank \in Nat,
         NEW new \in Segs, new.start < new.end, EndOf(segs, rank, from, new.start)
  PROVE  /\ SegsSound(Placed(segs, rank, new)) /\ new \in Placed(segs, rank, new)
         /\ \A r \in Placed(segs, rank, new) :
              \/ r = new
              \/ r \in segs /\ Rank[r.plan] >= rank /\ r.end <= new.start
              \/ \E s \in segs : /\ Rank[s.plan] < rank /\ SameKey(s, r) /\ r.end = s.end
                                 /\ new.end < s.end /\ r = RightOf(s, new.end)
                                 /\ r.start = IF s.start < new.end THEN new.end ELSE s.start
         /\ \A s \in segs : Rank[s.plan] >= rank => s \in Placed(segs, rank, new)
         /\ \A s \in segs : Rank[s.plan] < rank /\ new.end < s.end =>
              \E r \in Placed(segs, rank, new) :
                /\ SameKey(s, r) /\ r.end = s.end
                /\ r.start = IF s.start < new.end THEN new.end ELSE s.start
<1> DEFINE cut == Cut(segs, rank, new.start .. new.end - 1)
<1>1. new.start \in Nat /\ new.end \in Nat
  BY DEF Segs
<1>2. /\ \A s \in segs : s \in Segs /\ Rank[s.plan] \in Nat
      /\ \A s \in segs : Rank[s.plan] < rank => new.start <= s.start
      /\ \A s \in segs : Rank[s.plan] >= rank => s.end <= new.start
  BY DEF SegsSound, Segs, EndOf, TimelineAssumption
<1>3. /\ \A r \in cut :
           \E s \in segs : IF Rank[s.plan] < rank THEN new.end < s.end /\ r = RightOf(s, new.end) ELSE r = s
      /\ \A s \in segs : Rank[s.plan] < rank /\ new.end < s.end => RightOf(s, new.end) \in cut
      /\ \A s \in segs : ~(Rank[s.plan] < rank) => s \in cut
  BY <1>1, <1>2, CutBehind
<1>4. SegsSound(cut)
  BY CutIs
<1> HIDE DEF cut
<1>5. Placed(segs, rank, new) = cut \union {new}
  BY DEF Placed, cut
<1>6. SegsSound(Placed(segs, rank, new))
  BY <1>4, <1>5, FS_AddElement DEF SegsSound
<1>7. \A s \in segs : LET r == RightOf(s, new.end)
                      IN  /\ SameKey(s, r) /\ r.end = s.end
                          /\ r.start = IF s.start < new.end THEN new.end ELSE s.start
  BY <1>1, <1>2, RightOfIs
<1>8. \A s \in segs : Rank[s.plan] >= rank <=> ~(Rank[s.plan] < rank)
  BY <1>2
<1>9. \A r \in cut :
        \/ r \in segs /\ Rank[r.plan] >= rank /\ r.end <= new.start
        \/ \E s \in segs : /\ Rank[s.plan] < rank /\ SameKey(s, r) /\ r.end = s.end
                           /\ new.end < s.end /\ r = RightOf(s, new.end)
                           /\ r.start = IF s.start < new.end THEN new.end ELSE s.start
  <2> SUFFICES ASSUME NEW r \in cut
               PROVE  \/ r \in segs /\ Rank[r.plan] >= rank /\ r.end <= new.start
                      \/ \E s \in segs :
                           /\ Rank[s.plan] < rank /\ SameKey(s, r) /\ r.end = s.end
                           /\ new.end < s.end /\ r = RightOf(s, new.end)
                           /\ r.start = IF s.start < new.end THEN new.end ELSE s.start
    OBVIOUS
  <2>1. PICK s \in segs : IF Rank[s.plan] < rank THEN new.end < s.end /\ r = RightOf(s, new.end) ELSE r = s
    BY <1>3
  <2>2. CASE Rank[s.plan] < rank
    BY <1>7, <2>1, <2>2
  <2>3. CASE ~(Rank[s.plan] < rank)
    BY <1>2, <1>8, <2>1, <2>3
  <2> QED BY <2>2, <2>3
<1> QED BY <1>3, <1>5, <1>6, <1>7, <1>8, <1>9

\* Whatever the tiers from a rank up reached, they still reach.
LEMMA PlacedReaches ==
  ASSUME TimelineAssumption, NEW segs, SegsSound(segs), NEW from \in Nat, NEW rank \in Nat,
         NEW new \in Segs, new.start < new.end, EndOf(segs, rank, from, new.start),
         rank = Rank[new.plan],
         NEW low \in Nat, NEW t \in Nat, Reaches(segs, low, from, t)
  PROVE  Reaches(Placed(segs, rank, new), low, from, t)
<1>1. CASE t = from
  BY <1>1 DEF Reaches
<1>2. CASE t # from
  <2>1. PICK s \in segs : Rank[s.plan] >= low /\ t <= s.end
    BY <1>2 DEF Reaches
  <2>2. Rank[s.plan] \in Nat /\ s.end \in Nat /\ new.end \in Nat
    BY DEF SegsSound, Segs, TimelineAssumption
  <2>3. CASE Rank[s.plan] >= rank
    <3>1. s \in Placed(segs, rank, new)
      BY <2>3, PlacedIs
    <3> QED BY <2>1, <3>1 DEF Reaches
  <2>4. CASE Rank[s.plan] < rank /\ new.end < s.end
    <3>1. PICK r \in Placed(segs, rank, new) : SameKey(s, r) /\ r.end = s.end
      BY <2>4, PlacedIs
    <3> QED BY <2>1, <3>1 DEF Reaches, SameKey
  <2>5. CASE Rank[s.plan] < rank /\ ~(new.end < s.end)
    <3>1. new \in Placed(segs, rank, new) /\ Rank[new.plan] >= low /\ t <= new.end
      BY <2>1, <2>2, <2>5, PlacedIs
    <3> QED BY <3>1 DEF Reaches
  <2> QED BY <2>2, <2>3, <2>4, <2>5
<1> QED BY <1>1, <1>2

\* What was displaced is granted again where it is reached.
LEMMA DisplacedReaches ==
  ASSUME TimelineAssumption, NEW segs, SegsSound(segs), NEW from \in Nat, NEW rank \in Nat,
         NEW new \in Segs, new.start < new.end, EndOf(segs, rank, from, new.start),
         rank = Rank[new.plan],
         NEW s \in segs, Rank[s.plan] < rank,
         NEW t \in Nat, t = new.end \/ t = s.end, new.end <= t, s.end <= t
  PROVE  Reaches(Placed(segs, rank, new), Rank[s.plan], from, t)
<1>1. Rank[s.plan] \in Nat /\ s.end \in Nat /\ new.end \in Nat
  BY DEF SegsSound, Segs, TimelineAssumption
<1>2. CASE t = new.end
  <2>1. new \in Placed(segs, rank, new)
    BY PlacedIs
  <2> QED BY <1>1, <1>2, <2>1 DEF Reaches
<1>3. CASE t # new.end
  <2>1. new.end < s.end /\ t = s.end
    BY <1>1, <1>3
  <2>2. PICK r \in Placed(segs, rank, new) : SameKey(s, r) /\ r.end = s.end
    BY <2>1, PlacedIs
  <2> QED BY <1>1, <2>1, <2>2 DEF Reaches, SameKey
<1> QED BY <1>2, <1>3

\* The three kinds of segments of a new timeline.
OfHigher(segs, rank, new, r) == r \in segs /\ Rank[r.plan] >= rank /\ r.end <= new.start

OfLower(segs, rank, new, s, r) ==
  /\ Rank[s.plan] < rank /\ r.plan = s.plan /\ r.end = s.end /\ new.end < s.end
  /\ r = RightOf(s, new.end)
  /\ r.start = IF s.start < new.end THEN new.end ELSE s.start

LEMMA PlacedInOrder ==
  ASSUME TimelineAssumption, NEW segs, SegsSound(segs), NEW from \in Nat, InOrder(segs, from),
         NEW rank \in Nat, NEW new \in Segs, new.start < new.end, rank = Rank[new.plan],
         EndOf(segs, rank, from, new.start), from <= new.start
  PROVE  InOrder(Placed(segs, rank, new), from)
<1> DEFINE P == Placed(segs, rank, new)
           e == new.start
           n == new.end
<1>1. /\ e \in Nat /\ n \in Nat /\ e < n /\ from <= e
      /\ \A s \in segs : /\ s.start \in Nat /\ s.end \in Nat /\ s.start < s.end
                         /\ Rank[s.plan] \in Nat /\ from <= s.start
      /\ \A s \in segs : Rank[s.plan] < rank => e <= s.start
  BY DEF SegsSound, Segs, TimelineAssumption, InOrder, EndOf
<1>2. /\ \A r \in P : r = new \/ OfHigher(segs, rank, new, r)
                      \/ \E s \in segs : OfLower(segs, rank, new, s, r)
      /\ \A r \in P : r.start \in Nat /\ r.end \in Nat /\ Rank[r.plan] \in Nat
      /\ new \in P
      /\ \A s \in segs : Rank[s.plan] >= rank => s \in P
      /\ \A s \in segs : Rank[s.plan] < rank /\ n < s.end => \E r \in P : r.end = s.end
  <2>1. SegsSound(P)
    BY PlacedIs
  <2>2. \A r \in P : r.start \in Nat /\ r.end \in Nat /\ Rank[r.plan] \in Nat
    BY <2>1 DEF SegsSound, Segs, TimelineAssumption
  <2> QED BY <2>2, PlacedIs DEF OfHigher, OfLower, SameKey
<1> HIDE DEF P
<1>3. \A s, t \in segs : s # t => s.end <= t.start \/ t.end <= s.start
  BY <1>1 DEF InOrder, Disjoint, Overlaps
<1>4. \A s, t \in segs : s.start < t.start => Rank[s.plan] >= Rank[t.plan]
  BY DEF InOrder
<1>5. ASSUME NEW q \in P, NEW r \in P, q # r
      PROVE  ~Overlaps(q, r) /\ (q.start < r.start => Rank[q.plan] >= Rank[r.plan])
  <2>0. /\ q.start \in Nat /\ q.end \in Nat /\ r.start \in Nat /\ r.end \in Nat
        /\ Rank[q.plan] \in Nat /\ Rank[r.plan] \in Nat
    BY <1>2
  <2> SUFFICES /\ q.end <= r.start \/ r.end <= q.start
               /\ q.start < r.start => Rank[q.plan] >= Rank[r.plan]
    BY <2>0 DEF Overlaps
  <2>1. CASE q = new
    <3>1. CASE OfHigher(segs, rank, new, r)
      BY <1>1, <2>0, <2>1, <3>1 DEF OfHigher
    <3>2. CASE \E s \in segs : OfLower(segs, rank, new, s, r)
      BY <1>1, <2>0, <2>1, <3>2 DEF OfLower
    <3> QED BY <1>2, <1>5, <2>1, <3>1, <3>2
  <2>2. CASE OfHigher(segs, rank, new, q)
    <3>1. CASE r = new
      BY <1>1, <2>0, <2>2, <3>1 DEF OfHigher
    <3>2. CASE OfHigher(segs, rank, new, r)
      BY <1>3, <1>4, <1>5, <2>2, <3>2 DEF OfHigher
    <3>3. CASE \E s \in segs : OfLower(segs, rank, new, s, r)
      BY <1>1, <2>0, <2>2, <3>3 DEF OfHigher, OfLower
    <3> QED BY <1>2, <3>1, <3>2, <3>3
  <2>3. CASE \E s \in segs : OfLower(segs, rank, new, s, q)
    <3>0. PICK s \in segs : OfLower(segs, rank, new, s, q)
      BY <2>3
    <3>1. CASE r = new
      BY <1>1, <2>0, <3>0, <3>1 DEF OfLower
    <3>2. CASE OfHigher(segs, rank, new, r)
      BY <1>1, <2>0, <3>0, <3>2 DEF OfHigher, OfLower
    <3>3. CASE \E t \in segs : OfLower(segs, rank, new, t, r)
      <4>1. PICK t \in segs : OfLower(segs, rank, new, t, r)
        BY <3>3
      <4>2. s # t
        BY <1>5, <3>0, <4>1 DEF OfLower
      <4>3. s.end <= t.start \/ t.end <= s.start
        BY <1>3, <4>2
      <4>4. /\ q.end = s.end /\ r.end = t.end /\ s.start <= q.start /\ t.start <= r.start
            /\ q.start < r.start => s.start < t.start
        BY <1>1, <3>0, <4>1 DEF OfLower
      <4>5. /\ q.plan = s.plan /\ r.plan = t.plan
        BY <3>0, <4>1 DEF OfLower
      <4>6. q.end <= r.start \/ r.end <= q.start
        BY <1>1, <2>0, <4>3, <4>4
      <4>7. q.start < r.start => Rank[q.plan] >= Rank[r.plan]
        BY <1>4, <4>4, <4>5
      <4> QED BY <4>6, <4>7
    <3> QED BY <1>2, <3>1, <3>2, <3>3
  <2> QED BY <1>2, <2>1, <2>2, <2>3
<1>6. ASSUME NEW r \in P, r.start > from
      PROVE  \E q \in P : q.end = r.start
  <2>1. CASE r = new
    <3>1. PICK s \in segs : Rank[s.plan] >= rank /\ s.end = e
      BY <1>6, <2>1 DEF EndOf
    <3> QED BY <1>2, <2>1, <3>1
  <2>2. CASE OfHigher(segs, rank, new, r)
    <3>1. PICK t \in segs : t.end = r.start
      BY <1>6, <2>2 DEF InOrder, OfHigher
    <3>2. r \in segs /\ t.start < r.start
      BY <1>1, <2>2, <3>1 DEF OfHigher
    <3>3. Rank[t.plan] >= rank
      <4>1. Rank[t.plan] >= Rank[r.plan]
        BY <1>4, <3>2
      <4> QED BY <1>1, <2>2, <3>2, <4>1 DEF OfHigher
    <3> QED BY <1>2, <3>1, <3>3
  <2>3. CASE \E s \in segs : OfLower(segs, rank, new, s, r)
    <3>1. PICK s \in segs : OfLower(segs, rank, new, s, r)
      BY <2>3
    <3>2. CASE s.start <= n
      <4>1. r.start = n
        BY <1>1, <3>1, <3>2 DEF OfLower
      <4> QED BY <1>2, <4>1
    <3>3. CASE ~(s.start <= n)
      <4>1. r.start = s.start /\ s.start > from
        BY <1>1, <3>1, <3>3 DEF OfLower
      <4>2. PICK t \in segs : t.end = s.start
        BY <4>1 DEF InOrder
      <4>3. n < t.end
        BY <1>1, <3>3, <4>2
      <4>4. Rank[t.plan] < rank
        BY <1>1, <4>3 DEF EndOf
      <4> QED BY <1>2, <4>1, <4>2, <4>3, <4>4
    <3> QED BY <3>2, <3>3
  <2> QED BY <1>2, <2>1, <2>2, <2>3
<1>7. \A r \in P : from <= r.start
  BY <1>1, <1>2 DEF OfHigher, OfLower
<1>8. Disjoint(P)
  BY <1>5 DEF Disjoint
<1>9. \A q, r \in P : q.start < r.start => Rank[q.plan] >= Rank[r.plan]
  <2>1. \A q, r \in P : q.start < r.start => q # r
    BY <1>2
  <2> QED BY <1>5, <2>1
<1> QED BY <1>6, <1>7, <1>8, <1>9 DEF InOrder, P

-----------------------------------------------------------------------------
(* The queue of grants.                                                    *)

Items == [of : Segs, turn : Nat, at : Nat, start : Nat, length : Nat \ {0}]

QueueSound(queue) ==
  /\ queue \subseteq Items /\ IsFiniteSet(queue)
  /\ \A g \in queue : Rank[g.of.plan] \in Nat

LEMMA MaxOfTwo ==
  ASSUME NEW a \in Int, NEW b \in Int
  PROVE  Max({a, b}) = IF b <= a THEN a ELSE b
<1>1. \E x \in {a, b} : \A y \in {a, b} : x >= y
  OBVIOUS
<1> DEFINE m == Max({a, b})
<1>2. m \in {a, b} /\ \A y \in {a, b} : m >= y
  BY <1>1 DEF Max
<1> HIDE DEF m
<1>3. m = IF b <= a THEN a ELSE b
  BY <1>2
<1> QED BY <1>3 DEF m

LEMMA MinOfTwo ==
  ASSUME NEW a \in Int, NEW b \in Int
  PROVE  Min({a, b}) = IF a <= b THEN a ELSE b
<1>1. \E x \in {a, b} : \A y \in {a, b} : x =< y
  OBVIOUS
<1> DEFINE m == Min({a, b})
<1>2. m \in {a, b} /\ \A y \in {a, b} : m =< y
  BY <1>1 DEF Min
<1> HIDE DEF m
<1>3. m = IF a <= b THEN a ELSE b
  BY <1>2
<1> QED BY <1>3 DEF m

\* The grant that stands first in a queue.
LEMMA FirstGrant ==
  ASSUME TimelineAssumption, NEW queue, QueueSound(queue), queue # {}
  PROVE  \E g \in queue : \A h \in queue : ~Earlier(h, g)
<1> DEFINE R == {p \in queue \X queue : Earlier(p[1], p[2])}
<1>1. \A g, h \in queue : <<g, h>> \in R <=> Earlier(g, h)
  OBVIOUS
<1>2. \A g \in queue : g.turn \in Nat /\ g.at \in Nat /\ g.of \in Segs
  BY DEF QueueSound, Items
<1>3. \A g, h \in queue : Earlier(g, h) <=>
        \/ g.turn > h.turn
        \/ g.turn = h.turn /\ g.at < h.at
        \/ g.turn = h.turn /\ g.at = h.at /\ Before(g.of, h.of)
  BY DEF Earlier
<1>4. \A g \in queue : ~Before(g.of, g.of)
  BY <1>2, BeforeIs
<1>5. \A g, h, k \in queue : Before(g.of, h.of) /\ Before(h.of, k.of) => Before(g.of, k.of)
  BY <1>2, BeforeIs
<1>6. \A g \in queue : ~Earlier(g, g)
  BY <1>2, <1>3, <1>4
<1>7. \A g, h, k \in queue : Earlier(g, h) /\ Earlier(h, k) => Earlier(g, k)
  BY <1>2, <1>3, <1>5
<1> HIDE DEF R
<1>8. Orders(R, queue)
  BY <1>1, <1>6, <1>7 DEF Orders
<1>9. Least(R, queue)
  BY <1>8, FiniteSetHasLeast DEF QueueSound
<1> QED BY <1>1, <1>9 DEF Least

\* What is granted again.
LEMMA AgainIs ==
  ASSUME NEW s \in Segs, s.start < s.end, NEW p \in [start : Nat, end : Nat], p.start < p.end,
         Overlaps(s, p), NEW turn \in Nat
  PROVE  /\ Again(s, p, turn) \in Items /\ Again(s, p, turn).of = s
         /\ Again(s, p, turn).turn = turn
         /\ Again(s, p, turn).start = IF s.end <= p.end THEN p.end ELSE s.end
         /\ Again(s, p, turn).length =
              (IF s.end <= p.end THEN s.end ELSE p.end) - (IF p.start <= s.start THEN s.start ELSE p.start)
<1>1. s.start \in Nat /\ s.end \in Nat /\ p.start \in Nat /\ p.end \in Nat
  BY DEF Segs
<1> DEFINE a == Max({p.end, s.end})
           b == Min({s.end, p.end})
           c == Max({s.start, p.start})
<1>2. a = IF s.end <= p.end THEN p.end ELSE s.end
  BY <1>1, MaxOfTwo
<1>3. b = IF s.end <= p.end THEN s.end ELSE p.end
  BY <1>1, MinOfTwo
<1>4. c = IF p.start <= s.start THEN s.start ELSE p.start
  BY <1>1, MaxOfTwo
<1>5. Again(s, p, turn) = [of |-> s, turn |-> turn, at |-> p.start, start |-> a, length |-> b - c]
  BY DEF Again
<1> HIDE DEF a, b, c
<1>6. a \in Nat /\ b - c \in Nat \ {0}
  BY <1>1, <1>2, <1>3, <1>4 DEF Overlaps
<1> QED BY <1>1, <1>2, <1>3, <1>4, <1>5, <1>6 DEF Items

PeriodsSound(periods) ==
  /\ IsFiniteSet(periods)
  /\ \A p \in periods : p \in [start : Nat, end : Nat] /\ p.start < p.end

\* d is what a period takes from a segment of a lower tier.
IsDisplaced(segs, rank, periods, turn, d) ==
  \E s \in segs, p \in periods : Rank[s.plan] < rank /\ Overlaps(s, p) /\ d = Again(s, p, turn)

LEMMA DisplacedAre ==
  ASSUME TimelineAssumption, NEW segs, SegsSound(segs), NEW rank, NEW turn \in Nat,
         NEW periods, PeriodsSound(periods)
  PROVE  /\ QueueSound(Displaced(segs, rank, periods, turn))
         /\ \A d \in Displaced(segs, rank, periods, turn) : IsDisplaced(segs, rank, periods, turn, d)
<1> DEFINE hit == {h \in segs \X periods : Rank[h[1].plan] < rank /\ Overlaps(h[1], h[2])}
           f == [h \in hit |-> Again(h[1], h[2], turn)]
           D == Displaced(segs, rank, periods, turn)
<1>1. D = {f[h] : h \in hit}
  BY DEF Displaced
<1>2. IsFiniteSet(hit)
  <2>1. IsFiniteSet(segs \X periods)
    BY FS_Product DEF SegsSound, PeriodsSound
  <2> QED BY <2>1, FS_Subset
<1>3. \A d \in D : IsDisplaced(segs, rank, periods, turn, d)
  BY <1>1 DEF IsDisplaced
<1> HIDE DEF f, hit
<1>4. IsFiniteSet(D)
  BY <1>1, <1>2, ImageIsFinite
<1> HIDE DEF D
<1>5. ASSUME NEW d \in D PROVE d \in Items /\ Rank[d.of.plan] \in Nat
  <2>1. PICK s \in segs, p \in periods : Overlaps(s, p) /\ d = Again(s, p, turn)
    BY <1>3 DEF IsDisplaced
  <2>2. s \in Segs /\ s.start < s.end /\ p \in [start : Nat, end : Nat] /\ p.start < p.end
    BY DEF SegsSound, PeriodsSound
  <2>3. d \in Items /\ d.of = s
    BY <2>1, <2>2, AgainIs
  <2> QED BY <2>2, <2>3 DEF Segs, TimelineAssumption
<1> QED BY <1>3, <1>4, <1>5 DEF QueueSound, D

\* What a grant of the time of `of` becomes: a segment for each period.
Mine(of, periods) == {[of EXCEPT !.start = p.start, !.end = p.end] : p \in periods}

LEMMA MineSound ==
  ASSUME NEW of \in Segs, NEW slots, slots \subseteq Nat, IsFiniteSet(slots), NEW from \in Nat,
         \A t \in slots : from <= t
  PROVE  /\ SegsSound(Mine(of, Periods(slots)))
         /\ \A s \in Mine(of, Periods(slots)) : from <= s.start
<1> DEFINE piece(p) == [of EXCEPT !.start = p.start, !.end = p.end]
           f == [p \in Periods(slots) |-> piece(p)]
<1>1. Mine(of, Periods(slots)) = {f[p] : p \in Periods(slots)}
  BY DEF Mine
<1>2. ASSUME NEW p \in Periods(slots)
      PROVE  f[p] \in Segs /\ f[p].start < f[p].end /\ from <= f[p].start
  <2>1. p.start \in Nat /\ p.end \in Nat /\ p.start < p.end /\ p.start \in slots
    BY PeriodsAre
  <2>2. f[p] = [of EXCEPT !.start = p.start, !.end = p.end]
    OBVIOUS
  <2> HIDE DEF f
  <2> QED BY <2>1, <2>2 DEF Segs
<1> HIDE DEF f
<1>3. IsFiniteSet({f[p] : p \in Periods(slots)})
  BY PeriodsAre, ImageIsFinite
<1> QED BY <1>1, <1>2, <1>3 DEF SegsSound

LEMMA NormalizeFrom ==
  ASSUME TimelineAssumption, NEW segs, SegsSound(segs), NEW from, \A s \in segs : from <= s.start
  PROVE  \A m \in Normalize(segs) : from <= m.start
<1> SUFFICES ASSUME NEW m \in Normalize(segs)
             PROVE  from <= m.start
  OBVIOUS
<1>1. PICK h \in segs : m = Merged(segs, h)
  BY NormalizeIs
<1>2. Merged(segs, h).start = h.start
  BY MergedIs
<1> QED BY <1>1, <1>2

LEMMA SegsUnion ==
  ASSUME NEW S, NEW T, SegsSound(S), SegsSound(T)
  PROVE  SegsSound(S \union T)
<1>1. IsFiniteSet(S \union T)
  BY FS_Union DEF SegsSound
<1> QED BY <1>1 DEF SegsSound

LEMMA QueueUnion ==
  ASSUME NEW S, NEW T, QueueSound(S), QueueSound(T), NEW g
  PROVE  QueueSound((S \ {g}) \union T)
<1>1. IsFiniteSet(S \ {g})
  BY FS_Subset DEF QueueSound
<1>2. IsFiniteSet((S \ {g}) \union T)
  BY <1>1, FS_Union DEF QueueSound
<1> QED BY <1>2 DEF QueueSound

-----------------------------------------------------------------------------
(* A placement.                                                            *)

\* A timeline and a queue that begin at `from`.
LineSound(line, from) ==
  /\ SegsSound(line.segs) /\ QueueSound(line.queue)
  /\ \A s \in line.segs : from <= s.start
  /\ \A g \in line.queue : from <= g.start

\* The placement of grant g.
SlotsFor(line, g) == FreeSlots(line.segs, Rank[g.of.plan], g.start, g.length)

SegsAfter(line, g) ==
  Normalize(Cut(line.segs, Rank[g.of.plan], SlotsFor(line, g)) \union Mine(g.of, Periods(SlotsFor(line, g))))

QueueAfter(line, g, turn) ==
  (line.queue \ {g}) \union Displaced(line.segs, Rank[g.of.plan], Periods(SlotsFor(line, g)), turn)

LEMMA PlaceIs ==
  ASSUME TimelineAssumption, NEW line, QueueSound(line.queue), line.queue # {}, NEW turn
  PROVE  \E g \in line.queue :
           Place(line, turn) = [segs |-> SegsAfter(line, g), queue |-> QueueAfter(line, g, turn)]
<1> DEFINE g == CHOOSE g \in line.queue : \A h \in line.queue : ~Earlier(h, g)
<1>1. g \in line.queue
  BY FirstGrant
<1>2. Place(line, turn) = [segs |-> SegsAfter(line, g), queue |-> QueueAfter(line, g, turn)]
  BY DEF Place, SegsAfter, QueueAfter, SlotsFor, Mine
<1> HIDE DEF g
<1> QED BY <1>1, <1>2

LEMMA PlacementSound ==
  ASSUME TimelineAssumption, NEW line, NEW from \in Nat, LineSound(line, from),
         NEW g \in line.queue, NEW turn \in Nat
  PROVE  LineSound([segs |-> SegsAfter(line, g), queue |-> QueueAfter(line, g, turn)], from)
<1> DEFINE rank == Rank[g.of.plan]
           slots == SlotsFor(line, g)
<1>1. /\ SegsSound(line.segs) /\ rank \in Nat /\ g.start \in Nat /\ g.length \in Nat
      /\ from <= g.start /\ g.of \in Segs /\ QueueSound(line.queue)
  BY DEF LineSound, QueueSound, Items
<1>2. slots \subseteq Nat /\ IsFiniteSet(slots) /\ \A t \in slots : g.start <= t
  BY <1>1, SlotsAre DEF SlotsFor
<1>3. \A t \in slots : from <= t
  BY <1>1, <1>2
<1> HIDE DEF slots, rank
<1>4. /\ SegsSound(Mine(g.of, Periods(slots)))
      /\ \A s \in Mine(g.of, Periods(slots)) : from <= s.start
  BY <1>1, <1>2, <1>3, MineSound
<1>5. /\ SegsSound(Cut(line.segs, rank, slots))
      /\ \A r \in Cut(line.segs, rank, slots) : \E s \in line.segs : PieceOf(s, r)
  BY <1>1, CutIs
<1>6. \A r \in Cut(line.segs, rank, slots) : from <= r.start
  <2>1. \A s \in line.segs : s \in Segs /\ from <= s.start
    BY DEF LineSound, SegsSound
  <2> QED BY <1>5, <2>1 DEF PieceOf, Segs
<1> DEFINE all == Cut(line.segs, rank, slots) \union Mine(g.of, Periods(slots))
<1>7. SegsSound(all) /\ \A s \in all : from <= s.start
  BY <1>4, <1>5, <1>6, SegsUnion
<1>8. SegsAfter(line, g) = Normalize(all)
  BY DEF SegsAfter, rank, slots
<1> HIDE DEF all
<1>9. SegsSound(SegsAfter(line, g)) /\ \A s \in SegsAfter(line, g) : from <= s.start
  BY <1>7, <1>8, NormalizeSound, NormalizeFrom
<1>10. PeriodsSound(Periods(slots))
  BY <1>2, PeriodsAre DEF PeriodsSound
<1> DEFINE D == Displaced(line.segs, rank, Periods(slots), turn)
<1>11. QueueSound(D) /\ \A d \in D : IsDisplaced(line.segs, rank, Periods(slots), turn, d)
  BY <1>1, <1>10, DisplacedAre
<1>12. ASSUME NEW d \in D PROVE from <= d.start
  <2>1. PICK s \in line.segs, p \in Periods(slots) : Overlaps(s, p) /\ d = Again(s, p, turn)
    BY <1>11 DEF IsDisplaced
  <2>2. /\ s \in Segs /\ s.start < s.end /\ s.start \in Nat /\ s.end \in Nat /\ from <= s.start
        /\ p \in [start : Nat, end : Nat] /\ p.start < p.end /\ p.start \in Nat /\ p.end \in Nat
    BY <1>10 DEF LineSound, SegsSound, Segs, PeriodsSound
  <2>3. d.start = IF s.end <= p.end THEN p.end ELSE s.end
    BY <2>1, <2>2, AgainIs
  <2> QED BY <2>2, <2>3
<1>13. QueueAfter(line, g, turn) = (line.queue \ {g}) \union D
  BY DEF QueueAfter, rank, slots
<1> HIDE DEF D
<1>14. QueueSound(QueueAfter(line, g, turn))
  BY <1>1, <1>11, <1>13, QueueUnion
<1>15. \A h \in QueueAfter(line, g, turn) : from <= h.start
  BY <1>12, <1>13 DEF LineSound
<1> QED BY <1>9, <1>14, <1>15 DEF LineSound

\* A timeline without gaps and a queue of grants, each of which is to begin where it is
\* reached.
LineInOrder(line, from) ==
  /\ InOrder(line.segs, from)
  /\ \A g \in line.queue : Reaches(line.segs, Rank[g.of.plan], from, g.start)

\* The one piece that a grant becomes.
Whole(g, e) == [g.of EXCEPT !.start = e, !.end = e + g.length]

LEMMA PlacedWhole ==
  ASSUME TimelineAssumption, NEW line, NEW from \in Nat, LineSound(line, from),
         LineInOrder(line, from), NEW g \in line.queue
  PROVE  \E e \in Nat :
           /\ EndOf(line.segs, Rank[g.of.plan], from, e) /\ from <= e
           /\ Periods(SlotsFor(line, g)) = {[start |-> e, end |-> e + g.length]}
           /\ SegsAfter(line, g) = Normalize(Placed(line.segs, Rank[g.of.plan], Whole(g, e)))
<1> DEFINE rank == Rank[g.of.plan]
           segs == line.segs
           start == g.start
           length == g.length
<1>1. /\ SegsSound(segs) /\ rank \in Nat /\ start \in Nat /\ length \in Nat \ {0}
      /\ from <= start /\ g.of \in Segs
  BY DEF LineSound, QueueSound, Items
<1>2. InOrder(segs, from) /\ Reaches(segs, rank, from, start)
  BY DEF LineInOrder
<1>3. SlotsFor(line, g) = FreeSlots(segs, rank, start, length)
  BY DEF SlotsFor
<1>4. SegsAfter(line, g) =
        Normalize(Cut(segs, rank, SlotsFor(line, g)) \union Mine(g.of, Periods(SlotsFor(line, g))))
  BY DEF SegsAfter
<1>5. \A e : Whole(g, e) = [g.of EXCEPT !.start = e, !.end = e + length]
  BY DEF Whole
<1> HIDE DEF rank, segs, start, length
<1>6. PICK e \in Nat : EndOf(segs, rank, from, e) /\ from <= e
  BY <1>1, <1>2, EndExists
<1>7. FreeSlots(segs, rank, start, length) = e .. e + length - 1
  BY <1>1, <1>2, <1>6, SlotsInOrder
<1> DEFINE p == [start |-> e, end |-> e + length]
           n == e + length
<1>8. n \in Nat /\ e < n
  BY <1>1
<1>9. Periods(e .. n - 1) = {[start |-> e, end |-> n]}
  <2> HIDE DEF n
  <2> QED BY <1>8, PeriodsOfInterval
<1>10. p = [start |-> e, end |-> n] /\ n = e + length
  OBVIOUS
<1> DEFINE q == Whole(g, e)
<1>11. q = [g.of EXCEPT !.start = p.start, !.end = p.end] /\ q.start = e /\ q.end = n
  BY <1>1, <1>5 DEF Segs
<1> HIDE DEF n, p, q
<1>15. SlotsFor(line, g) = e .. n - 1
  BY <1>1, <1>3, <1>7, <1>10
<1>16. Periods(SlotsFor(line, g)) = {p}
  BY <1>9, <1>10, <1>15
<1>12. Mine(g.of, {p}) = {q}
  BY <1>11 DEF Mine
<1>13. Placed(segs, rank, q) = Cut(segs, rank, SlotsFor(line, g)) \union {q}
  BY <1>11, <1>15 DEF Placed
<1>14. SegsAfter(line, g) = Normalize(Placed(segs, rank, q))
  BY <1>4, <1>12, <1>13, <1>16
<1> QED BY <1>6, <1>14, <1>16 DEF p, q, n, segs, rank, length

LEMMA PlacementInOrder ==
  ASSUME TimelineAssumption, NEW line, NEW from \in Nat, LineSound(line, from),
         LineInOrder(line, from), NEW g \in line.queue, NEW turn \in Nat
  PROVE  LineInOrder([segs |-> SegsAfter(line, g), queue |-> QueueAfter(line, g, turn)], from)
<1> DEFINE rank == Rank[g.of.plan]
           segs == line.segs
           length == g.length
<1>1. PICK e \in Nat :
        /\ EndOf(segs, rank, from, e) /\ from <= e
        /\ Periods(SlotsFor(line, g)) = {[start |-> e, end |-> e + length]}
        /\ SegsAfter(line, g) = Normalize(Placed(segs, rank, Whole(g, e)))
  BY PlacedWhole
<1> DEFINE new == Whole(g, e)
           p == [start |-> e, end |-> e + length]
<1>2. /\ SegsSound(segs) /\ rank \in Nat /\ length \in Nat \ {0} /\ g.of \in Segs
      /\ QueueSound(line.queue) /\ rank = Rank[g.of.plan]
  BY DEF LineSound, QueueSound, Items
<1>3. InOrder(segs, from)
  BY DEF LineInOrder
<1>4. new = [g.of EXCEPT !.start = e, !.end = e + length]
  BY DEF Whole
<1>5. QueueAfter(line, g, turn) = (line.queue \ {g}) \union Displaced(segs, rank, {p}, turn)
  BY <1>1 DEF QueueAfter
<1>6. \A h \in line.queue : Reaches(segs, Rank[h.of.plan], from, h.start)
  BY DEF LineInOrder
<1> HIDE DEF rank, length, segs, new
<1>7. new \in Segs /\ new.start = e /\ new.end = e + length /\ new.plan = g.of.plan
  <2> DEFINE n == e + length
  <2>1. g.of \in Segs /\ n \in Nat
    BY <1>2
  <2>2. new = [g.of EXCEPT !.start = e, !.end = n]
    BY <1>4
  <2> HIDE DEF n
  <2>3. new \in Segs /\ new.start = e /\ new.end = n /\ new.plan = g.of.plan
    BY <2>1, <2>2 DEF Segs
  <2> QED BY <2>3 DEF n
<1>8. new.start < new.end /\ rank = Rank[new.plan]
  BY <1>2, <1>7
<1>9. EndOf(segs, rank, from, new.start) /\ from <= new.start
  BY <1>1, <1>7
<1> DEFINE placed == Placed(segs, rank, new)
<1>10. SegsSound(placed)
  BY <1>2, <1>7, <1>8, <1>9, PlacedIs
<1>11. InOrder(placed, from)
  BY <1>2, <1>3, <1>7, <1>8, <1>9, PlacedInOrder
<1>12. SegsAfter(line, g) = Normalize(placed)
  BY <1>1 DEF new
<1> DEFINE after == Normalize(placed)
<1>13. InOrder(after, from)
  <2> HIDE DEF placed
  <2> QED BY <1>10, <1>11, NormalizeInOrder
<1>14. ASSUME NEW low \in Nat, NEW t \in Nat, Reaches(placed, low, from, t)
       PROVE  Reaches(after, low, from, t)
  <2> HIDE DEF placed
  <2> QED BY <1>10, <1>14, NormalizeReaches
<1>15. ASSUME NEW h \in line.queue PROVE Reaches(after, Rank[h.of.plan], from, h.start)
  <2> DEFINE low == Rank[h.of.plan]
             t == h.start
  <2>1. low \in Nat /\ t \in Nat
    BY <1>2 DEF QueueSound, Items
  <2>2. Reaches(segs, low, from, t)
    BY <1>6
  <2> HIDE DEF low, t, after
  <2>3. Reaches(placed, low, from, t)
    BY <1>2, <1>7, <1>8, <1>9, <2>1, <2>2, PlacedReaches
  <2>4. Reaches(after, low, from, t)
    BY <1>14, <2>1, <2>3
  <2> QED BY <2>4 DEF low, t
<1>16. p \in [start : Nat, end : Nat] /\ p.start = new.start /\ p.end = new.end
  BY <1>2, <1>7
<1> HIDE DEF p
<1>17. ASSUME NEW d \in Displaced(segs, rank, {p}, turn)
       PROVE  Reaches(after, Rank[d.of.plan], from, d.start)
  <2>1. PeriodsSound({p})
    BY <1>8, <1>16, FS_Singleton DEF PeriodsSound
  <2>2. IsDisplaced(segs, rank, {p}, turn, d)
    BY <1>2, <2>1, DisplacedAre
  <2>3. PICK s \in segs : Rank[s.plan] < rank /\ Overlaps(s, p) /\ d = Again(s, p, turn)
    BY <2>2 DEF IsDisplaced
  <2>4. s \in Segs /\ s.start < s.end /\ Rank[s.plan] \in Nat /\ s.end \in Nat
    BY <1>2 DEF SegsSound, Segs, TimelineAssumption
  <2> DEFINE t == d.start
  <2>5. d.of = s /\ t = IF s.end <= p.end THEN p.end ELSE s.end
    BY <1>8, <1>16, <2>3, <2>4, AgainIs
  <2>6. new.end \in Nat
    BY <1>2, <1>7
  <2> HIDE DEF t, after
  <2>7. t \in Nat /\ (t = new.end \/ t = s.end) /\ new.end <= t /\ s.end <= t
    BY <1>16, <2>4, <2>5, <2>6
  <2>8. Reaches(placed, Rank[s.plan], from, t)
    BY <1>2, <1>7, <1>8, <1>9, <2>3, <2>7, DisplacedReaches
  <2>9. Reaches(after, Rank[s.plan], from, t)
    BY <1>14, <2>4, <2>7, <2>8
  <2> QED BY <2>5, <2>9 DEF t
<1> HIDE DEF after
<1>18. \A h \in QueueAfter(line, g, turn) : Reaches(after, Rank[h.of.plan], from, h.start)
  BY <1>5, <1>15, <1>17
<1> QED BY <1>12, <1>13, <1>18 DEF LineInOrder, after

-----------------------------------------------------------------------------
(* The placements of a rebuilding, one after the other.                    *)

\* The line after n placements, where f has those before.
Placements(f, segs, grant, n) ==
  IF n = 0 THEN [segs |-> Normalize(segs), queue |-> {grant}]
  ELSE LET line == f[n - 1]
       IN  IF line.queue = {} THEN line ELSE Place(line, n)

LEMMA PlacementsExist ==
  ASSUME NEW segs, NEW grant, NEW limit \in Nat
  PROVE  \E f : f = [n \in 0..limit |-> Placements(f, segs, grant, n)]
<1> DEFINE Has(m) == \E f : f = [n \in 0..m |-> Placements(f, segs, grant, n)]
           T == {m \in Nat : Has(m)}
<1>1. 0 \in T
  <2> DEFINE a == [segs |-> Normalize(segs), queue |-> {grant}]
             f == [n \in 0..0 |-> a]
  <2>1. \A n \in 0..0 : Placements(f, segs, grant, n) = a
    BY DEF Placements
  <2> HIDE DEF a
  <2>2. f = [n \in 0..0 |-> Placements(f, segs, grant, n)]
    BY <2>1
  <2> QED BY <2>2
<1>2. ASSUME NEW m \in 0..(limit - 1), m \in T PROVE m + 1 \in T
  <2>1. PICK f : f = [n \in 0..m |-> Placements(f, segs, grant, n)]
    BY <1>2
  <2> DEFINE g == [n \in 0..m + 1 |-> IF n = m + 1 THEN Placements(f, segs, grant, n) ELSE f[n]]
  <2>2. \A n \in 0..m : f[n] = Placements(f, segs, grant, n)
    BY <2>1
  <2>3. \A n \in 0..m + 1 : n = m + 1 \/ n \in 0..m
    OBVIOUS
  <2>4. \A n \in 0..m : g[n] = f[n]
    OBVIOUS
  <2>5. g[m + 1] = Placements(f, segs, grant, m + 1)
    OBVIOUS
  <2>6. \A n \in 0..m + 1 : n = 0 \/ n - 1 \in 0..m
    OBVIOUS
  <2>7. g = [n \in 0..m + 1 |-> g[n]]
    OBVIOUS
  <2> HIDE DEF g
  <2>8. \A n \in 0..m + 1 : Placements(g, segs, grant, n) = Placements(f, segs, grant, n)
    BY <2>4, <2>6 DEF Placements
  <2>9. \A n \in 0..m + 1 : g[n] = Placements(g, segs, grant, n)
    BY <2>2, <2>3, <2>4, <2>5, <2>8
  <2>10. g = [n \in 0..m + 1 |-> Placements(g, segs, grant, n)]
    BY <2>7, <2>9
  <2> QED BY <2>10
<1> HIDE DEF Has
<1>3. \A n \in 0..limit : n \in T
  <2> HIDE DEF T
  <2> QED BY <1>1, <1>2, Induction
<1>4. Has(limit)
  BY <1>3
<1> QED BY <1>4 DEF Has

LEMMA BuildIs ==
  ASSUME NEW segs, NEW grant, grant.length * Cardinality(Plans) \in Nat
  PROVE  \E f : /\ f = [n \in 0..grant.length * Cardinality(Plans) |-> Placements(f, segs, grant, n)]
                /\ Build(segs, grant) = Normalize(f[grant.length * Cardinality(Plans)].segs)
<1> DEFINE limit == grant.length * Cardinality(Plans)
           f == CHOOSE f : f = [n \in 0..limit |-> Placements(f, segs, grant, n)]
<1>1. Build(segs, grant) = Normalize(f[limit].segs)
  BY DEF Build, Placements
<1>2. f = [n \in 0..limit |-> Placements(f, segs, grant, n)]
  BY PlacementsExist
<1> QED BY <1>1, <1>2

LEMMA PlaceSound ==
  ASSUME TimelineAssumption, NEW line, NEW from \in Nat, LineSound(line, from), line.queue # {},
         NEW turn \in Nat
  PROVE  /\ LineSound(Place(line, turn), from)
         /\ LineInOrder(line, from) => LineInOrder(Place(line, turn), from)
<1>1. PICK g \in line.queue :
        Place(line, turn) = [segs |-> SegsAfter(line, g), queue |-> QueueAfter(line, g, turn)]
  BY PlaceIs DEF LineSound
<1>2. LineSound(Place(line, turn), from)
  BY <1>1, PlacementSound
<1>3. LineInOrder(line, from) => LineInOrder(Place(line, turn), from)
  BY <1>1, PlacementInOrder
<1> QED BY <1>2, <1>3

\* What a rebuilding begins with.
Start(segs, grant) == [segs |-> segs, queue |-> {grant}]

\* A rebuilt timeline is sound and begins where the old one and the grant do; one without gaps
\* stays one.
LEMMA BuildSound ==
  ASSUME TimelineAssumption, NEW segs, NEW grant, NEW from \in Nat,
         LineSound(Start(segs, grant), from)
  PROVE  /\ SegsSound(Build(segs, grant))
         /\ \A s \in Build(segs, grant) : from <= s.start
         /\ LineInOrder(Start(segs, grant), from) => InOrder(Build(segs, grant), from)
<1> DEFINE limit == grant.length * Cardinality(Plans)
           first == [segs |-> Normalize(segs), queue |-> {grant}]
           Good(line) == /\ LineSound(line, from)
                         /\ LineInOrder(Start(segs, grant), from) => LineInOrder(line, from)
<1>1. SegsSound(segs) /\ grant \in Items /\ \A s \in segs : from <= s.start
  BY DEF LineSound, QueueSound, Start
<1>2. limit \in Nat
  <2>1. Cardinality(Plans) \in Nat
    BY FS_CardinalityType DEF TimelineAssumption
  <2>2. grant.length \in Nat
    BY <1>1 DEF Items
  <2> QED BY <2>1, <2>2
<1>3. PICK f : /\ f = [n \in 0..limit |-> Placements(f, segs, grant, n)]
               /\ Build(segs, grant) = Normalize(f[limit].segs)
  BY <1>2, BuildIs
<1>4. Good(first)
  <2>1. SegsSound(Normalize(segs)) /\ \A s \in Normalize(segs) : from <= s.start
    BY <1>1, NormalizeSound, NormalizeFrom
  <2>2. LineSound(first, from)
    BY <2>1 DEF LineSound, Start
  <2>3. ASSUME LineInOrder(Start(segs, grant), from) PROVE LineInOrder(first, from)
    <3>1. InOrder(segs, from) /\ Reaches(segs, Rank[grant.of.plan], from, grant.start)
      BY <2>3 DEF LineInOrder, Start
    <3>2. InOrder(Normalize(segs), from)
      BY <1>1, <3>1, NormalizeInOrder
    <3>3. Rank[grant.of.plan] \in Nat /\ grant.start \in Nat
      BY <1>1 DEF LineSound, QueueSound, Start, Items
    <3>4. Reaches(Normalize(segs), Rank[grant.of.plan], from, grant.start)
      BY <1>1, <3>1, <3>3, NormalizeReaches
    <3> QED BY <3>2, <3>4 DEF LineInOrder
  <2> QED BY <2>2, <2>3
<1> HIDE DEF first, limit
<1>5. \A n \in 0..limit : f[n] = Placements(f, segs, grant, n)
  BY <1>3
<1> DEFINE T == {n \in Nat : Good(f[n])}
<1>6. 0 \in T
  <2>1. f[0] = first
    <3>1. 0 \in 0..limit
      BY <1>2
    <3>2. f[0] = Placements(f, segs, grant, 0)
      BY <1>5, <3>1
    <3> QED BY <3>2 DEF Placements, first
  <2> HIDE DEF Good
  <2> QED BY <1>4, <2>1
<1>7. ASSUME NEW n \in 0..(limit - 1), n \in T PROVE n + 1 \in T
  <2>1. n \in Nat /\ n + 1 \in 0..limit /\ n + 1 # 0 /\ n + 1 - 1 = n /\ n + 1 \in Nat
    BY <1>2
  <2> DEFINE line == f[n]
             m == n + 1
  <2>2. f[m] = Placements(f, segs, grant, m)
    BY <1>5, <2>1
  <2>3. f[m] = IF line.queue = {} THEN line ELSE Place(line, m)
    BY <2>1, <2>2 DEF Placements
  <2>4. Good(line)
    BY <1>7
  <2>5. m \in Nat
    BY <2>1
  <2> HIDE DEF line, m
  <2>6. line.queue # {} => Good(Place(line, m))
    BY <2>4, <2>5, PlaceSound
  <2> HIDE DEF Good
  <2>7. Good(f[m])
    BY <2>3, <2>4, <2>6
  <2> QED BY <2>5, <2>7 DEF m
<1>8. \A n \in 0..limit : n \in T
  <2> HIDE DEF T
  <2> QED BY <1>2, <1>6, <1>7, Induction
<1>9. Good(f[limit])
  BY <1>2, <1>8
<1> DEFINE last == f[limit]
<1>10. SegsSound(last.segs) /\ \A s \in last.segs : from <= s.start
  BY <1>9 DEF LineSound
<1>11. LineInOrder(Start(segs, grant), from) => InOrder(last.segs, from)
  BY <1>9 DEF LineInOrder
<1>12. Build(segs, grant) = Normalize(last.segs)
  BY <1>3
<1> HIDE DEF last, Good, T
<1>13. SegsSound(Normalize(last.segs)) /\ \A s \in Normalize(last.segs) : from <= s.start
  BY <1>10, NormalizeSound, NormalizeFrom
<1>14. InOrder(last.segs, from) => InOrder(Normalize(last.segs), from)
  BY <1>10, NormalizeInOrder
<1> QED BY <1>11, <1>12, <1>13, <1>14

-----------------------------------------------------------------------------
(* Rows: what applySubscriptionTimeline makes of segments.                  *)

Targets(segs, r) == {s \in segs : s.id = r.id}

Taken(existing, segs) == UNION {Reused(r, Targets(segs, r)) : r \in existing}

KeptOf(segs, r) == {Updated(r, t) : t \in Reused(r, Targets(segs, r))}

Kept(existing, segs) == UNION {KeptOf(segs, r) : r \in existing}

Fresh(existing, segs) == segs \ Taken(existing, segs)

Created(number, t) ==
  [id |-> nextId + number[t] - 1, plan |-> t.plan, start |-> t.start, end |-> t.end]

Made(number, S) == {Created(number, t) : t \in S}

Numbers(S, number) ==
  number \in [S -> 1..Cardinality(S)] /\ \A t, u \in S : number[t] = number[u] => t = u

\* The segments that become rows of their own can be numbered.
LEMMA NumbersExist ==
  ASSUME NEW S, IsFiniteSet(S)
  PROVE  \E number \in [S -> 1..Cardinality(S)] : \A t, u \in S : number[t] = number[u] => t = u
<1> DEFINE N == 1..Cardinality(S)
<1>1. ExistsBijection(N, S)
  BY FS_CardinalityType
<1> HIDE DEF N
<1>2. ExistsBijection(S, N)
  BY <1>1, Fun_ExistsBijSymmetric
<1>3. PICK f : f \in Bijection(S, N)
  BY <1>2, Fun_ExistsBij
<1>4. f \in [S -> N] /\ \A t, u \in S : f[t] = f[u] => t = u
  BY <1>3 DEF Bijection, Injection, IsInjective
<1> QED BY <1>4 DEF N

LEMMA ApplyIs ==
  ASSUME NEW existing, NEW segs, IsFiniteSet(segs), Apply(existing, segs)
  PROVE  \E number :
           /\ Numbers(Fresh(existing, segs), number)
           /\ subscriptions' = (subscriptions \ existing) \union Kept(existing, segs)
                        \union {Created(number, t) : t \in Fresh(existing, segs)}
           /\ nextId' = nextId + Cardinality(Fresh(existing, segs))
<1> DEFINE fresh == Fresh(existing, segs)
           number == CHOOSE f \in [fresh -> 1..Cardinality(fresh)] :
                       \A t, u \in fresh : f[t] = f[u] => t = u
<1>1. IsFiniteSet(fresh)
  BY FS_Subset DEF Fresh
<1>2. Numbers(fresh, number)
  <2> HIDE DEF fresh
  <2>1. \E f \in [fresh -> 1..Cardinality(fresh)] : \A t, u \in fresh : f[t] = f[u] => t = u
    BY <1>1, NumbersExist
  <2> QED BY <2>1 DEF Numbers
<1>3. /\ subscriptions' = (subscriptions \ existing) \union Kept(existing, segs) \union {Created(number, t) : t \in fresh}
      /\ nextId' = nextId + Cardinality(fresh)
  BY DEF Apply, Targets, Taken, KeptOf, Kept, Fresh, Created
<1> HIDE DEF number
<1> QED BY <1>2, <1>3

\* Row x is what became of segment t.
IsRowOf(x, t) ==
  /\ x.plan = t.plan /\ x.end = t.end
  /\ x.start = t.start \/ (x.start < now /\ t.start = now)

\* At most one segment takes over a row.
LEMMA ReusedIs ==
  ASSUME TimelineAssumption, NEW r, NEW targets, SegsSound(targets)
  PROVE  /\ \A t \in Reused(r, targets) : t \in targets /\ ~(r.start < now /\ t.start > now)
         /\ \A t, u \in Reused(r, targets) : t = u
<1> DEFINE fits == {t \in targets : ~(r.start < now /\ t.start > now)}
           first == CHOOSE t \in fits : \A u \in fits : ~Before(u, t)
<1>1. Reused(r, targets) = IF fits = {} THEN {} ELSE {first}
  BY DEF Reused
<1>2. \A t \in fits : t \in targets /\ ~(r.start < now /\ t.start > now)
  OBVIOUS
<1>3. fits \subseteq Segs /\ IsFiniteSet(fits)
  BY FS_Subset DEF SegsSound
<1> HIDE DEF fits
<1>4. fits # {} => \E t \in fits : \A u \in fits : ~Before(u, t)
  BY <1>3, FirstSegment
<1>5. fits # {} => first \in fits
  BY <1>4
<1> HIDE DEF first
<1> QED BY <1>1, <1>2, <1>5

\* The rows of a user: distinct identifiers, none empty, none over.
RowsSound(R, next, time) ==
  /\ R \subseteq Row /\ IsFiniteSet(R)
  /\ \A r \in R : r.id < next /\ time < r.end /\ r.start < r.end
  /\ \A r, s \in R : r.id = s.id => r = s

\* A row that is used again.
LEMMA KeptIs ==
  ASSUME TimelineAssumption, now \in Nat, NEW existing, RowsSound(existing, nextId, now),
         NEW segs, SegsSound(segs), \A s \in segs : now <= s.start
  PROVE  /\ IsFiniteSet(Kept(existing, segs))
         /\ \A x \in Kept(existing, segs) :
              /\ x \in Row /\ now < x.end /\ x.start < x.end
              /\ \E r \in existing, t \in Taken(existing, segs) :
                   /\ t \in Reused(r, Targets(segs, r)) /\ x = Updated(r, t) /\ x.id = r.id
                   /\ t.id = r.id /\ t \in segs /\ IsRowOf(x, t)
         /\ \A t \in Taken(existing, segs) : \E x \in Kept(existing, segs) : IsRowOf(x, t)
         /\ Taken(existing, segs) \subseteq segs
<1>1. ASSUME NEW r \in existing
      PROVE  SegsSound(Targets(segs, r)) /\ \A t \in Targets(segs, r) : t \in segs /\ t.id = r.id
  <2>1. IsFiniteSet(Targets(segs, r))
    BY FS_Subset DEF Targets, SegsSound
  <2> QED BY <2>1 DEF Targets, SegsSound
<1>2. ASSUME NEW r \in existing, NEW t \in Reused(r, Targets(segs, r))
      PROVE  /\ t \in segs /\ t.id = r.id /\ Updated(r, t).id = r.id
             /\ Updated(r, t) \in Row /\ now < Updated(r, t).end
             /\ Updated(r, t).start < Updated(r, t).end /\ IsRowOf(Updated(r, t), t)
  <2>1. t \in segs /\ t.id = r.id /\ ~(r.start < now /\ t.start > now)
    BY <1>1, ReusedIs
  <2>2. t \in Segs /\ t.start < t.end /\ now <= t.start
    BY <2>1 DEF SegsSound
  <2>3. r \in Row
    BY DEF RowsSound
  <2> DEFINE start == IF r.start < now /\ t.start <= now THEN r.start ELSE t.start
             x == Updated(r, t)
  <2>4. x = [id |-> r.id, plan |-> t.plan, end |-> t.end, start |-> start]
    BY DEF Updated
  <2>5. /\ start \in Nat /\ start < t.end /\ now < t.end
        /\ start = t.start \/ (start < now /\ t.start = now)
    BY <2>2, <2>3 DEF Row, Segs
  <2> HIDE DEF start, x
  <2>6. x \in Row /\ x.id = r.id /\ x.plan = t.plan /\ x.end = t.end /\ x.start = start
    BY <2>2, <2>3, <2>4, <2>5 DEF Row, Segs
  <2>7. IsRowOf(x, t)
    BY <2>5, <2>6 DEF IsRowOf
  <2> QED BY <2>1, <2>5, <2>6, <2>7 DEF x
<1>3. ASSUME NEW r \in existing PROVE IsFiniteSet(KeptOf(segs, r))
  <2> DEFINE S == Reused(r, Targets(segs, r))
             f == [t \in S |-> Updated(r, t)]
  <2>1. S \subseteq segs
    BY <1>2
  <2>2. IsFiniteSet(S)
    BY <2>1, FS_Subset DEF SegsSound
  <2>3. KeptOf(segs, r) = {f[t] : t \in S}
    BY DEF KeptOf
  <2> HIDE DEF f, S
  <2> QED BY <2>2, <2>3, ImageIsFinite
<1>4. IsFiniteSet(Kept(existing, segs))
  <2> DEFINE f == [r \in existing |-> KeptOf(segs, r)]
  <2>1. Kept(existing, segs) = UNION {f[r] : r \in existing}
    BY DEF Kept
  <2>2. \A r \in existing : IsFiniteSet(f[r])
    BY <1>3
  <2> HIDE DEF f
  <2>3. IsFiniteSet({f[r] : r \in existing})
    BY ImageIsFinite DEF RowsSound
  <2> QED BY <2>1, <2>2, <2>3, FS_UNION
<1>5. \A r \in existing : \A t \in Reused(r, Targets(segs, r)) : t \in Taken(existing, segs)
  BY DEF Taken
<1>6. ASSUME NEW x \in Kept(existing, segs)
      PROVE  /\ x \in Row /\ now < x.end /\ x.start < x.end
             /\ \E r \in existing, t \in Taken(existing, segs) :
                  /\ t \in Reused(r, Targets(segs, r)) /\ x = Updated(r, t) /\ x.id = r.id
                  /\ t.id = r.id /\ t \in segs /\ IsRowOf(x, t)
  <2>1. PICK r \in existing : x \in KeptOf(segs, r)
    BY DEF Kept
  <2>2. PICK t \in Reused(r, Targets(segs, r)) : x = Updated(r, t)
    BY <2>1 DEF KeptOf
  <2> QED BY <1>2, <1>5, <2>2
<1>7. ASSUME NEW t \in Taken(existing, segs)
      PROVE  t \in segs /\ \E x \in Kept(existing, segs) : IsRowOf(x, t)
  <2>1. PICK r \in existing : t \in Reused(r, Targets(segs, r))
    BY DEF Taken
  <2>2. Updated(r, t) \in Kept(existing, segs)
    BY <2>1 DEF Kept, KeptOf
  <2> QED BY <1>2, <2>1, <2>2
<1> QED BY <1>4, <1>6, <1>7

\* The rows of the segments that take over none.
LEMMA CreatedAre ==
  ASSUME now \in Nat, nextId \in Nat \ {0}, NEW fresh, SegsSound(fresh),
         \A s \in fresh : now <= s.start, NEW number, Numbers(fresh, number)
  PROVE  /\ IsFiniteSet(Made(number, fresh))
         /\ Cardinality(fresh) \in Nat
         /\ \A t \in fresh :
              /\ Created(number, t) \in Row /\ now < Created(number, t).end
              /\ Created(number, t).start < Created(number, t).end
              /\ nextId <= Created(number, t).id /\ Created(number, t).id < nextId + Cardinality(fresh)
              /\ IsRowOf(Created(number, t), t)
         /\ \A t, u \in fresh : Created(number, t).id = Created(number, u).id => t = u
<1> DEFINE card == Cardinality(fresh)
           f == [t \in fresh |-> Created(number, t)]
<1>1. card \in Nat
  BY FS_CardinalityType DEF SegsSound
<1>2. \A t \in fresh : number[t] \in 1..card
  BY DEF Numbers
<1> HIDE DEF card
<1>3. ASSUME NEW t \in fresh
      PROVE  /\ Created(number, t) \in Row /\ now < Created(number, t).end
             /\ Created(number, t).start < Created(number, t).end
             /\ nextId <= Created(number, t).id /\ Created(number, t).id < nextId + card
             /\ Created(number, t).id = nextId + number[t] - 1
             /\ IsRowOf(Created(number, t), t)
  <2> DEFINE id == nextId + number[t] - 1
             x == Created(number, t)
  <2>1. id \in Nat \ {0} /\ nextId <= id /\ id < nextId + card
    BY <1>1, <1>2
  <2>2. t \in Segs /\ t.start < t.end /\ now <= t.start
    BY DEF SegsSound
  <2>3. x = [id |-> id, plan |-> t.plan, start |-> t.start, end |-> t.end]
    BY DEF Created
  <2>4. id = nextId + number[t] - 1
    OBVIOUS
  <2> HIDE DEF id, x
  <2>5. x \in Row /\ x.id = id /\ x.plan = t.plan /\ x.start = t.start /\ x.end = t.end
    BY <2>1, <2>2, <2>3 DEF Segs, Row
  <2>6. now < t.end
    BY <2>2 DEF Segs
  <2>7. IsRowOf(x, t)
    BY <2>5 DEF IsRowOf
  <2> QED BY <2>1, <2>2, <2>4, <2>5, <2>6, <2>7 DEF x
<1>4. IsFiniteSet(Made(number, fresh))
  <2>1. Made(number, fresh) = {f[t] : t \in fresh}
    BY DEF Made
  <2> HIDE DEF f
  <2> QED BY <2>1, ImageIsFinite DEF SegsSound
<1>5. ASSUME NEW t \in fresh, NEW u \in fresh, Created(number, t).id = Created(number, u).id
      PROVE  t = u
  <2>1. nextId + number[t] - 1 = nextId + number[u] - 1
    BY <1>3, <1>5
  <2>2. number[t] = number[u]
    BY <1>2, <2>1
  <2> QED BY <2>2 DEF Numbers
<1> QED BY <1>1, <1>3, <1>4, <1>5 DEF card

\* R consists of a row for each segment.
RowsOf(R, segs) ==
  /\ \A x \in R : \E t \in segs : IsRowOf(x, t)
  /\ \A t \in segs : \E x \in R : IsRowOf(x, t)
  /\ \A x, y \in R : x # y => \E t, u \in segs : t # u /\ IsRowOf(x, t) /\ IsRowOf(y, u)

LEMMA ApplyRows ==
  ASSUME TimelineAssumption, now \in Nat, nextId \in Nat \ {0}, RowsSound(subscriptions, nextId, now),
         NEW existing, existing \subseteq subscriptions, NEW segs, SegsSound(segs),
         \A s \in segs : now <= s.start, Apply(existing, segs)
  PROVE  /\ RowsSound(subscriptions', nextId', now) /\ nextId' \in Nat \ {0}
         /\ existing = subscriptions => RowsOf(subscriptions', segs)
<1> DEFINE kept == Kept(existing, segs)
           taken == Taken(existing, segs)
           fresh == Fresh(existing, segs)
<1>1. PICK number :
        /\ Numbers(fresh, number)
        /\ subscriptions' = (subscriptions \ existing) \union kept \union {Created(number, t) : t \in fresh}
        /\ nextId' = nextId + Cardinality(fresh)
  BY ApplyIs DEF SegsSound
<1> DEFINE made == Made(number, fresh)
           card == Cardinality(fresh)
<1>2. RowsSound(existing, nextId, now)
  BY FS_Subset DEF RowsSound
<1>3. /\ IsFiniteSet(kept)
      /\ \A x \in kept :
           /\ x \in Row /\ now < x.end /\ x.start < x.end
           /\ \E r \in existing, t \in taken :
                /\ t \in Reused(r, Targets(segs, r)) /\ x = Updated(r, t) /\ x.id = r.id
                /\ t.id = r.id /\ t \in segs /\ IsRowOf(x, t)
      /\ \A t \in taken : \E x \in kept : IsRowOf(x, t)
      /\ taken \subseteq segs
  BY <1>2, KeptIs
<1>4. /\ fresh \subseteq segs /\ \A t \in fresh : t \notin taken
      /\ \A t \in segs : t \in taken \/ t \in fresh
  BY DEF Fresh
<1>5. SegsSound(fresh) /\ \A s \in fresh : now <= s.start
  BY <1>4, FS_Subset DEF SegsSound
<1>6. /\ IsFiniteSet(made) /\ card \in Nat
      /\ \A t \in fresh :
           /\ Created(number, t) \in Row /\ now < Created(number, t).end
           /\ Created(number, t).start < Created(number, t).end
           /\ nextId <= Created(number, t).id /\ Created(number, t).id < nextId + card
           /\ IsRowOf(Created(number, t), t)
      /\ \A t, u \in fresh : Created(number, t).id = Created(number, u).id => t = u
  <2> HIDE DEF fresh
  <2> QED BY <1>1, <1>5, CreatedAre
<1>7. \A x \in made : \E t \in fresh : x = Created(number, t)
  BY DEF Made
<1>8. \A t \in fresh : Created(number, t) \in made
  BY DEF Made
<1>9. subscriptions' = (subscriptions \ existing) \union kept \union made /\ nextId' = nextId + card
  BY <1>1 DEF Made
<1> HIDE DEF kept, taken, fresh, made, card
<1>10. nextId' \in Nat \ {0} /\ nextId <= nextId'
  BY <1>6, <1>9
<1>11. ASSUME NEW x \in kept, NEW y \in kept, x # y
       PROVE  x.id # y.id /\ \E t, u \in segs : t # u /\ IsRowOf(x, t) /\ IsRowOf(y, u)
  <2>1. PICK r \in existing, t \in taken :
          /\ t \in Reused(r, Targets(segs, r)) /\ x = Updated(r, t) /\ x.id = r.id
          /\ t.id = r.id /\ t \in segs /\ IsRowOf(x, t)
    BY <1>3
  <2>2. PICK s \in existing, u \in taken :
          /\ u \in Reused(s, Targets(segs, s)) /\ y = Updated(s, u) /\ y.id = s.id
          /\ u.id = s.id /\ u \in segs /\ IsRowOf(y, u)
    BY <1>3
  <2>3. r # s
    <3>1. SegsSound(Targets(segs, r))
      BY FS_Subset DEF Targets, SegsSound
    <3>2. \A v, w \in Reused(r, Targets(segs, r)) : v = w
      BY <3>1, ReusedIs
    <3> QED BY <1>11, <2>1, <2>2, <3>2
  <2>4. r.id # s.id
    BY <1>2, <2>3 DEF RowsSound
  <2> QED BY <2>1, <2>2, <2>4
<1>12. ASSUME NEW x \in kept, NEW y \in made
       PROVE  x.id # y.id /\ \E t, u \in segs : t # u /\ IsRowOf(x, t) /\ IsRowOf(y, u)
  <2>1. PICK r \in existing, t \in taken : x.id = r.id /\ t \in segs /\ IsRowOf(x, t)
    BY <1>3
  <2>2. PICK u \in fresh : y = Created(number, u)
    BY <1>7
  <2>3. IsRowOf(y, u) /\ nextId <= y.id /\ y \in Row
    BY <1>6, <2>2
  <2>4. r.id < nextId /\ r \in Row
    BY <1>2 DEF RowsSound
  <2>5. x.id # y.id
    BY <2>1, <2>3, <2>4 DEF Row
  <2> QED BY <1>4, <2>1, <2>3, <2>5
<1>13. ASSUME NEW x \in made, NEW y \in made, x # y
       PROVE  x.id # y.id /\ \E t, u \in segs : t # u /\ IsRowOf(x, t) /\ IsRowOf(y, u)
  <2>1. PICK t \in fresh, u \in fresh : x = Created(number, t) /\ y = Created(number, u)
    BY <1>7
  <2>2. t # u
    BY <1>13, <2>1
  <2> QED BY <1>4, <1>6, <2>1, <2>2
<1>14. ASSUME NEW x \in subscriptions \ existing, NEW y \in kept PROVE x.id # y.id
  <2>1. PICK r \in existing : y.id = r.id
    BY <1>3
  <2> QED BY <2>1 DEF RowsSound
<1>15. ASSUME NEW x \in subscriptions \ existing, NEW y \in made PROVE x.id # y.id
  <2>1. nextId <= y.id /\ y \in Row
    BY <1>6, <1>7
  <2>2. x.id < nextId /\ x \in Row
    BY DEF RowsSound
  <2> QED BY <2>1, <2>2 DEF Row
<1>16. RowsSound(subscriptions', nextId', now)
  <2>1. \A x \in made : x \in Row /\ now < x.end /\ x.start < x.end /\ x.id < nextId'
    BY <1>6, <1>7, <1>9
  <2>2. \A x \in kept : x.id < nextId
    BY <1>2, <1>3 DEF RowsSound
  <2>3. \A x \in kept : x \in Row /\ now < x.end /\ x.start < x.end
    BY <1>3
  <2>4. \A x \in kept : x.id < nextId'
    BY <1>10, <2>2, <2>3 DEF Row
  <2>5. ASSUME NEW x \in subscriptions \ existing
        PROVE  x \in Row /\ now < x.end /\ x.start < x.end /\ x.id < nextId'
    <3>1. x \in Row /\ now < x.end /\ x.start < x.end /\ x.id < nextId
      BY DEF RowsSound
    <3> QED BY <1>10, <3>1 DEF Row
  <2>6. \A x \in subscriptions' : x \in Row /\ x.id < nextId' /\ now < x.end /\ x.start < x.end
    BY <1>9, <2>1, <2>3, <2>4, <2>5
  <2>7. IsFiniteSet(subscriptions')
    <3>1. IsFiniteSet(subscriptions \ existing)
      BY FS_Subset DEF RowsSound
    <3>2. IsFiniteSet((subscriptions \ existing) \union kept)
      BY <1>3, <3>1, FS_Union
    <3> QED BY <1>6, <1>9, <3>2, FS_Union
  <2>8. \A x, y \in subscriptions \ existing : x.id = y.id => x = y
    BY DEF RowsSound
  <2>9. ASSUME NEW x \in subscriptions', NEW y \in subscriptions', x.id = y.id PROVE x = y
    <3>1. CASE x \in subscriptions \ existing
      BY <1>9, <1>14, <1>15, <2>8, <2>9, <3>1
    <3>2. CASE x \in kept
      BY <1>9, <1>11, <1>12, <1>14, <2>9, <3>2
    <3>3. CASE x \in made
      BY <1>9, <1>12, <1>13, <1>15, <2>9, <3>3
    <3> QED BY <1>9, <3>1, <3>2, <3>3
  <2> QED BY <2>6, <2>7, <2>9 DEF RowsSound
<1>17. ASSUME existing = subscriptions PROVE RowsOf(subscriptions', segs)
  <2>1. subscriptions' = kept \union made
    BY <1>9, <1>17
  <2>2. \A x \in subscriptions' : \E t \in segs : IsRowOf(x, t)
    BY <1>3, <1>4, <1>6, <1>7, <2>1
  <2>3. \A t \in segs : \E x \in subscriptions' : IsRowOf(x, t)
    BY <1>3, <1>4, <1>6, <1>8, <2>1
  <2>4. ASSUME NEW x \in subscriptions', NEW y \in subscriptions', x # y
        PROVE  \E t, u \in segs : t # u /\ IsRowOf(x, t) /\ IsRowOf(y, u)
    <3>1. CASE x \in kept /\ y \in kept
      BY <1>11, <2>4, <3>1
    <3>2. CASE x \in kept /\ y \in made
      BY <1>12, <3>2
    <3>3. CASE x \in made /\ y \in kept
      BY <1>12, <3>3
    <3>4. CASE x \in made /\ y \in made
      BY <1>13, <2>4, <3>4
    <3> QED BY <2>1, <3>1, <3>2, <3>3, <3>4
  <2> QED BY <2>2, <2>3, <2>4 DEF RowsOf
<1> QED BY <1>10, <1>16, <1>17

\* What an old timeline looks like from now on.
SegmentsOf(R) == {Segment(r) : r \in R}

LEMMA SegmentIs ==
  ASSUME now \in Nat, NEW r \in Row, now < r.end, r.start < r.end
  PROVE  /\ Segment(r) \in Segs /\ Segment(r).start < Segment(r).end /\ now <= Segment(r).start
         /\ Segment(r).plan = r.plan /\ Segment(r).end = r.end
         /\ Segment(r).start = IF r.start < now THEN now ELSE r.start
<1> DEFINE m == Max({r.start, now})
<1>1. r.start \in Nat /\ r.end \in Nat /\ r.id \in Nat /\ r.plan \in Plans
  BY DEF Row
<1>2. m = IF now <= r.start THEN r.start ELSE now
  BY <1>1, MaxOfTwo
<1>3. Segment(r) = [id |-> r.id, plan |-> r.plan, start |-> m, end |-> r.end]
  BY DEF Segment
<1> HIDE DEF m
<1>4. m \in Nat /\ m < r.end /\ now <= m /\ m = IF r.start < now THEN now ELSE r.start
  BY <1>1, <1>2
<1> QED BY <1>1, <1>3, <1>4 DEF Segs

LEMMA SegmentsSound ==
  ASSUME now \in Nat, NEW next, NEW R, RowsSound(R, next, now)
  PROVE  SegsSound(SegmentsOf(R)) /\ \A s \in SegmentsOf(R) : now <= s.start
<1> DEFINE f == [r \in R |-> Segment(r)]
<1>1. SegmentsOf(R) = {f[r] : r \in R}
  BY DEF SegmentsOf
<1>2. \A r \in R : f[r] = Segment(r)
  OBVIOUS
<1>3. \A r \in R : r \in Row /\ now < r.end /\ r.start < r.end
  BY DEF RowsSound
<1>4. \A r \in R : f[r] \in Segs /\ f[r].start < f[r].end /\ now <= f[r].start
  BY <1>2, <1>3, SegmentIs
<1> HIDE DEF f
<1>5. IsFiniteSet({f[r] : r \in R})
  BY ImageIsFinite DEF RowsSound
<1> QED BY <1>1, <1>4, <1>5 DEF SegsSound

LEMMA SegmentsInOrder ==
  ASSUME TimelineAssumption, now \in Nat, RowsSound(subscriptions, nextId, now), Contiguous
  PROVE  InOrder(SegmentsOf(subscriptions), now)
<1>1. \A r \in subscriptions : r \in Row /\ now < r.end /\ r.start < r.end
  BY DEF RowsSound
<1>2. \A r \in subscriptions : r.start \in Nat /\ r.end \in Nat
  BY <1>1 DEF Row
<1>3. \A r \in subscriptions :
        /\ now <= Segment(r).start /\ Segment(r).plan = r.plan /\ Segment(r).end = r.end
        /\ Segment(r).start = IF r.start < now THEN now ELSE r.start
  BY <1>1, SegmentIs
<1>4. \A s \in SegmentsOf(subscriptions) : \E r \in subscriptions : s = Segment(r)
  BY DEF SegmentsOf
<1>5. \A r \in subscriptions : Segment(r) \in SegmentsOf(subscriptions)
  BY DEF SegmentsOf
<1>6. \A s \in SegmentsOf(subscriptions) : now <= s.start
  BY <1>3, <1>4
<1>7. ASSUME NEW s \in SegmentsOf(subscriptions), NEW t \in SegmentsOf(subscriptions), s # t PROVE ~Overlaps(s, t)
  <2>1. PICK r \in subscriptions, q \in subscriptions : s = Segment(r) /\ t = Segment(q)
    BY <1>4
  <2>2. ~(r.start < q.end /\ q.start < r.end)
    BY <1>7, <2>1 DEF Contiguous, Overlaps
  <2>3. ~(s.start < t.end /\ t.start < s.end)
    <3>1. /\ s.end = r.end /\ t.end = q.end
          /\ s.start = IF r.start < now THEN now ELSE r.start
          /\ t.start = IF q.start < now THEN now ELSE q.start
      BY <1>3, <2>1
    <3> QED BY <1>2, <2>2, <3>1
  <2> QED BY <2>3 DEF Overlaps
<1>8. ASSUME NEW s \in SegmentsOf(subscriptions), NEW t \in SegmentsOf(subscriptions), s.start < t.start
      PROVE  Rank[s.plan] >= Rank[t.plan]
  <2>1. PICK r \in subscriptions, q \in subscriptions : s = Segment(r) /\ t = Segment(q)
    BY <1>4
  <2>2. r.start < q.start
    BY <1>2, <1>3, <1>8, <2>1
  <2>3. Rank[r.plan] >= Rank[q.plan]
    BY <2>2 DEF Contiguous
  <2> QED BY <1>3, <2>1, <2>3
<1>9. ASSUME NEW s \in SegmentsOf(subscriptions), s.start > now
      PROVE  \E t \in SegmentsOf(subscriptions) : t.end = s.start
  <2>1. PICK r \in subscriptions : s = Segment(r)
    BY <1>4
  <2>2. r.start > now /\ s.start = r.start
    BY <1>2, <1>3, <1>9, <2>1
  <2>3. PICK q \in subscriptions : q.end = r.start
    BY <2>2 DEF Contiguous
  <2> QED BY <1>3, <1>5, <2>2, <2>3
<1> QED BY <1>6, <1>7, <1>8, <1>9 DEF InOrder, Disjoint

\* Rows of a timeline without gaps leave none.
LEMMA RowsInOrder ==
  ASSUME TimelineAssumption, now \in Nat, now' = now, NEW next, RowsSound(subscriptions', next, now),
         NEW segs, SegsSound(segs), InOrder(segs, now), RowsOf(subscriptions', segs)
  PROVE  Contiguous'
<1>1. \A x \in subscriptions' : x.start \in Nat /\ x.end \in Nat /\ x.start < x.end
  BY DEF RowsSound, Row
<1>2. \A t \in segs : t.start \in Nat /\ t.end \in Nat /\ t.start < t.end /\ now <= t.start
  BY DEF SegsSound, Segs, InOrder
<1>3. ASSUME NEW x \in subscriptions', NEW y \in subscriptions', x # y PROVE ~Overlaps(x, y)
  <2>1. PICK t \in segs, u \in segs : t # u /\ IsRowOf(x, t) /\ IsRowOf(y, u)
    BY <1>3 DEF RowsOf
  <2>2. ~(t.start < u.end /\ u.start < t.end)
    BY <2>1 DEF InOrder, Disjoint, Overlaps
  <2> QED BY <1>1, <1>2, <2>1, <2>2 DEF IsRowOf, Overlaps
<1>4. ASSUME NEW x \in subscriptions', x.start > now PROVE \E y \in subscriptions' : y.end = x.start
  <2>1. PICK t \in segs : IsRowOf(x, t)
    BY DEF RowsOf
  <2>2. t.start = x.start
    BY <1>1, <1>4, <2>1 DEF IsRowOf
  <2>3. PICK u \in segs : u.end = t.start
    BY <1>4, <2>2 DEF InOrder
  <2>4. PICK y \in subscriptions' : IsRowOf(y, u)
    BY DEF RowsOf
  <2> QED BY <2>2, <2>3, <2>4 DEF IsRowOf
<1>5. ASSUME NEW x \in subscriptions', NEW y \in subscriptions', x.start < y.start
      PROVE  Rank[x.plan] >= Rank[y.plan]
  <2>1. x # y
    BY <1>1, <1>5
  <2>2. PICK t \in segs, u \in segs : t # u /\ IsRowOf(x, t) /\ IsRowOf(y, u)
    BY <2>1 DEF RowsOf
  <2>3. ~(t.start < u.end /\ u.start < t.end)
    BY <2>2 DEF InOrder, Disjoint, Overlaps
  <2>4. t.start < u.start
    BY <1>1, <1>2, <1>5, <2>2, <2>3 DEF IsRowOf
  <2>5. Rank[t.plan] >= Rank[u.plan]
    BY <2>4 DEF InOrder
  <2> QED BY <2>2, <2>5 DEF IsRowOf
<1> QED BY <1>3, <1>4, <1>5 DEF Contiguous, Overlaps

-----------------------------------------------------------------------------
(* The invariant.                                                          *)

LEMMA TypeIs ==
  ASSUME TimelineAssumption, TimelineTypeOK
  PROVE  /\ now \in Nat /\ nextId \in Nat \ {0} /\ RowsSound(subscriptions, nextId, now) /\ Running = subscriptions
         /\ \A c \in Calls : call[c].at # "idle" =>
              /\ call[c].at \in {"read", "locked"}
              /\ call[c].plan \in Plans /\ call[c].length \in Durations /\ call[c].ids \subseteq Nat
<1>1. now \in Nat
  BY DEF TimelineTypeOK, TimelineAssumption
<1>2. RowsSound(subscriptions, nextId, now)
  BY DEF TimelineTypeOK, RowsSound
<1>3. Running = subscriptions
  BY <1>1, <1>2 DEF Running, RowsSound, Row
<1>4. ASSUME NEW c \in Calls, call[c].at # "idle"
      PROVE  /\ call[c].at \in {"read", "locked"}
             /\ call[c].plan \in Plans /\ call[c].length \in Durations /\ call[c].ids \subseteq Nat
  <2>1. call[c] \in CallRecord /\ call[c] # Idle
    BY <1>4 DEF TimelineTypeOK, Idle
  <2> QED BY <2>1 DEF CallRecord
<1> QED BY <1>1, <1>2, <1>3, <1>4 DEF TimelineTypeOK

\* A grant is sound, and it is to begin now.
LEMMA GrantIs ==
  ASSUME TimelineAssumption, now \in Nat, NEW p \in Plans, NEW d \in Durations
  PROVE  QueueSound({Grant(p, d)}) /\ Grant(p, d).start = now /\ Rank[Grant(p, d).of.plan] \in Nat
<1> DEFINE of == [id |-> 0, plan |-> p, start |-> now, end |-> now]
           g == Grant(p, d)
<1>1. of \in Segs /\ of.plan = p
  BY DEF Segs
<1>2. d \in Nat \ {0} /\ Rank[p] \in Nat
  BY DEF TimelineAssumption
<1>3. g = [of |-> of, turn |-> 0, at |-> now, start |-> now, length |-> d]
  BY DEF Grant
<1> HIDE DEF of, g
<1>4. g \in Items /\ g.of = of /\ g.start = now
  BY <1>1, <1>2, <1>3 DEF Items
<1>5. QueueSound({g})
  BY <1>1, <1>2, <1>4, FS_Singleton DEF QueueSound
<1> QED BY <1>1, <1>2, <1>4, <1>5 DEF g

\* What a grant does to the rows.
LEMMA CommitRows ==
  ASSUME TimelineAssumption, TimelineTypeOK, NEW c \in Calls, Commit(c)
  PROVE  /\ RowsSound(subscriptions', nextId', now) /\ nextId' \in Nat \ {0}
         /\ Contiguous /\ call[c].ids = {r.id : r \in subscriptions} => Contiguous'
<1> DEFINE g == call[c]
           existing == {r \in Running : r.id \in g.ids}
           old == SegmentsOf(existing)
           grant == Grant(g.plan, g.length)
           segs == Build(old, grant)
<1>1. /\ now \in Nat /\ nextId \in Nat \ {0} /\ RowsSound(subscriptions, nextId, now) /\ Running = subscriptions
      /\ g.plan \in Plans /\ g.length \in Durations
  BY TypeIs DEF Commit
<1>2. Apply(existing, segs) /\ now' = now
  BY DEF Commit, SegmentsOf
<1>3. existing \subseteq subscriptions /\ (g.ids = {r.id : r \in subscriptions} => existing = subscriptions)
  BY <1>1
<1> HIDE DEF g, existing
<1>4. RowsSound(existing, nextId, now)
  BY <1>1, <1>3, FS_Subset DEF RowsSound
<1>5. SegsSound(old) /\ \A s \in old : now <= s.start
  BY <1>1, <1>4, SegmentsSound
<1>6. QueueSound({grant}) /\ grant.start = now /\ Rank[grant.of.plan] \in Nat
  BY <1>1, GrantIs
<1> HIDE DEF old, grant
<1>7. LineSound(Start(old, grant), now)
  BY <1>1, <1>5, <1>6 DEF LineSound, Start
<1>8. /\ SegsSound(segs) /\ \A s \in segs : now <= s.start
      /\ LineInOrder(Start(old, grant), now) => InOrder(segs, now)
  BY <1>1, <1>7, BuildSound
<1> HIDE DEF segs
<1>9. /\ RowsSound(subscriptions', nextId', now) /\ nextId' \in Nat \ {0}
      /\ existing = subscriptions => RowsOf(subscriptions', segs)
  BY <1>1, <1>2, <1>3, <1>8, ApplyRows
<1>10. ASSUME Contiguous, g.ids = {r.id : r \in subscriptions} PROVE Contiguous'
  <2>1. existing = subscriptions
    BY <1>3, <1>10
  <2>2. InOrder(old, now)
    BY <1>1, <1>10, <2>1, SegmentsInOrder DEF old
  <2>3. LineInOrder(Start(old, grant), now)
    BY <1>6, <2>2 DEF LineInOrder, Start, Reaches
  <2> QED BY <1>1, <1>2, <1>8, <1>9, <2>1, <2>3, RowsInOrder
<1> QED BY <1>9, <1>10 DEF g

\* Types: the bounds of the counters, the shape of rows and calls, and rows that have identifiers
\* of their own, are not empty and not over (Apply, Advance).
THEOREM TimelineTypeCorrect ==
  ASSUME TimelineAssumption
  PROVE  TimelineSpec => []TimelineTypeOK
<1>1. ASSUME TimelineInit PROVE TimelineTypeOK
  <2>1. Idle \in CallRecord
    BY DEF CallRecord
  <2>2. call \in [Calls -> CallRecord]
    BY <1>1, <2>1 DEF TimelineInit
  <2>3. 0 \in 0..Horizon /\ 0 \in 0..MaxGrants /\ 1 \in Nat \ {0}
    BY DEF TimelineAssumption
  <2> QED BY <1>1, <2>2, <2>3, FS_EmptySet DEF TimelineInit, TimelineTypeOK
<1>2. ASSUME TimelineTypeOK, [TimelineNext]_timelineVars PROVE TimelineTypeOK'
  <2>1. /\ now \in Nat /\ nextId \in Nat \ {0} /\ RowsSound(subscriptions, nextId, now) /\ Running = subscriptions
    BY <1>2, TypeIs
  <2>2. ASSUME NEW c \in Calls, NEW p \in Plans, NEW d \in Durations, Read(c, p, d)
        PROVE  TimelineTypeOK'
    <3>1. {r.id : r \in Running} \subseteq Nat
      BY <2>1 DEF RowsSound, Row
    <3> DEFINE x == [at |-> "read", plan |-> p, length |-> d, ids |-> {r.id : r \in Running}]
    <3>2. x \in CallRecord
      BY <3>1 DEF CallRecord
    <3>3. call' = [call EXCEPT ![c] = x] /\ grants' = grants + 1 /\ grants < MaxGrants
      BY <2>2 DEF Read
    <3> HIDE DEF x
    <3>4. call' \in [Calls -> CallRecord] /\ grants' \in 0..MaxGrants
      BY <1>2, <3>2, <3>3 DEF TimelineTypeOK, TimelineAssumption
    <3> QED BY <1>2, <2>2, <3>4 DEF TimelineTypeOK, Read
  <2>3. ASSUME NEW c \in Calls, Lock(c) PROVE TimelineTypeOK'
    <3>1. call[c] \in [at : {"read", "locked"}, plan : Plans, length : Durations, ids : SUBSET Nat]
      BY <1>2, <2>3 DEF Lock, TimelineTypeOK, CallRecord, Idle
    <3>2. [call[c] EXCEPT !.at = "locked"] \in CallRecord
      BY <3>1 DEF CallRecord
    <3>3. call' = [call EXCEPT ![c] = [call[c] EXCEPT !.at = "locked"]]
      BY <2>3 DEF Lock
    <3>4. call' \in [Calls -> CallRecord]
      BY <1>2, <3>2, <3>3 DEF TimelineTypeOK
    <3> QED BY <1>2, <2>3, <3>4 DEF TimelineTypeOK, Lock
  <2>4. ASSUME NEW c \in Calls, Commit(c) PROVE TimelineTypeOK'
    <3>1. RowsSound(subscriptions', nextId', now) /\ nextId' \in Nat \ {0}
      BY <1>2, <2>4, CommitRows
    <3>2. Idle \in CallRecord
      BY DEF CallRecord
    <3>3. /\ call' = [call EXCEPT ![c] = Idle]
          /\ now' = now /\ grants' = grants /\ switching' = switching
      BY <2>4 DEF Commit
    <3>4. call' \in [Calls -> CallRecord]
      BY <1>2, <3>2, <3>3 DEF TimelineTypeOK
    <3> QED BY <1>2, <3>1, <3>3, <3>4 DEF TimelineTypeOK, RowsSound
  <2>5. ASSUME NEW p \in Plans, NEW d \in Terms, Set(p, d) PROVE TimelineTypeOK'
    <3> DEFINE x == [id |-> nextId, plan |-> p, start |-> now, end |-> now + d]
    <3>1. d \in Nat \ {0}
      BY DEF TimelineAssumption
    <3>2. now + d \in Nat /\ now < now + d /\ nextId < nextId + 1 /\ nextId + 1 \in Nat \ {0}
      BY <2>1, <3>1
    <3>3. x \in Row /\ x.id < nextId + 1 /\ now < x.end /\ x.start < x.end
      BY <2>1, <3>2 DEF Row
    <3>4. /\ subscriptions' = {x} /\ nextId' = nextId + 1 /\ grants' = grants + 1 /\ grants < MaxGrants
          /\ UNCHANGED <<now, call, switching>>
      BY <2>5 DEF Set
    <3> HIDE DEF x
    <3>5. grants' \in 0..MaxGrants
      BY <1>2, <3>4 DEF TimelineTypeOK, TimelineAssumption
    <3>6. IsFiniteSet({x})
      BY FS_Singleton
    <3> QED BY <1>2, <3>2, <3>3, <3>4, <3>5, <3>6 DEF TimelineTypeOK
  <2>6. CASE CheckFree
    BY <1>2, <2>6 DEF TimelineTypeOK, CheckFree
  <2>7. CASE SwitchToFree
    BY <1>2, <2>7, FS_EmptySet DEF TimelineTypeOK, SwitchToFree
  <2>8. CASE Advance
    <3>1. /\ now' = now + 1 /\ now < Horizon /\ subscriptions' = {r \in subscriptions : r.end > now + 1}
          /\ UNCHANGED <<nextId, call, grants, switching>>
      BY <2>8 DEF Advance
    <3>2. now' \in 0..Horizon
      BY <1>2, <3>1 DEF TimelineTypeOK, TimelineAssumption
    <3>3. subscriptions' \subseteq subscriptions /\ \A r \in subscriptions' : now' < r.end
      BY <2>1, <3>1 DEF RowsSound, Row
    <3>4. IsFiniteSet(subscriptions')
      BY <2>1, <3>3, FS_Subset DEF RowsSound
    <3> QED BY <1>2, <3>1, <3>2, <3>3, <3>4 DEF TimelineTypeOK
  <2>9. CASE UNCHANGED timelineVars
    BY <1>2, <2>9 DEF TimelineTypeOK, timelineVars
  <2>10. CASE SetFree
    <3>1. /\ grants < MaxGrants /\ grants' = grants + 1 /\ subscriptions' = {}
          /\ UNCHANGED <<now, nextId, call, switching>>
      BY <2>10 DEF SetFree
    <3>2. grants' \in 0..MaxGrants
      BY <1>2, <3>1 DEF TimelineTypeOK, TimelineAssumption
    <3> QED BY <1>2, <3>1, <3>2, FS_EmptySet DEF TimelineTypeOK
  <2> QED BY <1>2, <2>2, <2>3, <2>4, <2>5, <2>6, <2>7, <2>8, <2>9, <2>10 DEF TimelineNext
<1> QED BY <1>1, <1>2, PTL DEF TimelineSpec

LEMMA QuietIs ==
  ASSUME Serial, Alone
  PROVE  ~switching /\ \A c \in Calls : call[c].at = "idle"
  BY DEF Alone

LEMMA ReadKeeps ==
  ASSUME TimelineAssumption, Serial, TimelineInvariant, NEW c \in Calls, NEW p \in Plans,
         NEW d \in Durations, Read(c, p, d)
  PROVE  Contiguous' /\ CallsSound'
<1> DEFINE x == [at |-> "read", plan |-> p, length |-> d, ids |-> {r.id : r \in Running}]
<1>1. Running = subscriptions
  BY TypeIs DEF TimelineInvariant
<1>2. call' = [call EXCEPT ![c] = x] /\ UNCHANGED <<now, subscriptions, switching>>
  BY DEF Read
<1>3. x.ids = {r.id : r \in subscriptions}
  BY <1>1
<1>4. ~switching /\ \A b \in Calls : call[b].at = "idle"
  BY QuietIs DEF Read
<1> HIDE DEF x
<1>5. call'[c] = x /\ \A b \in Calls : b # c => call'[b] = call[b]
  BY <1>2 DEF TimelineInvariant, TimelineTypeOK
<1>6. CallsSound'
  BY <1>2, <1>3, <1>4, <1>5 DEF CallsSound
<1>7. Contiguous'
  BY <1>2 DEF TimelineInvariant, Contiguous
<1> QED BY <1>6, <1>7

LEMMA LockKeeps ==
  ASSUME TimelineInvariant, NEW c \in Calls, Lock(c)
  PROVE  Contiguous' /\ CallsSound'
<1>1. call' = [call EXCEPT ![c].at = "locked"] /\ UNCHANGED <<now, subscriptions, switching>>
  BY DEF Lock
<1>2. call[c] \in [at : {"read", "locked"}, plan : Plans, length : Durations, ids : SUBSET Nat]
  BY DEF Lock, TimelineInvariant, TimelineTypeOK, CallRecord, Idle
<1>3. /\ call'[c].ids = call[c].ids /\ call[c].at # "idle"
      /\ \A b \in Calls : b # c => call'[b] = call[b]
  BY <1>1, <1>2 DEF TimelineInvariant, TimelineTypeOK
<1>4. CallsSound'
  BY <1>1, <1>3 DEF CallsSound, TimelineInvariant
<1>5. Contiguous'
  BY <1>1 DEF TimelineInvariant, Contiguous
<1> QED BY <1>4, <1>5

LEMMA CommitKeeps ==
  ASSUME TimelineAssumption, TimelineInvariant, NEW c \in Calls, Commit(c)
  PROVE  Contiguous' /\ CallsSound'
<1>1. call[c].at # "idle"
  BY DEF Commit
<1>2. /\ call[c].ids = {r.id : r \in subscriptions}
      /\ \A b \in Calls : b # c => call[b].at = "idle"
  BY <1>1 DEF TimelineInvariant, CallsSound
<1>3. Contiguous'
  BY <1>2, CommitRows DEF TimelineInvariant
<1>4. call' = [call EXCEPT ![c] = Idle]
  BY DEF Commit
<1>5. \A b \in Calls : call'[b].at = "idle"
  BY <1>2, <1>4 DEF TimelineInvariant, TimelineTypeOK, Idle
<1> QED BY <1>3, <1>5 DEF CallsSound

LEMMA SetKeeps ==
  ASSUME TimelineAssumption, Serial, TimelineInvariant, NEW p \in Plans, NEW d \in Terms, Set(p, d)
  PROVE  Contiguous' /\ CallsSound'
<1> DEFINE x == [id |-> nextId, plan |-> p, start |-> now, end |-> now + d]
<1>1. subscriptions' = {x} /\ UNCHANGED <<now, call>> /\ x.start = now
  BY DEF Set
<1>2. \A b \in Calls : call[b].at = "idle"
  BY QuietIs DEF Set
<1> HIDE DEF x
<1>3. CallsSound'
  BY <1>1, <1>2 DEF CallsSound
<1>4. now \in Nat
  BY TypeIs DEF TimelineInvariant
<1>5. Contiguous'
  BY <1>1, <1>4 DEF Contiguous
<1> QED BY <1>3, <1>5

LEMMA SetFreeKeeps ==
  ASSUME Serial, SetFree
  PROVE  Contiguous' /\ CallsSound'
<1>1. subscriptions' = {} /\ call' = call
  BY DEF SetFree
<1>2. \A b \in Calls : call[b].at = "idle"
  BY QuietIs DEF SetFree
<1> QED BY <1>1, <1>2 DEF Contiguous, CallsSound

LEMMA SwitchKeeps ==
  ASSUME TimelineInvariant, SwitchToFree
  PROVE  Contiguous' /\ CallsSound'
<1>1. subscriptions' = {} /\ call' = call /\ switching
  BY DEF SwitchToFree
<1>2. \A b \in Calls : call[b].at = "idle"
  BY <1>1 DEF TimelineInvariant, CallsSound
<1> QED BY <1>1, <1>2 DEF Contiguous, CallsSound

LEMMA AdvanceKeeps ==
  ASSUME TimelineAssumption, TimelineInvariant, Advance
  PROVE  Contiguous' /\ CallsSound'
<1>1. /\ now' = now + 1 /\ subscriptions' = {r \in subscriptions : r.end > now + 1} /\ call' = call
      /\ \A b \in Calls : call[b].at = "idle"
  BY DEF Advance
<1>2. now \in Nat /\ RowsSound(subscriptions, nextId, now)
  BY TypeIs DEF TimelineInvariant
<1>3. \A r \in subscriptions : r.start \in Nat /\ r.end \in Nat
  BY <1>2 DEF RowsSound, Row
<1>4. subscriptions' \subseteq subscriptions
  BY <1>1
<1>5. ASSUME NEW r \in subscriptions', r.start > now' PROVE \E s \in subscriptions' : s.end = r.start
  <2>1. r \in subscriptions /\ r.start > now
    BY <1>1, <1>2, <1>3, <1>4, <1>5
  <2>2. PICK s \in subscriptions : s.end = r.start
    BY <2>1 DEF TimelineInvariant, Contiguous
  <2> QED BY <1>1, <1>5, <2>2
<1>6. \A r, s \in subscriptions' : r # s => ~Overlaps(r, s)
  BY <1>4 DEF TimelineInvariant, Contiguous
<1>7. \A r, s \in subscriptions' : r.start < s.start => Rank[r.plan] >= Rank[s.plan]
  BY <1>4 DEF TimelineInvariant, Contiguous
<1>8. Contiguous'
  BY <1>5, <1>6, <1>7 DEF Contiguous, Overlaps
<1>9. CallsSound'
  BY <1>1 DEF CallsSound
<1> QED BY <1>8, <1>9

LEMMA FreeKeeps ==
  ASSUME TimelineAssumption, Serial, TimelineInvariant, [TimelineNext]_timelineVars
  PROVE  FreeIsEmpty'
<1>1. ASSUME NEW c \in Calls, NEW p \in Plans, NEW d \in Durations, Read(c, p, d)
      PROVE  FreeIsEmpty'
  BY <1>1 DEF Read, TimelineInvariant, FreeIsEmpty
<1>2. ASSUME NEW c \in Calls, Lock(c) PROVE FreeIsEmpty'
  BY <1>2 DEF Lock, TimelineInvariant, FreeIsEmpty
<1>3. ASSUME NEW c \in Calls, Commit(c) PROVE FreeIsEmpty'
  <2>1. call[c].at # "idle" /\ switching' = switching
    BY <1>3 DEF Commit
  <2> QED BY <2>1 DEF TimelineInvariant, CallsSound, FreeIsEmpty
<1>4. ASSUME NEW p \in Plans, NEW d \in Terms, Set(p, d) PROVE FreeIsEmpty'
  BY <1>4, QuietIs DEF Set, FreeIsEmpty
<1>5. CASE CheckFree
  <2>1. Running = subscriptions
    BY TypeIs DEF TimelineInvariant
  <2> QED BY <1>5, <2>1 DEF CheckFree, FreeIsEmpty
<1>6. CASE SwitchToFree
  BY <1>6 DEF SwitchToFree, FreeIsEmpty
<1>7. CASE Advance
  BY <1>7 DEF Advance, FreeIsEmpty
<1>8. CASE UNCHANGED timelineVars
  BY <1>8 DEF timelineVars, TimelineInvariant, FreeIsEmpty
<1>9. CASE SetFree
  BY <1>9 DEF SetFree, FreeIsEmpty
<1> QED BY <1>1, <1>2, <1>3, <1>4, <1>5, <1>6, <1>7, <1>8, <1>9 DEF TimelineNext

LEMMA TimelineInvariantCorrect ==
  ASSUME TimelineAssumption, Serial
  PROVE  TimelineSpec => []TimelineInvariant
<1>1. ASSUME TimelineInit PROVE Contiguous /\ CallsSound /\ FreeIsEmpty
  BY <1>1 DEF TimelineInit, Contiguous, CallsSound, FreeIsEmpty, Idle
<1>2. ASSUME TimelineTypeOK, Contiguous /\ CallsSound /\ FreeIsEmpty, [TimelineNext]_timelineVars
      PROVE  (Contiguous /\ CallsSound /\ FreeIsEmpty)'
  <2>1. TimelineInvariant
    BY <1>2 DEF TimelineInvariant
  <2>2. ASSUME NEW c \in Calls, NEW p \in Plans, NEW d \in Durations, Read(c, p, d)
        PROVE  Contiguous' /\ CallsSound'
    BY <2>1, <2>2, ReadKeeps
  <2>3. ASSUME NEW c \in Calls, Lock(c) PROVE Contiguous' /\ CallsSound'
    BY <2>1, <2>3, LockKeeps
  <2>4. ASSUME NEW c \in Calls, Commit(c) PROVE Contiguous' /\ CallsSound'
    BY <2>1, <2>4, CommitKeeps
  <2>5. ASSUME NEW p \in Plans, NEW d \in Terms, Set(p, d) PROVE Contiguous' /\ CallsSound'
    BY <2>1, <2>5, SetKeeps
  <2>6. ASSUME CheckFree PROVE Contiguous' /\ CallsSound'
    <3>1. \A c \in Calls : call[c].at = "idle"
      BY <2>6, QuietIs DEF CheckFree
    <3> QED BY <1>2, <2>6, <3>1 DEF CheckFree, Contiguous, CallsSound
  <2>7. ASSUME SwitchToFree PROVE Contiguous' /\ CallsSound'
    BY <2>1, <2>7, SwitchKeeps
  <2>8. ASSUME Advance PROVE Contiguous' /\ CallsSound'
    BY <2>1, <2>8, AdvanceKeeps
  <2>9. ASSUME UNCHANGED timelineVars PROVE Contiguous' /\ CallsSound'
    BY <1>2, <2>9 DEF Contiguous, CallsSound, timelineVars
  <2>10. FreeIsEmpty'
    BY <1>2, <2>1, FreeKeeps
  <2>11. ASSUME SetFree PROVE Contiguous' /\ CallsSound'
    BY <2>11, SetFreeKeeps
  <2> QED BY <1>2, <2>2, <2>3, <2>4, <2>5, <2>6, <2>7, <2>8, <2>9, <2>10, <2>11 DEF TimelineNext
<1>3. TimelineSpec => []TimelineTypeOK
  BY TimelineTypeCorrect
<1>4. TimelineTypeOK /\ Contiguous /\ CallsSound /\ FreeIsEmpty => TimelineInvariant
  BY DEF TimelineInvariant
<1> QED BY <1>1, <1>2, <1>3, <1>4, PTL DEF TimelineSpec

\* A timeline stays without overlaps and without gaps, and a better plan comes before a lesser
\* one, whatever is granted, set or left to expire, while the calls do not overlap
\* (grantSubscriptionOnTimeline, ReplaceSubscription).
THEOREM TimelineSafetyCorrect ==
  ASSUME TimelineAssumption, Serial
  PROVE  TimelineSpec => []TimelineSafety
<1>1. TimelineInvariant => TimelineSafety
  BY DEF TimelineInvariant, TimelineSafety
<1> QED BY <1>1, TimelineInvariantCorrect, PTL

-----------------------------------------------------------------------------
(* The time of a plan: no slot is lost when a timeline is rebuilt.         *)

Covers(s, t) == s.start <= t /\ t < s.end

LEMMA SlotsOfIs ==
  ASSUME NEW segs, SegsSound(segs), NEW p
  PROVE  /\ SlotsOf(segs, p) \subseteq Nat /\ IsFiniteSet(SlotsOf(segs, p))
         /\ \A t \in Nat : t \in SlotsOf(segs, p) <=> \E s \in segs : s.plan = p /\ Covers(s, t)
<1> DEFINE S == {s \in segs : s.plan = p}
           f == [s \in S |-> s.start .. s.end - 1]
<1>1. SlotsOf(segs, p) = UNION {f[s] : s \in S}
  BY DEF SlotsOf
<1>2. IsFiniteSet(S)
  BY FS_Subset DEF SegsSound
<1>3. ASSUME NEW s \in S
      PROVE  IsFiniteSet(f[s]) /\ f[s] \subseteq Nat /\ \A t \in Nat : t \in f[s] <=> Covers(s, t)
  <2>1. s.start \in Nat /\ s.end \in Nat /\ s.start \in Int /\ s.end - 1 \in Int
    BY DEF SegsSound, Segs
  <2>2. IsFiniteSet(s.start .. s.end - 1)
    BY <2>1, FS_Interval
  <2> QED BY <2>1, <2>2 DEF Covers
<1>4. \A s : s \in S <=> s \in segs /\ s.plan = p
  OBVIOUS
<1> HIDE DEF f, S
<1>5. IsFiniteSet({f[s] : s \in S})
  BY <1>2, ImageIsFinite
<1>6. IsFiniteSet(UNION {f[s] : s \in S})
  BY <1>3, <1>5, FS_UNION
<1>7. UNION {f[s] : s \in S} \subseteq Nat
  BY <1>3
<1>8. \A t \in Nat : t \in UNION {f[s] : s \in S} <=> \E s \in S : Covers(s, t)
  BY <1>3
<1> QED BY <1>1, <1>4, <1>6, <1>7, <1>8

\* Merged segments have no slot that was not there before.
LEMMA JointCovers ==
  ASSUME TimelineAssumption, NEW segs, SegsSound(segs), NEW h \in segs,
         NEW t \in Nat, Covers(Merged(segs, h), t)
  PROVE  \E s \in segs : s.plan = h.plan /\ Covers(s, t)
<1> DEFINE J == Joint(segs, h)
<1>1. /\ J \subseteq segs /\ h \in J
      /\ \A s \in J : SameKey(h, s) /\ h.start <= s.start
  BY JointIs
<1>2. \A s \in segs : s \in Segs /\ s.start \in Nat /\ s.end \in Nat /\ s.start < s.end
  BY DEF SegsSound, Segs
<1>3. h.start <= t /\ \E s \in J : t < s.end
  BY MergedIs DEF Covers
<1>4. SUFFICES ASSUME \A s \in J : s.start <= t => s.end <= t
               PROVE  FALSE
  <2>1. \A s \in J : s \in segs /\ s.plan = h.plan
    BY <1>1 DEF SameKey
  <2>2. \A s \in J : s.start \in Nat /\ s.end \in Nat
    BY <1>1, <1>2
  <2> QED BY <1>2, <2>1, <2>2 DEF Covers
<1>5. \A s \in J : s = h \/ Joined(segs, h, s)
  BY DEF Joint
<1>6. \A s \in segs : Joined(segs, h, s) => s \in J
  BY DEF Joint
<1> DEFINE L == {s \in J : s.start > t}
<1>7. L \subseteq Segs /\ IsFiniteSet(L) /\ L # {}
  <2>1. IsFiniteSet(J)
    BY <1>1, FS_Subset DEF SegsSound
  <2>2. IsFiniteSet(L) /\ L \subseteq J
    BY <2>1, FS_Subset
  <2>3. L # {}
    BY <1>1, <1>2, <1>3, <1>4
  <2>4. L \subseteq Segs
    BY <1>1, <1>2
  <2> QED BY <2>2, <2>3, <2>4
<1>8. PICK w \in L : \A s \in L : ~Before(s, w)
  <2> HIDE DEF L
  <2> QED BY <1>7, FirstSegment
<1>9. w \in J /\ w \in segs /\ w.start > t /\ w # h
  BY <1>1, <1>2, <1>3
<1>10. Joined(segs, h, w)
  BY <1>5, <1>9
<1>11. /\ Before(h, w) /\ ~Before(w, w)
       /\ \A u \in segs : Before(h, u) /\ ~Before(w, u) =>
            /\ SameKey(h, u)
            /\ \E v \in segs : ~Before(v, h) /\ Before(v, u) /\ u.start <= v.end
  <2>1. w \in Segs
    BY <1>2, <1>9
  <2> QED BY <1>10, <2>1, BeforeIs, JoinedIs
<1>12. PICK v \in segs : ~Before(v, h) /\ Before(v, w) /\ w.start <= v.end
  BY <1>9, <1>11
<1>13. v.end > t
  BY <1>2, <1>9, <1>12
<1>14. CASE Before(h, v)
  <2>1. ~Before(w, v)
    <3>1. v \in Segs /\ w \in Segs /\ ~Before(v, v)
      BY <1>2, <1>9, BeforeIs
    <3>2. Before(w, v) => Before(v, v)
      BY <1>12, <3>1, BeforeIs
    <3> QED BY <3>1, <3>2
  <2>2. Joined(segs, h, v)
    <3>1. segs \subseteq Segs
      BY DEF SegsSound
    <3> QED BY <1>9, <1>10, <1>14, <2>1, <3>1, JoinedPrefix
  <2>3. v \in J
    BY <1>6, <2>2
  <2>4. v.start > t
    BY <1>2, <1>4, <1>13, <2>3
  <2> QED BY <1>8, <1>12, <2>3, <2>4
<1>15. CASE ~Before(h, v)
  <2>1. Rank[h.plan] \in Nat /\ Rank[v.plan] \in Nat
    BY <1>2 DEF Segs, TimelineAssumption
  <2>2. h.end = v.end
    BY <1>2, <1>12, <1>15, <2>1 DEF Before
  <2>3. h.end <= t
    BY <1>1, <1>3, <1>4
  <2> QED BY <1>2, <1>13, <2>2, <2>3
<1> QED BY <1>14, <1>15

LEMMA NormalizeSlots ==
  ASSUME TimelineAssumption, NEW segs, SegsSound(segs), NEW p
  PROVE  SlotsOf(Normalize(segs), p) = SlotsOf(segs, p)
<1> DEFINE N == Normalize(segs)
<1>1. SegsSound(N)
  BY NormalizeSound
<1>2. /\ \A m \in N : \E h \in segs : IsHead(segs, h) /\ m = Merged(segs, h)
      /\ \A h \in segs : IsHead(segs, h) => Merged(segs, h) \in N
  BY NormalizeIs
<1>3. SlotsOf(N, p) \subseteq Nat /\ SlotsOf(segs, p) \subseteq Nat
  BY <1>1, SlotsOfIs
<1>4. ASSUME NEW t \in Nat, NEW m \in N, m.plan = p, Covers(m, t)
      PROVE  \E s \in segs : s.plan = p /\ Covers(s, t)
  <2>1. PICK h \in segs : m = Merged(segs, h)
    BY <1>2
  <2>2. h.plan = p
    BY <1>4, <2>1, MergedIs DEF SameKey
  <2> QED BY <1>4, <2>1, <2>2, JointCovers
<1>5. ASSUME NEW t \in Nat, NEW s \in segs, s.plan = p, Covers(s, t)
      PROVE  \E m \in N : m.plan = p /\ Covers(m, t)
  <2>1. PICK h \in segs : IsHead(segs, h) /\ s \in Joint(segs, h)
    BY HeadOf
  <2> DEFINE m == Merged(segs, h)
  <2>2. /\ m \in N /\ m \in Segs /\ SameKey(h, m) /\ m.start = h.start /\ s.end <= m.end
    BY <1>2, <2>1, MergedIs
  <2>3. SameKey(h, s) /\ h.start <= s.start
    BY <2>1, JointIs
  <2>4. s \in Segs /\ h \in Segs
    BY DEF SegsSound
  <2> HIDE DEF m
  <2>5. /\ s.start \in Nat /\ s.end \in Nat /\ h.start \in Nat
        /\ m.start \in Nat /\ m.end \in Nat
    BY <2>2, <2>4 DEF Segs
  <2>6. m.plan = p
    BY <1>5, <2>2, <2>3 DEF SameKey
  <2>7. m.start <= t /\ t < m.end
    BY <1>5, <2>2, <2>3, <2>5 DEF Covers
  <2> QED BY <2>2, <2>6, <2>7 DEF Covers
<1> HIDE DEF N
<1>6. \A t \in Nat : t \in SlotsOf(N, p) <=> \E m \in N : m.plan = p /\ Covers(m, t)
  BY <1>1, SlotsOfIs
<1>7. \A t \in Nat : t \in SlotsOf(segs, p) <=> \E s \in segs : s.plan = p /\ Covers(s, t)
  BY SlotsOfIs
<1>8. \A t \in Nat : t \in SlotsOf(N, p) <=> t \in SlotsOf(segs, p)
  BY <1>4, <1>5, <1>6, <1>7
<1> QED BY <1>3, <1>8 DEF N

\* What a placement makes of the slots of a plan.
LEMMA PlacedSlots ==
  ASSUME TimelineAssumption, NEW segs, SegsSound(segs), NEW from \in Nat, NEW rank \in Nat,
         NEW new \in Segs, new.start < new.end, EndOf(segs, rank, from, new.start),
         rank = Rank[new.plan], NEW q \in Plans
  PROVE  /\ SegsSound(Placed(segs, rank, new))
         /\ \A t \in Nat : t \in SlotsOf(Placed(segs, rank, new), q) <=>
              \/ q = new.plan /\ Covers(new, t)
              \/ t \in SlotsOf(segs, q) /\ (Rank[q] >= rank \/ new.end <= t)
         /\ \A t \in Nat : ~(q = new.plan /\ Covers(new, t) /\ t \in SlotsOf(segs, q))
<1> DEFINE P == Placed(segs, rank, new)
<1>1. /\ SegsSound(P) /\ new \in P
      /\ \A r \in P :
           \/ r = new
           \/ r \in segs /\ Rank[r.plan] >= rank /\ r.end <= new.start
           \/ \E s \in segs : /\ Rank[s.plan] < rank /\ SameKey(s, r) /\ r.end = s.end
                              /\ new.end < s.end /\ r = RightOf(s, new.end)
                              /\ r.start = IF s.start < new.end THEN new.end ELSE s.start
      /\ \A s \in segs : Rank[s.plan] >= rank => s \in P
      /\ \A s \in segs : Rank[s.plan] < rank /\ new.end < s.end =>
           \E r \in P : /\ SameKey(s, r) /\ r.end = s.end
                        /\ r.start = IF s.start < new.end THEN new.end ELSE s.start
  BY PlacedIs
<1> HIDE DEF P
<1>2. \A s \in segs : s.start \in Nat /\ s.end \in Nat /\ Rank[s.plan] \in Nat
  BY DEF SegsSound, Segs, TimelineAssumption
<1>3. new.start \in Nat /\ new.end \in Nat /\ Rank[q] \in Nat
  BY DEF Segs, TimelineAssumption
<1>4. \A t \in Nat : t \in SlotsOf(P, q) <=> \E r \in P : r.plan = q /\ Covers(r, t)
  BY <1>1, SlotsOfIs
<1>5. \A t \in Nat : t \in SlotsOf(segs, q) <=> \E s \in segs : s.plan = q /\ Covers(s, t)
  BY SlotsOfIs
<1>6. ASSUME NEW t \in Nat, NEW r \in P, r.plan = q, Covers(r, t)
      PROVE  \/ q = new.plan /\ Covers(new, t)
             \/ t \in SlotsOf(segs, q) /\ (Rank[q] >= rank \/ new.end <= t)
  <2>1. CASE r = new
    BY <1>6, <2>1
  <2>2. CASE r \in segs /\ Rank[r.plan] >= rank
    BY <1>5, <1>6, <2>2
  <2>3. ASSUME NEW s \in segs, Rank[s.plan] < rank, SameKey(s, r), r.end = s.end,
               r.start = IF s.start < new.end THEN new.end ELSE s.start
        PROVE  t \in SlotsOf(segs, q) /\ new.end <= t
    <3>1. Covers(s, t) /\ new.end <= t
      BY <1>2, <1>3, <1>6, <2>3 DEF Covers
    <3>2. s.plan = q
      BY <1>6, <2>3 DEF SameKey
    <3> QED BY <1>5, <3>1, <3>2
  <2> QED BY <1>1, <2>1, <2>2, <2>3
<1>7. ASSUME NEW t \in Nat, q = new.plan, Covers(new, t)
      PROVE  t \in SlotsOf(P, q)
  BY <1>1, <1>4, <1>7
<1>8. ASSUME NEW t \in Nat, t \in SlotsOf(segs, q), Rank[q] >= rank \/ new.end <= t
      PROVE  t \in SlotsOf(P, q)
  <2>1. PICK s \in segs : s.plan = q /\ Covers(s, t)
    BY <1>5, <1>8
  <2>2. CASE Rank[q] >= rank
    BY <1>1, <1>4, <2>1, <2>2
  <2>3. CASE Rank[q] < rank
    <3>1. new.end <= t /\ new.end < s.end /\ s.start <= t /\ t < s.end
      BY <1>2, <1>3, <1>8, <2>1, <2>3 DEF Covers
    <3>2. PICK r \in P : /\ SameKey(s, r) /\ r.end = s.end
                         /\ r.start = IF s.start < new.end THEN new.end ELSE s.start
      BY <1>1, <2>1, <2>3, <3>1
    <3>3. Covers(r, t) /\ r.plan = q
      BY <2>1, <3>1, <3>2 DEF Covers, SameKey
    <3> QED BY <1>4, <3>3
  <2> QED BY <1>3, <2>2, <2>3
<1>9. ASSUME NEW t \in Nat, q = new.plan, Covers(new, t), t \in SlotsOf(segs, q)
      PROVE  FALSE
  <2>1. PICK s \in segs : s.plan = q /\ Covers(s, t)
    BY <1>5, <1>9
  <2>2. s.end <= new.start
    BY <1>2, <1>9, <2>1 DEF EndOf
  <2> QED BY <1>2, <1>3, <1>9, <2>1, <2>2 DEF Covers
<1>10. \A t \in Nat : t \in SlotsOf(P, q) <=>
         \/ q = new.plan /\ Covers(new, t)
         \/ t \in SlotsOf(segs, q) /\ (Rank[q] >= rank \/ new.end <= t)
  BY <1>4, <1>6, <1>7, <1>8
<1> QED BY <1>1, <1>9, <1>10 DEF P

\* The slot that unit i of a displaced grant was.
SlotOf(d, i) == d.of.start + i - 1

\* The displaced grants take over, slot by slot, what the placement took.
LEMMA DisplacedSlots ==
  ASSUME TimelineAssumption, NEW segs, SegsSound(segs), NEW from \in Nat, InOrder(segs, from),
         NEW rank \in Nat, NEW new \in Segs, new.start < new.end,
         EndOf(segs, rank, from, new.start), NEW turn \in Nat,
         NEW p \in [start : Nat, end : Nat], p.start = new.start, p.end = new.end
  PROVE  /\ \A d \in Displaced(segs, rank, {p}, turn) :
              d \in Items /\ d.turn = turn /\ d.of \in segs /\ Rank[d.of.plan] < rank
         /\ \A d \in Displaced(segs, rank, {p}, turn) : \A i \in 1..d.length :
              /\ SlotOf(d, i) \in Nat /\ Covers(d.of, SlotOf(d, i))
              /\ new.start <= SlotOf(d, i) /\ SlotOf(d, i) < new.end
         /\ \A d, c \in Displaced(segs, rank, {p}, turn) : \A i \in 1..d.length, j \in 1..c.length :
              SlotOf(d, i) = SlotOf(c, j) => d = c /\ i = j
         /\ \A s \in segs, t \in Nat : Rank[s.plan] < rank /\ Covers(s, t) /\ t < new.end =>
              \E d \in Displaced(segs, rank, {p}, turn) :
                d.of = s /\ \E i \in 1..d.length : SlotOf(d, i) = t
<1> DEFINE D == Displaced(segs, rank, {p}, turn)
<1>1. PeriodsSound({p})
  BY FS_Singleton DEF PeriodsSound
<1>2. \A d \in D : IsDisplaced(segs, rank, {p}, turn, d)
  BY <1>1, DisplacedAre
<1>3. ASSUME NEW s \in segs, Rank[s.plan] < rank, Overlaps(s, p) PROVE Again(s, p, turn) \in D
  <2> DEFINE hit == {h \in segs \X {p} : Rank[h[1].plan] < rank /\ Overlaps(h[1], h[2])}
             h == <<s, p>>
  <2>1. h \in segs \X {p} /\ h[1] = s /\ h[2] = p
    OBVIOUS
  <2>2. D = {Again(k[1], k[2], turn) : k \in hit}
    BY DEF Displaced
  <2> HIDE DEF h, D
  <2>3. h \in hit
    BY <1>3, <2>1
  <2> QED BY <2>1, <2>2, <2>3
<1>4. \A d \in D : \E s \in segs : Rank[s.plan] < rank /\ Overlaps(s, p) /\ d = Again(s, p, turn)
  BY <1>2 DEF IsDisplaced
<1> HIDE DEF D
<1>5. \A s \in segs : /\ s \in Segs /\ s.start \in Nat /\ s.end \in Nat /\ s.start < s.end
                      /\ (Rank[s.plan] < rank => new.start <= s.start)
  BY DEF SegsSound, Segs, EndOf
<1>6. p.start \in Nat /\ p.end \in Nat /\ p.start < p.end
  OBVIOUS
<1>7. ASSUME NEW s \in segs, Rank[s.plan] < rank, Overlaps(s, p)
      PROVE  /\ Again(s, p, turn) \in Items /\ Again(s, p, turn).of = s
             /\ Again(s, p, turn).turn = turn
             /\ Again(s, p, turn).length = (IF s.end <= p.end THEN s.end ELSE p.end) - s.start
  <2>1. /\ Again(s, p, turn) \in Items /\ Again(s, p, turn).of = s
        /\ Again(s, p, turn).turn = turn
        /\ Again(s, p, turn).length =
             (IF s.end <= p.end THEN s.end ELSE p.end) - (IF p.start <= s.start THEN s.start ELSE p.start)
    BY <1>5, <1>6, <1>7, AgainIs
  <2>2. p.start <= s.start
    BY <1>5, <1>7
  <2> QED BY <2>1, <2>2
<1>8. ASSUME NEW d \in D
      PROVE  /\ d \in Items /\ d.turn = turn /\ d.of \in segs /\ Rank[d.of.plan] < rank
             /\ Overlaps(d.of, p) /\ d = Again(d.of, p, turn)
             /\ d.length = (IF d.of.end <= p.end THEN d.of.end ELSE p.end) - d.of.start
  BY <1>4, <1>7
<1>9. ASSUME NEW d \in D, NEW i \in 1..d.length
      PROVE  /\ SlotOf(d, i) \in Nat /\ Covers(d.of, SlotOf(d, i))
             /\ new.start <= SlotOf(d, i) /\ SlotOf(d, i) < new.end
  <2> DEFINE s == d.of
  <2>1. /\ d.length = (IF s.end <= p.end THEN s.end ELSE p.end) - s.start
        /\ s.start \in Nat /\ s.end \in Nat /\ new.start <= s.start
    BY <1>5, <1>8
  <2>2. SlotOf(d, i) = s.start + i - 1
    BY DEF SlotOf
  <2>3. i \in Int /\ 1 <= i /\ i <= d.length
    BY <1>6, <2>1
  <2> HIDE DEF s
  <2>4. /\ SlotOf(d, i) \in Nat /\ s.start <= SlotOf(d, i) /\ SlotOf(d, i) < s.end
        /\ new.start <= SlotOf(d, i) /\ SlotOf(d, i) < p.end
    BY <1>6, <2>1, <2>2, <2>3
  <2> QED BY <2>4 DEF s, Covers
<1>10. ASSUME NEW d \in D, NEW c \in D, NEW i \in 1..d.length, NEW j \in 1..c.length,
              SlotOf(d, i) = SlotOf(c, j)
       PROVE  d = c /\ i = j
  <2>1. Covers(d.of, SlotOf(d, i)) /\ Covers(c.of, SlotOf(c, j)) /\ SlotOf(d, i) \in Nat
    BY <1>9
  <2>2. d.of \in segs /\ c.of \in segs /\ d = Again(d.of, p, turn) /\ c = Again(c.of, p, turn)
    BY <1>8
  <2>3. d.of = c.of
    <3>1. d.of.start < c.of.end /\ c.of.start < d.of.end
      BY <1>5, <1>10, <2>1, <2>2 DEF Covers
    <3> QED BY <2>2, <3>1 DEF InOrder, Disjoint, Overlaps
  <2>4. d = c
    BY <2>2, <2>3
  <2>5. i \in Int /\ j \in Int /\ d.of.start \in Nat
    BY <1>5, <1>6, <1>8, <2>2
  <2>6. i = j
    BY <1>10, <2>3, <2>5 DEF SlotOf
  <2> QED BY <2>4, <2>6
<1>11. ASSUME NEW s \in segs, NEW t \in Nat, Rank[s.plan] < rank, Covers(s, t), t < new.end
       PROVE  \E d \in D : d.of = s /\ \E i \in 1..d.length : SlotOf(d, i) = t
  <2> DEFINE d == Again(s, p, turn)
             i == t - s.start + 1
  <2>1. Overlaps(s, p)
    BY <1>5, <1>6, <1>11 DEF Covers, Overlaps
  <2>2. d \in D /\ d.of = s /\ d.length = (IF s.end <= p.end THEN s.end ELSE p.end) - s.start
    BY <1>3, <1>7, <1>11, <2>1
  <2> HIDE DEF d
  <2>3. i \in 1..d.length /\ s.start + i - 1 = t
    BY <1>5, <1>6, <1>11, <2>2 DEF Covers
  <2> HIDE DEF i
  <2>4. SlotOf(d, i) = t
    BY <2>2, <2>3 DEF SlotOf
  <2> QED BY <2>2, <2>3, <2>4
<1>12. \A d \in D : d \in Items /\ d.turn = turn /\ d.of \in segs /\ Rank[d.of.plan] < rank
  BY <1>8
<1> QED BY <1>9, <1>10, <1>11, <1>12 DEF D

-----------------------------------------------------------------------------
(* A placement keeps the time of every plan, laid out or waiting.          *)

\* What the placement of grant g lays out, and where.
Takes(line, from, g, new, p) ==
  /\ new.start < new.end /\ new.plan = g.of.plan /\ new.end = new.start + g.length
  /\ EndOf(line.segs, Rank[g.of.plan], from, new.start)
  /\ p.start = new.start /\ p.end = new.end
  /\ SegsAfter(line, g) = Normalize(Placed(line.segs, Rank[g.of.plan], new))
  /\ \A turn : QueueAfter(line, g, turn) =
                 (line.queue \ {g}) \union Displaced(line.segs, Rank[g.of.plan], {p}, turn)

LEMMA PlacementTakes ==
  ASSUME TimelineAssumption, NEW line, NEW from \in Nat, LineSound(line, from),
         LineInOrder(line, from), NEW g \in line.queue
  PROVE  \E new \in Segs, p \in [start : Nat, end : Nat] : Takes(line, from, g, new, p)
<1> DEFINE rank == Rank[g.of.plan]
           segs == line.segs
           length == g.length
<1>1. PICK e \in Nat :
        /\ EndOf(segs, rank, from, e) /\ from <= e
        /\ Periods(SlotsFor(line, g)) = {[start |-> e, end |-> e + length]}
        /\ SegsAfter(line, g) = Normalize(Placed(segs, rank, Whole(g, e)))
  BY PlacedWhole
<1> DEFINE new == Whole(g, e)
           n == e + length
           p == [start |-> e, end |-> n]
<1>2. g.of \in Segs /\ length \in Nat \ {0} /\ n \in Nat /\ e < n
  BY DEF LineSound, QueueSound, Items
<1>3. \A turn : QueueAfter(line, g, turn) = (line.queue \ {g}) \union Displaced(segs, rank, {p}, turn)
  BY <1>1 DEF QueueAfter
<1>4. new = [g.of EXCEPT !.start = e, !.end = n]
  BY DEF Whole
<1>5. n = e + length
  OBVIOUS
<1> HIDE DEF n, new, rank, length, segs
<1>6. new \in Segs /\ new.start = e /\ new.end = n /\ new.plan = g.of.plan
  BY <1>2, <1>4 DEF Segs
<1>7. p \in [start : Nat, end : Nat] /\ p.start = e /\ p.end = n
  BY <1>2
<1> HIDE DEF p
<1>8. Takes(line, from, g, new, p)
  BY <1>1, <1>2, <1>3, <1>5, <1>6, <1>7 DEF Takes, new, rank, length, segs
<1> QED BY <1>6, <1>7, <1>8

\* The slots of plan q that go before n.
Lost(segs, q, n) == {t \in SlotsOf(segs, q) : t < n}

LEMMA SlotsAfter ==
  ASSUME TimelineAssumption, NEW line, NEW from \in Nat, LineSound(line, from), NEW g \in line.queue,
         NEW new \in Segs, NEW p, Takes(line, from, g, new, p), NEW q \in Plans
  PROVE  /\ Cardinality(SlotsOf(line.segs, q)) \in Nat /\ Cardinality(Lost(line.segs, q, new.end)) \in Nat
         /\ q = g.of.plan => Cardinality(SlotsOf(SegsAfter(line, g), q))
                               = Cardinality(SlotsOf(line.segs, q)) + g.length
         /\ q # g.of.plan /\ Rank[q] >= Rank[g.of.plan] =>
              Cardinality(SlotsOf(SegsAfter(line, g), q)) = Cardinality(SlotsOf(line.segs, q))
         /\ Rank[q] < Rank[g.of.plan] =>
              Cardinality(SlotsOf(SegsAfter(line, g), q))
                = Cardinality(SlotsOf(line.segs, q)) - Cardinality(Lost(line.segs, q, new.end))
<1> DEFINE segs == line.segs
           rank == Rank[g.of.plan]
           placed == Placed(segs, rank, new)
           before == SlotsOf(segs, q)
           after == SlotsOf(placed, q)
           N == new.start .. new.end - 1
           lost == Lost(segs, q, new.end)
<1>1. /\ SegsSound(segs) /\ g.of \in Segs /\ g.length \in Nat \ {0} /\ Rank[q] \in Nat /\ rank \in Nat
      /\ new.start \in Nat /\ new.end \in Nat
  BY DEF LineSound, QueueSound, Items, Segs, TimelineAssumption
<1>2. /\ new.start < new.end /\ new.plan = g.of.plan /\ new.end = new.start + g.length
      /\ EndOf(segs, rank, from, new.start) /\ SegsAfter(line, g) = Normalize(placed)
  BY DEF Takes
<1>3. rank = Rank[new.plan]
  BY <1>2
<1> HIDE DEF segs, rank
<1>4. /\ SegsSound(placed)
      /\ \A t \in Nat : t \in after <=>
           \/ q = new.plan /\ Covers(new, t)
           \/ t \in before /\ (Rank[q] >= rank \/ new.end <= t)
      /\ \A t \in Nat : ~(q = new.plan /\ Covers(new, t) /\ t \in before)
  BY <1>1, <1>2, <1>3, PlacedSlots
<1> HIDE DEF placed
<1>5. SlotsOf(SegsAfter(line, g), q) = after
  BY <1>2, <1>4, NormalizeSlots
<1>6. before \subseteq Nat /\ IsFiniteSet(before) /\ after \subseteq Nat /\ IsFiniteSet(after)
  BY <1>1, <1>4, SlotsOfIs
<1>7. IsFiniteSet(lost) /\ lost \subseteq before
  BY <1>6, FS_Subset DEF Lost
<1>8. Cardinality(before) \in Nat /\ Cardinality(lost) \in Nat
  BY <1>6, <1>7, FS_CardinalityType
<1>9. \A t \in Nat : t \in N <=> Covers(new, t)
  BY <1>1 DEF Covers
<1>10. IsFiniteSet(N) /\ Cardinality(N) = g.length /\ N \subseteq Nat
  <2>1. new.start \in Int /\ new.end - 1 \in Int
    BY <1>1
  <2>2. IsFiniteSet(N) /\ Cardinality(N) = (IF new.start > new.end - 1 THEN 0 ELSE new.end - 1 - new.start + 1)
    BY <2>1, FS_Interval
  <2>3. N \subseteq Nat
    BY <1>1
  <2> HIDE DEF N
  <2> QED BY <1>1, <1>2, <2>2, <2>3
<1>11. \A t \in before : t \in lost <=> t < new.end
  BY DEF Lost
<1> HIDE DEF before, after, N, lost
<1>12. ASSUME q = g.of.plan PROVE Cardinality(after) = Cardinality(before) + g.length
  <2>1. q = new.plan /\ Rank[q] >= rank
    BY <1>1, <1>2, <1>3, <1>12
  <2>2. \A t \in Nat : t \in after <=> t \in N \/ t \in before
    BY <1>4, <1>9, <2>1
  <2>3. after = before \union N
    BY <1>6, <1>10, <2>2
  <2>4. before \intersect N = {}
    BY <1>4, <1>6, <1>9, <2>1
  <2>5. Cardinality(after) = Cardinality(before) + Cardinality(N) - Cardinality({})
    BY <1>6, <1>10, <2>3, <2>4, FS_Union
  <2> QED BY <1>1, <1>8, <1>10, <2>5, FS_EmptySet
<1>13. ASSUME q # g.of.plan, Rank[q] >= rank PROVE Cardinality(after) = Cardinality(before)
  <2>1. \A t \in Nat : t \in after <=> t \in before
    BY <1>2, <1>4, <1>13
  <2>2. after = before
    BY <1>6, <2>1
  <2> QED BY <2>2
<1>14. ASSUME Rank[q] < rank PROVE Cardinality(after) = Cardinality(before) - Cardinality(lost)
  <2>1. q # new.plan /\ ~(Rank[q] >= rank)
    BY <1>1, <1>3, <1>14
  <2>2. \A t \in Nat : t \in after <=> t \in before /\ new.end <= t
    BY <1>4, <2>1
  <2>3. \A t \in Nat : new.end <= t <=> ~(t < new.end)
    BY <1>1
  <2>4. after = before \ lost /\ before \intersect lost = lost
    BY <1>6, <1>7, <1>11, <2>2, <2>3
  <2>5. Cardinality(before \ lost) = Cardinality(before) - Cardinality(before \intersect lost)
    BY <1>6, FS_Difference
  <2> QED BY <2>4, <2>5
<1> QED BY <1>5, <1>8, <1>12, <1>13, <1>14 DEF segs, rank, before, lost

\* The units of the grants of plan q in a queue.
Units(queue, q) == UNION {{g} \X (1..g.length) : g \in {g \in queue : g.of.plan = q}}

IsUnit(queue, q, u) == \E g \in queue : g.of.plan = q /\ \E i \in 1..g.length : u = <<g, i>>

LEMMA UnitsAre ==
  ASSUME NEW queue, QueueSound(queue), NEW q
  PROVE  /\ IsFiniteSet(Units(queue, q)) /\ Cardinality(Units(queue, q)) \in Nat
         /\ \A u : u \in Units(queue, q) <=> IsUnit(queue, q, u)
<1> DEFINE S == {g \in queue : g.of.plan = q}
           f == [g \in S |-> {g} \X (1..g.length)]
<1>1. Units(queue, q) = UNION {f[g] : g \in S}
  BY DEF Units
<1>2. IsFiniteSet(S)
  BY FS_Subset DEF QueueSound
<1>3. ASSUME NEW g \in S
      PROVE  IsFiniteSet(f[g]) /\ \A u : u \in f[g] <=> \E i \in 1..g.length : u = <<g, i>>
  <2>1. g.length \in Int /\ 1 \in Int
    BY DEF QueueSound, Items
  <2> DEFINE N == 1..g.length
  <2>2. IsFiniteSet(N)
    BY <2>1, FS_Interval
  <2>3. f[g] = {g} \X N
    OBVIOUS
  <2> HIDE DEF N, f, S
  <2>4. IsFiniteSet({g} \X N)
    BY <2>2, FS_Product, FS_Singleton
  <2>5. \A u : u \in {g} \X N <=> \E i \in N : u = <<g, i>>
    OBVIOUS
  <2> QED BY <2>3, <2>4, <2>5 DEF N
<1>4. \A g : g \in S <=> g \in queue /\ g.of.plan = q
  OBVIOUS
<1> HIDE DEF f, S
<1>5. IsFiniteSet({f[g] : g \in S})
  BY <1>2, ImageIsFinite
<1>6. IsFiniteSet(UNION {f[g] : g \in S})
  BY <1>3, <1>5, FS_UNION
<1>7. \A u : u \in UNION {f[g] : g \in S} <=> \E g \in S : u \in f[g]
  OBVIOUS
<1>8. \A u : u \in Units(queue, q) <=> IsUnit(queue, q, u)
  BY <1>1, <1>3, <1>4, <1>7 DEF IsUnit
<1> QED BY <1>1, <1>6, <1>8, FS_CardinalityType

\* A grant less, and grants that are not in the queue more.
LEMMA UnitsOfUnion ==
  ASSUME NEW queue, QueueSound(queue), NEW g \in queue, NEW D, QueueSound(D),
         D \intersect queue = {}, NEW q
  PROVE  Cardinality(Units((queue \ {g}) \union D, q)) =
           Cardinality(Units(queue, q)) - (IF q = g.of.plan THEN g.length ELSE 0)
             + Cardinality(Units(D, q))
<1> DEFINE rest == queue \ {g}
           all == rest \union D
           A == Units(queue, q)
           B == Units(D, q)
           R == Units(rest, q)
           N == 1..g.length
           own == IF q = g.of.plan THEN {g} \X N ELSE {}
           n == IF q = g.of.plan THEN g.length ELSE 0
<1>1. QueueSound(rest) /\ QueueSound(all)
  <2>1. IsFiniteSet(rest)
    BY FS_Subset DEF QueueSound
  <2> QED BY <2>1, QueueUnion DEF QueueSound
<1>2. /\ \A u : u \in Units(all, q) <=> IsUnit(all, q, u)
      /\ \A u : u \in A <=> IsUnit(queue, q, u)
      /\ \A u : u \in B <=> IsUnit(D, q, u)
      /\ \A u : u \in R <=> IsUnit(rest, q, u)
  <2> HIDE DEF rest, all
  <2> QED BY <1>1, UnitsAre
<1>3. /\ IsFiniteSet(A) /\ IsFiniteSet(B) /\ IsFiniteSet(R)
      /\ Cardinality(A) \in Nat /\ Cardinality(B) \in Nat /\ Cardinality(R) \in Nat
  <2> HIDE DEF rest, all
  <2> QED BY <1>1, UnitsAre
<1>4. \A u : u \in own <=> q = g.of.plan /\ \E i \in N : u = <<g, i>>
  <2>1. \A u : u \in {g} \X N <=> \E i \in N : u = <<g, i>>
    OBVIOUS
  <2> HIDE DEF N
  <2> QED BY <2>1
<1>5. IsFiniteSet(own) /\ Cardinality(own) = n /\ n \in Nat
  <2>1. g.length \in Nat \ {0} /\ g.length \in Int /\ 1 \in Int
    BY DEF QueueSound, Items
  <2>2. IsFiniteSet(N) /\ Cardinality(N) = (IF 1 > g.length THEN 0 ELSE g.length - 1 + 1)
    BY <2>1, FS_Interval
  <2> HIDE DEF N
  <2>3. Cardinality(N) = g.length
    BY <2>1, <2>2
  <2>4. IsFiniteSet({g} \X N) /\ Cardinality({g} \X N) = Cardinality({g}) * Cardinality(N)
    BY <2>2, FS_Product, FS_Singleton
  <2>5. Cardinality({g}) = 1
    BY FS_Singleton
  <2>6. Cardinality({g} \X N) = g.length
    BY <2>1, <2>3, <2>4, <2>5
  <2> QED BY <2>1, <2>4, <2>6, FS_EmptySet
<1>6. \A h \in queue : h \in rest <=> h # g
  OBVIOUS
<1>7. \A h : h \in all <=> h \in rest \/ h \in D
  OBVIOUS
<1>8. rest \subseteq queue /\ rest \intersect D = {}
  OBVIOUS
<1> HIDE DEF rest, all, A, B, R, own, n
<1>9. Units(all, q) = R \union B
  <2>1. \A u : IsUnit(all, q, u) <=> IsUnit(rest, q, u) \/ IsUnit(D, q, u)
    BY <1>7 DEF IsUnit
  <2> QED BY <1>2, <2>1
<1>10. A = R \union own
  <2>1. \A u : IsUnit(queue, q, u) <=> IsUnit(rest, q, u) \/ (q = g.of.plan /\ \E i \in N : u = <<g, i>>)
    BY <1>6, <1>8 DEF IsUnit
  <2> QED BY <1>2, <1>4, <2>1
<1>11. R \intersect B = {}
  <2> SUFFICES ASSUME NEW u, u \in R, u \in B PROVE FALSE
    OBVIOUS
  <2>1. IsUnit(rest, q, u) /\ IsUnit(D, q, u)
    BY <1>2
  <2> QED BY <1>8, <2>1 DEF IsUnit
<1>12. R \intersect own = {}
  <2> SUFFICES ASSUME NEW u, u \in R, u \in own PROVE FALSE
    OBVIOUS
  <2>1. IsUnit(rest, q, u) /\ \E i \in N : u = <<g, i>>
    BY <1>2, <1>4
  <2> QED BY <1>6, <1>8, <2>1 DEF IsUnit
<1>13. Cardinality(Units(all, q)) = Cardinality(R) + Cardinality(B) - Cardinality({})
  BY <1>3, <1>9, <1>11, FS_Union
<1>14. Cardinality(A) = Cardinality(R) + Cardinality(own) - Cardinality({})
  BY <1>3, <1>5, <1>10, <1>12, FS_Union
<1>15. Cardinality({}) = 0
  BY FS_EmptySet
<1>16. Cardinality(Units(all, q)) = Cardinality(A) - n + Cardinality(B)
  BY <1>3, <1>5, <1>13, <1>14, <1>15
<1> QED BY <1>16 DEF all, rest, A, B, n

\* The displaced grants of plan q have a unit for each slot that q has lost.
LEMMA UnitsDisplaced ==
  ASSUME TimelineAssumption, NEW segs, SegsSound(segs), NEW from \in Nat, InOrder(segs, from),
         NEW rank \in Nat, NEW new \in Segs, new.start < new.end,
         EndOf(segs, rank, from, new.start), NEW turn \in Nat,
         NEW p \in [start : Nat, end : Nat], p.start = new.start, p.end = new.end, NEW q \in Plans
  PROVE  /\ QueueSound(Displaced(segs, rank, {p}, turn))
         /\ Cardinality(Units(Displaced(segs, rank, {p}, turn), q))
              = IF Rank[q] < rank THEN Cardinality(Lost(segs, q, new.end)) ELSE 0
<1> DEFINE D == Displaced(segs, rank, {p}, turn)
           U == Units(D, q)
           lost == Lost(segs, q, new.end)
<1>1. QueueSound(D)
  <2>1. PeriodsSound({p})
    BY FS_Singleton DEF PeriodsSound
  <2> QED BY <2>1, DisplacedAre
<1>2. /\ \A d \in D : d.of \in segs /\ Rank[d.of.plan] < rank
      /\ \A d \in D : \A i \in 1..d.length :
           /\ SlotOf(d, i) \in Nat /\ Covers(d.of, SlotOf(d, i)) /\ SlotOf(d, i) < new.end
      /\ \A d, c \in D : \A i \in 1..d.length, j \in 1..c.length :
           SlotOf(d, i) = SlotOf(c, j) => d = c /\ i = j
      /\ \A s \in segs, t \in Nat : Rank[s.plan] < rank /\ Covers(s, t) /\ t < new.end =>
           \E d \in D : d.of = s /\ \E i \in 1..d.length : SlotOf(d, i) = t
  BY DisplacedSlots
<1> HIDE DEF D
<1>3. IsFiniteSet(U) /\ \A u : u \in U <=> IsUnit(D, q, u)
  BY <1>1, UnitsAre
<1>4. /\ SlotsOf(segs, q) \subseteq Nat
      /\ \A t \in Nat : t \in SlotsOf(segs, q) <=> \E s \in segs : s.plan = q /\ Covers(s, t)
  BY SlotsOfIs
<1>5. \A t : t \in lost <=> t \in SlotsOf(segs, q) /\ t < new.end
  BY DEF Lost
<1> DEFINE f == [u \in U |-> SlotOf(u[1], u[2])]
<1> HIDE DEF U, lost
<1>6. \A u \in U : \E d \in D : d.of.plan = q /\ \E i \in 1..d.length : u = <<d, i>> /\ f[u] = SlotOf(d, i)
  BY <1>3 DEF IsUnit
<1>7. f = [u \in U |-> f[u]]
  OBVIOUS
<1>8. \A d \in D : d.of.plan = q => \A i \in 1..d.length : <<d, i>> \in U /\ f[<<d, i>>] = SlotOf(d, i)
  BY <1>3 DEF IsUnit
<1> HIDE DEF f
<1>9. CASE Rank[q] < rank
  <2>1. ASSUME NEW u \in U PROVE f[u] \in lost
    <3>1. PICK d \in D : d.of.plan = q /\ \E i \in 1..d.length : u = <<d, i>> /\ f[u] = SlotOf(d, i)
      BY <1>6
    <3>2. PICK i \in 1..d.length : f[u] = SlotOf(d, i)
      BY <3>1
    <3> QED BY <1>2, <1>4, <1>5, <3>1, <3>2
  <2>2. f \in [U -> lost]
    BY <1>7, <2>1
  <2>3. ASSUME NEW u \in U, NEW v \in U, f[u] = f[v] PROVE u = v
    <3>1. PICK d \in D : \E i \in 1..d.length : u = <<d, i>> /\ f[u] = SlotOf(d, i)
      BY <1>6
    <3>2. PICK c \in D : \E j \in 1..c.length : v = <<c, j>> /\ f[v] = SlotOf(c, j)
      BY <1>6
    <3>3. PICK i \in 1..d.length : u = <<d, i>> /\ f[u] = SlotOf(d, i)
      BY <3>1
    <3>4. PICK j \in 1..c.length : v = <<c, j>> /\ f[v] = SlotOf(c, j)
      BY <3>2
    <3> QED BY <1>2, <2>3, <3>3, <3>4
  <2>4. ASSUME NEW t \in lost PROVE \E u \in U : f[u] = t
    <3>1. t \in Nat /\ t < new.end
      BY <1>4, <1>5
    <3>2. PICK s \in segs : s.plan = q /\ Covers(s, t)
      BY <1>4, <1>5, <3>1
    <3>3. PICK d \in D : d.of = s /\ \E i \in 1..d.length : SlotOf(d, i) = t
      BY <1>2, <1>9, <3>1, <3>2
    <3> QED BY <1>8, <3>2, <3>3
  <2>5. f \in Bijection(U, lost)
    BY <2>2, <2>3, <2>4 DEF Bijection, Injection, Surjection, IsInjective
  <2>6. Cardinality(lost) = Cardinality(U)
    BY <1>3, <2>5, FS_Bijection, Fun_ExistsBij
  <2> QED BY <1>1, <1>9, <2>6 DEF D, U, lost
<1>10. CASE ~(Rank[q] < rank)
  <2>1. U = {}
    BY <1>2, <1>6, <1>10
  <2> QED BY <1>1, <1>10, <2>1, FS_EmptySet DEF D, U
<1> QED BY <1>9, <1>10

\* The time of plan q in a line: laid out, and still to be placed.
Amount(line, q) == Cardinality(SlotsOf(line.segs, q)) + Cardinality(Units(line.queue, q))

\* The placements before this one were numbered lower.
Numbered(queue, turn) == \A g \in queue : g.turn < turn

LEMMA PlacementKeeps ==
  ASSUME TimelineAssumption, NEW line, NEW from \in Nat, LineSound(line, from),
         LineInOrder(line, from), NEW g \in line.queue, NEW turn \in Nat,
         Numbered(line.queue, turn), NEW q \in Plans
  PROVE  Amount([segs |-> SegsAfter(line, g), queue |-> QueueAfter(line, g, turn)], q) = Amount(line, q)
<1> DEFINE segs == line.segs
           rank == Rank[g.of.plan]
<1>1. PICK new \in Segs, p \in [start : Nat, end : Nat] : Takes(line, from, g, new, p)
  BY PlacementTakes
<1> DEFINE D == Displaced(segs, rank, {p}, turn)
           before == Cardinality(SlotsOf(segs, q))
           after == Cardinality(SlotsOf(SegsAfter(line, g), q))
           lost == Cardinality(Lost(segs, q, new.end))
           waited == Cardinality(Units(line.queue, q))
           waits == Cardinality(Units(QueueAfter(line, g, turn), q))
<1>2. /\ new.start < new.end /\ EndOf(segs, rank, from, new.start) /\ p.start = new.start /\ p.end = new.end
      /\ QueueAfter(line, g, turn) = (line.queue \ {g}) \union D
  BY <1>1 DEF Takes
<1>3. /\ SegsSound(segs) /\ QueueSound(line.queue) /\ InOrder(segs, from)
      /\ g.length \in Nat /\ Rank[q] \in Nat /\ rank \in Nat
  BY DEF LineSound, LineInOrder, QueueSound, Items, TimelineAssumption
<1>4. /\ before \in Nat /\ lost \in Nat
      /\ q = g.of.plan => after = before + g.length
      /\ q # g.of.plan /\ Rank[q] >= rank => after = before
      /\ Rank[q] < rank => after = before - lost
  BY <1>1, SlotsAfter
<1>5. q = g.of.plan => ~(Rank[q] < rank)
  BY <1>3
<1> HIDE DEF segs, rank
<1>6. /\ QueueSound(D)
      /\ Cardinality(Units(D, q)) = IF Rank[q] < rank THEN lost ELSE 0
  BY <1>2, <1>3, UnitsDisplaced
<1>7. D \intersect line.queue = {}
  <2>1. \A d \in D : d.turn = turn
    BY <1>2, <1>3, DisplacedSlots
  <2>2. \A h \in line.queue : h.turn # turn
    BY DEF Numbered, LineSound, QueueSound, Items
  <2> QED BY <2>1, <2>2
<1> HIDE DEF D
<1>8. waits = waited - (IF q = g.of.plan THEN g.length ELSE 0) + Cardinality(Units(D, q))
  BY <1>2, <1>3, <1>6, <1>7, UnitsOfUnion
<1>9. waited \in Nat
  BY <1>3, UnitsAre
<1> HIDE DEF before, after, lost, waited, waits
<1>10. after + waits = before + waited
  <2>1. CASE q = g.of.plan
    BY <1>3, <1>4, <1>5, <1>6, <1>8, <1>9, <2>1
  <2>2. CASE q # g.of.plan /\ Rank[q] >= rank
    BY <1>3, <1>4, <1>6, <1>8, <1>9, <2>2
  <2>3. CASE q # g.of.plan /\ Rank[q] < rank
    BY <1>3, <1>4, <1>6, <1>8, <1>9, <2>3
  <2> QED BY <1>3, <2>1, <2>2, <2>3
<1> QED BY <1>10 DEF Amount, before, after, waited, waits, segs

-----------------------------------------------------------------------------
(* A rebuilding ends within its limit: what a placement displaces is of a  *)
(* lower tier, and no longer than what is placed.                          *)

Lower(g) == {p \in Plans : Rank[p] <= Rank[g.of.plan]}

\* What a grant may still cause: a placement per slot and plan of its tier or a lower one.
WorkOf(g) == {g} \X ((1..g.length) \X Lower(g))

Work(queue) == UNION {WorkOf(g) : g \in queue}

IsWork(queue, u) == \E g \in queue : \E i \in 1..g.length, p \in Lower(g) : u = <<g, <<i, p>>>>

LEMMA WorkOfGrant ==
  ASSUME TimelineAssumption, NEW g \in Items
  PROVE  /\ IsFiniteSet(WorkOf(g))
         /\ Cardinality(WorkOf(g)) <= g.length * Cardinality(Plans)
         /\ \A u : u \in WorkOf(g) <=> \E i \in 1..g.length, p \in Lower(g) : u = <<g, <<i, p>>>>
<1> DEFINE N == 1..g.length
           all == {g} \X (N \X Plans)
           low == Lower(g)
<1>1. g.length \in Nat \ {0} /\ g.length \in Int /\ 1 \in Int
  BY DEF Items
<1>2. IsFiniteSet(N) /\ Cardinality(N) = (IF 1 > g.length THEN 0 ELSE g.length - 1 + 1)
  BY <1>1, FS_Interval
<1>3. low \subseteq Plans
  BY DEF Lower
<1>4. WorkOf(g) = {g} \X (N \X low)
  BY DEF WorkOf
<1> HIDE DEF N, low
<1>5. Cardinality(N) = g.length
  BY <1>1, <1>2
<1>6. IsFiniteSet(N \X Plans) /\ Cardinality(N \X Plans) = g.length * Cardinality(Plans)
  BY <1>2, <1>5, FS_Product DEF TimelineAssumption
<1>7. IsFiniteSet({g}) /\ Cardinality({g}) = 1
  BY FS_Singleton
<1>8. Cardinality(N \X Plans) \in Nat
  BY <1>6, FS_CardinalityType
<1>9. IsFiniteSet(all) /\ Cardinality(all) = 1 * Cardinality(N \X Plans)
  BY <1>6, <1>7, FS_Product
<1>10. {g} \X (N \X low) \subseteq all
  BY <1>3
<1>11. \A u : u \in {g} \X (N \X low) <=> \E i \in N, p \in low : u = <<g, <<i, p>>>>
  OBVIOUS
<1> HIDE DEF all
<1>12. Cardinality(all) = g.length * Cardinality(Plans)
  BY <1>6, <1>8, <1>9
<1>13. IsFiniteSet(WorkOf(g)) /\ Cardinality(WorkOf(g)) <= Cardinality(all)
  BY <1>4, <1>9, <1>10, FS_Subset
<1> QED BY <1>4, <1>11, <1>12, <1>13 DEF N, low

LEMMA WorkAre ==
  ASSUME TimelineAssumption, NEW queue, QueueSound(queue)
  PROVE  /\ IsFiniteSet(Work(queue)) /\ Cardinality(Work(queue)) \in Nat
         /\ \A u : u \in Work(queue) <=> IsWork(queue, u)
<1> DEFINE f == [g \in queue |-> WorkOf(g)]
<1>1. Work(queue) = UNION {f[g] : g \in queue}
  BY DEF Work
<1>2. queue \subseteq Items /\ IsFiniteSet(queue)
  BY DEF QueueSound
<1>3. \A g \in queue : f[g] = WorkOf(g)
  OBVIOUS
<1>4. \A g \in queue :
        /\ IsFiniteSet(f[g])
        /\ \A u : u \in f[g] <=> \E i \in 1..g.length, p \in Lower(g) : u = <<g, <<i, p>>>>
  BY <1>2, <1>3, WorkOfGrant
<1> HIDE DEF f
<1>5. IsFiniteSet({f[g] : g \in queue})
  BY <1>2, ImageIsFinite
<1>6. IsFiniteSet(UNION {f[g] : g \in queue})
  BY <1>4, <1>5, FS_UNION
<1>7. \A u : u \in UNION {f[g] : g \in queue} <=> \E g \in queue : u \in f[g]
  OBVIOUS
<1>8. \A u : u \in Work(queue) <=> IsWork(queue, u)
  BY <1>1, <1>4, <1>7 DEF IsWork
<1> QED BY <1>1, <1>6, <1>8, FS_CardinalityType

\* A placement leaves less work than there was.
LEMMA PlacementEnds ==
  ASSUME TimelineAssumption, NEW line, NEW from \in Nat, LineSound(line, from),
         LineInOrder(line, from), NEW g \in line.queue, NEW turn \in Nat,
         Numbered(line.queue, turn)
  PROVE  /\ Cardinality(Work(QueueAfter(line, g, turn))) < Cardinality(Work(line.queue))
         /\ Numbered(QueueAfter(line, g, turn), turn + 1)
<1> DEFINE segs == line.segs
           queue == line.queue
           rank == Rank[g.of.plan]
           rest == queue \ {g}
<1>1. PICK new \in Segs, p \in [start : Nat, end : Nat] : Takes(line, from, g, new, p)
  BY PlacementTakes
<1> DEFINE D == Displaced(segs, rank, {p}, turn)
           A == Work(queue)
           B == Work(D)
           G == WorkOf(g)
           after == Work(QueueAfter(line, g, turn))
<1>2. /\ new.start < new.end /\ EndOf(segs, rank, from, new.start) /\ p.start = new.start /\ p.end = new.end
      /\ QueueAfter(line, g, turn) = rest \union D /\ new.end = new.start + g.length
  BY <1>1 DEF Takes
<1>3. /\ SegsSound(segs) /\ QueueSound(queue) /\ InOrder(segs, from) /\ queue \subseteq Items
      /\ g \in Items /\ g.length \in Nat \ {0} /\ rank \in Nat /\ g.of.plan \in Plans
      /\ new.start \in Nat /\ new.end \in Nat
  BY DEF LineSound, LineInOrder, QueueSound, Items, Segs
<1>4. /\ \A d \in D : d \in Items /\ d.turn = turn /\ Rank[d.of.plan] < rank /\ Rank[d.of.plan] \in Nat
      /\ \A d \in D : \A i \in 1..d.length :
           /\ SlotOf(d, i) \in Nat /\ new.start <= SlotOf(d, i) /\ SlotOf(d, i) < new.end
      /\ \A d, c \in D : \A i \in 1..d.length, j \in 1..c.length :
           SlotOf(d, i) = SlotOf(c, j) => d = c /\ i = j
      /\ QueueSound(D)
  <2>1. PeriodsSound({p})
    BY <1>2, FS_Singleton DEF PeriodsSound
  <2>2. QueueSound(D)
    BY <1>3, <2>1, DisplacedAre
  <2>3. \A d \in D : Rank[d.of.plan] \in Nat
    BY <2>2 DEF QueueSound
  <2>4. \A d \in D : d \in Items /\ d.turn = turn /\ Rank[d.of.plan] < rank
    BY <1>2, <1>3, DisplacedSlots
  <2>5. \A d \in D : \A i \in 1..d.length :
           /\ SlotOf(d, i) \in Nat /\ new.start <= SlotOf(d, i) /\ SlotOf(d, i) < new.end
    BY <1>2, <1>3, DisplacedSlots
  <2>6. \A d, c \in D : \A i \in 1..d.length, j \in 1..c.length :
           SlotOf(d, i) = SlotOf(c, j) => d = c /\ i = j
    BY <1>2, <1>3, DisplacedSlots
  <2> HIDE DEF D
  <2> QED BY <2>2, <2>3, <2>4, <2>5, <2>6
<1> HIDE DEF D
<1>5. QueueSound(rest \union D)
  BY <1>3, <1>4, QueueUnion
<1>6. /\ IsFiniteSet(A) /\ IsFiniteSet(B) /\ IsFiniteSet(G) /\ IsFiniteSet(after)
      /\ Cardinality(A) \in Nat /\ Cardinality(B) \in Nat /\ Cardinality(G) \in Nat
      /\ Cardinality(after) \in Nat
  <2> HIDE DEF queue, rest
  <2> QED BY <1>2, <1>3, <1>4, <1>5, WorkAre, WorkOfGrant, FS_CardinalityType
<1>7. /\ \A u : u \in A <=> IsWork(queue, u)
      /\ \A u : u \in B <=> IsWork(D, u)
      /\ \A u : u \in after <=> IsWork(rest \union D, u)
      /\ \A u : u \in G <=> \E i \in 1..g.length, q \in Lower(g) : u = <<g, <<i, q>>>>
  <2> HIDE DEF queue, rest
  <2> QED BY <1>2, <1>3, <1>4, <1>5, WorkAre, WorkOfGrant
<1>8. g \in queue /\ \A h : h \in rest <=> h \in queue /\ h # g
  OBVIOUS
<1>9. \A h : h \in rest \union D <=> h \in rest \/ h \in D
  OBVIOUS
<1> HIDE DEF A, B, G, after, queue, rest
<1>10. after \subseteq (A \ G) \union B
  <2> SUFFICES ASSUME NEW u \in after, u \notin B PROVE u \in A /\ u \notin G
    OBVIOUS
  <2>1. PICK h \in rest \union D : \E i \in 1..h.length, q \in Lower(h) : u = <<h, <<i, q>>>>
    BY <1>7 DEF IsWork
  <2>2. h \in rest
    BY <1>7, <1>9, <2>1 DEF IsWork
  <2>3. u \in A
    BY <1>7, <1>8, <2>1, <2>2 DEF IsWork
  <2>4. u \notin G
    BY <1>7, <1>8, <2>1, <2>2
  <2> QED BY <2>3, <2>4
<1>11. G \subseteq A
  BY <1>7, <1>8 DEF IsWork
<1> DEFINE x == <<g, <<1, g.of.plan>>>>
           less == G \ {x}
<1>12. x \in G
  <2>1. 1 \in 1..g.length /\ g.of.plan \in Lower(g)
    BY <1>3 DEF Lower
  <2> QED BY <1>7, <2>1
<1>13. IsFiniteSet(less) /\ Cardinality(less) = Cardinality(G) - 1
  BY <1>6, <1>12, FS_RemoveElement, ZenonT(60)
<1> DEFINE f == [u \in B |-> <<g, <<SlotOf(u[1], u[2][1]) - new.start + 1, u[2][2]>>>>]
<1>14. f \in Injection(B, less)
  <2>1. ASSUME NEW u \in B
        PROVE  \E d \in D : \E i \in 1..d.length, q \in Lower(d) :
                 u = <<d, <<i, q>>>> /\ f[u] = <<g, <<SlotOf(d, i) - new.start + 1, q>>>>
    BY <1>7 DEF IsWork
  <2>2. f = [u \in B |-> f[u]]
    OBVIOUS
  <2>3. \A v : v \in less <=> v \in G /\ v # x
    OBVIOUS
  <2> HIDE DEF f, less
  <2>4. ASSUME NEW u \in B PROVE f[u] \in less
    <3>1. PICK d \in D : \E i \in 1..d.length, q \in Lower(d) :
                 u = <<d, <<i, q>>>> /\ f[u] = <<g, <<SlotOf(d, i) - new.start + 1, q>>>>
      BY <2>1
    <3>2. PICK i \in 1..d.length, q \in Lower(d) : f[u] = <<g, <<SlotOf(d, i) - new.start + 1, q>>>>
      BY <3>1
    <3> DEFINE k == SlotOf(d, i) - new.start + 1
    <3>3. SlotOf(d, i) \in Nat /\ new.start <= SlotOf(d, i) /\ SlotOf(d, i) < new.end
      BY <1>4
    <3>4. k \in 1..g.length
      BY <1>2, <1>3, <3>3
    <3> HIDE DEF k
    <3>5. q \in Lower(g) /\ q # g.of.plan
      BY <1>3, <1>4, <3>2 DEF Lower, TimelineAssumption
    <3>6. f[u] = <<g, <<k, q>>>>
      BY <3>2 DEF k
    <3> QED BY <1>7, <2>3, <3>4, <3>5, <3>6
  <2>5. ASSUME NEW u \in B, NEW v \in B, f[u] = f[v] PROVE u = v
    <3>1. PICK d \in D : \E i \in 1..d.length, q \in Lower(d) :
                 u = <<d, <<i, q>>>> /\ f[u] = <<g, <<SlotOf(d, i) - new.start + 1, q>>>>
      BY <2>1
    <3>2. PICK i \in 1..d.length, q \in Lower(d) :
                 u = <<d, <<i, q>>>> /\ f[u] = <<g, <<SlotOf(d, i) - new.start + 1, q>>>>
      BY <3>1
    <3>3. PICK c \in D : \E j \in 1..c.length, r \in Lower(c) :
                 v = <<c, <<j, r>>>> /\ f[v] = <<g, <<SlotOf(c, j) - new.start + 1, r>>>>
      BY <2>1
    <3>4. PICK j \in 1..c.length, r \in Lower(c) :
                 v = <<c, <<j, r>>>> /\ f[v] = <<g, <<SlotOf(c, j) - new.start + 1, r>>>>
      BY <3>3
    <3> DEFINE k == SlotOf(d, i)
               l == SlotOf(c, j)
    <3>5. q = r /\ k - new.start + 1 = l - new.start + 1
      BY <2>5, <3>2, <3>4
    <3>6. k \in Nat /\ l \in Nat
      BY <1>4
    <3> HIDE DEF k, l
    <3>7. k = l
      BY <1>3, <3>5, <3>6
    <3>8. d = c /\ i = j
      BY <1>4, <3>7 DEF k, l
    <3> QED BY <3>2, <3>4, <3>5, <3>8
  <2> QED BY <2>2, <2>4, <2>5 DEF Injection, IsInjective
<1>15. Cardinality(B) <= Cardinality(G) - 1
  BY <1>13, <1>14, FS_Injection
<1>16. IsFiniteSet(A \ G) /\ Cardinality(A \ G) = Cardinality(A) - Cardinality(G)
  <2>1. A \intersect G = G
    BY <1>11
  <2>2. IsFiniteSet(A \ G) /\ Cardinality(A \ G) = Cardinality(A) - Cardinality(A \intersect G)
    BY <1>6, FS_Difference
  <2> QED BY <2>1, <2>2
<1> DEFINE C == A \ G
<1>17. IsFiniteSet(C \union B) /\ Cardinality(C \union B) = Cardinality(C) + Cardinality(B) - Cardinality(C \intersect B)
  BY <1>6, <1>16, FS_Union
<1>18. Cardinality(C \intersect B) \in Nat /\ Cardinality(C \union B) \in Nat
  BY <1>16, <1>17, FS_Intersection, FS_CardinalityType
<1>19. Cardinality(after) <= Cardinality(C \union B)
  BY <1>10, <1>17, FS_Subset
<1> HIDE DEF C
<1>20. Cardinality(after) < Cardinality(A)
  BY <1>6, <1>15, <1>16, <1>17, <1>18, <1>19 DEF C
<1>21. Numbered(QueueAfter(line, g, turn), turn + 1)
  <2>1. \A h \in rest : h.turn \in Nat /\ h.turn < turn
    BY <1>3, <1>8 DEF Numbered, Items, queue
  <2>2. \A h \in rest \union D : h.turn < turn + 1
    BY <1>4, <1>9, <2>1
  <2> QED BY <1>2, <2>2 DEF Numbered
<1> QED BY <1>20, <1>21 DEF after, A, queue

\* The placement that a rebuilding makes next.
LEMMA PlaceKeeps ==
  ASSUME TimelineAssumption, NEW line, NEW from \in Nat, LineSound(line, from),
         LineInOrder(line, from), line.queue # {}, NEW turn \in Nat, Numbered(line.queue, turn),
         NEW q \in Plans
  PROVE  /\ Amount(Place(line, turn), q) = Amount(line, q)
         /\ Numbered(Place(line, turn).queue, turn + 1)
         /\ Cardinality(Work(Place(line, turn).queue)) \in Nat
         /\ Cardinality(Work(line.queue)) \in Nat
         /\ Cardinality(Work(Place(line, turn).queue)) < Cardinality(Work(line.queue))
<1>1. PICK g \in line.queue :
        Place(line, turn) = [segs |-> SegsAfter(line, g), queue |-> QueueAfter(line, g, turn)]
  BY PlaceIs DEF LineSound
<1>2. Amount([segs |-> SegsAfter(line, g), queue |-> QueueAfter(line, g, turn)], q) = Amount(line, q)
  BY PlacementKeeps
<1>3. /\ Cardinality(Work(QueueAfter(line, g, turn))) < Cardinality(Work(line.queue))
      /\ Numbered(QueueAfter(line, g, turn), turn + 1)
  BY PlacementEnds
<1>4. LineSound(Place(line, turn), from)
  BY PlaceSound
<1>5. Cardinality(Work(Place(line, turn).queue)) \in Nat /\ Cardinality(Work(line.queue)) \in Nat
  BY <1>4, WorkAre DEF LineSound
<1>6. Place(line, turn).queue = QueueAfter(line, g, turn)
  BY <1>1
<1> QED BY <1>1, <1>2, <1>3, <1>5, <1>6

LEMMA NoUnits ==
  ASSUME NEW q
  PROVE  QueueSound({}) /\ Cardinality(Units({}, q)) = 0
<1>1. Units({}, q) = {}
  BY DEF Units
<1> QED BY <1>1, FS_EmptySet DEF QueueSound

\* A rebuilding gives the grant's plan the time granted, and every other plan what it had.
LEMMA BuildKeeps ==
  ASSUME TimelineAssumption, NEW segs, NEW grant, NEW from \in Nat,
         LineSound(Start(segs, grant), from), LineInOrder(Start(segs, grant), from),
         grant.turn = 0, NEW q \in Plans
  PROVE  Cardinality(SlotsOf(Build(segs, grant), q)) =
           Cardinality(SlotsOf(segs, q)) + (IF q = grant.of.plan THEN grant.length ELSE 0)
<1> DEFINE limit == grant.length * Cardinality(Plans)
           first == [segs |-> Normalize(segs), queue |-> {grant}]
           total == Cardinality(SlotsOf(segs, q)) + (IF q = grant.of.plan THEN grant.length ELSE 0)
           Good(line, n) ==
             /\ LineSound(line, from) /\ LineInOrder(line, from) /\ Amount(line, q) = total
             /\ line.queue # {} => /\ Numbered(line.queue, n + 1)
                                   /\ Cardinality(Work(line.queue)) + n <= limit
<1>1. /\ SegsSound(segs) /\ grant \in Items /\ \A s \in segs : from <= s.start
      /\ QueueSound({grant})
  BY DEF LineSound, QueueSound, Start
<1>2. limit \in Nat /\ grant.length \in Nat
  <2>1. Cardinality(Plans) \in Nat
    BY FS_CardinalityType DEF TimelineAssumption
  <2>2. grant.length \in Nat
    BY <1>1 DEF Items
  <2> QED BY <2>1, <2>2
<1>3. PICK f : /\ f = [n \in 0..limit |-> Placements(f, segs, grant, n)]
               /\ Build(segs, grant) = Normalize(f[limit].segs)
  BY <1>2, BuildIs
<1>4. Good(first, 0)
  <2>1. SegsSound(Normalize(segs)) /\ \A s \in Normalize(segs) : from <= s.start
    BY <1>1, NormalizeSound, NormalizeFrom
  <2>2. LineSound(first, from)
    BY <2>1 DEF LineSound, Start
  <2>3. LineInOrder(first, from)
    <3>1. InOrder(segs, from) /\ Reaches(segs, Rank[grant.of.plan], from, grant.start)
      BY DEF LineInOrder, Start
    <3>2. InOrder(Normalize(segs), from)
      BY <1>1, <3>1, NormalizeInOrder
    <3>3. Rank[grant.of.plan] \in Nat /\ grant.start \in Nat
      BY <1>1 DEF QueueSound, Items
    <3>4. Reaches(Normalize(segs), Rank[grant.of.plan], from, grant.start)
      BY <1>1, <3>1, <3>3, NormalizeReaches
    <3> QED BY <3>2, <3>4 DEF LineInOrder
  <2>4. Amount(first, q) = total
    <3> DEFINE n == IF q = grant.of.plan THEN grant.length ELSE 0
               had == Cardinality(SlotsOf(segs, q))
    <3>1. Cardinality(Units(({grant} \ {grant}) \union {}, q))
            = Cardinality(Units({grant}, q)) - n + Cardinality(Units({}, q))
      BY <1>1, NoUnits, UnitsOfUnion
    <3>2. ({grant} \ {grant}) \union {} = {}
      OBVIOUS
    <3>3. Cardinality(Units({}, q)) = 0
      BY NoUnits
    <3>4. Cardinality(Units({grant}, q)) \in Nat
      BY <1>1, UnitsAre
    <3>5. n \in Nat
      BY <1>2
    <3> HIDE DEF n
    <3> DEFINE a == Cardinality(Units({grant}, q))
    <3>6. 0 = a - n + 0
      BY <3>1, <3>2, <3>3
    <3>8. a = n
      <4> HIDE DEF a
      <4> QED BY <3>4, <3>5, <3>6 DEF a
    <3>7. SlotsOf(Normalize(segs), q) = SlotsOf(segs, q)
      BY <1>1, NormalizeSlots
    <3> QED BY <3>7, <3>8 DEF Amount, n
  <2>5. Numbered({grant}, 0 + 1)
    BY DEF Numbered
  <2>6. Work({grant}) = WorkOf(grant)
    BY DEF Work
  <2>7. Cardinality(Work({grant})) + 0 <= limit
    <3>1. Cardinality(WorkOf(grant)) <= limit
      BY <1>1, WorkOfGrant
    <3>2. Cardinality(Work({grant})) \in Nat
      BY <1>1, WorkAre
    <3> HIDE DEF limit
    <3> QED BY <2>6, <3>1, <3>2
  <2> HIDE DEF limit, total
  <2> QED BY <2>2, <2>3, <2>4, <2>5, <2>7
<1> HIDE DEF first, limit, total
<1>5. \A n \in 0..limit : f[n] = Placements(f, segs, grant, n)
  BY <1>3
<1> DEFINE T == {n \in Nat : Good(f[n], n)}
<1>6. 0 \in T
  <2>1. f[0] = first
    <3>1. 0 \in 0..limit
      BY <1>2
    <3>2. f[0] = Placements(f, segs, grant, 0)
      BY <1>5, <3>1
    <3> QED BY <3>2 DEF Placements, first
  <2> HIDE DEF Good
  <2> QED BY <1>4, <2>1
<1>7. ASSUME NEW n \in 0..(limit - 1), n \in T PROVE n + 1 \in T
  <2>1. n \in Nat /\ n + 1 \in 0..limit /\ n + 1 # 0 /\ n + 1 - 1 = n /\ n + 1 \in Nat
    BY <1>2
  <2> DEFINE line == f[n]
             m == n + 1
             next == Place(line, m)
  <2>2. f[m] = Placements(f, segs, grant, m)
    BY <1>5, <2>1
  <2>3. f[m] = IF line.queue = {} THEN line ELSE next
    BY <2>1, <2>2 DEF Placements
  <2>4. Good(line, n)
    BY <1>7
  <2>5. m \in Nat /\ m = n + 1
    BY <2>1
  <2> HIDE DEF line, m, next
  <2>6. ASSUME line.queue # {} PROVE Good(next, m)
    <3>1. /\ LineSound(line, from) /\ LineInOrder(line, from) /\ Amount(line, q) = total
          /\ Numbered(line.queue, m) /\ Cardinality(Work(line.queue)) + n <= limit
      BY <2>4, <2>5, <2>6
    <3>2. LineSound(next, from) /\ LineInOrder(next, from)
      BY <2>5, <2>6, <3>1, PlaceSound DEF next
    <3>3. /\ Amount(next, q) = Amount(line, q) /\ Numbered(next.queue, m + 1)
          /\ Cardinality(Work(next.queue)) \in Nat /\ Cardinality(Work(line.queue)) \in Nat
          /\ Cardinality(Work(next.queue)) < Cardinality(Work(line.queue))
      BY <2>5, <2>6, <3>1, PlaceKeeps DEF next
    <3>4. Cardinality(Work(next.queue)) + m <= limit
      BY <1>2, <2>1, <2>5, <3>1, <3>3
    <3> QED BY <3>1, <3>2, <3>3, <3>4
  <2>7. ASSUME line.queue = {} PROVE Good(line, m)
    BY <2>4, <2>7
  <2> HIDE DEF Good
  <2>8. Good(f[m], m)
    BY <2>3, <2>6, <2>7
  <2> QED BY <2>5, <2>8 DEF m
<1>8. \A n \in 0..limit : n \in T
  <2> HIDE DEF T
  <2> QED BY <1>2, <1>6, <1>7, Induction
<1> DEFINE last == f[limit]
<1>9. Good(last, limit)
  BY <1>2, <1>8
<1>10. Build(segs, grant) = Normalize(last.segs)
  BY <1>3
<1> HIDE DEF last, T
<1>11. last.queue = {}
  <2> SUFFICES ASSUME last.queue # {} PROVE FALSE
    OBVIOUS
  <2>1. /\ LineSound(last, from) /\ LineInOrder(last, from) /\ Numbered(last.queue, limit + 1)
        /\ Cardinality(Work(last.queue)) + limit <= limit /\ limit + 1 \in Nat
    BY <1>2, <1>9
  <2> DEFINE m == limit + 1
             next == Place(last, m)
  <2> HIDE DEF m, next
  <2>2. m \in Nat /\ Numbered(last.queue, m)
    BY <2>1 DEF m
  <2>3. /\ Cardinality(Work(next.queue)) \in Nat /\ Cardinality(Work(last.queue)) \in Nat
        /\ Cardinality(Work(next.queue)) < Cardinality(Work(last.queue))
    BY <2>1, <2>2, PlaceKeeps DEF next
  <2> QED BY <1>2, <2>1, <2>3
<1>12. SegsSound(last.segs) /\ Amount(last, q) = total
  BY <1>9 DEF LineSound
<1>13. SlotsOf(Normalize(last.segs), q) = SlotsOf(last.segs, q)
  BY <1>12, NormalizeSlots
<1>14. Cardinality(SlotsOf(last.segs, q)) \in Nat
  BY <1>12, SlotsOfIs, FS_CardinalityType
<1>15. Amount(last, q) = Cardinality(SlotsOf(last.segs, q)) + 0
  BY <1>11, NoUnits DEF Amount
<1>16. Cardinality(SlotsOf(last.segs, q)) = total
  BY <1>12, <1>14, <1>15
<1> QED BY <1>10, <1>13, <1>16 DEF total

-----------------------------------------------------------------------------
(* The refinement: the rows of a user are a bank of time.                  *)

LEMMA RowSlots ==
  ASSUME NEW R, R \subseteq Row, NEW p
  PROVE  /\ SlotsOf(R, p) \subseteq Nat
         /\ \A t \in Nat : t \in SlotsOf(R, p) <=> \E r \in R : r.plan = p /\ Covers(r, t)
<1>1. \A r \in R : r.start \in Nat /\ r.end \in Nat
  BY DEF Row
<1>2. \A r \in R : \A t : t \in r.start .. r.end - 1 <=> t \in Nat /\ Covers(r, t)
  BY <1>1 DEF Covers
<1>3. \A t : t \in SlotsOf(R, p) <=> \E r \in R : r.plan = p /\ t \in r.start .. r.end - 1
  BY DEF SlotsOf
<1> QED BY <1>2, <1>3

\* The slots of plan p from `time` on.
Ahead(R, p, time) == {t \in SlotsOf(R, p) : t >= time}

\* Rows have the slots of their segments.
LEMMA RowsAhead ==
  ASSUME now \in Nat, NEW R, R \subseteq Row, NEW segs, SegsSound(segs),
         \A s \in segs : now <= s.start, \A x \in R : \E t \in segs : IsRowOf(x, t),
         \A t \in segs : \E x \in R : IsRowOf(x, t), NEW p
  PROVE  Ahead(R, p, now) = SlotsOf(segs, p)
<1>1. /\ SlotsOf(R, p) \subseteq Nat /\ SlotsOf(segs, p) \subseteq Nat
      /\ \A t \in Nat : t \in SlotsOf(R, p) <=> \E r \in R : r.plan = p /\ Covers(r, t)
      /\ \A t \in Nat : t \in SlotsOf(segs, p) <=> \E s \in segs : s.plan = p /\ Covers(s, t)
  BY RowSlots, SlotsOfIs
<1>2. \A s \in segs : s.start \in Nat /\ s.end \in Nat
  BY DEF SegsSound, Segs
<1>3. \A x \in R : x.start \in Nat /\ x.end \in Nat
  BY DEF Row
<1>4. ASSUME NEW x \in R, NEW s \in segs, IsRowOf(x, s), NEW t \in Nat
      PROVE  x.plan = s.plan /\ (Covers(s, t) <=> Covers(x, t) /\ t >= now)
  BY <1>2, <1>3, <1>4 DEF IsRowOf, Covers
<1>5. ASSUME NEW t \in Nat
      PROVE  t \in SlotsOf(segs, p) <=> t \in SlotsOf(R, p) /\ t >= now
  <2>1. ASSUME NEW s \in segs, s.plan = p, Covers(s, t) PROVE t \in SlotsOf(R, p) /\ t >= now
    <3>1. PICK x \in R : IsRowOf(x, s)
      OBVIOUS
    <3> QED BY <1>1, <1>4, <2>1, <3>1
  <2>2. ASSUME NEW x \in R, x.plan = p, Covers(x, t), t >= now PROVE t \in SlotsOf(segs, p)
    <3>1. PICK s \in segs : IsRowOf(x, s)
      OBVIOUS
    <3> QED BY <1>1, <1>4, <2>2, <3>1
  <2> QED BY <1>1, <2>1, <2>2
<1> QED BY <1>1, <1>5 DEF Ahead

LEMMA SegmentsAhead ==
  ASSUME now \in Nat, NEW next, NEW R, RowsSound(R, next, now), NEW p
  PROVE  Ahead(R, p, now) = SlotsOf(SegmentsOf(R), p)
<1>1. SegsSound(SegmentsOf(R)) /\ \A s \in SegmentsOf(R) : now <= s.start
  BY SegmentsSound
<1>2. R \subseteq Row /\ \A r \in R : r \in Row /\ now < r.end /\ r.start < r.end /\ r.start \in Nat
  BY DEF RowsSound, Row
<1>3. \A r \in R : IsRowOf(r, Segment(r))
  BY <1>2, SegmentIs DEF IsRowOf
<1>4. \A s \in SegmentsOf(R) : \E r \in R : s = Segment(r)
  BY DEF SegmentsOf
<1>5. \A r \in R : Segment(r) \in SegmentsOf(R)
  BY DEF SegmentsOf
<1>6. \A x \in R : \E t \in SegmentsOf(R) : IsRowOf(x, t)
  BY <1>3, <1>5
<1>7. \A t \in SegmentsOf(R) : \E x \in R : IsRowOf(x, t)
  BY <1>3, <1>4
<1> QED BY <1>1, <1>2, <1>6, <1>7, RowsAhead

\* A grant that has read every row adds its time to its plan, and takes none from another.
LEMMA CommitLeaves ==
  ASSUME TimelineAssumption, TimelineInvariant, NEW c \in Calls, Commit(c), NEW q \in Plans
  PROVE  Cardinality(Ahead(subscriptions', q, now')) =
           Cardinality(Ahead(subscriptions, q, now)) + (IF q = call[c].plan THEN call[c].length ELSE 0)
<1> DEFINE g == call[c]
           existing == {r \in Running : r.id \in g.ids}
           old == SegmentsOf(subscriptions)
           grant == Grant(g.plan, g.length)
           segs == Build(old, grant)
<1>1. /\ now \in Nat /\ nextId \in Nat \ {0} /\ RowsSound(subscriptions, nextId, now) /\ Running = subscriptions
      /\ g.plan \in Plans /\ g.length \in Durations
  BY TypeIs DEF Commit, TimelineInvariant
<1>2. existing = subscriptions
  <2>1. g.ids = {r.id : r \in subscriptions}
    BY DEF Commit, TimelineInvariant, CallsSound
  <2> QED BY <1>1, <2>1
<1>3. Apply(existing, Build(SegmentsOf(existing), grant)) /\ now' = now
  BY DEF Commit, SegmentsOf
<1> HIDE DEF existing
<1>4. Apply(subscriptions, segs)
  BY <1>2, <1>3
<1> HIDE DEF g
<1>5. SegsSound(old) /\ \A s \in old : now <= s.start
  BY <1>1, SegmentsSound
<1>6. QueueSound({grant}) /\ grant.start = now /\ Rank[grant.of.plan] \in Nat
  BY <1>1, GrantIs
<1>7. grant.turn = 0 /\ grant.of.plan = g.plan /\ grant.length = g.length
  BY DEF Grant
<1>8. InOrder(old, now)
  BY <1>1, SegmentsInOrder DEF TimelineInvariant
<1>9. SlotsOf(old, q) = Ahead(subscriptions, q, now)
  BY <1>1, SegmentsAhead
<1> HIDE DEF old, grant
<1>10. LineSound(Start(old, grant), now) /\ LineInOrder(Start(old, grant), now)
  BY <1>1, <1>5, <1>6, <1>8 DEF LineSound, LineInOrder, Start, Reaches
<1>11. SegsSound(segs) /\ \A s \in segs : now <= s.start
  BY <1>1, <1>10, BuildSound
<1>12. Cardinality(SlotsOf(segs, q)) =
         Cardinality(SlotsOf(old, q)) + (IF q = grant.of.plan THEN grant.length ELSE 0)
  BY <1>1, <1>7, <1>10, BuildKeeps
<1> HIDE DEF segs
<1>13. RowsSound(subscriptions', nextId', now) /\ RowsOf(subscriptions', segs)
  BY <1>1, <1>4, <1>11, ApplyRows
<1>14. Ahead(subscriptions', q, now) = SlotsOf(segs, q)
  BY <1>1, <1>11, <1>13, RowsAhead DEF RowsOf, RowsSound
<1> QED BY <1>3, <1>7, <1>9, <1>12, <1>14 DEF g

\* What an administrator sets is all there is.
LEMMA SetLeaves ==
  ASSUME TimelineAssumption, TimelineInvariant, NEW p \in Plans, NEW d \in Terms, Set(p, d), NEW q \in Plans
  PROVE  Cardinality(Ahead(subscriptions', q, now')) = IF q = p THEN d ELSE 0
<1> DEFINE x == [id |-> nextId, plan |-> p, start |-> now, end |-> now + d]
           n == now + d
<1>1. now \in Nat /\ nextId \in Nat \ {0} /\ d \in Nat \ {0}
  BY TypeIs DEF TimelineInvariant, TimelineAssumption
<1>2. subscriptions' = {x} /\ now' = now
  BY DEF Set
<1>3. x \in Row /\ x.start = now /\ x.end = n /\ x.plan = p /\ n \in Nat /\ n - now = d /\ now < n
  BY <1>1 DEF Row
<1> HIDE DEF x, n
<1>4. /\ SlotsOf({x}, q) \subseteq Nat
      /\ \A t \in Nat : t \in SlotsOf({x}, q) <=> x.plan = q /\ Covers(x, t)
  BY <1>3, RowSlots
<1>5. Ahead({x}, q, now) = IF q = p THEN now .. n - 1 ELSE {}
  <2>1. Ahead({x}, q, now) \subseteq Nat /\ now .. n - 1 \subseteq Nat
    BY <1>1, <1>3, <1>4 DEF Ahead
  <2>2. \A t \in Nat : t \in Ahead({x}, q, now) <=> q = p /\ now <= t /\ t < n
    BY <1>1, <1>3, <1>4 DEF Ahead, Covers
  <2>3. \A t \in Nat : t \in now .. n - 1 <=> now <= t /\ t < n
    BY <1>1, <1>3
  <2> DEFINE A == Ahead({x}, q, now)
             N == now .. n - 1
  <2> HIDE DEF A, N
  <2>4. A \subseteq Nat /\ N \subseteq Nat /\ \A t \in Nat : t \in A <=> q = p /\ t \in N
    BY <2>1, <2>2, <2>3 DEF A, N
  <2> QED BY <2>4 DEF A, N
<1>6. Cardinality(now .. n - 1) = d
  <2>1. now \in Int /\ n - 1 \in Int
    BY <1>1, <1>3
  <2>2. Cardinality(now .. n - 1) = IF now > n - 1 THEN 0 ELSE n - 1 - now + 1
    BY <2>1, FS_Interval
  <2> QED BY <1>1, <1>3, <2>2
<1> QED BY <1>2, <1>5, <1>6, FS_EmptySet

\* When a slot passes, it passes for the best plan there is time for.
LEMMA AdvanceLeaves ==
  ASSUME TimelineAssumption, TimelineInvariant, Advance
  PROVE  \/ \A q \in Plans : Cardinality(Ahead(subscriptions', q, now')) = Cardinality(Ahead(subscriptions, q, now))
         \/ \E p \in Plans :
              /\ Cardinality(Ahead(subscriptions, p, now)) > 0
              /\ \A q \in Plans : Cardinality(Ahead(subscriptions, q, now)) > 0 => Rank[q] <= Rank[p]
              /\ \A q \in Plans : Cardinality(Ahead(subscriptions', q, now')) =
                   Cardinality(Ahead(subscriptions, q, now)) - (IF q = p THEN 1 ELSE 0)
<1> DEFINE R == subscriptions
           later == {r \in R : r.end > now + 1}
           Left0(q) == Ahead(R, q, now)
           Left1(q) == Ahead(later, q, now + 1)
<1>1. /\ now \in Nat /\ RowsSound(R, nextId, now) /\ subscriptions' = later /\ now' = now + 1
  BY TypeIs DEF Advance, TimelineInvariant
<1>2. /\ R \subseteq Row /\ later \subseteq Row
      /\ \A r \in R : r.start \in Nat /\ r.end \in Nat /\ r.plan \in Plans /\ Rank[r.plan] \in Nat
  BY <1>1 DEF RowsSound, Row, TimelineAssumption
<1>3. /\ \A r, s \in R : r # s => ~(r.start < s.end /\ s.start < r.end)
      /\ \A r, s \in R : r.start < s.start => Rank[r.plan] >= Rank[s.plan]
  BY DEF TimelineInvariant, Contiguous, Overlaps
<1>4. \A q : /\ SlotsOf(R, q) \subseteq Nat /\ SlotsOf(later, q) \subseteq Nat
             /\ \A t \in Nat : t \in SlotsOf(R, q) <=> \E r \in R : r.plan = q /\ Covers(r, t)
             /\ \A t \in Nat : t \in SlotsOf(later, q) <=> \E r \in later : r.plan = q /\ Covers(r, t)
  <2> HIDE DEF R, later
  <2> QED BY <1>2, RowSlots
<1>5. \A r : r \in later <=> r \in R /\ r.end > now + 1
  OBVIOUS
<1> HIDE DEF R, later
<1>6. ASSUME NEW q \in Plans
      PROVE  /\ Left0(q) \subseteq Nat /\ IsFiniteSet(Left0(q))
             /\ \A t \in Nat : t \in Left0(q) <=> t >= now /\ \E r \in R : r.plan = q /\ Covers(r, t)
             /\ Left1(q) = Left0(q) \ {now}
  <2>1. \A t \in Nat : t \in Left0(q) <=> t >= now /\ \E r \in R : r.plan = q /\ Covers(r, t)
    BY <1>4 DEF Ahead
  <2>2. \A t \in Nat : t \in Left1(q) <=> t >= now + 1 /\ \E r \in later : r.plan = q /\ Covers(r, t)
    BY <1>4 DEF Ahead
  <2>3. Left0(q) \subseteq Nat /\ Left1(q) \subseteq Nat
    BY <1>4 DEF Ahead
  <2>4. Left0(q) = SlotsOf(SegmentsOf(R), q) /\ SegsSound(SegmentsOf(R))
    BY <1>1, SegmentsAhead, SegmentsSound
  <2>5. IsFiniteSet(Left0(q))
    BY <2>4, SlotsOfIs
  <2> HIDE DEF Left0, Left1
  <2>6. \A t \in Nat : t \in Left1(q) <=> t \in Left0(q) /\ t # now
    BY <1>1, <1>2, <1>5, <2>1, <2>2 DEF Covers
  <2> QED BY <2>1, <2>3, <2>5, <2>6
<1> HIDE DEF Left0, Left1
<1>7. ASSUME NEW q \in Plans
      PROVE  /\ Cardinality(Left0(q)) \in Nat /\ (Cardinality(Left0(q)) > 0 <=> Left0(q) # {})
             /\ Cardinality(Left1(q)) = IF now \in Left0(q) THEN Cardinality(Left0(q)) - 1 ELSE Cardinality(Left0(q))
  <2>1. IsFiniteSet(Left0(q)) /\ Left1(q) = Left0(q) \ {now}
    BY <1>6
  <2>2. Cardinality(Left0(q)) \in Nat /\ (Cardinality(Left0(q)) = 0 <=> Left0(q) = {})
    BY <2>1, FS_CardinalityType, FS_EmptySet
  <2>3. Cardinality(Left0(q) \ {now}) = IF now \in Left0(q) THEN Cardinality(Left0(q)) - 1 ELSE Cardinality(Left0(q))
    BY <2>1, FS_RemoveElement
  <2> QED BY <2>1, <2>2, <2>3
<1>8. CASE \E r \in R : Covers(r, now)
  <2>1. PICK r \in R : Covers(r, now)
    BY <1>8
  <2> DEFINE p == r.plan
  <2>2. p \in Plans /\ now \in Left0(p)
    BY <1>1, <1>2, <1>6, <2>1
  <2>3. ASSUME NEW q \in Plans, q # p PROVE now \notin Left0(q)
    <3> SUFFICES ASSUME NEW s \in R, s.plan = q, Covers(s, now) PROVE FALSE
      BY <1>1, <1>6
    <3>1. s = r
      BY <1>1, <1>2, <1>3, <2>1 DEF Covers
    <3> QED BY <2>3, <3>1
  <2>4. ASSUME NEW q \in Plans, Left0(q) # {} PROVE Rank[q] <= Rank[p]
    <3>1. PICK t \in Nat, s \in R : t >= now /\ s.plan = q /\ Covers(s, t)
      BY <1>6, <2>4
    <3>2. CASE s = r
      BY <1>2, <3>1, <3>2
    <3>3. CASE s # r
      <4>1. ~(r.start < s.end /\ s.start < r.end)
        BY <1>3, <3>3
      <4>2. r.start < s.start
        BY <1>1, <1>2, <2>1, <3>1, <4>1 DEF Covers
      <4> QED BY <1>2, <1>3, <3>1, <4>2
    <3> QED BY <3>2, <3>3
  <2>5. \A q \in Plans : Cardinality(Left0(q)) > 0 => Rank[q] <= Rank[p]
    BY <1>7, <2>4
  <2>6. Cardinality(Left0(p)) > 0
    BY <1>7, <2>2
  <2>7. \A q \in Plans : Cardinality(Left1(q)) = Cardinality(Left0(q)) - (IF q = p THEN 1 ELSE 0)
    BY <1>7, <2>2, <2>3
  <2> QED BY <1>1, <2>2, <2>5, <2>6, <2>7 DEF Left0, Left1, R
<1>9. CASE ~\E r \in R : Covers(r, now)
  <2>1. \A q \in Plans : now \notin Left0(q)
    BY <1>1, <1>6, <1>9
  <2>2. \A q \in Plans : Cardinality(Left1(q)) = Cardinality(Left0(q))
    BY <1>7, <2>1
  <2> QED BY <1>1, <2>2 DEF Left0, Left1, R
<1> QED BY <1>8, <1>9

LeftNow == [p \in Plans |-> Left(p)]

LEMMA LeftIs ==
  ASSUME TimelineAssumption, TimelineInvariant
  PROVE  /\ LeftNow \in [Plans -> Nat]
         /\ \A q \in Plans : LeftNow[q] = Cardinality(Ahead(subscriptions, q, now))
         /\ LeftNow' = [q \in Plans |-> LeftNow'[q]]
         /\ \A q \in Plans : LeftNow'[q] = Cardinality(Ahead(subscriptions', q, now'))
<1>1. \A q \in Plans : LeftNow[q] = Cardinality(Ahead(subscriptions, q, now))
  BY DEF LeftNow, Left, Ahead
<1>2. \A q \in Plans : LeftNow'[q] = Cardinality(Ahead(subscriptions', q, now'))
  BY DEF LeftNow, Left, Ahead
<1>3. LeftNow' = [q \in Plans |-> LeftNow'[q]]
  BY DEF LeftNow
<1>4. ASSUME NEW q \in Plans PROVE Cardinality(Ahead(subscriptions, q, now)) \in Nat
  <2>1. now \in Nat /\ RowsSound(subscriptions, nextId, now)
    BY TypeIs DEF TimelineInvariant
  <2>2. SegsSound(SegmentsOf(subscriptions))
    BY <2>1, SegmentsSound
  <2>3. Ahead(subscriptions, q, now) = SlotsOf(SegmentsOf(subscriptions), q)
    BY <2>1, SegmentsAhead
  <2> QED BY <2>2, <2>3, SlotsOfIs, FS_CardinalityType
<1>5. LeftNow = [q \in Plans |-> LeftNow[q]]
  BY DEF LeftNow
<1> QED BY <1>1, <1>2, <1>3, <1>4, <1>5

LEMMA NothingAhead ==
  ASSUME NEW q, NEW t
  PROVE  Cardinality(Ahead({}, q, t)) = 0
<1>1. Ahead({}, q, t) = {}
  BY DEF Ahead, SlotsOf
<1> QED BY <1>1, FS_EmptySet

LEMMA BankStart ==
  ASSUME TimelineInit
  PROVE  Bank!Init
<1>1. subscriptions = {}
  BY DEF TimelineInit
<1>2. \A p \in Plans : Left(p) = Cardinality(Ahead({}, p, now))
  BY <1>1 DEF Left, Ahead
<1>3. \A p \in Plans : Left(p) = 0
  BY <1>2, NothingAhead
<1> QED BY <1>3 DEF Bank!Init

\* Every step of the timeline grants, replaces, takes or spends time of the bank, or does nothing
\* to it.
LEMMA BankStep ==
  ASSUME TimelineAssumption, Serial, TimelineInvariant, [TimelineNext]_timelineVars
  PROVE  [Bank!Next]_LeftNow
<1>1. /\ LeftNow \in [Plans -> Nat]
      /\ \A q \in Plans : LeftNow[q] = Cardinality(Ahead(subscriptions, q, now))
      /\ LeftNow' = [q \in Plans |-> LeftNow'[q]]
      /\ \A q \in Plans : LeftNow'[q] = Cardinality(Ahead(subscriptions', q, now'))
  BY LeftIs
<1>2. ASSUME UNCHANGED <<now, subscriptions>> PROVE UNCHANGED LeftNow
  BY <1>2 DEF LeftNow, Left
<1>3. ASSUME NEW c \in Calls, Commit(c) PROVE Bank!Next
  <2> DEFINE p == call[c].plan
             d == call[c].length
  <2>1. p \in Plans /\ d \in Durations
    BY <1>3, TypeIs DEF Commit, TimelineInvariant
  <2>2. d \in Nat
    BY <2>1 DEF TimelineAssumption
  <2>3. \A q \in Plans : LeftNow'[q] = LeftNow[q] + (IF q = p THEN d ELSE 0)
    BY <1>1, <1>3, CommitLeaves
  <2> HIDE DEF p, d
  <2>4. LeftNow' = [LeftNow EXCEPT ![p] = LeftNow[p] + d]
    BY <1>1, <2>1, <2>2, <2>3
  <2>5. Bank!Grant(p, d)
    BY <2>4 DEF Bank!Grant, LeftNow
  <2> QED BY <2>1, <2>5 DEF Bank!Next
<1>4. ASSUME NEW p \in Plans, NEW d \in Terms, Set(p, d) PROVE Bank!Next
  <2>1. \A q \in Plans : LeftNow'[q] = IF q = p THEN d ELSE 0
    BY <1>1, <1>4, SetLeaves
  <2>2. LeftNow' = [q \in Plans |-> IF q = p THEN d ELSE 0]
    BY <1>1, <2>1
  <2>3. Bank!Replace(p, d)
    BY <2>2 DEF Bank!Replace, LeftNow
  <2> QED BY <2>3 DEF Bank!Next
<1>5. ASSUME Advance PROVE [Bank!Next]_LeftNow
  <2>1. CASE \A q \in Plans : Cardinality(Ahead(subscriptions', q, now')) = Cardinality(Ahead(subscriptions, q, now))
    <3>1. \A q \in Plans : LeftNow'[q] = LeftNow[q]
      BY <1>1, <2>1
    <3>2. LeftNow' = LeftNow
      BY <1>1, <3>1
    <3> QED BY <3>2
  <2>2. ASSUME NEW p \in Plans,
               Cardinality(Ahead(subscriptions, p, now)) > 0,
               \A q \in Plans : Cardinality(Ahead(subscriptions, q, now)) > 0 => Rank[q] <= Rank[p],
               \A q \in Plans : Cardinality(Ahead(subscriptions', q, now')) =
                   Cardinality(Ahead(subscriptions, q, now)) - (IF q = p THEN 1 ELSE 0)
        PROVE  Bank!Next
    <3>1. LeftNow[p] > 0 /\ \A q \in Plans : LeftNow[q] > 0 => Rank[q] <= Rank[p]
      BY <1>1, <2>2
    <3>2. \A q \in Plans : LeftNow'[q] = LeftNow[q] - (IF q = p THEN 1 ELSE 0)
      BY <1>1, <2>2
    <3>3. LeftNow' = [LeftNow EXCEPT ![p] = LeftNow[p] - 1]
      BY <1>1, <3>2
    <3>4. p \in Bank!Best
      BY <3>1 DEF Bank!Best, LeftNow
    <3>5. Bank!Spend
      BY <3>3, <3>4 DEF Bank!Spend, LeftNow
    <3> QED BY <3>5 DEF Bank!Next
  <2> QED BY <1>5, <2>1, <2>2, AdvanceLeaves
<1>6. ASSUME SwitchToFree PROVE UNCHANGED <<now, subscriptions>>
  BY <1>6 DEF SwitchToFree, TimelineInvariant, FreeIsEmpty
<1>7. ASSUME NEW c \in Calls, NEW p \in Plans, NEW d \in Durations, Read(c, p, d)
      PROVE  UNCHANGED <<now, subscriptions>>
  BY <1>7 DEF Read
<1>8. ASSUME NEW c \in Calls, Lock(c) PROVE UNCHANGED <<now, subscriptions>>
  BY <1>8 DEF Lock
<1>9. ASSUME CheckFree \/ UNCHANGED timelineVars PROVE UNCHANGED <<now, subscriptions>>
  BY <1>9 DEF CheckFree, timelineVars
<1>10. ASSUME SetFree PROVE Bank!Next
  <2>1. subscriptions' = {}
    BY <1>10 DEF SetFree
  <2>2. \A q \in Plans : LeftNow'[q] = 0
    BY <1>1, <2>1, NothingAhead
  <2>3. LeftNow' = [q \in Plans |-> 0]
    BY <1>1, <2>2
  <2>4. Bank!Clear
    BY <2>3 DEF Bank!Clear, LeftNow
  <2> QED BY <2>4 DEF Bank!Next
<1> QED BY <1>2, <1>3, <1>4, <1>5, <1>6, <1>7, <1>8, <1>9, <1>10 DEF TimelineNext

\* The rows of a user are a bank of time per plan: a grant adds to one plan and takes from none,
\* however many rows it displaces, an administrator replaces or takes all of it, and each slot that
\* passes is spent on the best plan there is time for (grantSubscriptionOnTimeline, ReplaceSubscription,
\* selectCurrentSubscription), while the calls do not overlap.
THEOREM BankImplemented ==
  ASSUME TimelineAssumption, Serial
  PROVE  TimelineSpec => ImplementsBank
<1>1. TimelineInit => Bank!Init
  BY BankStart
<1>2. TimelineInvariant /\ [TimelineNext]_timelineVars => [Bank!Next]_([p \in Plans |-> Left(p)])
  BY BankStep DEF LeftNow
<1>3. TimelineSpec => []TimelineInvariant
  BY TimelineInvariantCorrect
<1> QED BY <1>1, <1>2, <1>3, PTL DEF TimelineSpec, ImplementsBank, Bank!Spec
=============================================================================
