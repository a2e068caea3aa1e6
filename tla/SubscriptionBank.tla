-------------------------- MODULE SubscriptionBank --------------------------
(***************************************************************************)
(* What the subscriptions of a user promise: time bought for a plan stays  *)
(* his until it is used, and at every moment the best plan he has time for *)
(* is the one that is used.  Nothing is said of rows, periods or calendars.*)
(***************************************************************************)
EXTENDS Integers

CONSTANTS Plans, Rank, Durations

VARIABLE left           \* the time left for each plan

Best == {p \in Plans : left[p] > 0 /\ \A q \in Plans : left[q] > 0 => Rank[q] <= Rank[p]}

Init == left = [p \in Plans |-> 0]

Grant(p, d) == left' = [left EXCEPT ![p] = @ + d]

Spend == \E p \in Best : left' = [left EXCEPT ![p] = @ - 1]

\* An administrator gives the user one plan in place of all he has.
Replace(p, d) == left' = [q \in Plans |-> IF q = p THEN d ELSE 0]

\* He may also give the user the free plan, and so take all he has.
Clear == left' = [q \in Plans |-> 0]

Next == \/ Spend \/ Clear
        \/ \E p \in Plans, d \in Durations : Grant(p, d) \/ Replace(p, d)

Spec == Init /\ [][Next]_left
=============================================================================
