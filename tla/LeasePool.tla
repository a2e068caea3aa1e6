----------------------------- MODULE LeasePool -----------------------------
(***************************************************************************)
(* What usage reservations promise to a handler, whatever amounts are      *)
(* involved: a pool of Slots leases.  A lease is taken once; it lapses if  *)
(* it is not renewed; a call that ran is billed at most once, even on a    *)
(* lapsed lease, and never after its lease was given back; a blocked lease *)
(* keeps its slot until it is billed.                                      *)
(***************************************************************************)
EXTENDS Naturals, FiniteSets

CONSTANTS Leases, Slots

VARIABLES
  phase,   \* "free", "held", "lapsed", "blocked", "returned" or "billed"
  bills    \* how many times the call under each lease was billed

vars == <<phase, bills>>

Occupied == {l \in Leases : phase[l] \in {"held", "blocked"}}

Init ==
  /\ phase = [l \in Leases |-> "free"]
  /\ bills = [l \in Leases |-> 0]

Move(l, from, to) ==
  phase[l] \in from /\ phase' = [phase EXCEPT ![l] = to]

Take(l) ==
  /\ Cardinality(Occupied) < Slots
  /\ Move(l, {"free"}, "held") /\ UNCHANGED bills

Lapse(expired) ==
  /\ \A l \in expired : phase[l] = "held"
  /\ phase' = [l \in Leases |-> IF l \in expired THEN "lapsed" ELSE phase[l]]
  /\ UNCHANGED bills

Return(l) == Move(l, {"held", "lapsed"}, "returned") /\ UNCHANGED bills

Block(l) == Move(l, {"held", "lapsed", "blocked"}, "blocked") /\ UNCHANGED bills

Bill(l) ==
  /\ Move(l, {"held", "lapsed", "blocked"}, "billed")
  /\ bills' = [bills EXCEPT ![l] = @ + 1]

Next ==
  \/ \E l \in Leases : Take(l) \/ Return(l) \/ Block(l) \/ Bill(l)
  \/ \E expired \in SUBSET Leases : Lapse(expired)

Spec == Init /\ [][Next]_vars
=============================================================================
