------------------------------ MODULE MCPlans -------------------------------
(***************************************************************************)
(* Small instances of UsageBudgetSteps and of SubscriptionTimeline in one  *)
(* run: a behaviour is about one of them, and the other does nothing.      *)
(* Three calls share the budget of an account; three plans of three tiers  *)
(* are granted, replaced and used up.                                      *)
(***************************************************************************)
EXTENDS UsageBudgetSteps, SubscriptionTimeline, TLC

CONSTANTS basic, plus, pro, order

Tiers == basic :> 1 @@ plus :> 2 @@ pro :> 3

ASSUME TimelineAssumption

VARIABLE about

PlansInit == about \in {"budget", "timeline"} /\ StepsInit /\ TimelineInit

PlansNext ==
  /\ UNCHANGED about
  /\ \/ about = "budget" /\ StepsNext /\ UNCHANGED timelineVars
     \/ about = "timeline" /\ TimelineNext /\ UNCHANGED steps

PlansSpec == PlansInit /\ [][PlansNext]_<<about, steps, timelineVars>>

Symmetry == Permutations(Refs)
=============================================================================
