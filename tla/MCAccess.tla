------------------------------ MODULE MCAccess ------------------------------
(***************************************************************************)
(* Small instances of CircuitBreaker and of SessionRotation in one run: a  *)
(* behaviour is about one of them, and the other does nothing.  Two calls  *)
(* meet the circuits of an upstream and of two models, in the memory of    *)
(* one process; two tabs of a browser refresh one session.                 *)
(***************************************************************************)
EXTENDS CircuitBreaker, SessionRotation

CONSTANTS c1, c2, m1, m2, p1, r1, r2

VARIABLE about

OneProcess == [c \in Callers |-> p1]

AccessInit == about \in {"circuit", "session"} /\ Init /\ SessionInit

AccessNext ==
  /\ UNCHANGED about
  /\ \/ about = "circuit" /\ Next /\ UNCHANGED sessionVars
     \/ about = "session" /\ SessionNext /\ UNCHANGED vars

AccessSpec == AccessInit /\ [][AccessNext]_<<about, vars, sessionVars>> /\ Fairness

\* Bound: one model and one call beside an administrator.
OneModel ==
  orders > 0 =>
    /\ circuit[m2] = Closed /\ fails[m2] = NoFails[m2] /\ caller[c2] = AtRest
    /\ \A c \in Callers : caller[c].model # m2
=============================================================================
