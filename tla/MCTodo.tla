-------------------------------- MODULE MCTodo --------------------------------
(***************************************************************************)
(* Small instances of TodoSync and of TodoOperations in one run: a         *)
(* behaviour is about one of them, and the other does nothing.  Two        *)
(* devices share a task with a step; and one task of two steps repeats     *)
(* once, in two lists.                                                     *)
(***************************************************************************)
EXTENDS TodoSync, TodoOperations

CONSTANTS phone, tablet, s1, s2

VARIABLE about

ASSUME TodoAssumption /\ S!TodoAssumption

TodoInit == about \in {"devices", "operations"} /\ Init /\ OperationsInit

TodoNext ==
  /\ UNCHANGED about
  /\ \/ about = "devices" /\ Next /\ UNCHANGED operationVars
     \/ about = "operations" /\ OperationsNext /\ UNCHANGED vars

TodoSpec == TodoInit /\ [][TodoNext]_<<about, vars, operationVars>> /\ Fairness

\* Bound: when something is deleted and a request is lost, users change two things.
FewLostRemovals ==
  lost > 0 /\ (\E o \in DOMAIN made : made[o].kind \in {"delete", "restore"}) => Len(made) <= 2

\* The devices are alike: the phone makes the first change.
PhoneFirst == made # <<>> => made[1].by = phone
===============================================================================
