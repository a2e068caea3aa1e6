------------------------ MODULE MCReminderDispatch ------------------------
EXTENDS ReminderDispatch

CONSTANTS c1, c2, w1, w2

\* A reminder for one moment, and one that repeats until a day.
Once  == [start |-> 2, period |-> 0, until |-> 0]
Until == [start |-> 2, period |-> 2, until |-> 4]

OnceOrUntil == {Once, Until}

\* Bounds: the consents come in order, and a second one meets at most one command.
FewCommands ==
  c2 \in account.accepted => c1 \in account.accepted /\ commands <= 1
===========================================================================
