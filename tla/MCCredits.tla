----------------------------- MODULE MCCredits -----------------------------
(* A small instance of Credits: two users, two requests at a time, and an order and a
   code that buy balance, or an order or a code that buys a subscription.          *)
EXTENDS Credits, TLC
CONSTANTS topUp, plan, giftCard, trial

\* Only the rows that buy balance meet each other, at the account of their user.
OneKind ==
  \/ order[plan] = NoOrder /\ code[trial] = NoCode
  \/ order[topUp] = NoOrder /\ code = [c \in Codes |-> NoCode]
  \/ code[giftCard] = NoCode /\ order = [o \in Orders |-> NoOrder]
=============================================================================
