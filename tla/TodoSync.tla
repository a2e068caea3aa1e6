------------------------------ MODULE TodoSync ------------------------------
(***************************************************************************)
(* How the mini app's devices of one owner share a task and its steps: each *)
(* change is queued on the device with the version it was made from, shown  *)
(* at once by applying the queue to the last snapshot, and sent one by one; *)
(* answers may be lost, and requests that were given up may still arrive.   *)
(* What the server does with an operation is that of TodoOperations.        *)
(***************************************************************************)
EXTENDS Integers, Sequences, FiniteSets

CONSTANTS
  Devices,
  StepNames,  \* the steps of the task
  MaxMade,    \* bound: operations made
  MaxLost     \* bound: answers or requests lost, restarts included

ASSUME SyncAssumption == MaxMade \in Nat /\ MaxLost \in Nat

VARIABLES
  rows,      \* the server's rows, each with the operation its text comes from
  receipts,  \* the server's receipt of each operation
  made,      \* history: the operations, in the order they were made
  device,    \* per device: snapshot, queue of pending operations, editor, undo offered
  net,       \* per device: the request under way
  late,      \* requests given up that the server may still meet
  lost       \* bound counter

vars == <<rows, receipts, made, device, net, late, lost>>

Clock == Cardinality({o \in DOMAIN receipts : receipts[o] # "none"})
Inbox == [l \in {"inbox", "work"} |-> IF l = "inbox" THEN "live" ELSE "new"]

S == INSTANCE TodoOperations WITH
       Steps <- StepNames, MaxOcc <- 0, MaxOps <- MaxMade,
       task <- rows, lists <- Inbox, time <- Clock, touched <- {}, shadow <- <<>>

RowIds == S!Ids
TheTask == S!Task(0)
OpIds == 1..MaxMade
Kinds == {"save", "complete", "reopen", "delete", "restore"}
NoEditor == [version |-> 0, saw |-> 0]
Idle == [state |-> "idle", op |-> 0]

TypeOK ==
  /\ \A i \in RowIds : rows[i].version \in Nat /\ rows[i].text \in 0..MaxMade
  /\ receipts \in [OpIds -> {"none", "applied", "conflict", "invalid"}]
  /\ \A o \in DOMAIN made : made[o].kind \in Kinds /\ made[o].row \in RowIds
  /\ \A d \in Devices : /\ device[d].queue \in Seq([op : DOMAIN made, problem : BOOLEAN])
                        /\ net[d] \in [state : {"sent", "done"}, op : DOMAIN made] \cup {Idle}
  /\ late \subseteq DOMAIN made /\ lost \in 0..MaxLost

First == [version |-> 1, gen |-> 0, list |-> "inbox", repeat |-> FALSE,
          updated |-> 0, completed |-> 0, deleted |-> 0, text |-> 0]

\* Every device has just loaded the task with its steps.
Init ==
  /\ rows = [i \in RowIds |-> First]
  /\ receipts = [o \in OpIds |-> "none"] /\ made = <<>>
  /\ device = [d \in Devices |->
       [snapshot |-> rows, queue |-> <<>>, editor |-> NoEditor, undo |-> <<>>]]
  /\ net = [d \in Devices |-> Idle]
  /\ late = {} /\ lost = 0

-----------------------------------------------------------------------------
(* What a device shows: its snapshot with the pending operations applied. *)

\* Local times are marks of the operation; no server time is one.
Stamp(o) == MaxMade + o
Write(row, o) == [row EXCEPT !.version = @ + 1, !.updated = Stamp(o)]

\* The steps the operation o changes with the task, and how.
Cascades(v, i, o) ==
  LET op == made[o]
      New(s) ==
        CASE op.kind = "complete" /\ v[s].deleted = 0 /\ v[s].completed = 0 ->
               Write([v[s] EXCEPT !.completed = Stamp(o)], o)
          [] op.kind = "reopen" /\ v[s].deleted = 0 /\ v[s].completed = v[i].completed
                                /\ v[s].updated = v[i].completed ->
               Write([v[s] EXCEPT !.completed = 0], o)
          [] op.kind = "delete" /\ v[s].deleted = 0 -> Write([v[s] EXCEPT !.deleted = Stamp(o)], o)
          [] op.kind = "restore" /\ v[s].deleted = v[i].deleted ->
               Write([v[s] EXCEPT !.deleted = 0], o)
          [] OTHER -> v[s]
  IN  [s \in RowIds |-> IF i = TheTask /\ s # i THEN New(s) ELSE v[s]]

Same(row, kind) ==
  \/ kind \in {"complete", "reopen"} /\ (row.completed > 0) = (kind = "complete")
  \/ kind \in {"delete", "restore"} /\ (row.deleted > 0) = (kind = "delete")

\* One operation on the view v.
Shown(v, o) ==
  LET op == made[o]
      i == op.row
      row == [v[i] EXCEPT !.version = op.base + 1, !.updated = Stamp(o),
                !.text = IF op.kind = "save" THEN o ELSE @,
                !.completed = IF op.kind = "complete" THEN Stamp(o)
                              ELSE IF op.kind = "reopen" THEN 0 ELSE @,
                !.deleted = IF op.kind = "delete" THEN Stamp(o)
                            ELSE IF op.kind = "restore" THEN 0 ELSE @]
      w == [Cascades(v, i, o) EXCEPT ![i] = row]
  IN  IF Same(v[i], op.kind) THEN v
      ELSE IF i = TheTask THEN w ELSE [w EXCEPT ![TheTask] = Write(@, o)]

View(d) ==
  LET q == device[d].queue
      show[n \in 0..Len(q)] ==
        IF n = 0 THEN device[d].snapshot ELSE Shown(show[n - 1], q[n].op)
  IN  show[Len(q)]

-----------------------------------------------------------------------------
(* Working on a device. *)

Queue(d, kind, i, base, saw, editor, undo) ==
  /\ Len(made) < MaxMade
  /\ made' = Append(made, [by |-> d, kind |-> kind, row |-> i, base |-> base, saw |-> saw])
  /\ device' = [device EXCEPT
       ![d].queue = Append(@, [op |-> Len(made) + 1, problem |-> FALSE]),
       ![d].editor = editor, ![d].undo = undo]
  /\ UNCHANGED <<rows, receipts, net, late, lost>>

\* Opening the editor keeps the version and the text of the task.
Edit(d) ==
  /\ device[d].editor = NoEditor /\ S!Alive(View(d), TheTask)
  /\ device' = [device EXCEPT
       ![d].editor = [version |-> View(d)[TheTask].version, saw |-> View(d)[TheTask].text]]
  /\ UNCHANGED <<rows, receipts, made, net, late, lost>>

Close(d) ==
  /\ device[d].editor # NoEditor /\ device' = [device EXCEPT ![d].editor = NoEditor]
  /\ UNCHANGED <<rows, receipts, made, net, late, lost>>

SaveEdit(d) ==
  /\ device[d].editor # NoEditor
  /\ Queue(d, "save", TheTask, device[d].editor.version, device[d].editor.saw,
           NoEditor, device[d].undo)

\* While the editor is open, its steps only are at hand, and a change of one counts.
AtHand(d, i) == device[d].editor # NoEditor => i # TheTask
Counted(d) ==
  IF device[d].editor = NoEditor THEN NoEditor ELSE [device[d].editor EXCEPT !.version = @ + 1]

Toggle(d, i) ==
  LET row == View(d)[i] IN
  /\ S!Alive(View(d), i) /\ AtHand(d, i)
  /\ Queue(d, IF row.completed = 0 THEN "complete" ELSE "reopen", i, row.version, row.text,
           Counted(d), IF row.completed = 0 THEN <<i, "reopen">> ELSE device[d].undo)

Remove(d, i) ==
  LET row == View(d)[i] IN
  /\ S!Alive(View(d), i) /\ AtHand(d, i)
  /\ Queue(d, "delete", i, row.version, row.text, Counted(d), <<i, "restore">>)

\* The undo offered after completing or deleting.
Undo(d) ==
  /\ device[d].undo # <<>> /\ device[d].editor = NoEditor
  /\ LET i == device[d].undo[1] IN
     Queue(d, device[d].undo[2], i, View(d)[i].version, View(d)[i].text, NoEditor, <<>>)

-----------------------------------------------------------------------------
(* The server. *)

Status(op) ==
  IF rows[op.row].version # op.base THEN "conflict"
  ELSE IF CASE op.kind = "save" -> rows[op.row].deleted > 0
            [] op.kind \in {"complete", "reopen"} -> rows[op.row].deleted > 0
            [] op.kind = "restore" -> op.row # TheTask /\ ~S!Alive(rows, TheTask)
            [] OTHER -> FALSE
       THEN "invalid" ELSE "applied"

Effect(o, n) ==
  LET op == made[o]
      i == op.row
  IN  CASE op.kind = "save" -> [S!Saved(rows, i, "inbox", FALSE, n) EXCEPT ![i].text = o]
        [] Same(rows[i], op.kind) -> rows
        [] op.kind \in {"complete", "reopen"} /\ i # TheTask -> S!Toggled(rows, i, n)
        [] op.kind = "complete" -> S!Finished(rows, 0, n)
        [] op.kind = "reopen" -> S!Reopened(rows, 0, n)
        [] op.kind = "delete" -> S!Removed(rows, i, n)
        [] op.kind = "restore" -> S!Returned(rows, i, n)

\* An operation and its receipt are one transaction; one with a receipt changes nothing.
Meet(o) ==
  IF receipts[o] = "none"
  THEN /\ receipts' = [receipts EXCEPT ![o] = Status(made[o])]
       /\ rows' = IF Status(made[o]) = "applied" THEN Effect(o, Clock + 1) ELSE rows
  ELSE UNCHANGED <<receipts, rows>>

-----------------------------------------------------------------------------
(* Synchronising: one request at a time, the queue's first operation, no problem before it. *)

Send(d) ==
  /\ net[d] = Idle /\ device[d].queue # <<>> /\ ~device[d].queue[1].problem
  /\ net' = [net EXCEPT ![d] = [state |-> "sent", op |-> device[d].queue[1].op]]
  /\ UNCHANGED <<rows, receipts, made, device, late, lost>>

Arrive(d) ==
  /\ net[d].state = "sent" /\ Meet(net[d].op)
  /\ net' = [net EXCEPT ![d].state = "done"]
  /\ UNCHANGED <<made, device, late, lost>>

ArriveLate(o) ==
  /\ o \in late /\ Meet(o) /\ late' = late \ {o}
  /\ UNCHANGED <<made, device, net, lost>>

\* What was applied, now or before, leaves the queue.
Settled(q, o, status) ==
  IF status = "applied" THEN SelectSeq(q, LAMBDA item : item.op # o)
  ELSE [n \in DOMAIN q |-> IF q[n].op = o THEN [q[n] EXCEPT !.problem = TRUE] ELSE q[n]]

Accept(d) ==
  /\ net[d].state = "done" /\ net' = [net EXCEPT ![d] = Idle]
  /\ device' = [device EXCEPT ![d].snapshot = rows,
                  ![d].queue = Settled(@, net[d].op, receipts[net[d].op])]
  /\ UNCHANGED <<rows, receipts, made, late, lost>>

\* The request or its answer is lost, or the app stops.
Lose(d) ==
  /\ net[d] # Idle /\ lost < MaxLost /\ lost' = lost + 1
  /\ late' = IF net[d].state = "sent" THEN late \cup {net[d].op} ELSE late
  /\ net' = [net EXCEPT ![d] = Idle]
  /\ UNCHANGED <<rows, receipts, made, device>>

\* Mutant of Refresh: the snapshot is only loaded while something is pending.
RefreshPending(d) ==
  /\ net[d] = Idle /\ device[d].queue # <<>> /\ device[d].snapshot # rows
  /\ device' = [device EXCEPT ![d].snapshot = rows]
  /\ UNCHANGED <<rows, receipts, made, net, late, lost>>

Refresh(d) ==
  /\ net[d] = Idle /\ device[d].queue = <<>> /\ device[d].snapshot # rows
  /\ device' = [device EXCEPT ![d].snapshot = rows]
  /\ UNCHANGED <<rows, receipts, made, net, late, lost>>

\* Mutant of UseCloud: what is pending can be dropped while it is sent.
UseCloudAny(d) ==
  /\ device[d].editor = NoEditor /\ device[d].queue # <<>>
  /\ LET i == made[device[d].queue[1].op].row IN
     device' = [device EXCEPT
       ![d].queue = SelectSeq(@, LAMBDA item : made[item.op].row # i)]
  /\ UNCHANGED <<rows, receipts, made, net, late, lost>>

\* With the editor closed, the user settles a refused operation with the cloud's content:
\* what is pending for the same row is dropped.
UseCloud(d) ==
  /\ net[d] = Idle /\ device[d].editor = NoEditor
  /\ device[d].queue # <<>> /\ device[d].queue[1].problem
  /\ LET i == made[device[d].queue[1].op].row IN
     device' = [device EXCEPT
       ![d].queue = SelectSeq(@, LAMBDA item : made[item.op].row # i)]
  /\ UNCHANGED <<rows, receipts, made, net, late, lost>>

SyncStep(d) == Send(d) \/ Arrive(d) \/ Accept(d) \/ Refresh(d)

Next ==
  \/ \E d \in Devices : Edit(d) \/ Close(d) \/ SaveEdit(d) \/ Undo(d)
  \/ \E d \in Devices : Lose(d) \/ UseCloud(d) \/ SyncStep(d)
  \/ \E d \in Devices, i \in RowIds : Toggle(d, i) \/ Remove(d, i)
  \/ \E o \in OpIds : ArriveLate(o)

Spec == Init /\ [][Next]_vars

\* The app synchronises when it is shown and online; users close
\* the editor and, shown a conflict again and again, decide it.
Fairness ==
  /\ \A d \in Devices : WF_vars(SyncStep(d)) /\ WF_vars(Close(d)) /\ SF_vars(UseCloud(d))
  /\ \A o \in OpIds : WF_vars(ArriveLate(o))
FairSpec == Spec /\ Fairness

-----------------------------------------------------------------------------
Queued(o) == \E d \in Devices : \E n \in DOMAIN device[d].queue : device[d].queue[n].op = o

\* An operation shown as refused was not applied.
ProblemsAreReal ==
  \A d \in Devices : \A n \in DOMAIN device[d].queue :
    device[d].queue[n].problem => receipts[device[d].queue[n].op] \in {"conflict", "invalid"}

\* What left the queue of its device without being applied is never applied later.
DroppedStaysDropped ==
  [][\A o \in DOMAIN made : ~Queued(o) /\ receipts[o] # "applied" => receipts'[o] # "applied"]_vars

\* As long as one device only makes changes, what it shows and counts is what the server
\* does: nothing is refused.
OwnOperationsApply ==
  (\A o, p \in DOMAIN made : made[o].by = made[p].by) =>
    \A o \in OpIds : receipts[o] \in {"none", "applied"}

SyncIsSafe == [](TypeOK /\ ProblemsAreReal /\ OwnOperationsApply) /\ DroppedStaysDropped

\* The queues drain and all devices show what the server has.
DevicesAgree == <>[](\A d \in Devices : device[d].queue = <<>> /\ device[d].snapshot = rows)

-----------------------------------------------------------------------------
(* What the code does not keep: TLC finds a behaviour that violates it.     *)

\* A text is only replaced by one whose author saw it.
NoSilentOverwrite ==
  [][\A o \in DOMAIN made :
       made[o].kind = "save" /\ receipts[o] = "none" /\ receipts'[o] = "applied"
         => rows[made[o].row].text = made[o].saw]_vars
=============================================================================
