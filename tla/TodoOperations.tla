--------------------------- MODULE TodoOperations ---------------------------
(***************************************************************************)
(* The to-do list of one owner: a task with steps, which may repeat and     *)
(* then leaves its next occurrence behind when it is completed, and lists   *)
(* it moves between. Completing and deleting cascade to the steps and can   *)
(* be undone. Operations of one owner are serial; each names the version it *)
(* was made from, and one made from another version changes nothing.        *)
(***************************************************************************)
EXTENDS Integers

CONSTANTS
  Steps,     \* names of the steps a user adds, each to one occurrence
  MaxOcc,    \* bound: occurrences after the first
  MaxOps     \* bound: operations that are applied

\* What the constants must satisfy.
TodoAssumption == MaxOcc \in Nat /\ MaxOps \in Nat /\ "task" \notin Steps

VARIABLES
  task,      \* the rows of the tasks; <<k, "task">> is occurrence k, the rest its steps
  lists,     \* the lists: "live" or "deleted"
  time,      \* the time of the last operation
  touched,   \* history: rows an operation named or moved since they were generated
  shadow     \* history: what was visible before the last operation, if it can be undone

operationVars == <<task, lists, time, touched, shadow>>

Occs == 0..MaxOcc
Ids == Occs \X ({"task"} \cup Steps)
Task(k) == <<k, "task">>
StepsOf(k) == {k} \X Steps
Family(k) == {k} \X ({"task"} \cup Steps)
Lists == {"inbox", "work"}

\* version 0: the row does not exist; completed and deleted are the times or 0.
Row == [version : 0..(4 * MaxOps), gen : 0..(4 * MaxOps), list : Lists, repeat : BOOLEAN,
        updated : 0..MaxOps, completed : 0..MaxOps, deleted : 0..MaxOps]
NoRow == [version |-> 0, gen |-> 0, list |-> "inbox", repeat |-> FALSE,
          updated |-> 0, completed |-> 0, deleted |-> 0]

Stored(t, i) == t[i].version > 0
Alive(t, i) == Stored(t, i) /\ t[i].deleted = 0
Ongoing(t, i) == Alive(t, i) /\ t[i].completed = 0

OperationsTypeOK ==
  /\ task \in [Ids -> Row] /\ lists \in [Lists -> {"new", "live", "deleted"}]
  /\ time \in 0..MaxOps /\ touched \subseteq Ids
  /\ \A i \in Ids : /\ task[i].gen <= task[i].version
                    /\ task[i].completed <= task[i].updated /\ task[i].deleted <= task[i].updated

OperationsInit ==
  /\ task = [i \in Ids |-> NoRow]
  /\ lists = [l \in Lists |-> IF l = "inbox" THEN "live" ELSE "new"]
  /\ time = 0 /\ touched = {} /\ shadow = <<>>

-----------------------------------------------------------------------------
(* Writing rows at time n; each write is a new version. *)

Written(row, n) == [row EXCEPT !.version = @ + 1, !.updated = n]
\* Every row of S satisfying P is changed by F and written.
Cascade(t, S, n, F(_)) == [i \in Ids |-> IF i \in S THEN Written(F(t[i]), n) ELSE t[i]]
\* A change of a step is a new version of its task as well.
WithTask(t, i, n) == IF i[2] = "task" THEN t ELSE [t EXCEPT ![Task(i[1])] = Written(@, n)]

Visible(t) == [i \in Ids |-> IF Alive(t, i) THEN <<t[i].list, t[i].completed > 0, t[i].repeat>>
                                            ELSE <<>>]

Apply(t, named) ==
  /\ time < MaxOps /\ time' = time + 1
  /\ task' = t
  /\ touched' = touched \cup named

-----------------------------------------------------------------------------
(* task.save *)

\* A new task, a new step of some occurrence, or an edit of what is not deleted.
MayCreate(i) ==
  /\ ~Stored(task, i)
  /\ IF i[2] = "task" THEN i[1] = 0 ELSE \A k \in Occs : ~Stored(task, <<k, i[2]>>)

StepAllowed(i, l) == i[2] # "task" => /\ Ongoing(task, Task(i[1]))
                                      /\ task[Task(i[1])].list = l

Saved(t, i, l, r, n) ==
  LET moved == IF i[2] = "task" /\ Stored(t, i) /\ t[i].list # l
               THEN {s \in StepsOf(i[1]) : Stored(t, s)} ELSE {}
      Move(row) == [row EXCEPT !.list = l]
      u == Cascade(t, moved, n, Move)
  IN  WithTask([u EXCEPT ![i] = Written([@ EXCEPT !.list = l, !.repeat = r], n)], i, n)

Save(i, l, r) ==
  /\ MayCreate(i) \/ Alive(task, i)
  /\ lists[l] = "live" /\ (r => i[2] = "task") /\ StepAllowed(i, l)
  /\ Apply(Saved(task, i, l, r, time + 1), Family(i[1])) /\ shadow' = <<>>
  /\ UNCHANGED lists

-----------------------------------------------------------------------------
(* task.complete *)

\* The next occurrence and copies of the steps that are not deleted: new versions of rows
\* an undone completion may have left behind.
Generated(t, k, n) ==
  LET copied == {s \in StepsOf(k + 1) : Alive(t, <<k, s[2]>>)} IN
  [i \in Ids |->
     IF i = Task(k + 1) \/ i \in copied
     THEN [t[<<k, i[2]>>] EXCEPT !.version = t[i].version + 1, !.gen = t[i].version + 1,
                                 !.updated = n, !.completed = 0, !.deleted = 0]
     ELSE t[i]]

\* The steps that were open are completed with the task.
Finished(t, k, n) ==
  LET Finish(row) == [row EXCEPT !.completed = n]
      u == Cascade(t, {s \in StepsOf(k) : Ongoing(t, s)}, n, Finish)
  IN  [(IF t[Task(k)].repeat THEN Generated(u, k, n) ELSE u)
        EXCEPT ![Task(k)] = Written([@ EXCEPT !.completed = n], n)]

MayFinish(k) == task[Task(k)].repeat => k < MaxOcc /\ ~Alive(task, Task(k + 1))

CompleteTask(k) ==
  /\ Ongoing(task, Task(k)) /\ MayFinish(k)
  /\ time < MaxOps /\ time' = time + 1 /\ task' = Finished(task, k, time + 1)
  /\ touched' = (touched \cup Family(k)) \ (IF task[Task(k)].repeat THEN Family(k + 1) ELSE {})
  /\ shadow' = <<Task(k), Visible(task)>> /\ UNCHANGED lists

\* Mutant of MayUndo: only the state of the next occurrence is looked at, not its versions.
MayUndoOpen(k) == k < MaxOcc /\ Ongoing(task, Task(k + 1))

\* The next occurrence and its steps are as they were generated.
MayUndo(k) ==
  /\ k < MaxOcc /\ Ongoing(task, Task(k + 1)) /\ task[Task(k + 1)].gen = task[Task(k + 1)].version
  /\ \A s \in StepsOf(k + 1) : Stored(task, s) =>
       Ongoing(task, s) /\ task[s].gen > 0 /\ task[s].gen = task[s].version

\* The steps that were completed with the task, and not changed since, are reopened.
Reopened(t, k, n) ==
  LET Reopen(row) == [row EXCEPT !.completed = 0]
      Remove(row) == [row EXCEPT !.deleted = n]
      at == t[Task(k)].completed
      mine == {s \in StepsOf(k) : Alive(t, s) /\ t[s].completed = at /\ t[s].updated = at}
      u == IF t[Task(k)].repeat
           THEN Cascade(t, {i \in Family(k + 1) : Stored(t, i)}, n, Remove) ELSE t
  IN  Cascade(u, mine \cup {Task(k)}, n, Reopen)

ReopenTask(k) ==
  /\ Alive(task, Task(k)) /\ task[Task(k)].completed > 0
  /\ task[Task(k)].repeat => MayUndo(k)
  /\ Apply(Reopened(task, k, time + 1), Family(k)) /\ shadow' = <<>> /\ UNCHANGED lists

Toggled(t, s, n) ==
  WithTask([t EXCEPT ![s] = Written([t[s] EXCEPT !.completed = IF t[s].completed = 0 THEN n ELSE 0], n)],
           s, n)

ToggleStep(s) ==
  /\ s[2] # "task" /\ Alive(task, s)
  /\ Apply(Toggled(task, s, time + 1), Family(s[1]))
  /\ shadow' = <<>> /\ UNCHANGED lists

-----------------------------------------------------------------------------
(* task.delete and task.restore; a step has no steps. *)

Removed(t, i, n) ==
  LET Remove(row) == [row EXCEPT !.deleted = n]
      steps == IF i[2] = "task" THEN {s \in StepsOf(i[1]) : Alive(t, s)} ELSE {}
  IN  WithTask(Cascade(t, {i} \cup steps, n, Remove), i, n)

DeleteTask(i) ==
  /\ Alive(task, i)
  /\ Apply(Removed(task, i, time + 1), Family(i[1]))
  /\ shadow' = <<i, Visible(task)>> /\ UNCHANGED lists

\* The steps that were deleted with the task return with it.
Restored(t, i) ==
  {i} \cup {s \in StepsOf(i[1]) : i[2] = "task" /\ t[s].deleted = t[i].deleted}

MayRestore(i) ==
  Stored(task, i) /\ task[i].deleted > 0 /\ (i[2] # "task" => Alive(task, Task(i[1])))

Returned(t, i, n) ==
  LET Return(row) == [row EXCEPT !.deleted = 0]
  IN  WithTask(Cascade(t, Restored(t, i), n, Return), i, n)

Restore(i) ==
  /\ MayRestore(i)
  /\ Apply(Returned(task, i, time + 1), Family(i[1]))
  /\ shadow' = <<>> /\ UNCHANGED lists

-----------------------------------------------------------------------------
(* list.save and list.delete *)

CreateList(l) ==
  /\ lists[l] = "new" /\ lists' = [lists EXCEPT ![l] = "live"]
  /\ UNCHANGED <<task, time, touched, shadow>>

Emptied(l) == {i \in Ids : Stored(task, i) /\ task[i].list = l}

DeleteList(l) ==
  /\ l # "inbox" /\ lists[l] = "live" /\ lists' = [lists EXCEPT ![l] = "deleted"]
  /\ LET ToInbox(row) == [row EXCEPT !.list = "inbox"]
     IN  Apply(Cascade(task, Emptied(l), time + 1, ToInbox), Emptied(l))
  /\ shadow' = <<>>

OperationsNext ==
  \/ \E i \in Ids, l \in Lists, r \in BOOLEAN : Save(i, l, r)
  \/ \E k \in Occs : CompleteTask(k) \/ ReopenTask(k)
  \/ \E i \in Ids : ToggleStep(i) \/ DeleteTask(i) \/ Restore(i)
  \/ \E l \in Lists : CreateList(l) \/ DeleteList(l)

OperationsSpec == OperationsInit /\ [][OperationsNext]_operationVars

-----------------------------------------------------------------------------
\* A step is not left behind by the task it belongs to.
StepsFollowTask == \A i \in Ids : Alive(task, i) => Alive(task, Task(i[1]))

\* No task, deleted ones included, is in a list that was deleted.
ListsAreLive == \A i \in Ids : Stored(task, i) => lists[task[i].list] = "live"

\* A row never changes without a new version: a client with the old one is told.
ChangeIsVersioned ==
  [][\A i \in Ids : task'[i] # task[i] => task'[i].version > task[i].version]_operationVars

\* Reopening a task deletes its next occurrence only while no operation has touched it.
UndoKeepsChanges ==
  [][\A k \in Occs : \A i \in Family(k) :
       /\ task[Task(k)].completed = 0 /\ Alive(task, i) /\ ~Alive(task', i)
       /\ k > 0 /\ task[Task(k - 1)].completed > 0 /\ task'[Task(k - 1)].completed = 0
       => i \notin touched]_operationVars

\* An operation that is undone at once has changed nothing that is visible.
UndoIsExact ==
  [][shadow # <<>> /\ (Restore(shadow[1]) \/ \E k \in Occs : shadow[1] = Task(k) /\ ReopenTask(k))
       => Visible(task') = shadow[2]]_operationVars

\* An operation changes what it names and no more, and can be undone.
OperationsAreSafe ==
  /\ [](OperationsTypeOK /\ StepsFollowTask /\ ListsAreLive)
  /\ ChangeIsVersioned /\ UndoKeepsChanges /\ UndoIsExact

-----------------------------------------------------------------------------
(* What the safety of the operations rests on. *)

\* Times and versions are not ahead of the operations, and the inbox is never deleted.
RowsSound ==
  /\ lists["inbox"] = "live"
  /\ \A i \in Ids : /\ task[i].version <= time /\ task[i].updated <= time
                    /\ task[i].version = 0 => task[i].updated = 0

Untouched(i) == task[i].gen = task[i].version

\* What was touched since it was generated shows it, or its task does.
TouchedSound ==
  \A i \in touched : Stored(task, i) => ~Untouched(i) \/ ~Untouched(Task(i[1]))

\* The last operation, if it can be undone, would leave what was visible before it.
UndoReady ==
  shadow # <<>> =>
    /\ shadow[1] \in Ids
    /\ task[shadow[1]].deleted > 0 => Visible(Returned(task, shadow[1], time + 1)) = shadow[2]
    /\ \A k \in Occs : shadow[1] = Task(k) /\ Alive(task, Task(k)) =>
         Visible(Reopened(task, k, time + 1)) = shadow[2]

OperationsInvariant ==
  /\ OperationsTypeOK /\ StepsFollowTask /\ ListsAreLive
  /\ RowsSound /\ TouchedSound /\ UndoReady

-----------------------------------------------------------------------------
(* What the code does not keep: TLC finds a behaviour that violates each.   *)

\* A step is in the list of its task.
StepsShareList ==
  \A i \in Ids : Alive(task, i) => task[i].list = task[Task(i[1])].list

\* The completion of a task can be undone while its next occurrence is untouched.
UntouchedCanBeUndone ==
  \A k \in 0..(MaxOcc - 1) :
    /\ Alive(task, Task(k)) /\ task[Task(k)].completed > 0 /\ task[Task(k)].repeat
    /\ Alive(task, Task(k + 1)) /\ Family(k + 1) \cap touched = {}
    => MayUndo(k)
=============================================================================
