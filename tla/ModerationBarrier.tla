-------------------------- MODULE ModerationBarrier -------------------------
(***************************************************************************)
(* Content moderation of one run: workers report to the run's coordinator, *)
(* the handler waits at a barrier after the generation, a hit withdraws    *)
(* the answer from the database, late hits and failed withdrawals are made *)
(* up for by workers and recovery loops, and the handler writes its own    *)
(* final state of the run.                                                 *)
(***************************************************************************)
EXTENDS Integers, FiniteSets

CONSTANTS
  InputTasks,    \* checks of what the user sent (text, images)
  OutputTasks,   \* checks of what the model answered
  MayCrash,      \* the process of the handler may stop
  MaxFaults      \* bound: writes to the database that fail

ASSUME ModerationAssumption ==
  /\ InputTasks \cap OutputTasks = {}
  /\ MayCrash \in BOOLEAN
  /\ MaxFaults \in Nat
  /\ IsFiniteSet(InputTasks \cup OutputTasks)

VARIABLES
  pc,            \* where the handler is
  barrier,       \* the RunCoordinator
  task,          \* where each check is
  outcome,       \* what the barrier told the handler
  canceled,      \* moderation canceled the generation
  ending,        \* how the generation ended
  run, user, answer,  \* the rows of the run and of its two messages
  lastHit,       \* direction of the last hit event in the database
  pendingBlock,  \* the service's block that could not be written yet
  loop,          \* where the recovery loop is: <<step, direction>>
  peer,          \* where the recovery loop of another process is, if there is one
  faults

barrierVars == <<pc, barrier, task, outcome, canceled, ending, run, user, answer, lastHit,
          pendingBlock, loop, peer, faults>>
rows == <<run, user, answer>>
recovery == <<pendingBlock, loop, peer>>

Tasks == InputTasks \cup OutputTasks
Directions == {"input", "output"}
Dir(t) == IF t \in InputTasks THEN "input" ELSE "output"

BarrierTypeOK ==
  /\ pc \in {"starting", "generating", "marking", "enqueuing", "waiting", "settling", "blocking",
             "applied", "passing", "finalizing", "upserting", "ended", "crashed"}
  /\ barrier \in [pending : 0..Cardinality(Tasks), block : Directions \cup {"none"},
                  failedOpen : BOOLEAN, settled : BOOLEAN, handled : BOOLEAN,
                  outputEnqueued : BOOLEAN, allClosed : BOOLEAN, finished : BOOLEAN]
  /\ barrier.allClosed => barrier.outputEnqueued
  /\ task \in [Tasks -> {"none", "queued", "found", "reported", "late", "applied",
                     "unmarked", "clear", "lost"}]
  /\ outcome \in {"undecided", "passed", "failed_open"} \cup Directions
  /\ canceled \in BOOLEAN /\ ending \in {"running", "success", "kept", "failed"}
  /\ run \in [state : {"pending", "moderating", "passed", "failed_open", "blocked"},
              status : {"running", "success", "error", "blocked"}]
  /\ user \in {"pending", "success", "error", "blocked"}
  /\ answer \in [status : {"pending", "success", "error", "blocked"}, content : BOOLEAN]
  /\ lastHit \in Directions \cup {"none"} /\ pendingBlock \in Directions \cup {"none"}
  /\ loop \in {"idle", "write", "remove", "list", "listed"} \X (Directions \cup {"none"})
  /\ peer \in {"absent", "idle", "listed"} \cup Directions /\ faults \in 0..MaxFaults

BarrierInit ==
  /\ pc = "starting"
  /\ barrier = [pending |-> 0, block |-> "none", failedOpen |-> FALSE, settled |-> FALSE,
                handled |-> FALSE, outputEnqueued |-> FALSE, allClosed |-> FALSE,
                finished |-> FALSE]
  /\ task = [t \in Tasks |-> "none"]
  /\ outcome = "undecided" /\ canceled = FALSE /\ ending = "running"
  /\ run = [state |-> "pending", status |-> "running"]
  /\ user = "pending" /\ answer = [status |-> "pending", content |-> FALSE]
  /\ lastHit = "none" /\ pendingBlock = "none" /\ loop = <<"idle", "none">>
  /\ peer \in {"absent", "idle"}
  /\ faults = 0

-----------------------------------------------------------------------------
(* The database.  A write is the change, or a failure while faults remain. *)

Works == UNCHANGED faults
Fails == faults < MaxFaults /\ faults' = faults + 1
Attempt(change) == (change /\ Works) \/ (UNCHANGED rows /\ Fails)

\* Mutant of ApplyRunBlock: the text of the answer stays.
ApplyRunBlockKeepsText(direction) ==
  /\ run' = [state |-> "blocked", status |-> "blocked"]
  /\ answer' = [answer EXCEPT !.status = "blocked"]
  /\ user' = IF direction = "input" THEN "blocked" ELSE user

ApplyRunBlock(direction) ==
  /\ run' = [state |-> "blocked", status |-> "blocked"]
  /\ answer' = [status |-> "blocked", content |-> FALSE]
  /\ user' = IF direction = "input" THEN "blocked" ELSE user

UpdateRunModeration(state) ==
  /\ run' = [run EXCEPT !.state = state]
  /\ UNCHANGED <<user, answer>>

-----------------------------------------------------------------------------
(* The coordinator. *)

\* preferBlockDirection, or no block yet.
Prefers(direction, current) ==
  current = "none" \/ (direction = "input" /\ current # "input")

AllClosed(b) == [b EXCEPT !.allClosed = @ \/ (b.pending = 0 /\ b.outputEnqueued)]

\* onTaskResult, under the coordinator's lock.
WithResult(b, result, direction) ==
  LET counted == [b EXCEPT !.pending = @ - 1]
      wins == result = "hit" /\ (Prefers(direction, b.block) \/ (b.settled /\ ~b.handled))
  IN  AllClosed(CASE wins -> [counted EXCEPT !.block = direction, !.handled = b.settled]
               [] ~wins /\ ~b.settled -> [counted EXCEPT !.failedOpen = @ \/ result = "error"]
               [] OTHER -> counted)

\* startTask; a full queue reports an error at once.
StartTask(t) ==
  /\ task[t] = "none" /\ ~barrier.finished
  /\ \/ task' = [task EXCEPT ![t] = "queued"] /\ barrier' = [barrier EXCEPT !.pending = @ + 1]
     \/ /\ task' = [task EXCEPT ![t] = "clear"]
        /\ barrier' = WithResult([barrier EXCEPT !.pending = @ + 1], "error", Dir(t))
  /\ UNCHANGED <<outcome, canceled, ending, rows, lastHit, recovery, faults>>

-----------------------------------------------------------------------------
(* A worker. *)

\* The check passes, or the provider fails.
Finish(t, result) ==
  /\ task[t] = "queued" /\ task' = [task EXCEPT ![t] = "clear"]
  /\ barrier' = WithResult(barrier, result, Dir(t))
  /\ UNCHANGED <<pc, outcome, canceled, ending, rows, lastHit, recovery, faults>>

\* A hit is recorded ...
Find(t) ==
  /\ task[t] = "queued" /\ task' = [task EXCEPT ![t] = "found"]
  /\ \/ lastHit' = Dir(t) /\ Works
     \/ UNCHANGED lastHit /\ Fails
  /\ UNCHANGED <<pc, barrier, outcome, canceled, ending, rows, recovery>>

\* ... and reported: before the settlement to the barrier, and an input hit cancels
\* the generation; afterwards the worker has to withdraw what the barrier did not.
Report(t) ==
  LET after == WithResult(barrier, "hit", Dir(t))
      ours == barrier.settled /\ (~barrier.handled \/ Prefers(Dir(t), barrier.block))
  IN
  /\ task[t] = "found"
  /\ barrier' = after
  /\ task' = [task EXCEPT ![t] = IF ours THEN "late" ELSE "reported"]
  /\ canceled' = (canceled \/ (~barrier.settled /\ Dir(t) = "input"))
  /\ UNCHANGED <<pc, outcome, ending, rows, lastHit, recovery, faults>>

\* handleLateBlock.
LateApply(t) ==
  /\ task[t] = "late"
  /\ \/ /\ ApplyRunBlock(Dir(t)) /\ Works /\ UNCHANGED pendingBlock
        /\ task' = [task EXCEPT ![t] = "applied"]
     \/ /\ UNCHANGED rows /\ Fails /\ pendingBlock' = Dir(t)
        /\ task' = [task EXCEPT ![t] = "unmarked"]
  /\ UNCHANGED <<pc, barrier, outcome, canceled, ending, lastHit, loop, peer>>

LateMark(t) ==
  /\ task[t] = "unmarked" /\ task' = [task EXCEPT ![t] = "reported"]
  /\ Attempt(UpdateRunModeration("moderating"))
  /\ UNCHANGED <<pc, barrier, outcome, canceled, ending, lastHit, recovery>>

LateRemove(t) ==
  /\ task[t] = "applied" /\ task' = [task EXCEPT ![t] = "reported"]
  /\ pendingBlock' = "none"
  /\ UNCHANGED <<pc, barrier, outcome, canceled, ending, rows, lastHit, loop, peer, faults>>

-----------------------------------------------------------------------------
(* The handler. *)

Goto(stage) == pc' = stage

EnqueueInput(t) == pc = "starting" /\ t \in InputTasks /\ StartTask(t) /\ UNCHANGED pc

Generate ==
  /\ pc = "starting" /\ Goto("generating")
  /\ UNCHANGED <<barrier, task, outcome, canceled, ending, rows, lastHit, recovery, faults>>

\* The generation succeeds, or is cut off and what was said is kept; both go through
\* AfterGeneration.
EndGeneration(how) ==
  /\ pc = "generating" /\ Goto("marking") /\ ending' = how
  /\ answer' = [status |-> IF how = "success" THEN "success" ELSE "error", content |-> TRUE]
  /\ UNCHANGED <<barrier, task, outcome, canceled, run, user, lastHit, recovery, faults>>

\* It ends without an answer and goes through WaitInputOnly.
FailGeneration ==
  /\ pc = "generating" /\ Goto("waiting") /\ ending' = "failed"
  /\ barrier' = AllClosed([barrier EXCEPT !.outputEnqueued = TRUE])
  /\ UNCHANGED <<task, outcome, canceled, rows, lastHit, recovery, faults>>

\* A canceled context ends it.
StopGeneration == canceled /\ (EndGeneration("kept") \/ FailGeneration)

MarkModerating ==
  /\ pc = "marking" /\ Goto("enqueuing")
  /\ Attempt(UpdateRunModeration("moderating"))
  /\ UNCHANGED <<barrier, task, outcome, canceled, ending, lastHit, recovery>>

EnqueueOutput(t) == pc = "enqueuing" /\ t \in OutputTasks /\ StartTask(t) /\ UNCHANGED pc

MarkOutputsEnqueued ==
  /\ pc = "enqueuing" /\ Goto("waiting")
  /\ barrier' = AllClosed([barrier EXCEPT !.outputEnqueued = TRUE])
  /\ UNCHANGED <<task, outcome, canceled, ending, rows, lastHit, recovery, faults>>

\* waitAll ends when all checks did, or at its deadline.
WaitAll ==
  /\ pc = "waiting" /\ Goto("settling")
  /\ \/ barrier.allClosed /\ UNCHANGED barrier
     \/ barrier' = [barrier EXCEPT !.failedOpen = @ \/ barrier.block = "none"]
  /\ UNCHANGED <<task, outcome, canceled, ending, rows, lastHit, recovery, faults>>

Settle ==
  /\ pc = "settling"
  /\ barrier' = [barrier EXCEPT !.settled = TRUE, !.handled = barrier.block # "none"]
  /\ IF barrier.block # "none"
     THEN Goto("blocking") /\ outcome' = barrier.block
     ELSE Goto("passing") /\ outcome' = IF barrier.failedOpen THEN "failed_open" ELSE "passed"
  /\ UNCHANGED <<task, canceled, ending, rows, lastHit, recovery, faults>>

\* applyBlock, and what is left for later when it fails.
ApplyBlock ==
  /\ pc = "blocking"
  /\ \/ ApplyRunBlock(outcome) /\ Works /\ Goto("applied") /\ UNCHANGED <<pendingBlock, barrier>>
     \/ /\ Fails /\ pendingBlock' = outcome /\ UNCHANGED rows /\ Goto("finalizing")
        /\ barrier' = [barrier EXCEPT !.finished = TRUE]
  /\ UNCHANGED <<task, outcome, canceled, ending, lastHit, loop, peer>>

RemovePendingBlock ==
  /\ pc = "applied" /\ Goto("finalizing") /\ pendingBlock' = "none"
  /\ barrier' = [barrier EXCEPT !.finished = TRUE]
  /\ UNCHANGED <<task, outcome, canceled, ending, rows, lastHit, loop, peer, faults>>

Pass ==
  /\ pc = "passing" /\ Goto("finalizing")
  /\ Attempt(UpdateRunModeration(outcome))
  /\ barrier' = [barrier EXCEPT !.finished = TRUE]
  /\ UNCHANGED <<task, outcome, canceled, ending, lastHit, recovery>>

\* What the handler knows of the two messages; a cancellation is not the user's error.
WriteMessages ==
  /\ user' \in {"success"} \cup IF ending = "failed" THEN {"error"} ELSE {}
  /\ answer' = IF ending = "success" THEN answer ELSE [answer EXCEPT !.status = "error"]
  /\ UNCHANGED run

\* Mutant of FinalizeMessages: the messages of a blocked run are written too.
FinalizeMessagesAlways ==
  /\ pc = "finalizing" /\ Goto("upserting") /\ WriteMessages
  /\ UNCHANGED <<barrier, task, outcome, canceled, ending, lastHit, recovery, faults>>

\* finalizeUserMessage and finalizeAssistantMessage leave a blocked run alone.
FinalizeMessages ==
  /\ pc = "finalizing" /\ Goto("upserting")
  /\ IF outcome \in Directions THEN UNCHANGED <<rows, faults>> ELSE Attempt(WriteMessages)
  /\ UNCHANGED <<barrier, task, outcome, canceled, ending, lastHit, recovery>>

\* UpsertConversationRun writes what the handler knows of the run.
Upsert ==
  /\ pc = "upserting" /\ Goto("ended")
  /\ Attempt(/\ run' = IF outcome \in Directions THEN [state |-> "blocked", status |-> "blocked"]
                        ELSE [state |-> outcome,
                              status |-> IF ending = "success" THEN "success" ELSE "error"]
             /\ UNCHANGED <<user, answer>>)
  /\ UNCHANGED <<barrier, task, outcome, canceled, ending, lastHit, recovery>>

Crash ==
  /\ MayCrash /\ pc # "crashed" /\ Goto("crashed")
  /\ task' = [t \in Tasks |-> IF task[t] = "none" THEN "none" ELSE "lost"]
  /\ pendingBlock' = "none" /\ loop' = <<"idle", "none">>
  /\ UNCHANGED <<barrier, outcome, canceled, ending, rows, lastHit, peer, faults>>

-----------------------------------------------------------------------------
(* The recovery loop of this process: recoverPendingBlocks, recoverStaleRuns. *)

At(step) == loop = <<step, "none">>

RetrySnapshot ==
  /\ At("idle") /\ pendingBlock # "none" /\ loop' = <<"write", pendingBlock>>
  /\ UNCHANGED <<pc, barrier, task, outcome, canceled, ending, rows, lastHit, pendingBlock, peer, faults>>

RetryWrite ==
  /\ loop[1] = "write"
  /\ \/ ApplyRunBlock(loop[2]) /\ Works /\ loop' = <<"remove", "none">>
     \/ UNCHANGED rows /\ Fails /\ loop' = <<"list", "none">>
  /\ UNCHANGED <<pc, barrier, task, outcome, canceled, ending, lastHit, pendingBlock, peer>>

RetryRemove ==
  /\ At("remove") /\ loop' = <<"list", "none">> /\ pendingBlock' = "none"
  /\ UNCHANGED <<pc, barrier, task, outcome, canceled, ending, rows, lastHit, peer, faults>>

\* Mutant of Undecided: runs that wait for a check are not looked at.
UndecidedPendingOnly == run.state = "pending"

\* ListStaleModeratingRuns.
Undecided == run.state \in {"pending", "moderating"}

\* Two minutes without a change: the handler is gone.  A pass without a block to write
\* comes here at once.
StaleList ==
  /\ At("list") \/ (At("idle") /\ pendingBlock = "none")
  /\ loop' = IF Undecided /\ pc \in {"ended", "crashed"} THEN <<"listed", "none">>
             ELSE <<"idle", "none">>
  /\ UNCHANGED <<pc, barrier, task, outcome, canceled, ending, rows, lastHit, pendingBlock, peer, faults>>

\* recoverKnownHit, or the run fails open.
StaleWrite ==
  /\ At("listed") /\ loop' = <<"idle", "none">>
  /\ IF lastHit # "none"
     THEN \/ ApplyRunBlock(lastHit) /\ Works /\ pendingBlock' = "none"
          \/ UNCHANGED rows /\ Fails /\ pendingBlock' = lastHit
     ELSE Attempt(UpdateRunModeration("failed_open")) /\ UNCHANGED pendingBlock
  /\ UNCHANGED <<pc, barrier, task, outcome, canceled, ending, lastHit, peer>>

(* The loop of another process, which has no coordinator of the run. *)

\* The run generates for more than two minutes.
PeerList ==
  /\ peer = "idle" /\ run.state = "pending" /\ peer' = "listed"
  /\ UNCHANGED <<pc, barrier, task, outcome, canceled, ending, rows, lastHit, pendingBlock, loop, faults>>

\* It keeps a block that it could not write.
PeerWrite ==
  LET block == IF peer = "listed" THEN lastHit ELSE peer IN
  /\ peer \notin {"absent", "idle"}
  /\ IF block # "none"
     THEN \/ ApplyRunBlock(block) /\ Works /\ peer' = "idle"
          \/ UNCHANGED rows /\ Fails /\ peer' = block
     ELSE Attempt(UpdateRunModeration("failed_open")) /\ peer' = "idle"
  /\ UNCHANGED <<pc, barrier, task, outcome, canceled, ending, lastHit, pendingBlock, loop>>

-----------------------------------------------------------------------------
HandlerStep ==
  \/ \E t \in Tasks : EnqueueInput(t) \/ EnqueueOutput(t)
  \/ Generate \/ MarkModerating \/ MarkOutputsEnqueued \/ WaitAll \/ Settle
  \/ ApplyBlock \/ RemovePendingBlock \/ Pass \/ FinalizeMessages \/ Upsert \/ StopGeneration

CheckEnds(t) == Find(t) \/ \E result \in {"clear", "error"} : Finish(t, result)
HitStep(t) == Report(t) \/ LateApply(t) \/ LateMark(t) \/ LateRemove(t)
WorkerStep(t) == CheckEnds(t) \/ HitStep(t)

LoopStep == RetrySnapshot \/ RetryWrite \/ RetryRemove \/ StaleList \/ StaleWrite
PeerStep == PeerList \/ PeerWrite

BarrierNext ==
  \/ HandlerStep \/ FailGeneration
  \/ \E how \in {"success", "kept"} : EndGeneration(how)
  \/ \E t \in Tasks : WorkerStep(t)
  \/ LoopStep \/ PeerStep \/ Crash

BarrierSpec == BarrierInit /\ [][BarrierNext]_barrierVars

\* Handlers, workers and the recovery loops go on; a generation need not end, nor a
\* check that waits in the queue or for its provider.
FairBarrierSpec ==
  /\ BarrierSpec /\ WF_barrierVars(HandlerStep) /\ WF_barrierVars(LoopStep) /\ WF_barrierVars(PeerWrite)
  /\ \A t \in Tasks : WF_barrierVars(HitStep(t))

-----------------------------------------------------------------------------
HitTasks(stages) == {t \in Tasks : task[t] \in stages}
Hits == HitTasks({"reported", "late", "applied", "unmarked"})

\* Nothing of the answer can be read, the run is not passed, and the user's message is
\* blocked if the input was hit; recovery forgets that if the output was hit, too.
OutputHit == (Hits \cup HitTasks({"found"})) \cap OutputTasks # {}
Withdrawn(direction) ==
  /\ ~answer.content /\ answer.status = "blocked" /\ run.state \notin {"pending", "passed"}
  /\ direction = "input" /\ ~OutputHit => user = "blocked"

\* A hit that was reported is taken care of, by the barrier or by its worker, however
\* it races the settlement; and the block stands for the user's input if that was hit.
HitIsNeverForgotten ==
  /\ Hits # {} => (barrier.block # "none" /\ (barrier.settled => barrier.handled))
  /\ Hits \cap InputTasks # {} => barrier.block = "input"

\* When the handler of a blocked run is done and no withdrawal is left to be made up
\* for, the run is withdrawn, whatever writes failed and whoever took it for stale.
BlockedIsWithdrawn ==
  pc = "ended" /\ outcome \in Directions /\ pendingBlock = "none" => Withdrawn(outcome)

\* The safety of the barrier.
BarrierSafety == BarrierTypeOK /\ HitIsNeverForgotten /\ BlockedIsWithdrawn

(* Why it holds. *)

\* The barrier counts the checks that have not reported.
CountSound == pc # "crashed" => barrier.pending = Cardinality(HitTasks({"queued", "found"}))

\* The barrier is settled once; checks, memory and recovery have something to make up
\* for only after that.
Unsettled == pc \in {"starting", "generating", "marking", "enqueuing", "waiting", "settling"}

PhasesSound ==
  /\ pc = "crashed" => \A t \in Tasks : task[t] \in {"none", "lost"}
  /\ pc # "crashed" => (barrier.settled <=> ~Unsettled)
  /\ pc # "crashed" => (outcome = "undecided" <=> Unsettled)
  /\ pc \in {"blocking", "applied"} => outcome \in Directions
  /\ pc = "passing" => outcome \notin Directions
  /\ loop[1] = "listed" => pc \in {"ended", "crashed"}
  /\ Unsettled => /\ pendingBlock = "none" /\ loop[1] \notin {"write", "remove"}
                  /\ \A t \in Tasks : task[t] \notin {"late", "applied", "unmarked"}

\* What the barrier decided to block is its block, and an input stays its block.
DecisionSound ==
  /\ barrier.settled => (barrier.handled <=> barrier.block # "none")
  /\ outcome \in Directions => barrier.settled /\ barrier.handled
  /\ outcome = "input" => barrier.block = "input"

RecordSound == pc # "crashed" /\ lastHit = "output" => OutputHit

\* A write in this direction withdraws what the barrier decided to block.
Covers(direction) == outcome = "input" /\ ~OutputHit => direction = "input"

\* Who clears the memory of a block has withdrawn the run before, and what is kept
\* there or about to be written is enough.
WithdrawalSound ==
  pc # "crashed" /\ outcome \in Directions =>
    /\ \A t \in Tasks : task[t] \in {"late", "applied"} => Dir(t) = "input"
    /\ pc = "applied" \/ loop[1] = "remove" \/ HitTasks({"applied"}) # {} => Withdrawn(outcome)
    /\ pendingBlock # "none" => Covers(pendingBlock)
    /\ loop[1] = "write" => Covers(loop[2])
    /\ pc \in {"finalizing", "upserting", "ended"} => Withdrawn(outcome) \/ pendingBlock # "none"

BarrierInvariant ==
  /\ BarrierTypeOK /\ CountSound /\ PhasesSound
  /\ HitIsNeverForgotten /\ DecisionSound /\ RecordSound /\ WithdrawalSound

\* The wait at the barrier ends.
BarrierEnds == pc = "waiting" ~> outcome # "undecided" \/ pc = "crashed"

\* A hit in the input stops the generation.
InputHitStopsGeneration == (canceled /\ pc = "generating") ~> pc # "generating"

\* No run stays undecided, even if its process stops.
RunsAreDecided == <>[](pc \in {"ended", "crashed"} => run.state \notin {"pending", "moderating"})

\* A run is decided in the end: the wait ends, a hit in the input ends the generation,
\* and no run stays undecided, even if its process stops.
BarrierProgress == BarrierEnds /\ InputHitStopsGeneration /\ RunsAreDecided

\* The writes of a known hit converge (BarrierResult): what the barrier decided to block
\* is withdrawn, whatever writes fail and whatever else is found, and it stays so.
KnownBlocksConverge ==
  \A d \in Directions : outcome = d ~> [](Withdrawn(d) \/ pc = "crashed")

-----------------------------------------------------------------------------
(* What the code does not keep: TLC finds a behaviour that violates each. *)

\* Every reported hit converges, also one that is found after the settlement.
LateBlocksConverge ==
  \A t \in Tasks : task[t] \in {"reported", "late"} /\ peer = "absent"
    ~> [](Withdrawn(Dir(t)) \/ pc \in {"generating", "crashed"})

\* A hit of the input takes precedence, also in the recovery of what the barrier decided.
InputBlockIsKept ==
  outcome = "input" /\ pc = "ended" /\ pendingBlock = "none" => user = "blocked"

\* A run that was blocked by its handler does not count as decided by a failure.
BlockedStaysBlocked ==
  outcome \in Directions /\ peer = "absent" /\ pc = "ended" /\ pendingBlock = "none"
    => run.state # "failed_open"

\* A hit of the input takes precedence: the user's message is blocked in the end.
InputHitBlocksUser ==
  \A t \in InputTasks : task[t] = "reported" ~> (user = "blocked" \/ pc = "generating")

\* A run that is marked blocked loses its text in the end.
BlockedLosesText == run.state = "blocked" ~> ~answer.content
=============================================================================
