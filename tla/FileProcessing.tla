--------------------------- MODULE FileProcessing ---------------------------
(***************************************************************************)
(* Uploaded files are queued and processed by workers: the queue leases a   *)
(* message to a worker and gives it to another one when the lease is not    *)
(* renewed; a worker claims the row of the file under an attempt and writes *)
(* it only under that attempt; failures are retried through the queue.      *)
(***************************************************************************)
EXTENDS Integers, Sequences, FiniteSets

CONSTANTS
  Files, Workers, NoWorker,
  MaxRetries,    \* fileProcessingMaxRetries
  QueueLimit,    \* maxFileQueueLength, of the queue in memory
  MaxFaults,     \* bound: calls to the database or the queue that return an error
  MaxCrashes,    \* bound: processes that stop
  MaxLapses      \* bound: leases that lapse while their worker is at work

ASSUME FileProcessingAssumption ==
  /\ NoWorker \notin Workers
  /\ {MaxRetries, QueueLimit, MaxFaults, MaxCrashes, MaxLapses} \subseteq Nat

VARIABLES
  durable,   \* the queue is kept in Redis, not in the memory of one process
  file,      \* the rows: status and attempt; the worker stands for its attempt
  upload,    \* where the request that uploads the file is
  queue,     \* messages nobody has read
  inflight,  \* leases of messages that were read and not settled
  dlq,       \* dead-lettered messages
  worker,
  seq,       \* the last message id
  faults, crashes, lapses

vars == <<durable, file, upload, queue, inflight, dlq, worker, seq, faults, crashes, lapses>>
broker == <<queue, inflight, dlq, seq>>
bounds == <<faults, crashes, lapses>>

Message == [id : Nat, file : Files, retry : 0..MaxRetries, failed : BOOLEAN, reclaimed : BOOLEAN]
Idle == [pc |-> "idle", msg |-> <<>>, claimed |-> FALSE, err |-> "none"]

Processing == {"claiming", "extracting", "failing", "embedding", "writing"}
Finishing == {"verifying", "settling", "resetting", "requeuing", "finalizing", "forcing",
              "overriding", "burying", "lookup"}
Open == {"queued", "extracting", "embedding"}

TypeOK ==
  /\ durable \in BOOLEAN
  /\ file \in [Files -> [status : {"new", "ready", "failed"} \cup Open,
                         attempt : Workers \cup {NoWorker}]]
  /\ upload \in [Files -> {"new", "stored", "refused", "done", "dropped"}]
  /\ queue \in Seq(Message) /\ dlq \subseteq Message
  /\ inflight \subseteq [msg : Message, owner : Workers, lapsed : BOOLEAN]
  /\ worker \in [Workers -> {Idle} \cup
                    [pc : Processing \cup Finishing, msg : Message, claimed : BOOLEAN,
                     err : {"none", "lost", "error"}]]
  /\ seq \in Nat /\ faults \in 0..MaxFaults /\ crashes \in 0..MaxCrashes /\ lapses \in 0..MaxLapses

Init ==
  /\ durable \in BOOLEAN
  /\ file = [f \in Files |-> [status |-> "new", attempt |-> NoWorker]]
  /\ upload = [f \in Files |-> "new"]
  /\ queue = <<>> /\ inflight = {} /\ dlq = {} /\ seq = 0
  /\ worker = [w \in Workers |-> Idle]
  /\ faults = 0 /\ crashes = 0 /\ lapses = 0

\* A call returns an error; its effect may have taken place or not.
Fault == faults < MaxFaults /\ faults' = faults + 1 /\ UNCHANGED <<crashes, lapses>>
Works == UNCHANGED bounds

-----------------------------------------------------------------------------
(* The queue. *)

Enqueued(f, retry, failed) ==
  /\ seq' = seq + 1
  /\ queue' = Append(queue, [id |-> seq + 1, file |-> f, retry |-> retry, failed |-> failed,
                             reclaimed |-> FALSE])

Leases(w) == {l \in inflight : l.msg.id = worker[w].msg.id /\ l.owner = w}
Owns(w) == Leases(w) # {}
Unleased(w) == inflight \ Leases(w)
Renewed(w) == Unleased(w) \cup {[l EXCEPT !.lapsed = FALSE] : l \in Leases(w)}

\* Nobody renews the lease of a worker that gave its message up; one that works renews
\* it every 15 seconds, and may be too slow to do so within 45.
Lapse(l) ==
  /\ l \in inflight /\ ~l.lapsed
  /\ inflight' = (inflight \ {l}) \cup {[l EXCEPT !.lapsed = TRUE]}
  /\ IF worker[l.owner] # Idle /\ worker[l.owner].msg.id = l.msg.id
     THEN lapses < MaxLapses /\ lapses' = lapses + 1
     ELSE UNCHANGED lapses
  /\ UNCHANGED <<file, upload, queue, dlq, worker, seq, faults, crashes>>

RenewLease(w) ==
  /\ worker[w].pc \in Processing /\ \E l \in Leases(w) : l.lapsed
  /\ inflight' = Renewed(w)
  /\ UNCHANGED <<file, upload, queue, dlq, worker, seq, bounds>>

-----------------------------------------------------------------------------
(* The request that uploads a file: InitializeUploadedFile. *)

Upload(f) ==
  /\ upload[f] = "new" /\ upload' = [upload EXCEPT ![f] = "stored"]
  /\ file' = [file EXCEPT ![f].status = "queued"]
  /\ UNCHANGED <<broker, worker, bounds>>

Enqueue(f) ==
  /\ upload[f] = "stored"
  /\ \/ /\ durable \/ Len(queue) < QueueLimit
        /\ Enqueued(f, 0, FALSE) /\ upload' = [upload EXCEPT ![f] = "done"] /\ Works
     \/ /\ durable /\ Fault
        /\ Enqueued(f, 0, FALSE) \/ UNCHANGED <<queue, seq>>
        /\ upload' = [upload EXCEPT ![f] = "refused"]
     \/ /\ ~durable /\ Len(queue) >= QueueLimit /\ UNCHANGED <<queue, seq>>
        /\ upload' = [upload EXCEPT ![f] = "refused"] /\ Works
  /\ UNCHANGED <<file, inflight, dlq, worker>>

MarkRefused(f) ==
  /\ upload[f] = "refused"
  /\ \/ /\ file' = [file EXCEPT ![f].status = "failed"] /\ Works
        /\ upload' = [upload EXCEPT ![f] = "done"]
     \/ Fault /\ UNCHANGED file /\ upload' = [upload EXCEPT ![f] = "dropped"]
  /\ UNCHANGED <<broker, worker>>

-----------------------------------------------------------------------------
(* A worker takes a message. *)

Take(w, msg) ==
  worker' = [worker EXCEPT ![w] = [pc |-> "claiming", msg |-> msg, claimed |-> FALSE, err |-> "none"]]
Goto(w, pc) == worker' = [worker EXCEPT ![w].pc = pc]
GiveUp(w) == worker' = [worker EXCEPT ![w] = Idle]
Ends(w, claimed, err) ==
  worker' = [worker EXCEPT ![w] = [pc |-> "verifying", msg |-> worker[w].msg,
                                   claimed |-> claimed, err |-> err]]

\* ClaimTimedOutFileProcessingMessages.
ClaimTimedOut(w) ==
  /\ worker[w].pc = "idle"
  /\ \E l \in inflight :
       LET msg == [l.msg EXCEPT !.reclaimed = TRUE] IN
       /\ l.lapsed /\ Take(w, msg)
       /\ inflight' = (inflight \ {l}) \cup {[msg |-> msg, owner |-> w, lapsed |-> FALSE]}
  /\ UNCHANGED <<file, upload, queue, dlq, seq, bounds>>

\* ReadFileProcessingMessages.
Read(w) ==
  /\ worker[w].pc = "idle" /\ queue # <<>>
  /\ Take(w, Head(queue)) /\ queue' = Tail(queue)
  /\ inflight' = inflight \cup {[msg |-> Head(queue), owner |-> w, lapsed |-> FALSE]}
  /\ UNCHANGED <<file, upload, dlq, seq, bounds>>

\* renewProcessingMessageLease finds that the lease is another worker's.
Abandon(w) ==
  /\ worker[w].pc \in Processing /\ ~Owns(w) /\ GiveUp(w)
  /\ UNCHANGED <<file, upload, broker, bounds>>

-----------------------------------------------------------------------------
(* It processes the file: processFile, processClaimedFile. *)

Of(w) == worker[w].msg.file
At(w, pc) == worker[w].pc = pc

\* Mutant of Claimable: a file that another attempt left half done is not taken over.
ClaimableQueuedOnly(w) == {"queued"}

Claimable(w) == IF worker[w].msg.reclaimed THEN Open ELSE {"queued"}

\* TryClaimFileObjectProcessing.
TryClaim(w) ==
  LET claimed == [file EXCEPT ![Of(w)] = [status |-> "extracting", attempt |-> w]] IN
  /\ At(w, "claiming")
  /\ \/ /\ Works
        /\ IF file[Of(w)].status \in Claimable(w)
           THEN /\ file' = claimed
                /\ worker' = [worker EXCEPT ![w] = [pc |-> "extracting", msg |-> worker[w].msg,
                                                    claimed |-> TRUE, err |-> "none"]]
           ELSE UNCHANGED file /\ Ends(w, FALSE, "none")
     \/ /\ Fault /\ Ends(w, FALSE, "error")
        /\ file' = file \/ (file[Of(w)].status \in Claimable(w) /\ file' = claimed)
  /\ UNCHANGED <<upload, broker>>

\* Mutant of Holds: the attempt is not compared.
HoldsAnyway(w) == TRUE

Holds(w) == file[Of(w)].attempt = w

\* UpdateClaimedFileObjectProcessingState; a final status ends the attempt.
Updated(w, status) ==
  IF Holds(w)
  THEN [file EXCEPT ![Of(w)] = [status |-> status,
          attempt |-> IF status \in {"ready", "failed"} THEN NoWorker ELSE w]]
  ELSE file

WriteClaimed(w, status, whenDone, whenLost, whenError) ==
  \/ Works /\ file' = Updated(w, status) /\ IF Holds(w) THEN whenDone ELSE whenLost
  \/ Fault /\ file' \in {file, Updated(w, status)} /\ whenError

ExtractFails(w) ==
  /\ At(w, "extracting") /\ Goto(w, "failing")
  /\ UNCHANGED <<file, upload, broker, bounds>>

MarkFailed(w) ==
  /\ At(w, "failing")
  /\ WriteClaimed(w, "failed", Ends(w, TRUE, "none"), Ends(w, TRUE, "lost"), Ends(w, TRUE, "error"))
  /\ UNCHANGED <<upload, broker>>

\* The text is extracted; an embedding follows or not.
Extract(w) ==
  /\ At(w, "extracting")
  /\ \/ WriteClaimed(w, "embedding", Goto(w, "embedding"), Ends(w, TRUE, "lost"), Ends(w, TRUE, "error"))
     \/ WriteClaimed(w, "ready", Goto(w, "writing"), Ends(w, TRUE, "lost"), Ends(w, TRUE, "error"))
  /\ UNCHANGED <<upload, broker>>

\* The embedding succeeds or fails.
Embed(w) ==
  /\ At(w, "embedding") /\ Goto(w, "writing")
  /\ UNCHANGED <<file, upload, broker, bounds>>

WriteReady(w) ==
  /\ At(w, "writing")
  /\ WriteClaimed(w, "ready", Ends(w, TRUE, "none"), Ends(w, TRUE, "lost"), Ends(w, TRUE, "error"))
  /\ UNCHANGED <<upload, broker>>

-----------------------------------------------------------------------------
(* It ends the message: handleProcessingMessage. *)

AfterVerify(w) ==
  LET retry == worker[w].msg.retry IN
  CASE worker[w].err = "lost" -> "settling"
    [] worker[w].err = "error" /\ retry < MaxRetries -> "resetting"
    [] worker[w].err = "error" -> "finalizing"
    [] OTHER -> IF ~worker[w].claimed /\ retry >= MaxRetries /\ worker[w].msg.failed
                THEN "lookup" ELSE "settling"

\* The lease is renewed once more; without it, or when the file could not be claimed,
\* the message is left to lapse.
Verify(w) ==
  /\ At(w, "verifying")
  /\ \/ /\ Works
        /\ IF Owns(w) /\ (worker[w].err # "error" \/ worker[w].claimed)
           THEN Goto(w, AfterVerify(w)) ELSE GiveUp(w)
     \/ Fault /\ GiveUp(w)
  /\ inflight' = Renewed(w) \/ (faults' # faults /\ UNCHANGED inflight)
  /\ UNCHANGED <<file, upload, queue, dlq, seq>>

\* ResetFileObjectProcessingForRetry.
Reset(w) ==
  LET resets == Holds(w) /\ file[Of(w)].status \in {"extracting", "embedding"}
      reset == [file EXCEPT ![Of(w)] = [status |-> "queued", attempt |-> NoWorker]]
  IN
  /\ At(w, "resetting")
  /\ \/ Works /\ resets /\ file' = reset /\ Goto(w, "requeuing")
     \/ Works /\ ~resets /\ UNCHANGED file /\ GiveUp(w)
     \/ Fault /\ (UNCHANGED file \/ (resets /\ file' = reset)) /\ GiveUp(w)
  /\ UNCHANGED <<upload, broker>>

\* Mutant of Requeue: the owner of the lease is not asked for.
RequeueUnowned(w) ==
  /\ At(w, "requeuing") /\ Enqueued(Of(w), worker[w].msg.retry + 1, TRUE)
  /\ inflight' = Unleased(w) /\ GiveUp(w) /\ Works /\ UNCHANGED <<file, upload, dlq>>

\* RequeueFileProcessingMessage, whatever the length of the queue.
Requeue(w) ==
  /\ At(w, "requeuing")
  /\ \/ /\ (Works \/ Fault) /\ Owns(w) /\ Enqueued(Of(w), worker[w].msg.retry + 1, TRUE)
        /\ inflight' = Unleased(w)
     \/ (Fault \/ (Works /\ ~Owns(w))) /\ UNCHANGED <<queue, seq, inflight>>
  /\ GiveUp(w) /\ UNCHANGED <<file, upload, dlq>>

\* forceFinalizeFailed reads the row, writes under the attempt, and then without it.
FinalizeRead(w) ==
  /\ At(w, "finalizing")
  /\ \/ Works /\ Goto(w, IF file[Of(w)].status \in {"ready", "failed"} THEN "burying" ELSE "forcing")
     \/ Fault /\ GiveUp(w)
  /\ UNCHANGED <<file, upload, broker>>

ForceFailed(w) ==
  /\ At(w, "forcing")
  /\ WriteClaimed(w, "failed", Goto(w, "burying"), Goto(w, "overriding"), GiveUp(w))
  /\ UNCHANGED <<upload, broker>>

Override(w) ==
  LET failed == [file EXCEPT ![Of(w)].status = "failed"] IN
  /\ At(w, "overriding")
  /\ \/ Works /\ file' = failed /\ Goto(w, "burying")
     \/ Fault /\ file' \in {file, failed} /\ GiveUp(w)
  /\ UNCHANGED <<upload, broker>>

\* DeadLetterFileProcessingMessage.
Bury(w) ==
  /\ At(w, "burying")
  /\ \/ /\ (Works \/ Fault) /\ Owns(w)
        /\ dlq' = dlq \cup {worker[w].msg} /\ inflight' = Unleased(w)
     \/ (Fault \/ (Works /\ ~Owns(w))) /\ UNCHANGED <<dlq, inflight>>
  /\ GiveUp(w) /\ UNCHANGED <<file, upload, queue, seq>>

\* A message of a file that has failed after the last retry is dead-lettered.
Lookup(w) ==
  /\ At(w, "lookup")
  /\ \/ Works /\ Goto(w, IF file[Of(w)].status = "failed" THEN "burying" ELSE "settling")
     \/ Fault /\ GiveUp(w)
  /\ UNCHANGED <<file, upload, broker>>

\* SettleFileProcessingMessage.
Settle(w) ==
  /\ At(w, "settling")
  /\ \/ (Works \/ Fault) /\ inflight' = Unleased(w)
     \/ Fault /\ UNCHANGED inflight
  /\ GiveUp(w) /\ UNCHANGED <<file, upload, queue, dlq, seq>>

-----------------------------------------------------------------------------
\* A process stops, and with it uploads that it serves; it is the only one, and its
\* messages are lost, if the queue is in memory.
Crash(w) ==
  /\ crashes < MaxCrashes /\ crashes' = crashes + 1 /\ UNCHANGED <<faults, lapses>>
  /\ \E served \in SUBSET {f \in Files : upload[f] \in {"stored", "refused"}} :
       upload' = [f \in Files |-> IF f \in served THEN "dropped" ELSE upload[f]]
  /\ IF durable THEN GiveUp(w) /\ UNCHANGED <<queue, inflight, dlq>>
     ELSE /\ worker' = [v \in Workers |-> Idle]
          /\ queue' = <<>> /\ inflight' = {} /\ dlq' = {}
  /\ UNCHANGED <<file, seq>>

Process(w) ==
  \/ Abandon(w) \/ TryClaim(w) \/ ExtractFails(w) \/ MarkFailed(w) \/ Extract(w)
  \/ Embed(w) \/ WriteReady(w)
Finish(w) ==
  \/ Verify(w) \/ Reset(w) \/ Requeue(w) \/ FinalizeRead(w) \/ ForceFailed(w) \/ Override(w)
  \/ Bury(w) \/ Lookup(w) \/ Settle(w)
Step(w) == ClaimTimedOut(w) \/ Read(w) \/ Process(w) \/ Finish(w)
Request(f) == Enqueue(f) \/ MarkRefused(f)

Next ==
  /\ UNCHANGED durable
  /\ \/ \E f \in Files : Upload(f) \/ Request(f)
     \/ \E w \in Workers : Step(w) \/ RenewLease(w) \/ Crash(w)
     \/ \E l \in inflight : Lapse(l)

Spec == Init /\ [][Next]_vars

\* Requests and workers go on, and the lease of an abandoned message lapses.
Fairness ==
  /\ \A f \in Files : WF_vars(UNCHANGED durable /\ Request(f))
  /\ \A w \in Workers : WF_vars(UNCHANGED durable /\ Step(w))
  /\ WF_vars(\E l \in inflight : Lapse(l) /\ UNCHANGED <<durable, lapses>>)
FairSpec == Spec /\ Fairness

-----------------------------------------------------------------------------
Queued(f) == {queue[i].id : i \in {j \in 1..Len(queue) : queue[j].file = f}}
Leased(f) == {l.msg.id : l \in {k \in inflight : k.msg.file = f}}

\* However a message is read, reclaimed, requeued and settled by workers that do not
\* know of each other, there is at most one message of a file, at most once.
OneMessagePerFile ==
  \A f \in Files : Cardinality(Queued(f)) + Cardinality(Leased(f)) <= 1

\* A file that was taken in and is not done has a message, so that somebody will take
\* it, as long as no process has stopped and no lease of a worker at work has lapsed.
LiveFileHasMessage ==
  \A f \in Files : upload[f] = "done" /\ file[f].status \in Open /\ crashes = 0 /\ lapses = 0
                   => Queued(f) \cup Leased(f) # {}

\* The safety of the queue.
QueueSafety == TypeOK /\ OneMessagePerFile /\ LiveFileHasMessage

\* A file that is ready stays ready: a worker that lost it to another one, because it
\* was too slow or its process stopped, does not fail it (no call has failed so far).
ReadyIsFinal ==
  [][\A f \in Files : file[f].status = "ready" /\ faults' = 0 => file'[f].status = "ready"]_vars

(* Why it holds. *)

Working(w) == worker[w] # Idle

\* There is one message of a file, in the queue or leased.
OneOf ==
  /\ \A i, j \in DOMAIN queue : queue[i].file = queue[j].file => i = j
  /\ \A k, l \in inflight : k.msg.file = l.msg.file => k = l
  /\ \A i \in DOMAIN queue, l \in inflight : queue[i].file # l.msg.file

\* An id is given once, so a worker that was overtaken still knows which file its
\* message is about; and a message in the queue is nobody's.
IdsSound ==
  /\ \A i \in DOMAIN queue : queue[i].id <= seq
  /\ \A l \in inflight : l.msg.id <= seq
  /\ \A w \in Workers : Working(w) => worker[w].msg.id <= seq
  /\ \A i, j \in DOMAIN queue : queue[i].id = queue[j].id => i = j
  /\ \A k, l \in inflight : k.msg.id = l.msg.id => k = l
  /\ \A i \in DOMAIN queue, l \in inflight : queue[i].id # l.msg.id
  /\ \A i \in DOMAIN queue, w \in Workers : Working(w) => queue[i].id # worker[w].msg.id
  /\ \A w \in Workers, l \in inflight :
       Working(w) /\ l.msg.id = worker[w].msg.id => l.msg.file = Of(w)

\* A file has no message, and nobody works on it.
Untouched(f) ==
  /\ \A i \in DOMAIN queue : queue[i].file # f
  /\ \A l \in inflight : l.msg.file # f
  /\ \A w \in Workers : Working(w) => Of(w) # f

UploadsSound ==
  \A f \in Files :
    /\ upload[f] = "new" <=> file[f].status = "new"
    /\ upload[f] \in {"new", "stored"} => Untouched(f)
    /\ upload[f] = "stored" => file[f].status = "queued"
    /\ upload[f] = "refused" /\ faults = 0 => Untouched(f) /\ file[f].status = "queued"

\* What is ready is nobody's attempt, and workers fail because a call has failed.
AttemptsSound ==
  /\ \A f \in Files : file[f].status = "ready" => file[f].attempt = NoWorker
  /\ \A w \in Workers :
       /\ worker[w].pc \in {"resetting", "requeuing"} => worker[w].msg.retry < MaxRetries
       /\ faults = 0 => /\ worker[w].err # "error"
                        /\ worker[w].pc \notin {"resetting", "requeuing", "finalizing", "forcing",
                                                "overriding"}

\* As long as no process stops and no lease of a worker at work lapses, a worker has its
\* message to itself, and ends it only when its file is done.
Done(w) == file[Of(w)].status \in {"ready", "failed"}

WorkerSound(w) ==
  /\ \E l \in inflight : l.msg = worker[w].msg /\ l.owner = w /\ ~l.lapsed
  /\ worker[w].pc = "claiming" /\ file[Of(w)].status \in {"extracting", "embedding"}
       => worker[w].msg.reclaimed
  /\ worker[w].pc \in {"extracting", "failing", "embedding"} => Holds(w)
  /\ worker[w].pc = "writing" => Holds(w) \/ Done(w)
  /\ worker[w].pc = "verifying" /\ worker[w].err # "error" => Done(w)
  /\ worker[w].pc \in {"settling", "lookup", "burying"} => Done(w)
  /\ worker[w].pc = "requeuing" => file[Of(w)].status \in {"queued", "failed"}

CalmSound ==
  crashes = 0 /\ lapses = 0 =>
    /\ \A w \in Workers : Working(w) => WorkerSound(w)
    /\ \A i \in DOMAIN queue : file[queue[i].file].status \notin {"extracting", "embedding"}
    /\ LiveFileHasMessage

QueueInvariant ==
  TypeOK /\ OneOf /\ IdsSound /\ UploadsSound /\ AttemptsSound /\ CalmSound

\* Every file that was taken in is ready or failed in the end: calls may fail and
\* workers may be slow or stop, unless a lease lapses at work and something else goes
\* wrong too, or the memory that held the queue is gone.
Excused ==
  \/ lapses > 0 /\ faults + crashes + lapses > 1
  \/ ~durable /\ crashes > 0

FilesEnd ==
  \A f \in Files : upload[f] = "done" ~> file[f].status \in {"ready", "failed"} \/ Excused
=============================================================================
