-------------------------- MODULE GenerationStream --------------------------
(***************************************************************************)
(* The resumable event stream of one run: the handler publishes, the cache *)
(* keeps a bounded window of events and a checkpoint of the whole text,    *)
(* moderation may withdraw both, and clients follow the stream, lose their *)
(* connection and resume from the greatest sequence number they saw.       *)
(***************************************************************************)
EXTENDS Integers, Sequences, SequencesExt, FiniteSets

CONSTANTS
  Clients,       \* devices of the run's owner
  Starter,       \* the one whose request started the run
  MaxEvents,     \* generationStreamMaxEvents
  ReadLimit,     \* generationStreamSubscriberBuffer
  MaxResumes,    \* maxResumeAttempts of runRecoverableStream
  Moderation,    \* which withdrawals happen: a subset of {"barrier", "late"}
  MaxSeq         \* bound: events of the run before its terminal ones

ASSUME StreamAssumption ==
  /\ Starter \in Clients /\ Moderation \subseteq {"barrier", "late"}
  /\ MaxEvents \in Nat \ {0} /\ ReadLimit \in Nat \ {0}
  /\ MaxResumes \in Nat /\ MaxSeq \in Nat

VARIABLES
  phase,         \* where the handler of the run is
  late,          \* where the worker that found a hit after the barrier is
  seq, events, text, textSeq,    \* the stream in the cache
  leased,        \* the run holds a live lease
  said,          \* history: every text delta published, in order
  client         \* what each client sees and how it is connected

streamVars == <<phase, late, seq, events, text, textSeq, leased, said, client>>

Terminal == {"completed", "error", "moderation_blocked"}
EventTypes == {"delta", "note"} \cup Terminal
Seqs == 1..(MaxSeq + 3)
Event == [seq : Seqs, type : EventTypes]

\* connection: "live" the request that started the run, "listed" between the two
\* reads of a subscription, "checking" before and "reading" in the handler's loop.
Connections == {"live", "off", "listed", "checking", "reading", "done"}
NewClient(c) ==
  [ connection |-> IF c = Starter THEN "live" ELSE "off", resumes |-> 0,
    after |-> 0, text |-> <<>>, notes |-> {}, outcome |-> "none",
    window |-> <<>>, from |-> 0, cursor |-> 0, covered |-> 0, batch |-> <<>>,
    overrun |-> FALSE ]

CacheTypeOK ==
  /\ phase \in {"generating", "withdrawing", "settled", "terminal", "finished", "crashed"}
  /\ late \in {"none", "clearing", "told"}
  /\ seq \in Nat /\ events \in Seq(Event) /\ Len(events) <= MaxEvents
  /\ text \in Seq(Seqs) /\ textSeq \in 0..seq
  /\ leased \in BOOLEAN /\ said \in Seq(Seqs)

StreamTypeOK ==
  /\ CacheTypeOK
  /\ \A c \in Clients :
       /\ client[c].connection \in Connections
       /\ client[c].resumes \in 0..MaxResumes
       /\ client[c].after \in 0..seq /\ client[c].cursor \in 0..seq
       /\ client[c].text \in Seq(Seqs) /\ client[c].notes \subseteq Seqs
       /\ client[c].outcome \in Terminal \cup {"none", "interrupted", "refused"}

StreamInit ==
  /\ phase = "generating" /\ late = "none"
  /\ seq = 0 /\ events = <<>> /\ text = <<>> /\ textSeq = 0
  /\ leased = TRUE /\ said = <<>>
  /\ client = [c \in Clients |-> NewClient(c)]

-----------------------------------------------------------------------------
(* What a client does with an event. *)

Greater(a, b) == IF a > b THEN a ELSE b

\* applyConversationStreamEvent; a terminal event decides the outcome.
Apply(cl, e) ==
  [ cl EXCEPT
      !.after = Greater(cl.after, e.seq),
      !.text = CASE e.type = "delta" -> Append(cl.text, e.seq)
                 [] e.type = "replace" -> e.text
                 [] OTHER -> cl.text,
      !.notes = IF e.type = "note" THEN cl.notes \cup {e.seq} ELSE cl.notes,
      !.outcome = IF e.type \in Terminal /\ cl.outcome = "none" THEN e.type ELSE cl.outcome ]

\* The events of s at these positions, in their order.
Replay(cl, s, positions) ==
  LET state[n \in 0..Len(s)] ==
        IF n = 0 THEN cl
        ELSE IF n \in positions THEN Apply(state[n - 1], s[n]) ELSE state[n - 1]
  IN  state[Len(s)]

\* runRecoverableStream resumes an interrupted request up to maxResumeAttempts
\* times; a request that was answered to its end is not resumed.
Closed(cl) ==
  [ cl EXCEPT !.connection = IF cl.outcome = "none" THEN "off" ELSE "done",
              !.window = <<>>, !.batch = <<>>, !.cursor = 0, !.covered = 0, !.from = 0 ]

-----------------------------------------------------------------------------
(* The cache. *)

LastOf(s, n) == IF Len(s) > n THEN SubSeq(s, Len(s) - n + 1, Len(s)) ELSE s

\* AppendGenerationStreamEvent.
AppendEvent(type) ==
  /\ seq' = seq + 1
  /\ events' = LastOf(Append(events, [seq |-> seq + 1, type |-> type]), MaxEvents)
  /\ IF type = "delta"
     THEN /\ text' = Append(text, seq + 1) /\ textSeq' = seq + 1
          /\ said' = Append(said, seq + 1)
     ELSE UNCHANGED <<text, textSeq, said>>

\* Mutant of ResetEvents: the checkpoint survives.
ResetEventsKeepsText ==
  /\ events' = <<>>
  /\ UNCHANGED <<seq, said, text, textSeq>>

\* ResetGenerationStreamEvents: seq stays, so that cursors stay valid.
ResetEvents ==
  /\ events' = <<>> /\ text' = <<>> /\ textSeq' = 0
  /\ UNCHANGED <<seq, said>>

-----------------------------------------------------------------------------
(* The handler of the run. *)

\* flushStreamEvent: the event is stored, then written to the client that started
\* the run if it is still connected.
Flush(type) ==
  /\ AppendEvent(type)
  /\ client' = [c \in Clients |->
       IF client[c].connection # "live" THEN client[c]
       ELSE LET cl == Apply(client[c], [seq |-> seq + 1, type |-> type]) IN
            IF type \in Terminal THEN Closed(cl) ELSE cl]

Publish(type) ==
  /\ phase = "generating" /\ seq < MaxSeq /\ type \in {"delta", "note"}
  /\ Flush(type)
  /\ UNCHANGED <<phase, late, leased>>

\* The moderation barrier lets the answer pass, or there is none.
Settle ==
  /\ phase = "generating" /\ phase' = "settled"
  /\ UNCHANGED <<late, seq, events, text, textSeq, leased, said, client>>

\* The barrier found a hit: notifyBlocked clears the stream ...
Withdraw ==
  /\ phase = "generating" /\ "barrier" \in Moderation
  /\ ResetEvents /\ phase' = "withdrawing"
  /\ UNCHANGED <<late, leased, client>>

\* ... and emits the terminal event.
TellBlocked ==
  /\ phase = "withdrawing"
  /\ Flush("moderation_blocked") /\ phase' = "terminal"
  /\ UNCHANGED <<late, leased>>

\* The answer is persisted and billed, or the call failed.
Conclude(type) ==
  /\ \/ phase = "settled" /\ type \in {"completed", "error"}
     \/ phase = "generating" /\ type = "error"
  /\ Flush(type) /\ phase' = "terminal"
  /\ UNCHANGED <<late, leased>>

\* FinishMessageGeneration.
Finish ==
  /\ phase = "terminal" /\ phase' = "finished" /\ leased' = FALSE
  /\ UNCHANGED <<late, seq, events, text, textSeq, said, client>>

\* The process of the handler stops; another one serves the clients that resume.
HandlerStops ==
  /\ phase \in {"generating", "withdrawing", "settled", "terminal"}
  /\ phase' = "crashed"
  /\ client' = [c \in Clients |->
       IF client[c].connection = "live" THEN Closed(client[c]) ELSE client[c]]
  /\ UNCHANGED <<late, seq, events, text, textSeq, leased, said>>

\* The lease is no longer refreshed and runs out.
RunExpires ==
  /\ phase = "crashed" /\ leased /\ leased' = FALSE
  /\ UNCHANGED <<phase, late, seq, events, text, textSeq, said, client>>

\* A worker whose hit came after the barrier: notifyBlockedRecovery.
LateWithdraw ==
  /\ "late" \in Moderation /\ late = "none" /\ phase \in {"settled", "terminal", "finished"}
  /\ ResetEvents /\ late' = "clearing"
  /\ UNCHANGED <<phase, leased, client>>

LateTellBlocked ==
  /\ late = "clearing" /\ late' = "told" /\ AppendEvent("moderation_blocked")
  /\ UNCHANGED <<phase, leased, client>>

-----------------------------------------------------------------------------
(* A client that resumes, and the goroutines that serve it. *)

Update(c, cl) ==
  /\ client' = [client EXCEPT ![c] = cl]
  /\ UNCHANGED <<phase, late, seq, events, text, textSeq, leased, said>>

Disconnect(c) ==
  /\ client[c].connection \in {"live", "listed", "checking", "reading"}
  /\ Update(c, Closed(client[c]))

\* subscribeStore, first read: the retained window.
SubscribeList(c) ==
  LET cl == client[c] IN
  /\ cl.connection = "off" /\ cl.resumes < MaxResumes
  /\ Update(c, [cl EXCEPT !.connection = "listed", !.resumes = @ + 1,
                          !.from = cl.after, !.window = events])

\* retainedStreamEvents: what the window and the text checkpoint <<covers, content>>
\* bring to the client.
Served(cl, covers, content) ==
  LET w == cl.window
      fresh == {n \in DOMAIN w : w[n].seq > cl.from /\ ~(w[n].type = "delta" /\ w[n].seq <= covers)}
      past == {n \in DOMAIN w : w[n].seq > covers}
      checkpoint == [seq |-> covers, type |-> "replace", text |-> content]
      before == Replay(cl, w, fresh \ past)
  IN  Replay(IF covers = 0 THEN before ELSE Apply(before, checkpoint), w, fresh \cap past)

\* Mutant of SubscribeSnapshot: the live reader starts after the checkpoint.
SubscribeSnapshotAhead(c) ==
  LET cl == client[c]
      last == IF cl.window = <<>> THEN 0 ELSE Last(cl.window).seq
      ended == \E i \in DOMAIN cl.window : cl.window[i].type \in Terminal
      served == Served(cl, textSeq, text)
  IN
  /\ cl.connection = "listed"
  /\ Update(c,
       IF ended THEN Closed(served)
       ELSE [served EXCEPT !.connection = "checking", !.window = <<>>,
                           !.cursor = last, !.covered = seq])

\* subscribeStore, second read, and the replay written by the resume handler.
SubscribeSnapshot(c) ==
  LET cl == client[c]
      unsafe == textSeq = 0 /\ \E i \in DOMAIN cl.window : cl.window[i].type = "delta"
      last == IF cl.window = <<>> THEN 0 ELSE Last(cl.window).seq
      ended == \E i \in DOMAIN cl.window : cl.window[i].type \in Terminal
      served == Served(cl, textSeq, text)
  IN
  /\ cl.connection = "listed"
  /\ Update(c,
       IF unsafe THEN Closed([cl EXCEPT !.outcome = "refused"])
       ELSE IF ended THEN Closed(served)
       ELSE [served EXCEPT !.connection = "checking", !.window = <<>>,
                           !.cursor = last, !.covered = textSeq])

\* The handler looks at the lease before it follows the stream.
CheckActive(c) ==
  LET cl == client[c] IN
  /\ cl.connection = "checking"
  /\ Update(c, IF leased THEN [cl EXCEPT !.connection = "reading"]
               ELSE Closed([cl EXCEPT !.outcome = "interrupted"]))

\* Mutant of ActiveTick: the handler does not look at the lease again.
ActiveTickNever(c) == FALSE

\* Its ticker; select takes either branch when events wait too.
ActiveTick(c) ==
  LET cl == client[c] IN
  /\ cl.connection = "reading" /\ ~leased
  /\ Update(c, Closed([cl EXCEPT !.outcome = "interrupted"]))

\* readStoreEvents: one read of the cache, which goes on while the replay is written.
ReadEvents(c) ==
  \E first \in DOMAIN events :
    LET cl == client[c]
        limit == IF first + ReadLimit <= Len(events) THEN first + ReadLimit - 1 ELSE Len(events)
    IN
    /\ cl.connection \in {"checking", "reading"} /\ cl.batch = <<>>
    /\ events[first].seq > cl.cursor /\ \A n \in 1..(first - 1) : events[n].seq <= cl.cursor
    /\ Update(c, [cl EXCEPT
         !.batch = SubSeq(events, first, limit), !.cursor = events[limit].seq,
         !.overrun = \/ cl.overrun
                     \/ \E i \in DOMAIN said : cl.cursor < said[i] /\ said[i] < events[first].seq
                                              /\ cl.covered < said[i] ])

\* One record goes through the channel to the client, unless it was seen.
Deliver(c) ==
  LET cl == client[c]
      e == Head(cl.batch)
      skipped == e.seq <= cl.from \/ (e.type = "delta" /\ e.seq <= cl.covered)
      rest == [cl EXCEPT !.batch = Tail(cl.batch)]
      told == IF skipped THEN rest ELSE Apply(rest, e)
  IN
  /\ cl.connection = "reading" /\ cl.batch # <<>>
  /\ Update(c, IF ~skipped /\ e.type \in Terminal THEN Closed(told) ELSE told)

-----------------------------------------------------------------------------
HandlerStep ==
  \/ \E type \in {"delta", "note"} : Publish(type)
  \/ Settle \/ Withdraw \/ TellBlocked
  \/ \E type \in {"completed", "error"} : Conclude(type)
  \/ Finish

Serve(c) ==
  SubscribeSnapshot(c) \/ CheckActive(c) \/ ActiveTick(c) \/ ReadEvents(c) \/ Deliver(c)

StreamNext ==
  \/ HandlerStep \/ HandlerStops \/ RunExpires \/ LateWithdraw \/ LateTellBlocked
  \/ \E c \in Clients : Disconnect(c) \/ SubscribeList(c) \/ Serve(c)

StreamSpec == StreamInit /\ [][StreamNext]_streamVars

\* The handler ends its call, leases run out, and a request that is served advances.
StreamFairSpec ==
  /\ StreamSpec /\ WF_streamVars(HandlerStep) /\ WF_streamVars(RunExpires)
  /\ \A c \in Clients : WF_streamVars(Serve(c))

-----------------------------------------------------------------------------
Withdrawn == text # said \/ \E i \in DOMAIN events : events[i].type = "moderation_blocked"

\* t is what was published up to the sequence number n.
IsSaidUpTo(t, n) ==
  IsPrefix(t, said) /\ \A i \in DOMAIN said : said[i] <= n <=> i <= Len(t)

\* A client holds exactly the text published up to the last event it saw: replay,
\* checkpoint and live events overlap and interleave with the publisher, but no delta
\* is missing, repeated or out of order.  Excepted are a reader the window ran over
\* and a run whose text was withdrawn, where it still holds no more than was said.
TextIsExact ==
  \A c \in Clients :
    /\ (~client[c].overrun /\ ~Withdrawn) => IsSaidUpTo(client[c].text, client[c].after)
    /\ ~client[c].overrun => IsPrefix(client[c].text, said)

StreamSafety == StreamTypeOK /\ TextIsExact

\* Once the barrier blocked a run the cache keeps nothing that a reconnect could replay:
\* no checkpoint and no event that carries text.  It does not hold of a hit found after
\* the barrier: the handler, which does not learn of it, appends the completed answer.
NothingWithdrawnRetained ==
  (Withdrawn /\ late = "none") => /\ text = <<>>
               /\ \A i \in DOMAIN events : events[i].type \in {"note", "moderation_blocked"}

\* Why it holds: until the barrier blocks the run the cache has all that was said, and
\* afterwards the handler appends the terminal event only.
CacheSound ==
  late = "none" =>
    \/ /\ text = said /\ phase # "withdrawing"
       /\ \A i \in DOMAIN events : events[i].type # "moderation_blocked"
    \/ /\ text = <<>> /\ phase \notin {"generating", "settled"}
       /\ \A i \in DOMAIN events : events[i].type \in {"note", "moderation_blocked"}

\* The handler ends the run by one event, and the late worker adds one.
SeqWithin ==
  seq <= MaxSeq + (IF phase \in {"terminal", "finished", "crashed"} THEN 1 ELSE 0)
                + (IF late = "told" THEN 1 ELSE 0)

CacheInvariant == CacheTypeOK /\ SeqWithin /\ CacheSound

\* The text of the answer is in the cache, or was withdrawn for good.
Kept == text = said /\ \A i \in DOMAIN said : said[i] <= textSeq
Cleared ==
  /\ text = <<>> /\ textSeq = 0 /\ phase # "generating"
  /\ \A i \in DOMAIN events : events[i].type # "delta"

\* Events are numbered without a gap up to n, and the deltas are what was said.
Numbered(s, n) == \A i \in DOMAIN s : s[i].seq = n - Len(s) + i
Marked(s) ==
  \A i \in DOMAIN s : s[i].type = "delta" <=> \E k \in DOMAIN said : said[k] = s[i].seq

SaidInOrder ==
  /\ \A k \in DOMAIN said : said[k] <= seq
  /\ \A j, k \in DOMAIN said : j < k => said[j] < said[k]

StreamSound ==
  SaidInOrder /\ Numbered(events, seq) /\ Marked(events) /\ (Kept \/ Cleared)

\* A reader has the text up to its place in the stream, which is the number of the
\* last record it took from its batch, or up to its checkpoint; what it skips for having
\* seen it brings no text.  Or it is a reader of a withdrawn answer, and gets no text.
Place(cl) == cl.cursor - Len(cl.batch)
InStep(cl) ==
  /\ \A i \in DOMAIN said :
       (said[i] <= Place(cl) \/ said[i] <= cl.covered) <=> i <= Len(cl.text)
  /\ \A i \in DOMAIN said : said[i] <= cl.from => said[i] <= cl.covered
Frozen(cl) == Cleared /\ \A i \in DOMAIN cl.batch : cl.batch[i].type # "delta"

ReaderSound(cl) ==
  /\ Numbered(cl.batch, cl.cursor) /\ Marked(cl.batch)
  /\ cl.overrun \/ InStep(cl) \/ Frozen(cl)

WindowSound(cl) ==
  (\A i \in DOMAIN cl.window : cl.window[i].seq <= seq) /\ Marked(cl.window)

TextSound(cl) ==
  cl.overrun \/ (IsPrefix(cl.text, said) /\ (Kept => IsSaidUpTo(cl.text, cl.after)))

\* The request that started the run has all the text; and see above.
ClientSound(cl) ==
  /\ TextSound(cl)
  /\ cl.connection = "live" /\ Kept => cl.text = said
  /\ cl.connection = "listed" => WindowSound(cl)
  /\ IF cl.connection \in {"checking", "reading"} THEN ReaderSound(cl) ELSE cl.batch = <<>>

Records == [ connection : Connections, resumes : 0..MaxResumes,
             after : 0..seq, text : Seq(Seqs), notes : SUBSET Seqs,
             outcome : Terminal \cup {"none", "interrupted", "refused"},
             window : Seq(Event), from : 0..seq, cursor : 0..seq, covered : 0..seq,
             batch : Seq(Event), overrun : BOOLEAN ]

StreamInvariant ==
  /\ CacheInvariant /\ StreamSound /\ client \in [Clients -> Records]
  /\ \A cl \in Range(client) : ClientSound(cl)

\* A resumed request ends: with the run, or when its lease is gone.
ResumesEnd ==
  \A c \in Clients : client[c].connection \in {"listed", "checking", "reading"}
                       ~> client[c].connection \in {"off", "done"}

-----------------------------------------------------------------------------
(* What the code does not keep: TLC finds a behaviour that violates each.   *)

\* TextIsExact without the exception for slow readers, as the test
\* SnapshotThenLiveDeltaExactlyOnce and the guard on replays without a checkpoint say.
TextIsExactForSlowReaders ==
  \A c \in Clients : ~Withdrawn => IsSaidUpTo(client[c].text, client[c].after)

\* A client that saw the run complete received each note that is still retained.
NotesReplayable ==
  \A c \in Clients : client[c].outcome = "completed" =>
    \A i \in DOMAIN events : events[i].type = "note" => events[i].seq \in client[c].notes

\* A client is told that a run was interrupted only if it did not come to its end.
InterruptedMeansUnfinished ==
  [][\A c \in Clients : client'[c].outcome = "interrupted" /\ client[c].outcome = "none"
       => phase \notin {"terminal", "finished"}]_streamVars
=============================================================================
