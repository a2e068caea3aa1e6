---------------------------- MODULE FilesProofs -----------------------------
(***************************************************************************)
(* The safety of the file queue and of its workers (FileProcessing), and   *)
(* of the index that files are embedded into (EmbeddingIndex).             *)
(***************************************************************************)
EXTENDS FileProcessing, EmbeddingIndex, FiniteSetTheorems, SequenceTheorems, TLAPS

WorkState == [pc : Processing \cup Finishing, msg : Message, claimed : BOOLEAN,
              err : {"none", "lost", "error"}]
Lease == [msg : Message, owner : Workers, lapsed : BOOLEAN]
FileRow == [status : {"new", "ready", "failed"} \cup Open, attempt : Workers \cup {NoWorker}]

LEMMA TypeParts ==
  /\ TypeOK <=> /\ durable \in BOOLEAN
                /\ file \in [Files -> FileRow]
                /\ upload \in [Files -> {"new", "stored", "refused", "done", "dropped"}]
                /\ queue \in Seq(Message) /\ dlq \subseteq Message
                /\ inflight \subseteq Lease
                /\ worker \in [Workers -> {Idle} \cup WorkState]
                /\ seq \in Nat /\ faults \in 0..MaxFaults /\ crashes \in 0..MaxCrashes
                /\ lapses \in 0..MaxLapses
BY DEF TypeOK, FileRow, Lease, WorkState

LEMMA AppendIs ==
  ASSUME NEW s \in Seq(Message), NEW m \in Message
  PROVE  /\ Append(s, m) \in Seq(Message) /\ DOMAIN Append(s, m) = DOMAIN s \cup {Len(s) + 1}
         /\ Len(s) + 1 \notin DOMAIN s /\ Append(s, m)[Len(s) + 1] = m
         /\ \A i \in DOMAIN s : Append(s, m)[i] = s[i] /\ s[i] \in Message
OBVIOUS

LEMMA TailIs ==
  ASSUME NEW s \in Seq(Message), s # <<>>
  PROVE  /\ Tail(s) \in Seq(Message) /\ Head(s) \in Message /\ 1 \in DOMAIN s /\ Head(s) = s[1]
         /\ \A i \in DOMAIN Tail(s) : i + 1 \in DOMAIN s /\ i + 1 # 1 /\ Tail(s)[i] = s[i + 1] /\ i \in Nat
OBVIOUS

\* The state of a worker that moved, and of the others.
LEMMA MoveIs ==
  ASSUME TypeOK, NEW w \in Workers, NEW state \in {Idle} \cup WorkState,
         worker' = [worker EXCEPT ![w] = state]
  PROVE  /\ worker' \in [Workers -> {Idle} \cup WorkState] /\ worker'[w] = state
         /\ \A v \in Workers : v # w => worker'[v] = worker[v]
BY TypeParts

LEMMA GotoIs ==
  ASSUME TypeOK, NEW w \in Workers, NEW pc \in Processing \cup Finishing, Working(w), Goto(w, pc)
  PROVE  /\ worker' \in [Workers -> {Idle} \cup WorkState] /\ worker'[w] \in WorkState
         /\ worker'[w].pc = pc /\ worker'[w].msg = worker[w].msg
         /\ worker'[w].claimed = worker[w].claimed /\ worker'[w].err = worker[w].err
         /\ \A v \in Workers : v # w => worker'[v] = worker[v]
<1>1. worker[w] \in WorkState /\ worker \in [Workers -> {Idle} \cup WorkState]
  BY TypeParts DEF Working
<1>2. [worker[w] EXCEPT !.pc = pc] \in WorkState
  BY <1>1 DEF WorkState
<1>3. worker' = [worker EXCEPT ![w] = [worker[w] EXCEPT !.pc = pc]]
  BY <1>1 DEF Goto
<1>4. /\ [worker[w] EXCEPT !.pc = pc].pc = pc
      /\ [worker[w] EXCEPT !.pc = pc].msg = worker[w].msg
      /\ [worker[w] EXCEPT !.pc = pc].claimed = worker[w].claimed
      /\ [worker[w] EXCEPT !.pc = pc].err = worker[w].err
  BY <1>1 DEF WorkState
<1> QED BY <1>1, <1>2, <1>3, <1>4, MoveIs

LEMMA EndsIs ==
  ASSUME TypeOK, NEW w \in Workers, NEW claimed \in BOOLEAN, NEW err \in {"none", "lost", "error"},
         Working(w), Ends(w, claimed, err)
  PROVE  /\ worker' \in [Workers -> {Idle} \cup WorkState] /\ worker'[w] \in WorkState
         /\ worker'[w].pc = "verifying" /\ worker'[w].msg = worker[w].msg
         /\ worker'[w].claimed = claimed /\ worker'[w].err = err
         /\ \A v \in Workers : v # w => worker'[v] = worker[v]
<1>1. worker[w] \in WorkState /\ worker[w].msg \in Message
  BY TypeParts DEF Working, WorkState
<1> DEFINE state == [pc |-> "verifying", msg |-> worker[w].msg, claimed |-> claimed, err |-> err]
<1>2. state \in WorkState
  BY <1>1 DEF WorkState, Finishing
<1>3. state.pc = "verifying" /\ state.msg = worker[w].msg /\ state.claimed = claimed /\ state.err = err
  OBVIOUS
<1>4. worker' = [worker EXCEPT ![w] = state]
  BY DEF Ends
<1> HIDE DEF state
<1> QED BY <1>2, <1>3, <1>4, MoveIs

LEMMA TakeIs ==
  ASSUME TypeOK, NEW w \in Workers, NEW msg \in Message, Take(w, msg)
  PROVE  /\ worker' \in [Workers -> {Idle} \cup WorkState] /\ worker'[w] \in WorkState
         /\ worker'[w].pc = "claiming" /\ worker'[w].msg = msg
         /\ worker'[w].claimed = FALSE /\ worker'[w].err = "none"
         /\ \A v \in Workers : v # w => worker'[v] = worker[v]
<1> DEFINE state == [pc |-> "claiming", msg |-> msg, claimed |-> FALSE, err |-> "none"]
<1>1. state \in WorkState
  BY DEF WorkState, Processing
<1>2. state.pc = "claiming" /\ state.msg = msg /\ state.claimed = FALSE /\ state.err = "none"
  OBVIOUS
<1>3. worker' = [worker EXCEPT ![w] = state]
  BY DEF Take
<1> HIDE DEF state
<1> QED BY <1>1, <1>2, <1>3, MoveIs

LEMMA GiveUpIs ==
  ASSUME TypeOK, NEW w \in Workers, GiveUp(w)
  PROVE  /\ worker' \in [Workers -> {Idle} \cup WorkState] /\ worker'[w] = Idle
         /\ \A v \in Workers : v # w => worker'[v] = worker[v]
BY MoveIs DEF GiveUp

LEMMA IdleIsNot == Idle \notin WorkState /\ Idle.pc = "idle" /\ Idle.err = "none"
BY DEF Idle, WorkState, Processing, Finishing

-----------------------------------------------------------------------------
(* The steps of a worker *)

LEMMA StepCases ==
  ASSUME [Next]_vars
  PROVE  \/ \E f \in Files : Upload(f) \/ Enqueue(f) \/ MarkRefused(f)
         \/ \E w \in Workers : ClaimTimedOut(w) \/ Read(w) \/ RenewLease(w) \/ Crash(w)
         \/ \E w \in Workers : Process(w) \/ Finish(w)
         \/ \E l \in inflight : Lapse(l)
         \/ UNCHANGED vars
BY DEF Next, Request, Step

\* A worker that is past taking a message keeps it, or gives it up.
KeepsMessage(w) ==
  /\ worker' \in [Workers -> {Idle} \cup WorkState]
  /\ worker'[w] = Idle \/ (worker'[w] \in WorkState /\ worker'[w].msg = worker[w].msg)
  /\ \A v \in Workers : v # w => worker'[v] = worker[v]

LEMMA WorkerSteps ==
  ASSUME TypeOK, NEW w \in Workers, Process(w) \/ Finish(w)
  PROVE  Working(w) /\ KeepsMessage(w)
<1>1. Working(w)
  <2>1. worker[w].pc # "idle"
    BY DEF Process, Finish, Abandon, TryClaim, ExtractFails, MarkFailed, Extract, Embed, WriteReady,
       Verify, Reset, Requeue, FinalizeRead, ForceFailed, Override, Bury, Lookup, Settle, At, Processing
  <2> QED BY <2>1, IdleIsNot DEF Working
<1> SUFFICES KeepsMessage(w)
  BY <1>1
<1>2. GiveUp(w) => KeepsMessage(w)
  BY GiveUpIs DEF KeepsMessage
<1>3. \A pc \in Processing \cup Finishing : Goto(w, pc) => KeepsMessage(w)
  BY <1>1, GotoIs DEF KeepsMessage
<1>4. \A claimed \in BOOLEAN, err \in {"none", "lost", "error"} : Ends(w, claimed, err) => KeepsMessage(w)
  BY <1>1, EndsIs DEF KeepsMessage
<1>5. CASE Abandon(w) \/ Settle(w) \/ Bury(w) \/ Requeue(w)
  BY <1>2, <1>5 DEF Abandon, Settle, Bury, Requeue
<1>6. CASE TryClaim(w)
  <2>1. CASE worker' = [worker EXCEPT ![w] = [pc |-> "extracting", msg |-> worker[w].msg,
                                              claimed |-> TRUE, err |-> "none"]]
    <3> DEFINE state == [pc |-> "extracting", msg |-> worker[w].msg, claimed |-> TRUE, err |-> "none"]
    <3>1. worker[w].msg \in Message
      BY <1>1, TypeParts DEF Working, WorkState
    <3>2. state \in WorkState /\ state.msg = worker[w].msg
      BY <3>1 DEF WorkState, Processing
    <3>3. worker' = [worker EXCEPT ![w] = state]
      BY <2>1
    <3> HIDE DEF state
    <3> QED BY <3>2, <3>3, MoveIs DEF KeepsMessage
  <2> QED BY <1>4, <1>6, <2>1 DEF TryClaim
<1>7. CASE ExtractFails(w) \/ Embed(w)
  BY <1>3, <1>7 DEF ExtractFails, Embed, Processing
<1>8. CASE MarkFailed(w) \/ WriteReady(w)
  BY <1>4, <1>8 DEF MarkFailed, WriteReady, WriteClaimed
<1>9. CASE Extract(w)
  BY <1>3, <1>4, <1>9 DEF Extract, WriteClaimed, Processing
<1>10. CASE Verify(w)
  <2>1. AfterVerify(w) \in Finishing
    BY DEF AfterVerify, Finishing
  <2> QED BY <1>2, <1>3, <1>10, <2>1 DEF Verify
<1>11. CASE Reset(w)
  BY <1>2, <1>3, <1>11 DEF Reset, Finishing
<1>12. CASE FinalizeRead(w) \/ Lookup(w)
  BY <1>2, <1>3, <1>12 DEF FinalizeRead, Lookup, Finishing
<1>13. CASE ForceFailed(w) \/ Override(w)
  BY <1>2, <1>3, <1>13 DEF ForceFailed, WriteClaimed, Override, Finishing
<1> QED BY <1>5, <1>6, <1>7, <1>8, <1>9, <1>10, <1>11, <1>12, <1>13 DEF Process, Finish

-----------------------------------------------------------------------------
(* Where messages come from *)

Same(m, n) == m.id = n.id /\ m.file = n.file

LeasesFollow ==
  /\ \A l \in inflight' : \E k \in inflight : Same(l.msg, k.msg)
  /\ \A k, l \in inflight' : k.msg.file = l.msg.file => k = l

WorkersFollow ==
  \A w \in Workers : worker'[w] # Idle =>
    \/ \E v \in Workers : Working(v) /\ Same(worker'[w].msg, worker[v].msg)
    \/ \E l \in inflight : Same(worker'[w].msg, l.msg)

\* Messages move among leases and workers only.
Derived == queue' = queue /\ seq' = seq /\ LeasesFollow /\ WorkersFollow

\* A message of a file that has no other one is put in the queue.
Added(f) ==
  /\ \E m \in Message : m.id = seq + 1 /\ m.file = f /\ queue' = Append(queue, m)
  /\ seq' = seq + 1
  /\ inflight' \subseteq inflight
  /\ \A w \in Workers : worker'[w] = worker[w] \/ worker'[w] = Idle
  /\ \A i \in DOMAIN queue : queue[i].file # f
  /\ \A l \in inflight' : l.msg.file # f

Emptied == queue' = <<>> /\ inflight' = {} /\ seq' = seq /\ \A w \in Workers : worker'[w] = Idle

Structure == OneOf /\ IdsSound

LEMMA IdIsNat ==
  ASSUME TypeOK
  PROVE  /\ \A i \in DOMAIN queue : queue[i] \in Message
         /\ \A l \in inflight : l \in Lease /\ l.msg \in Message
         /\ \A w \in Workers : Working(w) => worker[w] \in WorkState /\ worker[w].msg \in Message
BY TypeParts DEF Working, WorkState, Lease

LEMMA DerivedKeeps ==
  ASSUME TypeOK, Structure, Derived
  PROVE  Structure' /\ \A f \in Files : Untouched(f) => Untouched(f)'
<1>1. OneOf'
  BY DEF Structure, OneOf, Derived, LeasesFollow, Same
<1>2. IdsSound'
  <2>1. \A l \in inflight' : l.msg.id <= seq /\ \A i \in DOMAIN queue : queue[i].id # l.msg.id
    BY DEF Structure, IdsSound, Derived, LeasesFollow, Same
  <2>2. \A k, l \in inflight' : k.msg.id = l.msg.id => k = l
    BY DEF Structure, IdsSound, Derived, LeasesFollow, Same
  <2>3. \A w \in Workers : worker'[w] # Idle =>
          worker'[w].msg.id <= seq /\ \A i \in DOMAIN queue : queue[i].id # worker'[w].msg.id
    BY DEF Structure, IdsSound, Derived, WorkersFollow, Same, Working
  <2>4. \A w \in Workers, l \in inflight' :
          worker'[w] # Idle /\ l.msg.id = worker'[w].msg.id => l.msg.file = worker'[w].msg.file
    BY DEF Structure, IdsSound, Derived, WorkersFollow, LeasesFollow, Same, Working, Of
  <2> QED BY <2>1, <2>2, <2>3, <2>4 DEF Structure, IdsSound, Derived, Working, Of
<1>3. \A f \in Files : Untouched(f) => Untouched(f)'
  BY DEF Untouched, Derived, LeasesFollow, WorkersFollow, Same, Working, Of
<1> QED BY <1>1, <1>2, <1>3 DEF Structure

LEMMA ReadKeeps ==
  ASSUME TypeOK, Structure, NEW w \in Workers, Read(w)
  PROVE  Structure' /\ \A f \in Files : Untouched(f) => Untouched(f)'
<1> DEFINE head == Head(queue)
           lease == [msg |-> head, owner |-> w, lapsed |-> FALSE]
<1>1. /\ queue \in Seq(Message) /\ queue # <<>> /\ queue' = Tail(queue) /\ seq' = seq
      /\ inflight' = inflight \cup {lease}
  BY TypeParts DEF Read
<1>2. /\ 1 \in DOMAIN queue /\ head = queue[1] /\ head \in Message
      /\ \A i \in DOMAIN queue' : i + 1 \in DOMAIN queue /\ i + 1 # 1 /\ queue'[i] = queue[i + 1] /\ i \in Nat
  BY <1>1, TailIs
<1>3. worker'[w].msg = head /\ worker'[w] # Idle /\ \A v \in Workers : v # w => worker'[v] = worker[v]
  BY <1>2, TakeIs, IdleIsNot DEF Read
<1>4. \A l \in inflight' : l \in inflight \/ l = lease
  BY <1>1
<1>9. lease.msg = head
  OBVIOUS
<1> HIDE DEF head, lease
<1>5. OneOf'
  <2>1. \A i, j \in DOMAIN queue' : queue'[i].file = queue'[j].file => i = j
    BY <1>2 DEF Structure, OneOf
  <2>2. \A k, l \in inflight' : k.msg.file = l.msg.file => k = l
    BY <1>2, <1>4, <1>9 DEF Structure, OneOf
  <2>3. \A i \in DOMAIN queue', l \in inflight' : queue'[i].file # l.msg.file
    BY <1>2, <1>4, <1>9 DEF Structure, OneOf
  <2> QED BY <2>1, <2>2, <2>3 DEF OneOf
<1>6. IdsSound'
  <2>1. \A i \in DOMAIN queue' : queue'[i].id <= seq
    BY <1>2 DEF Structure, IdsSound
  <2>2. \A l \in inflight' : l.msg.id <= seq
    BY <1>2, <1>4, <1>9 DEF Structure, IdsSound
  <2>3. \A v \in Workers : worker'[v] # Idle => worker'[v].msg.id <= seq
    BY <1>2, <1>3 DEF Structure, IdsSound, Working
  <2>4. \A i, j \in DOMAIN queue' : queue'[i].id = queue'[j].id => i = j
    BY <1>2 DEF Structure, IdsSound
  <2>5. \A k, l \in inflight' : k.msg.id = l.msg.id => k = l
    BY <1>2, <1>4, <1>9 DEF Structure, IdsSound
  <2>6. \A i \in DOMAIN queue', l \in inflight' : queue'[i].id # l.msg.id
    BY <1>2, <1>4, <1>9 DEF Structure, IdsSound
  <2>7. \A i \in DOMAIN queue', v \in Workers : worker'[v] # Idle => queue'[i].id # worker'[v].msg.id
    BY <1>2, <1>3 DEF Structure, IdsSound, Working
  <2>8. \A v \in Workers, l \in inflight' :
          worker'[v] # Idle /\ l.msg.id = worker'[v].msg.id => l.msg.file = worker'[v].msg.file
    BY <1>2, <1>3, <1>4, <1>9 DEF Structure, IdsSound, Working, Of
  <2> QED BY <1>1, <2>1, <2>2, <2>3, <2>4, <2>5, <2>6, <2>7, <2>8 DEF IdsSound, Working, Of
<1>7. ASSUME NEW f \in Files, Untouched(f)
      PROVE  Untouched(f)'
  BY <1>2, <1>3, <1>4, <1>9, <1>7 DEF Untouched, Working, Of
<1> QED BY <1>5, <1>6, <1>7 DEF Structure

LEMMA AddedKeeps ==
  ASSUME TypeOK, Structure, NEW f \in Files, Added(f)
  PROVE  Structure' /\ \A g \in Files : Untouched(g) /\ g # f => Untouched(g)'
<1>1. PICK m \in Message : m.id = seq + 1 /\ m.file = f /\ queue' = Append(queue, m)
  BY DEF Added
<1> DEFINE n == Len(queue) + 1
<1>2. /\ DOMAIN queue' = DOMAIN queue \cup {n} /\ n \notin DOMAIN queue /\ queue'[n] = m
      /\ \A i \in DOMAIN queue : queue'[i] = queue[i]
  BY <1>1, AppendIs, TypeParts
<1> HIDE DEF n
<1>3. seq \in Nat /\ seq' = seq + 1
  BY TypeParts DEF Added
<1>4. \A i \in DOMAIN queue : queue[i].id \in Nat
  BY IdIsNat DEF Message
<1>5. \A l \in inflight : l.msg.id \in Nat
  BY IdIsNat DEF Message
<1>6. \A w \in Workers : Working(w) => worker[w].msg.id \in Nat
  BY IdIsNat DEF Message
<1>7. OneOf'
  BY <1>1, <1>2 DEF Structure, OneOf, Added
<1>8. IdsSound'
  <2>1. \A i \in DOMAIN queue' : queue'[i].id <= seq'
    BY <1>1, <1>2, <1>3, <1>4 DEF Structure, IdsSound
  <2>2. \A l \in inflight' : l.msg.id <= seq /\ l.msg.id \in Nat
    BY <1>5 DEF Structure, IdsSound, Added
  <2>3. \A v \in Workers : worker'[v] # Idle => worker'[v].msg.id <= seq /\ worker'[v].msg.id \in Nat
    BY <1>6 DEF Structure, IdsSound, Working, Added
  <2>4. \A i, j \in DOMAIN queue' : queue'[i].id = queue'[j].id => i = j
    BY <1>1, <1>2, <1>3, <1>4 DEF Structure, IdsSound
  <2>5. \A k, l \in inflight' : k.msg.id = l.msg.id => k = l
    BY DEF Structure, IdsSound, Added
  <2>6. \A i \in DOMAIN queue', l \in inflight' : queue'[i].id # l.msg.id
    BY <1>1, <1>2, <1>3, <2>2 DEF Structure, IdsSound, Added
  <2>7. \A i \in DOMAIN queue', v \in Workers : worker'[v] # Idle => queue'[i].id # worker'[v].msg.id
    BY <1>1, <1>2, <1>3, <2>3 DEF Structure, IdsSound, Working, Added
  <2>8. \A v \in Workers, l \in inflight' :
          worker'[v] # Idle /\ l.msg.id = worker'[v].msg.id => l.msg.file = worker'[v].msg.file
    BY DEF Structure, IdsSound, Working, Of, Added
  <2> QED BY <1>3, <2>1, <2>2, <2>3, <2>4, <2>5, <2>6, <2>7, <2>8 DEF IdsSound, Working, Of
<1>9. ASSUME NEW g \in Files, Untouched(g), g # f
      PROVE  Untouched(g)'
  BY <1>1, <1>2, <1>9 DEF Untouched, Working, Of, Added
<1> QED BY <1>7, <1>8, <1>9 DEF Structure

LEMMA EmptiedKeeps ==
  ASSUME Emptied
  PROVE  Structure' /\ \A f \in Files : Untouched(f)'
<1>1. DOMAIN queue' = {} /\ inflight' = {} /\ \A w \in Workers : worker'[w] = Idle
  BY DEF Emptied
<1> QED BY <1>1 DEF Structure, OneOf, IdsSound, Untouched, Working

-----------------------------------------------------------------------------
(* What a step does to the other variables *)

\* A worker writes the row of its file only, and leaves a ready file without an attempt.
RowWritten(w) ==
  /\ file' \in [Files -> FileRow]
  /\ \A f \in Files : f # Of(w) => file'[f] = file[f]
  /\ \/ file'[Of(w)] = file[Of(w)]
     \/ /\ file'[Of(w)].status # "new"
        /\ file'[Of(w)].status = "ready" => file'[Of(w)].attempt = NoWorker

LEMMA RowIs ==
  ASSUME TypeOK, NEW w \in Workers, Working(w),
         NEW status \in {"queued", "extracting", "embedding", "ready", "failed"},
         NEW attempt \in Workers \cup {NoWorker},
         file' = [file EXCEPT ![Of(w)] = [status |-> status, attempt |-> attempt]]
  PROVE  /\ file' \in [Files -> FileRow] /\ Of(w) \in Files
         /\ \A f \in Files : f # Of(w) => file'[f] = file[f]
         /\ file'[Of(w)].status = status /\ file'[Of(w)].attempt = attempt
<1>1. Of(w) \in Files /\ file \in [Files -> FileRow]
  BY IdIsNat, TypeParts DEF Of, Message
<1> DEFINE made == [status |-> status, attempt |-> attempt]
<1>2. made \in FileRow /\ made.status = status /\ made.attempt = attempt
  BY DEF FileRow, Open
<1>3. file' = [file EXCEPT ![Of(w)] = made]
  OBVIOUS
<1> HIDE DEF made
<1> QED BY <1>1, <1>2, <1>3

LEMMA UpdatedIs ==
  ASSUME TypeOK, NEW w \in Workers, Working(w),
         NEW status \in {"queued", "extracting", "embedding", "ready", "failed"},
         file' = Updated(w, status)
  PROVE  /\ RowWritten(w) /\ Of(w) \in Files
         /\ ~Holds(w) => file' = file
         /\ Holds(w) => /\ file'[Of(w)].status = status
                        /\ file'[Of(w)].attempt = IF status \in {"ready", "failed"} THEN NoWorker ELSE w
<1>1. Of(w) \in Files /\ file \in [Files -> FileRow]
  BY IdIsNat, TypeParts DEF Of, Message
<1> DEFINE attempt == IF status \in {"ready", "failed"} THEN NoWorker ELSE w
<1>2. CASE Holds(w)
  <2>1. attempt \in Workers \cup {NoWorker} /\ (status = "ready" => attempt = NoWorker)
    OBVIOUS
  <2>2. file' = [file EXCEPT ![Of(w)] = [status |-> status, attempt |-> attempt]]
    BY <1>2 DEF Updated
  <2> HIDE DEF attempt
  <2>3. /\ file' \in [Files -> FileRow]
        /\ \A f \in Files : f # Of(w) => file'[f] = file[f]
        /\ file'[Of(w)].status = status /\ file'[Of(w)].attempt = attempt
    BY <2>1, <2>2, RowIs, ZenonT(60)
  <2> USE DEF attempt
  <2> QED BY <1>1, <1>2, <2>1, <2>3 DEF RowWritten
<1>3. CASE ~Holds(w)
  BY <1>1, <1>3 DEF Updated, RowWritten
<1> QED BY <1>2, <1>3

LEMMA FailedIs ==
  ASSUME TypeOK, NEW f \in Files, NEW status \in {"queued", "failed"},
         file' = [file EXCEPT ![f].status = status]
  PROVE  /\ file' \in [Files -> FileRow]
         /\ \A g \in Files : g # f => file'[g] = file[g]
         /\ file'[f].status = status /\ file'[f].attempt = file[f].attempt
<1>1. file \in [Files -> FileRow] /\ file[f] \in FileRow
  BY TypeParts
<1> DEFINE made == [file[f] EXCEPT !.status = status]
<1>2. made \in FileRow /\ made.status = status /\ made.attempt = file[f].attempt
  BY <1>1 DEF FileRow, Open
<1>3. file' = [file EXCEPT ![f] = made]
  BY <1>1
<1> HIDE DEF made
<1> QED BY <1>1, <1>2, <1>3

LEMMA ClaimIs ==
  ASSUME TypeOK, NEW w \in Workers, Working(w),
         file' = [file EXCEPT ![Of(w)] = [status |-> "extracting", attempt |-> w]]
  PROVE  RowWritten(w) /\ file'[Of(w)].status = "extracting" /\ file'[Of(w)].attempt = w
BY RowIs DEF RowWritten

LEMMA ResetIs ==
  ASSUME TypeOK, NEW w \in Workers, Working(w),
         file' = [file EXCEPT ![Of(w)] = [status |-> "queued", attempt |-> NoWorker]]
  PROVE  RowWritten(w) /\ file'[Of(w)].status = "queued" /\ file'[Of(w)].attempt = NoWorker
BY RowIs DEF RowWritten

LEMMA RowSteps ==
  ASSUME TypeOK, NEW w \in Workers, Process(w) \/ Finish(w)
  PROVE  Of(w) \in Files /\ RowWritten(w)
<1>1. Working(w)
  BY WorkerSteps
<1>2. Of(w) \in Files /\ file \in [Files -> FileRow]
  BY <1>1, IdIsNat, TypeParts DEF Of, Message
<1> SUFFICES RowWritten(w)
  BY <1>2
<1>3. file' = file => RowWritten(w)
  BY <1>2 DEF RowWritten
<1>4. \A status \in {"queued", "extracting", "embedding", "ready", "failed"} :
        file' = Updated(w, status) => RowWritten(w)
  BY <1>1, UpdatedIs
<1>5. CASE Abandon(w) \/ ExtractFails(w) \/ Embed(w) \/ Verify(w) \/ Requeue(w) \/ FinalizeRead(w)
           \/ Bury(w) \/ Lookup(w) \/ Settle(w)
  BY <1>3, <1>5 DEF Abandon, ExtractFails, Embed, Verify, Requeue, FinalizeRead, Bury, Lookup, Settle
<1>6. CASE TryClaim(w)
  BY <1>1, <1>3, <1>6, ClaimIs DEF TryClaim
<1>7. CASE MarkFailed(w) \/ Extract(w) \/ WriteReady(w) \/ ForceFailed(w)
  BY <1>3, <1>4, <1>7 DEF MarkFailed, Extract, WriteReady, ForceFailed, WriteClaimed
<1>8. CASE Reset(w)
  BY <1>1, <1>3, <1>8, ResetIs DEF Reset
<1>9. CASE Override(w)
  <2>1. file' = [file EXCEPT ![Of(w)].status = "failed"] => RowWritten(w)
    BY <1>2, FailedIs DEF RowWritten
  <2> QED BY <1>3, <1>9, <2>1 DEF Override
<1> QED BY <1>5, <1>6, <1>7, <1>8, <1>9 DEF Process, Finish

LEMMA BoundsSteps ==
  ASSUME TypeOK, NEW w \in Workers, Process(w) \/ Finish(w)
  PROVE  /\ crashes' = crashes /\ lapses' = lapses /\ upload' = upload
         /\ faults' = faults \/ (faults' = faults + 1 /\ faults < MaxFaults)
<1>1. CASE Process(w)
  BY <1>1 DEF Process, Abandon, TryClaim, ExtractFails, MarkFailed, Extract, Embed, WriteReady,
     WriteClaimed, Works, Fault, bounds
<1>2. CASE Finish(w)
  BY <1>2 DEF Finish, Verify, Reset, Requeue, FinalizeRead, ForceFailed, Override, Bury, Lookup, Settle,
     WriteClaimed, Works, Fault, bounds
<1> QED BY <1>1, <1>2

\* Only a retry puts a message in the queue.
LEMMA BrokerSteps ==
  ASSUME NEW w \in Workers, Process(w) \/ Finish(w)
  PROVE  \/ /\ queue' = queue /\ seq' = seq
            /\ inflight' \in {inflight, Renewed(w), Unleased(w)}
            /\ dlq' \in {dlq, dlq \cup {worker[w].msg}}
         \/ /\ Requeue(w) /\ Owns(w) /\ Enqueued(Of(w), worker[w].msg.retry + 1, TRUE)
            /\ inflight' = Unleased(w) /\ dlq' = dlq
<1>1. CASE Process(w)
  BY <1>1 DEF Process, Abandon, TryClaim, ExtractFails, MarkFailed, Extract, Embed, WriteReady, broker
<1>2. CASE Verify(w) \/ Reset(w) \/ FinalizeRead(w) \/ ForceFailed(w) \/ Override(w) \/ Bury(w)
           \/ Lookup(w) \/ Settle(w)
  BY <1>2 DEF Verify, Reset, FinalizeRead, ForceFailed, Override, Bury, Lookup, Settle, broker
<1>3. CASE Requeue(w)
  BY <1>3 DEF Requeue
<1> QED BY <1>1, <1>2, <1>3 DEF Finish

-----------------------------------------------------------------------------
(* The structure is kept *)

LEMMA LapsedIs ==
  ASSUME NEW l \in Lease, NEW lapsed \in BOOLEAN
  PROVE  /\ [l EXCEPT !.lapsed = lapsed] \in Lease
         /\ [l EXCEPT !.lapsed = lapsed].msg = l.msg /\ [l EXCEPT !.lapsed = lapsed].owner = l.owner
         /\ [l EXCEPT !.lapsed = lapsed].lapsed = lapsed
BY DEF Lease

\* A renewed lease is the lease it was, but for the time.
LEMMA RenewedIs ==
  ASSUME TypeOK, NEW w \in Workers, NEW k \in Renewed(w)
  PROVE  /\ k \in Lease
         /\ \/ k \in Unleased(w)
            \/ \E l \in Leases(w) : /\ k = [l EXCEPT !.lapsed = FALSE] /\ k.msg = l.msg
                                    /\ k.owner = l.owner /\ ~k.lapsed
<1>1. inflight \subseteq Lease
  BY TypeParts
<1>2. CASE k \in Unleased(w)
  BY <1>1, <1>2 DEF Unleased
<1>3. CASE k \in {[l EXCEPT !.lapsed = FALSE] : l \in Leases(w)}
  <2>1. PICK l \in Leases(w) : k = [l EXCEPT !.lapsed = FALSE]
    BY <1>3
  <2>2. l \in Lease
    BY <1>1 DEF Leases
  <2>3. k \in Lease /\ k.msg = l.msg /\ k.owner = l.owner /\ k.lapsed = FALSE
    BY <2>1, <2>2, LapsedIs
  <2> QED BY <2>1, <2>3
<1> QED BY <1>2, <1>3 DEF Renewed

LEMMA SubsetFollows ==
  ASSUME Structure, inflight' \subseteq inflight
  PROVE  LeasesFollow
BY DEF LeasesFollow, Structure, OneOf, Same

LEMMA RenewedFollows ==
  ASSUME TypeOK, Structure, NEW w \in Workers, inflight' = Renewed(w)
  PROVE  LeasesFollow
<1>1. \A k \in inflight' : \/ k \in inflight /\ k \notin Leases(w)
                           \/ \E l \in inflight : /\ l \in Leases(w) /\ k = [l EXCEPT !.lapsed = FALSE]
                                                  /\ k.msg = l.msg
  BY RenewedIs DEF Leases, Unleased
<1>2. \A k \in inflight' : \E l \in inflight : Same(k.msg, l.msg)
  BY <1>1 DEF Same
<1>3. ASSUME NEW j \in inflight', NEW k \in inflight', j.msg.file = k.msg.file
      PROVE  j = k
  <2> DEFINE renewed(l) == IF l \in Leases(w) THEN [l EXCEPT !.lapsed = FALSE] ELSE l
  <2>1. PICK a \in inflight : a.msg = j.msg /\ j = renewed(a)
    BY <1>1
  <2>2. PICK b \in inflight : b.msg = k.msg /\ k = renewed(b)
    BY <1>1
  <2>3. a = b
    BY <1>3, <2>1, <2>2 DEF Structure, OneOf
  <2> HIDE DEF renewed
  <2> QED BY <2>1, <2>2, <2>3
<1> QED BY <1>2, <1>3 DEF LeasesFollow

\* One lease is replaced by another one of the same message.
LEMMA ReplacedFollows ==
  ASSUME Structure, NEW l \in inflight, NEW m, Same(m.msg, l.msg),
         inflight' = (inflight \ {l}) \cup {m}
  PROVE  LeasesFollow
<1>1. \A k \in inflight' : (k \in inflight /\ k # l) \/ k = m
  OBVIOUS
<1>2. \A k \in inflight : k # l => k.msg.file # m.msg.file
  BY DEF Structure, OneOf, Same
<1>3. \A k \in inflight' : \E j \in inflight : Same(k.msg, j.msg)
  BY <1>1 DEF Same
<1>4. \A j, k \in inflight' : j.msg.file = k.msg.file => j = k
  BY <1>1, <1>2 DEF Structure, OneOf
<1> QED BY <1>3, <1>4 DEF LeasesFollow

LEMMA KeptFollow ==
  ASSUME \A w \in Workers : worker'[w] = worker[w] \/ worker'[w] = Idle
  PROVE  WorkersFollow
BY DEF WorkersFollow, Working, Same

\* The lease of a worker that owns its message is the only one of its file.
LEMMA OwnedAlone ==
  ASSUME Structure, NEW w \in Workers, Working(w), Owns(w)
  PROVE  /\ \E l \in Leases(w) : l \in inflight /\ l.msg.file = Of(w) /\ l.msg.id = worker[w].msg.id /\ l.owner = w
         /\ \A i \in DOMAIN queue : queue[i].file # Of(w)
         /\ \A l \in Unleased(w) : l.msg.file # Of(w)
         /\ \A k, l \in Leases(w) : k = l
<1>1. PICK l \in Leases(w) : TRUE
  BY DEF Owns
<1>2. l \in inflight /\ l.msg.id = worker[w].msg.id /\ l.owner = w
  BY <1>1 DEF Leases
<1>3. l.msg.file = Of(w)
  BY <1>2 DEF Structure, IdsSound
<1>4. \A k \in Leases(w) : k = l
  BY <1>2 DEF Structure, IdsSound, Leases
<1>5. \A i \in DOMAIN queue : queue[i].file # Of(w)
  BY <1>2, <1>3 DEF Structure, OneOf
<1>6. \A k \in Unleased(w) : k.msg.file # Of(w)
  BY <1>1, <1>2, <1>3 DEF Structure, OneOf, Unleased
<1> QED BY <1>1, <1>2, <1>3, <1>4, <1>5, <1>6

LEMMA RequeueAdds ==
  ASSUME TypeOK, Structure, AttemptsSound, NEW w \in Workers, Requeue(w), Owns(w),
         Enqueued(Of(w), worker[w].msg.retry + 1, TRUE), inflight' = Unleased(w)
  PROVE  Added(Of(w)) /\ Of(w) \in Files
<1>1. Working(w) /\ KeepsMessage(w)
  BY WorkerSteps DEF Finish
<1>2. worker[w].msg \in Message /\ Of(w) \in Files /\ seq \in Nat
  BY <1>1, IdIsNat, TypeParts DEF Of, Message
<1>3. worker[w].msg.retry < MaxRetries /\ MaxRetries \in Nat /\ worker[w].msg.retry \in 0..MaxRetries
  BY <1>2, FileProcessingAssumption DEF AttemptsSound, Requeue, At, Message
<1> DEFINE m == [id |-> seq + 1, file |-> Of(w), retry |-> worker[w].msg.retry + 1, failed |-> TRUE,
                 reclaimed |-> FALSE]
<1>4. m \in Message /\ m.id = seq + 1 /\ m.file = Of(w)
  BY <1>2, <1>3 DEF Message
<1>5. queue' = Append(queue, m) /\ seq' = seq + 1
  BY DEF Enqueued
<1> HIDE DEF m
<1>6. \A v \in Workers : worker'[v] = worker[v] \/ worker'[v] = Idle
  BY GiveUpIs DEF Requeue
<1>7. inflight' \subseteq inflight
  BY DEF Unleased
<1> QED BY <1>1, <1>2, <1>4, <1>5, <1>6, <1>7, OwnedAlone DEF Added

LEMMA EnqueueAdds ==
  ASSUME TypeOK, UploadsSound, NEW f \in Files, upload[f] = "stored", Enqueued(f, 0, FALSE),
         inflight' = inflight, worker' = worker
  PROVE  Added(f)
<1>1. Untouched(f) /\ seq \in Nat /\ 0 \in 0..MaxRetries
  BY TypeParts, FileProcessingAssumption DEF UploadsSound
<1> DEFINE m == [id |-> seq + 1, file |-> f, retry |-> 0, failed |-> FALSE, reclaimed |-> FALSE]
<1>2. m \in Message /\ m.id = seq + 1 /\ m.file = f
  BY <1>1 DEF Message
<1>3. queue' = Append(queue, m) /\ seq' = seq + 1
  BY DEF Enqueued
<1> HIDE DEF m
<1> QED BY <1>1, <1>2, <1>3 DEF Added, Untouched

\* How messages move.
LEMMA Moves ==
  ASSUME TypeOK, Structure, UploadsSound, AttemptsSound, [Next]_vars
  PROVE  \/ Derived
         \/ \E w \in Workers : Read(w)
         \/ Emptied
         \/ \E f \in Files : Added(f) /\ Enqueue(f)
         \/ \E w \in Workers : Added(Of(w)) /\ Requeue(w) /\ Of(w) \in Files
<1>0. queue' = queue /\ seq' = seq /\ inflight' = inflight /\ worker' = worker => Derived
  <2> SUFFICES ASSUME queue' = queue, seq' = seq, inflight' = inflight, worker' = worker
               PROVE  Derived
    OBVIOUS
  <2> QED BY SubsetFollows, KeptFollow DEF Derived
<1>1. ASSUME NEW f \in Files, Upload(f) \/ MarkRefused(f)
      PROVE  Derived
  BY <1>0, <1>1 DEF Upload, MarkRefused, broker
<1>2. ASSUME NEW f \in Files, Enqueue(f)
      PROVE  Derived \/ (Added(f) /\ Enqueue(f))
  BY <1>0, <1>2, EnqueueAdds DEF Enqueue
<1>3. ASSUME NEW w \in Workers, ClaimTimedOut(w)
      PROVE  Derived
  <2>1. PICK l \in inflight :
          /\ Take(w, [l.msg EXCEPT !.reclaimed = TRUE])
          /\ inflight' = (inflight \ {l}) \cup
                           {[msg |-> [l.msg EXCEPT !.reclaimed = TRUE], owner |-> w, lapsed |-> FALSE]}
    BY <1>3 DEF ClaimTimedOut
  <2> DEFINE msg == [l.msg EXCEPT !.reclaimed = TRUE]
             lease == [msg |-> msg, owner |-> w, lapsed |-> FALSE]
  <2>2. l.msg \in Message
    BY IdIsNat
  <2>3. msg \in Message /\ Same(msg, l.msg)
    BY <2>2 DEF Message, Same
  <2>4. lease.msg = msg
    OBVIOUS
  <2>5. Take(w, msg) /\ inflight' = (inflight \ {l}) \cup {lease}
    BY <2>1
  <2> HIDE DEF lease, msg
  <2>6. LeasesFollow
    BY <2>3, <2>4, <2>5, ReplacedFollows
  <2>7. worker'[w].msg = msg /\ \A v \in Workers : v # w => worker'[v] = worker[v]
    BY <2>3, <2>5, TakeIs
  <2>8. WorkersFollow
    BY <2>3, <2>7 DEF WorkersFollow, Working, Same
  <2> QED BY <1>3, <2>6, <2>8 DEF Derived, ClaimTimedOut
<1>4. ASSUME NEW w \in Workers, RenewLease(w)
      PROVE  Derived
  <2>1. LeasesFollow
    BY <1>4, RenewedFollows DEF RenewLease
  <2>2. WorkersFollow
    BY <1>4, KeptFollow DEF RenewLease
  <2> QED BY <1>4, <2>1, <2>2 DEF Derived, RenewLease
<1>5. ASSUME NEW w \in Workers, Crash(w)
      PROVE  Derived \/ Emptied
  <2>1. CASE durable
    <3>1. LeasesFollow
      BY <1>5, <2>1, SubsetFollows DEF Crash
    <3>2. WorkersFollow
      BY <1>5, <2>1, GiveUpIs, KeptFollow DEF Crash
    <3> QED BY <1>5, <2>1, <3>1, <3>2 DEF Derived, Crash
  <2>2. CASE ~durable
    BY <1>5, <2>2 DEF Crash, Emptied
  <2> QED BY <2>1, <2>2
<1>6. ASSUME NEW w \in Workers, Process(w) \/ Finish(w)
      PROVE  Derived \/ (Added(Of(w)) /\ Requeue(w) /\ Of(w) \in Files)
  <2>1. Working(w) /\ KeepsMessage(w)
    BY <1>6, WorkerSteps
  <2>2. CASE /\ queue' = queue /\ seq' = seq
             /\ inflight' \in {inflight, Renewed(w), Unleased(w)}
    <3>1. LeasesFollow
      BY <2>2, SubsetFollows, RenewedFollows DEF Unleased
    <3>2. WorkersFollow
      BY <2>1 DEF KeepsMessage, WorkersFollow, Working, Same
    <3> QED BY <2>2, <3>1, <3>2 DEF Derived
  <2>3. CASE /\ Requeue(w) /\ Owns(w) /\ Enqueued(Of(w), worker[w].msg.retry + 1, TRUE)
             /\ inflight' = Unleased(w)
    BY <2>3, RequeueAdds
  <2> QED BY <1>6, <2>2, <2>3, BrokerSteps
<1>7. ASSUME NEW l \in inflight, Lapse(l)
      PROVE  Derived
  <2>1. l \in Lease
    BY TypeParts
  <2>2. [l EXCEPT !.lapsed = TRUE].msg = l.msg
    BY <2>1, LapsedIs
  <2>3. LeasesFollow
    BY <1>7, <2>2, ReplacedFollows DEF Lapse, Same
  <2>4. WorkersFollow
    BY <1>7, KeptFollow DEF Lapse
  <2> QED BY <1>7, <2>3, <2>4 DEF Derived, Lapse
<1>8. CASE UNCHANGED vars
  BY <1>0, <1>8 DEF vars
<1>9. ASSUME NEW f \in Files, Upload(f) \/ Enqueue(f) \/ MarkRefused(f)
      PROVE  Derived \/ (Added(f) /\ Enqueue(f))
  BY <1>1, <1>2, <1>9
<1> QED BY <1>3, <1>4, <1>5, <1>6, <1>7, <1>8, <1>9, StepCases

LEMMA StructureStep ==
  ASSUME TypeOK, Structure, UploadsSound, AttemptsSound, [Next]_vars
  PROVE  /\ Structure'
         /\ \A f \in Files : Untouched(f) => Untouched(f)' \/ (Enqueue(f) /\ Added(f))
<1>1. CASE Derived
  BY <1>1, DerivedKeeps
<1>2. CASE \E w \in Workers : Read(w)
  BY <1>2, ReadKeeps
<1>3. CASE Emptied
  BY <1>3, EmptiedKeeps
<1>4. CASE \E f \in Files : Added(f) /\ Enqueue(f)
  BY <1>4, AddedKeeps
<1>5. ASSUME NEW w \in Workers, Added(Of(w)), Requeue(w), Of(w) \in Files
      PROVE  Structure' /\ \A f \in Files : Untouched(f) => Untouched(f)'
  <2>1. Working(w)
    BY <1>5, WorkerSteps DEF Finish
  <2> QED BY <1>5, <2>1, AddedKeeps DEF Untouched
<1> QED BY <1>1, <1>2, <1>3, <1>4, <1>5, Moves

-----------------------------------------------------------------------------
(* Types, uploads and attempts *)

UploadState == {"new", "stored", "refused", "done", "dropped"}

LEMMA UploadIs ==
  ASSUME TypeOK, NEW f \in Files, NEW state \in UploadState, upload' = [upload EXCEPT ![f] = state]
  PROVE  /\ upload' \in [Files -> UploadState] /\ upload'[f] = state
         /\ \A g \in Files : g # f => upload'[g] = upload[g]
BY TypeParts DEF UploadState

LEMMA RequestSteps ==
  ASSUME TypeOK, NEW f \in Files, Upload(f) \/ Enqueue(f) \/ MarkRefused(f)
  PROVE  /\ file' \in [Files -> FileRow] /\ upload' \in [Files -> UploadState]
         /\ \A g \in Files : g # f => upload'[g] = upload[g] /\ file'[g] = file[g]
         /\ worker' = worker /\ inflight' = inflight /\ dlq' = dlq
         /\ faults' \in 0..MaxFaults /\ crashes' = crashes /\ lapses' = lapses
         /\ faults' = faults \/ faults' = faults + 1
<1>1. file \in [Files -> FileRow] /\ faults \in 0..MaxFaults /\ MaxFaults \in Nat
  BY TypeParts, FileProcessingAssumption
<1>2. file' \in [Files -> FileRow] /\ \A g \in Files : g # f => file'[g] = file[g]
  BY <1>1, FailedIs DEF Upload, Enqueue, MarkRefused
<1>3. upload' \in [Files -> UploadState] /\ \A g \in Files : g # f => upload'[g] = upload[g]
  BY UploadIs DEF Upload, Enqueue, MarkRefused, UploadState
<1>4. worker' = worker /\ inflight' = inflight /\ dlq' = dlq
  BY DEF Upload, Enqueue, MarkRefused, broker
<1>5. crashes' = crashes /\ lapses' = lapses /\ (faults' = faults \/ (faults' = faults + 1 /\ faults < MaxFaults))
  BY DEF Upload, Enqueue, MarkRefused, Fault, Works, bounds
<1> QED BY <1>1, <1>2, <1>3, <1>4, <1>5

LEMMA TypeStep ==
  ASSUME TypeOK, Structure, UploadsSound, AttemptsSound, [Next]_vars
  PROVE  TypeOK'
<1> USE TypeParts, FileProcessingAssumption
<1>1. durable' \in BOOLEAN
  BY DEF Next, vars
<1>2. queue' \in Seq(Message) /\ seq' \in Nat
  <2>1. CASE Derived
    BY <2>1 DEF Derived
  <2>2. ASSUME NEW w \in Workers, Read(w)
        PROVE  queue' \in Seq(Message) /\ seq' \in Nat
    BY <2>2, TailIs DEF Read
  <2>3. CASE Emptied
    BY <2>3 DEF Emptied
  <2>4. ASSUME NEW f \in Files, Added(f)
        PROVE  queue' \in Seq(Message) /\ seq' \in Nat
    BY <2>4, AppendIs DEF Added
  <2> QED BY <2>1, <2>2, <2>3, <2>4, Moves
<1> DEFINE Rest ==
      /\ file' \in [Files -> FileRow] /\ upload' \in [Files -> UploadState]
      /\ dlq' \subseteq Message /\ inflight' \subseteq Lease
      /\ worker' \in [Workers -> {Idle} \cup WorkState]
      /\ faults' \in 0..MaxFaults /\ crashes' \in 0..MaxCrashes /\ lapses' \in 0..MaxLapses
<1> SUFFICES Rest
  <2>1. durable' \in BOOLEAN /\ queue' \in Seq(Message) /\ seq' \in Nat
    BY <1>1, <1>2
  <2> QED BY <2>1 DEF TypeOK, FileRow, UploadState, Lease, WorkState
<1>3. ASSUME NEW f \in Files, Upload(f) \/ Enqueue(f) \/ MarkRefused(f)
      PROVE  Rest
  BY <1>3, RequestSteps
<1>4. ASSUME NEW w \in Workers, ClaimTimedOut(w)
      PROVE  Rest
  <2>1. PICK l \in inflight :
          /\ Take(w, [l.msg EXCEPT !.reclaimed = TRUE])
          /\ inflight' = (inflight \ {l}) \cup
                           {[msg |-> [l.msg EXCEPT !.reclaimed = TRUE], owner |-> w, lapsed |-> FALSE]}
    BY <1>4 DEF ClaimTimedOut
  <2>2. [l.msg EXCEPT !.reclaimed = TRUE] \in Message
    BY IdIsNat DEF Message
  <2>3. worker' \in [Workers -> {Idle} \cup WorkState]
    BY <2>1, <2>2, TakeIs
  <2>4. [msg |-> [l.msg EXCEPT !.reclaimed = TRUE], owner |-> w, lapsed |-> FALSE] \in Lease
    BY <2>2 DEF Lease
  <2> QED BY <1>4, <2>1, <2>3, <2>4 DEF ClaimTimedOut, bounds, UploadState
<1>5. ASSUME NEW w \in Workers, Read(w)
      PROVE  Rest
  <2>1. Head(queue) \in Message
    BY <1>5, TailIs DEF Read
  <2>2. worker' \in [Workers -> {Idle} \cup WorkState]
    BY <1>5, <2>1, TakeIs DEF Read
  <2>3. [msg |-> Head(queue), owner |-> w, lapsed |-> FALSE] \in Lease
    BY <2>1 DEF Lease
  <2> QED BY <1>5, <2>2, <2>3 DEF Read, bounds, UploadState
<1>6. ASSUME NEW w \in Workers, RenewLease(w)
      PROVE  Rest
  <2>1. inflight' \subseteq Lease
    BY <1>6, RenewedIs DEF RenewLease
  <2> QED BY <1>6, <2>1 DEF RenewLease, bounds, UploadState
<1>7. ASSUME NEW w \in Workers, Crash(w)
      PROVE  Rest
  <2>1. worker' \in [Workers -> {Idle} \cup WorkState] /\ dlq' \subseteq Message /\ inflight' \subseteq Lease
    BY <1>7, GiveUpIs DEF Crash
  <2>2. upload' \in [Files -> UploadState]
    BY <1>7 DEF Crash, UploadState
  <2> QED BY <1>7, <2>1, <2>2 DEF Crash
<1>8. ASSUME NEW w \in Workers, Process(w) \/ Finish(w)
      PROVE  Rest
  <2>1. worker' \in [Workers -> {Idle} \cup WorkState] /\ worker[w].msg \in Message
    BY <1>8, WorkerSteps, IdIsNat DEF KeepsMessage
  <2>2. file' \in [Files -> FileRow]
    BY <1>8, RowSteps DEF RowWritten
  <2>3. inflight' \subseteq Lease
    BY <1>8, BrokerSteps, RenewedIs DEF Unleased
  <2>4. dlq' \subseteq Message
    BY <1>8, <2>1, BrokerSteps
  <2> QED BY <1>8, <2>1, <2>2, <2>3, <2>4, BoundsSteps DEF UploadState
<1>9. ASSUME NEW l \in inflight, Lapse(l)
      PROVE  Rest
  <2>1. [l EXCEPT !.lapsed = TRUE] \in Lease
    BY LapsedIs
  <2>2. lapses' \in 0..MaxLapses
    BY <1>9 DEF Lapse
  <2>3. inflight' \subseteq Lease
    BY <1>9, <2>1 DEF Lapse
  <2> QED BY <1>9, <2>2, <2>3 DEF Lapse, UploadState
<1>10. CASE UNCHANGED vars
  BY <1>10 DEF vars, UploadState
<1> QED BY <1>3, <1>4, <1>5, <1>6, <1>7, <1>8, <1>9, <1>10, StepCases

LEMMA UploadsStep ==
  ASSUME TypeOK, Structure, UploadsSound, AttemptsSound, [Next]_vars
  PROVE  UploadsSound'
<1> DEFINE Sound(f, touched) ==
      /\ upload'[f] = "new" <=> file'[f].status = "new"
      /\ upload'[f] \in {"new", "stored"} => ~touched
      /\ upload'[f] = "stored" => file'[f].status = "queued"
      /\ upload'[f] = "refused" /\ faults' = 0 => ~touched /\ file'[f].status = "queued"
<1>0. ASSUME NEW f \in Files
      PROVE  Untouched(f) => Untouched(f)' \/ (Enqueue(f) /\ Added(f))
  BY StructureStep
<1> SUFFICES ASSUME NEW f \in Files
             PROVE  Sound(f, ~Untouched(f)')
  BY DEF UploadsSound
<1> DEFINE U == Untouched(f)
           V == Untouched(f)'
<1>a. /\ upload[f] = "new" <=> file[f].status = "new"
      /\ upload[f] \in {"new", "stored"} => U
      /\ upload[f] = "stored" => file[f].status = "queued"
      /\ upload[f] = "refused" /\ faults = 0 => U /\ file[f].status = "queued"
  BY DEF UploadsSound
<1>b. U => V \/ (Enqueue(f) /\ Added(f))
  BY <1>0
<1> HIDE DEF U, V
<1> SUFFICES Sound(f, ~V)
  BY DEF V
<1>c. faults \in Nat
  BY TypeParts, FileProcessingAssumption
<1>d. ASSUME upload' = upload, file' = file, faults' = faults \/ faults' = faults + 1, ~Enqueue(f)
      PROVE  Sound(f, ~V)
  BY <1>a, <1>b, <1>c, <1>d
<1>1. CASE Upload(f)
  <2>1. upload'[f] = "stored" /\ file'[f].status = "queued" /\ U /\ ~Enqueue(f)
    BY <1>1, <1>a, UploadIs, FailedIs DEF Upload, UploadState, Enqueue
  <2> QED BY <2>1, <1>b
<1>2. CASE Enqueue(f)
  <2>1. file'[f].status = "queued" /\ U
    BY <1>2, <1>a DEF Enqueue
  <2>2. upload'[f] = "done" \/ upload'[f] = "refused"
    BY <1>2, UploadIs DEF Enqueue, UploadState
  <2>3. upload'[f] = "refused" /\ faults' = 0 => queue' = queue
    <3>1. upload' = [upload EXCEPT ![f] = "done"] => upload'[f] = "done"
      BY UploadIs DEF UploadState
    <3>2. Fault => faults' # 0
      BY <1>c DEF Fault
    <3> QED BY <1>2, <3>1, <3>2 DEF Enqueue
  <2>4. queue' = queue => V
    <3>1. inflight' = inflight /\ worker' = worker
      BY <1>2 DEF Enqueue
    <3> QED BY <2>1, <3>1 DEF U, V, Untouched, Working, Of
  <2> QED BY <2>1, <2>2, <2>3, <2>4
<1>3. CASE MarkRefused(f)
  <2>1. upload'[f] \in {"done", "dropped"} /\ file'[f].status # "new"
    BY <1>3, <1>a, UploadIs, FailedIs DEF MarkRefused, UploadState
  <2> QED BY <2>1
<1>4. ASSUME NEW g \in Files, g # f, Upload(g) \/ Enqueue(g) \/ MarkRefused(g)
      PROVE  Sound(f, ~V)
  <2>1. upload'[f] = upload[f] /\ file'[f] = file[f] /\ (faults' = faults \/ faults' = faults + 1)
    BY <1>4, RequestSteps
  <2>2. Enqueue(f) => upload'[f] # upload[f]
    BY UploadIs DEF Enqueue, UploadState
  <2> QED BY <2>1, <2>2, <1>a, <1>b, <1>c
<1>5. ASSUME NEW w \in Workers, ClaimTimedOut(w) \/ Read(w) \/ RenewLease(w)
      PROVE  Sound(f, ~V)
  <2>1. upload' = upload /\ file' = file /\ faults' = faults
    BY <1>5 DEF ClaimTimedOut, Read, RenewLease, bounds
  <2>2. ~Enqueue(f)
    BY <2>1, UploadIs DEF Enqueue, UploadState
  <2> QED BY <2>1, <2>2, <1>d
<1>6. ASSUME NEW w \in Workers, Crash(w)
      PROVE  Sound(f, ~V)
  <2>1. file' = file /\ faults' = faults
    BY <1>6 DEF Crash
  <2>2. upload'[f] = upload[f] \/ (upload'[f] = "dropped" /\ upload[f] \in {"stored", "refused"})
    BY <1>6 DEF Crash
  <2>3. ~Enqueue(f)
    <3>1. crashes \in Nat /\ crashes' = crashes + 1
      BY <1>6, TypeParts, FileProcessingAssumption DEF Crash
    <3>2. Enqueue(f) => crashes' = crashes
      BY DEF Enqueue, Works, Fault, bounds
    <3> QED BY <3>1, <3>2
  <2> QED BY <2>1, <2>2, <2>3, <1>a, <1>b
<1>7. ASSUME NEW w \in Workers, Process(w) \/ Finish(w)
      PROVE  Sound(f, ~V)
  <2>1. upload' = upload /\ (faults' = faults \/ faults' = faults + 1)
    BY <1>7, BoundsSteps
  <2>2. ~Enqueue(f)
    BY <2>1, UploadIs DEF Enqueue, UploadState
  <2>3. CASE Of(w) # f
    <3>1. file'[f] = file[f]
      BY <1>7, <2>3, RowSteps DEF RowWritten
    <3> QED BY <2>1, <2>2, <3>1, <1>a, <1>b, <1>c
  <2>4. CASE Of(w) = f
    <3>1. ~U
      BY <1>7, <2>4, WorkerSteps DEF U, Untouched
    <3>2. file'[f] = file[f] \/ file'[f].status # "new"
      BY <1>7, <2>4, RowSteps DEF RowWritten
    <3> QED BY <2>1, <3>1, <3>2, <1>a, <1>c
  <2> QED BY <2>3, <2>4
<1>8. ASSUME NEW l \in inflight, Lapse(l)
      PROVE  Sound(f, ~V)
  <2>1. upload' = upload /\ file' = file /\ faults' = faults
    BY <1>8 DEF Lapse
  <2>2. ~Enqueue(f)
    BY <2>1, UploadIs DEF Enqueue, UploadState
  <2> QED BY <2>1, <2>2, <1>d
<1>9. CASE UNCHANGED vars
  <2>1. upload' = upload /\ file' = file /\ faults' = faults
    BY <1>9 DEF vars
  <2>2. ~Enqueue(f)
    BY <2>1, UploadIs DEF Enqueue, UploadState
  <2> QED BY <2>1, <2>2, <1>d
<1>10. ASSUME NEW g \in Files, Upload(g) \/ Enqueue(g) \/ MarkRefused(g)
       PROVE  Sound(f, ~V)
  BY <1>1, <1>2, <1>3, <1>4, <1>10
<1> HIDE DEF Sound
<1> QED BY <1>5, <1>6, <1>7, <1>8, <1>9, <1>10, StepCases

\* A worker that fails, fails because a call has failed, and retries while it may.
Honest(state) ==
  /\ state.pc \in {"resetting", "requeuing"} => state.msg.retry < MaxRetries
  /\ faults' = 0 => /\ state.err # "error"
                    /\ state.pc \notin {"resetting", "requeuing", "finalizing", "forcing", "overriding"}

LEMMA HonestSteps ==
  ASSUME TypeOK, AttemptsSound, NEW w \in Workers, Process(w) \/ Finish(w)
  PROVE  Honest(worker'[w])
<1>0. Working(w)
  BY WorkerSteps
<1>a. /\ worker[w].pc \in {"resetting", "requeuing"} => worker[w].msg.retry < MaxRetries
      /\ faults = 0 => /\ worker[w].err # "error"
                       /\ worker[w].pc \notin {"resetting", "requeuing", "finalizing", "forcing",
                                               "overriding"}
  BY DEF AttemptsSound
<1>b. faults \in Nat /\ (faults' = faults \/ faults' = faults + 1) /\ (faults' = 0 => faults = 0)
  BY BoundsSteps, TypeParts, FileProcessingAssumption
<1>c. Fault => faults' # 0
  BY <1>b DEF Fault
<1>1. GiveUp(w) => Honest(worker'[w])
  <2>1. GiveUp(w) => worker'[w].pc = "idle" /\ worker'[w].err = "none"
    BY GiveUpIs, IdleIsNot
  <2> QED BY <2>1 DEF Honest
<1>2. \A claimed \in BOOLEAN, err \in {"none", "lost", "error"} :
        Ends(w, claimed, err) /\ (faults' = 0 => err # "error") => Honest(worker'[w])
  BY <1>0, EndsIs DEF Honest
<1>3. \A pc \in Processing \cup Finishing :
        /\ Goto(w, pc)
        /\ pc \in {"resetting", "requeuing"} => worker[w].msg.retry < MaxRetries
        /\ faults' = 0 => pc \notin {"resetting", "requeuing", "finalizing", "forcing", "overriding"}
        => Honest(worker'[w])
  BY <1>0, <1>a, <1>b, GotoIs DEF Honest
<1>5. CASE Abandon(w) \/ Settle(w) \/ Bury(w) \/ Requeue(w)
  BY <1>1, <1>5 DEF Abandon, Settle, Bury, Requeue
<1>6. CASE TryClaim(w)
  <2>1. CASE worker' = [worker EXCEPT ![w] = [pc |-> "extracting", msg |-> worker[w].msg,
                                              claimed |-> TRUE, err |-> "none"]]
    <3>1. worker'[w].pc = "extracting" /\ worker'[w].err = "none"
      BY <2>1, TypeParts
    <3> QED BY <3>1 DEF Honest
  <2> QED BY <1>2, <1>c, <1>6, <2>1 DEF TryClaim
<1>7. CASE ExtractFails(w) \/ Embed(w)
  BY <1>3, <1>7 DEF ExtractFails, Embed, Processing
<1>8. CASE MarkFailed(w) \/ WriteReady(w)
  BY <1>2, <1>c, <1>8 DEF MarkFailed, WriteReady, WriteClaimed
<1>9. CASE Extract(w)
  BY <1>2, <1>3, <1>c, <1>9 DEF Extract, WriteClaimed, Processing
<1>10. CASE Verify(w)
  <2>1. /\ AfterVerify(w) \in Finishing
        /\ AfterVerify(w) \in {"resetting", "requeuing"} => worker[w].msg.retry < MaxRetries
        /\ worker[w].err # "error" =>
             AfterVerify(w) \notin {"resetting", "requeuing", "finalizing", "forcing", "overriding"}
    BY DEF AfterVerify, Finishing
  <2> QED BY <1>1, <1>3, <1>a, <1>b, <1>10, <2>1 DEF Verify
<1>11. CASE Reset(w)
  BY <1>1, <1>3, <1>a, <1>b, <1>11 DEF Reset, Finishing, At
<1>12. CASE FinalizeRead(w) \/ Lookup(w)
  BY <1>1, <1>3, <1>a, <1>b, <1>12 DEF FinalizeRead, Lookup, Finishing, At
<1>13. CASE ForceFailed(w) \/ Override(w)
  BY <1>1, <1>3, <1>a, <1>b, <1>13 DEF ForceFailed, WriteClaimed, Override, Finishing, At
<1> QED BY <1>5, <1>6, <1>7, <1>8, <1>9, <1>10, <1>11, <1>12, <1>13 DEF Process, Finish

\* An override is the only write without the attempt, so what is ready stays ready.
LEMMA ReadySteps ==
  ASSUME TypeOK, Structure, AttemptsSound, NEW w \in Workers, Process(w) \/ Finish(w)
  PROVE  /\ \A f \in Files : file'[f].status = "ready" => file'[f].attempt = NoWorker
         /\ \A f \in Files : file[f].status = "ready" /\ faults' = 0 => file'[f].status = "ready"
<1>0. Working(w) /\ Of(w) \in Files /\ RowWritten(w)
  BY WorkerSteps, RowSteps
<1>1. \A f \in Files : file'[f].status = "ready" => file'[f].attempt = NoWorker
  BY <1>0 DEF RowWritten, AttemptsSound
<1> DEFINE f == Of(w)
<1> SUFFICES ASSUME file[f].status = "ready", faults' = 0
             PROVE  file'[f].status = "ready"
  BY <1>0, <1>1 DEF RowWritten
<1>2. file[f].attempt = NoWorker /\ ~Holds(w)
  BY <1>0, FileProcessingAssumption DEF AttemptsSound, Holds
<1>3. faults = 0 /\ ~Fault
  BY BoundsSteps, TypeParts, FileProcessingAssumption DEF Fault
<1>4. \A status : Updated(w, status) = file
  BY <1>2 DEF Updated
<1>5. CASE TryClaim(w)
  <2>1. file[Of(w)].status \notin Claimable(w)
    BY DEF Claimable, Open
  <2> QED BY <1>5, <2>1 DEF TryClaim
<1>6. CASE MarkFailed(w) \/ Extract(w) \/ WriteReady(w) \/ ForceFailed(w)
  BY <1>4, <1>6 DEF MarkFailed, Extract, WriteReady, ForceFailed, WriteClaimed
<1>7. CASE Override(w)
  BY <1>0, <1>3, <1>7 DEF Override, AttemptsSound, At
<1>8. CASE Reset(w)
  BY <1>2, <1>8 DEF Reset
<1>9. CASE Abandon(w) \/ ExtractFails(w) \/ Embed(w) \/ Verify(w) \/ Requeue(w) \/ FinalizeRead(w)
           \/ Bury(w) \/ Lookup(w) \/ Settle(w)
  BY <1>9 DEF Abandon, ExtractFails, Embed, Verify, Requeue, FinalizeRead, Bury, Lookup, Settle
<1> QED BY <1>5, <1>6, <1>7, <1>8, <1>9 DEF Process, Finish

LEMMA AttemptsStep ==
  ASSUME TypeOK, Structure, UploadsSound, AttemptsSound, [Next]_vars
  PROVE  /\ AttemptsSound'
         /\ \A f \in Files : file[f].status = "ready" /\ faults' = 0 => file'[f].status = "ready"
<1> DEFINE Rows == /\ \A f \in Files : file'[f].status = "ready" => file'[f].attempt = NoWorker
                   /\ \A f \in Files : file[f].status = "ready" /\ faults' = 0 => file'[f].status = "ready"
           Moved == \A v \in Workers : worker'[v] = worker[v] \/ Honest(worker'[v])
           More == faults' = faults \/ faults' = faults + 1
<1> SUFFICES Rows /\ Moved /\ More
  <2>1. faults \in Nat
    BY TypeParts, FileProcessingAssumption
  <2>2. \A v \in Workers : Honest(worker'[v])
    BY <2>1 DEF AttemptsSound, Honest
  <2> QED BY <2>2 DEF AttemptsSound, Honest
<1>0. file' = file => Rows
  BY DEF AttemptsSound
<1>1. ASSUME NEW f \in Files, Upload(f) \/ Enqueue(f) \/ MarkRefused(f)
      PROVE  Rows /\ Moved /\ More
  <2>1. file[f].status # "ready" \/ faults' # 0 \/ file' = file
    <3>1. Upload(f) => file[f].status = "new"
      BY DEF UploadsSound, Upload
    <3>2. MarkRefused(f) => file[f].status # "ready" \/ faults # 0
      BY DEF UploadsSound, MarkRefused
    <3>3. faults' = 0 => faults = 0
      BY <1>1, RequestSteps, TypeParts, FileProcessingAssumption
    <3> QED BY <1>1, <3>1, <3>2, <3>3 DEF Enqueue
  <2>2. file'[f] = file[f] \/ file'[f].status # "ready"
    BY <1>1, FailedIs DEF Upload, Enqueue, MarkRefused
  <2>3. /\ \A g \in Files : g # f => file'[g] = file[g]
        /\ worker' = worker /\ More
    BY <1>1, RequestSteps
  <2> QED BY <2>1, <2>2, <2>3 DEF AttemptsSound
<1>2. ASSUME NEW w \in Workers, ClaimTimedOut(w) \/ Read(w)
      PROVE  Rows /\ Moved /\ More
  <2>1. PICK msg \in Message : Take(w, msg)
    <3>1. CASE Read(w)
      BY <3>1, TailIs, TypeParts DEF Read
    <3>2. CASE ClaimTimedOut(w)
      <4>1. \A l \in inflight : [l.msg EXCEPT !.reclaimed = TRUE] \in Message
        BY IdIsNat DEF Message
      <4> QED BY <3>2, <4>1 DEF ClaimTimedOut
    <3> QED BY <1>2, <3>1, <3>2
  <2>2. Moved
    BY <2>1, TakeIs DEF Honest
  <2>3. file' = file /\ More
    BY <1>2 DEF ClaimTimedOut, Read, bounds
  <2> QED BY <1>0, <2>2, <2>3
<1>3. ASSUME NEW w \in Workers, RenewLease(w)
      PROVE  Rows /\ Moved /\ More
  BY <1>0, <1>3 DEF RenewLease, bounds
<1>4. ASSUME NEW w \in Workers, Crash(w)
      PROVE  Rows /\ Moved /\ More
  <2>1. \A v \in Workers : worker'[v] = Idle => Honest(worker'[v])
    BY IdleIsNot DEF Honest
  <2>2. \A v \in Workers : worker'[v] = worker[v] \/ worker'[v] = Idle
    BY <1>4, GiveUpIs DEF Crash
  <2> QED BY <1>0, <1>4, <2>1, <2>2 DEF Crash
<1>5. ASSUME NEW w \in Workers, Process(w) \/ Finish(w)
      PROVE  Rows /\ Moved /\ More
  <2>1. Moved
    BY <1>5, HonestSteps, WorkerSteps DEF KeepsMessage
  <2> QED BY <1>5, <2>1, ReadySteps, BoundsSteps
<1>6. ASSUME NEW l \in inflight, Lapse(l)
      PROVE  Rows /\ Moved /\ More
  BY <1>0, <1>6 DEF Lapse
<1>7. CASE UNCHANGED vars
  BY <1>0, <1>7 DEF vars
<1> HIDE DEF Rows, Moved, More
<1> QED BY <1>1, <1>2, <1>3, <1>4, <1>5, <1>6, <1>7, StepCases

-----------------------------------------------------------------------------
(* As long as no process stops and no lease lapses at work *)

HasMessage(f) ==
  (\E i \in DOMAIN queue : queue[i].file = f) \/ (\E l \in inflight : l.msg.file = f)

HasLease(w) == \E l \in inflight : l.msg = worker[w].msg /\ l.owner = w /\ ~l.lapsed

\* What WorkerSound says of the row.
Stage(w) ==
  /\ worker[w].pc = "claiming" /\ file[Of(w)].status \in {"extracting", "embedding"}
       => worker[w].msg.reclaimed
  /\ worker[w].pc \in {"extracting", "failing", "embedding"} => Holds(w)
  /\ worker[w].pc = "writing" => Holds(w) \/ Done(w)
  /\ worker[w].pc = "verifying" /\ worker[w].err # "error" => Done(w)
  /\ worker[w].pc \in {"settling", "lookup", "burying"} => Done(w)
  /\ worker[w].pc = "requeuing" => file[Of(w)].status \in {"queued", "failed"}

AtWork == \A w \in Workers : Working(w) => HasLease(w) /\ Stage(w)
Waiting == \A i \in DOMAIN queue : file[queue[i].file].status \notin {"extracting", "embedding"}
Live == \A f \in Files : upload[f] = "done" /\ file[f].status \in Open => HasMessage(f)
Calm == AtWork /\ Waiting /\ Live

LEMMA HasMessageIs ==
  ASSUME TypeOK, NEW f \in Files
  PROVE  Queued(f) \cup Leased(f) # {} <=> HasMessage(f)
<1>1. queue \in Seq(Message) /\ DOMAIN queue = 1..Len(queue)
  BY TypeParts
<1>2. Queued(f) # {} <=> \E i \in DOMAIN queue : queue[i].file = f
  BY <1>1 DEF Queued
<1>3. Leased(f) # {} <=> \E l \in inflight : l.msg.file = f
  BY DEF Leased
<1> QED BY <1>2, <1>3 DEF HasMessage

LEMMA CalmIs ==
  ASSUME TypeOK
  PROVE  CalmSound <=> (crashes = 0 /\ lapses = 0 => Calm)
<1>1. \A w \in Workers : WorkerSound(w) <=> HasLease(w) /\ Stage(w)
  BY DEF WorkerSound, HasLease, Stage
<1>2. crashes = 0 /\ lapses = 0 => (LiveFileHasMessage <=> Live)
  BY HasMessageIs DEF LiveFileHasMessage, Live
<1> QED BY <1>1, <1>2 DEF CalmSound, Calm, AtWork, Waiting

\* The lease of a worker is its own, and is not renewed before it lapses.
LEMMA LeaseIs ==
  ASSUME TypeOK, Structure, NEW w \in Workers, Working(w), HasLease(w)
  PROVE  /\ Owns(w) /\ Renewed(w) = inflight
         /\ \E l \in inflight : l.msg = worker[w].msg /\ l.owner = w /\ ~l.lapsed /\ Leases(w) = {l}
         /\ \A i \in DOMAIN queue : queue[i].file # Of(w)
         /\ \A l \in Unleased(w) : l.msg.file # Of(w)
<1>1. PICK l \in inflight : l.msg = worker[w].msg /\ l.owner = w /\ ~l.lapsed
  BY DEF HasLease
<1>2. l \in Leases(w) /\ l \in Lease
  BY <1>1, TypeParts DEF Leases
<1>3. Owns(w)
  BY <1>2 DEF Owns
<1>4. Leases(w) = {l}
  BY <1>2, <1>3, OwnedAlone
<1>5. l.lapsed = FALSE
  BY <1>1, <1>2 DEF Lease
<1>6. [l EXCEPT !.lapsed = FALSE] = l
  BY <1>2, <1>5 DEF Lease
<1>7. Renewed(w) = inflight
  BY <1>1, <1>4, <1>6 DEF Renewed, Unleased
<1> QED BY <1>1, <1>3, <1>4, <1>7, OwnedAlone

\* Two workers are at different files.
LEMMA Apart ==
  ASSUME TypeOK, Structure, AtWork, NEW v \in Workers, NEW w \in Workers, v # w, Working(v), Working(w)
  PROVE  /\ Of(v) # Of(w)
         /\ \E l \in Unleased(w) : l.msg = worker[v].msg /\ l.owner = v /\ ~l.lapsed
<1>1. PICK k \in inflight : k.msg = worker[v].msg /\ k.owner = v /\ ~k.lapsed
  BY DEF AtWork, HasLease
<1>2. PICK l \in inflight : l.msg = worker[w].msg /\ l.owner = w /\ ~l.lapsed
  BY DEF AtWork, HasLease
<1>3. k # l /\ k.msg.file = Of(v) /\ l.msg.file = Of(w)
  BY <1>1, <1>2 DEF Of
<1>4. k.msg.file # l.msg.file
  BY <1>3 DEF Structure, OneOf
<1>5. k \notin Leases(w)
  BY <1>1 DEF Leases
<1> QED BY <1>1, <1>3, <1>4, <1>5 DEF Unleased

\* A worker is at work as it was if its row, and its lease, are what they were.
LEMMA WorkerFrame ==
  ASSUME NEW v \in Workers, Stage(v), worker'[v] = worker[v], file'[Of(v)] = file[Of(v)],
         \E l \in inflight' : l.msg = worker[v].msg /\ l.owner = v /\ ~l.lapsed
  PROVE  HasLease(v)' /\ Stage(v)'
BY DEF HasLease, Stage, Of, Holds, Done

\* A worker moves and keeps its lease, or gives it up when its file is done.
Tidy(w) ==
  \/ inflight' = inflight /\ (worker'[w] = Idle \/ Stage(w)')
  \/ inflight' = Unleased(w) /\ worker'[w] = Idle /\ file'[Of(w)].status \in {"ready", "failed"}

LEMMA TidyKeeps ==
  ASSUME TypeOK, Structure, Calm, NEW w \in Workers, Process(w) \/ Finish(w), queue' = queue, Tidy(w)
  PROVE  Calm'
<1>1. /\ Working(w) /\ KeepsMessage(w) /\ RowWritten(w) /\ Of(w) \in Files /\ upload' = upload
      /\ HasLease(w)
  BY WorkerSteps, RowSteps, BoundsSteps DEF Calm, AtWork
<1>2. PICK l \in inflight : l.msg = worker[w].msg /\ l.owner = w /\ ~l.lapsed /\ Leases(w) = {l}
  BY <1>1, LeaseIs
<1>3. \A i \in DOMAIN queue : queue[i].file # Of(w)
  BY <1>1, LeaseIs
<1>4. \A k \in Unleased(w) : k \in inflight'
  BY DEF Tidy, Unleased
<1>5. AtWork'
  <2>1. ASSUME NEW v \in Workers, v # w, worker'[v] # Idle
        PROVE  HasLease(v)' /\ Stage(v)'
    <3>1. worker'[v] = worker[v] /\ Working(v)
      BY <1>1, <2>1 DEF KeepsMessage, Working
    <3>2. Of(v) # Of(w) /\ \E k \in Unleased(w) : k.msg = worker[v].msg /\ k.owner = v /\ ~k.lapsed
      BY <1>1, <2>1, <3>1, Apart DEF Calm
    <3>3. Of(v) \in Files
      BY <3>1, IdIsNat DEF Of, Message
    <3>4. file'[Of(v)] = file[Of(v)]
      BY <1>1, <3>2, <3>3 DEF RowWritten
    <3>5. Stage(v)
      BY <3>1 DEF Calm, AtWork
    <3> QED BY <1>4, <3>1, <3>2, <3>4, <3>5, WorkerFrame
  <2>2. ASSUME worker'[w] # Idle
        PROVE  HasLease(w)' /\ Stage(w)'
    <3>1. inflight' = inflight /\ Stage(w)' /\ worker'[w].msg = worker[w].msg
      BY <1>1, <2>2 DEF Tidy, KeepsMessage
    <3> QED BY <1>2, <3>1 DEF HasLease
  <2> QED BY <2>1, <2>2 DEF AtWork, Working
<1>6. Waiting'
  <2>1. \A i \in DOMAIN queue : queue[i].file \in Files
    BY IdIsNat DEF Message
  <2> QED BY <1>1, <1>3, <2>1 DEF Waiting, RowWritten, Calm
<1>7. Live'
  <2>1. ASSUME NEW f \in Files, upload[f] = "done", file'[f].status \in Open
        PROVE  HasMessage(f)'
    <3>1. CASE f # Of(w)
      <4>1. HasMessage(f)
        BY <1>1, <2>1, <3>1 DEF RowWritten, Calm, Live
      <4>2. \A k \in inflight : k.msg.file = f => k \in Unleased(w)
        BY <1>2, <3>1 DEF Unleased, Of
      <4> QED BY <1>4, <4>1, <4>2 DEF HasMessage
    <3>2. CASE f = Of(w)
      <4>1. inflight' = inflight
        BY <2>1, <3>2 DEF Tidy, Open
      <4> QED BY <1>2, <3>2, <4>1 DEF HasMessage, Of
    <3> QED BY <3>1, <3>2
  <2> QED BY <1>1, <2>1 DEF Live
<1> QED BY <1>5, <1>6, <1>7 DEF Calm

\* A status a worker finds is not new.
LEMMA StatusIs ==
  ASSUME TypeOK, UploadsSound, NEW w \in Workers, Working(w)
  PROVE  Of(w) \in Files /\ file[Of(w)].status \in {"queued", "extracting", "embedding", "ready", "failed"}
<1>1. Of(w) \in Files /\ file \in [Files -> FileRow]
  BY IdIsNat, TypeParts DEF Of, Message
<1>2. ~Untouched(Of(w))
  BY <1>1 DEF Untouched
<1>3. file[Of(w)].status # "new"
  BY <1>1, <1>2 DEF UploadsSound
<1> QED BY <1>1, <1>3 DEF FileRow, Open

LEMMA StageAfter ==
  ASSUME TypeOK, NEW w \in Workers, Working(w),
         NEW pc, NEW err, NEW status, NEW attempt,
         worker'[w].pc = pc, worker'[w].msg = worker[w].msg, worker'[w].err = err,
         file'[Of(w)].status = status, file'[Of(w)].attempt = attempt,
         pc # "claiming",
         pc \in {"extracting", "failing", "embedding"} => attempt = w,
         pc = "writing" => attempt = w \/ status \in {"ready", "failed"},
         pc = "verifying" /\ err # "error" => status \in {"ready", "failed"},
         pc \in {"settling", "lookup", "burying"} => status \in {"ready", "failed"},
         pc = "requeuing" => status \in {"queued", "failed"}
  PROVE  Stage(w)'
BY DEF Stage, Of, Holds, Done

LEMMA TidySteps ==
  ASSUME TypeOK, Structure, UploadsSound, Calm, NEW w \in Workers, Process(w) \/ Finish(w),
         queue' = queue
  PROVE  Tidy(w)
<1>0. Working(w) /\ Stage(w) /\ HasLease(w)
  BY WorkerSteps DEF Calm, AtWork
<1>a. Of(w) \in Files /\ file[Of(w)].status \in {"queued", "extracting", "embedding", "ready", "failed"}
  BY <1>0, StatusIs
<1>b. Owns(w) /\ Renewed(w) = inflight
  BY <1>0, LeaseIs
<1>c. worker[w] \in WorkState
  BY <1>0, IdIsNat
<1>d. worker[w].err \in {"none", "lost", "error"}
  BY <1>c DEF WorkState
<1> DEFINE status == file'[Of(w)].status
           attempt == file'[Of(w)].attempt
           Good(pc, err) ==
             /\ pc # "claiming"
             /\ pc \in {"extracting", "failing", "embedding"} => attempt = w
             /\ pc = "writing" => attempt = w \/ status \in {"ready", "failed"}
             /\ pc = "verifying" /\ err # "error" => status \in {"ready", "failed"}
             /\ pc \in {"settling", "lookup", "burying"} => status \in {"ready", "failed"}
             /\ pc = "requeuing" => status \in {"queued", "failed"}
<1>1. inflight' = inflight /\ GiveUp(w) => Tidy(w)
  BY GiveUpIs DEF Tidy
<1>2. ASSUME NEW claimed \in BOOLEAN, NEW err \in {"none", "lost", "error"}, Ends(w, claimed, err),
             inflight' = inflight, Good("verifying", err)
      PROVE  Tidy(w)
  <2>1. worker'[w].pc = "verifying" /\ worker'[w].msg = worker[w].msg /\ worker'[w].err = err
    BY <1>0, <1>2, EndsIs
  <2>2. Stage(w)'
    BY <1>0, <1>2, <2>1, StageAfter
  <2> QED BY <1>2, <2>2 DEF Tidy
<1>3. ASSUME NEW pc \in Processing \cup Finishing, Goto(w, pc), inflight' = inflight,
             Good(pc, worker[w].err)
      PROVE  Tidy(w)
  <2>1. worker'[w].pc = pc /\ worker'[w].msg = worker[w].msg /\ worker'[w].err = worker[w].err
    BY <1>0, <1>3, GotoIs
  <2>2. Stage(w)'
    BY <1>0, <1>3, <2>1, StageAfter
  <2> QED BY <1>3, <2>2 DEF Tidy
<1> DEFINE Written(s) == /\ ~Holds(w) => file' = file
                         /\ Holds(w) => /\ status = s
                                        /\ attempt = IF s \in {"ready", "failed"} THEN NoWorker ELSE w
<1>4. \A s \in {"queued", "extracting", "embedding", "ready", "failed"} :
        file' = Updated(w, s) => Written(s)
  BY <1>0, UpdatedIs
<1>5. CASE Abandon(w)
  BY <1>5, <1>b DEF Abandon
<1>6. CASE TryClaim(w)
  <2>1. inflight' = inflight
    BY <1>6 DEF TryClaim, broker
  <2>2. CASE worker' = [worker EXCEPT ![w] = [pc |-> "extracting", msg |-> worker[w].msg,
                                              claimed |-> TRUE, err |-> "none"]]
             /\ file' = [file EXCEPT ![Of(w)] = [status |-> "extracting", attempt |-> w]]
    <3>1. worker'[w].pc = "extracting" /\ worker'[w].err = "none" /\ worker'[w].msg = worker[w].msg
      BY <2>2, TypeParts
    <3>2. attempt = w
      BY <1>0, <2>2, ClaimIs
    <3>3. Stage(w)'
      BY <1>0, <3>1, <3>2, StageAfter
    <3> QED BY <2>1, <3>3 DEF Tidy
  <2>3. CASE file' = file /\ Ends(w, FALSE, "none") /\ file[Of(w)].status \notin Claimable(w)
    <3>1. status \in {"ready", "failed"}
      BY <1>0, <1>a, <1>6, <2>3 DEF Claimable, Open, Stage, TryClaim, At
    <3> QED BY <1>2, <2>1, <2>3, <3>1
  <2>4. CASE Ends(w, FALSE, "error")
    BY <1>2, <2>1, <2>4
  <2> QED BY <1>6, <2>2, <2>3, <2>4 DEF TryClaim
<1>7. CASE ExtractFails(w) \/ Embed(w)
  <2>1. inflight' = inflight /\ file' = file
    BY <1>7 DEF ExtractFails, Embed, broker
  <2>2. attempt = w
    BY <1>0, <1>7, <2>1 DEF ExtractFails, Embed, At, Stage, Holds
  <2>3. Goto(w, "failing") \/ Goto(w, "writing")
    BY <1>7 DEF ExtractFails, Embed
  <2> QED BY <1>3, <2>1, <2>2, <2>3 DEF Processing
<1>8. CASE MarkFailed(w)
  <2>1. Holds(w) /\ inflight' = inflight
    BY <1>0, <1>8 DEF MarkFailed, At, Stage, broker
  <2>2. Ends(w, TRUE, "error") => Tidy(w)
    BY <1>2, <2>1
  <2>3. file' = Updated(w, "failed") => status = "failed"
    BY <1>4, <2>1
  <2>4. file' = Updated(w, "failed") /\ Ends(w, TRUE, "none") => Tidy(w)
    BY <1>2, <2>1, <2>3
  <2> QED BY <1>8, <2>1, <2>2, <2>4 DEF MarkFailed, WriteClaimed
<1>9. CASE Extract(w)
  <2>1. Holds(w) /\ inflight' = inflight
    BY <1>0, <1>9 DEF Extract, At, Stage, broker
  <2>2. Ends(w, TRUE, "error") => Tidy(w)
    BY <1>2, <2>1
  <2>3. /\ file' = Updated(w, "embedding") => attempt = w
        /\ file' = Updated(w, "ready") => status = "ready"
    BY <1>4, <2>1
  <2>4. file' = Updated(w, "embedding") /\ Goto(w, "embedding") => Tidy(w)
    BY <1>3, <2>1, <2>3 DEF Processing
  <2>5. file' = Updated(w, "ready") /\ Goto(w, "writing") => Tidy(w)
    BY <1>3, <2>1, <2>3 DEF Processing
  <2> QED BY <1>9, <2>1, <2>2, <2>4, <2>5 DEF Extract, WriteClaimed
<1>10. CASE WriteReady(w)
  <2>1. (Holds(w) \/ Done(w)) /\ inflight' = inflight
    BY <1>0, <1>10 DEF WriteReady, At, Stage, broker
  <2>2. Ends(w, TRUE, "error") => Tidy(w)
    BY <1>2, <2>1
  <2>3. file' = Updated(w, "ready") => status \in {"ready", "failed"}
    BY <1>4, <2>1 DEF Done
  <2>4. file' = Updated(w, "ready") /\ (Ends(w, TRUE, "none") \/ Ends(w, TRUE, "lost")) => Tidy(w)
    BY <1>2, <2>1, <2>3
  <2> QED BY <1>10, <2>2, <2>4 DEF WriteReady, WriteClaimed
<1>11. CASE Verify(w)
  <2>1. inflight' = inflight /\ file' = file
    BY <1>11, <1>b DEF Verify
  <2>2. AfterVerify(w) \in {"settling", "resetting", "finalizing", "lookup"}
    BY DEF AfterVerify
  <2>3. AfterVerify(w) \in {"settling", "lookup"} => status \in {"ready", "failed"}
    BY <1>0, <1>d, <1>11, <2>1 DEF AfterVerify, Verify, At, Stage, Done
  <2>4. Goto(w, AfterVerify(w)) => Tidy(w)
    BY <1>3, <2>1, <2>2, <2>3 DEF Finishing
  <2> QED BY <1>1, <1>11, <2>1, <2>4 DEF Verify
<1>12. CASE Reset(w)
  <2>1. inflight' = inflight
    BY <1>12 DEF Reset, broker
  <2>2. file' = [file EXCEPT ![Of(w)] = [status |-> "queued", attempt |-> NoWorker]] => status = "queued"
    BY <1>0, ResetIs
  <2>3. status = "queued" /\ Goto(w, "requeuing") => Tidy(w)
    BY <1>3, <2>1 DEF Finishing
  <2> QED BY <1>1, <1>12, <2>1, <2>2, <2>3 DEF Reset
<1>13. CASE Requeue(w)
  <2>1. inflight' = inflight
    <3>1. queue \in Seq(Message)
      BY TypeParts
    <3>2. ~Enqueued(Of(w), worker[w].msg.retry + 1, TRUE)
      <4>1. \A m : Len(Append(queue, m)) = Len(queue) + 1 /\ Len(queue) \in Nat
        BY <3>1
      <4>2. \A m : Append(queue, m) # queue
        BY <4>1
      <4> QED BY <4>2 DEF Enqueued
    <3> QED BY <1>13, <3>2 DEF Requeue
  <2> QED BY <1>1, <1>13, <2>1 DEF Requeue
<1>14. CASE FinalizeRead(w)
  <2>1. inflight' = inflight /\ file' = file
    BY <1>14 DEF FinalizeRead, broker
  <2>2. Goto(w, "forcing") => Tidy(w)
    BY <1>3, <2>1 DEF Finishing
  <2>3. Goto(w, "burying") /\ status \in {"ready", "failed"} => Tidy(w)
    BY <1>3, <2>1 DEF Finishing
  <2> QED BY <1>1, <1>14, <2>1, <2>2, <2>3 DEF FinalizeRead
<1>15. CASE ForceFailed(w)
  <2>1. inflight' = inflight
    BY <1>15 DEF ForceFailed, broker
  <2>2. Goto(w, "overriding") => Tidy(w)
    BY <1>3, <2>1 DEF Finishing
  <2>3. Holds(w) /\ file' = Updated(w, "failed") => status = "failed"
    BY <1>4
  <2>4. status = "failed" /\ Goto(w, "burying") => Tidy(w)
    BY <1>3, <2>1 DEF Finishing
  <2> QED BY <1>1, <1>15, <2>1, <2>2, <2>3, <2>4 DEF ForceFailed, WriteClaimed
<1>16. CASE Override(w)
  <2>1. inflight' = inflight
    BY <1>16 DEF Override, broker
  <2>2. file' = [file EXCEPT ![Of(w)].status = "failed"] => status = "failed"
    BY <1>a, FailedIs
  <2>3. status = "failed" /\ Goto(w, "burying") => Tidy(w)
    BY <1>3, <2>1 DEF Finishing
  <2> QED BY <1>1, <1>16, <2>1, <2>2, <2>3 DEF Override
<1>17. CASE Bury(w) \/ Settle(w)
  <2>1. file' = file /\ Done(w) /\ GiveUp(w)
    BY <1>0, <1>17 DEF Bury, Settle, At, Stage
  <2>2. inflight' = inflight \/ inflight' = Unleased(w)
    BY <1>17 DEF Bury, Settle
  <2> QED BY <2>1, <2>2, GiveUpIs DEF Tidy, Done
<1>18. CASE Lookup(w)
  <2>1. inflight' = inflight /\ file' = file /\ status \in {"ready", "failed"}
    BY <1>0, <1>18 DEF Lookup, broker, At, Stage, Done
  <2>2. Goto(w, "burying") \/ Goto(w, "settling") => Tidy(w)
    BY <1>3, <2>1 DEF Finishing
  <2> QED BY <1>1, <1>18, <2>1, <2>2 DEF Lookup
<1> QED BY <1>5, <1>6, <1>7, <1>8, <1>9, <1>10, <1>11, <1>12, <1>13, <1>14, <1>15, <1>16, <1>17, <1>18
        DEF Process, Finish

\* A message moves to a worker that had none, with a lease of its own.
LEMMA TakenKeeps ==
  ASSUME TypeOK, Structure, Calm, NEW w \in Workers, NEW msg \in Message,
         worker[w].pc = "idle", Take(w, msg), file' = file, upload' = upload,
         [msg |-> msg, owner |-> w, lapsed |-> FALSE] \in inflight',
         file[msg.file].status \in {"extracting", "embedding"} => msg.reclaimed,
         \A l \in inflight : ~l.lapsed => l \in inflight',
         \A f \in Files : HasMessage(f) => HasMessage(f)',
         \A i \in DOMAIN queue' : \E j \in DOMAIN queue : queue'[i] = queue[j]
  PROVE  Calm'
<1> DEFINE lease == [msg |-> msg, owner |-> w, lapsed |-> FALSE]
<1>1. /\ worker'[w] \in WorkState /\ worker'[w].pc = "claiming" /\ worker'[w].msg = msg
      /\ \A v \in Workers : v # w => worker'[v] = worker[v]
  BY TakeIs
<1>2. lease \in inflight' /\ lease.msg = msg /\ lease.owner = w /\ lease.lapsed = FALSE
  OBVIOUS
<1> HIDE DEF lease
<1>3. HasLease(w)'
  BY <1>1, <1>2 DEF HasLease
<1>4. Stage(w)'
  BY <1>1 DEF Stage, Of
<1>5. ASSUME NEW v \in Workers, v # w, worker'[v] # Idle
      PROVE  HasLease(v)' /\ Stage(v)'
  <2>1. worker'[v] = worker[v] /\ HasLease(v) /\ Stage(v)
    BY <1>1, <1>5 DEF Calm, AtWork, Working
  <2>2. \E l \in inflight' : l.msg = worker[v].msg /\ l.owner = v /\ ~l.lapsed
    BY <2>1 DEF HasLease
  <2> QED BY <2>1, <2>2, WorkerFrame
<1>6. Waiting'
  BY DEF Waiting, Calm
<1>7. Live'
  BY DEF Live, Calm
<1> QED BY <1>3, <1>4, <1>5, <1>6, <1>7 DEF Calm, AtWork, Working

LEMMA RequeueKeeps ==
  ASSUME TypeOK, Structure, Calm, NEW w \in Workers, Requeue(w), Added(Of(w)), inflight' = Unleased(w)
  PROVE  Calm'
<1>1. Working(w) /\ KeepsMessage(w)
  BY WorkerSteps DEF Finish
<1>2. file' = file /\ upload' = upload /\ worker'[w] = Idle
  BY GiveUpIs DEF Requeue
<1>3. file[Of(w)].status \in {"queued", "failed"}
  BY <1>1 DEF Requeue, At, Calm, AtWork, Stage
<1>4. PICK m \in Message : m.file = Of(w) /\ queue' = Append(queue, m)
  BY DEF Added
<1> DEFINE n == Len(queue) + 1
<1>5. /\ DOMAIN queue' = DOMAIN queue \cup {n} /\ queue'[n] = m
      /\ \A i \in DOMAIN queue : queue'[i] = queue[i]
  BY <1>4, AppendIs, TypeParts
<1> HIDE DEF n
<1>6. ASSUME NEW v \in Workers, worker'[v] # Idle
      PROVE  HasLease(v)' /\ Stage(v)'
  <2>1. v # w /\ worker'[v] = worker[v] /\ Working(v)
    BY <1>1, <1>2, <1>6 DEF KeepsMessage, Working
  <2>2. \E l \in Unleased(w) : l.msg = worker[v].msg /\ l.owner = v /\ ~l.lapsed
    BY <1>1, <2>1, Apart DEF Calm
  <2>3. Stage(v)
    BY <2>1 DEF Calm, AtWork
  <2> QED BY <1>2, <2>1, <2>2, <2>3, WorkerFrame
<1>7. Waiting'
  BY <1>2, <1>3, <1>4, <1>5 DEF Waiting, Calm
<1>8. Live'
  <2>1. ASSUME NEW f \in Files, HasMessage(f), f # Of(w)
        PROVE  HasMessage(f)'
    <3>1. \A l \in inflight : l.msg.file = f => l \in Unleased(w)
      <4>1. \A l \in Leases(w) : l.msg.file = Of(w)
        BY <1>1 DEF Leases, Structure, IdsSound
      <4> QED BY <2>1, <4>1 DEF Unleased
    <3> QED BY <1>5, <2>1, <3>1 DEF HasMessage
  <2>2. \A f \in Files : f = Of(w) => HasMessage(f)'
    BY <1>4, <1>5 DEF HasMessage
  <2> QED BY <1>2, <2>1, <2>2 DEF Live, Calm
<1> QED BY <1>6, <1>7, <1>8 DEF Calm, AtWork, Working

LEMMA RequestKeeps ==
  ASSUME TypeOK, Structure, UploadsSound, Calm, NEW f \in Files,
         Upload(f) \/ Enqueue(f) \/ MarkRefused(f), queue' = queue \/ Added(f)
  PROVE  Calm'
<1>1. /\ \A g \in Files : g # f => upload'[g] = upload[g] /\ file'[g] = file[g]
      /\ worker' = worker /\ inflight' = inflight
  BY RequestSteps
<1>2. file'[f] = file[f] \/ (file'[f].status \in {"queued", "failed"} /\ file'[f].attempt = file[f].attempt)
  BY FailedIs DEF Upload, Enqueue, MarkRefused
<1>3. Upload(f) => Untouched(f)
  BY DEF Upload, UploadsSound
<1>4. MarkRefused(f) => file'[f] = file[f] \/ file'[f].status = "failed"
  BY FailedIs DEF MarkRefused
<1>5. AtWork'
  <2> SUFFICES ASSUME NEW v \in Workers, Working(v)
               PROVE  HasLease(v)' /\ Stage(v)'
    BY <1>1 DEF AtWork, Working
  <2>1. HasLease(v) /\ Stage(v) /\ Of(v) \in Files /\ (Upload(f) => Of(v) # f)
    BY <1>3, IdIsNat DEF Calm, AtWork, Of, Message, Untouched
  <2>2. HasLease(v)'
    BY <1>1, <2>1 DEF HasLease
  <2>3. CASE file'[Of(v)] = file[Of(v)]
    <3>1. \E l \in inflight' : l.msg = worker[v].msg /\ l.owner = v /\ ~l.lapsed
      BY <1>1, <2>1 DEF HasLease
    <3> QED BY <1>1, <2>1, <2>3, <3>1, WorkerFrame
  <2>4. CASE file'[Of(v)] # file[Of(v)]
    <3>1. Of(v) = f /\ MarkRefused(f)
      BY <1>1, <2>1, <2>4 DEF Enqueue
    <3>2. file'[Of(v)].status = "failed" /\ file'[Of(v)].attempt = file[Of(v)].attempt
      BY <1>2, <1>4, <2>4, <3>1
    <3>3. worker'[v] = worker[v] /\ Of(v)' = Of(v)
      BY <1>1 DEF Of
    <3>4. Stage(v)'
      <4>1. Holds(v)' <=> Holds(v)
        BY <3>2, <3>3 DEF Holds
      <4>2. Done(v)'
        BY <3>2, <3>3 DEF Done
      <4> QED BY <2>1, <3>2, <3>3, <4>1, <4>2 DEF Stage
    <3> QED BY <2>2, <3>4
  <2> QED BY <2>2, <2>3, <2>4
<1>6. \A i \in DOMAIN queue : queue[i].file \in Files
  BY IdIsNat DEF Message
<1>7. CASE queue' = queue
  <2>1. Waiting'
    BY <1>1, <1>2, <1>6, <1>7 DEF Waiting, Calm
  <2>2. \A g \in Files : HasMessage(g)' <=> HasMessage(g)
    BY <1>1, <1>7 DEF HasMessage
  <2>3. upload'[f] = "done" => file'[f].status \notin Open
    <3>1. Upload(f) => upload'[f] = "stored"
      BY UploadIs DEF Upload, UploadState
    <3>2. Enqueue(f) => upload'[f] # "done"
      <4>1. queue \in Seq(Message)
        BY TypeParts
      <4>2. \A m : Len(Append(queue, m)) = Len(queue) + 1 /\ Len(queue) \in Nat
        BY <4>1
      <4>3. \A m : Append(queue, m) # queue
        BY <4>2
      <4>4. ~Enqueued(f, 0, FALSE)
        BY <1>7, <4>3 DEF Enqueued
      <4>5. upload' = [upload EXCEPT ![f] = "refused"] => upload'[f] = "refused"
        BY UploadIs DEF UploadState
      <4> QED BY <4>4, <4>5 DEF Enqueue
    <3>3. MarkRefused(f) => upload'[f] = "dropped" \/ file'[f].status = "failed"
      BY UploadIs, FailedIs DEF MarkRefused, UploadState
    <3> QED BY <3>1, <3>2, <3>3 DEF Open
  <2>4. Live'
    BY <1>1, <2>2, <2>3 DEF Live, Calm
  <2> QED BY <1>5, <2>1, <2>4 DEF Calm
<1>8. CASE Added(f) /\ queue' # queue
  <2>1. PICK m \in Message : m.file = f /\ queue' = Append(queue, m)
    BY <1>8 DEF Added
  <2> DEFINE n == Len(queue) + 1
  <2>2. /\ DOMAIN queue' = DOMAIN queue \cup {n} /\ queue'[n] = m
        /\ \A i \in DOMAIN queue : queue'[i] = queue[i]
    BY <2>1, AppendIs, TypeParts
  <2> HIDE DEF n
  <2>3. Enqueue(f) /\ file' = file /\ file[f].status = "queued"
    BY <1>8 DEF Upload, Enqueue, MarkRefused, broker, UploadsSound
  <2>4. Waiting'
    BY <1>6, <2>1, <2>2, <2>3 DEF Waiting, Calm
  <2>5. HasMessage(f)' /\ \A g \in Files : HasMessage(g) => HasMessage(g)'
    BY <1>1, <2>1, <2>2 DEF HasMessage
  <2>6. Live'
    BY <1>1, <2>3, <2>5 DEF Live, Calm
  <2> QED BY <1>5, <2>4, <2>6 DEF Calm
<1> QED BY <1>7, <1>8

LEMMA CalmStep ==
  ASSUME TypeOK, Structure, UploadsSound, AttemptsSound, CalmSound, [Next]_vars,
         crashes' = 0, lapses' = 0
  PROVE  Calm'
<1>1. crashes \in Nat /\ lapses \in Nat
  BY TypeParts, FileProcessingAssumption
<1>2. /\ \A w \in Workers : ~Crash(w)
      /\ crashes = 0 /\ lapses = 0
  <2>1. \A w \in Workers : ~Crash(w)
    BY <1>1 DEF Crash
  <2>2. crashes' = crashes /\ (lapses' = lapses \/ lapses' = lapses + 1)
    <3>1. CASE \E f \in Files : Upload(f) \/ Enqueue(f) \/ MarkRefused(f)
      BY <3>1, RequestSteps
    <3>2. CASE \E w \in Workers : ClaimTimedOut(w) \/ Read(w) \/ RenewLease(w)
      BY <3>2 DEF ClaimTimedOut, Read, RenewLease, bounds
    <3>3. CASE \E w \in Workers : Process(w) \/ Finish(w)
      BY <3>3, BoundsSteps
    <3>4. CASE \E l \in inflight : Lapse(l)
      BY <3>4 DEF Lapse
    <3>5. CASE UNCHANGED vars
      BY <3>5 DEF vars
    <3> QED BY <2>1, <3>1, <3>2, <3>3, <3>4, <3>5, StepCases
  <2> QED BY <1>1, <2>1, <2>2
<1>3. Calm
  BY <1>2, CalmIs
<1>4. ASSUME NEW f \in Files, Upload(f) \/ Enqueue(f) \/ MarkRefused(f)
      PROVE  Calm'
  <2>1. queue' = queue \/ Added(f)
    BY <1>4, EnqueueAdds DEF Upload, Enqueue, MarkRefused, broker
  <2> QED BY <1>3, <1>4, <2>1, RequestKeeps
<1>5. ASSUME NEW w \in Workers, Read(w)
      PROVE  Calm'
  <2> DEFINE msg == Head(queue)
             lease == [msg |-> msg, owner |-> w, lapsed |-> FALSE]
  <2>1. /\ queue \in Seq(Message) /\ queue # <<>> /\ queue' = Tail(queue)
        /\ inflight' = inflight \cup {lease} /\ file' = file /\ upload' = upload
        /\ worker[w].pc = "idle" /\ Take(w, msg)
    BY <1>5, TypeParts DEF Read
  <2>2. /\ msg \in Message /\ 1 \in DOMAIN queue /\ msg = queue[1]
        /\ \A i \in DOMAIN queue' : i + 1 \in DOMAIN queue /\ queue'[i] = queue[i + 1]
    BY <2>1, TailIs
  <2>3. lease.msg = msg /\ lease \in inflight'
    BY <2>1
  <2> HIDE DEF msg, lease
  <2>4. ASSUME NEW f \in Files, HasMessage(f)
        PROVE  HasMessage(f)'
    <3>1. CASE \E l \in inflight : l.msg.file = f
      BY <2>1, <3>1 DEF HasMessage
    <3>2. CASE queue[1].file = f
      BY <2>2, <2>3, <3>2 DEF HasMessage
    <3>3. ASSUME NEW i \in DOMAIN queue, i # 1, queue[i].file = f
          PROVE  HasMessage(f)'
      <4>1. i - 1 \in DOMAIN queue' /\ queue'[i - 1] = queue[i]
        BY <2>1, <3>3
      <4> QED BY <3>3, <4>1 DEF HasMessage
    <3> QED BY <2>4, <3>1, <3>2, <3>3 DEF HasMessage
  <2>5. file[msg.file].status \notin {"extracting", "embedding"}
    BY <1>3, <2>2 DEF Calm, Waiting
  <2>6. \A i \in DOMAIN queue' : \E j \in DOMAIN queue : queue'[i] = queue[j]
    BY <2>2
  <2>7. [msg |-> msg, owner |-> w, lapsed |-> FALSE] \in inflight'
    BY <2>3 DEF lease
  <2> QED BY <1>3, <2>1, <2>2, <2>4, <2>5, <2>6, <2>7, TakenKeeps
<1>6. ASSUME NEW w \in Workers, ClaimTimedOut(w)
      PROVE  Calm'
  <2>1. PICK l \in inflight :
          /\ l.lapsed /\ Take(w, [l.msg EXCEPT !.reclaimed = TRUE])
          /\ inflight' = (inflight \ {l}) \cup
                           {[msg |-> [l.msg EXCEPT !.reclaimed = TRUE], owner |-> w, lapsed |-> FALSE]}
    BY <1>6 DEF ClaimTimedOut
  <2> DEFINE msg == [l.msg EXCEPT !.reclaimed = TRUE]
             lease == [msg |-> msg, owner |-> w, lapsed |-> FALSE]
  <2>2. l.msg \in Message
    BY IdIsNat
  <2>3. msg \in Message /\ msg.file = l.msg.file /\ msg.reclaimed
    BY <2>2 DEF Message
  <2>4. lease.msg = msg /\ lease \in inflight' /\ \A k \in inflight : k # l => k \in inflight'
    BY <2>1
  <2>5. Take(w, msg) /\ [msg |-> msg, owner |-> w, lapsed |-> FALSE] \in inflight'
    BY <2>1
  <2> HIDE DEF msg, lease
  <2>6. /\ worker[w].pc = "idle" /\ file' = file /\ upload' = upload /\ queue' = queue
    BY <1>6 DEF ClaimTimedOut
  <2>7. \A f \in Files : HasMessage(f) => HasMessage(f)'
    BY <2>3, <2>4, <2>6 DEF HasMessage
  <2>8. \A k \in inflight : ~k.lapsed => k \in inflight'
    BY <2>1, <2>4
  <2> QED BY <1>3, <2>3, <2>5, <2>6, <2>7, <2>8, TakenKeeps
<1>7. ASSUME NEW w \in Workers, RenewLease(w)
      PROVE  FALSE
  <2>1. Working(w)
    BY <1>7, IdleIsNot DEF RenewLease, Working, Processing
  <2>2. \E l \in inflight : ~l.lapsed /\ Leases(w) = {l}
    BY <1>3, <2>1, LeaseIs DEF Calm, AtWork
  <2> QED BY <1>7, <2>2 DEF RenewLease
<1>8. ASSUME NEW w \in Workers, Process(w) \/ Finish(w)
      PROVE  Calm'
  <2>1. CASE queue' = queue
    BY <1>3, <1>8, <2>1, TidySteps, TidyKeeps
  <2>2. CASE Requeue(w) /\ Owns(w) /\ Enqueued(Of(w), worker[w].msg.retry + 1, TRUE) /\ inflight' = Unleased(w)
    BY <1>3, <2>2, RequeueAdds, RequeueKeeps
  <2> QED BY <1>8, <2>1, <2>2, BrokerSteps
<1>9. ASSUME NEW l \in inflight, Lapse(l)
      PROVE  Calm'
  <2>1. /\ worker' = worker /\ file' = file /\ upload' = upload /\ queue' = queue
        /\ inflight' = (inflight \ {l}) \cup {[l EXCEPT !.lapsed = TRUE]}
        /\ worker[l.owner] = Idle \/ worker[l.owner].msg.id # l.msg.id
    BY <1>1, <1>2, <1>9 DEF Lapse
  <2>2. [l EXCEPT !.lapsed = TRUE].msg = l.msg
    BY TypeParts, LapsedIs
  <2>3. \A k \in inflight : k # l => k \in inflight'
    BY <2>1
  <2>4. \E m \in inflight' : m.msg = l.msg
    BY <2>1, <2>2
  <2>5. ASSUME NEW v \in Workers, Working(v)
        PROVE  HasLease(v)' /\ Stage(v)'
    <3>1. PICK k \in inflight : k.msg = worker[v].msg /\ k.owner = v /\ ~k.lapsed
      BY <1>3, <2>5 DEF Calm, AtWork, HasLease
    <3>2. k # l
      BY <2>1, <2>5, <3>1 DEF Working
    <3>3. Stage(v)
      BY <1>3, <2>5 DEF Calm, AtWork
    <3> QED BY <2>1, <2>3, <3>1, <3>2, <3>3, WorkerFrame
  <2>6. AtWork'
    BY <2>1, <2>5 DEF AtWork, Working
  <2>7. \A f \in Files : HasMessage(f) => HasMessage(f)'
    BY <2>1, <2>3, <2>4 DEF HasMessage
  <2>8. Waiting' /\ Live'
    BY <1>3, <2>1, <2>7 DEF Calm, Waiting, Live
  <2> QED BY <2>6, <2>8 DEF Calm
<1>10. CASE UNCHANGED vars
  BY <1>3, <1>10 DEF vars, Calm, AtWork, Waiting, Live, HasLease, Stage, HasMessage, Of, Holds, Done, Working
<1> QED BY <1>2, <1>4, <1>5, <1>6, <1>7, <1>8, <1>9, <1>10, StepCases

-----------------------------------------------------------------------------
(* The theorems *)

LEMMA InvariantStep ==
  ASSUME QueueInvariant, [Next]_vars
  PROVE  QueueInvariant'
<1>1. TypeOK /\ Structure /\ UploadsSound /\ AttemptsSound /\ CalmSound
  BY DEF QueueInvariant, Structure
<1>2. TypeOK' /\ Structure' /\ UploadsSound' /\ AttemptsSound'
  BY <1>1, TypeStep, StructureStep, UploadsStep, AttemptsStep
<1>3. CalmSound'
  <2> SUFFICES ASSUME crashes' = 0, lapses' = 0
               PROVE  /\ \A w \in Workers : Working(w)' => WorkerSound(w)'
                      /\ Waiting' /\ LiveFileHasMessage'
    BY DEF CalmSound, Waiting
  <2>1. Calm'
    BY <1>1, CalmStep
  <2>2. \A w \in Workers : Working(w)' => WorkerSound(w)'
    BY <2>1 DEF Calm, AtWork, HasLease, Stage, WorkerSound
  <2>3. queue' \in Seq(Message)
    BY <1>2 DEF TypeOK
  <2>4. DOMAIN queue' = 1..Len(queue')
    BY <2>3
  <2>5. \A f \in Files : HasMessage(f)' => (Queued(f) \cup Leased(f))' # {}
    BY <2>4 DEF HasMessage, Queued, Leased
  <2>6. LiveFileHasMessage'
    BY <2>1, <2>5 DEF Calm, Live, LiveFileHasMessage
  <2> QED BY <2>1, <2>2, <2>6 DEF Calm
<1> QED BY <1>2, <1>3 DEF QueueInvariant, Structure

LEMMA InvariantInit ==
  ASSUME Init
  PROVE  QueueInvariant
<1>1. queue = <<>> /\ DOMAIN queue = {} /\ queue \in Seq(Message)
  BY DEF Init
<1>2. \A w \in Workers : worker[w] = Idle /\ worker[w].pc = "idle" /\ worker[w].err = "none"
  BY IdleIsNot DEF Init
<1>3. TypeOK
  BY <1>1, FileProcessingAssumption DEF Init, TypeOK
<1>4. OneOf /\ IdsSound
  BY <1>1, <1>2 DEF Init, OneOf, IdsSound, Working
<1>5. UploadsSound
  BY <1>1, <1>2 DEF Init, UploadsSound, Untouched, Working
<1>6. AttemptsSound
  BY <1>2 DEF Init, AttemptsSound
<1>7. CalmSound
  BY <1>1, <1>2 DEF Init, CalmSound, Working, LiveFileHasMessage, Open
<1> QED BY <1>3, <1>4, <1>5, <1>6, <1>7 DEF QueueInvariant

LEMMA Invariance == Spec => []QueueInvariant
<1>1. Init => QueueInvariant
  BY InvariantInit
<1>2. QueueInvariant /\ [Next]_vars => QueueInvariant'
  BY InvariantStep
<1> QED BY <1>1, <1>2, PTL DEF Spec

LEMMA OneMessage ==
  ASSUME TypeOK, OneOf
  PROVE  OneMessagePerFile
<1> SUFFICES ASSUME NEW f \in Files
             PROVE  Cardinality(Queued(f)) + Cardinality(Leased(f)) <= 1
  BY DEF OneMessagePerFile
<1>0. queue \in Seq(Message) /\ DOMAIN queue = 1..Len(queue)
  BY TypeParts
<1>1. \A a, b \in Queued(f) : a = b
  BY <1>0 DEF Queued, OneOf
<1>2. \A a, b \in Leased(f) : a = b
  BY DEF Leased, OneOf
<1>3. Queued(f) = {} \/ Leased(f) = {}
  BY <1>0 DEF Queued, Leased, OneOf
<1>4. ASSUME NEW S, \A a, b \in S : a = b
      PROVE  Cardinality(S) = 0 \/ Cardinality(S) = 1
  <2>1. S = {} \/ \E a : S = {a}
    BY <1>4
  <2> QED BY <2>1, FS_EmptySet, FS_Singleton
<1>5. Cardinality({}) = 0
  BY FS_EmptySet
<1>6. Cardinality(Queued(f)) = 0 \/ Cardinality(Queued(f)) = 1
  BY <1>1, <1>4
<1>7. Cardinality(Leased(f)) = 0 \/ Cardinality(Leased(f)) = 1
  BY <1>2, <1>4
<1> QED BY <1>3, <1>5, <1>6, <1>7

\* However a message is read, reclaimed, requeued, settled and dead-lettered by workers
\* that do not know of each other, there is at most one message of a file; and a file
\* that was taken in and is not done has one, as long as no process has stopped and no
\* lease of a worker at work has lapsed: for every number of files and of workers,
\* whatever calls to the database and to the queue fail.
THEOREM QueueSafetyCorrect == Spec => []QueueSafety
<1>1. QueueInvariant => QueueSafety
  <2>1. QueueInvariant /\ crashes = 0 /\ lapses = 0 => LiveFileHasMessage
    BY DEF QueueInvariant, CalmSound
  <2>2. QueueInvariant => LiveFileHasMessage
    BY <2>1 DEF LiveFileHasMessage
  <2> QED BY <2>2, OneMessage DEF QueueInvariant, QueueSafety
<1> QED BY <1>1, Invariance, PTL

\* A file that is ready stays ready, though workers were overtaken and processes have
\* stopped, as long as no call has failed.
THEOREM ReadyIsFinalCorrect == Spec => ReadyIsFinal
<1>1. QueueInvariant /\ [Next]_vars =>
        [\A f \in Files : file[f].status = "ready" /\ faults' = 0 => file'[f].status = "ready"]_vars
  BY AttemptsStep DEF QueueInvariant, Structure
<1> QED BY <1>1, Invariance, PTL DEF Spec, ReadyIsFinal

-----------------------------------------------------------------------------
(* The index: types of what jobs, changes and clones hold. *)

JobPcs == {"claim", "embed"} \cup Late
JobSettings == [model : Models, host : Hosts, sig : Signatures]
JobRow == [pc : JobPcs, file : Copies, cfg : JobSettings]
Statuses == {"absent", "none", "processing", "ready", "failed", "stale"}
Keys == {"model", "host", "sig"}
Change == [pc : {"write"}, keys : SUBSET Keys, values : Settings, then : {"idle", "aim"}]
PatchRow == Change \cup [pc : {"list"}, then : {"idle", "aim"}]
              \cup [pc : {"publish"}, next : Settings, then : {"idle", "aim"}]
              \cup [pc : {"aim"}] \cup [pc : {"mark"}, sig : Signatures]
ReadRow == {r \in Row : r.chunks = NoChunks}
CloneRow == [pc : {"create", "copy", "trigger"}, source : ReadRow]

IndexTypes ==
  /\ stored \in Settings /\ runtime \in Settings
  /\ row \in [Copies -> Row]
  /\ job \in [Jobs -> {AtRest} \cup JobRow]
  /\ patch \in [Patches -> {AtRest} \cup PatchRow]
  /\ clone \in {AtRest} \cup [pc : {"done"}] \cup CloneRow
  /\ overtaken \in BOOLEAN /\ mixed \in BOOLEAN
  /\ patches \in 0..MaxPatches /\ deletions \in 0..MaxDeletions
  /\ failures \in 0..MaxFailures /\ restarts \in 0..MaxRestarts

LEMMA JobSettingsAre ==
  ASSUME NEW c \in JobSettings
  PROVE  c \in Settings /\ c.sig \in Signatures /\ c.sig # Unsigned /\ SpaceOf(c) \in Spaces
BY EmbeddingIndexAssumption
DEF JobSettings, Settings, Signatures, Spaces, SpaceOf, EmbeddingIndexAssumption

LEMMA SignatureIs ==
  ASSUME NEW s \in Settings
  PROVE  SignatureOf(s) \in Signatures /\ (s.sig # Unsigned => SignatureOf(s) = s.sig)
BY DEF Settings, SignatureOf, Signatures

LEMMA TypesSuffice == IndexTypes => IndexTypeOK
<1> SUFFICES ASSUME IndexTypes PROVE IndexTypeOK
  OBVIOUS
<1>1. ASSUME NEW j \in Jobs
      PROVE  job[j] = AtRest \/
               /\ job[j].pc \in {"claim", "embed", "count", "check", "ready", "recheck", "stale"}
               /\ job[j].file \in Copies /\ job[j].cfg \in Settings /\ job[j].cfg.sig # Unsigned
  BY JobSettingsAre DEF IndexTypes, JobRow, JobPcs, Late
<1>2. ASSUME NEW p \in Patches
      PROVE  patch[p] = AtRest \/ patch[p].pc \in {"write", "list", "publish", "aim", "mark"}
  BY DEF IndexTypes, PatchRow, Change
<1>3. clone.pc \in {"idle", "create", "copy", "trigger", "done"}
  BY DEF IndexTypes, CloneRow, AtRest
<1> QED
  BY <1>1, <1>2, <1>3 DEF IndexTypes, IndexTypeOK

LEMMA RestIs ==
  /\ AtRest \notin JobRow /\ AtRest \notin PatchRow /\ AtRest \notin CloneRow /\ AtRest.pc = "idle"
  /\ AtRest \notin [pc : {"done"}]
  /\ \A r \in JobRow : r.pc # "idle"
  /\ \A r \in PatchRow : r.pc # "idle"
BY DEF AtRest, JobRow, JobPcs, Late, PatchRow, Change, CloneRow

-----------------------------------------------------------------------------
(* What a step of a job does. *)

JobMoves(j, pc) ==
  /\ job'[j] \in JobRow /\ job'[j].pc = pc
  /\ job'[j].file = job[j].file /\ job'[j].cfg = job[j].cfg

Writes(x, status, sig, chunks) ==
  /\ row'[x].status = status /\ row'[x].sig = sig /\ row'[x].chunks = chunks
  /\ \A y \in Copies : y # x => row'[y] = row[y]

LEMMA GoIs ==
  ASSUME IndexTypes, NEW j \in Jobs, job[j] \in JobRow, NEW pc \in JobPcs, Go(j, pc)
  PROVE  /\ job' \in [Jobs -> {AtRest} \cup JobRow] /\ JobMoves(j, pc)
         /\ \A k \in Jobs : k # j => job'[k] = job[k]
<1>1. [job[j] EXCEPT !.pc = pc] \in JobRow
  BY DEF JobRow
<1>2. job'[j] = [job[j] EXCEPT !.pc = pc]
  BY DEF IndexTypes, Go
<1>3. /\ job'[j].pc = pc /\ job'[j].file = job[j].file /\ job'[j].cfg = job[j].cfg
  BY <1>2 DEF JobRow
<1> QED
  BY <1>1, <1>2, <1>3 DEF IndexTypes, Go, JobMoves

LEMMA EndIs ==
  ASSUME IndexTypes, NEW j \in Jobs, End(j)
  PROVE  /\ job' \in [Jobs -> {AtRest} \cup JobRow] /\ job'[j] = AtRest
         /\ \A k \in Jobs : k # j => job'[k] = job[k]
BY DEF IndexTypes, End

LEMMA StatusIsSet ==
  ASSUME IndexTypes, NEW j \in Jobs, job[j] \in JobRow, NEW s \in Statuses, SetStatus(j, s)
  PROVE  /\ row' \in [Copies -> Row]
         /\ Writes(job[j].file, s, row[job[j].file].sig, row[job[j].file].chunks)
<1> DEFINE x == job[j].file
<1>1. x \in Copies /\ row[x] \in Row
  BY DEF IndexTypes, JobRow
<1> HIDE DEF x
<1>2. row' = [row EXCEPT ![x] = [row[x] EXCEPT !.status = s]]
  BY DEF SetStatus, x
<1>3. [row[x] EXCEPT !.status = s] \in Row
  BY <1>1 DEF Row, Statuses
<1>4. row'[x] = [row[x] EXCEPT !.status = s]
  BY <1>1, <1>2 DEF IndexTypes
<1>5. row'[x].status = s /\ row'[x].sig = row[x].sig /\ row'[x].chunks = row[x].chunks
  BY <1>1, <1>4 DEF Row
<1>6. row' \in [Copies -> Row] /\ \A y \in Copies : y # x => row'[y] = row[y]
  BY <1>1, <1>2, <1>3 DEF IndexTypes
<1> QED
  BY <1>5, <1>6 DEF Writes, x

Claims(j) ==
  /\ job[j].pc = "claim" /\ JobMoves(j, "embed")
  /\ Writes(job[j].file, "processing", job[j].cfg.sig, row[job[j].file].chunks)

Fails(j) ==
  /\ job[j].pc = "embed" /\ job'[j] = AtRest
  /\ Writes(job[j].file, "failed", row[job[j].file].sig, row[job[j].file].chunks)

Replaces(j) ==
  /\ job[j].pc = "embed" /\ JobMoves(j, "count") /\ Signed(j)
  /\ Writes(job[j].file, "processing", row[job[j].file].sig,
            [sig |-> job[j].cfg.sig, space |-> SpaceOf(job[j].cfg)])

Passes(j) ==
  /\ row' = row
  /\ \/ job[j].pc = "count" /\ JobMoves(j, "check")
     \/ job[j].pc = "check" /\ (JobMoves(j, "ready") \/ JobMoves(j, "stale"))
     \/ job[j].pc = "recheck" /\ JobMoves(j, "stale")

Readies(j) ==
  /\ job[j].pc = "ready" /\ JobMoves(j, "recheck") /\ Signed(j)
  /\ Writes(job[j].file, "ready", row[job[j].file].sig, row[job[j].file].chunks)

Outdates(j) ==
  /\ job[j].pc = "stale" /\ job'[j] = AtRest
  /\ Writes(job[j].file, "stale", row[job[j].file].sig, row[job[j].file].chunks)

Leaves(j) ==
  /\ job'[j] = AtRest /\ row' = row
  /\ job[j].pc \in {"recheck", "stale"} /\ Signed(j) /\ Outdated(j) => failures' > failures

JobDoes(j) ==
  \/ Claims(j) \/ Fails(j) \/ Replaces(j) \/ Passes(j) \/ Readies(j) \/ Outdates(j) \/ Leaves(j)

LEMMA ClaimDoes ==
  ASSUME IndexTypes, NEW j \in Jobs, job[j] \in JobRow, Claim(j)
  PROVE  JobDoes(j) /\ row' \in [Copies -> Row] /\ job' \in [Jobs -> {AtRest} \cup JobRow]
           /\ \A k \in Jobs : k # j => job'[k] = job[k]
<1>1. CASE Signed(j) /\ row[job[j].file].status \in {"processing", "ready"}
  <2>1. End(j) /\ row' = row
    BY <1>1 DEF Claim
  <2> QED
    BY <2>1, EndIs DEF IndexTypes, JobDoes, Leaves, Claim
<1>2. CASE ~(Signed(j) /\ row[job[j].file].status \in {"processing", "ready"})
  <2> DEFINE x == job[j].file
  <2> DEFINE g == job[j].cfg.sig
  <2> DEFINE r == [row[x] EXCEPT !.status = "processing", !.sig = g]
  <2>1. x \in Copies /\ row[x] \in Row /\ g \in Signatures
    BY DEF IndexTypes, JobRow, JobSettings
  <2>2. Go(j, "embed") /\ row' = [row EXCEPT ![x].status = "processing", ![x].sig = g]
    BY <1>2 DEF Claim
  <2>3. JobMoves(j, "embed") /\ job' \in [Jobs -> {AtRest} \cup JobRow]
           /\ \A k \in Jobs : k # j => job'[k] = job[k]
    BY <2>2, GoIs DEF JobPcs
  <2> HIDE DEF x, g
  <2>4. row'[x] = r /\ (\A y \in Copies : y # x => row'[y] = row[y]) /\ DOMAIN row' = Copies
        /\ row' = [y \in Copies |-> row'[y]]
    BY <2>1, <2>2 DEF IndexTypes
  <2>5. r.status = "processing" /\ r.sig = g /\ r.chunks = row[x].chunks /\ r \in Row
    BY <2>1 DEF Row
  <2>6. row' \in [Copies -> Row]
    BY <2>4, <2>5 DEF IndexTypes
  <2>7. Writes(x, "processing", g, row[x].chunks)
    BY <2>4, <2>5 DEF Writes
  <2> QED
    BY <2>3, <2>6, <2>7 DEF JobDoes, Claims, Claim, x, g
<1> QED
  BY <1>1, <1>2

LEMMA ReplaceDoes ==
  ASSUME IndexTypes, NEW j \in Jobs, job[j] \in JobRow, Replace(j)
  PROVE  JobDoes(j) /\ row' \in [Copies -> Row] /\ job' \in [Jobs -> {AtRest} \cup JobRow]
           /\ \A k \in Jobs : k # j => job'[k] = job[k]
<1>1. CASE ~(Signed(j) /\ row[job[j].file].status = "processing")
  <2>1. End(j) /\ row' = row
    BY <1>1 DEF Replace
  <2> QED
    BY <2>1, EndIs DEF IndexTypes, JobDoes, Leaves, Replace
<1>2. CASE Signed(j) /\ row[job[j].file].status = "processing"
  <2> DEFINE x == job[j].file
  <2> DEFINE c == [sig |-> job[j].cfg.sig, space |-> SpaceOf(job[j].cfg)]
  <2> DEFINE r == [row[x] EXCEPT !.chunks = c]
  <2>1. x \in Copies /\ row[x] \in Row /\ job[j].cfg \in JobSettings
    BY DEF IndexTypes, JobRow
  <2>2. c \in Chunks
    BY <2>1, JobSettingsAre DEF Chunks
  <2>3. Go(j, "count") /\ row' = [row EXCEPT ![x] = r]
    BY <1>2 DEF Replace
  <2>4. JobMoves(j, "count") /\ job' \in [Jobs -> {AtRest} \cup JobRow]
           /\ \A k \in Jobs : k # j => job'[k] = job[k]
    BY <2>3, GoIs DEF JobPcs, Late
  <2> HIDE DEF x, c
  <2>5. r.status = row[x].status /\ r.sig = row[x].sig /\ r.chunks = c /\ r \in Row
    BY <2>1, <2>2 DEF Row
  <2> HIDE DEF r
  <2>6. row' \in [Copies -> Row] /\ row'[x] = r /\ \A y \in Copies : y # x => row'[y] = row[y]
    BY <2>1, <2>3, <2>5 DEF IndexTypes
  <2>7. Writes(x, "processing", row[x].sig, c)
    BY <1>2, <2>5, <2>6 DEF Writes, x
  <2> QED
    BY <1>2, <2>4, <2>6, <2>7 DEF JobDoes, Replaces, Replace, x, c
<1> QED
  BY <1>1, <1>2

LEMMA StatusDoes ==
  ASSUME IndexTypes, NEW j \in Jobs, job[j] \in JobRow,
         Fail(j) \/ SetReady(j) \/ SetStale(j)
  PROVE  JobDoes(j) /\ row' \in [Copies -> Row] /\ job' \in [Jobs -> {AtRest} \cup JobRow]
           /\ \A k \in Jobs : k # j => job'[k] = job[k]
<1>0. failures \in Nat
  BY EmbeddingIndexAssumption DEF IndexTypes, EmbeddingIndexAssumption
<1>1. CASE Fail(j)
  <2>1. End(j) /\ job[j].pc = "embed"
    BY <1>1 DEF Fail
  <2>2. CASE Signed(j)
    <3>1. SetStatus(j, "failed")
      BY <1>1, <2>2 DEF Fail
    <3> QED
      BY <2>1, <3>1, EndIs, StatusIsSet DEF JobDoes, Fails, Statuses
  <2>3. CASE ~Signed(j)
    <3>1. row' = row
      BY <1>1, <2>3 DEF Fail
    <3> QED
      BY <2>1, <3>1, EndIs DEF JobDoes, Leaves, IndexTypes
  <2> QED
    BY <2>2, <2>3
<1>2. CASE SetReady(j)
  <2>1. job[j].pc = "ready"
    BY <1>2 DEF SetReady
  <2>2. CASE SetStatus(j, "ready") /\ Go(j, "recheck") /\ Signed(j)
    BY <2>1, <2>2, GoIs, StatusIsSet DEF JobDoes, Readies, Statuses, JobPcs, Late
  <2>3. CASE End(j) /\ row' = row
    BY <2>1, <2>3, EndIs DEF JobDoes, Leaves, IndexTypes
  <2> QED
    BY <1>2, <2>2, <2>3 DEF SetReady
<1>3. CASE SetStale(j)
  <2>1. job[j].pc = "stale" /\ End(j)
    BY <1>3 DEF SetStale
  <2>2. CASE Signed(j) /\ SetStatus(j, "stale")
    BY <2>1, <2>2, EndIs, StatusIsSet DEF JobDoes, Outdates, Statuses
  <2>3. CASE row' = row /\ (Signed(j) => failures' = failures + 1)
    BY <1>0, <2>1, <2>3, EndIs DEF JobDoes, Leaves, IndexTypes
  <2> QED
    BY <1>3, <2>2, <2>3 DEF SetStale, Failure
<1> QED
  BY <1>1, <1>2, <1>3

LEMMA PassDoes ==
  ASSUME IndexTypes, NEW j \in Jobs, job[j] \in JobRow, Count(j) \/ Check(j) \/ Recheck(j)
  PROVE  JobDoes(j) /\ row' \in [Copies -> Row] /\ job' \in [Jobs -> {AtRest} \cup JobRow]
           /\ \A k \in Jobs : k # j => job'[k] = job[k]
<1>1. CASE Count(j)
  <2>1. job[j].pc = "count" /\ row' = row /\ (Go(j, "check") \/ End(j))
    BY <1>1 DEF Count
  <2> QED
    BY <2>1, EndIs, GoIs DEF JobDoes, Leaves, Passes, IndexTypes, JobPcs, Late
<1>2. CASE Check(j)
  <2>1. job[j].pc = "check" /\ row' = row /\ (Go(j, "ready") \/ Go(j, "stale"))
    BY <1>2 DEF Check
  <2> QED
    BY <2>1, GoIs DEF JobDoes, Passes, IndexTypes, JobPcs, Late
<1>3. CASE Recheck(j)
  <2>1. job[j].pc = "recheck" /\ row' = row /\ (Go(j, "stale") \/ (End(j) /\ ~Outdated(j)))
    BY <1>3 DEF Recheck, Current, Outdated
  <2> QED
    BY <2>1, EndIs, GoIs DEF JobDoes, Leaves, Passes, IndexTypes, JobPcs, Late
<1> QED
  BY <1>1, <1>2, <1>3

LEMMA JobSteps ==
  ASSUME IndexTypes, NEW j \in Jobs, JobStep(j)
  PROVE  /\ job[j] \in JobRow /\ JobDoes(j)
         /\ row' \in [Copies -> Row] /\ job' \in [Jobs -> {AtRest} \cup JobRow]
         /\ \A k \in Jobs : k # j => job'[k] = job[k]
         /\ failures' \in 0..MaxFailures /\ failures' >= failures
         /\ UNCHANGED <<stored, runtime, patch, clone, patches, deletions, restarts>>
<1>1. job[j] \in JobRow
  BY RestIs DEF IndexTypes, JobStep, Claim, Fail, Replace, Count, Check, SetReady, Recheck, SetStale
<1>2. failures' = failures \/ (failures < MaxFailures /\ failures' = failures + 1)
  BY DEF JobStep, Claim, Fail, Replace, Count, Check, SetReady, Recheck, SetStale, Failure, NoFailure
<1>3. failures' \in 0..MaxFailures /\ failures' >= failures
  BY <1>2, EmbeddingIndexAssumption DEF IndexTypes, EmbeddingIndexAssumption
<1>4. \/ Claim(j) \/ Replace(j) \/ Fail(j) \/ SetReady(j) \/ SetStale(j)
      \/ Count(j) \/ Check(j) \/ Recheck(j)
  BY DEF JobStep
<1>5. JobDoes(j) /\ row' \in [Copies -> Row] /\ job' \in [Jobs -> {AtRest} \cup JobRow]
           /\ \A k \in Jobs : k # j => job'[k] = job[k]
  BY <1>1, <1>4, ClaimDoes, ReplaceDoes, StatusDoes, PassDoes
<1> QED
  BY <1>1, <1>3, <1>5 DEF JobStep

-----------------------------------------------------------------------------
(* What the steps of the others do. *)

LEMMA StartIs ==
  ASSUME IndexTypes, NEW j \in Jobs, NEW x \in Copies, Start(j, x)
  PROVE  /\ job' \in [Jobs -> {AtRest} \cup JobRow]
         /\ job[j] = AtRest /\ row[x].status # "absent"
         /\ job'[j] \in JobRow
         /\ job'[j].pc = "claim" /\ job'[j].file = x
         /\ job'[j].cfg.sig = Active /\ SpaceOf(job'[j].cfg) = SpaceOf(runtime)
         /\ \A k \in Jobs : k # j => job'[k] = job[k]
<1> DEFINE c == [runtime EXCEPT !.sig = Active]
<1> DEFINE r == [pc |-> "claim", file |-> x, cfg |-> c]
<1>1. runtime \in Settings /\ Active \in Signatures
  BY SignatureIs DEF IndexTypes, Active
<1>2. c \in JobSettings /\ c.sig = Active /\ SpaceOf(c) = SpaceOf(runtime)
  BY <1>1 DEF Settings, JobSettings, SpaceOf
<1>3. job' = [job EXCEPT ![j] = r] /\ job[j] = AtRest /\ row[x].status # "absent"
  BY DEF Start
<1> HIDE DEF c
<1>4. r \in JobRow /\ r.pc = "claim" /\ r.file = x /\ r.cfg = c
  BY <1>2 DEF JobRow, JobPcs
<1> HIDE DEF r
<1> QED
  BY <1>2, <1>3, <1>4 DEF IndexTypes

\* Rows are as they were but for their status.
Restated(x) ==
  /\ row'[x].sig = row[x].sig /\ row'[x].chunks = row[x].chunks
  /\ row'[x].status = "absent" <=> row[x].status = "absent"

LEMMA TimeoutIs ==
  ASSUME IndexTypes, NEW x \in Copies, Timeout(x)
  PROVE  /\ row' \in [Copies -> Row] /\ \A y \in Copies : Restated(y)
         /\ row'[x].status = "failed" /\ \A y \in Copies : y # x => row'[y] = row[y]
<1> DEFINE r == [row[x] EXCEPT !.status = "failed"]
<1>1. row[x] \in Row /\ row[x].status = "processing" /\ row' = [row EXCEPT ![x] = r]
  BY DEF IndexTypes, Timeout
<1>2. r \in Row /\ r.status = "failed" /\ r.sig = row[x].sig /\ r.chunks = row[x].chunks
  BY <1>1 DEF Row
<1> HIDE DEF r
<1>3. row' \in [Copies -> Row] /\ row'[x] = r /\ \A y \in Copies : y # x => row'[y] = row[y]
  BY <1>1, <1>2 DEF IndexTypes
<1> QED
  BY <1>1, <1>2, <1>3 DEF Restated

LEMMA MarkedIs ==
  ASSUME IndexTypes, NEW sig, row' = Marked(sig)
  PROVE  /\ row' \in [Copies -> Row] /\ \A x \in Copies : Restated(x)
         /\ \A x \in Copies : row'[x].status = "ready" =>
              row[x].status = "ready" /\ row[x].chunks # NoChunks /\ row[x].chunks.sig = sig
<1>1. ASSUME NEW x \in Copies
      PROVE  /\ row'[x] \in Row /\ Restated(x)
             /\ row'[x].status = "ready" =>
                  row[x].status = "ready" /\ row[x].chunks # NoChunks /\ row[x].chunks.sig = sig
  <2> DEFINE r == [row[x] EXCEPT !.status = "stale"]
  <2> DEFINE hit == /\ row[x].status \in {"ready", "processing"}
                    /\ row[x].chunks # NoChunks => row[x].chunks.sig # sig
  <2>1. row[x] \in Row
    BY DEF IndexTypes
  <2>2. r \in Row /\ r.status = "stale" /\ r.sig = row[x].sig /\ r.chunks = row[x].chunks
    BY <2>1 DEF Row
  <2> HIDE DEF r
  <2>3. row'[x] = IF hit THEN r ELSE row[x]
    BY DEF Marked, r
  <2>4. CASE hit
    BY <2>1, <2>2, <2>3, <2>4 DEF Restated
  <2>5. CASE ~hit
    BY <2>1, <2>3, <2>5 DEF Restated
  <2> QED
    BY <2>4, <2>5
<1>2. row' \in [Copies -> Row]
  BY <1>1 DEF Marked
<1> QED
  BY <1>1, <1>2

LEMMA SettingsIs ==
  ASSUME NEW s \in Settings
  PROVE  /\ s = [model |-> s.model, host |-> s.host, sig |-> s.sig]
         /\ DOMAIN s = {"model", "host", "sig"}
         /\ s.model \in Models /\ s.host \in Hosts /\ s.sig \in Signatures \cup {Unsigned}
BY DEF Settings

LEMMA AppliedIs ==
  ASSUME NEW s \in Settings, NEW change, change.values \in Settings
  PROVE  /\ Applied(change, s) \in Settings
         /\ \A k \in Keys : Applied(change, s)[k] =
                              IF k \in change.keys THEN change.values[k] ELSE s[k]
<1> DEFINE v == change.values
<1> DEFINE a == Applied(change, s)
<1>1. /\ DOMAIN s = Keys /\ s.model \in Models /\ s.host \in Hosts
      /\ s.sig \in Signatures \cup {Unsigned}
  BY SettingsIs DEF Keys
<1>2. v.model \in Models /\ v.host \in Hosts /\ v.sig \in Signatures \cup {Unsigned}
  BY SettingsIs
<1>3. a = [k \in Keys |-> IF k \in change.keys THEN v[k] ELSE s[k]]
  BY <1>1 DEF Applied
<1>4. /\ a.model \in Models /\ a.host \in Hosts /\ a.sig \in Signatures \cup {Unsigned}
      /\ a = [model |-> a.model, host |-> a.host, sig |-> a.sig]
  BY <1>1, <1>2, <1>3 DEF Keys
<1>5. a \in Settings
  BY <1>4 DEF Settings
<1> QED
  BY <1>3, <1>5

\* Settings that agree on every key are the same.
LEMMA SettingsAgree ==
  ASSUME NEW r \in Settings, NEW s \in Settings, \A k \in Keys : r[k] = s[k]
  PROVE  r = s
BY SettingsIs DEF Keys

LEMMA BaselineIs == Baseline \in Settings
BY EmbeddingIndexAssumption DEF Baseline, Settings, EmbeddingIndexAssumption

\* The settings a change of settings that were published leads to.
LeadsTo(change) ==
  /\ Coherent(runtime) => Coherent(Applied(change, runtime))
  /\ Coherent(runtime) /\ change.then = "idle" => Applied(change, runtime) = runtime

LEMMA ChangeIs ==
  ASSUME IndexTypes, NEW p \in Patches, NEW keys \in SUBSET Keys, NEW m \in Models, NEW h \in Hosts,
         BeginPatch(p, keys, m, h)
  PROVE  \E change \in Change : patch' = [patch EXCEPT ![p] = change] /\ LeadsTo(change)
<1> DEFINE next == [model |-> IF "model" \in keys THEN m ELSE runtime.model,
                    host |-> IF "host" \in keys THEN h ELSE runtime.host]
<1> DEFINE moves == SpaceOf(next) # SpaceOf(runtime)
<1> DEFINE signs == moves \/ runtime.sig = Unsigned
<1> DEFINE written == keys \cup (IF signs THEN {"sig"} ELSE {})
<1> DEFINE values == [model |-> next.model, host |-> next.host,
                      sig |-> IF moves THEN SpaceOf(next) ELSE Active]
<1> DEFINE then == IF keys \subseteq {"sig"} /\ ~signs THEN "idle" ELSE "aim"
<1> DEFINE change == [pc |-> "write", keys |-> written, values |-> values, then |-> then]
<1>1. /\ runtime \in Settings /\ runtime.model \in Models /\ runtime.host \in Hosts
      /\ Active \in Signatures /\ (runtime.sig # Unsigned => Active = runtime.sig)
  BY SettingsIs, SignatureIs DEF IndexTypes, Active
<1>2. next.model \in Models /\ next.host \in Hosts
  BY <1>1
<1>3. SpaceOf(next) = <<next.model, next.host>> /\ SpaceOf(runtime) = <<runtime.model, runtime.host>>
  BY DEF SpaceOf
<1>4. SpaceOf(next) \in Signatures
  BY <1>2, <1>3 DEF Signatures
<1>5. /\ "model" \notin keys => next.model = runtime.model
      /\ "host" \notin keys => next.host = runtime.host
      /\ ~moves => next.model = runtime.model /\ next.host = runtime.host
  BY <1>3
<1>6. patch' = [patch EXCEPT ![p] = change]
  BY DEF BeginPatch
<1> HIDE DEF next
<1>7. values \in Settings
  BY <1>1, <1>2, <1>4 DEF Settings
<1>8. change \in Change
  BY <1>7 DEF Change, Keys
<1>9. values.model = next.model /\ values.host = next.host
      /\ values.sig = IF moves THEN SpaceOf(next) ELSE Active
  OBVIOUS
<1>10. SpaceOf(values) = SpaceOf(next)
  BY <1>3, <1>9 DEF SpaceOf
<1> HIDE DEF values
<1>11. /\ Applied(change, runtime) \in Settings
       /\ \A k \in Keys : Applied(change, runtime)[k] =
                             IF k \in written THEN values[k] ELSE runtime[k]
  BY <1>1, <1>7, AppliedIs
<1>12. Applied(change, runtime)["model"] = values["model"]
       /\ Applied(change, runtime)["host"] = values["host"]
  BY <1>5, <1>9, <1>11 DEF Keys
<1>13. Applied(change, runtime)["sig"] = values["sig"]
  BY <1>1, <1>9, <1>11 DEF Keys
<1>14. Applied(change, runtime) = values
  BY <1>7, <1>11, <1>12, <1>13, SettingsAgree DEF Keys
<1>15. Coherent(runtime) => Coherent(values)
  <2>1. CASE moves
    BY <1>9, <1>10, <2>1 DEF Coherent, Names
  <2>2. CASE ~moves
    <3>1. runtime.sig # Unsigned \/ ~Coherent(runtime)
      BY <1>1, <1>3, EmbeddingIndexAssumption DEF Coherent, Names, EmbeddingIndexAssumption
    <3> QED
      BY <1>1, <1>9, <1>10, <2>2, <3>1 DEF Coherent
  <2> QED
    BY <2>1, <2>2
<1>16. change.then = "idle" => values = runtime
  <2> SUFFICES ASSUME change.then = "idle" PROVE values = runtime
    OBVIOUS
  <2>1. ~moves /\ runtime.sig # Unsigned
    OBVIOUS
  <2>2. values.model = runtime.model /\ values.host = runtime.host /\ values.sig = runtime.sig
    BY <1>1, <1>5, <1>9, <2>1
  <2> QED
    BY <1>1, <1>7, <2>2, SettingsIs
<1>17. LeadsTo(change)
  BY <1>14, <1>15, <1>16 DEF LeadsTo
<1> QED
  BY <1>6, <1>8, <1>17

\* A change begins: on top of what is published, or with the values that are stored.
Begins(p) ==
  /\ patch[p] = AtRest /\ patch'[p].pc = "write"
  /\ patches' = patches + 1 /\ deletions' = deletions
  /\ UNCHANGED <<stored, runtime, row, failures>>
  /\ stored = runtime => LeadsTo(patch'[p])
  /\ stored # runtime /\ ~Mixes(p) => Applied(patch'[p], stored) = stored

Deletes(p) ==
  /\ patch[p] = AtRest /\ patch'[p].pc = "write"
  /\ patches' = patches /\ deletions' = deletions + 1
  /\ UNCHANGED <<stored, runtime, row, failures>>

Stores(p) ==
  /\ patch[p].pc = "write" /\ patch'[p].pc = "list" /\ patch'[p].then = patch[p].then
  /\ stored' = Applied(patch[p], stored)
  /\ UNCHANGED <<runtime, row, failures, patches, deletions>>

Drops(p) ==
  /\ patch[p].pc \in {"list", "publish"} /\ patch'[p] = AtRest /\ failures' = failures + 1
  /\ UNCHANGED <<stored, runtime, row, patches, deletions>>

Proceeds(p) ==
  /\ UNCHANGED <<stored, row, failures, patches, deletions>>
  /\ \/ /\ patch[p].pc = "list" /\ patch'[p].pc = "publish" /\ patch'[p].next = stored
        /\ patch'[p].then = patch[p].then /\ runtime' = runtime
     \/ /\ patch[p].pc = "publish" /\ runtime' = patch[p].next
        /\ \/ patch[p].then = "idle" /\ patch'[p] = AtRest
           \/ patch[p].then = "aim" /\ patch'[p].pc = "aim"
     \/ /\ patch[p].pc = "aim" /\ patch'[p].pc = "mark" /\ patch'[p].sig = Active
        /\ runtime' = runtime

Marks(p) ==
  /\ patch[p].pc = "mark" /\ patch'[p] = AtRest
  /\ UNCHANGED <<stored, runtime, patches, deletions>>
  /\ \/ row' = Marked(patch[p].sig) /\ failures' = failures
     \/ row' = row /\ failures' = failures + 1

PatchDoes(p) ==
  Begins(p) \/ Deletes(p) \/ Stores(p) \/ Drops(p) \/ Proceeds(p) \/ Marks(p)

PatchTypes(p) ==
  /\ stored' \in Settings /\ runtime' \in Settings /\ row' \in [Copies -> Row]
  /\ patch' \in [Patches -> {AtRest} \cup PatchRow]
  /\ \A q \in Patches : q # p => patch'[q] = patch[q]

LEMMA PatchSet ==
  ASSUME IndexTypes, NEW p \in Patches, NEW r \in {AtRest} \cup PatchRow,
         patch' = [patch EXCEPT ![p] = r]
  PROVE  /\ patch' \in [Patches -> {AtRest} \cup PatchRow] /\ patch'[p] = r
         /\ \A q \in Patches : q # p => patch'[q] = patch[q]
BY DEF IndexTypes

LEMMA BeginDoes ==
  ASSUME IndexTypes, NEW p \in Patches,
         \E keys \in SUBSET {"model", "host", "sig"}, m \in Models, h \in Hosts :
           BeginPatch(p, keys, m, h)
  PROVE  Begins(p) /\ PatchTypes(p) /\ patches' \in 0..MaxPatches
<1>1. PICK keys \in SUBSET Keys, m \in Models, h \in Hosts : BeginPatch(p, keys, m, h)
  BY DEF Keys
<1>2. PICK change \in Change : patch' = [patch EXCEPT ![p] = change] /\ LeadsTo(change)
  BY <1>1, ChangeIs
<1>3. /\ patch[p] = AtRest /\ patches' = patches + 1 /\ patches < MaxPatches
      /\ UNCHANGED <<stored, runtime, row, deletions, failures>>
  BY <1>1 DEF BeginPatch
<1>4. change \in PatchRow /\ change.pc = "write" /\ change.values \in Settings
  BY DEF PatchRow, Change
<1>5. PatchTypes(p) /\ patch'[p] = change
  BY <1>2, <1>3, <1>4, PatchSet DEF PatchTypes, IndexTypes
<1>6. patches' \in 0..MaxPatches
  BY <1>3, EmbeddingIndexAssumption DEF IndexTypes, EmbeddingIndexAssumption
<1>7. stored # runtime /\ ~Mixes(p) => Applied(change, stored) = stored
  <2> SUFFICES ASSUME stored # runtime, ~Mixes(p) PROVE Applied(change, stored) = stored
    OBVIOUS
  <2>1. \A k \in change.keys : change.values[k] = stored[k]
    BY <1>3, <1>4, <1>5 DEF Mixes
  <2>2. stored \in Settings
    BY DEF IndexTypes
  <2> QED
    BY <1>4, <2>1, <2>2, AppliedIs, SettingsAgree
<1>8. stored = runtime => LeadsTo(change)
  BY <1>2
<1>9. Begins(p)
  BY <1>3, <1>4, <1>5, <1>7, <1>8 DEF Begins
<1> QED
  BY <1>5, <1>6, <1>9

LEMMA DeleteDoes ==
  ASSUME IndexTypes, NEW p \in Patches, NEW k \in {"model", "host", "sig"}, BeginDelete(p, k)
  PROVE  Deletes(p) /\ PatchTypes(p) /\ deletions' \in 0..MaxDeletions
<1> DEFINE r == [pc |-> "write", keys |-> {k}, values |-> Baseline, then |-> "idle"]
<1>1. r \in PatchRow /\ r.pc = "write"
  BY BaselineIs DEF PatchRow, Change, Keys
<1>2. /\ patch[p] = AtRest /\ deletions' = deletions + 1 /\ deletions < MaxDeletions
      /\ UNCHANGED <<stored, runtime, row, patches, failures>>
      /\ patch' = [patch EXCEPT ![p] = r]
  BY DEF BeginDelete
<1> HIDE DEF r
<1>3. PatchTypes(p) /\ patch'[p] = r
  BY <1>1, <1>2, PatchSet DEF PatchTypes, IndexTypes
<1>4. deletions' \in 0..MaxDeletions
  BY <1>2, EmbeddingIndexAssumption DEF IndexTypes, EmbeddingIndexAssumption
<1> QED
  BY <1>1, <1>2, <1>3, <1>4 DEF Deletes

LEMMA ChangeHeld ==
  ASSUME IndexTypes, NEW p \in Patches
  PROVE  /\ patch[p].pc = "write" => patch[p] \in Change
         /\ patch[p].pc \in {"list", "publish"} => patch[p].then \in {"idle", "aim"}
         /\ patch[p].pc = "publish" => patch[p].next \in Settings
BY RestIs DEF IndexTypes, PatchRow, Change

LEMMA StoreDoes ==
  ASSUME IndexTypes, NEW p \in Patches, WritePatch(p)
  PROVE  Stores(p) /\ PatchTypes(p)
<1>1. patch[p].pc = "write" /\ patch[p] \in Change
  BY ChangeHeld DEF WritePatch
<1>2. patch[p].values \in Settings /\ patch[p].then \in {"idle", "aim"}
  BY <1>1 DEF Change
<1>3. stored' = Applied(patch[p], stored) /\ stored' \in Settings
  BY <1>2, AppliedIs DEF WritePatch, IndexTypes
<1> DEFINE r == [pc |-> "list", then |-> patch[p].then]
<1>4. r \in PatchRow /\ r.pc = "list" /\ r.then = patch[p].then
  BY <1>2 DEF PatchRow
<1>5. patch' = [patch EXCEPT ![p] = r]
  BY DEF WritePatch
<1> HIDE DEF r
<1>6. /\ patch' \in [Patches -> {AtRest} \cup PatchRow] /\ patch'[p] = r
      /\ \A q \in Patches : q # p => patch'[q] = patch[q]
  BY <1>4, <1>5, PatchSet
<1> QED
  BY <1>1, <1>3, <1>4, <1>6 DEF WritePatch, Stores, PatchTypes, IndexTypes

LEMMA DropDoes ==
  ASSUME IndexTypes, NEW p \in Patches, FailPatch(p)
  PROVE  Drops(p) /\ PatchTypes(p) /\ failures' \in 0..MaxFailures
<1>1. /\ patch' \in [Patches -> {AtRest} \cup PatchRow] /\ patch'[p] = AtRest
      /\ \A q \in Patches : q # p => patch'[q] = patch[q]
  BY PatchSet DEF FailPatch
<1>2. failures' = failures + 1 /\ failures' \in 0..MaxFailures
  BY EmbeddingIndexAssumption DEF FailPatch, Failure, IndexTypes, EmbeddingIndexAssumption
<1> QED
  BY <1>1, <1>2 DEF FailPatch, Drops, PatchTypes, IndexTypes

LEMMA ProceedDoes ==
  ASSUME IndexTypes, NEW p \in Patches, List(p) \/ Publish(p) \/ Aim(p)
  PROVE  Proceeds(p) /\ PatchTypes(p)
<1>1. CASE List(p)
  <2> DEFINE r == [pc |-> "publish", next |-> stored, then |-> patch[p].then]
  <2>1. r \in PatchRow /\ r.pc = "publish" /\ r.next = stored /\ r.then = patch[p].then
    BY <1>1, ChangeHeld DEF List, PatchRow, IndexTypes
  <2>2. patch' = [patch EXCEPT ![p] = r]
    BY <1>1 DEF List
  <2> HIDE DEF r
  <2>3. /\ patch' \in [Patches -> {AtRest} \cup PatchRow] /\ patch'[p] = r
        /\ \A q \in Patches : q # p => patch'[q] = patch[q]
    BY <2>1, <2>2, PatchSet
  <2> QED
    BY <1>1, <2>1, <2>3 DEF List, Proceeds, PatchTypes, IndexTypes
<1>2. CASE Publish(p)
  <2>1. /\ patch[p].pc = "publish" /\ patch[p].next \in Settings
        /\ patch[p].then = "idle" \/ patch[p].then = "aim"
    BY <1>2, ChangeHeld DEF Publish
  <2> DEFINE r == [pc |-> patch[p].then]
  <2>2. r \in {AtRest} \cup PatchRow /\ r.pc = patch[p].then
        /\ (patch[p].then = "idle" => r = AtRest)
    BY <2>1 DEF PatchRow, AtRest
  <2>3. patch' = [patch EXCEPT ![p] = r]
    BY <1>2 DEF Publish
  <2> HIDE DEF r
  <2>4. /\ patch' \in [Patches -> {AtRest} \cup PatchRow] /\ patch'[p] = r
        /\ \A q \in Patches : q # p => patch'[q] = patch[q]
    BY <2>2, <2>3, PatchSet
  <2> QED
    BY <1>2, <2>1, <2>2, <2>4 DEF Publish, Proceeds, PatchTypes, IndexTypes
<1>3. CASE Aim(p)
  <2> DEFINE r == [pc |-> "mark", sig |-> Active]
  <2>1. r \in PatchRow /\ r.pc = "mark" /\ r.sig = Active
    BY SignatureIs DEF PatchRow, IndexTypes, Active
  <2>2. patch' = [patch EXCEPT ![p] = r]
    BY <1>3 DEF Aim
  <2> HIDE DEF r
  <2>3. /\ patch' \in [Patches -> {AtRest} \cup PatchRow] /\ patch'[p] = r
        /\ \A q \in Patches : q # p => patch'[q] = patch[q]
    BY <2>1, <2>2, PatchSet
  <2> QED
    BY <1>3, <2>1, <2>3 DEF Aim, Proceeds, PatchTypes, IndexTypes
<1> QED
  BY <1>1, <1>2, <1>3

LEMMA MarkDoes ==
  ASSUME IndexTypes, NEW p \in Patches, Mark(p)
  PROVE  Marks(p) /\ PatchTypes(p) /\ failures' \in 0..MaxFailures
<1>1. /\ patch[p].pc = "mark" /\ patch' = [patch EXCEPT ![p] = AtRest]
      /\ UNCHANGED <<stored, runtime, patches, deletions>>
  BY DEF Mark
<1>2. /\ patch' \in [Patches -> {AtRest} \cup PatchRow] /\ patch'[p] = AtRest
      /\ \A q \in Patches : q # p => patch'[q] = patch[q]
  BY <1>1, PatchSet
<1>3. CASE row' = Marked(patch[p].sig) /\ failures' = failures
  <2>1. row' \in [Copies -> Row]
    BY <1>3, MarkedIs
  <2> QED
    BY <1>1, <1>2, <1>3, <2>1 DEF Marks, PatchTypes, IndexTypes
<1>4. CASE row' = row /\ failures < MaxFailures /\ failures' = failures + 1
  <2>1. failures' \in 0..MaxFailures
    BY <1>4, EmbeddingIndexAssumption DEF IndexTypes, EmbeddingIndexAssumption
  <2> QED
    BY <1>1, <1>2, <1>4, <2>1 DEF Marks, PatchTypes, IndexTypes
<1> QED
  BY <1>3, <1>4 DEF Mark, NoFailure, Failure

LEMMA PatchSteps ==
  ASSUME IndexTypes, NEW p \in Patches, PatchStep(p)
  PROVE  /\ PatchDoes(p) /\ PatchTypes(p)
         /\ patches' \in 0..MaxPatches /\ deletions' \in 0..MaxDeletions
         /\ failures' \in 0..MaxFailures
         /\ failures' >= failures /\ patches' >= patches /\ deletions' >= deletions
         /\ UNCHANGED <<job, clone, restarts>>
<1>0. patches \in Nat /\ deletions \in Nat /\ failures \in Nat
  BY EmbeddingIndexAssumption DEF IndexTypes, EmbeddingIndexAssumption
<1>1. CASE \E keys \in SUBSET {"model", "host", "sig"}, m \in Models, h \in Hosts :
             BeginPatch(p, keys, m, h)
  <2>1. Begins(p) /\ PatchTypes(p) /\ patches' \in 0..MaxPatches
    BY <1>1, BeginDoes
  <2> QED
    BY <1>0, <2>1 DEF PatchDoes, Begins, PatchStep, IndexTypes
<1>2. CASE \E k \in {"model", "host", "sig"} : BeginDelete(p, k)
  <2>1. Deletes(p) /\ PatchTypes(p) /\ deletions' \in 0..MaxDeletions
    BY <1>2, DeleteDoes
  <2> QED
    BY <1>0, <2>1 DEF PatchDoes, Deletes, PatchStep, IndexTypes
<1>3. CASE WritePatch(p)
  <2>1. Stores(p) /\ PatchTypes(p)
    BY <1>3, StoreDoes
  <2> QED
    BY <1>0, <2>1 DEF PatchDoes, Stores, PatchStep, IndexTypes
<1>4. CASE FailPatch(p)
  <2>1. Drops(p) /\ PatchTypes(p) /\ failures' \in 0..MaxFailures
    BY <1>4, DropDoes
  <2> QED
    BY <1>0, <2>1 DEF PatchDoes, Drops, PatchStep, IndexTypes
<1>5. CASE List(p) \/ Publish(p) \/ Aim(p)
  <2>1. Proceeds(p) /\ PatchTypes(p)
    BY <1>5, ProceedDoes
  <2> QED
    BY <1>0, <2>1 DEF PatchDoes, Proceeds, PatchStep, IndexTypes
<1>6. CASE Mark(p)
  <2>1. Marks(p) /\ PatchTypes(p) /\ failures' \in 0..MaxFailures
    BY <1>6, MarkDoes
  <2> QED
    BY <1>0, <2>1 DEF PatchDoes, Marks, PatchStep, IndexTypes
<1> QED
  BY <1>1, <1>2, <1>3, <1>4, <1>5, <1>6 DEF PatchStep

CloneTypes ==
  /\ row' \in [Copies -> Row] /\ clone' \in [pc : {"done"}] \cup CloneRow
  /\ failures' \in 0..MaxFailures /\ failures' >= failures
  /\ row'["source"] = row["source"]

CloneReads ==
  /\ clone = AtRest /\ clone'.pc = "create" /\ row' = row /\ job' = job
  /\ clone'.source.status = row["source"].status

CloneCreates ==
  /\ clone.pc = "create" /\ row'["copy"] = clone.source /\ job' = job
  /\ clone'.pc = IF clone.source.status = "ready" THEN "copy" ELSE "trigger"
  /\ clone'.source = clone.source

CloneCopies ==
  /\ clone.pc = "copy" /\ job' = job
  /\ \/ /\ clone'.pc = "done" /\ row'["copy"].status = "ready"
        /\ row'["copy"].chunks = row["source"].chunks
     \/ clone'.pc = "trigger" /\ row' = row /\ failures' = failures + 1

CloneTriggers ==
  /\ clone.pc = "trigger" /\ clone'.pc = "done" /\ UNCHANGED <<row, failures>>
  /\ (\E j \in Jobs : Start(j, "copy")) \/ job' = job

LEMMA CopiesAre == "source" \in Copies /\ "copy" \in Copies /\ \A x \in Copies : x # "copy" => x = "source"
BY DEF Copies

LEMMA CloneReadDoes ==
  ASSUME IndexTypes, CloneBegin
  PROVE  CloneTypes /\ CloneReads
<1> DEFINE r == [row["source"] EXCEPT !.chunks = NoChunks]
<1> DEFINE c == [pc |-> "create", source |-> r]
<1>1. row["source"] \in Row
  BY CopiesAre DEF IndexTypes
<1>2. r \in Row /\ r.status = row["source"].status /\ r.chunks = NoChunks
  BY <1>1 DEF Row
<1> HIDE DEF r
<1>3. c \in CloneRow /\ c.pc = "create" /\ c.source = r
  BY <1>2 DEF CloneRow, ReadRow
<1> HIDE DEF c
<1>4. clone' = c
  BY DEF CloneBegin, c, r
<1>5. failures \in Nat
  BY EmbeddingIndexAssumption DEF IndexTypes, EmbeddingIndexAssumption
<1> QED
  BY <1>2, <1>3, <1>4, <1>5 DEF CloneBegin, CloneReads, CloneTypes, IndexTypes

LEMMA CloneCreateDoes ==
  ASSUME IndexTypes, CloneCreate
  PROVE  CloneTypes /\ CloneCreates
<1>1. clone \in CloneRow /\ clone.pc = "create"
  BY RestIs DEF IndexTypes, CloneCreate
<1>2. clone.source \in Row
  BY <1>1 DEF CloneRow, ReadRow
<1> DEFINE pc == IF clone.source.status = "ready" THEN "copy" ELSE "trigger"
<1> DEFINE c == [clone EXCEPT !.pc = pc]
<1>3. pc \in {"create", "copy", "trigger"}
  OBVIOUS
<1> HIDE DEF pc
<1>4. c \in CloneRow /\ c.pc = pc /\ c.source = clone.source
  BY <1>1, <1>3 DEF CloneRow
<1> HIDE DEF c
<1>5. clone' = c /\ row' = [row EXCEPT !["copy"] = clone.source] /\ job' = job /\ failures' = failures
  BY DEF CloneCreate, c, pc
<1>6. /\ row' \in [Copies -> Row] /\ row'["copy"] = clone.source
      /\ row'["source"] = row["source"]
  BY <1>2, <1>5, CopiesAre DEF IndexTypes
<1>7. failures \in Nat
  BY EmbeddingIndexAssumption DEF IndexTypes, EmbeddingIndexAssumption
<1> QED
  BY <1>1, <1>4, <1>5, <1>6, <1>7 DEF CloneCreates, CloneTypes, IndexTypes, pc

LEMMA CloneCopyDoes ==
  ASSUME IndexTypes, CloneCopy
  PROVE  CloneTypes /\ CloneCopies
<1>0. failures \in Nat
  BY EmbeddingIndexAssumption DEF IndexTypes, EmbeddingIndexAssumption
<1>1. clone \in CloneRow /\ clone.pc = "copy" /\ job' = job
  BY RestIs DEF IndexTypes, CloneCopy
<1>2. clone.source \in Row /\ row["source"] \in Row
  BY <1>1, CopiesAre DEF CloneRow, ReadRow, IndexTypes
<1>3. CASE /\ clone' = [pc |-> "done"] /\ failures' = failures
           /\ row' = [row EXCEPT !["copy"] = [status |-> "ready", sig |-> clone.source.sig,
                                              chunks |-> row["source"].chunks]]
  <2> DEFINE r == [status |-> "ready", sig |-> clone.source.sig, chunks |-> row["source"].chunks]
  <2>1. r \in Row /\ r.status = "ready" /\ r.chunks = row["source"].chunks
    BY <1>2 DEF Row
  <2> HIDE DEF r
  <2>2. row' = [row EXCEPT !["copy"] = r]
    BY <1>3 DEF r
  <2>3. row' \in [Copies -> Row] /\ row'["copy"] = r /\ row'["source"] = row["source"]
    BY <2>1, <2>2, CopiesAre DEF IndexTypes
  <2> QED
    BY <1>0, <1>1, <1>3, <2>1, <2>3 DEF CloneCopies, CloneTypes, IndexTypes
<1>4. CASE failures < MaxFailures /\ failures' = failures + 1 /\ row' = row
           /\ clone' = [clone EXCEPT !.pc = "trigger"]
  <2>1. clone' \in CloneRow /\ clone'.pc = "trigger"
    BY <1>1, <1>4 DEF CloneRow
  <2>2. failures' \in 0..MaxFailures
    BY <1>0, <1>4, EmbeddingIndexAssumption DEF EmbeddingIndexAssumption
  <2> QED
    BY <1>0, <1>1, <1>4, <2>1, <2>2 DEF CloneCopies, CloneTypes, IndexTypes
<1> QED
  BY <1>3, <1>4 DEF CloneCopy, NoFailure, Failure

LEMMA CloneSteps ==
  ASSUME IndexTypes, CloneStep
  PROVE  /\ CloneTypes /\ (CloneReads \/ CloneCreates \/ CloneCopies \/ CloneTriggers)
         /\ job' \in [Jobs -> {AtRest} \cup JobRow]
         /\ clone' # AtRest
         /\ UNCHANGED <<stored, runtime, patch, patches, deletions, restarts>>
<1>0. UNCHANGED <<stored, runtime, patch, patches, deletions, restarts>>
  BY DEF CloneStep
<1>1. CloneTypes => clone' # AtRest
  BY RestIs DEF CloneTypes
<1>2. CASE CloneBegin
  BY <1>0, <1>1, <1>2, CloneReadDoes DEF CloneReads, IndexTypes
<1>3. CASE CloneCreate
  BY <1>0, <1>1, <1>3, CloneCreateDoes DEF CloneCreates, IndexTypes
<1>4. CASE CloneCopy
  BY <1>0, <1>1, <1>4, CloneCopyDoes DEF CloneCopies, IndexTypes
<1>5. CASE CloneTrigger
  <2>1. (\E j \in Jobs : Start(j, "copy")) \/ job' = job
    BY <1>5 DEF CloneTrigger
  <2>2. job' \in [Jobs -> {AtRest} \cup JobRow]
    BY <2>1, StartIs, CopiesAre DEF IndexTypes
  <2>3. clone' = [pc |-> "done"] /\ clone.pc = "trigger" /\ row' = row /\ failures' = failures
    BY <1>5 DEF CloneTrigger
  <2>4. failures \in Nat
    BY EmbeddingIndexAssumption DEF IndexTypes, EmbeddingIndexAssumption
  <2>5. clone' \in [pc : {"done"}] /\ clone'.pc = "done"
    BY <2>3
  <2> QED
    BY <1>0, <1>1, <2>1, <2>2, <2>3, <2>4, <2>5 DEF CloneTriggers, CloneTypes, IndexTypes
<1> QED
  BY <1>2, <1>3, <1>4, <1>5 DEF CloneStep

LEMMA RestartIs ==
  ASSUME IndexTypes, Restart
  PROVE  /\ restarts' = restarts + 1 /\ restarts' \in 0..MaxRestarts
         /\ stored' \in Settings /\ runtime' = stored'
         /\ stored.sig # Unsigned => stored' = stored
         /\ Active' = stored'.sig
         /\ \/ row' = Marked(stored'.sig) /\ failures' = failures
            \/ row' = row /\ failures' = failures + 1
         /\ failures' \in 0..MaxFailures
         /\ job' \in [Jobs -> {AtRest} \cup JobRow] /\ \A j \in Jobs : job'[j] = AtRest
         /\ patch' \in [Patches -> {AtRest} \cup PatchRow]
         /\ \A p \in Patches : patch'[p] = AtRest
         /\ \/ clone = AtRest /\ clone' = AtRest
            \/ clone' \in [pc : {"done"}] /\ clone'.pc = "done" /\ clone' # AtRest
         /\ UNCHANGED <<patches, deletions>>
<1>1. restarts' = restarts + 1 /\ restarts' \in 0..MaxRestarts
  BY EmbeddingIndexAssumption DEF Restart, IndexTypes, EmbeddingIndexAssumption
<1>2. \/ clone = AtRest /\ clone' = AtRest
      \/ clone' \in [pc : {"done"}] /\ clone'.pc = "done" /\ clone' # AtRest
  BY RestIs DEF Restart
<1>3. stored \in Settings /\ SignatureOf(stored) \in Signatures /\ runtime' = stored'
      /\ stored' = [stored EXCEPT !.sig = SignatureOf(stored)]
  BY SignatureIs DEF IndexTypes, Restart
<1>4. /\ stored' \in Settings /\ stored'.sig = SignatureOf(stored)
      /\ stored.sig # Unsigned => stored' = stored
  BY <1>3, SignatureIs DEF Settings
<1>5. stored'.sig # Unsigned
  BY <1>3, <1>4, EmbeddingIndexAssumption DEF Signatures, EmbeddingIndexAssumption
<1>6. Active' = stored'.sig
  BY <1>3, <1>5 DEF Active, SignatureOf
<1>7. /\ \/ row' = Marked(stored'.sig) /\ failures' = failures
         \/ row' = row /\ failures' = failures + 1
      /\ failures' \in 0..MaxFailures
  BY EmbeddingIndexAssumption
  DEF Restart, NoFailure, Failure, IndexTypes, EmbeddingIndexAssumption
<1> QED
  BY <1>1, <1>2, <1>3, <1>4, <1>6, <1>7 DEF Restart

-----------------------------------------------------------------------------
(* The types. *)

LEMMA IndexTypesStep == IndexTypes /\ [IndexNext]_indexVars => IndexTypes'
<1> SUFFICES ASSUME IndexTypes, IndexNext \/ UNCHANGED indexVars PROVE IndexTypes'
  OBVIOUS
<1>1. CASE UNCHANGED indexVars
  BY <1>1 DEF IndexTypes, indexVars, indexCore
<1>2. CASE IndexNext
  <2>1. overtaken' \in BOOLEAN /\ mixed' \in BOOLEAN
    BY <1>2 DEF IndexNext, IndexTypes
  <2>2. ASSUME NEW j \in Jobs, JobStep(j) PROVE IndexTypes'
    BY <2>1, <2>2, JobSteps DEF IndexTypes
  <2>3. ASSUME NEW j \in Jobs, NEW x \in Copies, StartJob(j, x) PROVE IndexTypes'
    BY <2>1, <2>3, StartIs DEF IndexTypes, StartJob
  <2>4. ASSUME NEW x \in Copies, Timeout(x) PROVE IndexTypes'
    BY <2>1, <2>4, TimeoutIs DEF IndexTypes, Timeout
  <2>5. ASSUME NEW p \in Patches, PatchStep(p) PROVE IndexTypes'
    BY <2>1, <2>5, PatchSteps DEF IndexTypes, PatchTypes
  <2>6. CASE CloneStep
    BY <2>1, <2>6, CloneSteps DEF IndexTypes, CloneTypes
  <2>7. CASE Restart
    BY <2>1, <2>7, RestartIs, MarkedIs DEF IndexTypes
  <2> QED
    BY <1>2, <2>2, <2>3, <2>4, <2>5, <2>6, <2>7 DEF IndexNext, IndexStep
<1> QED
  BY <1>1, <1>2

-----------------------------------------------------------------------------
(* Files, jobs and clones have vectors to rely on. *)

\* Rows keep their vectors and none becomes ready without them.
RowsGrow ==
  \A x \in Copies :
    /\ row'[x].status = "absent" <=> row[x].status = "absent"
    /\ row[x].chunks # NoChunks => row'[x].chunks # NoChunks
    /\ row'[x].status = "ready" /\ row'[x].chunks = NoChunks =>
         row[x].status = "ready" /\ row[x].chunks = NoChunks

JobsRely ==
  \A j \in Jobs : /\ job'[j] # AtRest => row'[job'[j].file].status # "absent"
                  /\ job'[j].pc \in Late => row'[job'[j].file].chunks # NoChunks

LEMMA ChunksKept ==
  ASSUME IndexTypes, ChunksSound, RowsGrow, JobsRely, clone' = clone,
         failures' \in Nat, failures' >= failures, restarts' \in Nat, restarts' >= restarts
  PROVE  ChunksSound'
<1>1. failures \in Nat /\ restarts \in Nat
  BY EmbeddingIndexAssumption DEF IndexTypes, EmbeddingIndexAssumption
<1>2. row'["copy"].status = "ready" /\ row'["copy"].chunks = NoChunks =>
        clone'.pc = "copy" \/ failures' > 0 \/ restarts' > 0
  BY <1>1, CopiesAre DEF ChunksSound, RowsGrow
<1>3. /\ row'["source"].status # "absent"
      /\ row'["source"].status = "ready" => row'["source"].chunks # NoChunks
      /\ clone'.pc \in {"idle", "create"} => row'["copy"].status = "absent"
  BY CopiesAre DEF ChunksSound, RowsGrow
<1>4. /\ clone'.pc \in {"create", "copy"} =>
           /\ clone'.source.status # "absent"
           /\ clone'.source.status = "ready" => row'["source"].chunks # NoChunks
      /\ clone'.pc = "copy" => clone'.source.status = "ready"
  BY CopiesAre DEF ChunksSound, RowsGrow
<1> QED
  BY <1>2, <1>3, <1>4 DEF ChunksSound, JobsRely

LEMMA ChunksKeptByJob ==
  ASSUME IndexTypes, ChunksSound, NEW j \in Jobs, JobStep(j)
  PROVE  RowsGrow /\ JobsRely
<1> DEFINE f == job[j].file
<1>1. /\ job[j] \in JobRow /\ JobDoes(j) /\ \A k \in Jobs : k # j => job'[k] = job[k]
      /\ f \in Copies /\ job[j] # AtRest
  BY JobSteps, RestIs DEF JobRow
<1>2. /\ row[f].status # "absent"
      /\ job[j].pc \in Late => row[f].chunks # NoChunks
  BY <1>1 DEF ChunksSound
<1>3. [sig |-> job[j].cfg.sig, space |-> SpaceOf(job[j].cfg)] # NoChunks
  <2>1. [sig |-> job[j].cfg.sig, space |-> SpaceOf(job[j].cfg)] \in Chunks
    BY <1>1, JobSettingsAre DEF JobRow, Chunks
  <2> QED
    BY <2>1, EmbeddingIndexAssumption DEF Chunks, Signatures, Spaces, EmbeddingIndexAssumption
<1>4. /\ \A y \in Copies : y # f => row'[y] = row[y]
      /\ row'[f].status = "absent" <=> row[f].status = "absent"
      /\ row[f].chunks # NoChunks => row'[f].chunks # NoChunks
      /\ row'[f].status = "ready" /\ row'[f].chunks = NoChunks =>
           row[f].status = "ready" /\ row[f].chunks = NoChunks
      /\ job'[j] = AtRest \/
           /\ job'[j].file = f
           /\ job'[j].pc \in Late => row'[f].chunks # NoChunks
  <2>1. CASE Claims(j)
    BY <1>2, <2>1 DEF Claims, Writes, JobMoves, Late
  <2>2. CASE Fails(j)
    BY <1>2, <2>2 DEF Fails, Writes
  <2>3. CASE Replaces(j)
    BY <1>2, <1>3, <2>3 DEF Replaces, Writes, JobMoves
  <2>4. CASE Passes(j)
    BY <1>2, <2>4 DEF Passes, JobMoves, Late
  <2>5. CASE Readies(j)
    BY <1>2, <2>5 DEF Readies, Writes, JobMoves, Late
  <2>6. CASE Outdates(j)
    BY <1>2, <2>6 DEF Outdates, Writes
  <2>7. CASE Leaves(j)
    BY <2>7 DEF Leaves
  <2> QED
    BY <1>1, <2>1, <2>2, <2>3, <2>4, <2>5, <2>6, <2>7 DEF JobDoes
<1> HIDE DEF f
<1>5. RowsGrow
  BY <1>1, <1>4 DEF RowsGrow
<1>6. ASSUME NEW k \in Jobs
      PROVE  /\ job'[k] # AtRest => row'[job'[k].file].status # "absent"
             /\ job'[k].pc \in Late => row'[job'[k].file].chunks # NoChunks
  <2>1. CASE k = j
    BY <1>2, <1>4, <2>1, RestIs DEF Late
  <2>2. CASE k # j
    <3>1. job'[k] = job[k] /\ (job[k] = AtRest \/ job[k].file \in Copies)
      BY <1>1, <2>2 DEF IndexTypes, JobRow
    <3>2. job[k].pc \in Late => job[k] # AtRest
      BY RestIs DEF Late
    <3> QED
      BY <1>5, <3>1, <3>2 DEF RowsGrow, ChunksSound
  <2> QED
    BY <2>1, <2>2
<1> QED
  BY <1>5, <1>6 DEF JobsRely

LEMMA ChunksKeptByRows ==
  ASSUME IndexTypes, ChunksSound, \A x \in Copies : Restated(x),
         \A x \in Copies : row'[x].status = "ready" => row[x].status = "ready",
         \A j \in Jobs : job'[j] = job[j] \/ job'[j] = AtRest
  PROVE  RowsGrow /\ JobsRely
<1>1. RowsGrow
  BY DEF RowsGrow, Restated
<1>2. ASSUME NEW k \in Jobs
      PROVE  /\ job'[k] # AtRest => row'[job'[k].file].status # "absent"
             /\ job'[k].pc \in Late => row'[job'[k].file].chunks # NoChunks
  <2>1. CASE job'[k] = AtRest
    BY <2>1, RestIs DEF Late
  <2>2. CASE job'[k] = job[k] /\ job[k] # AtRest
    <3>1. job[k].file \in Copies
      BY <2>2 DEF IndexTypes, JobRow
    <3> QED
      BY <1>1, <2>2, <3>1 DEF RowsGrow, ChunksSound
  <2> QED
    BY <2>1, <2>2
<1> QED
  BY <1>1, <1>2 DEF JobsRely

LEMMA ChunksKeptByClone ==
  ASSUME IndexTypes, ChunksSound, CloneStep
  PROVE  ChunksSound'
<1>1. /\ CloneTypes /\ (CloneReads \/ CloneCreates \/ CloneCopies \/ CloneTriggers)
      /\ clone' # AtRest /\ restarts' = restarts
  BY CloneSteps
<1>2. /\ failures \in Nat /\ restarts \in Nat /\ failures' \in Nat /\ failures' >= failures
      /\ row'["source"] = row["source"]
  BY <1>1, EmbeddingIndexAssumption DEF IndexTypes, EmbeddingIndexAssumption, CloneTypes
<1>3. \A j \in Jobs : job[j] # AtRest => job[j].file \in Copies /\ job[j].pc # "idle"
  BY RestIs DEF IndexTypes, JobRow
<1>4. \A j \in Jobs : job[j].pc \in Late => job[j] # AtRest
  BY RestIs DEF Late
<1>5. CASE CloneReads
  BY <1>1, <1>2, <1>5, RestIs DEF CloneReads, ChunksSound
<1>6. CASE CloneCreates
  <2>1. /\ clone.source.status # "absent" /\ row["copy"].status = "absent"
        /\ clone.source.status = "ready" => row["source"].chunks # NoChunks
    BY <1>6 DEF CloneCreates, ChunksSound
  <2>2. \A j \in Jobs : job[j] # AtRest => job[j].file = "source"
    BY <1>3, <2>1, CopiesAre DEF ChunksSound
  <2>3. \A j \in Jobs : /\ job'[j] # AtRest => row'[job'[j].file].status # "absent"
                        /\ job'[j].pc \in Late => row'[job'[j].file].chunks # NoChunks
    BY <1>2, <1>4, <1>6, <2>2 DEF CloneCreates, ChunksSound
  <2> QED
    BY <1>1, <1>2, <1>6, <2>1, <2>3 DEF CloneCreates, ChunksSound
<1>7. CASE CloneCopies
  <2>1. row["source"].chunks # NoChunks
    BY <1>7 DEF CloneCopies, ChunksSound
  <2>2. CASE /\ clone'.pc = "done" /\ row'["copy"].status = "ready"
             /\ row'["copy"].chunks = row["source"].chunks
    <3>1. \A x \in Copies : /\ row[x].status # "absent" => row'[x].status # "absent"
                            /\ row[x].chunks # NoChunks => row'[x].chunks # NoChunks
      BY <1>2, <2>1, <2>2, CopiesAre
    <3>2. \A j \in Jobs : /\ job'[j] # AtRest => row'[job'[j].file].status # "absent"
                          /\ job'[j].pc \in Late => row'[job'[j].file].chunks # NoChunks
      BY <1>3, <1>4, <1>7, <3>1 DEF CloneCopies, ChunksSound
    <3> QED
      BY <1>2, <2>1, <2>2, <3>2 DEF ChunksSound
  <2>3. CASE clone'.pc = "trigger" /\ row' = row /\ failures' = failures + 1
    BY <1>1, <1>2, <1>7, <2>3 DEF CloneCopies, ChunksSound
  <2> QED
    BY <1>7, <2>2, <2>3 DEF CloneCopies
<1>8. CASE CloneTriggers
  <2>1. \A k \in Jobs : /\ job'[k] # AtRest => row'[job'[k].file].status # "absent"
                        /\ job'[k].pc \in Late => row'[job'[k].file].chunks # NoChunks
    <3>1. CASE job' = job
      BY <1>8, <3>1 DEF CloneTriggers, ChunksSound
    <3>2. ASSUME NEW j \in Jobs, Start(j, "copy")
          PROVE  /\ row["copy"].status # "absent"
                 /\ job'[j].pc = "claim" /\ job'[j].file = "copy"
                 /\ \A k \in Jobs : k # j => job'[k] = job[k]
      BY <3>2, StartIs, CopiesAre
    <3>3. CASE \E j \in Jobs : Start(j, "copy")
      BY <1>8, <3>2, <3>3 DEF CloneTriggers, ChunksSound, Late
    <3> QED
      BY <1>8, <3>1, <3>3 DEF CloneTriggers
  <2> QED
    BY <1>1, <1>2, <1>8, <2>1 DEF CloneTriggers, ChunksSound
<1> QED
  BY <1>1, <1>5, <1>6, <1>7, <1>8

LEMMA ChunksStep == IndexTypes /\ ChunksSound /\ [IndexNext]_indexVars => ChunksSound'
<1> SUFFICES ASSUME IndexTypes, ChunksSound, IndexNext \/ UNCHANGED indexVars
             PROVE  ChunksSound'
  OBVIOUS
<1>0. failures \in Nat /\ restarts \in Nat
  BY EmbeddingIndexAssumption DEF IndexTypes, EmbeddingIndexAssumption
<1>1. CASE UNCHANGED indexVars
  BY <1>1 DEF ChunksSound, indexVars, indexCore
<1>2. CASE IndexNext
  <2>1. ASSUME NEW j \in Jobs, JobStep(j) PROVE ChunksSound'
    <3>1. RowsGrow /\ JobsRely
      BY <2>1, ChunksKeptByJob
    <3>2. clone' = clone /\ failures' \in 0..MaxFailures /\ failures' >= failures /\ restarts' = restarts
      BY <2>1, JobSteps
    <3>3. failures' \in Nat /\ restarts' \in Nat /\ restarts' >= restarts
      BY <1>0, <3>2, EmbeddingIndexAssumption DEF EmbeddingIndexAssumption
    <3> QED
      BY <3>1, <3>2, <3>3, ChunksKept
  <2>2. ASSUME NEW j \in Jobs, NEW x \in Copies, StartJob(j, x) PROVE ChunksSound'
    <3>1. row' = row /\ UNCHANGED <<clone, failures, restarts>> /\ Start(j, x)
      BY <2>2 DEF StartJob
    <3>2. /\ row[x].status # "absent" /\ job'[j].pc = "claim" /\ job'[j].file = x
          /\ \A k \in Jobs : k # j => job'[k] = job[k]
      BY <3>1, StartIs
    <3> QED
      BY <3>1, <3>2 DEF ChunksSound, Late
  <2>3. ASSUME NEW x \in Copies, Timeout(x) PROVE ChunksSound'
    <3>1. /\ \A y \in Copies : Restated(y)
          /\ row'[x].status = "failed" /\ \A y \in Copies : y # x => row'[y] = row[y]
      BY <2>3, TimeoutIs
    <3>2. UNCHANGED <<job, clone, failures, restarts>>
      BY <2>3 DEF Timeout
    <3>3. \A y \in Copies : row'[y].status = "ready" => row[y].status = "ready"
      BY <3>1
    <3>4. RowsGrow /\ JobsRely
      BY <3>1, <3>2, <3>3, ChunksKeptByRows
    <3> QED
      BY <1>0, <3>2, <3>4, ChunksKept
  <2>4. ASSUME NEW p \in Patches, PatchStep(p) PROVE ChunksSound'
    <3>1. /\ PatchDoes(p) /\ failures' \in 0..MaxFailures /\ failures' >= failures
          /\ UNCHANGED <<job, clone, restarts>>
      BY <2>4, PatchSteps
    <3>2. row' = row \/ row' = Marked(patch[p].sig)
      BY <3>1 DEF PatchDoes, Begins, Deletes, Stores, Drops, Proceeds, Marks
    <3>3. /\ \A x \in Copies : Restated(x)
          /\ \A x \in Copies : row'[x].status = "ready" => row[x].status = "ready"
      BY <3>2, MarkedIs DEF Restated
    <3>4. RowsGrow /\ JobsRely
      BY <3>1, <3>3, ChunksKeptByRows
    <3>5. failures' \in Nat
      BY <3>1, EmbeddingIndexAssumption DEF EmbeddingIndexAssumption
    <3> QED
      BY <1>0, <3>1, <3>4, <3>5, ChunksKept
  <2>5. CASE CloneStep
    BY <2>5, ChunksKeptByClone
  <2>6. CASE Restart
    <3>1. /\ row' = row \/ row' = Marked(stored'.sig)
          /\ \A j \in Jobs : job'[j] = AtRest
          /\ restarts' = restarts + 1 /\ failures' \in Nat
          /\ \/ clone = AtRest /\ clone' = AtRest
             \/ clone'.pc = "done"
      BY <1>0, <2>6, RestartIs
    <3>2. /\ \A x \in Copies : Restated(x)
          /\ \A x \in Copies : row'[x].status = "ready" => row[x].status = "ready"
      BY <3>1, MarkedIs DEF Restated
    <3>3. RowsGrow /\ JobsRely
      BY <3>1, <3>2, ChunksKeptByRows
    <3>4. /\ row'["source"].status # "absent"
          /\ row'["source"].status = "ready" => row'["source"].chunks # NoChunks
          /\ clone'.pc \in {"idle", "create"} => row'["copy"].status = "absent"
          /\ clone'.pc \notin {"create", "copy"}
      BY <3>1, <3>3, CopiesAre, RestIs DEF RowsGrow, ChunksSound
    <3> QED
      BY <1>0, <3>1, <3>3, <3>4 DEF ChunksSound, JobsRely
  <2> QED
    BY <1>2, <2>1, <2>2, <2>3, <2>4, <2>5, <2>6 DEF IndexNext, IndexStep
<1> QED
  BY <1>1, <1>2

-----------------------------------------------------------------------------
(* The settings of one administrator, and what was embedded under them. *)

OneAdministrator == \A p, q \in Patches : p = q

VectorsSound ==
  \A x \in Copies : row[x].chunks # NoChunks => Names(row[x].chunks.sig, row[x].chunks.space)

\* Orderly settings are signed, and the process works under their signature.
LEMMA SignedIs ==
  ASSUME NEW s, Coherent(s)
  PROVE  s.sig # Unsigned \/ s.model \notin Models \/ s.host \notin Hosts
BY EmbeddingIndexAssumption DEF Coherent, Names, SpaceOf, EmbeddingIndexAssumption

LEMMA ActiveNames ==
  ASSUME IndexTypes, SettingsSound
  PROVE  Active = runtime.sig /\ stored.sig # Unsigned
<1>1. runtime \in Settings /\ stored \in Settings /\ Coherent(runtime) /\ Coherent(stored)
  BY DEF IndexTypes, SettingsSound
<1> QED
  BY <1>1, SignedIs, SignatureIs, SettingsIs DEF Active

\* What is orderly after a step was so before it, and the step mixed no changes.
LEMMA OrderlyBefore ==
  ASSUME IndexTypes, IndexNext, Orderly'
  PROVE  Orderly /\ deletions = 0 /\ deletions' = 0 /\ \A p \in Patches : ~Mixes(p)
<1>0. ~mixed /\ \A p \in Patches : ~Mixes(p)
  BY Zenon DEF Orderly, IndexNext
<1>1. deletions' = 0 /\ deletions \in Nat
  BY EmbeddingIndexAssumption DEF Orderly, IndexTypes, EmbeddingIndexAssumption
<1>2. deletions' >= deletions
  <2>1. ASSUME NEW j \in Jobs, JobStep(j) PROVE deletions' = deletions
    BY <2>1 DEF JobStep
  <2>2. ASSUME NEW j \in Jobs, NEW x \in Copies, StartJob(j, x) PROVE deletions' = deletions
    BY <2>2 DEF StartJob
  <2>3. ASSUME NEW x \in Copies, Timeout(x) PROVE deletions' = deletions
    BY <2>3 DEF Timeout
  <2>4. ASSUME NEW p \in Patches, PatchStep(p) PROVE deletions' >= deletions
    BY <2>4, PatchSteps
  <2>5. CloneStep \/ Restart => deletions' = deletions
    BY DEF CloneStep, Restart
  <2> QED
    BY <1>1, <2>1, <2>2, <2>3, <2>4, <2>5 DEF IndexNext, IndexStep
<1> QED
  BY <1>0, <1>1, <1>2 DEF Orderly

LEMMA FailuresGrow ==
  ASSUME IndexTypes, failures' >= failures
  PROVE  failures' = 0 => failures = 0
BY EmbeddingIndexAssumption DEF IndexTypes, EmbeddingIndexAssumption

LEMMA SettingsKeptByJob ==
  ASSUME IndexTypes, SettingsSound, NEW j \in Jobs, JobStep(j)
  PROVE  SettingsSound'
<1> DEFINE f == job[j].file
<1> DEFINE c == [sig |-> job[j].cfg.sig, space |-> SpaceOf(job[j].cfg)]
<1>1. /\ job[j] \in JobRow /\ JobDoes(j) /\ (\A k \in Jobs : k # j => job'[k] = job[k])
      /\ f \in Copies /\ job[j] # AtRest
      /\ UNCHANGED <<stored, runtime, patch, patches>>
      /\ failures' = 0 => failures = 0
  BY JobSteps, RestIs, FailuresGrow DEF JobRow
<1>2. Coherent(job[j].cfg) /\ Names(c.sig, c.space)
  BY <1>1 DEF SettingsSound, Coherent
<1>3. /\ job'[j] = AtRest \/ job'[j].cfg = job[j].cfg
      /\ row' = row \/ /\ \A y \in Copies : y # f => row'[y] = row[y]
                       /\ row'[f].chunks = row[f].chunks \/ row'[f].chunks = c
  BY <1>1 DEF JobDoes, Claims, Fails, Replaces, Passes, Readies, Outdates, Leaves, JobMoves, Writes
<1> HIDE DEF f, c
<1>4. VectorsSound'
  BY <1>1, <1>2, <1>3 DEF VectorsSound, SettingsSound
<1>5. \A k \in Jobs : job'[k] # AtRest => Coherent(job'[k].cfg)
  BY <1>1, <1>2, <1>3 DEF SettingsSound
<1> QED
  BY <1>1, <1>4, <1>5 DEF SettingsSound, VectorsSound

LEMMA SettingsKeptByStart ==
  ASSUME IndexTypes, SettingsSound, NEW j \in Jobs, NEW x \in Copies, Start(j, x),
         \A y \in Copies : row'[y].chunks = row[y].chunks,
         UNCHANGED <<stored, runtime, patch, patches, failures>>
  PROVE  SettingsSound'
<1>1. Coherent(job'[j].cfg) /\ \A k \in Jobs : k # j => job'[k] = job[k]
  BY StartIs, ActiveNames DEF Coherent, SettingsSound
<1>2. \A k \in Jobs : job'[k] # AtRest => Coherent(job'[k].cfg)
  BY <1>1 DEF SettingsSound
<1> QED
  BY <1>2 DEF SettingsSound

LEMMA SettingsKeptByClone ==
  ASSUME IndexTypes, SettingsSound, CloneStep
  PROVE  SettingsSound'
<1>1. /\ CloneTypes /\ (CloneReads \/ CloneCreates \/ CloneCopies \/ CloneTriggers)
      /\ UNCHANGED <<stored, runtime, patch, patches>>
      /\ failures' = 0 => failures = 0
  BY CloneSteps, FailuresGrow DEF CloneTypes
<1>2. CASE CloneTriggers
  <2>1. row' = row /\ failures' = failures
    BY <1>2 DEF CloneTriggers
  <2>2. CASE job' = job
    BY <1>1, <2>1, <2>2 DEF SettingsSound
  <2>3. ASSUME NEW j \in Jobs, Start(j, "copy") PROVE SettingsSound'
    BY <1>1, <2>1, <2>3, SettingsKeptByStart, CopiesAre
  <2> QED
    BY <1>2, <2>2, <2>3 DEF CloneTriggers
<1>3. CASE CloneReads
  BY <1>1, <1>3 DEF CloneReads, SettingsSound
<1>4. CASE CloneCreates
  <2>1. clone \in CloneRow /\ row'["copy"] = clone.source
    BY <1>4, RestIs DEF CloneCreates, IndexTypes
  <2>2. row'["copy"].chunks = NoChunks
    BY <2>1 DEF CloneRow, ReadRow
  <2> QED
    BY <1>1, <1>4, <2>2, CopiesAre DEF CloneCreates, CloneTypes, SettingsSound
<1>5. CASE CloneCopies
  BY <1>1, <1>5, CopiesAre DEF CloneCopies, CloneTypes, SettingsSound
<1> QED
  BY <1>1, <1>2, <1>3, <1>4, <1>5

LEMMA SettingsKeptByPatch ==
  ASSUME OneAdministrator, IndexTypes, SettingsSound, NEW p \in Patches, PatchStep(p),
         deletions = 0, deletions' = 0, ~Mixes(p)
  PROVE  SettingsSound'
<1>1. /\ PatchDoes(p) /\ PatchTypes(p) /\ job' = job /\ patches \in Nat /\ failures \in Nat
      /\ failures' = 0 => failures = 0
  BY PatchSteps, FailuresGrow, EmbeddingIndexAssumption DEF IndexTypes, EmbeddingIndexAssumption
<1>2. \A q \in Patches : q = p
  BY DEF OneAdministrator
<1>3. AtRest.pc = "idle"
  BY RestIs
<1>4. Coherent(stored) /\ Coherent(runtime)
  BY DEF SettingsSound
<1>5. CASE Begins(p)
  <2>1. failures = 0 => runtime = stored
    BY <1>2, <1>3, <1>5 DEF Begins, SettingsSound
  <2>2. Coherent(Applied(patch'[p], stored))
    BY <1>4, <1>5 DEF Begins, LeadsTo
  <2>3. failures = 0 /\ patch'[p].then = "idle" => Applied(patch'[p], stored) = runtime
    BY <1>4, <1>5, <2>1 DEF Begins, LeadsTo
  <2> QED
    BY <1>1, <1>2, <1>5, <2>1, <2>2, <2>3 DEF Begins, SettingsSound
<1>6. ~Deletes(p)
  BY DEF Deletes
<1>7. CASE Stores(p)
  <2>1. /\ Coherent(stored') /\ patches >= 1
        /\ failures = 0 /\ patch[p].then = "idle" => stored' = runtime
    BY <1>3, <1>7 DEF Stores, SettingsSound
  <2> QED
    BY <1>1, <1>2, <1>7, <2>1 DEF Stores, SettingsSound
<1>8. CASE Drops(p)
  <2>1. failures' # 0
    BY <1>1, <1>8 DEF Drops
  <2> QED
    BY <1>1, <1>2, <1>3, <1>8, <2>1 DEF Drops, SettingsSound
<1>9. CASE Proceeds(p)
  <2>1. patches >= 1
    BY <1>3, <1>9 DEF Proceeds, SettingsSound
  <2>2. CASE /\ patch[p].pc = "list" /\ patch'[p].pc = "publish" /\ patch'[p].next = stored
             /\ patch'[p].then = patch[p].then /\ runtime' = runtime
    BY <1>1, <1>2, <1>9, <2>1, <2>2 DEF Proceeds, SettingsSound
  <2>3. CASE /\ patch[p].pc = "publish" /\ runtime' = patch[p].next
             /\ patch'[p] = AtRest \/ patch'[p].pc = "aim"
    <3>1. runtime' = stored
      BY <2>3 DEF SettingsSound
    <3> QED
      BY <1>1, <1>2, <1>3, <1>9, <2>1, <2>3, <3>1 DEF Proceeds, SettingsSound
  <2>4. CASE patch[p].pc = "aim" /\ patch'[p].pc = "mark" /\ patch'[p].sig = Active
             /\ runtime' = runtime
    BY <1>1, <1>2, <1>9, <2>1, <2>4, ActiveNames DEF Proceeds, SettingsSound
  <2> QED
    BY <1>9, <2>2, <2>3, <2>4 DEF Proceeds
<1>10. CASE Marks(p)
  <2>1. \A x \in Copies : Restated(x)
    BY <1>10, MarkedIs DEF Marks, Restated
  <2>2. VectorsSound'
    BY <2>1 DEF VectorsSound, Restated, SettingsSound
  <2>3. failures = 0 => runtime = stored
    BY <1>2, <1>10 DEF Marks, SettingsSound
  <2> QED
    BY <1>1, <1>2, <1>3, <1>10, <2>2, <2>3 DEF Marks, SettingsSound, VectorsSound
<1> QED
  BY <1>1, <1>5, <1>6, <1>7, <1>8, <1>9, <1>10 DEF PatchDoes

LEMMA SettingsStep ==
  ASSUME OneAdministrator, IndexTypes, Orderly => SettingsSound, [IndexNext]_indexVars, Orderly'
  PROVE  SettingsSound'
<1>1. CASE UNCHANGED indexVars
  BY <1>1 DEF SettingsSound, Orderly, indexVars, indexCore
<1>2. CASE IndexNext
  <2>0. /\ SettingsSound /\ deletions = 0 /\ deletions' = 0 /\ \A p \in Patches : ~Mixes(p)
    BY <1>2, OrderlyBefore
  <2>1. ASSUME NEW j \in Jobs, JobStep(j) PROVE SettingsSound'
    BY <2>0, <2>1, SettingsKeptByJob
  <2>2. ASSUME NEW j \in Jobs, NEW x \in Copies, StartJob(j, x) PROVE SettingsSound'
    BY <2>0, <2>2, SettingsKeptByStart DEF StartJob
  <2>3. ASSUME NEW x \in Copies, Timeout(x) PROVE SettingsSound'
    <3>1. \A y \in Copies : Restated(y)
      BY <2>3, TimeoutIs
    <3> QED
      BY <2>0, <2>3, <3>1 DEF Timeout, Restated, SettingsSound
  <2>4. ASSUME NEW p \in Patches, PatchStep(p) PROVE SettingsSound'
    BY <2>0, <2>4, SettingsKeptByPatch
  <2>5. CASE CloneStep
    BY <2>0, <2>5, SettingsKeptByClone
  <2>6. CASE Restart
    <3>1. /\ stored' = stored /\ runtime' = stored /\ patches' = patches
          /\ \A j \in Jobs : job'[j] = AtRest
          /\ \A p \in Patches : patch'[p] = AtRest
          /\ row' = row \/ row' = Marked(stored'.sig)
      BY <2>0, <2>6, RestartIs, ActiveNames
    <3>2. \A x \in Copies : Restated(x)
      BY <3>1, MarkedIs DEF Restated
    <3> QED
      BY <2>0, <3>1, <3>2, RestIs DEF Restated, SettingsSound
  <2> QED
    BY <1>2, <2>1, <2>2, <2>3, <2>4, <2>5, <2>6 DEF IndexNext, IndexStep
<1> QED
  BY <1>1, <1>2

-----------------------------------------------------------------------------
(* One change without failures or clones: what is ready is found, or about to be marked. *)

Found(x) == row[x].status = "ready" /\ row[x].chunks.sig # Active => Attended(x)

\* What a step of a job leaves alone.
JobFrame(j) ==
  /\ job[j] \in JobRow /\ job[j].file \in Copies /\ failures' = failures
  /\ \A k \in Jobs : k # j => job'[k] = job[k]
  /\ \A k \in Jobs : job[k] # AtRest => job[k].file \in Copies
  /\ UNCHANGED <<stored, runtime, patch, patches>> /\ Active' = Active

LEMMA ActiveKept == runtime' = runtime => Active' = Active
BY DEF Active

LEMMA ActiveIs ==
  ASSUME IndexTypes, NEW j \in Jobs
  PROVE  /\ job[j] # AtRest => job[j] \in JobRow /\ job[j].file \in Copies
         /\ job[j].pc \in JobPcs <=> job[j] # AtRest
BY RestIs DEF IndexTypes, JobRow, JobPcs, Late

LEMMA JobsKeptByClaim ==
  ASSUME IndexTypes, JobsSound, NEW j \in Jobs, JobFrame(j), Claims(j)
  PROVE  \A k \in Jobs : JobSound(k)'
<1> DEFINE f == job[j].file
<1>1. /\ row'[f].sig = job[j].cfg.sig /\ row'[f].chunks = row[f].chunks
      /\ \A y \in Copies : y # f => row'[y] = row[y]
      /\ f \in Copies
  BY DEF Claims, Writes, JobFrame
<1>2. job[j].cfg.sig = Active
  BY DEF Claims, JobsSound, JobSound, Outdated
<1>3. Unpublished' = Unpublished
  BY DEF Unpublished, JobFrame
<1>4. JobSound(j)'
  BY <1>1, <1>2 DEF Claims, JobMoves, JobSound, Outdated, Signed, JobFrame, Late
<1>5. ASSUME NEW k \in Jobs, k # j PROVE JobSound(k)'
  <2>1. job'[k] = job[k] /\ Outdated(k)' = Outdated(k) /\ JobSound(k)
    BY <1>5 DEF JobFrame, Outdated, JobsSound
  <2>2. CASE job[k] # AtRest /\ job[k].file = f
    <3>1. Signed(k)' <=> job[k].cfg.sig = Active
      BY <1>1, <1>2, <2>1, <2>2 DEF Signed
    <3>2. job[k].pc \in Late /\ Signed(k)' => row'[f].chunks.sig = job[k].cfg.sig
      BY <1>1, <2>1, <2>2, <3>1 DEF JobSound, Outdated
    <3> QED
      BY <1>3, <2>1, <2>2, <3>1, <3>2 DEF JobSound, Outdated
  <2>3. CASE job[k] # AtRest /\ job[k].file # f
    <3>1. row'[job[k].file] = row[job[k].file]
      BY <1>1, <2>3, ActiveIs
    <3> QED
      BY <1>3, <2>1, <3>1 DEF JobSound, Signed
  <2>4. CASE job[k] = AtRest
    BY <2>1, <2>4, RestIs DEF JobSound, Late
  <2> QED
    BY <2>2, <2>3, <2>4
<1> QED
  BY <1>4, <1>5

LEMMA JobsKeptByReplace ==
  ASSUME IndexTypes, JobsSound, NEW j \in Jobs, JobFrame(j), Replaces(j)
  PROVE  \A k \in Jobs : JobSound(k)'
<1> DEFINE f == job[j].file
<1>1. /\ row'[f].sig = row[f].sig /\ row'[f].chunks.sig = job[j].cfg.sig
      /\ \A y \in Copies : y # f => row'[y] = row[y]
      /\ f \in Copies /\ row[f].sig = job[j].cfg.sig
  BY DEF Replaces, Writes, JobFrame, Signed
<1>2. Unpublished' = Unpublished
  BY DEF Unpublished, JobFrame
<1>3. JobSound(j) /\ Outdated(j)' = Outdated(j)
  BY DEF Replaces, JobMoves, JobFrame, Outdated, JobsSound
<1>4. JobSound(j)'
  <2>1. /\ job'[j].pc = "count" /\ job'[j].file = f /\ job'[j].cfg = job[j].cfg
        /\ job[j].pc = "embed" /\ job[j] # AtRest
    BY RestIs DEF Replaces, JobMoves
  <2>2. Signed(j)' /\ row'[job'[j].file].chunks.sig = job'[j].cfg.sig
    BY <1>1, <2>1 DEF Signed
  <2> QED
    BY <1>2, <1>3, <2>1, <2>2 DEF JobSound
<1>5. ASSUME NEW k \in Jobs, k # j PROVE JobSound(k)'
  <2>1. job'[k] = job[k] /\ Outdated(k)' = Outdated(k) /\ JobSound(k)
    BY <1>5 DEF JobFrame, Outdated, JobsSound
  <2>2. CASE job[k] # AtRest /\ job[k].file = f
    BY <1>1, <1>2, <2>1, <2>2 DEF JobSound, Signed
  <2>3. CASE job[k] # AtRest /\ job[k].file # f
    <3>1. row'[job[k].file] = row[job[k].file]
      BY <1>1, <2>3, ActiveIs
    <3> QED
      BY <1>2, <2>1, <3>1 DEF JobSound, Signed
  <2>4. CASE job[k] = AtRest
    BY <2>1, <2>4, RestIs DEF JobSound, Late
  <2> QED
    BY <2>2, <2>3, <2>4
<1> QED
  BY <1>4, <1>5

\* Neither signatures nor vectors change, and jobs proceed or end.
LEMMA JobsKept ==
  ASSUME IndexTypes, JobsSound, Active' = Active,
         Unpublished' => Unpublished,
         \A x \in Copies : row'[x].sig = row[x].sig /\ row'[x].chunks = row[x].chunks,
         \A k \in Jobs : \/ job'[k] = AtRest \/ job'[k] = job[k]
                         \/ /\ job[k].pc \in Late /\ job'[k].pc \in Late
                            /\ job'[k].file = job[k].file /\ job'[k].cfg = job[k].cfg
  PROVE  \A k \in Jobs : JobSound(k)'
<1> SUFFICES ASSUME NEW k \in Jobs PROVE JobSound(k)'
  OBVIOUS
<1>1. JobSound(k)
  BY DEF JobsSound
<1>2. CASE job'[k] = AtRest
  BY <1>2, RestIs DEF JobSound, Late
<1>3. CASE job'[k] # AtRest
  <2>1. /\ job[k] # AtRest /\ job'[k].file = job[k].file /\ job'[k].cfg = job[k].cfg
        /\ job'[k].pc = job[k].pc \/ (job[k].pc \in Late /\ job'[k].pc \in Late)
    BY <1>3, RestIs DEF Late
  <2>2. /\ Outdated(k)' = Outdated(k)
        /\ Signed(k)' = Signed(k)
        /\ row'[job'[k].file].chunks = row[job[k].file].chunks
    BY <2>1, ActiveIs DEF Outdated, Signed
  <2>3. "claim" \notin Late
    BY DEF Late
  <2> QED
    BY <1>1, <2>1, <2>2, <2>3 DEF JobSound
<1> QED
  BY <1>2, <1>3

LEMMA JobsSoundByJob ==
  ASSUME IndexTypes, JobsSound, NEW j \in Jobs, JobFrame(j), JobDoes(j)
  PROVE  \A k \in Jobs : JobSound(k)'
<1>0. Unpublished' = Unpublished /\ \A k \in Jobs : k # j => job'[k] = job[k]
  BY DEF Unpublished, JobFrame
<1>1. CASE Claims(j)
  BY <1>1, JobsKeptByClaim
<1>2. CASE Replaces(j)
  BY <1>2, JobsKeptByReplace
<1>3. CASE Fails(j) \/ Passes(j) \/ Readies(j) \/ Outdates(j) \/ Leaves(j)
  <2>1. \A x \in Copies : row'[x].sig = row[x].sig /\ row'[x].chunks = row[x].chunks
    BY <1>3 DEF Fails, Passes, Readies, Outdates, Leaves, Writes, JobFrame
  <2>2. \/ job'[j] = AtRest
        \/ /\ job[j].pc \in Late /\ job'[j].pc \in Late
           /\ job'[j].file = job[j].file /\ job'[j].cfg = job[j].cfg
    BY <1>3 DEF Fails, Passes, Readies, Outdates, Leaves, JobMoves, Late
  <2> QED
    BY <1>0, <2>1, <2>2, JobsKept DEF JobFrame
<1> QED
  BY <1>1, <1>2, <1>3 DEF JobDoes

\* A job at work elsewhere still attends to a row that does not change.
LEMMA AttendedKept ==
  ASSUME NEW j \in Jobs, JobFrame(j), NEW x \in Copies, Attended(x), row'[x] = row[x],
         \/ job[j].file # x \/ job[j].pc \notin {"recheck", "stale"}
         \/ ~(Signed(j) /\ Outdated(j))
  PROVE  Attended(x)'
<1>1. CASE \E p \in Patches : patch[p].pc \in {"aim", "mark"}
  BY <1>1 DEF Attended, JobFrame
<1>2. ASSUME NEW k \in Jobs, job[k].pc \in {"recheck", "stale"}, job[k].file = x,
             Signed(k), Outdated(k)
      PROVE  Attended(x)'
  <2>1. k # j /\ job'[k] = job[k]
    BY <1>2 DEF JobFrame
  <2>2. Signed(k)' /\ Outdated(k)'
    BY <1>2, <2>1 DEF Signed, Outdated, JobFrame
  <2> QED
    BY <1>2, <2>1, <2>2 DEF Attended
<1> QED
  BY <1>1, <1>2 DEF Attended

LEMMA FoundByJob ==
  ASSUME IndexTypes, JobsSound, NEW j \in Jobs, JobFrame(j), failures \in Nat, JobDoes(j)
  PROVE  \A x \in Copies : Found(x)'
<1> SUFFICES ASSUME NEW x \in Copies PROVE Found(x)'
  OBVIOUS
<1>1. Found(x) /\ JobSound(j) /\ Active' = Active
  BY DEF Found, JobsSound, JobFrame
<1>2. ASSUME row'[x] = row[x],
             \/ job[j].file # x \/ job[j].pc \notin {"recheck", "stale"}
             \/ ~(Signed(j) /\ Outdated(j))
      PROVE  Found(x)'
  BY <1>1, <1>2, AttendedKept DEF Found
<1>3. CASE Claims(j) \/ Fails(j) \/ Replaces(j) \/ Outdates(j)
  <2>1. CASE job[j].file = x
    <3>1. row'[x].status # "ready"
      BY <1>3, <2>1 DEF Claims, Fails, Replaces, Outdates, Writes
    <3> QED
      BY <3>1 DEF Found
  <2>2. CASE job[j].file # x
    <3>1. row'[x] = row[x]
      BY <1>3, <2>2 DEF Claims, Fails, Replaces, Outdates, Writes
    <3> QED
      BY <1>2, <2>2, <3>1
  <2> QED
    BY <2>1, <2>2
<1>4. CASE Readies(j)
  <2>1. CASE job[j].file = x
    <3>1. /\ job'[j].pc = "recheck" /\ job'[j].file = x /\ job'[j].cfg = job[j].cfg
          /\ row'[x].sig = row[x].sig /\ row'[x].chunks = row[x].chunks /\ Signed(j)
      BY <1>4, <2>1 DEF Readies, JobMoves, Writes
    <3>2. row[x].chunks.sig = job[j].cfg.sig
      BY <1>1, <1>4, <2>1 DEF JobSound, Readies, Late
    <3>3. Signed(j)' /\ (row'[x].chunks.sig # Active' => Outdated(j)')
      BY <1>1, <2>1, <3>1, <3>2 DEF Signed, Outdated
    <3> QED
      BY <3>1, <3>3 DEF Found, Attended
  <2>2. CASE job[j].file # x
    <3>1. row'[x] = row[x]
      BY <1>4, <2>2 DEF Readies, Writes
    <3> QED
      BY <1>2, <2>2, <3>1
  <2> QED
    BY <2>1, <2>2
<1>5. CASE Leaves(j)
  <2>1. row' = row /\ ~(job[j].pc \in {"recheck", "stale"} /\ Signed(j) /\ Outdated(j))
    BY <1>5 DEF Leaves, JobFrame
  <2> QED
    BY <1>2, <2>1
<1>6. CASE Passes(j)
  <2>1. row' = row
    BY <1>6 DEF Passes
  <2>2. CASE job[j].pc # "recheck"
    <3>1. job[j].pc \notin {"recheck", "stale"}
      BY <1>6, <2>2 DEF Passes
    <3> QED
      BY <1>2, <2>1, <3>1
  <2>3. CASE job[j].pc = "recheck"
    <3>1. /\ job'[j].pc = "stale" /\ job'[j].file = job[j].file /\ job'[j].cfg = job[j].cfg
      BY <1>6, <2>3 DEF Passes, JobMoves
    <3>2. Signed(j)' = Signed(j) /\ Outdated(j)' = Outdated(j)
      BY <1>1, <2>1, <3>1 DEF Signed, Outdated
    <3>3. CASE job[j].file = x /\ Signed(j) /\ Outdated(j)
      BY <3>1, <3>2, <3>3 DEF Found, Attended
    <3> QED
      BY <1>2, <2>1, <3>3
  <2> QED
    BY <2>2, <2>3
<1> QED
  BY <1>3, <1>4, <1>5, <1>6 DEF JobDoes

LEMMA JobsSoundByStart ==
  ASSUME IndexTypes, JobsSound, NEW j \in Jobs, NEW x \in Copies, StartJob(j, x)
  PROVE  JobsSound'
<1>1. /\ job[j] = AtRest /\ job'[j].pc = "claim" /\ job'[j].cfg.sig = Active
      /\ \A k \in Jobs : k # j => job'[k] = job[k]
      /\ UNCHANGED <<stored, runtime, row, patch, patches>> /\ Active' = Active
  BY StartIs, ActiveKept DEF StartJob
<1>2. Unpublished' = Unpublished
  BY <1>1 DEF Unpublished
<1>3. JobSound(j)'
  BY <1>1 DEF JobSound, Outdated, Late
<1>4. ASSUME NEW k \in Jobs, k # j PROVE JobSound(k)'
  BY <1>1, <1>2, <1>4 DEF JobsSound, JobSound, Outdated, Signed
<1>5. ASSUME NEW y \in Copies, Attended(y) PROVE Attended(y)'
  BY <1>1, <1>5, RestIs DEF Attended, Outdated, Signed
<1> QED
  BY <1>1, <1>3, <1>4, <1>5 DEF JobsSound

LEMMA JobsSoundByTimeout ==
  ASSUME IndexTypes, JobsSound, NEW x \in Copies, Timeout(x)
  PROVE  JobsSound'
<1>1. /\ UNCHANGED <<job, patch, patches, runtime>> /\ Active' = Active
      /\ \A y \in Copies : Restated(y)
      /\ row'[x].status = "failed" /\ \A y \in Copies : y # x => row'[y] = row[y]
  BY TimeoutIs, ActiveKept DEF Timeout
<1>2. \A k \in Jobs : JobSound(k)'
  BY <1>1, JobsKept DEF Restated, Unpublished
<1>3. ASSUME NEW y \in Copies, Attended(y) PROVE Attended(y)'
  <2>1. \A k \in Jobs : job[k].pc \in {"recheck", "stale"} => job[k].file \in Copies
    BY ActiveIs DEF JobPcs, Late
  <2> QED
    BY <1>1, <1>3, <2>1 DEF Attended, Outdated, Signed, Restated
<1>4. ASSUME NEW y \in Copies, row'[y].status = "ready", row'[y].chunks.sig # Active'
      PROVE  Attended(y)'
  BY <1>1, <1>3, <1>4 DEF JobsSound
<1> QED
  BY <1>2, <1>4 DEF JobsSound

\* Every job works for the settings of before the change, and none is about to claim.
LEMMA JobsSoundByPublish ==
  ASSUME OneAdministrator, IndexTypes, JobsSound, NEW p \in Patches,
         patch[p].pc = "publish", patch'[p].pc = "aim", patches >= 1,
         UNCHANGED <<row, job, patches>>,
         Active' = Active \/ \A j \in Jobs : job[j].pc # "claim"
  PROVE  JobsSound'
<1>1. Unpublished /\ ~Unpublished'
  BY DEF Unpublished, OneAdministrator
<1>2. \A x \in Copies : Attended(x)'
  BY DEF Attended
<1>3. ASSUME NEW k \in Jobs PROVE JobSound(k)'
  <2>1. JobSound(k)
    BY DEF JobsSound
  <2>2. CASE job[k] = AtRest
    BY <2>2, RestIs DEF JobSound, Late
  <2>3. CASE job[k] # AtRest
    <3>1. ~Outdated(k)
      BY <1>1, <2>1, <2>3 DEF JobSound
    <3>2. job[k].pc = "claim" => ~Outdated(k)'
      BY <3>1 DEF Outdated
    <3> QED
      BY <1>1, <2>1, <3>1, <3>2 DEF JobSound, Signed
  <2> QED
    BY <2>2, <2>3
<1> QED
  BY <1>2, <1>3 DEF JobsSound

LEMMA JobsSoundByPatch ==
  ASSUME OneAdministrator, IndexTypes, JobsSound, SettingsSound, NEW p \in Patches, PatchStep(p),
         patches' <= 1, failures = 0, failures' = failures, deletions = 0, deletions' = 0,
         Active' = Active \/ \A j \in Jobs : job'[j].pc # "claim"
  PROVE  JobsSound'
<1>1. PatchDoes(p) /\ PatchTypes(p) /\ job' = job /\ patches \in Nat
  BY PatchSteps, EmbeddingIndexAssumption DEF IndexTypes, EmbeddingIndexAssumption
<1>2. \A q \in Patches : q = p
  BY DEF OneAdministrator
<1>3. AtRest.pc = "idle" /\ (patch[p] # AtRest => patches >= 1)
  BY RestIs DEF SettingsSound
<1>4. ASSUME UNCHANGED <<row, runtime>>, Unpublished' => Unpublished,
             patch[p].pc \in {"aim", "mark"} => patch'[p].pc \in {"aim", "mark"}
      PROVE  JobsSound'
  <2>0. Active' = Active
    BY <1>4, ActiveKept
  <2>1. \A k \in Jobs : JobSound(k)'
    BY <1>1, <1>4, <2>0, JobsKept
  <2>2. ASSUME NEW x \in Copies, Attended(x) PROVE Attended(x)'
    BY <1>1, <1>2, <1>4, <2>0, <2>2 DEF Attended, Outdated, Signed
  <2> QED
    BY <1>4, <2>0, <2>1, <2>2 DEF JobsSound
<1>5. CASE Begins(p)
  <2>1. Unpublished
    BY <1>1, <1>5 DEF Begins, Unpublished
  <2> QED
    BY <1>3, <1>4, <1>5, <2>1 DEF Begins
<1>6. CASE Stores(p)
  <2>1. Unpublished
    BY <1>6 DEF Stores, Unpublished
  <2> QED
    BY <1>4, <1>6, <2>1 DEF Stores
<1>7. CASE Proceeds(p)
  <2>1. patches >= 1 /\ patches' = patches /\ row' = row
    BY <1>3, <1>7 DEF Proceeds
  <2>2. CASE patch[p].pc = "list" /\ runtime' = runtime
    <3>1. Unpublished
      BY <2>2 DEF Unpublished
    <3> QED
      BY <1>4, <2>1, <2>2, <3>1
  <2>3. CASE patch[p].pc = "publish" /\ patch'[p].pc = "aim"
    BY <1>1, <2>1, <2>3, JobsSoundByPublish
  <2>4. CASE patch[p].pc = "publish" /\ patch[p].then = "idle" /\ runtime' = patch[p].next
    <3>1. runtime' = runtime
      BY <2>4 DEF SettingsSound
    <3>2. Unpublished
      BY <2>4 DEF Unpublished
    <3> QED
      BY <1>4, <2>1, <2>4, <3>1, <3>2
  <2>5. CASE patch[p].pc = "aim" /\ patch'[p].pc = "mark" /\ runtime' = runtime
    <3>1. ~Unpublished'
      BY <1>2, <2>1, <2>5 DEF Unpublished
    <3> QED
      BY <1>4, <2>1, <2>5, <3>1
  <2> QED
    BY <1>7, <2>2, <2>3, <2>4, <2>5 DEF Proceeds
<1>8. CASE Marks(p)
  <2>1. /\ row' = Marked(Active) /\ patches >= 1 /\ patches' = patches
        /\ patch'[p] = AtRest /\ runtime' = runtime /\ Active' = Active
    BY <1>1, <1>3, <1>8, ActiveNames, ActiveKept DEF Marks, SettingsSound
  <2>2. /\ \A x \in Copies : Restated(x)
        /\ \A x \in Copies : row'[x].status = "ready" => row[x].chunks.sig = Active
    BY <2>1, MarkedIs
  <2>3. ~Unpublished'
    BY <1>2, <1>3, <2>1 DEF Unpublished
  <2>4. \A k \in Jobs : JobSound(k)'
    BY <1>1, <2>1, <2>2, <2>3, JobsKept DEF Restated
  <2>5. \A x \in Copies : row'[x].status = "ready" => row'[x].chunks.sig = Active'
    BY <2>1, <2>2 DEF Restated
  <2> QED
    BY <2>4, <2>5 DEF JobsSound
<1>9. ~Deletes(p) /\ ~Drops(p)
  BY DEF Deletes, Drops
<1> QED
  BY <1>1, <1>5, <1>6, <1>7, <1>8, <1>9 DEF PatchDoes

LEMMA JobsSoundByRestart ==
  ASSUME IndexTypes, Restart, failures = 0, failures' = failures
  PROVE  JobsSound'
<1>1. Active' = stored'.sig /\ row' = Marked(stored'.sig) /\ \A j \in Jobs : job'[j] = AtRest
  BY RestartIs
<1>2. \A x \in Copies : row'[x].status = "ready" => row'[x].chunks.sig = Active'
  BY <1>1, MarkedIs DEF Restated
<1>3. \A j \in Jobs : JobSound(j)'
  BY <1>1, RestIs DEF JobSound, Late
<1> QED
  BY <1>2, <1>3 DEF JobsSound

\* What is undisturbed after a step was so before it.
LEMMA UndisturbedBefore ==
  ASSUME IndexTypes, IndexNext, Undisturbed'
  PROVE  /\ Undisturbed /\ patches' <= 1 /\ failures = 0 /\ failures' = 0 /\ ~CloneStep
         /\ deletions = 0 /\ deletions' = 0
         /\ Active' = Active \/ \A j \in Jobs : job'[j].pc # "claim"
<1>0. Orderly /\ deletions = 0 /\ deletions' = 0
  BY OrderlyBefore DEF Undisturbed
<1>1. ~overtaken /\ (Active' = Active \/ \A j \in Jobs : job'[j].pc # "claim")
  BY ActiveKept, Zenon DEF IndexNext, Undisturbed
<1>2. ~CloneStep
  BY CloneSteps DEF Undisturbed
<1>3. /\ patches \in Nat /\ failures \in Nat
      /\ failures' = 0 /\ patches' <= 1 /\ clone' = AtRest
  BY EmbeddingIndexAssumption DEF Undisturbed, IndexTypes, EmbeddingIndexAssumption
<1>4. failures' >= failures /\ patches' >= patches /\ clone = AtRest
  <2>1. ASSUME NEW j \in Jobs, JobStep(j) PROVE failures' >= failures /\ UNCHANGED <<patches, clone>>
    BY <2>1, JobSteps
  <2>2. ASSUME NEW p \in Patches, PatchStep(p)
        PROVE  failures' >= failures /\ patches' >= patches /\ clone' = clone
    BY <2>2, PatchSteps
  <2>3. CASE Restart
    BY <1>3, <2>3, RestartIs
  <2>4. CASE (\E j \in Jobs, x \in Copies : StartJob(j, x)) \/ \E x \in Copies : Timeout(x)
    BY <1>3, <2>4 DEF StartJob, Timeout
  <2> QED
    BY <1>2, <1>3, <2>1, <2>2, <2>3, <2>4 DEF IndexNext, IndexStep
<1>5. failures = 0 /\ patches <= 1
  <2>1. IndexTypes'
    BY IndexTypesStep
  <2>2. patches' \in Nat
    BY <2>1, EmbeddingIndexAssumption DEF IndexTypes, EmbeddingIndexAssumption
  <2> QED
    BY <1>3, <1>4, <2>2
<1> QED
  BY <1>0, <1>1, <1>2, <1>3, <1>4, <1>5 DEF Undisturbed

LEMMA JobsSoundStep ==
  ASSUME OneAdministrator, IndexTypes, Orderly => SettingsSound, Undisturbed => JobsSound,
         IndexNext, Undisturbed'
  PROVE  JobsSound'
<1>1. /\ JobsSound /\ SettingsSound /\ patches' <= 1
      /\ failures = 0 /\ failures' = failures /\ deletions = 0 /\ deletions' = 0 /\ ~CloneStep
      /\ Active' = Active \/ \A j \in Jobs : job'[j].pc # "claim"
  BY UndisturbedBefore DEF Undisturbed
<1>2. ASSUME NEW j \in Jobs, JobStep(j) PROVE JobsSound'
  <2>1. /\ JobDoes(j) /\ job[j] \in JobRow /\ (\A k \in Jobs : k # j => job'[k] = job[k])
        /\ UNCHANGED <<stored, runtime, patch, patches>>
    BY <1>2, JobSteps
  <2>2. JobFrame(j)
    BY <1>1, <2>1, ActiveIs, ActiveKept, RestIs DEF JobFrame
  <2> QED
    BY <1>1, <2>1, <2>2, JobsSoundByJob, FoundByJob DEF JobsSound, Found
<1>3. ASSUME NEW j \in Jobs, NEW x \in Copies, StartJob(j, x) PROVE JobsSound'
  BY <1>1, <1>3, JobsSoundByStart
<1>4. ASSUME NEW x \in Copies, Timeout(x) PROVE JobsSound'
  BY <1>1, <1>4, JobsSoundByTimeout
<1>5. ASSUME NEW p \in Patches, PatchStep(p) PROVE JobsSound'
  BY <1>1, <1>5, JobsSoundByPatch
<1>6. CASE Restart
  BY <1>1, <1>6, JobsSoundByRestart
<1> QED
  BY <1>1, <1>2, <1>3, <1>4, <1>5, <1>6 DEF IndexNext, IndexStep

-----------------------------------------------------------------------------
(* The safety of the index. *)

LEMMA IndexStarts == IndexInit => IndexTypes /\ ChunksSound
<1> SUFFICES ASSUME IndexInit PROVE IndexTypes /\ ChunksSound
  OBVIOUS
<1>1. stored \in Settings /\ runtime \in Settings
  BY EmbeddingIndexAssumption DEF IndexInit, Settings, Signatures, EmbeddingIndexAssumption
<1>2. /\ row \in [Copies -> Row]
      /\ \A x \in Copies : row[x].chunks = NoChunks /\ row[x].status # "ready"
      /\ row["source"].status = "none" /\ row["copy"].status = "absent"
  BY DEF IndexInit, Copies, Row
<1>3. IndexTypes
  <2>1. MaxPatches \in Nat /\ MaxDeletions \in Nat /\ MaxFailures \in Nat /\ MaxRestarts \in Nat
    BY EmbeddingIndexAssumption DEF EmbeddingIndexAssumption
  <2>2. /\ patches \in 0..MaxPatches /\ deletions \in 0..MaxDeletions
        /\ failures \in 0..MaxFailures /\ restarts \in 0..MaxRestarts
    BY <2>1 DEF IndexInit
  <2>3. /\ job \in [Jobs -> {AtRest} \cup JobRow] /\ patch \in [Patches -> {AtRest} \cup PatchRow]
        /\ clone = AtRest /\ overtaken \in BOOLEAN /\ mixed \in BOOLEAN
    BY DEF IndexInit
  <2> QED
    BY <1>1, <1>2, <2>2, <2>3 DEF IndexTypes
<1> QED
  BY <1>2, <1>3, RestIs, CopiesAre DEF IndexInit, ChunksSound, Late

LEMMA SettingsStart == IndexInit => SettingsSound /\ JobsSound
<1> SUFFICES ASSUME IndexInit PROVE SettingsSound /\ JobsSound
  OBVIOUS
<1>1. Coherent(stored) /\ runtime = stored
  BY DEF IndexInit, Coherent, Names, SpaceOf
<1>2. \A x \in Copies : row[x].chunks = NoChunks /\ row[x].status # "ready"
  BY DEF IndexInit, Copies
<1>3. SettingsSound
  BY <1>1, <1>2, RestIs DEF IndexInit, SettingsSound
<1>4. JobsSound
  BY <1>2, RestIs DEF IndexInit, JobsSound, JobSound, Late
<1> QED
  BY <1>3, <1>4

\* The rows are sound whatever administrators do.
LEMMA ChunksInvariance == IndexSpec => [](IndexTypes /\ ChunksSound)
<1>1. IndexTypes /\ ChunksSound /\ [IndexNext]_indexVars => (IndexTypes /\ ChunksSound)'
  BY IndexTypesStep, ChunksStep
<1> QED
  BY <1>1, IndexStarts, PTL DEF IndexSpec

\* A file that is ready has vectors, unless a call failed or the process restarted, with
\* any number of jobs and administrators (ReplaceFileChunks, CloneFileEmbeddingArtifacts).
THEOREM ReadyHasChunksCorrect == IndexSpec => []ReadyHasChunks
<1>1. IndexTypes /\ ChunksSound => ReadyHasChunks
  <2> SUFFICES ASSUME IndexTypes, ChunksSound, NEW x \in Copies,
                      row[x].status = "ready", failures = 0, restarts = 0
               PROVE  row[x].chunks # NoChunks \/ (x = "copy" /\ clone.pc \in {"copy", "trigger"})
    BY DEF ReadyHasChunks
  <2> QED
    BY CopiesAre DEF ChunksSound
<1> QED
  BY <1>1, ChunksInvariance, PTL

LEMMA IndexInvariance ==
  ASSUME OneAdministrator
  PROVE  IndexSpec => [](IndexTypes /\ IndexInvariant)
<1>1. IndexInit => IndexTypes /\ IndexInvariant
  BY IndexStarts, SettingsStart DEF IndexInvariant
<1>2. IndexTypes /\ IndexInvariant /\ [IndexNext]_indexVars => (IndexTypes /\ IndexInvariant)'
  <2> SUFFICES ASSUME IndexTypes, IndexInvariant, [IndexNext]_indexVars
               PROVE  IndexTypes' /\ IndexInvariant'
    OBVIOUS
  <2>1. IndexTypes' /\ ChunksSound' /\ (Orderly' => SettingsSound')
    BY OneAdministrator, IndexTypesStep, ChunksStep, SettingsStep DEF IndexInvariant
  <2>2. ASSUME Undisturbed' PROVE JobsSound'
    <3>1. CASE IndexNext
      BY <2>2, <3>1, OneAdministrator, JobsSoundStep DEF IndexInvariant
    <3>2. CASE UNCHANGED indexVars
      BY <2>2, <3>2
      DEF IndexInvariant, Undisturbed, Orderly, JobsSound, JobSound, Attended, Outdated, Signed,
          Active, Unpublished, indexVars, indexCore
    <3> QED
      BY <3>1, <3>2
  <2> QED
    BY <2>1, <2>2 DEF IndexInvariant
<1> QED
  BY <1>1, <1>2, PTL DEF IndexSpec

\* One administrator: ready files have vectors. As long as no setting is deleted and none
\* is changed on top of a change that failed, retrieval meets vectors of its own space only,
\* and what is ready after one change is found (Patch, completeFileEmbedding,
\* MarkEmbeddedFilesStale). Two administrators may publish each other's settings.
THEOREM IndexSafetyCorrect ==
  ASSUME OneAdministrator
  PROVE  IndexSpec => []IndexSafety
<1>1. IndexTypes /\ IndexInvariant => IndexSafety
  <2> SUFFICES ASSUME IndexTypes, IndexInvariant PROVE IndexSafety
    OBVIOUS
  <2>1. ReadyHasChunks
    BY CopiesAre DEF IndexInvariant, ChunksSound, ReadyHasChunks
  <2>2. RetrievesOwnSpace
    <3> SUFFICES ASSUME Orderly, NEW x \in Copies, row[x].chunks # NoChunks,
                        row[x].chunks.sig = Active
                 PROVE  row[x].chunks.space = SpaceOf(runtime)
      BY DEF RetrievesOwnSpace
    <3>1. SettingsSound /\ Active = runtime.sig
      BY ActiveNames DEF IndexInvariant
    <3>2. Names(Active, SpaceOf(runtime)) /\ Names(Active, row[x].chunks.space)
      BY <3>1 DEF SettingsSound, Coherent
    <3>3. SpaceOf(runtime) \in Spaces /\ row[x].chunks.space \in Spaces
      BY DEF IndexTypes, Settings, Row, Chunks, SpaceOf, Spaces
    <3> QED
      BY <3>2, <3>3, EmbeddingIndexAssumption DEF Names, Spaces, EmbeddingIndexAssumption
  <2>3. ReadyIsSearchable
    BY RestIs DEF IndexInvariant, JobsSound, Attended, ReadyIsSearchable, Quiet
  <2> QED
    BY <2>1, <2>2, <2>3, TypesSuffice DEF IndexSafety
<1> QED
  BY <1>1, IndexInvariance, PTL
=============================================================================
