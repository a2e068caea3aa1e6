-------------------------- MODULE ReminderDispatch --------------------------
(***************************************************************************)
(* One reminder of one user: the commands that change it, the scheduler    *)
(* that turns its calendar into occurrences, and the dispatchers that send *)
(* a notification for each, one credit of the user's consent per message.  *)
(*                                                                         *)
(* Each transaction of the store is a step: it holds the row of the        *)
(* owner, so commands, the scheduler and claims of one user never overlap. *)
(* A dispatcher works outside of it: it marks what was left behind, claims,*)
(* sends, and records the outcome, and may stop between any two of these.  *)
(* A command is refused, without a trace, unless it names the revision of  *)
(* the reminder it was issued for; a repeated request gets its first       *)
(* answer.  Neither is a step here.                                        *)
(*                                                                         *)
(* Time is counted in units longer than a minute; 0 is "no time".          *)
(***************************************************************************)
EXTENDS Integers, Sequences, FiniteSets, FiniteSetsExt

CONSTANTS Workers,        \* the dispatching goroutines of all processes
          Schedules,      \* records [start, period, until]; period 0: once
          Grace,          \* how late an occurrence may still be announced
          Delays,         \* by how much a user snoozes
          Consents,       \* what the user accepted, one element per dialog
          Legacy,         \* those reported by clients that send no request id
          Horizon,        \* bound: the last moment
          MaxCommands,    \* bound: commands after the creation
          MaxCrashes,     \* bound: dispatchers that stop half-way
          Stalls          \* may a dispatcher take longer than a minute?

ASSUME ReminderAssumption ==
  /\ Grace \in Nat /\ Horizon \in Nat \ {0} /\ MaxCommands \in Nat /\ MaxCrashes \in Nat
  /\ Delays \subseteq Nat \ {0} /\ Legacy \subseteq Consents /\ Stalls \in BOOLEAN
  /\ Schedules \subseteq [start : Nat \ {0}, period : Nat, until : Nat] /\ Schedules # {}

VARIABLES now,
          plan,           \* its field `since` is history: since when it is active
          events,
          account,        \* the notification settings and their receipts
          worker,         \* what each dispatcher is doing
          old,            \* keys of events dispatched more than a minute ago
          sent,           \* every message that reached the messenger, in order
          commands, crashes

vars == <<now, plan, events, account, worker, old, sent, commands, crashes>>

Idle == [at |-> "idle"]

\* The first time of schedule s strictly after `after`, 0 if there is none.
NextTime(s, after) ==
  LET t == IF s.start > after THEN s.start
           ELSE IF s.period = 0 THEN 0
           ELSE s.start + ((after - s.start) \div s.period + 1) * s.period
  IN  IF s.until # 0 /\ t > s.until THEN 0 ELSE t

Times(s, first, last) == {t \in first..last : NextTime(s, t - 1) = t}

Key(e) == <<e.version, e.scheduled>>

Occurrence(t) == [scheduled |-> t, version |-> plan.version, due |-> t,
                  status |-> "pending", notice |-> "none", rev |-> 1]

Open(es)      == {e \in es : e.status \in {"pending", "due"}}
Unfinished(es) == {e \in es : e.status \in {"pending", "due", "suspended"}}

\* endReminderIfFinished: an active reminder with nothing to come has ended.
EndIfFinished(p, es) ==
  IF p.status = "active" /\ p.cursor = 0 /\ Open(es) = {}
  THEN [p EXCEPT !.status = "ended"] ELSE p

Init ==
  /\ now = 1
  /\ plan = [status |-> "none", schedule |-> CHOOSE s \in Schedules : TRUE,
             version |-> 0, cursor |-> 0, since |-> 0]
  /\ events = {}
  /\ account = [enabled |-> FALSE, credits |-> 0, receipts |-> {}, accepted |-> {}]
  /\ worker = [w \in Workers |-> Idle]
  /\ old = {}
  /\ sent = <<>>
  /\ commands = 0
  /\ crashes = 0

-----------------------------------------------------------------------------
(* Commands of the user: ExecuteReminder.                                  *)

Commanded(p, es) ==
  /\ commands < MaxCommands
  /\ commands' = commands + 1
  /\ plan' = EndIfFinished(p, es)
  /\ events' = es
  /\ UNCHANGED <<now, account, worker, old, sent, crashes>>

Create(s) ==
  /\ plan.status = "none"
  /\ NextTime(s, now) > now
  /\ plan' = [status |-> "active", schedule |-> s, version |-> 0,
              cursor |-> NextTime(s, now), since |-> now]
  /\ UNCHANGED <<now, events, account, worker, old, sent, commands, crashes>>

Exists == plan.status \notin {"none", "deleted"}

\* setReminderEventsState: what is not over is cancelled or suspended.
Stopped(status) ==
  (events \ Unfinished(events)) \union
  {[e EXCEPT !.status = status, !.notice = "canceled", !.rev = @ + 1] :
     e \in Unfinished(events)}

Delete == Exists /\ Commanded([plan EXCEPT !.status = "deleted"], Stopped("canceled"))
Pause  == Exists /\ Commanded([plan EXCEPT !.status = "paused"], Stopped("suspended"))

\* Mutant of Resumed: what was suspended is pending again, however late.
ResumedAll(e) == [e EXCEPT !.status = "pending", !.notice = "none", !.rev = @ + 1]

\* Resume: what fell due meanwhile was missed, the rest is pending again.
Resumed(e) ==
  IF e.due > now
  THEN [e EXCEPT !.status = "pending", !.notice = "none", !.rev = @ + 1]
  ELSE [e EXCEPT !.status = "missed", !.notice = "expired", !.rev = @ + 1]

Resume ==
  LET cursor == IF plan.cursor # 0 /\ plan.cursor <= now
                THEN NextTime(plan.schedule, now) ELSE plan.cursor
      back   == {e \in events : e.status = "suspended"}
  IN  /\ plan.status = "paused"
      /\ cursor # 0 \/ \E e \in back : e.due > now
      /\ Commanded([plan EXCEPT !.status = "active", !.cursor = cursor, !.since = now],
                   (events \ back) \union {Resumed(e) : e \in back})

Rename ==
  /\ Exists
  /\ Commanded(plan, (events \ Unfinished(events)) \union
                     {[e EXCEPT !.rev = @ + 1] : e \in Unfinished(events)})

\* A new calendar has a new version: the occurrences of the old one are void.
Recalendared(s) ==
  [plan EXCEPT !.schedule = s, !.version = @ + 1, !.cursor = NextTime(s, now),
               !.status = "active", !.since = now]

Reschedule(s) ==
  /\ Exists
  /\ NextTime(s, now) > now
  /\ Commanded(Recalendared(s), Stopped("canceled"))

\* Complete, skip and snooze act on one occurrence: one that is open, or, if
\* none is named and the calendar comes first, the next one of the calendar.
OnOccurrence(After(_)) ==
  /\ plan.status = "active"
  /\ \/ \E e \in Open(events) : Commanded(plan, (events \ {e}) \union {After(e)})
     \/ /\ plan.cursor # 0
        /\ \A e \in Open(events) : plan.cursor < e.due
        /\ Commanded([plan EXCEPT !.cursor = NextTime(plan.schedule, plan.cursor)],
                     events \union {After(Occurrence(plan.cursor))})

Completed(e) ==
  [e EXCEPT !.status = "completed", !.notice = "canceled", !.rev = @ + 1]

Snoozed(e, d) ==
  [e EXCEPT !.due = Max({now, e.due}) + d, !.status = "pending",
            !.notice = "none", !.rev = @ + 1]

Complete  == OnOccurrence(Completed)
Snooze(d) == OnOccurrence(LAMBDA e : Snoozed(e, d))

-----------------------------------------------------------------------------
(* The scheduler: TickReminders, one transaction per user.                 *)

\* An occurrence whose time has come is announced, or missed if it is too late.
Announced(e) ==
  IF e.status # "pending" \/ e.due > now THEN e
  ELSE IF e.due < now - Grace
       THEN [e EXCEPT !.status = "missed", !.notice = "expired"]
       ELSE [e EXCEPT !.status = "due", !.notice = "queued"]

Overdue == \/ plan.cursor # 0 /\ plan.cursor <= now
           \/ \E e \in events : e.status = "pending" /\ e.due <= now

\* The backlog of a long stop: its first occurrence is recorded as missed, the
\* rest is skipped; then every time up to now gets its occurrence.
Tick ==
  LET s      == plan.schedule
      stale  == plan.cursor # 0 /\ plan.cursor < now - Grace
      missed == IF stale THEN {[Occurrence(plan.cursor) EXCEPT
                                  !.status = "missed", !.notice = "expired"]}
                         ELSE {}
      first  == IF stale THEN NextTime(s, now - Grace) ELSE plan.cursor
      fresh  == IF first = 0 THEN {}
                ELSE {Occurrence(t) : t \in Times(s, first, now)}
      after  == IF first # 0 /\ first <= now THEN NextTime(s, now) ELSE first
      es     == {Announced(e) : e \in events \union missed \union fresh}
  IN  /\ plan.status = "active"
      /\ Overdue
      /\ events' = es
      /\ plan' = EndIfFinished([plan EXCEPT !.cursor = after], es)
      /\ UNCHANGED <<now, account, worker, old, sent, commands, crashes>>

-----------------------------------------------------------------------------
(* Consent: writeNotificationSettings.                                     *)

\* A consent with a receipt adds one message; without one it leaves at least one.
CreditsWith(c) ==
  LET held == IF account.enabled THEN account.credits ELSE 0
  IN  IF c \in Legacy THEN Max({held, 1}) ELSE held + 1

\* Mutant of Granted: a receipt is kept only as long as its credit.
GrantedAgain(c, automatic) ==
  /\ c \in account.receipts => account.credits = 0
  /\ automatic => account.enabled
  /\ account' = [enabled |-> TRUE, credits |-> CreditsWith(c),
                 receipts |-> account.receipts \union {c},
                 accepted |-> account.accepted \union {c}]

\* The client reports what the user accepted, perhaps again.  A report that was
\* made automatically does not turn on what the user has turned off.
Granted(c, automatic) ==
  /\ c \notin account.receipts
  /\ automatic => account.enabled
  /\ account' = [enabled |-> TRUE, credits |-> CreditsWith(c),
                 receipts |-> IF c \in Legacy THEN account.receipts
                              ELSE account.receipts \union {c},
                 accepted |-> account.accepted \union {c}]

Grant(c, automatic) ==
  /\ c \in Legacy => ~automatic
  /\ Granted(c, automatic)
  /\ UNCHANGED <<now, plan, events, worker, old, sent, commands, crashes>>

Disable ==
  /\ account.enabled
  /\ account' = [account EXCEPT !.enabled = FALSE, !.credits = 0]
  /\ UNCHANGED <<now, plan, events, worker, old, sent, commands, crashes>>

-----------------------------------------------------------------------------
(* A dispatcher: ClaimReminderNotification, Send, FinishReminderNotification. *)

\* Mutant of Recovered: what a dispatcher left behind stays "being sent".
NeverRecovered(e) == e

\* What a dispatcher left behind more than a minute ago is not sent again.
Recovered(e) ==
  IF e.notice = "dispatching" /\ Key(e) \in old
  THEN [e EXCEPT !.notice = "uncertain"] ELSE e

BeginClaim(w) ==
  /\ worker[w].at = "idle"
  /\ \E e \in events : e.notice \in {"queued", "dispatching"}
  /\ events' = {Recovered(e) : e \in events}
  /\ worker' = [worker EXCEPT ![w] = [at |-> "claim"]]
  /\ UNCHANGED <<now, plan, account, old, sent, commands, crashes>>

Deliverable(e) == plan.status = "active" /\ e.status = "due" /\ e.due >= now - Grace

Authorized == account.enabled /\ account.credits > 0

Skip(w) ==
  /\ worker[w].at = "claim"
  /\ \E e \in events :
       /\ e.notice = "queued" /\ ~(Deliverable(e) /\ Authorized)
       /\ events' = (events \ {e}) \union
            {[e EXCEPT !.notice = IF plan.status # "active" \/ e.status # "due" THEN "canceled"
                                  ELSE IF e.due < now - Grace THEN "expired"
                                  ELSE "not_authorized"]}
  /\ UNCHANGED <<now, plan, account, worker, old, sent, commands, crashes>>

Claim(w) ==
  /\ worker[w].at = "claim"
  /\ \E e \in events :
       /\ e.notice = "queued" /\ Deliverable(e) /\ Authorized
       /\ events' = (events \ {e}) \union {[e EXCEPT !.notice = "dispatching"]}
       /\ old' = old \ {Key(e)}
       /\ worker' = [worker EXCEPT ![w] =
                       [at |-> "send", key |-> Key(e), rev |-> e.rev, due |-> e.due]]
  /\ account' = [account EXCEPT !.credits = @ - 1]
  /\ UNCHANGED <<now, plan, sent, commands, crashes>>

ClaimNothing(w) ==
  /\ worker[w].at = "claim"
  /\ \A e \in events : e.notice # "queued"
  /\ worker' = [worker EXCEPT ![w] = Idle]
  /\ UNCHANGED <<now, plan, events, account, old, sent, commands, crashes>>

\* The messenger gets the message or not; only an answer tells which.
Send(w, reached, answered) ==
  /\ worker[w].at = "send"
  /\ answered => reached
  /\ sent' = IF reached THEN Append(sent, <<worker[w].key, worker[w].due>>) ELSE sent
  /\ worker' = [worker EXCEPT ![w] =
                  [at |-> "finish", key |-> worker[w].key, rev |-> worker[w].rev,
                   due |-> worker[w].due, status |-> IF answered THEN "sent" ELSE "uncertain"]]
  /\ UNCHANGED <<now, plan, events, account, old, commands, crashes>>

Finish(w) ==
  LET mine(e) == /\ Key(e) = worker[w].key /\ e.rev = worker[w].rev
                 /\ e.notice = "dispatching"
  IN  /\ worker[w].at = "finish"
      /\ events' = {IF mine(e) THEN [e EXCEPT !.notice = worker[w].status] ELSE e :
                      e \in events}
      /\ worker' = [worker EXCEPT ![w] = Idle]
      /\ UNCHANGED <<now, plan, account, old, sent, commands, crashes>>

\* The process stops, or the last write fails; its loop begins anew.
Crash(w) ==
  /\ worker[w].at # "idle"
  /\ crashes < MaxCrashes
  /\ crashes' = crashes + 1
  /\ worker' = [worker EXCEPT ![w] = Idle]
  /\ UNCHANGED <<now, plan, events, account, old, sent, commands>>

-----------------------------------------------------------------------------
(* Time.                                                                   *)

Advance ==
  /\ now < Horizon
  /\ now' = now + 1
  /\ UNCHANGED <<plan, events, account, worker, old, sent, commands, crashes>>

\* The timeouts of sending and recording add up to less than a minute.
Handled(e) == \E w \in Workers : worker[w].at \in {"send", "finish"} /\ worker[w].key = Key(e)

Minute ==
  /\ \E e \in events :
       /\ e.notice = "dispatching" /\ Key(e) \notin old
       /\ Stalls \/ ~Handled(e)
       /\ old' = old \union {Key(e)}
  /\ UNCHANGED <<now, plan, events, account, worker, sent, commands, crashes>>

Command ==
  \/ \E s \in Schedules : Create(s) \/ Reschedule(s)
  \/ Delete \/ Pause \/ Resume \/ Rename \/ Complete
  \/ \E d \in Delays : Snooze(d)

WorkerStep(w) ==
  \/ BeginClaim(w) \/ Skip(w) \/ Claim(w) \/ ClaimNothing(w) \/ Finish(w)
  \/ \E reached, answered \in BOOLEAN : Send(w, reached, answered)

Next ==
  \/ Command \/ Tick \/ Disable \/ Advance \/ Minute
  \/ \E c \in Consents, automatic \in BOOLEAN : Grant(c, automatic)
  \/ \E w \in Workers : WorkerStep(w) \/ Crash(w)

Spec == Init /\ [][Next]_vars

\* The scheduler and each dispatcher are loops that are never left while the
\* server runs; minutes pass.  Users, consents and failures owe nothing.
FairSpec == /\ Spec
            /\ WF_vars(Tick) /\ WF_vars(Minute)
            /\ \A w \in Workers : WF_vars(WorkerStep(w))

-----------------------------------------------------------------------------
(* Properties.                                                             *)

Keys == Nat \X Nat
Statuses == {"pending", "due", "missed", "suspended", "canceled", "completed"}
Notices == {"none", "queued", "dispatching", "sent", "uncertain", "canceled", "expired",
            "not_authorized"}
Event == [scheduled : Nat, version : Nat, due : Nat, status : Statuses, notice : Notices,
          rev : Nat]
Sending == [at : {"send"}, key : Keys, rev : Nat, due : Nat]
Finishing == [at : {"finish"}, key : Keys, rev : Nat, due : Nat, status : {"sent", "uncertain"}]

Plan == [status : {"none", "active", "paused", "ended", "deleted"}, schedule : Schedules,
         version : 0..MaxCommands, cursor : Nat, since : Nat]

Account == [enabled : BOOLEAN, credits : Nat, receipts : SUBSET Consents,
            accepted : SUBSET Consents]

TypeOK ==
  /\ now \in 1..Horizon /\ plan \in Plan
  /\ events \subseteq Event
  /\ account \in Account
  /\ worker \in [Workers -> {Idle, [at |-> "claim"]} \union Sending \union Finishing]
  /\ old \subseteq Keys /\ sent \in Seq(Keys \X Nat)
  /\ commands \in 0..MaxCommands /\ crashes \in 0..MaxCrashes
  /\ \A e \in events :
       /\ e.status = "pending" => e.notice = "none"
       /\ e.notice \in {"queued", "dispatching"} => e.status = "due"
  /\ account.receipts \subseteq account.accepted
  /\ ~account.enabled => account.credits = 0

\* A time of the calendar becomes an occurrence at most once, whatever is
\* rescheduled, paused, resumed or left behind by a stop: the unique index of
\* the occurrences never refuses an insertion, which would stop the scheduler
\* for this user for good.
OncePerTime == \A e, f \in events : Key(e) = Key(f) => e = f

\* No occurrence is sent twice for the same due time, although two dispatchers
\* work, either may stop anywhere, and answers get lost.
SentOnce == \A i, j \in 1..Len(sent) : sent[i] = sent[j] => i = j

\* The user never gets more messages than he accepted, however often a client
\* repeats what it reported and whatever is switched off and on meanwhile.
SendsWithinConsents == Len(sent) + account.credits <= Cardinality(account.accepted)

\* A message is claimed only for an occurrence of the present calendar of an
\* active reminder, after its time and before it is too late, and if the time
\* came while the reminder was active: what was deleted, moved or fell due
\* during a pause is not sent.
ClaimedIsCurrent ==
  [][\A w \in Workers : worker'[w].at = "send" /\ worker[w].at = "claim" =>
       /\ plan.status = "active"
       /\ worker'[w].key[1] = plan.version
       /\ worker'[w].due \in (now - Grace)..now
       /\ worker'[w].due > plan.since]_vars

\* An active reminder has something to come or to be done; one that has ended
\* has not, so that it leaves the list exactly when it is over.
ActiveIsAlive ==
  /\ plan.status = "active" => plan.cursor # 0 \/ Open(events) # {}
  /\ plan.status = "ended" => plan.cursor = 0 /\ Unfinished(events) = {}

\* Of these five, none may ever fail: each time has one occurrence, each occurrence
\* is sent once, never more is sent than was accepted, and what ends is over.
ReminderSafety ==
  TypeOK /\ OncePerTime /\ SentOnce /\ SendsWithinConsents /\ ActiveIsAlive

(* Why it holds. *)

\* The calendar has moved beyond what it has made, and what is open is of the present
\* calendar and came, or comes, after the reminder became active.
CalendarSound ==
  /\ plan.version <= commands /\ plan.since <= now
  /\ plan.status = "none" => events = {} /\ plan.version = 0
  /\ plan.status = "active" /\ plan.cursor # 0 => plan.cursor > plan.since
  /\ \A e \in events :
       /\ e.version <= plan.version
       /\ e.version = plan.version /\ plan.cursor # 0 => e.scheduled < plan.cursor
       /\ e.status = "suspended" => plan.status = "paused" /\ e.version = plan.version
       /\ e.status \in {"pending", "due"} =>
            plan.status = "active" /\ e.version = plan.version /\ e.due > plan.since
       /\ e.status = "due" => e.due <= now

\* What is being sent, or was sent, has fallen due; and what is not claimed yet is not
\* among it.
Holders == {w \in Workers : worker[w].at = "send"}
Held(w) == <<worker[w].key, worker[w].due>>
Used(pair) == (\E i \in DOMAIN sent : sent[i] = pair) \/ (\E w \in Holders : Held(w) = pair)

SendingSound ==
  /\ \A i \in DOMAIN sent : sent[i][2] <= now /\ \E e \in events : Key(e) = sent[i][1]
  /\ \A w \in Holders : /\ worker[w].due <= now
                        /\ \E e \in events : Key(e) = worker[w].key
                        /\ \A i \in DOMAIN sent : sent[i] # Held(w)
                        /\ \A v \in Holders : Held(v) = Held(w) => v = w
  /\ \A e \in events : e.status = "pending" \/ e.notice = "queued" => ~Used(<<Key(e), e.due>>)

\* Each message that is under way has taken its credit.
CreditsSound ==
  /\ IsFiniteSet(Holders) /\ IsFiniteSet(account.accepted)
  /\ Cardinality(Holders) + Len(sent) + account.credits <= Cardinality(account.accepted)
  /\ account.receipts = account.accepted

ReminderInvariant ==
  TypeOK /\ OncePerTime /\ SentOnce /\ ActiveIsAlive /\ CalendarSound /\ SendingSound

Unnoticed == /\ plan.status = "active"
             /\ \/ plan.cursor \in 1..now
                \/ \E e \in events : e.status = "pending" /\ e.due <= now
InSending == \E e \in events : e.notice \in {"queued", "dispatching"}

\* A calendar time that has come does not stay unnoticed, a queued message does
\* not stay queued, and a dispatcher that stopped leaves no message "being sent".
RemindersProgress == (Unnoticed ~> ~Unnoticed) /\ (InSending ~> ~InSending)

-----------------------------------------------------------------------------
(* What the code does not keep: TLC finds a behaviour that violates each;  *)
(* and SendsWithinConsents, with a client in Legacy.                       *)

\* docs/companion-reminders.md: a notice is uncertain if the outcome is not
\* known or the dispatcher stopped.  So an outcome that is known is recorded,
\* unless the occurrence was changed meanwhile into one that is not due.
SentIsRecorded ==
  [][\A w \in Workers : worker[w].at = "finish" /\ worker'[w].at = "idle"
                        /\ crashes' = crashes /\ worker[w].status = "sent" =>
       \A e \in events' :
         Key(e) = worker[w].key /\ e.due = worker[w].due /\ e.status = "due"
           => e.notice = "sent"]_vars

\* docs/companion-assistant.md: at most one consent is kept for later.
OneConsentKept == account.credits <= 1
=============================================================================
