--------------------------- MODULE SessionRotation ---------------------------
(***************************************************************************)
(* One session of one browser.  A refresh presents the token in the cookie,*)
(* which the server replaces; the answer carries the new one.  The session *)
(* row keeps the token before for a while, for answers that get lost.      *)
(*                                                                         *)
(* Tokens are numbered in the order in which they are issued, 0 stands for *)
(* none.  Time is counted in ticks.  A refresh reads the clock before its  *)
(* transaction and measures with that time under the lock of the row,      *)
(* however late it gets it.                                                *)
(***************************************************************************)
EXTENDS Integers

CONSTANTS Requests,     \* the refresh requests that may be under way at a time
          Losses,       \* how many answers in a row may get lost
          Grace,        \* refreshTokenPreviousHashGrace, in ticks
          TTL,          \* lifetime of a refresh token, in ticks
          MaxTokens,    \* bound: tokens issued
          MaxTime       \* bound: ticks

ASSUME RotationAssumption ==
  /\ {Losses, Grace, TTL, MaxTime} \subseteq Nat /\ MaxTokens \in Nat \ {0}
  /\ 0 < Grace /\ Grace < TTL

VARIABLES row,          \* the session: its hashes, refresh_rotated_at, revoked_at
          expires,      \* when each token expires; the row's expires_at is that of `current`
          cookie,       \* the refresh token in the browser's jar
          request,      \* the refresh requests and their handlers
          issued,       \* the last token issued
          lost,         \* answers lost since the last one that arrived
          signedOut,    \* has a logout or a failed refresh ended the session?
          clock,
          astray        \* history: requests that the browser heard of overlapped, one was
                        \* given up under way, two answers in a row were lost, or the
                        \* one that was lost was not made up for in time

sessionVars == <<row, expires, cookie, request, issued, lost, signedOut, clock, astray>>

Idle == [at |-> "idle"]

\* CreateSession, at sign-in.
SessionInit ==
  /\ row = [current |-> 1, previous |-> 0, rotatedAt |-> 0, revoked |-> FALSE]
  /\ expires = [t \in 1..MaxTokens |-> TTL]
  /\ cookie = 1 /\ issued = 1 /\ lost = 0 /\ signedOut = FALSE /\ clock = 0
  /\ astray = FALSE
  /\ request = [r \in Requests |-> Idle]

ExpiresAt == expires[row.current]
Alive == ~row.revoked /\ clock < ExpiresAt

UnderWay(r) == request[r].at # "idle"
Hears(req) == req.at # "idle" /\ req.heard
Heard(r) == Hears(request[r])

-----------------------------------------------------------------------------
(* The browser: authed-client.ts, one refresh at a time if its tabs share  *)
(* a lock (navigator.locks).                                               *)

Send(r) ==
  /\ ~UnderWay(r) /\ cookie # 0
  /\ request' = [request EXCEPT ![r] =
                   [at |-> "sent", heard |-> TRUE, token |-> cookie, new |-> 0, now |-> 0]]
  /\ UNCHANGED <<row, expires, cookie, issued, lost, signedOut, clock>>

\* Set-Cookie: the new token, or none after any error.
Receive(r) ==
  /\ Heard(r) /\ request[r].at = "answered"
  /\ cookie' = request[r].new
  /\ lost' = 0
  /\ request' = [request EXCEPT ![r] = Idle]
  /\ UNCHANGED <<row, expires, issued, signedOut, clock>>

\* The connection breaks, or the tab gives up while the server still works on the
\* request; it lets go of the lock.
Lose(r) ==
  /\ Heard(r) /\ lost < Losses
  /\ lost' = lost + 1
  /\ request' = [request EXCEPT ![r] =
                   IF request[r].at = "answered" THEN Idle ELSE [@ EXCEPT !.heard = FALSE]]
  /\ UNCHANGED <<row, expires, cookie, issued, signedOut, clock>>

-----------------------------------------------------------------------------
(* The server: Service.Refresh.                                            *)

\* No answer reaches a browser that does not listen.
Answer(r, token) ==
  request' = [request EXCEPT ![r] =
                IF request[r].heard THEN [@ EXCEPT !.at = "answered", !.new = token]
                ELSE Idle]

\* The token must not have expired (token.Parse), and neither must the session that is read.
Check(r) ==
  /\ UnderWay(r) /\ request[r].at = "sent"
  /\ IF clock < expires[request[r].token] /\ ~row.revoked /\ clock <= ExpiresAt
     THEN request' = [request EXCEPT ![r].at = "checked"]
     ELSE Answer(r, 0)
  /\ UNCHANGED <<row, expires, cookie, issued, lost, signedOut, clock>>

\* now := time.Now(), after the user was read and before the transaction begins.
ReadClock(r) ==
  /\ UnderWay(r) /\ request[r].at = "checked"
  /\ request' = [request EXCEPT ![r].at = "timed", ![r].now = clock]
  /\ UNCHANGED <<row, expires, cookie, issued, lost, signedOut, clock>>

\* Mutant of Accepts: only the token that is current.
AcceptsCurrent(token, now) == ~row.revoked /\ now < ExpiresAt /\ token = row.current

\* sessionAcceptsPresentedRefreshHash, under the lock of the row.
Accepts(token, now) ==
  /\ token # 0 /\ ~row.revoked /\ now < ExpiresAt
  /\ \/ token = row.current
     \/ now - row.rotatedAt <= Grace /\ token = row.previous

\* RotateSessionTokens: what it writes starts at the time the request has read.
Rotate(r) ==
  /\ UnderWay(r) /\ request[r].at = "timed" /\ issued < MaxTokens
  /\ Accepts(request[r].token, request[r].now)
  /\ row' = [current |-> issued + 1, previous |-> row.current,
             rotatedAt |-> request[r].now, revoked |-> FALSE]
  /\ expires' = [expires EXCEPT ![issued + 1] = request[r].now + TTL]
  /\ issued' = issued + 1
  /\ request' = [request EXCEPT ![r].at = "rotated", ![r].new = issued + 1]
  /\ UNCHANGED <<cookie, lost, signedOut, clock>>

Refuse(r) ==
  /\ UnderWay(r) /\ request[r].at = "timed"
  /\ ~Accepts(request[r].token, request[r].now)
  /\ Answer(r, 0)
  /\ UNCHANGED <<row, expires, cookie, issued, lost, signedOut, clock>>

\* TouchSessionActivity leaves no trace here; it, or a step before the
\* rotation, may fail, and then the handler clears the cookie.
EndRefresh(r) ==
  /\ UnderWay(r) /\ request[r].at = "rotated"
  /\ Answer(r, request[r].new)
  /\ UNCHANGED <<row, expires, cookie, issued, lost, signedOut, clock>>

FailRefresh(r) ==
  /\ UnderWay(r) /\ request[r].at \in {"sent", "checked", "timed", "rotated"}
  /\ Answer(r, 0)
  /\ signedOut' = (signedOut \/ request[r].heard)
  /\ UNCHANGED <<row, expires, cookie, issued, lost, clock>>

\* Logout and LogoutAll; `here` if this browser asked for it.
Logout(here) ==
  /\ ~row.revoked
  /\ row' = [row EXCEPT !.revoked = TRUE]
  /\ cookie' = IF here THEN 0 ELSE cookie
  /\ signedOut' = TRUE
  /\ UNCHANGED <<expires, request, issued, lost, clock>>

SessionTick ==
  /\ clock < MaxTime
  /\ clock' = clock + 1
  /\ UNCHANGED <<row, expires, cookie, request, issued, lost, signedOut>>

SessionStep ==
  \/ \E r \in Requests : \/ Send(r) \/ Receive(r) \/ Lose(r)
                         \/ Check(r) \/ ReadClock(r) \/ Rotate(r) \/ Refuse(r)
                         \/ EndRefresh(r) \/ FailRefresh(r)
  \/ \E here \in BOOLEAN : Logout(here)
  \/ SessionTick

\* What the grace is for: the tab whose answer got lost tries again within it, with a
\* token that has not expired.
TooLate ==
  /\ lost > 0
  /\ \/ clock - row.rotatedAt > Grace
     \/ cookie # 0 /\ clock >= expires[cookie]

SessionNext ==
  /\ SessionStep
  /\ astray' = \/ astray \/ lost' > 1 \/ TooLate'
               \/ \E q, r \in Requests : q # r /\ Hears(request'[q]) /\ Hears(request'[r])
               \/ \E r \in Requests : request'[r].at # "idle" /\ ~request'[r].heard

SessionSpec == SessionInit /\ [][SessionNext]_sessionVars

-----------------------------------------------------------------------------
(* Properties.                                                             *)

Stages == {"sent", "checked", "timed", "rotated", "answered"}
Row == [current : 1..MaxTokens, previous : 0..MaxTokens, rotatedAt : 0..MaxTime,
        revoked : BOOLEAN]
Request == [at : Stages, heard : BOOLEAN, token : 1..MaxTokens, new : 0..MaxTokens,
            now : 0..MaxTime]

SessionTypeOK ==
  /\ row \in Row /\ expires \in [1..MaxTokens -> 0..(MaxTime + TTL)]
  /\ cookie \in 0..MaxTokens /\ issued \in 1..MaxTokens
  /\ lost \in 0..Losses /\ clock \in 0..MaxTime
  /\ signedOut \in BOOLEAN /\ astray \in BOOLEAN
  /\ request \in [Requests -> {Idle} \cup Request]

\* The session was revoked, or it has expired and no request under way read the clock
\* before it did.
Over ==
  \/ row.revoked
  \/ /\ clock >= ExpiresAt
     /\ \A r \in Requests : request[r].at = "timed" => request[r].now >= ExpiresAt

\* A session that was revoked stays revoked, although a rotation clears the revocation:
\* no refresh that was checked before a logout finishes after it.  One that has expired
\* lives again only through requests that read the clock while it was alive.
DeadStaysDead == (row.revoked => row.revoked') /\ (Over => Over')

\* Tabs that take turns, wait for their answer and try again in time when one answer got
\* lost, never lose the session: what the browser holds, or what is on its way to it, is
\* a token the server accepts.
BrowserKeepsSession ==
  (Alive /\ ~signedOut /\ ~astray) =>
    \/ Accepts(cookie, clock)
    \/ \E r \in Requests : Heard(r) /\ request[r].new = row.current

\* A browser whose tabs take turns does not lose its session, a revoked session never
\* lives again, and an expired one only through a request that was in time.
SessionIsKept ==
  [][SessionTypeOK' /\ BrowserKeepsSession' /\ DeadStaysDead]_sessionVars

-----------------------------------------------------------------------------
(* Why it holds.                                                           *)

\* As long as nothing went astray at most one request is under way, and it is heard.
TakeTurns ==
  ~astray =>
    /\ lost <= 1 /\ ~TooLate
    /\ \A r \in Requests : UnderWay(r) => Heard(r)
    /\ \A q, r \in Requests : UnderWay(q) /\ UnderWay(r) => q = r

\* What a request has read of the clock is past.
TimesArePast == \A r \in Requests : request[r].at = "timed" => request[r].now <= clock

Rotated(r) == request[r].at \in {"rotated", "answered"}

\* What it presents is the token in the jar; once it has rotated, it brings the current
\* one, and the one in the jar is the one before.  Without it the token in the jar is
\* current, or the answer got lost and the token in the jar is the one before.
TokenIsKept ==
  ~Over /\ ~signedOut /\ ~astray =>
    /\ cookie # 0
    /\ \A r \in Requests :
         /\ request[r].at \in {"sent", "checked", "timed"} => request[r].token = cookie
         /\ Rotated(r) => request[r].new = row.current /\ (lost = 0 => cookie = row.previous)
    /\ (\A r \in Requests : ~Rotated(r)) =>
         cookie = row.current \/ (lost > 0 /\ cookie = row.previous)

SessionInvariant == SessionTypeOK /\ TakeTurns /\ TimesArePast /\ TokenIsKept
=============================================================================
