--------------------------- MODULE CircuitBreaker ---------------------------
(***************************************************************************)
(* Calls to one upstream pass two circuits, one of the upstream and one of  *)
(* the model.  A circuit opens on failures, lets one probe through when its *)
(* time is over and closes on the probe's success or when nobody reports.   *)
(* Time is what remains of each deadline; Tick takes one unit away.         *)
(***************************************************************************)
EXTENDS Integers, FiniteSets, Functions

CONSTANTS
  Models, Upstream,   \* the scopes: the models of the upstream and the upstream
  Callers, Processes,
  ProcessOf,          \* the process that serves a call
  InMemory,           \* circuits kept in the memory of the process, not in Redis
  ModelThreshold, UpstreamThreshold,
  OpenModels,         \* models that must be open: upstream_model_threshold
  BothNeeded,         \* upstream_threshold_logic is "and"
  Window, Duration, ProbeTTL, ManualDuration,
  MaxOrders           \* bound: orders of the administrator

ASSUME CircuitBreakerAssumption ==
  /\ Upstream \notin Models /\ ProcessOf \in [Callers -> Processes]
  /\ {InMemory, BothNeeded} \subseteq BOOLEAN
  /\ {ModelThreshold, UpstreamThreshold, OpenModels, MaxOrders} \subseteq Nat
  /\ {Window, ProbeTTL, Duration, ManualDuration} \subseteq Nat \ {0}
  /\ ProbeTTL < Duration /\ Duration < ManualDuration
  /\ InMemory => Cardinality(Processes) = 1

VARIABLES
  circuit,   \* until: what remains of the open time and of the half-open time after it
  fails,     \* failures by age; no age needs more of them than the threshold
  caller,
  setting,   \* the row: the breaker is enabled
  cached,    \* what a process believes of the row, and whether it still may
  admin,     \* an update of the setting under way
  orders,
  slow       \* history: a call that probes took as long as its token lasts

core == <<circuit, fails, caller, setting, cached, admin, orders>>
vars == <<core, slow>>

Scopes == Models \cup {Upstream}
Threshold(s) == IF s = Upstream THEN UpstreamThreshold ELSE ModelThreshold
Closed == [until |-> 0, manual |-> FALSE, probe |-> 0]
NoFails == [s \in Scopes |-> [a \in 0..Window-1 |-> 0]]
AtRest == [pc |-> "idle", model |-> Upstream, granted |-> {}, age |-> 0]

TypeOK ==
  /\ circuit \in [Scopes -> [until : 0..ManualDuration + ProbeTTL, manual : BOOLEAN, probe : 0..ProbeTTL]]
  /\ fails \in [Scopes -> [0..Window-1 -> Nat]]
  /\ \A s \in Scopes, a \in 0..Window-1 : fails[s][a] <= Threshold(s)
  /\ caller \in [Callers -> [pc : {"idle", "checking", "calling", "succeeded", "ignored", "recording"},
                             model : Scopes, granted : SUBSET Scopes, age : 0..ProbeTTL]]
  /\ setting \in BOOLEAN /\ cached \in [Processes -> [enabled : BOOLEAN, valid : BOOLEAN]]
  /\ admin \in {"none", "enabling", "disabling"} /\ orders \in 0..MaxOrders
  /\ slow \in BOOLEAN

Init ==
  /\ circuit = [s \in Scopes |-> Closed] /\ fails = NoFails
  /\ caller = [c \in Callers |-> AtRest]
  /\ setting = TRUE /\ cached = [p \in Processes |-> [enabled |-> TRUE, valid |-> FALSE]]
  /\ admin = "none" /\ orders = 0 /\ slow = FALSE

-----------------------------------------------------------------------------
(* A circuit. *)

IsOpen(s) == circuit[s].until > ProbeTTL
IsHalfOpen(s) == circuit[s].until \in 1..ProbeTTL

State(s) ==
  CASE IsOpen(s) -> "open"
    [] IsHalfOpen(s) -> IF circuit[s].probe > 0 THEN "denied" ELSE "granted"
    [] OTHER -> "closed"

\* Mutant of AfterCheck: the token is not taken by the check that grants it.
AfterCheckUntaken(s) == circuit

\* What a check writes: the token of the probe; in memory a circuit that is found
\* closed forgets a token that is left.
AfterCheck(s) ==
  CASE State(s) = "granted" -> [circuit EXCEPT ![s].probe = ProbeTTL]
    [] State(s) = "closed" /\ InMemory -> [circuit EXCEPT ![s].probe = 0]
    [] OTHER -> circuit

Cleared(s) == circuit' = [circuit EXCEPT ![s] = Closed] /\ fails' = [fails EXCEPT ![s] = NoFails[s]]

\* OpenUpstreamCircuit, OpenModelCircuit.
Opened(s) ==
  [circuit EXCEPT ![s] = [until |-> ManualDuration + ProbeTTL, manual |-> TRUE, probe |-> @.probe]]

-----------------------------------------------------------------------------
(* RecordCircuitFailure. *)

WithFailure(s) == [fails[s] EXCEPT ![0] = IF @ < Threshold(s) THEN @ + 1 ELSE @]
Met(s) ==
  \/ circuit[s].probe > 0
  \/ Threshold(s) > 0 /\ SumFunction(WithFailure(s)) >= Threshold(s)

Tripped(c, trips) ==
  IF trips THEN [until |-> Duration + ProbeTTL, manual |-> FALSE, probe |-> 0]
  ELSE [c EXCEPT !.probe = 0]

\* shouldTripUpstream.
UpstreamTrips(failMet, modelMet) ==
  IF BothNeeded
  THEN /\ UpstreamThreshold > 0 \/ OpenModels > 0
       /\ UpstreamThreshold > 0 => failMet
       /\ OpenModels > 0 => modelMet
  ELSE failMet \/ modelMet

RecordFailure(m) ==
  LET model == [circuit EXCEPT ![m] = Tripped(@, Met(m))]
      open == {k \in Models : model[k].until > ProbeTTL}
      modelMet == OpenModels > 0 /\ Cardinality(open) >= OpenModels
  IN
  /\ circuit' = [model EXCEPT ![Upstream] = Tripped(@, UpstreamTrips(Met(Upstream), modelMet))]
  /\ fails' = [fails EXCEPT ![m] = WithFailure(m), ![Upstream] = WithFailure(Upstream)]

-----------------------------------------------------------------------------
(* A call: ResolveRoute, and MarkRouteSuccess or MarkRouteFailure. *)

Believes(c, enabled) ==
  cached[ProcessOf[c]].valid /\ cached[ProcessOf[c]].enabled = enabled
Rest(c) == caller' = [caller EXCEPT ![c] = AtRest]
Moves(c, pc) == caller' = [caller EXCEPT ![c].pc = pc]
Reports(c, pc) == IF caller[c].granted = {} THEN Rest(c) ELSE Moves(c, pc)
Grants(s) == IF State(s) = "granted" THEN {s} ELSE {}

\* A call whose upstream is open, or is probed by another, is refused and leaves no trace.
Resolve(c, m) ==
  /\ caller[c].pc = "idle"
  /\ \/ /\ Believes(c, FALSE) /\ UNCHANGED circuit
        /\ caller' = [caller EXCEPT ![c] =
             [pc |-> "calling", model |-> m, granted |-> {}, age |-> 0]]
     \/ /\ Believes(c, TRUE) /\ State(Upstream) \in {"closed", "granted"}
        /\ circuit' = AfterCheck(Upstream)
        /\ caller' = [caller EXCEPT ![c] =
             [pc |-> "checking", model |-> m, granted |-> Grants(Upstream), age |-> 0]]
  /\ UNCHANGED <<fails, setting, cached, admin, orders>>

\* A call that is refused by the model gives the token of the upstream back.
CheckModel(c) ==
  LET m == caller[c].model IN
  /\ caller[c].pc = "checking"
  /\ circuit' = AfterCheck(m)
  /\ IF State(m) \in {"closed", "granted"}
     THEN caller' = [caller EXCEPT ![c].pc = "calling", ![c].granted = @ \cup Grants(m)]
     ELSE Reports(c, "ignored")
  /\ UNCHANGED <<fails, setting, cached, admin, orders>>

Succeed(c) ==
  /\ caller[c].pc = "calling" /\ Reports(c, "succeeded")
  /\ UNCHANGED <<circuit, fails, setting, cached, admin, orders>>

\* The failure is not the upstream's, or the upstream limits the rate.
Ignore(c) ==
  /\ caller[c].pc = "calling" /\ Reports(c, "ignored")
  /\ UNCHANGED <<circuit, fails, setting, cached, admin, orders>>

Fail(c) ==
  /\ caller[c].pc = "calling"
  /\ \/ Believes(c, TRUE) /\ Moves(c, "recording")
     \/ Believes(c, FALSE) /\ Reports(c, "ignored")
  /\ UNCHANGED <<circuit, fails, setting, cached, admin, orders>>

\* The call is cancelled, or fails before it reaches the upstream, and nothing is reported.
Drop(c) ==
  /\ caller[c].pc = "calling" /\ Rest(c)
  /\ UNCHANGED <<circuit, fails, setting, cached, admin, orders>>

Record(c) ==
  /\ caller[c].pc = "recording" /\ RecordFailure(caller[c].model) /\ Rest(c)
  /\ UNCHANGED <<setting, cached, admin, orders>>

Next_(c) == IF Upstream \in caller[c].granted THEN Upstream ELSE caller[c].model
Reported(c) ==
  LET left == caller[c].granted \ {Next_(c)} IN
  IF left = {} THEN Rest(c) ELSE caller' = [caller EXCEPT ![c].granted = left]

\* ClearUpstreamCircuitKeys, then ClearModelCircuitKeys.
Clear(c) ==
  /\ caller[c].pc = "succeeded" /\ Cleared(Next_(c)) /\ Reported(c)
  /\ UNCHANGED <<setting, cached, admin, orders>>

\* ReleaseRouteProbes of the upstream, then of the model.
Release(c) ==
  /\ caller[c].pc = "ignored" /\ Reported(c)
  /\ circuit' = [circuit EXCEPT ![Next_(c)].probe = 0]
  /\ UNCHANGED <<fails, setting, cached, admin, orders>>

-----------------------------------------------------------------------------
(* Settings and administration. *)

\* loadBreakerDefaults, when what it remembers is 5 seconds old.
Load(p) ==
  /\ ~cached[p].valid /\ cached' = [cached EXCEPT ![p] = [enabled |-> setting, valid |-> TRUE]]
  /\ UNCHANGED <<circuit, fails, caller, setting, admin, orders>>

Forget(p) ==
  /\ cached[p].valid /\ cached' = [cached EXCEPT ![p].valid = FALSE]
  /\ UNCHANGED <<circuit, fails, caller, setting, admin, orders>>

Order == orders < MaxOrders /\ orders' = orders + 1
ClearsAll == circuit' = [s \in Scopes |-> Closed] /\ fails' = NoFails

\* storeBreakerDefaults at the process that serves the order.
Stores(enabled) ==
  /\ setting' = enabled
  /\ \E p \in Processes : cached' = [cached EXCEPT ![p] = [enabled |-> enabled, valid |-> TRUE]]

\* The states are cleared before the breaker is enabled.
Enable ==
  \/ /\ admin = "none" /\ ~setting /\ Order /\ ClearsAll /\ admin' = "enabling"
     /\ UNCHANGED <<caller, setting, cached>>
  \/ /\ admin = "enabling" /\ Stores(TRUE) /\ admin' = "none"
     /\ UNCHANGED <<circuit, fails, caller, orders>>

\* They are cleared after it is disabled, if they can be.
Disable ==
  \/ /\ admin = "none" /\ setting /\ Order /\ Stores(FALSE) /\ admin' = "disabling"
     /\ UNCHANGED <<circuit, fails, caller>>
  \/ /\ admin = "disabling" /\ admin' = "none" /\ (ClearsAll \/ UNCHANGED <<circuit, fails>>)
     /\ UNCHANGED <<caller, setting, cached, orders>>

OpenCircuit(s) ==
  /\ Order /\ \E p \in Processes : cached[p].valid /\ cached[p].enabled
  /\ circuit' = Opened(s)
  /\ UNCHANGED <<fails, caller, setting, cached, admin>>

ResetCircuit(s) ==
  /\ Order /\ Cleared(s)
  /\ UNCHANGED <<caller, setting, cached, admin>>

-----------------------------------------------------------------------------
\* Mutant of Elapsed: a half-open circuit waits for the report of its probe.
ElapsedUntilReport(c) ==
  IF c.until \in 1..ProbeTTL THEN c ELSE [c EXCEPT !.until = IF @ > 0 THEN @ - 1 ELSE @]

Elapsed(c) ==
  LET until == IF c.until > 0 THEN c.until - 1 ELSE 0
      ends == c.manual /\ until <= ProbeTTL
  IN [until |-> IF ends THEN 0 ELSE until, manual |-> c.manual /\ ~ends,
      probe |-> IF c.probe > 0 THEN c.probe - 1 ELSE 0]

Tick ==
  /\ circuit' = [s \in Scopes |-> Elapsed(circuit[s])]
  /\ fails' = [s \in Scopes |-> [a \in 0..Window-1 |-> IF a = 0 THEN 0 ELSE fails[s][a - 1]]]
  /\ caller' = [c \in Callers |->
       IF caller[c].granted # {} /\ caller[c].age < ProbeTTL
       THEN [caller[c] EXCEPT !.age = @ + 1] ELSE caller[c]]
  /\ UNCHANGED <<setting, cached, admin, orders>>

Call(c) ==
  \/ \E m \in Models : Resolve(c, m)
  \/ CheckModel(c) \/ Succeed(c) \/ Ignore(c) \/ Fail(c) \/ Drop(c) \/ Record(c)
  \/ Clear(c) \/ Release(c)

Step ==
  \/ \E c \in Callers : Call(c)
  \/ \E p \in Processes : Load(p) \/ Forget(p)
  \/ \E s \in Scopes : OpenCircuit(s) \/ ResetCircuit(s)
  \/ Enable \/ Disable \/ Tick

Next ==
  /\ Step
  /\ slow' = (slow \/ \E c \in Callers : caller'[c].age = ProbeTTL)

Spec == Init /\ [][Next]_vars
Fairness == WF_core(Tick)
FairSpec == Spec /\ Fairness

-----------------------------------------------------------------------------
\* With both thresholds needed, a failure need not open the upstream again, but takes
\* the token of its probe.
Forgets(s) == s = Upstream /\ BothNeeded /\ OpenModels > 0

\* As long as calls that probe report before their token lapses, no two of them probe
\* the same circuit, whatever other calls report meanwhile.
OneProbe ==
  ~slow => \A s \in Scopes : Forgets(s) \/ Cardinality({c \in Callers : s \in caller[c].granted}) <= 1

CircuitSafety == TypeOK /\ OneProbe

\* What makes it inductive.  A call holds tokens of its own circuits only ...
CallsSound ==
  \A c \in Callers : LET call == caller[c] IN
    /\ call.pc # "idle" => call.model \in Models
    /\ call.granted \subseteq {Upstream, call.model}
    /\ call.pc = "idle" => call.granted = {}
    /\ call.pc = "checking" => call.granted \subseteq {Upstream}
    /\ call.pc \in {"succeeded", "ignored"} => call.granted # {}
    /\ ~slow => call.age < ProbeTTL

\* ... a circuit that an administrator opened does not become half-open, nor does an
\* upstream without a threshold ...
CircuitsSound ==
  /\ \A s \in Scopes : circuit[s].manual => IsOpen(s)
  /\ BothNeeded /\ OpenModels = 0 /\ UpstreamThreshold = 0 =>
       circuit[Upstream].until = 0 \/ circuit[Upstream].manual

\* ... and while a call holds a token its circuit grants no other: it is closed, will not
\* be half-open before the call's time is over, or keeps the token until then.
Covered(s, time) ==
  \/ circuit[s].until = 0 \/ circuit[s].manual
  \/ circuit[s].until >= ProbeTTL + time \/ circuit[s].probe >= time

TokensSound ==
  ~slow => \A c \in Callers, s \in Scopes :
    s \in caller[c].granted /\ ~Forgets(s) =>
      /\ Covered(s, ProbeTTL - caller[c].age)
      /\ \A d \in Callers : s \in caller[d].granted => d = c

CircuitInvariant == TypeOK /\ CallsSound /\ CircuitsSound /\ TokensSound

\* However calls fail, are dropped, report late or leave a token behind, every circuit
\* lets a call through again and again.
Recovers == \A s \in Scopes : []<>(State(s) \in {"closed", "granted"})

-----------------------------------------------------------------------------
(* What the code does not keep: TLC finds a behaviour that violates each.   *)

\* A circuit that the administrator opened stays open for its time, or until it is reset.
ManualStaysOpen ==
  [][\A s \in Scopes :
       circuit[s].manual => circuit'[s].manual \/ Tick \/ ResetCircuit(s) \/ Enable \/ Disable]_vars

\* OneProbe without its exception.
OneProbeOfUpstream == ~slow => Cardinality({c \in Callers : Upstream \in caller[c].granted}) <= 1

\* The breaker is enabled with every circuit closed and no failure counted.
CleanStart ==
  [][~setting /\ setting' => \A s \in Scopes : circuit'[s] = Closed /\ fails'[s] = NoFails[s]]_vars
=============================================================================
