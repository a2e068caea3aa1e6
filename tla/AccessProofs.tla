---------------------------- MODULE AccessProofs ----------------------------
(***************************************************************************)
(* What stands between a user and an answer.  CircuitBreaker: as long as   *)
(* calls report before their token lapses, a half-open circuit is probed   *)
(* by one call at a time, whatever other calls report, however late, and   *)
(* whatever administrators do.  SessionRotation: tabs that take turns keep *)
(* their session, a revoked one never lives again, and an expired one only *)
(* through a request that read the clock in time.                          *)
(* ModerationBarrier: a hit is not forgotten, and what is blocked is       *)
(* withdrawn.                                                              *)
(***************************************************************************)
EXTENDS CircuitBreaker, SessionRotation, ModerationBarrier, FiniteSetTheorems, TLAPS

(* Circuits: CircuitBreaker. *)

Circuit == [until : 0..ManualDuration + ProbeTTL, manual : BOOLEAN, probe : 0..ProbeTTL]
CallStages == {"idle", "checking", "calling", "succeeded", "ignored", "recording"}
CallRecord == [pc : CallStages, model : Scopes, granted : SUBSET Scopes, age : 0..ProbeTTL]
Beliefs == [enabled : BOOLEAN, valid : BOOLEAN]

CircuitsType == circuit \in [Scopes -> Circuit]
FailsType ==
  /\ fails \in [Scopes -> [0..Window-1 -> Nat]]
  /\ \A s \in Scopes, a \in 0..Window-1 : fails[s][a] <= Threshold(s)
CallsType == caller \in [Callers -> CallRecord]
RestType ==
  /\ setting \in BOOLEAN /\ cached \in [Processes -> Beliefs]
  /\ admin \in {"none", "enabling", "disabling"} /\ orders \in 0..MaxOrders

LEMMA Types ==
  /\ TypeOK <=> CircuitsType /\ FailsType /\ CallsType /\ RestType /\ slow \in BOOLEAN
  /\ TypeOK' <=> CircuitsType' /\ FailsType' /\ CallsType' /\ RestType' /\ slow' \in BOOLEAN
BY DEF TypeOK, CircuitsType, FailsType, CallsType, RestType, Circuit, CallRecord, CallStages, Beliefs

LEMMA Numbers ==
  /\ ProbeTTL \in Nat \ {0} /\ Window \in Nat \ {0} /\ ManualDuration \in Nat /\ Duration \in Nat
  /\ MaxOrders \in Nat /\ OpenModels \in Nat /\ UpstreamThreshold \in Nat
  /\ ProbeTTL < Duration /\ Duration < ManualDuration
  /\ \A s \in Scopes : Threshold(s) \in Nat
  /\ Upstream \in Scopes /\ Models \subseteq Scopes /\ Upstream \notin Models
BY CircuitBreakerAssumption DEF Threshold, Scopes

-----------------------------------------------------------------------------
(* Types.                                                                  *)

LEMMA TypeInit == Init => TypeOK
<1> SUFFICES ASSUME Init PROVE TypeOK
  OBVIOUS
<1>1. CircuitsType
  BY Numbers DEF Init, Closed, CircuitsType, Circuit
<1>2. FailsType
  BY Numbers DEF Init, NoFails, FailsType
<1>3. CallsType
  BY Numbers DEF Init, AtRest, CallsType, CallRecord, CallStages
<1>4. RestType /\ slow \in BOOLEAN
  <2>1. orders \in 0..MaxOrders
    BY Numbers DEF Init
  <2> QED BY <2>1 DEF Init, RestType, Beliefs
<1> QED BY <1>1, <1>2, <1>3, <1>4, Types

\* What is written to circuits and their failures.
LEMMA CircuitWrites ==
  ASSUME CircuitsType, NEW s \in Scopes
  PROVE  /\ AfterCheck(s) \in [Scopes -> Circuit]
         /\ Opened(s) \in [Scopes -> Circuit]
         /\ [circuit EXCEPT ![s].probe = 0] \in [Scopes -> Circuit]
         /\ [circuit EXCEPT ![s] = Closed] \in [Scopes -> Circuit]
         /\ Elapsed(circuit[s]) \in Circuit
         /\ \A trips \in BOOLEAN : \A c \in Circuit : Tripped(c, trips) \in Circuit
<1> USE Numbers, CircuitBreakerAssumption DEF CircuitsType, Circuit
<1>1. AfterCheck(s) \in [Scopes -> Circuit]
  BY DEF AfterCheck
<1>2. Opened(s) \in [Scopes -> Circuit]
  BY DEF Opened
<1>3. [circuit EXCEPT ![s].probe = 0] \in [Scopes -> Circuit]
  OBVIOUS
<1>4. [circuit EXCEPT ![s] = Closed] \in [Scopes -> Circuit]
  BY DEF Closed
<1>5. Elapsed(circuit[s]) \in Circuit
  BY DEF Elapsed
<1>6. \A trips \in BOOLEAN : \A c \in Circuit : Tripped(c, trips) \in Circuit
  BY DEF Tripped
<1> QED BY <1>1, <1>2, <1>3, <1>4, <1>5, <1>6

LEMMA FailureType ==
  ASSUME FailsType, NEW s \in Scopes
  PROVE  /\ WithFailure(s) \in [0..Window-1 -> Nat]
         /\ \A a \in 0..Window-1 : WithFailure(s)[a] <= Threshold(s)
BY Numbers DEF FailsType, WithFailure

LEMMA ClearedType ==
  ASSUME CircuitsType, FailsType, NEW s \in Scopes, Cleared(s)
  PROVE  CircuitsType' /\ FailsType'
<1>1. CircuitsType'
  BY CircuitWrites DEF Cleared, CircuitsType
<1>2. NoFails[s] = [a \in 0..Window-1 |-> 0]
  BY DEF NoFails
<1>3. FailsType'
  BY <1>2, Numbers DEF FailsType, Cleared
<1> QED BY <1>1, <1>3

LEMMA ClearsAllType == ClearsAll => CircuitsType' /\ FailsType'
BY Numbers DEF ClearsAll, Closed, NoFails, CircuitsType, Circuit, FailsType

LEMMA FailureRecorded ==
  ASSUME CircuitsType, FailsType, NEW m \in Models, RecordFailure(m)
  PROVE  /\ circuit'[m] = Tripped(circuit[m], Met(m))
         /\ \E trips \in BOOLEAN :
              /\ circuit'[Upstream] = Tripped(circuit[Upstream], trips)
              /\ Met(Upstream) /\ ~(BothNeeded /\ (OpenModels > 0 \/ UpstreamThreshold = 0))
                   => trips
              /\ BothNeeded /\ OpenModels = 0 /\ UpstreamThreshold = 0 => ~trips
         /\ \A s \in Scopes \ {m, Upstream} : circuit'[s] = circuit[s]
         /\ CircuitsType' /\ FailsType'
<1> DEFINE model == [circuit EXCEPT ![m] = Tripped(@, Met(m))]
           open == {k \in Models : model[k].until > ProbeTTL}
           modelMet == OpenModels > 0 /\ Cardinality(open) >= OpenModels
           trips == UpstreamTrips(Met(Upstream), modelMet)
<1>1. /\ circuit' = [model EXCEPT ![Upstream] = Tripped(@, trips)]
      /\ fails' = [fails EXCEPT ![m] = WithFailure(m), ![Upstream] = WithFailure(Upstream)]
  BY DEF RecordFailure
<1>2. trips \in BOOLEAN /\ Met(m) \in BOOLEAN
  BY CircuitBreakerAssumption DEF UpstreamTrips, Met
<1>3. /\ Met(Upstream) /\ ~(BothNeeded /\ (OpenModels > 0 \/ UpstreamThreshold = 0)) => trips
      /\ BothNeeded /\ OpenModels = 0 /\ UpstreamThreshold = 0 => ~trips
  BY CircuitBreakerAssumption DEF UpstreamTrips
<1> HIDE DEF trips
<1>4. /\ circuit'[m] = Tripped(circuit[m], Met(m))
      /\ circuit'[Upstream] = Tripped(circuit[Upstream], trips)
      /\ \A s \in Scopes \ {m, Upstream} : circuit'[s] = circuit[s]
      /\ CircuitsType'
  BY <1>1, <1>2, Numbers, CircuitWrites DEF CircuitsType
<1>5. FailsType'
  BY <1>1, Numbers, FailureType DEF FailsType
<1> QED BY <1>2, <1>3, <1>4, <1>5

\* What a step does to a call.
LEMMA CallWrites ==
  ASSUME CallsType, NEW c \in Callers
  PROVE  /\ Rest(c) => CallsType'
         /\ \A stage \in CallStages : Moves(c, stage) \/ Reports(c, stage) => CallsType'
<1>1. Rest(c) => CallsType'
  BY Numbers DEF Rest, AtRest, CallsType, CallRecord, CallStages
<1>2. ASSUME NEW stage \in CallStages, Moves(c, stage) PROVE CallsType'
  BY <1>2 DEF Moves, CallsType, CallRecord
<1> QED BY <1>1, <1>2 DEF Reports

LEMMA NextScope ==
  ASSUME CallsType, CallsSound, NEW c \in Callers, caller[c].pc \in {"succeeded", "ignored"}
  PROVE  Next_(c) \in Scopes /\ Next_(c) \in caller[c].granted
BY Numbers DEF CallsType, CallRecord, CallsSound, Next_

LEMMA ReportedType ==
  ASSUME CallsType, NEW c \in Callers, Reported(c)
  PROVE  CallsType'
BY CallWrites DEF Reported, CallsType, CallRecord

LEMMA CallTypeStep ==
  ASSUME TypeOK, CallsSound, NEW c \in Callers, Call(c)
  PROVE  CircuitsType' /\ FailsType' /\ CallsType'
<1>0. CircuitsType /\ FailsType /\ CallsType
  BY Types
<1> USE <1>0, Numbers
<1>1. ASSUME NEW m \in Models, Resolve(c, m) PROVE CircuitsType' /\ FailsType' /\ CallsType'
  <2>1. Grants(Upstream) \subseteq Scopes
    BY DEF Grants
  <2>2. CallsType'
    <3>1. [pc |-> "calling", model |-> m, granted |-> {}, age |-> 0] \in CallRecord
      BY DEF CallRecord, CallStages
    <3>2. [pc |-> "checking", model |-> m, granted |-> Grants(Upstream), age |-> 0] \in CallRecord
      BY <2>1 DEF CallRecord, CallStages
    <3> QED BY <1>1, <3>1, <3>2 DEF Resolve, CallsType
  <2> QED BY <1>1, <2>2, CircuitWrites, ZenonT(60) DEF Resolve, CircuitsType, FailsType
<1>2. CASE CheckModel(c)
  <2> DEFINE m == caller[c].model
  <2>1. m \in Scopes /\ Grants(m) \subseteq Scopes
    BY DEF CallsType, CallRecord, Grants
  <2>2. CallsType'
    <3>1. CASE Reports(c, "ignored")
      BY <3>1, CallWrites DEF CallStages
    <3>2. CASE caller' = [caller EXCEPT ![c].pc = "calling", ![c].granted = @ \cup Grants(m)]
      BY <2>1, <3>2 DEF CallsType, CallRecord, CallStages
    <3> QED BY <1>2, <3>1, <3>2 DEF CheckModel
  <2> QED BY <1>2, <2>1, <2>2, CircuitWrites DEF CheckModel, CircuitsType, FailsType
<1>3. CASE Succeed(c) \/ Ignore(c) \/ Fail(c) \/ Drop(c)
  BY <1>3, CallWrites DEF Succeed, Ignore, Fail, Drop, CallStages, CircuitsType, FailsType
<1>4. CASE Record(c)
  <2>1. caller[c].model \in Models
    BY <1>4 DEF Record, CallsSound
  <2> QED BY <1>4, <2>1, FailureRecorded, CallWrites DEF Record
<1>5. CASE Clear(c)
  BY <1>5, NextScope, ClearedType, ReportedType DEF Clear
<1>6. CASE Release(c)
  BY <1>6, NextScope, CircuitWrites, ReportedType DEF Release, CircuitsType, FailsType
<1> QED BY <1>1, <1>2, <1>3, <1>4, <1>5, <1>6 DEF Call

LEMMA TypeStep == TypeOK /\ CallsSound /\ [Next]_vars => TypeOK'
<1> SUFFICES ASSUME TypeOK, CallsSound, [Next]_vars PROVE TypeOK'
  OBVIOUS
<1>0. CircuitsType /\ FailsType /\ CallsType /\ RestType /\ slow \in BOOLEAN
  BY Types
<1>1. slow' \in BOOLEAN
  BY <1>0 DEF Next, vars
<1>2. ASSUME NEW c \in Callers, Call(c) PROVE TypeOK'
  <2>1. UNCHANGED <<setting, cached, admin, orders>>
    BY <1>2 DEF Call, Resolve, CheckModel, Succeed, Ignore, Fail, Drop, Record, Clear, Release
  <2> QED BY <1>0, <1>1, <1>2, <2>1, CallTypeStep, Types DEF RestType
<1>3. ASSUME NEW p \in Processes, Load(p) \/ Forget(p) PROVE TypeOK'
  <2>1. RestType'
    <3>1. [enabled |-> setting, valid |-> TRUE] \in Beliefs
      BY <1>0 DEF RestType, Beliefs
    <3>2. [cached[p] EXCEPT !.valid = FALSE] \in Beliefs
      BY <1>0 DEF RestType, Beliefs
    <3> QED BY <1>0, <1>3, <3>1, <3>2 DEF Load, Forget, RestType
  <2>2. CircuitsType' /\ FailsType' /\ CallsType'
    BY <1>0, <1>3 DEF Load, Forget, CircuitsType, FailsType, CallsType
  <2> QED BY <1>1, <2>1, <2>2, Types
<1>4. ASSUME NEW s \in Scopes, OpenCircuit(s) PROVE TypeOK'
  <2>1. RestType'
    BY <1>0, <1>4, Numbers DEF OpenCircuit, Order, RestType
  <2>2. CircuitsType'
    BY <1>0, <1>4, CircuitWrites DEF OpenCircuit, CircuitsType
  <2>3. FailsType' /\ CallsType'
    BY <1>0, <1>4 DEF OpenCircuit, FailsType, CallsType
  <2> QED BY <1>1, <2>1, <2>2, <2>3, Types
<1>5. ASSUME NEW s \in Scopes, ResetCircuit(s) PROVE TypeOK'
  BY <1>0, <1>1, <1>5, Types, ClearedType, CircuitBreakerAssumption
     DEF ResetCircuit, Order, CallsType, RestType
<1>6. CASE Enable \/ Disable
  <2>1. RestType'
    <3>1. orders' \in 0..MaxOrders
      <4>1. orders \in 0..MaxOrders /\ (orders' = orders \/ Order)
        BY <1>0, <1>6 DEF Enable, Disable, RestType
      <4> QED BY <4>1, Numbers DEF Order
    <3>2. setting' \in BOOLEAN /\ cached' \in [Processes -> Beliefs]
      <4>1. \/ UNCHANGED <<setting, cached>>
            \/ \E enabled \in BOOLEAN : Stores(enabled)
        BY <1>6 DEF Enable, Disable
      <4>2. \A enabled \in BOOLEAN : [enabled |-> enabled, valid |-> TRUE] \in Beliefs
        BY DEF Beliefs
      <4> QED BY <1>0, <4>1, <4>2 DEF Stores, RestType
    <3>3. admin' \in {"none", "enabling", "disabling"}
      BY <1>6 DEF Enable, Disable
    <3> QED BY <3>1, <3>2, <3>3 DEF RestType
  <2>2. CircuitsType' /\ FailsType'
    BY <1>0, <1>6, ClearsAllType DEF Enable, Disable, CircuitsType, FailsType
  <2>3. CallsType'
    BY <1>0, <1>6 DEF Enable, Disable, CallsType
  <2> QED BY <1>1, <2>1, <2>2, <2>3, Types
<1>7. CASE Tick
  <2>1. CircuitsType'
    BY <1>0, <1>7, CircuitWrites DEF Tick, CircuitsType
  <2>2. FailsType'
    <3> DEFINE older(s) == [a \in 0..Window-1 |-> IF a = 0 THEN 0 ELSE fails[s][a - 1]]
    <3>1. ASSUME NEW s \in Scopes
          PROVE  /\ older(s) \in [0..Window-1 -> Nat]
                 /\ \A a \in 0..Window-1 : older(s)[a] <= Threshold(s)
      <4>1. \A a \in 0..Window-1 : a = 0 \/ a - 1 \in 0..Window-1
        BY Numbers
      <4> QED BY <1>0, <4>1, Numbers DEF FailsType
    <3>2. fails' = [s \in Scopes |-> older(s)]
      BY <1>7 DEF Tick
    <3> HIDE DEF older
    <3> QED BY <3>1, <3>2 DEF FailsType
  <2>3. CallsType'
    <3>1. ASSUME NEW c \in Callers, caller[c].age < ProbeTTL
          PROVE  [caller[c] EXCEPT !.age = @ + 1] \in CallRecord
      BY <1>0, <3>1, Numbers DEF CallsType, CallRecord
    <3> QED BY <1>0, <1>7, <3>1 DEF Tick, CallsType
  <2> QED BY <1>0, <1>1, <1>7, <2>1, <2>2, <2>3, Types DEF Tick, RestType
<1>8. CASE UNCHANGED vars
  BY <1>8 DEF TypeOK, vars, core
<1> QED BY <1>2, <1>3, <1>4, <1>5, <1>6, <1>7, <1>8 DEF Next, Step

-----------------------------------------------------------------------------
(* Calls.                                                                  *)

CallSound(c) ==
  LET call == caller[c] IN
    /\ call.pc # "idle" => call.model \in Models
    /\ call.granted \subseteq {Upstream, call.model}
    /\ call.pc = "idle" => call.granted = {}
    /\ call.pc = "checking" => call.granted \subseteq {Upstream}
    /\ call.pc \in {"succeeded", "ignored"} => call.granted # {}

\* A step of a call changes no other.
LEMMA OthersKept ==
  ASSUME CallsType, NEW c \in Callers, Call(c), NEW d \in Callers \ {c}
  PROVE  caller'[d] = caller[d]
BY DEF Call, Resolve, CheckModel, Succeed, Ignore, Fail, Drop, Record, Clear, Release,
       Reported, Reports, Rest, Moves, CallsType

\* Having reported to one circuit, a call holds its other token, or none and rests.
LEMMA ReportedKeeps ==
  ASSUME CallsType, NEW c \in Callers, Reported(c)
  PROVE  \/ caller'[c] = AtRest
         \/ /\ caller'[c].pc = caller[c].pc /\ caller'[c].model = caller[c].model
            /\ caller'[c].age = caller[c].age
            /\ caller'[c].granted = caller[c].granted \ {Next_(c)}
            /\ caller'[c].granted # {}
BY DEF Reported, Rest, CallsType, CallRecord

\* Every other report of a call ends it or keeps its tokens.
LEMMA ReportKeeps ==
  ASSUME CallsType, NEW c \in Callers
  PROVE  /\ Rest(c) => caller'[c] = AtRest
         /\ \A stage \in CallStages : Moves(c, stage) =>
              /\ caller'[c].pc = stage /\ caller'[c].model = caller[c].model
              /\ caller'[c].age = caller[c].age /\ caller'[c].granted = caller[c].granted
         /\ \A stage \in CallStages : Reports(c, stage) =>
              IF caller[c].granted = {} THEN Rest(c) ELSE Moves(c, stage)
BY DEF Reports, Moves, Rest, CallsType, CallRecord

LEMMA CallSoundStep ==
  ASSUME CallsType, NEW c \in Callers, CallSound(c), Call(c)
  PROVE  CallSound(c)'
<1>0. ASSUME caller'[c] = AtRest PROVE CallSound(c)'
  BY <1>0 DEF CallSound, AtRest
<1>1. ASSUME NEW m \in Models, Resolve(c, m) PROVE CallSound(c)'
  <2>1. \/ caller'[c] = [pc |-> "calling", model |-> m, granted |-> {}, age |-> 0]
        \/ caller'[c] = [pc |-> "checking", model |-> m, granted |-> Grants(Upstream), age |-> 0]
    BY <1>1 DEF Resolve, CallsType
  <2>2. Grants(Upstream) \subseteq {Upstream}
    BY DEF Grants
  <2> QED BY <2>1, <2>2 DEF CallSound
<1>2. CASE CheckModel(c)
  <2>1. CASE Reports(c, "ignored")
    BY <1>0, <1>2, <2>1, ReportKeeps DEF CheckModel, CallSound, CallStages
  <2>2. CASE caller' = [caller EXCEPT ![c].pc = "calling",
                                      ![c].granted = @ \cup Grants(caller[c].model)]
    <3>1. /\ caller'[c].pc = "calling" /\ caller'[c].model = caller[c].model
          /\ caller'[c].granted = caller[c].granted \cup Grants(caller[c].model)
      BY <2>2 DEF CallsType, CallRecord
    <3> QED BY <1>2, <3>1 DEF CheckModel, CallSound, Grants
  <2> QED BY <1>2, <2>1, <2>2 DEF CheckModel
<1>3. CASE Succeed(c) \/ Ignore(c) \/ Fail(c) \/ Drop(c) \/ Record(c)
  <2>1. CASE Rest(c)
    BY <1>0, <2>1, ReportKeeps
  <2>2. CASE Moves(c, "recording")
    BY <1>3, <2>2, ReportKeeps DEF Succeed, Ignore, Fail, Drop, Record, CallSound, CallStages
  <2>3. ASSUME NEW stage \in {"succeeded", "ignored"}, Moves(c, stage), caller[c].granted # {},
               caller[c].pc = "calling"
        PROVE  CallSound(c)'
    BY <2>3, ReportKeeps DEF CallSound, CallStages
  <2> QED BY <1>3, <2>1, <2>2, <2>3, ReportKeeps
          DEF Succeed, Ignore, Fail, Drop, Record, CallStages
<1>4. CASE Clear(c) \/ Release(c)
  BY <1>0, <1>4, ReportedKeeps DEF Clear, Release, CallSound
<1> QED BY <1>1, <1>2, <1>3, <1>4 DEF Call

LEMMA CallsStep == TypeOK /\ CallsSound /\ [Next]_vars => CallsSound'
<1> SUFFICES ASSUME TypeOK, CallsSound, [Next]_vars PROVE CallsSound'
  OBVIOUS
<1>0. CallsType /\ CallsType' /\ \A c \in Callers : CallSound(c)
  BY Types, TypeStep DEF CallsSound, CallSound
<1>1. ASSUME NEW c \in Callers PROVE CallSound(c)'
  <2>1. CASE caller'[c] = caller[c]
    BY <1>0, <2>1 DEF CallSound
  <2>2. CASE Call(c)
    BY <1>0, <2>2, CallSoundStep
  <2>3. ASSUME NEW d \in Callers \ {c}, Call(d) PROVE caller'[c] = caller[c]
    BY <1>0, <2>3, OthersKept
  <2>4. CASE Tick
    <3>1. /\ caller'[c].pc = caller[c].pc /\ caller'[c].model = caller[c].model
          /\ caller'[c].granted = caller[c].granted
      BY <1>0, <2>4 DEF Tick, CallsType, CallRecord
    <3> QED BY <1>0, <3>1 DEF CallSound
  <2>5. CASE UNCHANGED caller
    BY <2>1, <2>5
  <2> QED BY <2>1, <2>2, <2>3, <2>4, <2>5
          DEF Next, Step, Load, Forget, OpenCircuit, ResetCircuit, Enable, Disable, vars, core
<1>2. ASSUME ~slow', NEW c \in Callers PROVE caller'[c].age < ProbeTTL
  <2>1. CASE UNCHANGED vars
    BY <1>2, <2>1 DEF CallsSound, vars, core
  <2>2. CASE Next
    <3>1. caller'[c].age # ProbeTTL
      BY <1>2, <2>2, Zenon DEF Next
    <3>2. caller'[c].age \in 0..ProbeTTL
      BY <1>0 DEF CallsType, CallRecord
    <3> QED BY <3>1, <3>2, Numbers
  <2> QED BY <2>1, <2>2
<1> QED BY <1>1, <1>2 DEF CallsSound, CallSound

-----------------------------------------------------------------------------
(* Circuits.                                                               *)

\* What a unit of time leaves of a circuit.
Less(n) == IF n > 0 THEN n - 1 ELSE 0
Ends(c) == c.manual /\ Less(c.until) <= ProbeTTL

LEMMA ElapsedIs ==
  ASSUME NEW c
  PROVE  /\ Elapsed(c).until = IF Ends(c) THEN 0 ELSE Less(c.until)
         /\ Elapsed(c).manual = (c.manual /\ ~Ends(c))
         /\ Elapsed(c).probe = Less(c.probe)
BY DEF Elapsed, Ends, Less

\* No failure opens the upstream.
NeverTrips == BothNeeded /\ OpenModels = 0 /\ UpstreamThreshold = 0

CircuitSound(s) ==
  /\ circuit[s].manual => IsOpen(s)
  /\ s = Upstream /\ NeverTrips => circuit[s].until = 0 \/ circuit[s].manual

\* What a check leaves: the circuit as it was, but for the token.
LEMMA CheckKeeps ==
  ASSUME CircuitsType, NEW s \in Scopes, NEW t \in Scopes, circuit' = AfterCheck(s)
  PROVE  /\ circuit'[t].until = circuit[t].until /\ circuit'[t].manual = circuit[t].manual
         /\ s # t => circuit'[t] = circuit[t]
BY DEF AfterCheck, CircuitsType, Circuit

LEMMA CircuitSoundStep ==
  ASSUME TypeOK, CallsSound, CircuitsSound, Next, NEW s \in Scopes
  PROVE  CircuitSound(s)'
<1>0. CircuitsType /\ FailsType /\ CallsType /\ CircuitSound(s)
  BY Types DEF CircuitsSound, CircuitSound, NeverTrips
<1>1. ASSUME circuit'[s].until = circuit[s].until, circuit'[s].manual = circuit[s].manual
      PROVE  CircuitSound(s)'
  BY <1>0, <1>1 DEF CircuitSound, IsOpen
<1>2. ASSUME circuit'[s] = Closed PROVE CircuitSound(s)'
  BY <1>2 DEF CircuitSound, Closed
<1>3. ASSUME NEW c \in Callers, Call(c) PROVE CircuitSound(s)'
  <2>1. ASSUME NEW m \in Models, Resolve(c, m) PROVE CircuitSound(s)'
    BY <1>0, <1>1, <2>1, CheckKeeps, Numbers DEF Resolve
  <2>2. CASE CheckModel(c)
    BY <1>0, <1>1, <2>2, CheckKeeps DEF CheckModel, CallsType, CallRecord
  <2>3. CASE Succeed(c) \/ Ignore(c) \/ Fail(c) \/ Drop(c)
    BY <1>1, <2>3 DEF Succeed, Ignore, Fail, Drop
  <2>4. CASE Record(c)
    <3> DEFINE m == caller[c].model
    <3>1. m \in Models /\ RecordFailure(m)
      BY <2>4 DEF Record, CallsSound
    <3>2. CASE s = m
      <4>1. circuit'[s] = Tripped(circuit[s], Met(m))
        BY <1>0, <3>1, <3>2, FailureRecorded
      <4>2. s # Upstream
        BY <3>1, <3>2, Numbers
      <4> QED BY <1>0, <4>1, <4>2 DEF CircuitSound, IsOpen, Tripped, CircuitsType, Circuit
    <3>3. CASE s = Upstream
      <4>1. PICK trips \in BOOLEAN : circuit'[s] = Tripped(circuit[s], trips) /\ (NeverTrips => ~trips)
        BY <1>0, <3>1, <3>3, FailureRecorded DEF NeverTrips
      <4> QED BY <1>0, <4>1 DEF CircuitSound, IsOpen, Tripped, CircuitsType, Circuit
    <3>4. CASE s # m /\ s # Upstream
      BY <1>0, <1>1, <3>1, <3>4, FailureRecorded
    <3> QED BY <3>2, <3>3, <3>4
  <2>5. CASE Clear(c)
    BY <1>0, <1>1, <1>2, <2>5 DEF Clear, Cleared, CircuitsType
  <2>6. CASE Release(c)
    BY <1>0, <1>1, <2>6 DEF Release, CircuitsType, Circuit
  <2> QED BY <1>3, <2>1, <2>2, <2>3, <2>4, <2>5, <2>6 DEF Call
<1>4. ASSUME NEW t \in Scopes, OpenCircuit(t) PROVE CircuitSound(s)'
  BY <1>0, <1>1, <1>4, Numbers DEF OpenCircuit, Opened, CircuitSound, IsOpen, CircuitsType
<1>5. ASSUME NEW t \in Scopes, ResetCircuit(t) PROVE CircuitSound(s)'
  BY <1>0, <1>1, <1>2, <1>5 DEF ResetCircuit, Cleared, CircuitsType
<1>6. CASE Enable \/ Disable
  BY <1>1, <1>2, <1>6 DEF Enable, Disable, ClearsAll
<1>7. CASE Tick
  <2>1. circuit'[s] = Elapsed(circuit[s])
    BY <1>7 DEF Tick
  <2>2. circuit[s].until \in Nat /\ circuit[s].manual \in BOOLEAN
    BY <1>0, Numbers DEF CircuitsType, Circuit
  <2>3. /\ circuit'[s].until = IF Ends(circuit[s]) THEN 0 ELSE Less(circuit[s].until)
        /\ circuit'[s].manual = (circuit[s].manual /\ ~Ends(circuit[s]))
    BY <2>1, ElapsedIs
  <2>4. circuit[s].until = 0 /\ ~circuit[s].manual => circuit'[s].until = 0
    BY <2>3 DEF Ends, Less
  <2>5. circuit'[s].manual => circuit'[s].until > ProbeTTL
    <3>1. circuit'[s].manual => ~Ends(circuit[s]) /\ circuit[s].manual
      BY <2>3, Zenon
    <3>2. circuit[s].manual /\ ~Ends(circuit[s]) => Less(circuit[s].until) > ProbeTTL
      BY <2>2, Numbers DEF Ends, Less
    <3>3. ~Ends(circuit[s]) => circuit'[s].until = Less(circuit[s].until)
      BY <2>3, Zenon
    <3> QED BY <3>1, <3>2, <3>3
  <2>6. circuit[s].manual => circuit'[s].until = 0 \/ circuit'[s].manual
    BY <2>3
  <2> QED BY <1>0, <2>4, <2>5, <2>6 DEF CircuitSound, IsOpen
<1>8. ASSUME NEW p \in Processes, Load(p) \/ Forget(p) PROVE CircuitSound(s)'
  BY <1>1, <1>8 DEF Load, Forget
<1> QED BY <1>3, <1>4, <1>5, <1>6, <1>7, <1>8 DEF Next, Step

LEMMA CircuitsStep == TypeOK /\ CallsSound /\ CircuitsSound /\ [Next]_vars => CircuitsSound'
<1> SUFFICES ASSUME TypeOK, CallsSound, CircuitsSound, [Next]_vars PROVE CircuitsSound'
  OBVIOUS
<1>1. CASE Next
  BY <1>1, CircuitSoundStep, Numbers DEF CircuitsSound, CircuitSound, NeverTrips
<1>2. CASE UNCHANGED vars
  BY <1>2 DEF CircuitsSound, IsOpen, vars, core
<1> QED BY <1>1, <1>2

-----------------------------------------------------------------------------
(* Tokens.                                                                 *)

\* The circuit grants no token for at least the time a token lasts.
Safe(s) == Covered(s, ProbeTTL)

LEMMA SafeCovers ==
  ASSUME CircuitsType', CallsType', NEW s \in Scopes, Safe(s)', NEW c \in Callers
  PROVE  Covered(s, ProbeTTL - caller[c].age)'
BY Numbers DEF Safe, Covered, CircuitsType, Circuit, CallsType, CallRecord

\* What Covered says of one circuit is all TokensSound needs to know of it.
LEMMA CoverKept ==
  ASSUME NEW s, circuit'[s] = circuit[s], NEW time, Covered(s, time)
  PROVE  Covered(s, time)'
BY DEF Covered

\* Nobody holds a token of a circuit that grants one.
LEMMA GrantsOnce ==
  ASSUME TypeOK, CallsSound, CircuitsSound, TokensSound, ~slow,
         NEW s \in Scopes, ~Forgets(s), State(s) = "granted", NEW d \in Callers
  PROVE  s \notin caller[d].granted
<1>1. circuit[s].until \in 1..ProbeTTL /\ circuit[s].probe = 0 /\ ~circuit[s].manual
  BY Types, Numbers DEF State, IsOpen, IsHalfOpen, CircuitsSound, CircuitsType, Circuit
<1>2. caller[d].age \in 0..ProbeTTL-1
  BY Types, Numbers DEF CallsSound, CallsType, CallRecord
<1> QED BY <1>1, <1>2, Numbers DEF TokensSound, Covered

\* A circuit that a check lets a call through is safe, if it gave a token.
LEMMA CheckCovers ==
  ASSUME CircuitsType, NEW s \in Scopes, circuit' = AfterCheck(s), NEW t \in Scopes
  PROVE  \/ circuit'[t] = circuit[t] /\ t \notin Grants(s)
         \/ Safe(t)' /\ t = s
BY Numbers DEF AfterCheck, Grants, Safe, Covered, State, IsOpen, IsHalfOpen, CircuitsType, Circuit

\* TokensSound for one circuit.
TokenSound(s) ==
  \A c \in Callers : s \in caller[c].granted =>
    Covered(s, ProbeTTL - caller[c].age) /\ \A d \in Callers : s \in caller[d].granted => d = c

\* It is kept by a step that hands out no token of the circuit and leaves it as it was,
\* or safe.
LEMMA TokenKept ==
  ASSUME CircuitsType', CallsType', NEW s \in Scopes, TokenSound(s),
         \A c \in Callers : s \in caller'[c].granted =>
           s \in caller[c].granted /\ caller'[c].age = caller[c].age,
         circuit'[s] = circuit[s] \/ Safe(s)'
  PROVE  TokenSound(s)'
BY SafeCovers DEF TokenSound, Covered

\* A failure takes the token of a circuit that it opens only.
LEMMA FailureCovers ==
  ASSUME CircuitsType, FailsType, NEW m \in Models, RecordFailure(m), CircuitsSound,
         NEW s \in Scopes, ~Forgets(s)
  PROVE  circuit'[s] = circuit[s] \/ Safe(s)'
<1>1. ASSUME NEW trips \in BOOLEAN, circuit'[s] = Tripped(circuit[s], trips),
             ~trips => circuit[s].probe = 0 \/ circuit[s].until = 0 \/ circuit[s].manual
      PROVE  circuit'[s] = circuit[s] \/ Safe(s)'
  BY <1>1, Numbers DEF Tripped, Safe, Covered, CircuitsType, Circuit
<1>2. ~Met(s) => circuit[s].probe = 0
  BY Numbers DEF Met, CircuitsType, Circuit
<1>3. CASE s = m
  <2>1. circuit'[s] = Tripped(circuit[s], Met(m)) /\ Met(m) \in BOOLEAN
    BY <1>3, FailureRecorded DEF Met
  <2> QED BY <1>1, <1>2, <1>3, <2>1
<1>4. CASE s = Upstream
  <2>1. PICK trips \in BOOLEAN :
          /\ circuit'[s] = Tripped(circuit[s], trips)
          /\ Met(s) /\ ~(BothNeeded /\ (OpenModels > 0 \/ UpstreamThreshold = 0)) => trips
    BY <1>4, FailureRecorded
  <2>2. BothNeeded => OpenModels = 0
    BY <1>4, Numbers DEF Forgets
  <2>3. ~trips => circuit[s].probe = 0 \/ circuit[s].until = 0 \/ circuit[s].manual
    BY <1>2, <1>4, <2>1, <2>2, Numbers DEF CircuitsSound
  <2> QED BY <1>1, <2>1, <2>3
<1>5. CASE s # m /\ s # Upstream
  BY <1>5, FailureRecorded
<1> QED BY <1>3, <1>4, <1>5

\* The steps of one call.
LEMMA TokenOfCall ==
  ASSUME CircuitInvariant, CircuitsType', CallsType', ~slow,
         NEW s \in Scopes, ~Forgets(s), TokenSound(s), NEW c \in Callers, Call(c)
  PROVE  TokenSound(s)'
<1>0. /\ TypeOK /\ CallsSound /\ CircuitsSound /\ TokensSound
      /\ CircuitsType /\ FailsType /\ CallsType
  BY Types DEF CircuitInvariant
<1>1. \A d \in Callers \ {c} : caller'[d] = caller[d]
  BY <1>0, OthersKept
<1>2. ASSUME s \in caller'[c].granted => s \in caller[c].granted /\ caller'[c].age = caller[c].age,
             circuit'[s] = circuit[s] \/ Safe(s)'
      PROVE  TokenSound(s)'
  BY <1>1, <1>2, TokenKept
<1>3. ASSUME s \notin caller'[c].granted, circuit'[s] = circuit[s] \/ Safe(s)' PROVE TokenSound(s)'
  BY <1>2, <1>3
<1>4. ASSUME caller'[c] = AtRest PROVE s \notin caller'[c].granted
  BY <1>4 DEF AtRest
\* A call that is granted a token of s holds it alone.
<1>5. ASSUME State(s) = "granted", Safe(s)' PROVE TokenSound(s)'
  <2>1. \A d \in Callers : s \in caller'[d].granted => d = c
    BY <1>0, <1>1, <1>5, GrantsOnce
  <2> QED BY <1>5, <2>1, SafeCovers DEF TokenSound
<1>6. ASSUME NEW t \in Scopes, circuit' = AfterCheck(t),
             caller'[c].granted \subseteq caller[c].granted \cup Grants(t),
             caller'[c].granted = {} \/ caller'[c].age = caller[c].age \/ caller[c].granted = {}
      PROVE  TokenSound(s)'
  <2>1. \/ circuit'[s] = circuit[s] /\ s \notin Grants(t)
        \/ Safe(s)' /\ s = t
    BY <1>0, <1>6, CheckCovers
  <2>2. CASE s \in Grants(t)
    <3>1. State(s) = "granted" /\ Safe(s)'
      BY <2>1, <2>2 DEF Grants
    <3> QED BY <1>5, <3>1
  <2>3. CASE s \notin Grants(t)
    <3>1. s \in caller'[c].granted => s \in caller[c].granted /\ caller'[c].age = caller[c].age
      BY <1>6, <2>3
    <3> QED BY <1>2, <2>1, <3>1
  <2> QED BY <2>2, <2>3
<1>7. ASSUME NEW m \in Models, Resolve(c, m) PROVE TokenSound(s)'
  <2>1. \/ /\ circuit' = circuit
           /\ caller'[c] = [pc |-> "calling", model |-> m, granted |-> {}, age |-> 0]
        \/ /\ circuit' = AfterCheck(Upstream)
           /\ caller'[c] = [pc |-> "checking", model |-> m, granted |-> Grants(Upstream), age |-> 0]
    BY <1>0, <1>7 DEF Resolve, CallsType
  <2>2. caller[c].granted = {}
    BY <1>0, <1>7 DEF Resolve, CallsSound
  <2>3. CASE circuit' = circuit /\ caller'[c].granted = {}
    BY <1>3, <2>3
  <2>4. CASE circuit' = AfterCheck(Upstream) /\ caller'[c].granted = Grants(Upstream)
    BY <1>6, <2>2, <2>4, Numbers
  <2> QED BY <2>1, <2>3, <2>4
<1>8. CASE CheckModel(c)
  <2> DEFINE m == caller[c].model
  <2>1. m \in Scopes /\ circuit' = AfterCheck(m)
    BY <1>0, <1>8 DEF CheckModel, CallsType, CallRecord
  <2>2. CASE Reports(c, "ignored")
    <3>1. caller'[c] = AtRest \/ (caller'[c].granted = caller[c].granted /\ caller'[c].age = caller[c].age)
      BY <1>0, <2>2, ReportKeeps DEF CallStages
    <3> QED BY <1>6, <2>1, <3>1 DEF AtRest
  <2>3. CASE caller' = [caller EXCEPT ![c].pc = "calling", ![c].granted = @ \cup Grants(m)]
    <3>1. caller'[c].granted = caller[c].granted \cup Grants(m) /\ caller'[c].age = caller[c].age
      BY <1>0, <2>3 DEF CallsType, CallRecord
    <3> QED BY <1>6, <2>1, <3>1
  <2> QED BY <1>8, <2>2, <2>3 DEF CheckModel
<1>9. CASE Succeed(c) \/ Ignore(c) \/ Fail(c) \/ Drop(c) \/ Record(c)
  <2>1. caller'[c] = AtRest \/ (caller'[c].granted = caller[c].granted /\ caller'[c].age = caller[c].age)
    BY <1>0, <1>9, ReportKeeps DEF Succeed, Ignore, Fail, Drop, Record, CallStages
  <2>2. circuit'[s] = circuit[s] \/ Safe(s)'
    <3>1. CASE Record(c)
      <4>1. caller[c].model \in Models /\ RecordFailure(caller[c].model)
        BY <1>0, <3>1 DEF Record, CallsSound
      <4> QED BY <1>0, <4>1, FailureCovers
    <3> QED BY <1>9, <3>1 DEF Succeed, Ignore, Fail, Drop
  <2> QED BY <1>2, <1>4, <2>1, <2>2
\* Who reports to a circuit held its token, alone, and gives it back.
<1>10. CASE Clear(c) \/ Release(c)
  <2>1. Next_(c) \in Scopes /\ Next_(c) \in caller[c].granted
    BY <1>0, <1>10, NextScope DEF Clear, Release
  <2>2. /\ Next_(c) \notin caller'[c].granted
        /\ \/ caller'[c].granted = {}
           \/ caller'[c].granted \subseteq caller[c].granted /\ caller'[c].age = caller[c].age
    BY <1>0, <1>10, ReportedKeeps DEF Clear, Release, AtRest
  <2>3. CASE s # Next_(c)
    <3>1. circuit'[s] = circuit[s]
      BY <1>0, <1>10, <2>1, <2>3 DEF Clear, Cleared, Release, CircuitsType
    <3> QED BY <1>2, <2>2, <3>1
  <2>4. CASE s = Next_(c)
    <3>1. \A d \in Callers : s \notin caller'[d].granted
      BY <1>1, <2>1, <2>2, <2>4 DEF TokenSound
    <3> QED BY <3>1 DEF TokenSound
  <2> QED BY <2>3, <2>4
<1> QED BY <1>7, <1>8, <1>9, <1>10 DEF Call

LEMMA TokenOfTick ==
  ASSUME CircuitInvariant, CircuitsType', CallsType', ~slow,
         NEW s \in Scopes, TokenSound(s), Tick
  PROVE  TokenSound(s)'
<1>0. CircuitsType /\ CallsType /\ CallsSound
  BY Types DEF CircuitInvariant
<1>1. ASSUME NEW c \in Callers
      PROVE  /\ caller'[c].granted = caller[c].granted
             /\ s \in caller[c].granted => caller'[c].age = caller[c].age + 1
  <2>1. caller[c].age < ProbeTTL
    BY <1>0 DEF CallsSound
  <2> QED BY <1>0, <2>1 DEF Tick, CallsType, CallRecord
<1>2. ASSUME NEW c \in Callers, s \in caller[c].granted
      PROVE  Covered(s, ProbeTTL - caller[c].age)'
  <2>1. /\ circuit[s].until \in Nat /\ circuit[s].manual \in BOOLEAN /\ circuit[s].probe \in Nat
        /\ caller[c].age \in Nat /\ caller[c].age < ProbeTTL
    BY <1>0, Numbers DEF CircuitsType, Circuit, CallsType, CallRecord, CallsSound
  <2>2. Covered(s, ProbeTTL - caller[c].age)
    BY <1>2 DEF TokenSound
  <2>3. circuit'[s] = Elapsed(circuit[s])
    BY DEF Tick
  <2>4. /\ circuit'[s].until = IF Ends(circuit[s]) THEN 0 ELSE Less(circuit[s].until)
        /\ circuit'[s].manual = (circuit[s].manual /\ ~Ends(circuit[s]))
        /\ circuit'[s].probe = Less(circuit[s].probe)
    BY <2>3, ElapsedIs
  <2>5. CASE circuit[s].manual
    BY <2>4, <2>5 DEF Covered
  <2>6. CASE ~circuit[s].manual
    <3>1. circuit'[s].until = Less(circuit[s].until)
      BY <2>4, <2>6 DEF Ends
    <3> QED BY <1>1, <1>2, <2>1, <2>2, <2>4, <2>6, <3>1, Numbers DEF Covered, Less
  <2> QED BY <2>5, <2>6
<1> QED BY <1>1, <1>2 DEF TokenSound

LEMMA TokensStep == CircuitInvariant /\ [Next]_vars => TokensSound'
<1> SUFFICES ASSUME CircuitInvariant, [Next]_vars, ~slow', NEW s \in Scopes, ~Forgets(s)
             PROVE  TokenSound(s)'
  BY DEF TokensSound, TokenSound, Forgets
<1>0. TypeOK /\ CircuitsType /\ CallsType /\ CircuitsType' /\ CallsType' /\ CallsSound /\ CircuitsSound
  BY Types, TypeStep DEF CircuitInvariant
<1>1. ~slow
  BY <1>0, Types DEF Next, vars
<1>2. TokenSound(s)
  BY <1>1 DEF CircuitInvariant, TokensSound, TokenSound
<1>3. ASSUME UNCHANGED caller, circuit'[s] = circuit[s] \/ Safe(s)' PROVE TokenSound(s)'
  BY <1>0, <1>2, <1>3, TokenKept
<1>4. ASSUME UNCHANGED caller, circuit'[s] = Closed PROVE TokenSound(s)'
  BY <1>3, <1>4 DEF Safe, Covered, Closed
<1>5. ASSUME NEW c \in Callers, Call(c) PROVE TokenSound(s)'
  BY <1>0, <1>1, <1>2, <1>5, TokenOfCall
<1>6. CASE Tick
  BY <1>0, <1>1, <1>2, <1>6, TokenOfTick
<1>7. ASSUME NEW t \in Scopes, OpenCircuit(t) PROVE TokenSound(s)'
  <2>1. circuit'[s] = circuit[s] \/ circuit'[s].manual
    BY <1>0, <1>7 DEF OpenCircuit, Opened, CircuitsType
  <2> QED BY <1>3, <1>7, <2>1 DEF OpenCircuit, Safe, Covered
<1>8. ASSUME NEW t \in Scopes, ResetCircuit(t) PROVE TokenSound(s)'
  BY <1>0, <1>3, <1>4, <1>8 DEF ResetCircuit, Cleared, CircuitsType
<1>9. CASE Enable \/ Disable
  BY <1>3, <1>4, <1>9 DEF Enable, Disable, ClearsAll
<1>10. ASSUME NEW p \in Processes, Load(p) \/ Forget(p) PROVE TokenSound(s)'
  BY <1>3, <1>10 DEF Load, Forget
<1>11. CASE UNCHANGED vars
  BY <1>3, <1>11 DEF vars, core
<1> QED BY <1>5, <1>6, <1>7, <1>8, <1>9, <1>10, <1>11 DEF Next, Step

-----------------------------------------------------------------------------
LEMMA InvariantInit == Init => CircuitInvariant
<1> SUFFICES ASSUME Init PROVE CircuitInvariant
  OBVIOUS
<1>1. \A c \in Callers : caller[c] = AtRest
  BY DEF Init
<1>2. CallsSound
  BY <1>1, Numbers DEF CallsSound, AtRest
<1>3. CircuitsSound
  BY Numbers DEF Init, CircuitsSound, Closed
<1>4. TokensSound
  BY <1>1 DEF TokensSound, AtRest
<1> QED BY <1>2, <1>3, <1>4, TypeInit DEF CircuitInvariant

LEMMA InvariantStep == CircuitInvariant /\ [Next]_vars => CircuitInvariant'
BY TypeStep, CallsStep, CircuitsStep, TokensStep DEF CircuitInvariant

\* Of the calls that hold a token of a circuit there is at most one.
LEMMA InvariantImplies == CircuitInvariant => CircuitSafety
<1> SUFFICES ASSUME CircuitInvariant, ~slow, NEW s \in Scopes, ~Forgets(s)
             PROVE  Cardinality({c \in Callers : s \in caller[c].granted}) <= 1
  BY DEF CircuitInvariant, CircuitSafety, OneProbe
<1> DEFINE Holders == {c \in Callers : s \in caller[c].granted}
<1> SUFFICES Cardinality(Holders) <= 1
  OBVIOUS
<1>1. CASE Holders = {}
  <2>1. Cardinality(Holders) = 0
    BY <1>1, FS_EmptySet, Zenon
  <2> QED BY <2>1
<1>2. ASSUME NEW c \in Holders PROVE Cardinality(Holders) <= 1
  <2>1. Holders = {c}
    BY <1>2 DEF CircuitInvariant, TokensSound
  <2>2. Cardinality(Holders) = 1
    BY <2>1, FS_Singleton, Zenon
  <2> QED BY <2>2
<1> QED BY <1>1, <1>2

\* As long as calls that probe report before their token lapses, no two of them probe
\* the same circuit (checkCircuit, ClearUpstreamCircuit, RecordCircuitFailure,
\* ReleaseRouteProbes in memory and in Redis), but for the exception OneProbe names.
THEOREM CircuitSafetyCorrect == Spec => []CircuitSafety
<1>1. Spec => []CircuitInvariant
  BY InvariantInit, InvariantStep, PTL DEF Spec
<1> QED BY <1>1, InvariantImplies, PTL

-----------------------------------------------------------------------------
(* Sessions: SessionRotation. *)

LEMMA Times ==
  Losses \in Nat /\ Grace \in Nat /\ TTL \in Nat /\ MaxTime \in Nat /\ MaxTokens \in Nat \ {0}
  /\ Grace < TTL
BY RotationAssumption

\* Records stay what they are whatever member of its set a field is given.
LEMMA FieldsWritten ==
  ASSUME NEW A, NEW B, NEW C, NEW D, NEW E
  PROVE  \A q \in [at : A, heard : B, token : C, new : D, now : E],
            a \in A, b \in B, d \in D, e \in E :
           /\ [q EXCEPT !.at = a, !.new = d] \in [at : A, heard : B, token : C, new : D, now : E]
           /\ [q EXCEPT !.at = a, !.now = e] \in [at : A, heard : B, token : C, new : D, now : E]
           /\ [q EXCEPT !.at = a] \in [at : A, heard : B, token : C, new : D, now : E]
           /\ [q EXCEPT !.heard = b] \in [at : A, heard : B, token : C, new : D, now : E]
OBVIOUS

LEMMA RowIs ==
  ASSUME NEW A, NEW B, NEW C, NEW D
  PROVE  /\ \A a \in A, b \in B, c \in C, d \in D :
              [current |-> a, previous |-> b, rotatedAt |-> c, revoked |-> d]
                \in [current : A, previous : B, rotatedAt : C, revoked : D]
         /\ \A v \in [current : A, previous : B, rotatedAt : C, revoked : D], d \in D :
              [v EXCEPT !.revoked = d] \in [current : A, previous : B, rotatedAt : C, revoked : D]
OBVIOUS

\* What is under way is a request, and what a handler makes of it is one.
LEMMA RequestWrites ==
  ASSUME NEW q \in Request
  PROVE  /\ q # Idle /\ q.at \in Stages /\ q.at # "idle"
         /\ q.token \in 1..MaxTokens /\ q.new \in 0..MaxTokens /\ q.heard \in BOOLEAN
         /\ q.now \in 0..MaxTime
         /\ \A at \in Stages, new \in 0..MaxTokens :
              [q EXCEPT !.at = at, !.new = new] \in Request
         /\ \A at \in Stages, now \in 0..MaxTime :
              [q EXCEPT !.at = at, !.now = now] \in Request
         /\ \A at \in Stages : [q EXCEPT !.at = at] \in Request
         /\ [q EXCEPT !.heard = FALSE] \in Request
<1>1. /\ q.at \in Stages /\ q.token \in 1..MaxTokens /\ q.new \in 0..MaxTokens /\ q.heard \in BOOLEAN
      /\ q.now \in 0..MaxTime
  BY DEF Request
<1>2. q.at # "idle" /\ q # Idle
  BY <1>1 DEF Stages, Idle
<1> QED BY <1>1, <1>2, FieldsWritten DEF Request

\* A handler answers with a token, to nobody if the browser does not listen.
LEMMA AnswerWrites ==
  ASSUME SessionTypeOK, NEW r \in Requests, request[r] \in Request,
         NEW token \in 0..MaxTokens, Answer(r, token)
  PROVE  \E v \in {Idle} \cup Request :
           /\ request' = [request EXCEPT ![r] = v]
           /\ request[r].heard => v.at = "answered" /\ v.new = token
           /\ ~request[r].heard => v = Idle
<1> DEFINE v == IF request[r].heard
                THEN [request[r] EXCEPT !.at = "answered", !.new = token] ELSE Idle
<1>1. request' = [request EXCEPT ![r] = v]
  BY DEF Answer
<1>2. v \in {Idle} \cup Request
  BY RequestWrites DEF Stages
<1>3. request[r].heard => v.at = "answered" /\ v.new = token
  BY DEF Request
<1> QED BY <1>1, <1>2, <1>3

LEMMA SessionTypeInit == SessionInit => SessionTypeOK
<1> SUFFICES ASSUME SessionInit PROVE SessionTypeOK
  OBVIOUS
<1>1. row \in Row /\ expires \in [1..MaxTokens -> 0..(MaxTime + TTL)]
  <2>1. 1 \in 1..MaxTokens /\ 0 \in 0..MaxTokens /\ 0 \in 0..MaxTime /\ FALSE \in BOOLEAN
        /\ TTL \in 0..(MaxTime + TTL)
    BY Times
  <2> QED BY <2>1, RowIs DEF SessionInit, Row
<1>2. /\ cookie \in 0..MaxTokens /\ issued \in 1..MaxTokens
      /\ lost \in 0..Losses /\ clock \in 0..MaxTime
  BY Times DEF SessionInit
<1>3. signedOut \in BOOLEAN /\ astray \in BOOLEAN /\ request \in [Requests -> {Idle} \cup Request]
  BY DEF SessionInit
<1> QED BY <1>1, <1>2, <1>3 DEF SessionTypeOK

\* What a step makes of the requests.
LEMMA RequestsWritten ==
  ASSUME SessionTypeOK, SessionNext
  PROVE  \/ UNCHANGED request
         \/ \E r \in Requests, v \in {Idle} \cup Request : request' = [request EXCEPT ![r] = v]
<1> USE DEF SessionTypeOK
<1>1. ASSUME NEW r \in Requests,
             Check(r) \/ ReadClock(r) \/ Rotate(r) \/ Refuse(r) \/ EndRefresh(r) \/ FailRefresh(r) \/ Lose(r)
      PROVE  request[r] \in Request
  BY <1>1 DEF Check, ReadClock, Rotate, Refuse, EndRefresh, FailRefresh, Lose, UnderWay, Heard, Hears, Idle
<1>2. ASSUME NEW r \in Requests, Send(r)
      PROVE  \E v \in {Idle} \cup Request : request' = [request EXCEPT ![r] = v]
  <2>1. [at |-> "sent", heard |-> TRUE, token |-> cookie, new |-> 0, now |-> 0] \in Request
    BY <1>2, Times DEF Send, Request, Stages
  <2> QED BY <1>2, <2>1 DEF Send
<1>3. ASSUME NEW r \in Requests, Receive(r)
      PROVE  \E v \in {Idle} \cup Request : request' = [request EXCEPT ![r] = v]
  BY <1>3 DEF Receive
<1>4. ASSUME NEW r \in Requests, Lose(r)
      PROVE  \E v \in {Idle} \cup Request : request' = [request EXCEPT ![r] = v]
  BY <1>1, <1>4, RequestWrites DEF Lose
<1>5. ASSUME NEW r \in Requests, Check(r)
      PROVE  \E v \in {Idle} \cup Request : request' = [request EXCEPT ![r] = v]
  <2>1. CASE request' = [request EXCEPT ![r].at = "checked"]
    <3>1. [request[r] EXCEPT !.at = "checked"] \in Request
      BY <1>1, <1>5, RequestWrites DEF Stages
    <3> QED BY <2>1, <3>1
  <2>2. CASE Answer(r, 0)
    BY <1>1, <1>5, <2>2, Times, AnswerWrites
  <2> QED BY <1>5, <2>1, <2>2 DEF Check
<1>10. ASSUME NEW r \in Requests, ReadClock(r)
      PROVE  \E v \in {Idle} \cup Request : request' = [request EXCEPT ![r] = v]
  <2>1. [request[r] EXCEPT !.at = "timed", !.now = clock] \in Request
    BY <1>1, <1>10, RequestWrites DEF Stages
  <2>2. request' = [request EXCEPT ![r] = [request[r] EXCEPT !.at = "timed", !.now = clock]]
    BY <1>10 DEF ReadClock
  <2> QED BY <2>1, <2>2
<1>6. ASSUME NEW r \in Requests, Rotate(r)
      PROVE  \E v \in {Idle} \cup Request : request' = [request EXCEPT ![r] = v]
  <2>1. issued + 1 \in 0..MaxTokens
    BY <1>6, Times DEF Rotate
  <2>2. [request[r] EXCEPT !.at = "rotated", !.new = issued + 1] \in Request
    BY <1>1, <1>6, <2>1, RequestWrites DEF Stages
  <2>3. request' = [request EXCEPT ![r] = [request[r] EXCEPT !.at = "rotated", !.new = issued + 1]]
    BY <1>6 DEF Rotate
  <2> QED BY <2>2, <2>3
<1>7. ASSUME NEW r \in Requests, Refuse(r) \/ FailRefresh(r)
      PROVE  \E v \in {Idle} \cup Request : request' = [request EXCEPT ![r] = v]
  <2>1. Answer(r, 0) /\ 0 \in 0..MaxTokens
    BY <1>7, Times DEF Refuse, FailRefresh
  <2> QED BY <1>1, <1>7, <2>1, AnswerWrites
<1>8. ASSUME NEW r \in Requests, EndRefresh(r)
      PROVE  \E v \in {Idle} \cup Request : request' = [request EXCEPT ![r] = v]
  <2>1. Answer(r, request[r].new) /\ request[r].new \in 0..MaxTokens
    BY <1>1, <1>8, RequestWrites DEF EndRefresh
  <2> QED BY <1>1, <1>8, <2>1, AnswerWrites
<1>9. CASE \/ \E here \in BOOLEAN : Logout(here)
           \/ SessionTick
  BY <1>9 DEF Logout, SessionTick
<1> QED BY <1>2, <1>3, <1>4, <1>5, <1>6, <1>7, <1>8, <1>9, <1>10 DEF SessionNext, SessionStep

LEMMA SessionTypeStep == SessionTypeOK /\ [SessionNext]_sessionVars => SessionTypeOK'
<1> SUFFICES ASSUME SessionTypeOK, [SessionNext]_sessionVars
             PROVE  SessionTypeOK'
  OBVIOUS
<1>1. CASE UNCHANGED sessionVars
  BY <1>1 DEF sessionVars, SessionTypeOK
<1>2. CASE SessionNext
  <2>1. request' \in [Requests -> {Idle} \cup Request]
    BY <1>2, RequestsWritten DEF SessionTypeOK
  <2>2. astray' \in BOOLEAN
    BY <1>2 DEF SessionNext
  <2>3. ASSUME NEW r \in Requests,
               \/ Send(r) \/ Receive(r) \/ Lose(r)
               \/ Check(r) \/ ReadClock(r) \/ Rotate(r) \/ Refuse(r)
               \/ EndRefresh(r) \/ FailRefresh(r)
        PROVE  /\ row' \in Row /\ expires' \in [1..MaxTokens -> 0..(MaxTime + TTL)]
               /\ cookie' \in 0..MaxTokens /\ issued' \in 1..MaxTokens
               /\ lost' \in 0..Losses /\ clock' \in 0..MaxTime /\ signedOut' \in BOOLEAN
    <3> USE DEF SessionTypeOK
    <3>1. CASE Send(r) \/ Check(r) \/ ReadClock(r) \/ Refuse(r) \/ EndRefresh(r)
      BY <3>1 DEF Send, Check, ReadClock, Refuse, EndRefresh
    <3>2. CASE Receive(r)
      <4>1. request[r] \in Request
        BY <3>2 DEF Receive, Heard, Hears, Idle
      <4>2. request[r].new \in 0..MaxTokens
        BY <4>1, RequestWrites
      <4> QED BY <3>2, <4>2, Times DEF Receive
    <3>3. CASE Lose(r)
      BY <3>3, Times DEF Lose
    <3>4. CASE Rotate(r)
      <4>1. request[r] \in Request
        BY <3>4 DEF Rotate, UnderWay, Idle
      <4>2. request[r].now \in 0..MaxTime
        BY <4>1, RequestWrites
      <4>3. issued + 1 \in 1..MaxTokens /\ row.current \in 0..MaxTokens
            /\ request[r].now + TTL \in 0..(MaxTime + TTL)
        <5>1. row.current \in 1..MaxTokens
          BY DEF Row
        <5>2. issued < MaxTokens
          BY <3>4 DEF Rotate
        <5> QED BY <4>2, <5>1, <5>2, Times
      <4>4. row' \in Row
        BY <3>4, <4>2, <4>3, RowIs DEF Rotate, Row
      <4> QED BY <3>4, <4>3, <4>4 DEF Rotate
    <3>5. CASE FailRefresh(r)
      BY <3>5 DEF FailRefresh
    <3> QED BY <2>3, <3>1, <3>2, <3>3, <3>4, <3>5
  <2>4. ASSUME NEW here \in BOOLEAN, Logout(here)
        PROVE  /\ row' \in Row /\ expires' \in [1..MaxTokens -> 0..(MaxTime + TTL)]
               /\ cookie' \in 0..MaxTokens /\ issued' \in 1..MaxTokens
               /\ lost' \in 0..Losses /\ clock' \in 0..MaxTime /\ signedOut' \in BOOLEAN
    <3>1. row' \in Row
      <4>1. row \in Row /\ TRUE \in BOOLEAN /\ row' = [row EXCEPT !.revoked = TRUE]
        BY <2>4 DEF Logout, SessionTypeOK
      <4> QED BY <4>1, RowIs DEF Row
    <3>2. cookie' \in 0..MaxTokens
      BY <2>4, Times DEF Logout, SessionTypeOK
    <3> QED BY <2>4, <3>1, <3>2 DEF Logout, SessionTypeOK
  <2>5. CASE SessionTick
    <3>1. clock' \in 0..MaxTime
      BY <2>5, Times DEF SessionTick, SessionTypeOK
    <3> QED BY <2>1, <2>2, <2>5, <3>1 DEF SessionTick, SessionTypeOK
  <2> QED BY <1>2, <2>1, <2>2, <2>3, <2>4, <2>5 DEF SessionNext, SessionStep, SessionTypeOK
<1> QED BY <1>1, <1>2

\* The times that are compared are numbers.
LEMMA SessionTimes ==
  ASSUME SessionTypeOK
  PROVE  /\ ExpiresAt \in Nat /\ clock \in Nat /\ row.rotatedAt \in Nat
         /\ \A t \in 1..MaxTokens : expires[t] \in Nat
         /\ \A r \in Requests : request[r].at = "timed" => request[r].now \in Nat
<1>1. row.current \in 1..MaxTokens /\ row.rotatedAt \in Nat
  BY Times DEF SessionTypeOK, Row
<1>2. \A t \in 1..MaxTokens : expires[t] \in Nat
  BY Times DEF SessionTypeOK
<1>3. \A r \in Requests : request[r].at = "timed" => request[r].now \in Nat
  BY Times DEF SessionTypeOK, Request, Idle
<1> QED BY <1>1, <1>2, <1>3, Times DEF SessionTypeOK, ExpiresAt

LEMMA ClockAdvances == SessionNext => clock' = clock \/ clock' = clock + 1
<1> SUFFICES ASSUME SessionNext PROVE clock' = clock \/ clock' = clock + 1
  OBVIOUS
<1>1. CASE SessionTick
  BY <1>1 DEF SessionTick
<1>2. CASE \E r \in Requests :
             \/ Send(r) \/ Receive(r) \/ Lose(r)
             \/ Check(r) \/ ReadClock(r) \/ Rotate(r) \/ Refuse(r)
             \/ EndRefresh(r) \/ FailRefresh(r)
  BY <1>2 DEF Send, Receive, Lose, Check, ReadClock, Rotate, Refuse, EndRefresh, FailRefresh
<1>3. CASE \E here \in BOOLEAN : Logout(here)
  BY <1>3 DEF Logout
<1> QED BY <1>1, <1>2, <1>3 DEF SessionNext, SessionStep

\* Steps of a refresh that read no clock leave the times of the requests alone.
LEMMA TimesKept ==
  ASSUME SessionTypeOK, SessionNext, ~(\E r \in Requests : ReadClock(r))
  PROVE  \A r \in Requests : request'[r].at = "timed" =>
           request[r].at = "timed" /\ request'[r].now = request[r].now
<1> SUFFICES ASSUME NEW r \in Requests, request'[r].at = "timed"
             PROVE  request[r].at = "timed" /\ request'[r].now = request[r].now
  OBVIOUS
<1> USE DEF SessionTypeOK
<1>1. ASSUME NEW q \in Requests,
             Check(q) \/ Rotate(q) \/ Refuse(q) \/ EndRefresh(q) \/ FailRefresh(q) \/ Lose(q)
      PROVE  request[q] \in Request
  BY <1>1 DEF Check, Rotate, Refuse, EndRefresh, FailRefresh, Lose, UnderWay, Heard, Hears, Idle
<1>2. ASSUME NEW q \in Requests, Send(q) \/ Receive(q)
      PROVE  request[r].at = "timed" /\ request'[r].now = request[r].now
  BY <1>2 DEF Send, Receive, Idle
<1>3. ASSUME NEW q \in Requests, Lose(q)
      PROVE  request[r].at = "timed" /\ request'[r].now = request[r].now
  BY <1>1, <1>3 DEF Lose, Idle, Request
<1>4. ASSUME NEW q \in Requests, NEW token, Answer(q, token), request[q] \in Request
      PROVE  request[r].at = "timed" /\ request'[r].now = request[r].now
  BY <1>4 DEF Answer, Idle, Request
<1>5. ASSUME NEW q \in Requests, Check(q) \/ Refuse(q) \/ EndRefresh(q) \/ FailRefresh(q)
      PROVE  request[r].at = "timed" /\ request'[r].now = request[r].now
  <2>1. CASE request' = [request EXCEPT ![q].at = "checked"]
    BY <1>1, <1>5, <2>1 DEF Request
  <2>2. CASE \E token : Answer(q, token)
    BY <1>1, <1>4, <1>5, <2>2
  <2> QED BY <1>5, <2>1, <2>2 DEF Check, Refuse, EndRefresh, FailRefresh
<1>6. ASSUME NEW q \in Requests, Rotate(q)
      PROVE  request[r].at = "timed" /\ request'[r].now = request[r].now
  BY <1>1, <1>6 DEF Rotate, Request
<1>7. CASE \/ \E here \in BOOLEAN : Logout(here)
           \/ SessionTick
  BY <1>7 DEF Logout, SessionTick
<1> QED BY <1>2, <1>3, <1>5, <1>6, <1>7 DEF SessionNext, SessionStep

\* Nothing brings a session back to life that is over.
LEMMA DeadStep == SessionTypeOK /\ [SessionNext]_sessionVars => DeadStaysDead
<1> SUFFICES ASSUME SessionTypeOK, SessionNext PROVE DeadStaysDead
  <2>1. ASSUME UNCHANGED sessionVars PROVE DeadStaysDead
    BY <2>1 DEF DeadStaysDead, Over, ExpiresAt, sessionVars
  <2> QED BY <2>1
<1>1. row.revoked => row.revoked'
  <2>1. ASSUME NEW here \in BOOLEAN, Logout(here) PROVE row'.revoked
    BY <2>1 DEF Logout, SessionTypeOK, Row
  <2> QED BY <2>1 DEF SessionNext, SessionStep, Send, Receive, Lose, Check, ReadClock, Rotate, Accepts,
       Refuse, EndRefresh, FailRefresh, SessionTick
<1>2. ASSUME Over, ~row.revoked, ~row'.revoked PROVE Over'
  <2>1. /\ clock >= ExpiresAt
        /\ \A r \in Requests : request[r].at = "timed" => request[r].now >= ExpiresAt
    BY <1>2 DEF Over
  <2>2. ~(\E r \in Requests : Rotate(r))
    <3>1. ASSUME NEW r \in Requests, Rotate(r) PROVE FALSE
      BY <2>1, <3>1, SessionTimes DEF Rotate, Accepts
    <3> QED BY <3>1
  <2>3. row' = row /\ expires' = expires
    <3>1. ASSUME NEW here \in BOOLEAN, Logout(here) PROVE FALSE
      BY <1>2, <3>1 DEF Logout, SessionTypeOK, Row
    <3> QED BY <2>2, <3>1 DEF SessionNext, SessionStep, Send, Receive, Lose, Check, ReadClock,
         Refuse, EndRefresh, FailRefresh, SessionTick
  <2>4. ExpiresAt' = ExpiresAt
    BY <2>3 DEF ExpiresAt
  <2>5. clock' >= ExpiresAt
    BY <2>1, SessionTimes, ClockAdvances
  <2>6. \A r \in Requests : request'[r].at = "timed" => request'[r].now >= ExpiresAt
    <3>1. ASSUME NEW q \in Requests, ReadClock(q), NEW r \in Requests, request'[r].at = "timed"
          PROVE  request'[r].now >= ExpiresAt
      <4>1. request[q] \in Request
        BY <3>1 DEF ReadClock, UnderWay, Idle, SessionTypeOK
      <4>2. CASE r = q
        BY <2>1, <3>1, <4>1, <4>2 DEF ReadClock, Request, SessionTypeOK
      <4>3. CASE r # q
        BY <2>1, <3>1, <4>3 DEF ReadClock, SessionTypeOK
      <4> QED BY <4>2, <4>3
    <3> QED BY <2>1, <3>1, TimesKept
  <2> QED BY <2>4, <2>5, <2>6 DEF Over
<1>3. Over /\ (row.revoked \/ row'.revoked) => Over'
  BY <1>1 DEF Over
<1> QED BY <1>1, <1>2, <1>3 DEF DeadStaysDead

\* No request has read a time that is still to come.
LEMMA TimesStep == SessionTypeOK /\ TimesArePast /\ [SessionNext]_sessionVars => TimesArePast'
<1> SUFFICES ASSUME SessionTypeOK, TimesArePast, SessionNext,
                    NEW r \in Requests, request'[r].at = "timed"
             PROVE  request'[r].now <= clock'
  BY DEF TimesArePast, sessionVars
<1>1. clock' >= clock /\ clock \in Nat /\ clock' \in Nat
  BY SessionTimes, ClockAdvances
<1>2. ASSUME NEW q \in Requests, ReadClock(q) PROVE request'[r].now <= clock'
  <2>1. request[q] \in Request /\ clock' = clock
    BY <1>2 DEF ReadClock, UnderWay, Idle, SessionTypeOK
  <2>2. CASE r = q
    BY <1>1, <1>2, <2>1, <2>2 DEF ReadClock, Request, SessionTypeOK
  <2>3. CASE r # q
    BY <1>2, <2>1, <2>3 DEF ReadClock, SessionTypeOK, TimesArePast
  <2> QED BY <2>2, <2>3
<1> QED BY <1>1, <1>2, TimesKept, SessionTimes DEF TimesArePast

LEMMA TurnsStep == SessionInvariant /\ [SessionNext]_sessionVars => TakeTurns'
<1> SUFFICES ASSUME SessionInvariant, [SessionNext]_sessionVars, ~astray'
             PROVE  /\ lost' <= 1 /\ ~TooLate'
                    /\ \A r \in Requests : UnderWay(r)' => Heard(r)'
                    /\ \A q, r \in Requests : UnderWay(q)' /\ UnderWay(r)' => q = r
  BY DEF TakeTurns
<1>1. CASE UNCHANGED sessionVars
  BY <1>1 DEF SessionInvariant, TakeTurns, TooLate, sessionVars, UnderWay, Heard, Hears
<1>2. CASE SessionNext
  <2>1. lost' \in Nat /\ ~(lost' > 1)
    <3>1. SessionTypeOK'
      BY SessionTypeStep DEF SessionInvariant
    <3> QED BY <1>2, <3>1, Times DEF SessionNext, SessionTypeOK
  <2>2. \A r \in Requests : UnderWay(r)' => Heard(r)'
    BY <1>2 DEF SessionNext, UnderWay, Heard, Hears
  <2>3. \A q, r \in Requests : UnderWay(q)' /\ UnderWay(r)' => q = r
    BY <1>2, <2>2 DEF SessionNext, UnderWay, Heard, Hears
  <2>4. ~TooLate'
    BY <1>2 DEF SessionNext
  <2> QED BY <2>1, <2>2, <2>3, <2>4
<1> QED BY <1>1, <1>2

\* What the token in the jar is, without a request that has rotated.
InJar == cookie = row.current \/ (lost > 0 /\ cookie = row.previous)

\* What is not over, and in the jar, is accepted at a time that a request has read.
LEMMA JarIsAccepted ==
  ASSUME SessionTypeOK, InJar, cookie # 0, ~TooLate, NEW now \in Nat, now <= clock, ~row.revoked, now < ExpiresAt
  PROVE  Accepts(cookie, now)
BY SessionTimes, Times DEF InJar, TooLate, Accepts

LEMMA TokenStep == SessionInvariant /\ [SessionNext]_sessionVars => TokenIsKept'
<1> SUFFICES ASSUME SessionInvariant, SessionNext, ~Over', ~signedOut', ~astray'
             PROVE  /\ cookie' # 0
                    /\ \A r \in Requests :
                         /\ request'[r].at \in {"sent", "checked", "timed"} => request'[r].token = cookie'
                         /\ Rotated(r)' => /\ request'[r].new = row'.current
                                           /\ lost' = 0 => cookie' = row'.previous
                    /\ (\A r \in Requests : ~Rotated(r)') => InJar'
  <2>1. ASSUME SessionInvariant, UNCHANGED sessionVars PROVE TokenIsKept'
    BY <2>1 DEF SessionInvariant, TokenIsKept, sessionVars, Over, ExpiresAt, Rotated
  <2> QED BY <2>1 DEF TokenIsKept, InJar
<1>1. SessionTypeOK /\ SessionTypeOK' /\ TakeTurns'
  BY SessionTypeStep, TurnsStep DEF SessionInvariant
<1>2. ~Over
  BY <1>1, DeadStep DEF DeadStaysDead
<1>3. ~astray
  BY DEF SessionNext
<1>4. ~signedOut
  BY DEF SessionNext, SessionStep, Send, Receive, Lose, Check, ReadClock, Rotate, Refuse,
         EndRefresh, FailRefresh, Logout, SessionTick
<1>5. /\ lost \in 0..1 /\ ~TooLate
      /\ \A r \in Requests : UnderWay(r) => Heard(r)
      /\ \A q, r \in Requests : UnderWay(q) /\ UnderWay(r) => q = r
  BY <1>1, <1>3, Times DEF SessionInvariant, SessionTypeOK, TakeTurns
<1>6. /\ cookie # 0
      /\ \A r \in Requests :
           /\ request[r].at \in {"sent", "checked", "timed"} => request[r].token = cookie
           /\ Rotated(r) => /\ request[r].new = row.current
                            /\ lost = 0 => cookie = row.previous
      /\ (\A r \in Requests : ~Rotated(r)) => InJar
  BY <1>2, <1>3, <1>4 DEF SessionInvariant, TokenIsKept, InJar
<1>7. \A r \in Requests : request[r] = Idle \/ request[r] \in Request
  BY <1>1 DEF SessionTypeOK
\* At most one request is under way: the others do not matter.
<1>8. ASSUME NEW r \in Requests, UnderWay(r), NEW q \in Requests, q # r
      PROVE  request[q].at = "idle" /\ ~Rotated(q)
  BY <1>5, <1>8 DEF UnderWay, Rotated
<1>9. ASSUME NEW r \in Requests, UnderWay(r)
      PROVE  request[r] \in Request /\ request[r].heard
  BY <1>5, <1>7, <1>9 DEF UnderWay, Heard, Hears, Idle
\* What a step makes of a request under way, when the browser hears of it.
<1>10. ASSUME NEW r \in Requests, UnderWay(r), NEW v \in {Idle} \cup Request,
              request' = [request EXCEPT ![r] = v]
       PROVE  /\ request'[r] = v
              /\ \A q \in Requests \ {r} : request'[q].at = "idle" /\ ~Rotated(q)'
  BY <1>1, <1>8, <1>10 DEF SessionTypeOK, Rotated
<1> DEFINE Kept == /\ cookie' # 0
                   /\ \A r \in Requests :
                        /\ request'[r].at \in {"sent", "checked", "timed"} => request'[r].token = cookie'
                        /\ Rotated(r)' => /\ request'[r].new = row'.current
                                          /\ lost' = 0 => cookie' = row'.previous
                   /\ (\A r \in Requests : ~Rotated(r)') => InJar'
<1>11. ASSUME NEW r \in Requests, Send(r) PROVE Kept
  <2> DEFINE v == [at |-> "sent", heard |-> TRUE, token |-> cookie, new |-> 0, now |-> 0]
  <2>1. request' = [request EXCEPT ![r] = v] /\ UNCHANGED <<row, cookie, lost>>
    BY <1>11 DEF Send
  <2>2. request'[r].at = "sent" /\ request'[r].token = cookie /\ ~Rotated(r)'
    BY <1>1, <2>1 DEF SessionTypeOK, Rotated
  <2>3. UnderWay(r)'
    BY <2>2 DEF UnderWay
  <2>4. \A q \in Requests \ {r} : request'[q].at = "idle" /\ ~Rotated(q)'
    BY <1>1, <1>3, <2>3 DEF TakeTurns, UnderWay, Rotated
  <2>5. \A q \in Requests : ~Rotated(q)
    BY <1>1, <1>11, <2>1, <2>4 DEF Send, UnderWay, Rotated, SessionTypeOK
  <2>6. InJar'
    BY <1>6, <2>1, <2>5 DEF InJar
  <2> QED BY <1>6, <2>1, <2>2, <2>4, <2>6
<1>12. ASSUME NEW r \in Requests, Receive(r) PROVE Kept
  <2>1. UnderWay(r) /\ Rotated(r) /\ cookie' = row.current /\ UNCHANGED row
    BY <1>6, <1>12 DEF Receive, UnderWay, Heard, Hears, Rotated
  <2>2. request' = [request EXCEPT ![r] = Idle]
    BY <1>12 DEF Receive
  <2>3. \A q \in Requests : request'[q].at = "idle" /\ ~Rotated(q)'
    <3>1. request'[r] = Idle /\ \A q \in Requests \ {r} : request'[q].at = "idle" /\ ~Rotated(q)'
      BY <1>10, <2>1, <2>2
    <3> QED BY <3>1 DEF Idle, Rotated
  <2>4. row.current # 0
    BY <1>1 DEF SessionTypeOK, Row
  <2> QED BY <2>1, <2>3, <2>4 DEF InJar
<1>13. ASSUME NEW r \in Requests, Lose(r) PROVE Kept
  <2>1. UnderWay(r) /\ request[r] \in Request
    BY <1>9, <1>13 DEF Lose, Heard, Hears, UnderWay
  <2>2. request[r].at = "answered" /\ request' = [request EXCEPT ![r] = Idle]
    <3>1. ASSUME request[r].at # "answered" PROVE FALSE
      <4>1. request' = [request EXCEPT ![r] = [request[r] EXCEPT !.heard = FALSE]]
        BY <1>13, <3>1 DEF Lose
      <4>2. request'[r] = [request[r] EXCEPT !.heard = FALSE]
        BY <1>1, <4>1 DEF SessionTypeOK
      <4>3. request'[r].at = request[r].at /\ ~request'[r].heard
        BY <2>1, <4>2 DEF Request
      <4>4. UnderWay(r)' /\ ~Heard(r)'
        BY <2>1, <4>3 DEF UnderWay, Heard, Hears
      <4> QED BY <1>1, <4>4 DEF TakeTurns
    <3> QED BY <1>13, <3>1 DEF Lose
  <2>3. lost' = lost + 1 /\ UNCHANGED <<row, cookie>>
    BY <1>13 DEF Lose
  <2>4. lost = 0 /\ lost' = 1
    BY <1>1, <1>5, <2>3 DEF TakeTurns
  <2>5. cookie = row.previous
    BY <1>6, <2>2, <2>4 DEF Rotated
  <2>6. \A q \in Requests : request'[q].at = "idle" /\ ~Rotated(q)'
    <3>1. request'[r] = Idle /\ \A q \in Requests \ {r} : request'[q].at = "idle" /\ ~Rotated(q)'
      BY <1>10, <2>1, <2>2
    <3> QED BY <3>1 DEF Idle, Rotated
  <2>7. InJar'
    BY <2>3, <2>4, <2>5, Times DEF InJar
  <2> QED BY <1>6, <2>3, <2>6, <2>7
\* A request before its rotation presents what is in the jar.
<1>22. ASSUME NEW r \in Requests, UnderWay(r), request[r].at \in {"sent", "checked", "timed"}
       PROVE  request[r] \in Request /\ request[r].token = cookie /\ InJar
              /\ ~row.revoked
              /\ (request[r].at # "timed" => clock < ExpiresAt)
              /\ (request[r].at = "timed" =>
                    request[r].now \in Nat /\ request[r].now <= clock /\ request[r].now < ExpiresAt)
  <2>1. \A q \in Requests : ~Rotated(q)
    BY <1>8, <1>22 DEF Rotated
  <2>2. request[r].token = cookie /\ InJar
    BY <1>6, <1>22, <2>1
  <2>3. \A q \in Requests : request[q].at = "timed" => q = r
    BY <1>8, <1>22
  <2>4. /\ ~row.revoked
        /\ clock < ExpiresAt \/ \E q \in Requests : request[q].at = "timed" /\ request[q].now < ExpiresAt
    BY <1>1, <1>2, SessionTimes DEF Over
  <2>5. request[r].at = "timed" => request[r].now \in Nat /\ request[r].now <= clock
    BY <1>1, SessionTimes DEF SessionInvariant, TimesArePast
  <2>6. request[r].at # "timed" => clock < ExpiresAt
    BY <2>3, <2>4
  <2>7. request[r].at = "timed" => request[r].now < ExpiresAt
    BY <1>1, <2>3, <2>4, <2>5, SessionTimes
  <2> QED BY <1>9, <1>22, <2>2, <2>4, <2>5, <2>6, <2>7
<1>14. ASSUME NEW r \in Requests, Check(r) PROVE Kept
  <2>1. UnderWay(r) /\ request[r].at = "sent" /\ UNCHANGED <<row, cookie, lost>>
    BY <1>14 DEF Check
  <2>0. /\ request[r] \in Request /\ request[r].token = cookie /\ InJar
        /\ ~row.revoked /\ clock < ExpiresAt
    BY <1>22, <2>1
  <2>6. clock < expires[cookie] /\ clock <= ExpiresAt
    <3>1. cookie # 0
      BY <1>6
    <3>2. CASE cookie = row.current
      BY <1>1, <2>0, <3>2, SessionTimes DEF ExpiresAt
    <3>3. CASE lost > 0
      <4>1. cookie \in 1..MaxTokens
        BY <1>1, <3>1, Times DEF SessionTypeOK
      <4> QED BY <1>1, <1>5, <2>0, <3>1, <3>3, <4>1, SessionTimes DEF TooLate
    <3> QED BY <2>0, <3>2, <3>3 DEF InJar
  <2>7. request' = [request EXCEPT ![r].at = "checked"]
    BY <1>14, <2>0, <2>6 DEF Check
  <2>2. request'[r] = [request[r] EXCEPT !.at = "checked"]
    BY <1>1, <2>7 DEF SessionTypeOK
  <2>3. request'[r].at = "checked" /\ request'[r].token = request[r].token
    BY <2>0, <2>2 DEF Request
  <2>4. \A q \in Requests \ {r} : request'[q].at = "idle" /\ ~Rotated(q)'
    BY <1>1, <1>8, <2>1, <2>7 DEF SessionTypeOK, Rotated
  <2> QED BY <1>6, <2>0, <2>1, <2>3, <2>4 DEF InJar, Rotated
<1>23. ASSUME NEW r \in Requests, ReadClock(r) PROVE Kept
  <2>1. UnderWay(r) /\ request[r].at = "checked" /\ UNCHANGED <<row, cookie, lost>>
        /\ request' = [request EXCEPT ![r].at = "timed", ![r].now = clock]
    BY <1>23 DEF ReadClock
  <2>0. request[r] \in Request /\ request[r].token = cookie /\ InJar
    BY <1>22, <2>1
  <2>2. request'[r] = [request[r] EXCEPT !.at = "timed", !.now = clock]
    BY <1>1, <2>1 DEF SessionTypeOK
  <2>3. request'[r].at = "timed" /\ request'[r].token = request[r].token
    BY <2>0, <2>2 DEF Request
  <2>4. \A q \in Requests \ {r} : request'[q].at = "idle" /\ ~Rotated(q)'
    BY <1>1, <1>8, <2>1 DEF SessionTypeOK, Rotated
  <2> QED BY <1>6, <2>0, <2>1, <2>3, <2>4 DEF InJar, Rotated
<1>15. ASSUME NEW r \in Requests, Rotate(r) PROVE Kept
  <2>1. /\ UnderWay(r) /\ request[r].at = "timed"
        /\ request' = [request EXCEPT ![r].at = "rotated", ![r].new = issued + 1]
        /\ UNCHANGED <<cookie, lost>>
        /\ row'.current = issued + 1 /\ row'.previous = row.current
    BY <1>15 DEF Rotate
  <2>0. request[r] \in Request /\ InJar
    BY <1>22, <2>1
  <2>2. request'[r].at = "rotated" /\ request'[r].new = issued + 1
    BY <1>1, <2>0, <2>1 DEF SessionTypeOK, Request
  <2>3. \A q \in Requests \ {r} : request'[q].at = "idle" /\ ~Rotated(q)'
    BY <1>1, <1>8, <2>1 DEF SessionTypeOK, Rotated
  <2>4. lost = 0 => cookie = row.current
    BY <2>0 DEF InJar
  <2> QED BY <1>6, <2>1, <2>2, <2>3, <2>4 DEF Rotated
<1>16. ASSUME NEW r \in Requests, Refuse(r) PROVE Kept
  <2>1. UnderWay(r) /\ request[r].at = "timed" /\ ~Accepts(request[r].token, request[r].now)
    BY <1>16 DEF Refuse
  <2>2. /\ request[r].token = cookie /\ InJar /\ ~row.revoked
        /\ request[r].now \in Nat /\ request[r].now <= clock /\ request[r].now < ExpiresAt
    BY <1>22, <2>1
  <2>3. Accepts(cookie, request[r].now)
    BY <1>1, <1>5, <1>6, <2>2, JarIsAccepted
  <2> QED BY <2>1, <2>2, <2>3
<1>17. ASSUME NEW r \in Requests, EndRefresh(r) PROVE Kept
  <2>1. /\ UnderWay(r) /\ request[r] \in Request /\ request[r].heard
        /\ Rotated(r) /\ UNCHANGED <<row, cookie, lost>>
    BY <1>9, <1>17 DEF EndRefresh, Rotated
  <2>2. request[r].new \in 0..MaxTokens /\ Answer(r, request[r].new)
    BY <1>17, <2>1, RequestWrites DEF EndRefresh
  <2>3. PICK v \in {Idle} \cup Request :
          request' = [request EXCEPT ![r] = v] /\ v.at = "answered" /\ v.new = request[r].new
    BY <1>1, <2>1, <2>2, AnswerWrites
  <2>4. /\ request'[r] = v
        /\ \A q \in Requests \ {r} : request'[q].at = "idle" /\ ~Rotated(q)'
    BY <1>10, <2>1, <2>3
  <2> QED BY <1>6, <2>1, <2>3, <2>4 DEF Rotated
<1>18. ASSUME NEW r \in Requests, FailRefresh(r) PROVE FALSE
  BY <1>9, <1>18 DEF FailRefresh
<1>19. ASSUME NEW here \in BOOLEAN, Logout(here) PROVE FALSE
  BY <1>19 DEF Logout
<1>20. ASSUME SessionTick PROVE Kept
  BY <1>6, <1>20 DEF SessionTick, InJar, Rotated
<1> HIDE DEF Kept
<1>21. Kept
  <2>1. SessionStep
    BY DEF SessionNext
  <2>2. CASE \E r \in Requests :
               \/ Send(r) \/ Receive(r) \/ Lose(r)
               \/ Check(r) \/ ReadClock(r) \/ Rotate(r) \/ Refuse(r)
               \/ EndRefresh(r) \/ FailRefresh(r)
    BY <1>11, <1>12, <1>13, <1>14, <1>15, <1>16, <1>17, <1>18, <1>23, <2>2
  <2>3. CASE \E here \in BOOLEAN : Logout(here)
    BY <1>19, <2>3
  <2> QED BY <1>20, <2>1, <2>2, <2>3 DEF SessionStep
<1> QED BY <1>21 DEF Kept

LEMMA SessionInvariantInit == SessionInit => SessionInvariant
<1> SUFFICES ASSUME SessionInit PROVE SessionInvariant
  OBVIOUS
<1>1. SessionTypeOK
  BY SessionTypeInit
<1>2. \A r \in Requests : request[r].at = "idle"
  BY DEF SessionInit, Idle
<1>3. TakeTurns /\ TimesArePast
  BY <1>2 DEF SessionInit, TakeTurns, TooLate, TimesArePast, UnderWay
<1>4. TokenIsKept
  BY <1>2 DEF SessionInit, TokenIsKept, Rotated
<1> QED BY <1>1, <1>3, <1>4 DEF SessionInvariant

LEMMA SessionKept == SessionInvariant => BrowserKeepsSession
<1> SUFFICES ASSUME SessionInvariant, Alive, ~signedOut, ~astray
             PROVE  \/ Accepts(cookie, clock)
                    \/ \E r \in Requests : Heard(r) /\ request[r].new = row.current
  BY DEF BrowserKeepsSession
<1>0. SessionTypeOK /\ clock \in Nat /\ clock <= clock /\ ~row.revoked /\ clock < ExpiresAt
  BY SessionTimes DEF SessionInvariant, Alive
<1>3. ~Over
  BY <1>0, SessionTimes DEF Over
<1>1. CASE \E r \in Requests : Rotated(r)
  BY <1>1, <1>3 DEF SessionInvariant, TakeTurns, TokenIsKept, Rotated, UnderWay
<1>2. CASE \A r \in Requests : ~Rotated(r)
  <2>1. InJar /\ cookie # 0 /\ ~TooLate
    BY <1>2, <1>3 DEF SessionInvariant, TakeTurns, TokenIsKept, InJar
  <2> QED BY <1>0, <2>1, JarIsAccepted
<1> QED BY <1>1, <1>2

\* A browser whose tabs take turns never loses its session, with any number of tabs and
\* however long the grace and the life of a token are; a session that was revoked never
\* lives again, and one that has expired lives again only through a request that read the
\* clock before it did and waited since (RotateSessionTokens measures with input.Now).
THEOREM SessionIsKeptCorrect == SessionSpec => SessionIsKept
<1>1. SessionInvariant /\ [SessionNext]_sessionVars => SessionInvariant'
  BY SessionTypeStep, TurnsStep, TimesStep, TokenStep DEF SessionInvariant
<1>2. SessionInvariant /\ [SessionNext]_sessionVars =>
        [SessionTypeOK' /\ BrowserKeepsSession' /\ DeadStaysDead]_sessionVars
  <2>1. SessionInvariant' => BrowserKeepsSession'
    BY SessionKept, PTL
  <2> QED BY <1>1, <2>1, DeadStep DEF SessionInvariant
<1> QED BY <1>1, <1>2, SessionInvariantInit, PTL DEF SessionSpec, SessionIsKept

-----------------------------------------------------------------------------
(***************************************************************************)
(* The safety of ModerationBarrier.  One lemma for each part of            *)
(* BarrierInvariant: the checks the barrier counts, the types, the hits,   *)
(* the decision, the record in the database, the order of things, and the  *)
(* withdrawal, which rests on the others.                                  *)
(***************************************************************************)

-----------------------------------------------------------------------------
(* The coordinator *)

\* The type of the coordinator, but for the bound of its count.
Barrier == [pending : Int, block : Directions \cup {"none"},
            failedOpen : BOOLEAN, settled : BOOLEAN, handled : BOOLEAN,
            outputEnqueued : BOOLEAN, allClosed : BOOLEAN, finished : BOOLEAN]

Ordered(b) == b.allClosed => b.outputEnqueued

LEMMA ClosedIs ==
  ASSUME NEW b \in Barrier, Ordered(b)
  PROVE  /\ AllClosed(b) \in Barrier /\ Ordered(AllClosed(b))
         /\ AllClosed(b).pending = b.pending /\ AllClosed(b).block = b.block
         /\ AllClosed(b).settled = b.settled /\ AllClosed(b).handled = b.handled
<1>1. b.allClosed \/ (b.pending = 0 /\ b.outputEnqueued) \in BOOLEAN
  BY DEF Barrier
<1>2. AllClosed(b) \in Barrier
  BY <1>1 DEF AllClosed, Barrier
<1>3. AllClosed(b).allClosed = (b.allClosed \/ (b.pending = 0 /\ b.outputEnqueued))
  BY DEF AllClosed, Barrier
<1>4. AllClosed(b).outputEnqueued = b.outputEnqueued
  BY DEF AllClosed, Barrier
<1>5. Ordered(AllClosed(b))
  BY <1>3, <1>4 DEF Ordered
<1>6. /\ AllClosed(b).pending = b.pending /\ AllClosed(b).block = b.block
      /\ AllClosed(b).settled = b.settled /\ AllClosed(b).handled = b.handled
  BY DEF AllClosed, Barrier
<1> QED BY <1>2, <1>5, <1>6

\* What a result of a check does to the coordinator (onTaskResult).
LEMMA WithResultIs ==
  ASSUME NEW b \in Barrier, Ordered(b), NEW result \in {"hit", "clear", "error"}, NEW d \in Directions
  PROVE  LET wins == result = "hit" /\ (Prefers(d, b.block) \/ (b.settled /\ ~b.handled))
             r == WithResult(b, result, d)
         IN  /\ r \in Barrier /\ Ordered(r) /\ r.pending = b.pending - 1 /\ r.settled = b.settled
             /\ wins => r.block = d /\ r.handled = b.settled
             /\ ~wins => r.block = b.block /\ r.handled = b.handled
<1> DEFINE wins == result = "hit" /\ (Prefers(d, b.block) \/ (b.settled /\ ~b.handled))
           counted == [b EXCEPT !.pending = @ - 1]
           won == [counted EXCEPT !.block = d, !.handled = b.settled]
           open == [counted EXCEPT !.failedOpen = @ \/ result = "error"]
<1>1. /\ counted \in Barrier /\ counted.pending = b.pending - 1 /\ counted.block = b.block
      /\ counted.settled = b.settled /\ counted.handled = b.handled
      /\ counted.allClosed = b.allClosed /\ counted.outputEnqueued = b.outputEnqueued
  BY DEF Barrier
<1>2. /\ won \in Barrier /\ won.pending = b.pending - 1 /\ won.block = d
      /\ won.settled = b.settled /\ won.handled = b.settled
      /\ won.allClosed = b.allClosed /\ won.outputEnqueued = b.outputEnqueued
  BY <1>1 DEF Barrier
<1>3. /\ open \in Barrier /\ open.pending = b.pending - 1 /\ open.block = b.block
      /\ open.settled = b.settled /\ open.handled = b.handled
      /\ open.allClosed = b.allClosed /\ open.outputEnqueued = b.outputEnqueued
  BY <1>1 DEF Barrier
<1>4. Ordered(counted) /\ Ordered(won) /\ Ordered(open)
  BY <1>1, <1>2, <1>3 DEF Ordered
<1>5. WithResult(b, result, d) = AllClosed(IF wins THEN won ELSE IF ~b.settled THEN open ELSE counted)
  BY DEF WithResult
<1> HIDE DEF wins, counted, won, open
<1>6. CASE wins
  BY <1>2, <1>4, <1>5, <1>6, ClosedIs DEF wins
<1>7. CASE ~wins /\ ~b.settled
  BY <1>3, <1>4, <1>5, <1>7, ClosedIs DEF wins
<1>8. CASE ~wins /\ b.settled
  BY <1>1, <1>4, <1>5, <1>8, ClosedIs DEF wins
<1> QED BY <1>6, <1>7, <1>8

\* What a step is.
LEMMA StepCases ==
  ASSUME [BarrierNext]_barrierVars
  PROVE  \/ \E t \in Tasks : EnqueueInput(t) \/ EnqueueOutput(t)
         \/ \E t \in Tasks, result \in {"clear", "error"} : Finish(t, result)
         \/ \E t \in Tasks : Find(t) \/ Report(t)
         \/ \E t \in Tasks : LateApply(t) \/ LateMark(t) \/ LateRemove(t)
         \/ Generate \/ FailGeneration \/ \E how \in {"success", "kept"} : EndGeneration(how)
         \/ MarkModerating \/ MarkOutputsEnqueued \/ WaitAll \/ Settle
         \/ ApplyBlock \/ RemovePendingBlock \/ Pass \/ FinalizeMessages \/ Upsert
         \/ RetrySnapshot \/ RetryWrite \/ RetryRemove \/ StaleList \/ StaleWrite
         \/ PeerList \/ PeerWrite \/ Crash \/ UNCHANGED barrierVars
BY DEF BarrierNext, HandlerStep, StopGeneration, WorkerStep, CheckEnds, HitStep, LoopStep, PeerStep

\* The steps that write the barrier.
LEMMA BarrierCases ==
  ASSUME [BarrierNext]_barrierVars, barrier' # barrier
  PROVE  \/ \E t \in Tasks : EnqueueInput(t) \/ EnqueueOutput(t)
         \/ \E t \in Tasks, result \in {"clear", "error"} : Finish(t, result)
         \/ \E t \in Tasks : Report(t)
         \/ FailGeneration \/ MarkOutputsEnqueued \/ WaitAll \/ Settle
         \/ ApplyBlock \/ RemovePendingBlock \/ Pass
BY StepCases DEF Find, LateApply, LateMark, LateRemove, Generate, EndGeneration, MarkModerating,
     FinalizeMessages, Upsert, RetrySnapshot, RetryWrite, RetryRemove, StaleList, StaleWrite,
     PeerList, PeerWrite, Crash, barrierVars

LEMMA TaskDirection == \A t \in Tasks : Dir(t) \in Directions
BY DEF Dir, Directions

LEMMA BarrierStep ==
  ASSUME barrier \in Barrier, Ordered(barrier), [BarrierNext]_barrierVars
  PROVE  barrier' \in Barrier /\ Ordered(barrier')
<1>1. ASSUME NEW t \in Tasks, EnqueueInput(t) \/ EnqueueOutput(t) PROVE barrier' \in Barrier /\ Ordered(barrier')
  <2> DEFINE counted == [barrier EXCEPT !.pending = @ + 1]
  <2>1. counted \in Barrier /\ Ordered(counted)
    BY DEF Barrier, Ordered
  <2>2. \/ barrier' = counted
        \/ barrier' = WithResult(counted, "error", Dir(t))
    BY <1>1 DEF EnqueueInput, EnqueueOutput, StartTask
  <2> HIDE DEF counted
  <2> QED BY <2>1, <2>2, WithResultIs, TaskDirection
<1>2. ASSUME NEW t \in Tasks, NEW result \in {"clear", "error"}, Finish(t, result)
      PROVE  barrier' \in Barrier /\ Ordered(barrier')
  BY <1>2, WithResultIs, TaskDirection DEF Finish
<1>3. ASSUME NEW t \in Tasks, Report(t) PROVE barrier' \in Barrier /\ Ordered(barrier')
  BY <1>3, WithResultIs, TaskDirection DEF Report
<1>4. CASE FailGeneration \/ MarkOutputsEnqueued
  <2> DEFINE enqueued == [barrier EXCEPT !.outputEnqueued = TRUE]
  <2>1. enqueued \in Barrier /\ Ordered(enqueued)
    BY DEF Barrier, Ordered
  <2>2. barrier' = AllClosed(enqueued)
    BY <1>4 DEF FailGeneration, MarkOutputsEnqueued
  <2> HIDE DEF enqueued
  <2> QED BY <2>1, <2>2, ClosedIs
<1>5. CASE WaitAll
  BY <1>5 DEF WaitAll, Barrier, Ordered
<1>6. CASE Settle
  BY <1>6 DEF Settle, Barrier, Ordered
<1>7. CASE ApplyBlock \/ RemovePendingBlock \/ Pass
  BY <1>7 DEF ApplyBlock, RemovePendingBlock, Pass, Barrier, Ordered
<1> QED BY <1>1, <1>2, <1>3, <1>4, <1>5, <1>6, <1>7, BarrierCases

-----------------------------------------------------------------------------
(* The count *)

Running == HitTasks({"queued", "found"})

LEMMA ChecksFinite ==
  ASSUME NEW S \in SUBSET Tasks
  PROVE  IsFiniteSet(S) /\ Cardinality(S) \in 0..Cardinality(Tasks) /\ Cardinality(Tasks) \in Nat
<1>1. IsFiniteSet(Tasks)
  BY ModerationAssumption DEF Tasks
<1>2. IsFiniteSet(S) /\ Cardinality(S) <= Cardinality(Tasks)
  BY <1>1, FS_Subset
<1>3. Cardinality(S) \in Nat /\ Cardinality(Tasks) \in Nat
  BY <1>1, <1>2, FS_CardinalityType
<1> QED BY <1>2, <1>3

LEMMA RunningFinite ==
  /\ IsFiniteSet(Running) /\ Cardinality(Running) \in 0..Cardinality(Tasks)
  /\ Cardinality(Running)' \in 0..Cardinality(Tasks) /\ Cardinality(Tasks) \in Nat
<1>1. Running \in SUBSET Tasks /\ Running' \in SUBSET Tasks
  BY DEF Running, HitTasks
<1> QED BY <1>1, ChecksFinite

\* A check starts, goes on, or ends.
LEMMA RunningStep ==
  ASSUME task \in [Tasks -> {"none", "queued", "found", "reported", "late", "applied",
                             "unmarked", "clear", "lost"}],
         NEW t \in Tasks, NEW stage, task' = [task EXCEPT ![t] = stage]
  PROVE  /\ (task[t] \in {"queued", "found"} <=> stage \in {"queued", "found"})
              => Cardinality(Running') = Cardinality(Running)
         /\ task[t] \notin {"queued", "found"} /\ stage \in {"queued", "found"}
              => Cardinality(Running') = Cardinality(Running) + 1
         /\ task[t] \in {"queued", "found"} /\ stage \notin {"queued", "found"}
              => Cardinality(Running') = Cardinality(Running) - 1
<1>0. IsFiniteSet(Running) /\ Cardinality(Running) \in Nat
  BY RunningFinite
<1>1. ASSUME task[t] \in {"queued", "found"} <=> stage \in {"queued", "found"}
      PROVE  Running' = Running
  BY <1>1 DEF Running, HitTasks
<1>2. ASSUME task[t] \notin {"queued", "found"}, stage \in {"queued", "found"}
      PROVE  Cardinality(Running') = Cardinality(Running) + 1
  <2>1. Running' = Running \cup {t} /\ t \notin Running
    BY <1>2 DEF Running, HitTasks
  <2> QED BY <1>0, <2>1, FS_AddElement
<1>3. ASSUME task[t] \in {"queued", "found"}, stage \notin {"queued", "found"}
      PROVE  Cardinality(Running') = Cardinality(Running) - 1
  <2>1. Running' = Running \ {t} /\ t \in Running
    BY <1>3 DEF Running, HitTasks
  <2> QED BY <1>0, <2>1, FS_RemoveElement
<1> QED BY <1>1, <1>2, <1>3

LEMMA CountStep ==
  ASSUME BarrierTypeOK, CountSound, [BarrierNext]_barrierVars
  PROVE  CountSound'
<1> SUFFICES ASSUME pc' # "crashed"
             PROVE  barrier'.pending = Cardinality(Running')
  BY DEF CountSound, Running
<1>0. /\ barrier \in Barrier /\ Ordered(barrier)
      /\ task \in [Tasks -> {"none", "queued", "found", "reported", "late", "applied",
                             "unmarked", "clear", "lost"}]
  BY RunningFinite DEF BarrierTypeOK, Barrier, Ordered
<1>1. ASSUME pc = "crashed" PROVE FALSE
  BY <1>1, StepCases DEF EnqueueInput, EnqueueOutput, Finish, Find, Report, LateApply, LateMark,
     LateRemove, Generate, FailGeneration, EndGeneration, MarkModerating, MarkOutputsEnqueued, WaitAll, Settle,
     ApplyBlock, RemovePendingBlock, Pass, FinalizeMessages, Upsert, RetrySnapshot, RetryWrite,
     RetryRemove, StaleList, StaleWrite, PeerList, PeerWrite, Crash, barrierVars, StartTask
<1>2. barrier.pending = Cardinality(Running) /\ Cardinality(Running) \in Nat
  BY <1>1, RunningFinite DEF CountSound, Running
<1>3. ASSUME NEW t \in Tasks, EnqueueInput(t) \/ EnqueueOutput(t)
      PROVE  barrier'.pending = Cardinality(Running')
  <2> DEFINE counted == [barrier EXCEPT !.pending = @ + 1]
  <2>1. counted \in Barrier /\ Ordered(counted) /\ counted.pending = barrier.pending + 1
    BY <1>0 DEF Barrier, Ordered
  <2>2. /\ task[t] = "none"
        /\ \/ task' = [task EXCEPT ![t] = "queued"] /\ barrier' = counted
           \/ task' = [task EXCEPT ![t] = "clear"] /\ barrier' = WithResult(counted, "error", Dir(t))
    BY <1>3 DEF EnqueueInput, EnqueueOutput, StartTask
  <2> HIDE DEF counted
  <2>3. WithResult(counted, "error", Dir(t)).pending = barrier.pending
    BY <1>0, <2>1, WithResultIs, TaskDirection DEF Barrier
  <2>4. CASE task' = [task EXCEPT ![t] = "queued"] /\ barrier' = counted
    BY <1>0, <1>2, <2>1, <2>2, <2>4, RunningStep
  <2>5. CASE task' = [task EXCEPT ![t] = "clear"] /\ barrier'.pending = barrier.pending
    BY <1>0, <1>2, <2>2, <2>5, RunningStep
  <2> QED BY <2>2, <2>3, <2>4, <2>5
<1>4. ASSUME NEW t \in Tasks, NEW result \in {"clear", "error"}, Finish(t, result)
      PROVE  barrier'.pending = Cardinality(Running')
  <2>1. barrier'.pending = barrier.pending - 1
    BY <1>0, <1>4, WithResultIs, TaskDirection DEF Finish
  <2>2. task[t] = "queued" /\ \E stage \in {"clear"} : task' = [task EXCEPT ![t] = stage]
    BY <1>4 DEF Finish
  <2>3. Cardinality(Running') = Cardinality(Running) - 1
    BY <1>0, <2>2, RunningStep
  <2> QED BY <1>2, <2>1, <2>3
<1>5. ASSUME NEW t \in Tasks, Report(t)
      PROVE  barrier'.pending = Cardinality(Running')
  <2>1. barrier'.pending = barrier.pending - 1
    BY <1>0, <1>5, WithResultIs, TaskDirection DEF Report
  <2>2. /\ task[t] = "found"
        /\ \E stage \in {"late", "reported"} : task' = [task EXCEPT ![t] = stage]
    BY <1>5 DEF Report
  <2>3. Cardinality(Running') = Cardinality(Running) - 1
    BY <1>0, <2>2, RunningStep
  <2> QED BY <1>2, <2>1, <2>3
<1>6. ASSUME NEW t \in Tasks, Find(t) PROVE barrier'.pending = Cardinality(Running')
  <2>1. task[t] = "queued" /\ task' = [task EXCEPT ![t] = "found"] /\ barrier' = barrier
    BY <1>6 DEF Find
  <2> QED BY <1>0, <1>2, <2>1, RunningStep
<1>7. ASSUME NEW t \in Tasks, LateApply(t) PROVE barrier'.pending = Cardinality(Running')
  BY <1>0, <1>2, <1>7, RunningStep DEF LateApply
<1>8. ASSUME NEW t \in Tasks, LateMark(t) \/ LateRemove(t) PROVE barrier'.pending = Cardinality(Running')
  BY <1>0, <1>2, <1>8, RunningStep DEF LateMark, LateRemove
<1>9. ASSUME UNCHANGED task, barrier'.pending = barrier.pending
      PROVE  barrier'.pending = Cardinality(Running')
  BY <1>2, <1>9 DEF Running, HitTasks
<1>10. ASSUME FailGeneration \/ MarkOutputsEnqueued PROVE barrier'.pending = barrier.pending
  <2> DEFINE enqueued == [barrier EXCEPT !.outputEnqueued = TRUE]
  <2>1. enqueued \in Barrier /\ Ordered(enqueued) /\ enqueued.pending = barrier.pending
    BY <1>0 DEF Barrier, Ordered
  <2>2. barrier' = AllClosed(enqueued)
    BY <1>10 DEF FailGeneration, MarkOutputsEnqueued
  <2> HIDE DEF enqueued
  <2> QED BY <2>1, <2>2, ClosedIs
<1>11. ASSUME WaitAll \/ Settle \/ ApplyBlock \/ RemovePendingBlock \/ Pass
       PROVE  barrier'.pending = barrier.pending
  BY <1>0, <1>11 DEF WaitAll, Settle, ApplyBlock, RemovePendingBlock, Pass, Barrier
<1>12. ASSUME FailGeneration \/ MarkOutputsEnqueued \/ WaitAll \/ Settle \/ ApplyBlock \/ RemovePendingBlock
              \/ Pass
       PROVE  barrier'.pending = Cardinality(Running')
  BY <1>9, <1>10, <1>11, <1>12 DEF FailGeneration, MarkOutputsEnqueued, WaitAll, Settle, ApplyBlock,
     RemovePendingBlock, Pass
<1>13. ASSUME Generate \/ (\E how \in {"success", "kept"} : EndGeneration(how)) \/ MarkModerating
              \/ FinalizeMessages \/ Upsert \/ RetrySnapshot \/ RetryWrite \/ RetryRemove
              \/ StaleList \/ StaleWrite \/ PeerList \/ PeerWrite \/ UNCHANGED barrierVars
       PROVE  barrier'.pending = Cardinality(Running')
  BY <1>9, <1>13 DEF Generate, EndGeneration, MarkModerating, FinalizeMessages, Upsert, RetrySnapshot,
     RetryWrite, RetryRemove, StaleList, StaleWrite, PeerList, PeerWrite, barrierVars
<1>14. ~ Crash
  BY DEF Crash, Goto
<1> QED BY <1>3, <1>4, <1>5, <1>6, <1>7, <1>8, <1>12, <1>13, <1>14, StepCases

-----------------------------------------------------------------------------
(* The types *)

RowsOK ==
  /\ run \in [state : {"pending", "moderating", "passed", "failed_open", "blocked"},
              status : {"running", "success", "error", "blocked"}]
  /\ user \in {"pending", "success", "error", "blocked"}
  /\ answer \in [status : {"pending", "success", "error", "blocked"}, content : BOOLEAN]

LEMMA RowsStep ==
  ASSUME RowsOK
  PROVE  /\ \A d : ApplyRunBlock(d) => RowsOK'
         /\ \A state \in {"moderating", "passed", "failed_open"} : UpdateRunModeration(state) => RowsOK'
         /\ WriteMessages => RowsOK'
         /\ UNCHANGED rows => RowsOK'
<1>1. ASSUME NEW d, ApplyRunBlock(d) PROVE RowsOK'
  BY <1>1 DEF ApplyRunBlock, RowsOK
<1>2. ASSUME NEW state \in {"moderating", "passed", "failed_open"}, UpdateRunModeration(state) PROVE RowsOK'
  BY <1>2 DEF UpdateRunModeration, RowsOK
<1>3. ASSUME WriteMessages PROVE RowsOK'
  BY <1>3 DEF WriteMessages, RowsOK
<1>4. ASSUME UNCHANGED rows PROVE RowsOK'
  BY <1>4 DEF rows, RowsOK
<1> QED BY <1>1, <1>2, <1>3, <1>4

LEMMA FaultsStep ==
  ASSUME faults \in 0..MaxFaults
  PROVE  Works \/ Fails \/ UNCHANGED faults => faults' \in 0..MaxFaults
BY ModerationAssumption DEF Works, Fails

\* What BarrierTypeOK says of everything but the barrier.
RestOK ==
  /\ pc \in {"starting", "generating", "marking", "enqueuing", "waiting", "settling", "blocking",
             "applied", "passing", "finalizing", "upserting", "ended", "crashed"}
  /\ task \in [Tasks -> {"none", "queued", "found", "reported", "late", "applied",
                     "unmarked", "clear", "lost"}]
  /\ outcome \in {"undecided", "passed", "failed_open"} \cup Directions
  /\ canceled \in BOOLEAN /\ ending \in {"running", "success", "kept", "failed"}
  /\ RowsOK
  /\ lastHit \in Directions \cup {"none"} /\ pendingBlock \in Directions \cup {"none"}
  /\ loop \in {"idle", "write", "remove", "list", "listed"} \X (Directions \cup {"none"})
  /\ peer \in {"absent", "idle", "listed"} \cup Directions /\ faults \in 0..MaxFaults

LEMMA TypeParts ==
  /\ BarrierTypeOK <=> /\ barrier \in Barrier /\ Ordered(barrier)
                /\ barrier.pending \in 0..Cardinality(Tasks) /\ RestOK
  /\ BarrierTypeOK' <=> /\ barrier' \in Barrier /\ Ordered(barrier')
                 /\ barrier'.pending \in 0..Cardinality(Tasks) /\ RestOK'
BY RunningFinite DEF BarrierTypeOK, RestOK, RowsOK, Barrier, Ordered

LEMMA RestStep ==
  ASSUME RestOK, barrier \in Barrier, PhasesSound, [BarrierNext]_barrierVars
  PROVE  RestOK'
<1>0. /\ \A d : ApplyRunBlock(d) => RowsOK'
      /\ \A state \in {"moderating", "passed", "failed_open"} : UpdateRunModeration(state) => RowsOK'
      /\ WriteMessages => RowsOK'
      /\ UNCHANGED rows => RowsOK'
      /\ Works \/ Fails \/ UNCHANGED faults => faults' \in 0..MaxFaults
  BY RowsStep, FaultsStep DEF RestOK
<1>1. ASSUME NEW t \in Tasks, EnqueueInput(t) \/ EnqueueOutput(t) PROVE RestOK'
  BY <1>0, <1>1 DEF EnqueueInput, EnqueueOutput, StartTask, RestOK, recovery
<1>2. ASSUME NEW t \in Tasks, NEW result \in {"clear", "error"}, Finish(t, result) PROVE RestOK'
  BY <1>0, <1>2 DEF Finish, RestOK, recovery
<1>3. ASSUME NEW t \in Tasks, Find(t) PROVE RestOK'
  BY <1>0, <1>3, TaskDirection DEF Find, RestOK, recovery
<1>4. ASSUME NEW t \in Tasks, Report(t) PROVE RestOK'
  BY <1>0, <1>4 DEF Report, RestOK, recovery
<1>5. ASSUME NEW t \in Tasks, LateApply(t) PROVE RestOK'
  BY <1>0, <1>5, TaskDirection DEF LateApply, RestOK
<1>6. ASSUME NEW t \in Tasks, LateMark(t) PROVE RestOK'
  BY <1>0, <1>6 DEF LateMark, Attempt, RestOK, recovery
<1>7. ASSUME NEW t \in Tasks, LateRemove(t) PROVE RestOK'
  BY <1>0, <1>7 DEF LateRemove, RestOK
<1>8. CASE Generate \/ FailGeneration \/ MarkOutputsEnqueued \/ WaitAll
  BY <1>0, <1>8 DEF Generate, FailGeneration, MarkOutputsEnqueued, WaitAll, Goto, RestOK, recovery
<1>9. ASSUME NEW how \in {"success", "kept"}, EndGeneration(how) PROVE RestOK'
  <2>1. RowsOK'
    BY <1>9 DEF EndGeneration, RestOK, RowsOK
  <2> QED BY <1>9, <2>1 DEF EndGeneration, Goto, RestOK, recovery
<1>10. CASE MarkModerating
  BY <1>0, <1>10 DEF MarkModerating, Attempt, Goto, RestOK, recovery
<1>11. CASE Settle
  BY <1>0, <1>11 DEF Settle, Goto, RestOK, Barrier, recovery
<1>12. CASE ApplyBlock
  <2>1. pc = "blocking" => outcome \in Directions
    BY DEF PhasesSound
  <2> QED BY <1>0, <1>12, <2>1 DEF ApplyBlock, Goto, RestOK
<1>13. CASE RemovePendingBlock
  BY <1>0, <1>13 DEF RemovePendingBlock, Goto, RestOK
<1>14. CASE Pass
  <2>1. pc = "passing" => outcome \in {"passed", "failed_open"}
    BY DEF PhasesSound, Unsettled, RestOK
  <2> QED BY <1>0, <1>14, <2>1 DEF Pass, Attempt, Goto, RestOK, recovery
<1>15. CASE FinalizeMessages
  BY <1>0, <1>15 DEF FinalizeMessages, Attempt, Goto, RestOK, recovery
<1>16. CASE Upsert
  <2>1. pc = "upserting" => outcome \in Directions \cup {"passed", "failed_open"}
    BY DEF PhasesSound, Unsettled, RestOK
  <2>2. RowsOK'
    BY <1>0, <1>16, <2>1 DEF Upsert, Attempt, RestOK, RowsOK
  <2> QED BY <1>0, <1>16, <2>2 DEF Upsert, Attempt, Goto, RestOK, recovery
<1>17. CASE RetrySnapshot \/ RetryRemove \/ StaleList \/ PeerList
  BY <1>0, <1>17 DEF RetrySnapshot, RetryRemove, StaleList, PeerList, At, RestOK
<1>18. CASE RetryWrite
  BY <1>0, <1>18 DEF RetryWrite, RestOK
<1>19. CASE StaleWrite
  BY <1>0, <1>19 DEF StaleWrite, At, Attempt, RestOK
<1>20. CASE PeerWrite
  BY <1>0, <1>20 DEF PeerWrite, Attempt, RestOK
<1>21. CASE Crash
  BY <1>0, <1>21 DEF Crash, Goto, RestOK
<1>22. CASE UNCHANGED barrierVars
  BY <1>0, <1>22 DEF barrierVars, rows, RestOK
<1> QED BY <1>1, <1>2, <1>3, <1>4, <1>5, <1>6, <1>7, <1>8, <1>9, <1>10, <1>11, <1>12, <1>13, <1>14,
           <1>15, <1>16, <1>17, <1>18, <1>19, <1>20, <1>21, <1>22, StepCases

LEMMA BarrierTypeStep ==
  ASSUME BarrierTypeOK, CountSound, CountSound', PhasesSound, [BarrierNext]_barrierVars
  PROVE  BarrierTypeOK'
<1>0. barrier \in Barrier /\ Ordered(barrier)
  BY RunningFinite DEF BarrierTypeOK, Barrier, Ordered
<1>1. barrier' \in Barrier /\ Ordered(barrier')
  BY <1>0, BarrierStep
<1>2. barrier'.pending \in 0..Cardinality(Tasks)
  <2>1. CASE pc' # "crashed"
    <3>1. barrier'.pending = Cardinality(Running')
      BY <2>1 DEF CountSound, Running
    <3>2. Cardinality(Running') \in 0..Cardinality(Tasks)
      BY RunningFinite
    <3> QED BY <3>1, <3>2
  <2>2. CASE pc' = "crashed"
    <3>1. barrier' = barrier
      BY <2>2, BarrierCases DEF EnqueueInput, EnqueueOutput, Finish, Report, FailGeneration, MarkOutputsEnqueued,
         WaitAll, Settle, ApplyBlock, RemovePendingBlock, Pass, Goto, PhasesSound
    <3> QED BY <3>1 DEF BarrierTypeOK
  <2> QED BY <2>1, <2>2
<1>3. RestOK'
  BY <1>0, RestStep, TypeParts
<1> QED BY <1>1, <1>2, <1>3, TypeParts

-----------------------------------------------------------------------------
(* Hits *)

\* Only a report and the settlement change what the barrier knows of a block.
LEMMA BlockKept ==
  ASSUME barrier \in Barrier, Ordered(barrier), [BarrierNext]_barrierVars, \A t \in Tasks : ~Report(t), ~Settle
  PROVE  /\ barrier'.block = barrier.block /\ barrier'.settled = barrier.settled
         /\ barrier'.handled = barrier.handled
<1> DEFINE Kept == /\ barrier'.block = barrier.block /\ barrier'.settled = barrier.settled
                   /\ barrier'.handled = barrier.handled
<1>1. ASSUME NEW t \in Tasks, EnqueueInput(t) \/ EnqueueOutput(t) PROVE Kept
  <2> DEFINE counted == [barrier EXCEPT !.pending = @ + 1]
  <2>1. /\ counted \in Barrier /\ Ordered(counted) /\ counted.block = barrier.block
        /\ counted.settled = barrier.settled /\ counted.handled = barrier.handled
    BY DEF Barrier, Ordered
  <2>2. \/ barrier' = counted
        \/ barrier' = WithResult(counted, "error", Dir(t))
    BY <1>1 DEF EnqueueInput, EnqueueOutput, StartTask
  <2> HIDE DEF counted
  <2> QED BY <2>1, <2>2, WithResultIs, TaskDirection
<1>2. ASSUME NEW t \in Tasks, NEW result \in {"clear", "error"}, Finish(t, result) PROVE Kept
  BY <1>2, WithResultIs, TaskDirection DEF Finish
<1>3. CASE FailGeneration \/ MarkOutputsEnqueued
  <2> DEFINE enqueued == [barrier EXCEPT !.outputEnqueued = TRUE]
  <2>1. /\ enqueued \in Barrier /\ Ordered(enqueued) /\ enqueued.block = barrier.block
        /\ enqueued.settled = barrier.settled /\ enqueued.handled = barrier.handled
    BY DEF Barrier, Ordered
  <2>2. barrier' = AllClosed(enqueued)
    BY <1>3 DEF FailGeneration, MarkOutputsEnqueued
  <2> HIDE DEF enqueued
  <2> QED BY <2>1, <2>2, ClosedIs
<1>4. CASE WaitAll \/ ApplyBlock \/ RemovePendingBlock \/ Pass
  BY <1>4 DEF WaitAll, ApplyBlock, RemovePendingBlock, Pass, Barrier
<1>5. barrier' = barrier => Kept
  OBVIOUS
<1> QED BY <1>1, <1>2, <1>3, <1>4, <1>5, BarrierCases

\* A reported hit makes a block, unless there is one that stands above it.
Wins(t) == Prefers(Dir(t), barrier.block) \/ (barrier.settled /\ ~barrier.handled)

LEMMA BlockReported ==
  ASSUME barrier \in Barrier, Ordered(barrier), NEW t \in Tasks, Report(t)
  PROVE  /\ barrier'.settled = barrier.settled
         /\ Wins(t) => barrier'.block = Dir(t) /\ barrier'.handled = barrier.settled
         /\ ~Wins(t) => barrier'.block = barrier.block /\ barrier'.handled = barrier.handled
BY WithResultIs, TaskDirection DEF Report, Wins

LEMMA Settled ==
  ASSUME barrier \in Barrier, Settle
  PROVE  /\ barrier'.block = barrier.block /\ barrier'.settled = TRUE
         /\ barrier'.handled = (barrier.block # "none")
BY DEF Settle, Barrier

\* Every other step of a check moves it where it was a hit before, or was none.
LEMMA HitsKept ==
  ASSUME BarrierTypeOK, [BarrierNext]_barrierVars, \A t \in Tasks : ~Report(t)
  PROVE  /\ Hits' \subseteq Hits
         /\ pc' # "crashed" => (OutputHit => OutputHit')
<1>0. task \in [Tasks -> {"none", "queued", "found", "reported", "late", "applied",
                          "unmarked", "clear", "lost"}]
  BY DEF BarrierTypeOK
<1>1. ASSUME NEW t \in Tasks, EnqueueInput(t) \/ EnqueueOutput(t)
      PROVE  Hits' = Hits /\ HitTasks({"found"})' = HitTasks({"found"})
  BY <1>0, <1>1 DEF EnqueueInput, EnqueueOutput, StartTask, Hits, HitTasks
<1>2. ASSUME NEW t \in Tasks, NEW result \in {"clear", "error"}, Finish(t, result)
      PROVE  Hits' = Hits /\ HitTasks({"found"})' = HitTasks({"found"})
  BY <1>0, <1>2 DEF Finish, Hits, HitTasks
<1>3. ASSUME NEW t \in Tasks, Find(t)
      PROVE  Hits' = Hits /\ HitTasks({"found"})' = HitTasks({"found"}) \cup {t}
  BY <1>0, <1>3 DEF Find, Hits, HitTasks
<1>4. ASSUME NEW t \in Tasks, LateApply(t) \/ LateMark(t) \/ LateRemove(t)
      PROVE  Hits' = Hits /\ HitTasks({"found"})' = HitTasks({"found"})
  BY <1>0, <1>4 DEF LateApply, LateMark, LateRemove, Hits, HitTasks
<1>5. CASE Crash
  BY <1>0, <1>5 DEF Crash, Goto, Hits, HitTasks
<1>6. CASE UNCHANGED task
  BY <1>6 DEF OutputHit, Hits, HitTasks
<1>7. ASSUME Hits' = Hits, HitTasks({"found"}) \subseteq HitTasks({"found"})'
      PROVE  OutputHit => OutputHit'
  BY <1>7 DEF OutputHit
<1> QED BY <1>1, <1>2, <1>3, <1>4, <1>5, <1>6, <1>7, StepCases DEF Generate, FailGeneration, EndGeneration,
     MarkModerating, MarkOutputsEnqueued, WaitAll, Settle, ApplyBlock, RemovePendingBlock, Pass,
     FinalizeMessages, Upsert, RetrySnapshot, RetryWrite, RetryRemove, StaleList, StaleWrite,
     PeerList, PeerWrite, barrierVars

LEMMA HitReported ==
  ASSUME BarrierTypeOK, NEW t \in Tasks, Report(t)
  PROVE  /\ Hits' = Hits \cup {t} /\ OutputHit' = OutputHit
         /\ barrier.settled /\ (~barrier.handled \/ Prefers(Dir(t), barrier.block)) => task'[t] = "late"
         /\ task'[t] = "late" => barrier.settled /\ (~barrier.handled \/ Prefers(Dir(t), barrier.block))
         /\ task'[t] \in {"reported", "late"} /\ \A u \in Tasks : u # t => task'[u] = task[u]
<1>0. task \in [Tasks -> {"none", "queued", "found", "reported", "late", "applied",
                          "unmarked", "clear", "lost"}]
  BY DEF BarrierTypeOK
<1>1. /\ task[t] = "found" /\ task'[t] \in {"reported", "late"}
      /\ \A u \in Tasks : u # t => task'[u] = task[u]
      /\ task' \in [Tasks -> {"none", "queued", "found", "reported", "late", "applied",
                          "unmarked", "clear", "lost"}]
  BY <1>0 DEF Report
<1>2. Hits' = Hits \cup {t} /\ HitTasks({"found"})' = HitTasks({"found"}) \ {t}
  BY <1>1 DEF Hits, HitTasks
<1>3. t \in HitTasks({"found"})
  BY <1>1 DEF HitTasks
<1>4. OutputHit' = OutputHit
  BY <1>2, <1>3 DEF OutputHit
<1> QED BY <1>0, <1>1, <1>2, <1>4 DEF Report

LEMMA BlockStep ==
  ASSUME BarrierTypeOK, HitIsNeverForgotten, [BarrierNext]_barrierVars
  PROVE  HitIsNeverForgotten'
<1>0. barrier \in Barrier /\ Ordered(barrier)
  BY TypeParts
<1>1. ASSUME NEW t \in Tasks, Report(t) PROVE HitIsNeverForgotten'
  <2>1. Hits' = Hits \cup {t}
    BY <1>1, HitReported
  <2>2. Wins(t) => HitIsNeverForgotten'
    <3> SUFFICES ASSUME Wins(t) PROVE HitIsNeverForgotten'
      OBVIOUS
    <3>1. /\ barrier'.block = Dir(t) /\ Dir(t) \in Directions
          /\ barrier'.handled = barrier.settled /\ barrier'.settled = barrier.settled
      BY <1>0, <1>1, BlockReported, TaskDirection
    <3>2. Hits' \cap InputTasks # {} => Dir(t) = "input"
      <4>1. Hits \cap InputTasks # {} => barrier.block = "input" /\ (barrier.settled => barrier.handled)
        BY DEF HitIsNeverForgotten
      <4>2. t \in InputTasks => Dir(t) = "input"
        BY DEF Dir
      <4> QED BY <2>1, <4>1, <4>2 DEF Wins, Prefers
    <3> QED BY <3>1, <3>2 DEF HitIsNeverForgotten, Directions
  <2>3. ~Wins(t) => HitIsNeverForgotten'
    <3> SUFFICES ASSUME ~Wins(t) PROVE HitIsNeverForgotten'
      OBVIOUS
    <3>1. /\ barrier'.block = barrier.block /\ barrier'.handled = barrier.handled
          /\ barrier'.settled = barrier.settled
      BY <1>0, <1>1, BlockReported
    <3>2. barrier.block # "none" /\ (barrier.settled => barrier.handled)
      BY DEF Wins, Prefers
    <3>3. t \in InputTasks => barrier.block = "input"
      BY DEF Wins, Prefers, Dir
    <3> QED BY <2>1, <3>1, <3>2, <3>3 DEF HitIsNeverForgotten
  <2> QED BY <2>2, <2>3
<1>2. CASE Settle
  <2>1. Hits' \subseteq Hits /\ \A t \in Tasks : ~Report(t)
    BY <1>2 DEF Settle, Report, Hits, HitTasks, Goto
  <2> QED BY <1>0, <1>2, <2>1, Settled DEF HitIsNeverForgotten
<1>3. CASE (\A t \in Tasks : ~Report(t)) /\ ~Settle
  <2>1. Hits' \subseteq Hits
    BY <1>3, HitsKept
  <2> QED BY <1>0, <1>3, <2>1, BlockKept DEF HitIsNeverForgotten
<1> QED BY <1>1, <1>2, <1>3

LEMMA DecisionStep ==
  ASSUME BarrierTypeOK, DecisionSound, [BarrierNext]_barrierVars
  PROVE  DecisionSound'
<1>0. barrier \in Barrier /\ Ordered(barrier)
  BY TypeParts
<1>1. ASSUME NEW t \in Tasks, Report(t) PROVE DecisionSound'
  <2>1. outcome' = outcome /\ barrier'.settled = barrier.settled /\ Dir(t) \in Directions
    BY <1>0, <1>1, BlockReported, TaskDirection DEF Report
  <2>2. CASE Wins(t)
    <3>1. barrier'.block = Dir(t) /\ barrier'.handled = barrier.settled
      BY <1>0, <1>1, <2>2, BlockReported
    <3>2. outcome # "input"
      BY <2>2 DEF DecisionSound, Wins, Prefers, Directions
    <3> QED BY <2>1, <3>1, <3>2 DEF DecisionSound, Directions
  <2>3. CASE ~Wins(t)
    <3>1. barrier'.block = barrier.block /\ barrier'.handled = barrier.handled
      BY <1>0, <1>1, <2>3, BlockReported
    <3> QED BY <2>1, <3>1 DEF DecisionSound
  <2> QED BY <2>2, <2>3
<1>2. CASE Settle
  <2>1. /\ barrier.block # "none" => outcome' = barrier.block
        /\ barrier.block = "none" => outcome' \notin Directions
    BY <1>2 DEF Settle, Directions
  <2> QED BY <1>0, <1>2, <2>1, Settled DEF DecisionSound, Directions
<1>3. CASE (\A t \in Tasks : ~Report(t)) /\ ~Settle
  <2>1. outcome' = outcome
    BY <1>3, StepCases DEF EnqueueInput, EnqueueOutput, StartTask, Finish, Find, LateApply,
       LateMark, LateRemove, Generate, FailGeneration, EndGeneration, MarkModerating, MarkOutputsEnqueued, WaitAll,
       ApplyBlock, RemovePendingBlock, Pass, FinalizeMessages, Upsert, RetrySnapshot, RetryWrite,
       RetryRemove, StaleList, StaleWrite, PeerList, PeerWrite, Crash, barrierVars
  <2> QED BY <1>0, <1>3, <2>1, BlockKept DEF DecisionSound
<1> QED BY <1>1, <1>2, <1>3

LEMMA RecordStep ==
  ASSUME BarrierTypeOK, RecordSound, [BarrierNext]_barrierVars
  PROVE  RecordSound'
<1>1. pc' # "crashed" => pc # "crashed"
  BY StepCases DEF EnqueueInput, EnqueueOutput, StartTask, Finish, Find, Report, LateApply,
     LateMark, LateRemove, Generate, FailGeneration, EndGeneration, MarkModerating, MarkOutputsEnqueued, WaitAll,
     Settle, ApplyBlock, RemovePendingBlock, Pass, FinalizeMessages, Upsert, RetrySnapshot,
     RetryWrite, RetryRemove, StaleList, StaleWrite, PeerList, PeerWrite, Crash, barrierVars
<1>2. ASSUME NEW t \in Tasks, Report(t) PROVE RecordSound'
  BY <1>1, <1>2, HitReported DEF RecordSound, Report
<1>3. ASSUME NEW t \in Tasks, Find(t) PROVE RecordSound'
  <2>1. \A u \in Tasks : ~Report(u)
    BY <1>3 DEF Find, Report, BarrierTypeOK
  <2>2. pc' # "crashed" => (OutputHit => OutputHit')
    BY <2>1, HitsKept
  <2>3. CASE lastHit' = lastHit
    BY <1>1, <2>2, <2>3 DEF RecordSound
  <2>4. CASE lastHit' = Dir(t) /\ Dir(t) = "output"
    <3>1. t \in OutputTasks /\ task'[t] = "found"
      BY <1>3, <2>4 DEF Find, BarrierTypeOK, Dir, Tasks
    <3> QED BY <3>1 DEF RecordSound, OutputHit, HitTasks
  <2>5. CASE lastHit' = Dir(t) /\ Dir(t) # "output"
    BY <2>5 DEF RecordSound
  <2> QED BY <1>3, <2>3, <2>4, <2>5 DEF Find
<1>4. CASE \A t \in Tasks : ~Report(t) /\ ~Find(t)
  <2>1. lastHit' = lastHit
    BY <1>4, StepCases DEF EnqueueInput, EnqueueOutput, StartTask, Finish, LateApply,
       LateMark, LateRemove, Generate, FailGeneration, EndGeneration, MarkModerating, MarkOutputsEnqueued, WaitAll,
       Settle, ApplyBlock, RemovePendingBlock, Pass, FinalizeMessages, Upsert, RetrySnapshot,
       RetryWrite, RetryRemove, StaleList, StaleWrite, PeerList, PeerWrite, Crash, barrierVars
  <2> QED BY <1>1, <1>4, <2>1, HitsKept DEF RecordSound
<1> QED BY <1>2, <1>3, <1>4

-----------------------------------------------------------------------------
(* The order of things *)

LEMMA PhasesStep ==
  ASSUME BarrierTypeOK, PhasesSound, [BarrierNext]_barrierVars
  PROVE  PhasesSound'
<1>0. /\ barrier \in Barrier /\ Ordered(barrier) /\ loop = <<loop[1], loop[2]>>
      /\ task \in [Tasks -> {"none", "queued", "found", "reported", "late", "applied",
                             "unmarked", "clear", "lost"}]
  BY TypeParts DEF BarrierTypeOK
<1>1. ASSUME NEW t \in Tasks, Report(t) PROVE PhasesSound'
  <2>1. barrier'.settled = barrier.settled
    BY <1>0, <1>1, BlockReported
  <2>2. /\ task[t] = "found" /\ (task'[t] = "late" => barrier.settled)
        /\ task'[t] \in {"reported", "late"} /\ \A u \in Tasks : u # t => task'[u] = task[u]
    BY <1>1, HitReported DEF Report
  <2>3. UNCHANGED <<pc, outcome, pendingBlock, loop>> /\ pc # "crashed"
    BY <1>1, <2>2 DEF Report, recovery, PhasesSound
  <2> QED BY <2>1, <2>2, <2>3 DEF PhasesSound, Unsettled
<1>2. CASE Settle
  <2>1. barrier'.settled = TRUE /\ pc = "settling"
    BY <1>0, <1>2, Settled DEF Settle
  <2>2. \/ pc' = "blocking" /\ outcome' = barrier.block /\ barrier.block \in Directions
        \/ pc' = "passing" /\ outcome' \in {"failed_open", "passed"}
    BY <1>0, <1>2 DEF Settle, Goto, Barrier
  <2> QED BY <1>2, <2>1, <2>2 DEF PhasesSound, Settle, Unsettled, recovery, Directions
<1>3. CASE (\A t \in Tasks : ~Report(t)) /\ ~Settle
  <2>0. barrier'.settled = barrier.settled
    BY <1>0, <1>3, BlockKept
  <2>1. ASSUME NEW t \in Tasks, EnqueueInput(t) \/ EnqueueOutput(t) PROVE PhasesSound'
    BY <1>0, <2>0, <2>1 DEF EnqueueInput, EnqueueOutput, StartTask, PhasesSound, Unsettled, recovery
  <2>2. ASSUME NEW t \in Tasks, NEW result \in {"clear", "error"}, Finish(t, result) PROVE PhasesSound'
    BY <1>0, <2>0, <2>2 DEF Finish, PhasesSound, Unsettled, recovery
  <2>3. ASSUME NEW t \in Tasks, Find(t) PROVE PhasesSound'
    BY <1>0, <2>0, <2>3 DEF Find, PhasesSound, Unsettled, recovery
  <2>4. ASSUME NEW t \in Tasks, LateApply(t) PROVE PhasesSound'
    BY <1>0, <2>0, <2>4 DEF LateApply, PhasesSound, Unsettled
  <2>5. ASSUME NEW t \in Tasks, LateMark(t) PROVE PhasesSound'
    BY <1>0, <2>0, <2>5 DEF LateMark, PhasesSound, Unsettled, recovery
  <2>6. ASSUME NEW t \in Tasks, LateRemove(t) PROVE PhasesSound'
    BY <1>0, <2>0, <2>6 DEF LateRemove, PhasesSound, Unsettled
  <2>7. ASSUME Generate \/ FailGeneration \/ (\E how \in {"success", "kept"} : EndGeneration(how)) \/ MarkModerating
               \/ MarkOutputsEnqueued \/ WaitAll PROVE PhasesSound'
    BY <2>0, <2>7 DEF Generate, FailGeneration, EndGeneration, MarkModerating, MarkOutputsEnqueued, WaitAll, Goto,
       PhasesSound, Unsettled, recovery
  <2>8. CASE ApplyBlock \/ RemovePendingBlock \/ Pass
    BY <2>0, <2>8 DEF ApplyBlock, RemovePendingBlock, Pass, Goto, PhasesSound, Unsettled, recovery
  <2>9. CASE FinalizeMessages \/ Upsert
    BY <2>0, <2>9 DEF FinalizeMessages, Upsert, Goto, PhasesSound, Unsettled, recovery
  <2>10. CASE RetrySnapshot \/ RetryWrite \/ RetryRemove
    BY <1>0, <2>0, <2>10 DEF RetrySnapshot, RetryWrite, RetryRemove, At, PhasesSound, Unsettled
  <2>11. CASE StaleList \/ StaleWrite
    BY <1>0, <2>0, <2>11 DEF StaleList, StaleWrite, At, PhasesSound, Unsettled
  <2>12. CASE PeerList \/ PeerWrite
    BY <2>0, <2>12 DEF PeerList, PeerWrite, PhasesSound, Unsettled
  <2>13. CASE Crash
    BY <1>0, <2>0, <2>13 DEF Crash, Goto, PhasesSound, Unsettled
  <2>14. CASE UNCHANGED barrierVars
    BY <2>14 DEF barrierVars, PhasesSound, Unsettled
  <2> QED BY <1>3, <2>1, <2>2, <2>3, <2>4, <2>5, <2>6, <2>7, <2>8, <2>9, <2>10, <2>11, <2>12, <2>13,
             <2>14, StepCases
<1> QED BY <1>1, <1>2, <1>3

-----------------------------------------------------------------------------
(* The withdrawal *)

\* A write in a direction that covers the decision withdraws the run.
LEMMA Withdraws ==
  ASSUME RowsOK, NEW d, ApplyRunBlock(d), Covers(d), outcome' = outcome, OutputHit => OutputHit'
  PROVE  Withdrawn(outcome)'
BY DEF ApplyRunBlock, Covers, Withdrawn

\* What was decided stands, and so does a withdrawal.
LEMMA DecisionKept ==
  ASSUME BarrierTypeOK, PhasesSound, outcome \in Directions, [BarrierNext]_barrierVars, pc' # "crashed"
  PROVE  /\ outcome' = outcome /\ pc # "crashed" /\ ~Unsettled
         /\ OutputHit => OutputHit'
         /\ \A d : Covers(d) => Covers(d)'
         /\ Withdrawn(outcome) => Withdrawn(outcome)'
<1>1. ~Unsettled /\ outcome # "undecided"
  BY DEF PhasesSound, Unsettled, Directions
<1>2. ~Settle /\ ~MarkModerating /\ ~Pass /\ \A how : ~EndGeneration(how)
  BY <1>1 DEF PhasesSound, Settle, MarkModerating, Pass, EndGeneration, Unsettled
<1>3. outcome' = outcome /\ pc # "crashed"
  BY <1>1, <1>2, StepCases DEF EnqueueInput, EnqueueOutput, StartTask, Finish, Find, Report, LateApply,
     LateMark, LateRemove, Generate, FailGeneration, MarkOutputsEnqueued, WaitAll,
     ApplyBlock, RemovePendingBlock, FinalizeMessages, Upsert, RetrySnapshot, RetryWrite,
     RetryRemove, StaleList, StaleWrite, PeerList, PeerWrite, Crash, barrierVars
<1>4. OutputHit => OutputHit'
  BY HitsKept, HitReported
<1>5. \A d : Covers(d) => Covers(d)'
  BY <1>3, <1>4 DEF Covers
<1>6. ASSUME Withdrawn(outcome) PROVE Withdrawn(outcome)'
  <2>1. ASSUME UNCHANGED rows PROVE Withdrawn(outcome)'
    BY <1>3, <1>4, <1>6, <2>1 DEF Withdrawn, rows
  <2>2. ASSUME NEW d, ApplyRunBlock(d) PROVE Withdrawn(outcome)'
    BY <1>3, <1>4, <1>6, <2>2 DEF Withdrawn, ApplyRunBlock
  <2>3. ASSUME NEW state \in {"moderating", "failed_open"}, UpdateRunModeration(state)
        PROVE  Withdrawn(outcome)'
    <3>1. run'.state = state
      BY <2>3 DEF UpdateRunModeration, BarrierTypeOK
    <3> QED BY <1>3, <1>4, <1>6, <2>3, <3>1 DEF Withdrawn, UpdateRunModeration
  <2>4. CASE Upsert
    BY <1>3, <1>4, <1>6, <2>1, <2>4 DEF Withdrawn, Upsert, Attempt
  <2>5. CASE FinalizeMessages
    BY <2>1, <2>5 DEF FinalizeMessages
  <2>6. CASE \E t \in Tasks : LateApply(t) \/ LateMark(t) \/ LateRemove(t)
    BY <2>1, <2>2, <2>3, <2>6 DEF LateApply, LateMark, LateRemove, Attempt
  <2>7. CASE ApplyBlock \/ RemovePendingBlock
    BY <2>1, <2>2, <2>7 DEF ApplyBlock, RemovePendingBlock
  <2>8. CASE RetryWrite \/ StaleWrite \/ PeerWrite
    BY <2>1, <2>2, <2>3, <2>8 DEF RetryWrite, StaleWrite, PeerWrite, Attempt
  <2>9. CASE UNCHANGED rows
    BY <2>1, <2>9
  <2> QED BY <1>2, <2>4, <2>5, <2>6, <2>7, <2>8, <2>9, StepCases DEF EnqueueInput, EnqueueOutput,
       StartTask, Finish, Find, Report, Generate, FailGeneration, MarkOutputsEnqueued, WaitAll, RetrySnapshot,
       RetryRemove, StaleList, PeerList, Crash, barrierVars, rows, Goto
<1> QED BY <1>1, <1>3, <1>4, <1>5, <1>6

LEMMA WithdrawalStep ==
  ASSUME BarrierTypeOK, PhasesSound, DecisionSound, RecordSound, WithdrawalSound, [BarrierNext]_barrierVars
  PROVE  WithdrawalSound'
<1> SUFFICES ASSUME pc' # "crashed", outcome' \in Directions
             PROVE  WithdrawalSound'
  BY DEF WithdrawalSound
<1>0. /\ barrier \in Barrier /\ Ordered(barrier) /\ RowsOK /\ loop = <<loop[1], loop[2]>>
      /\ pendingBlock \in Directions \cup {"none"} /\ lastHit \in Directions \cup {"none"}
      /\ task \in [Tasks -> {"none", "queued", "found", "reported", "late", "applied",
                             "unmarked", "clear", "lost"}]
  BY TypeParts DEF BarrierTypeOK, RowsOK
<1>1. CASE outcome \notin Directions
  <2>1. Settle
    BY <1>1, StepCases DEF EnqueueInput, EnqueueOutput, StartTask, Finish, Find, Report, LateApply,
       LateMark, LateRemove, Generate, FailGeneration, EndGeneration, MarkModerating, MarkOutputsEnqueued, WaitAll,
       ApplyBlock, RemovePendingBlock, Pass, FinalizeMessages, Upsert, RetrySnapshot,
       RetryWrite, RetryRemove, StaleList, StaleWrite, PeerList, PeerWrite, Crash, barrierVars
  <2>2. /\ Unsettled /\ pc' \in {"blocking", "passing"}
        /\ UNCHANGED <<task, pendingBlock, loop>>
    BY <2>1 DEF Settle, Goto, Unsettled, recovery
  <2>3. \A t \in Tasks : task'[t] \notin {"late", "applied"}
    BY <2>2 DEF PhasesSound
  <2> QED BY <2>2, <2>3 DEF WithdrawalSound, PhasesSound, HitTasks
<1>2. CASE outcome \in Directions
  <2>0. /\ outcome' = outcome /\ pc # "crashed" /\ ~Unsettled
        /\ OutputHit => OutputHit'
        /\ \A d : Covers(d) => Covers(d)'
        /\ Withdrawn(outcome) => Withdrawn(outcome)'
    BY <1>2, DecisionKept
  <2>1. /\ \A t \in Tasks : task[t] \in {"late", "applied"} => Dir(t) = "input"
        /\ pc = "applied" \/ loop[1] = "remove" \/ HitTasks({"applied"}) # {} => Withdrawn(outcome)
        /\ pendingBlock # "none" => Covers(pendingBlock)
        /\ loop[1] = "write" => Covers(loop[2])
        /\ pc \in {"finalizing", "upserting", "ended"} => Withdrawn(outcome) \/ pendingBlock # "none"
    BY <1>2, <2>0 DEF WithdrawalSound
  <2>2. \A d : ApplyRunBlock(d) /\ Covers(d) => Withdrawn(outcome)'
    BY <1>0, <2>0, Withdraws
  <2>3. Covers("input") /\ Covers(outcome) /\ (lastHit # "none" => Covers(lastHit))
    BY <1>0, <1>2, <2>0 DEF Covers, RecordSound, Directions
  <2> DEFINE Enough(d) == outcome = "input" /\ ~OutputHit' => d = "input"
             Sound ==
               /\ \A t \in Tasks : task'[t] \in {"late", "applied"} => Dir(t) = "input"
               /\ pc' = "applied" \/ loop'[1] = "remove" \/ (\E t \in Tasks : task'[t] = "applied")
                    => Withdrawn(outcome)'
               /\ pendingBlock' # "none" => Enough(pendingBlock')
               /\ loop'[1] = "write" => Enough(loop'[2])
               /\ pc' \in {"finalizing", "upserting", "ended"} => Withdrawn(outcome)' \/ pendingBlock' # "none"
  <2>4. Sound => WithdrawalSound'
    BY <2>0 DEF WithdrawalSound, HitTasks, Covers
  <2>5. (\E t \in Tasks : task[t] = "applied") => Withdrawn(outcome)
    BY <2>1 DEF HitTasks
  <2>6. /\ pendingBlock # "none" => Enough(pendingBlock)
        /\ loop[1] = "write" => Enough(loop[2])
        /\ Enough("input") /\ Enough(outcome) /\ (lastHit # "none" => Enough(lastHit))
    BY <2>0, <2>1, <2>3 DEF Covers
  <2> HIDE DEF Enough
  <2> SUFFICES Sound
    BY <2>4
  <2>7. ASSUME NEW t \in Tasks, Report(t) PROVE Sound
    <3>1. task'[t] = "late" => Dir(t) = "input"
      BY <1>2, <2>7, HitReported DEF DecisionSound, Prefers, Directions
    <3>2. UNCHANGED <<pc, loop, pendingBlock>> /\ task'[t] # "applied" /\ \A u \in Tasks : u # t => task'[u] = task[u]
      BY <2>7, HitReported DEF Report, recovery
    <3> QED BY <1>0, <2>0, <2>1, <2>5, <2>6, <3>1, <3>2
  <2>8. ASSUME NEW t \in Tasks, LateApply(t) PROVE Sound
    <3>1. Dir(t) = "input" /\ UNCHANGED <<pc, loop>>
      BY <2>1, <2>8 DEF LateApply
    <3>2. CASE ApplyRunBlock("input") /\ UNCHANGED pendingBlock /\ task' = [task EXCEPT ![t] = "applied"]
      BY <1>0, <2>1, <2>2, <2>3, <2>6, <3>1, <3>2
    <3>3. CASE pendingBlock' = "input" /\ task' = [task EXCEPT ![t] = "unmarked"]
      BY <1>0, <2>0, <2>1, <2>5, <2>6, <3>1, <3>3
    <3> QED BY <2>8, <3>1, <3>2, <3>3 DEF LateApply
  <2>9. ASSUME NEW t \in Tasks, LateMark(t) \/ Find(t) PROVE Sound
    BY <1>0, <2>0, <2>1, <2>5, <2>6, <2>9 DEF LateMark, Find, recovery
  <2>10. ASSUME NEW t \in Tasks, LateRemove(t) PROVE Sound
    BY <1>0, <2>0, <2>1, <2>5, <2>6, <2>10 DEF LateRemove
  <2>11. ASSUME NEW t \in Tasks, EnqueueInput(t) \/ EnqueueOutput(t) PROVE Sound
    BY <1>0, <2>0, <2>1, <2>5, <2>6, <2>11 DEF EnqueueInput, EnqueueOutput, StartTask, recovery
  <2>12. ASSUME NEW t \in Tasks, NEW result \in {"clear", "error"}, Finish(t, result) PROVE Sound
    BY <1>0, <2>0, <2>1, <2>5, <2>6, <2>12 DEF Finish, recovery
  <2>13. CASE ApplyBlock
    <3>1. CASE ApplyRunBlock(outcome) /\ UNCHANGED <<pendingBlock, task, loop>> /\ pc' = "applied"
      BY <1>0, <2>0, <2>1, <2>2, <2>3, <2>6, <3>1
    <3>2. CASE pendingBlock' = outcome /\ UNCHANGED <<task, loop>> /\ pc' = "finalizing"
      BY <1>0, <1>2, <2>0, <2>1, <2>5, <2>6, <3>2 DEF Directions
    <3> QED BY <2>13, <3>1, <3>2 DEF ApplyBlock, Goto
  <2>14. CASE RemovePendingBlock
    BY <1>0, <2>0, <2>1, <2>5, <2>6, <2>14 DEF RemovePendingBlock, Goto
  <2>15. CASE FinalizeMessages \/ Upsert
    BY <1>0, <2>0, <2>1, <2>5, <2>6, <2>15 DEF FinalizeMessages, Upsert, Goto, recovery
  <2>16. CASE RetrySnapshot
    BY <1>0, <2>0, <2>1, <2>5, <2>6, <2>16 DEF RetrySnapshot, At
  <2>17. CASE RetryWrite
    <3>1. CASE ApplyRunBlock(loop[2]) /\ loop' = <<"remove", "none">> /\ UNCHANGED <<pc, task, pendingBlock>>
      BY <1>0, <2>0, <2>1, <2>2, <2>6, <2>17, <3>1 DEF RetryWrite
    <3>2. CASE loop' = <<"list", "none">> /\ UNCHANGED <<pc, task, pendingBlock>>
      BY <1>0, <2>0, <2>1, <2>5, <2>6, <3>2
    <3> QED BY <2>17, <3>1, <3>2 DEF RetryWrite
  <2>18. CASE RetryRemove
    BY <1>0, <2>0, <2>1, <2>5, <2>6, <2>18 DEF RetryRemove, At
  <2>19. CASE StaleList
    BY <1>0, <2>0, <2>1, <2>5, <2>6, <2>19 DEF StaleList, At
  <2>20. CASE StaleWrite
    <3>1. loop' = <<"idle", "none">> /\ UNCHANGED <<pc, task>>
      BY <2>20 DEF StaleWrite
    <3>2. CASE lastHit # "none" /\ ApplyRunBlock(lastHit)
      <4>1. Withdrawn(outcome)'
        BY <2>2, <2>3, <3>2
      <4> QED BY <1>0, <2>1, <2>6, <2>20, <3>1, <3>2, <4>1 DEF StaleWrite
    <3>3. CASE lastHit # "none" /\ pendingBlock' = lastHit
      BY <1>0, <2>0, <2>1, <2>5, <2>6, <3>1, <3>3
    <3>4. CASE UNCHANGED pendingBlock
      BY <1>0, <2>0, <2>1, <2>5, <2>6, <3>1, <3>4
    <3> QED BY <2>20, <3>2, <3>3, <3>4 DEF StaleWrite
  <2>21. CASE PeerList \/ PeerWrite
    BY <1>0, <2>0, <2>1, <2>5, <2>6, <2>21 DEF PeerList, PeerWrite
  <2>22. CASE UNCHANGED barrierVars
    BY <1>0, <2>0, <2>1, <2>5, <2>6, <2>22 DEF barrierVars
  <2>23. CASE WaitAll \/ FailGeneration \/ MarkOutputsEnqueued
    BY <2>0, <2>23 DEF WaitAll, FailGeneration, MarkOutputsEnqueued, Unsettled
  <2>24. ~Generate /\ ~MarkModerating /\ ~Settle /\ ~Pass /\ ~Crash /\ \A how : ~EndGeneration(how)
    BY <1>2, <2>0 DEF Generate, MarkModerating, Settle, Pass, Crash, EndGeneration, Goto, Unsettled, PhasesSound
  <2> QED BY <2>7, <2>8, <2>9, <2>10, <2>11, <2>12, <2>13, <2>14, <2>15, <2>16, <2>17, <2>18, <2>19,
       <2>20, <2>21, <2>22, <2>23, <2>24, StepCases
<1> QED BY <1>1, <1>2

-----------------------------------------------------------------------------
LEMMA BarrierStart ==
  ASSUME BarrierInit
  PROVE  BarrierInvariant
<1>1. Running = {} /\ Hits = {} /\ Cardinality({}) = 0
  BY FS_EmptySet DEF BarrierInit, Running, Hits, HitTasks
<1>2. BarrierTypeOK
  <2>1. RestOK
    <3>1. /\ task \in [Tasks -> {"none", "queued", "found", "reported", "late", "applied",
                               "unmarked", "clear", "lost"}]
          /\ faults \in 0..MaxFaults /\ peer \in {"absent", "idle", "listed"}
          /\ loop \in {"idle", "write", "remove", "list", "listed"} \X (Directions \cup {"none"})
      BY ModerationAssumption DEF BarrierInit
    <3>2. RowsOK
      BY DEF BarrierInit, RowsOK
    <3> QED BY <3>1, <3>2 DEF BarrierInit, RestOK
  <2>2. barrier \in Barrier /\ Ordered(barrier) /\ barrier.pending = 0
    BY DEF BarrierInit, Barrier, Ordered
  <2>3. barrier.pending \in 0..Cardinality(Tasks)
    BY <2>2, RunningFinite
  <2> QED BY <2>1, <2>2, <2>3, TypeParts
<1>3. CountSound
  BY <1>1 DEF BarrierInit, CountSound, Running
<1>4. PhasesSound /\ HitIsNeverForgotten /\ DecisionSound /\ RecordSound /\ WithdrawalSound
  BY <1>1 DEF BarrierInit, PhasesSound, Unsettled, HitIsNeverForgotten, DecisionSound, RecordSound,
     WithdrawalSound, Directions
<1> QED BY <1>2, <1>3, <1>4 DEF BarrierInvariant

LEMMA BarrierInductive ==
  ASSUME BarrierInvariant, [BarrierNext]_barrierVars
  PROVE  BarrierInvariant'
<1>1. CountSound' /\ PhasesSound' /\ HitIsNeverForgotten' /\ DecisionSound' /\ RecordSound'
  BY CountStep, PhasesStep, BlockStep, DecisionStep, RecordStep DEF BarrierInvariant
<1>2. WithdrawalSound'
  BY WithdrawalStep DEF BarrierInvariant
<1>3. BarrierTypeOK'
  BY <1>1, BarrierTypeStep DEF BarrierInvariant
<1> QED BY <1>1, <1>2, <1>3 DEF BarrierInvariant

\* A hit is taken care of by the barrier or by its worker however it races the
\* settlement, and a run that its handler blocked is withdrawn when nothing is left to
\* be made up for, for any number of checks and of failing writes
\* (onTaskResult, settle, applyBlock, handleLateBlock, recoverPendingBlocks).
THEOREM BarrierSafetyCorrect == BarrierSpec => []BarrierSafety
<1>1. BarrierInvariant => BarrierSafety
  BY DEF BarrierInvariant, BarrierSafety, BlockedIsWithdrawn, WithdrawalSound
<1>2. BarrierInit => BarrierInvariant
  BY BarrierStart
<1>3. BarrierInvariant /\ [BarrierNext]_barrierVars => BarrierInvariant'
  BY BarrierInductive
<1> QED BY <1>1, <1>2, <1>3, PTL DEF BarrierSpec
=============================================================================
