-------------------------- MODULE DemoClient_proofs --------------------------
(***************************************************************************)
(* The demo shop, for any keys and plans and any number of clicks, changes *)
(* and failures: since a page has one request in flight at most, an answer *)
(* for another flag comes first or not at all, and answers are in order.   *)
(***************************************************************************)
EXTENDS DemoClient, TLAPS

(* One request at most is in flight, and requestInFlight says so. *)
OneRequest ==
  /\ \A r1, r2 \in requests : r1 = r2
  /\ requests # {} => requestInFlight

(* Nothing is shown before the first answer; from then on what is asked,   *)
(* and from the second what is shown, is of the keys of the page.          *)
AnswersInv ==
  /\ answers \in 0..2
  /\ answers = 0 => value = NoValue
  /\ answers # 0 => \A r \in requests : r.apiKey = apiKey /\ r.flagKey = flagKey
  /\ answers = 2 => value.apiKey = apiKey /\ value.flagKey = flagKey

(* What is shown is no newer than what is about to be answered, or will be. *)
VersionsInv ==
  /\ version \in Nat /\ value.version \in Nat /\ value.version <= version
  /\ \A r \in requests :
       r.answer # NONE => r.answer \in Nat /\ value.version <= r.answer /\ r.answer <= version

(* A request or an answer has the fields that its maker gave it. *)
Shapes ==
  /\ value = [apiKey |-> value.apiKey, flagKey |-> value.flagKey, plan |-> value.plan,
              version |-> value.version]
  /\ \A r \in requests :
       r = [apiKey |-> r.apiKey, flagKey |-> r.flagKey, plan |-> r.plan, answer |-> r.answer]

ClientInvariant == OneRequest /\ AnswersInv /\ VersionsInv /\ Shapes

-----------------------------------------------------------------------------
(* A click or a tick asks for the keys of the page, and only when nothing  *)
(* is in flight: then what it asks is all there is.                        *)
LEMMA EvaluateAsks ==
  ASSUME NEW a, NEW f, NEW p, OneRequest, Evaluate(a, f, p)
  PROVE  \/ UNCHANGED <<requests, requestInFlight>>
         \/ requests' = {Request(a, f, p)} /\ requestInFlight' = TRUE
  BY DEF OneRequest, Evaluate

LEMMA NothingAsked ==
  ASSUME ClientInvariant,
         UNCHANGED <<apiKey, flagKey, value, requests, requestInFlight, answers>>,
         version' \in Nat, version <= version'
  PROVE  ClientInvariant'
<1>1. OneRequest' /\ AnswersInv' /\ Shapes'
  BY DEF ClientInvariant, OneRequest, AnswersInv, Shapes
<1>2. VersionsInv'
  BY DEF ClientInvariant, VersionsInv
<1> QED
  BY <1>1, <1>2 DEF ClientInvariant

(* A page that asks as it is, and shows what it showed. *)
LEMMA AskedInvariant ==
  ASSUME NEW p, ClientInvariant, Evaluate(apiKey, flagKey, p),
         UNCHANGED <<apiKey, flagKey, value, version, answers>>
  PROVE  ClientInvariant'
<1>1. CASE UNCHANGED <<requests, requestInFlight>>
  BY <1>1, NothingAsked DEF ClientInvariant, VersionsInv
<1>2. CASE requests' = {Request(apiKey, flagKey, p)} /\ requestInFlight' = TRUE
  <2>1. OneRequest' /\ AnswersInv'
    BY <1>2 DEF ClientInvariant, OneRequest, AnswersInv, Request
  <2>2. VersionsInv'
    BY <1>2 DEF ClientInvariant, VersionsInv, Request
  <2>3. Shapes'
    BY <1>2 DEF ClientInvariant, Shapes, Request
  <2> QED
    BY <2>1, <2>2, <2>3 DEF ClientInvariant
<1> QED
  BY <1>1, <1>2, EvaluateAsks DEF ClientInvariant

LEMMA ClientInit == Init => ClientInvariant
  BY DEF Init, NoValue, ClientInvariant, OneRequest, AnswersInv, VersionsInv, Shapes

LEMMA ClientStep == ClientInvariant /\ [Next]_vars => ClientInvariant'
<1> SUFFICES ASSUME ClientInvariant, [Next]_vars PROVE ClientInvariant'
  OBVIOUS
<1> USE DEF ClientInvariant
<1>1. ASSUME NEW a, NEW f, Connect(a, f) PROVE ClientInvariant'
  <2>1. value' = NoValue /\ answers' = 0 /\ version' = version
        /\ Evaluate(a, f, plan)
    BY <1>1 DEF Connect
  <2>2. \/ UNCHANGED <<requests, requestInFlight>>
        \/ requests' = {Request(a, f, plan)} /\ requestInFlight' = TRUE
    BY <2>1, EvaluateAsks
  <2>3. OneRequest' /\ AnswersInv'
    BY <2>1, <2>2 DEF OneRequest, AnswersInv
  <2>4. VersionsInv'
    BY <2>1, <2>2 DEF VersionsInv, NoValue, Request
  <2>5. Shapes'
    BY <2>1, <2>2 DEF Shapes, NoValue, Request
  <2> QED
    BY <2>3, <2>4, <2>5
<1>2. ASSUME NEW p, PickPlan(p) PROVE ClientInvariant'
  BY <1>2, AskedInvariant DEF PickPlan
<1>3. CASE Reload
  <2>1. /\ value' = NoValue /\ answers' = 0 /\ version' = version
        /\ \/ requests' = {}
           \/ requests' = {Request(apiKey', flagKey', Pro)} /\ requestInFlight'
    <3>1. CASE stored.apiKey = Blank
      <4>1. {stored.apiKey} \ {Blank} = {}
        BY <3>1
      <4> QED
        BY <1>3, <4>1 DEF Reload, Loaded
    <3>2. CASE stored.apiKey # Blank
      <4>1. {stored.apiKey} \ {Blank} = {stored.apiKey}
        BY <3>2
      <4> QED
        BY <1>3, <3>2, <4>1 DEF Reload, Loaded
    <3> QED
      BY <3>1, <3>2
  <2>2. OneRequest' /\ AnswersInv'
    BY <2>1 DEF OneRequest, AnswersInv
  <2>3. VersionsInv'
    BY <2>1 DEF VersionsInv, NoValue, Request
  <2>4. Shapes'
    BY <2>1 DEF Shapes, NoValue, Request
  <2> QED
    BY <2>2, <2>3, <2>4
<1>4. ASSUME NEW t \in TimerIds, Tick(t) PROVE ClientInvariant'
  BY <1>4, AskedInvariant DEF Tick, input
<1>5. ASSUME NEW r \in requests, Serve(r) PROVE ClientInvariant'
  <2> DEFINE s == [r EXCEPT !.answer = version]
  <2>1. /\ requests' = {s}
        /\ UNCHANGED <<apiKey, flagKey, value, requestInFlight, version, answers>>
    BY <1>5 DEF Serve, OneRequest, input
  <2>2. /\ s = [apiKey |-> s.apiKey, flagKey |-> s.flagKey, plan |-> s.plan,
                answer |-> s.answer]
        /\ s.apiKey = r.apiKey /\ s.flagKey = r.flagKey /\ s.answer = version
    BY DEF Shapes
  <2> HIDE DEF s
  <2>3. OneRequest' /\ AnswersInv'
    BY <2>1, <2>2 DEF OneRequest, AnswersInv
  <2>4. VersionsInv'
    BY <2>1, <2>2 DEF VersionsInv
  <2>5. Shapes'
    BY <2>1, <2>2 DEF Shapes
  <2> QED
    BY <2>3, <2>4, <2>5
<1>6. ASSUME NEW r \in requests, Answered(r) PROVE ClientInvariant'
  <2>1. /\ requests' = {}
        /\ value' = [apiKey |-> r.apiKey, flagKey |-> r.flagKey, plan |-> r.plan,
                     version |-> r.answer]
        /\ answers' = IF answers = 2 THEN 2 ELSE answers + 1
        /\ UNCHANGED <<apiKey, flagKey, version>>
    BY <1>6 DEF Answered, OneRequest, input
  <2>2. OneRequest' /\ AnswersInv'
    BY <2>1 DEF OneRequest, AnswersInv
  <2>3. VersionsInv' /\ Shapes'
    BY <1>6, <2>1 DEF VersionsInv, Shapes, Answered
  <2> QED
    BY <2>2, <2>3
<1>7. ASSUME NEW r \in requests, Failed(r) PROVE ClientInvariant'
  <2>1. /\ requests' = {}
        /\ UNCHANGED <<apiKey, flagKey, value, version, answers>>
    BY <1>7 DEF Failed, OneRequest, input
  <2> QED
    BY <2>1 DEF OneRequest, AnswersInv, VersionsInv, Shapes
<1>8. CASE Change
  <2>1. /\ version' \in Nat /\ version <= version'
        /\ UNCHANGED <<apiKey, flagKey, value, requests, requestInFlight, answers>>
    BY <1>8 DEF Change, VersionsInv, page, input
  <2> QED
    BY <2>1, NothingAsked
<1>9. CASE UNCHANGED vars
  BY <1>9, NothingAsked DEF vars, page, input, VersionsInv
<1> QED
  BY <1>1, <1>2, <1>3, <1>4, <1>5, <1>6, <1>7, <1>8, <1>9 DEF Next

LEMMA ClientInvariantHolds == Spec => []ClientInvariant
  BY ClientInit, ClientStep, PTL DEF Spec

-----------------------------------------------------------------------------
(* The page shows the flag it has left once at most: evaluate does nothing *)
(* while a request is in flight, so one is all that can outlive the keys   *)
(* it was sent with.                                                       *)
THEOREM OldFlagOnce == Spec => []OldFlagAtMostOnce
<1>1. ClientInvariant => OldFlagAtMostOnce
  BY DEF ClientInvariant, AnswersInv, OldFlagAtMostOnce
<1> QED
  BY <1>1, ClientInvariantHolds, PTL

(* And no answer overtakes an earlier one, nor what is shown already.      *)
THEOREM AnswersInOrder == Spec => NeverOlder
<1> DEFINE Ordered ==
      value # NoValue /\ value' # NoValue
        /\ [value' EXCEPT !.version = 0] = [value EXCEPT !.version = 0]
      => value'.version >= value.version
<1>1. ClientInvariant /\ [Next]_vars => [Ordered]_vars
  <2> SUFFICES ASSUME ClientInvariant, Next, value' # NoValue
               PROVE  value'.version >= value.version
    OBVIOUS
  <2>1. CASE value' = value
    BY <2>1 DEF ClientInvariant, VersionsInv
  <2>2. CASE \E r \in requests : Answered(r)
    BY <2>2 DEF ClientInvariant, VersionsInv, Answered
  <2>3. value' = value \/ \E r \in requests : Answered(r)
    BY DEF Next, Connect, PickPlan, Reload, Loaded, Tick, Serve, Failed, Change, page
  <2> QED
    BY <2>1, <2>2, <2>3
<1> QED
  BY <1>1, ClientInvariantHolds, PTL DEF Spec, NeverOlder
=============================================================================
