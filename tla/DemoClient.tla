----------------------------- MODULE DemoClient -----------------------------
(***************************************************************************)
(* The demo shop: a page that polls the evaluation of one flag for the     *)
(* plan the visitor has picked, and shows what it was answered.            *)
(*                                                                         *)
(* Clicks and the interval timer call evaluate, which does nothing while a *)
(* request is in flight; the answer may come after the page has been       *)
(* connected to another flag.                                              *)
(***************************************************************************)
EXTENDS Naturals, FiniteSets

CONSTANTS
  ApiKeys, FlagKeys, Plans,
  Default,     \* the flag key of a page that has none stored
  Pro,         \* the plan of a new page
  Blank,       \* an empty input
  NONE,        \* null
  MaxClicks,   \* bound: how often the visitor connects, picks or reloads
  MaxChanges,  \* bound: how often the flag is changed
  MaxFaults    \* bound: how many requests fail

ASSUME KeysAssumption ==
  Default \in FlagKeys /\ Pro \in Plans /\ Blank \notin ApiKeys \cup FlagKeys
ASSUME BoundsAssumption ==
  /\ MaxClicks \in Nat /\ MaxChanges \in Nat /\ MaxFaults \in Nat
  /\ NONE \notin Nat

VARIABLES
  apiKey, flagKey, plan,   \* what the page evaluates
  value,            \* what was answered last: for which keys and plan, and as
                    \* of which version of the flag
  requestInFlight,
  requests,         \* the requests that have not been answered
  timer,            \* state.timer
  timers,           \* the intervals that run
  stored,           \* localStorage
  version,          \* the server: how often what it answers has changed
  clicks, faults,   \* how many there have been
  answers           \* history variable: the answers shown since the page was
                    \* connected (two stands for more)

input == <<apiKey, flagKey, plan>>
page == <<input, value, requestInFlight, requests, timer, timers>>
vars == <<page, stored, version, clicks, faults, answers>>

NoValue == [apiKey |-> NONE, flagKey |-> NONE, plan |-> NONE, version |-> 0]
Request(a, f, p) == [apiKey |-> a, flagKey |-> f, plan |-> p, answer |-> NONE]

TimerIds == 1..2
NewTimer(running) == CHOOSE t \in TimerIds \ running : TRUE

-----------------------------------------------------------------------------
(* A request for each call. *)
BadEvaluate(a, f, p) ==
  IF a = Blank \/ f = Blank THEN UNCHANGED <<requests, requestInFlight>>
  ELSE /\ requests' = requests \cup {Request(a, f, p)}
       /\ requestInFlight' = TRUE

(* evaluate, up to its first await, with what the page evaluates now. *)
Evaluate(a, f, p) ==
  IF a = Blank \/ f = Blank \/ requestInFlight
  THEN UNCHANGED <<requests, requestInFlight>>
  ELSE /\ requests' = requests \cup {Request(a, f, p)}
       /\ requestInFlight' = TRUE

(* A page as it is loaded: its keys are the stored ones. *)
Loaded(s) ==
  /\ apiKey' = s.apiKey
  /\ flagKey' = IF s.flagKey = Blank THEN Default ELSE s.flagKey
  /\ plan' = Pro
  /\ value' = NoValue
  /\ requestInFlight' = (s.apiKey # Blank)
  /\ requests' = {Request(apiKey', flagKey', Pro) : x \in {s.apiKey} \ {Blank}}
  /\ timers' = {1 : x \in {s.apiKey} \ {Blank}}
  /\ timer' = IF s.apiKey # Blank THEN 1 ELSE NONE
  /\ answers' = 0

(* The visitor's first page: nothing is stored. *)
Init ==
  /\ apiKey = Blank /\ flagKey = Default /\ plan = Pro
  /\ value = NoValue
  /\ requestInFlight = FALSE
  /\ requests = {}
  /\ timer = NONE /\ timers = {}
  /\ stored = [apiKey |-> Blank, flagKey |-> Blank]
  /\ version = 0
  /\ clicks = 0 /\ faults = 0
  /\ answers = 0

Click == clicks < MaxClicks /\ clicks' = clicks + 1

(* The value is left as it is. *)
BadConnect(a, f) ==
  /\ Click
  /\ apiKey' = a /\ flagKey' = f
  /\ stored' = [apiKey |-> a, flagKey |-> f]
  /\ Evaluate(a, f, plan)
  /\ timer' = NewTimer(timers \ {timer})
  /\ timers' = (timers \ {timer}) \cup {timer'}
  /\ answers' = 0
  /\ UNCHANGED <<plan, value, version, faults>>

(* The form is submitted: an interval is started whatever was entered. *)
Connect(a, f) ==
  /\ Click
  /\ apiKey' = a /\ flagKey' = f
  /\ stored' = [apiKey |-> a, flagKey |-> f]
  /\ value' = NoValue
  /\ Evaluate(a, f, plan)
  /\ timer' = NewTimer(timers \ {timer})
  /\ timers' = (timers \ {timer}) \cup {timer'}
  /\ answers' = 0
  /\ UNCHANGED <<plan, version, faults>>

PickPlan(p) ==
  /\ Click
  /\ plan' = p
  /\ Evaluate(apiKey, flagKey, p)
  /\ UNCHANGED <<apiKey, flagKey, value, timer, timers, stored, version, faults,
                 answers>>

Reload ==
  /\ Click
  /\ Loaded(stored)
  /\ UNCHANGED <<stored, version, faults>>

Tick(t) ==
  /\ t \in timers
  /\ Evaluate(apiKey, flagKey, plan)
  /\ UNCHANGED <<input, value, timer, timers, stored, version, clicks, faults,
                 answers>>

-----------------------------------------------------------------------------
(* Requests. *)

(* The server evaluates the flag as it is. *)
Serve(r) ==
  /\ r \in requests /\ r.answer = NONE
  /\ requests' = (requests \ {r}) \cup {[r EXCEPT !.answer = version]}
  /\ UNCHANGED <<input, value, requestInFlight, timer, timers, stored, version,
                 clicks, faults, answers>>

(* The answer is shown, whatever the page evaluates by now. *)
Answered(r) ==
  /\ r \in requests /\ r.answer # NONE
  /\ requests' = requests \ {r}
  /\ requestInFlight' = FALSE
  /\ value' = [apiKey |-> r.apiKey, flagKey |-> r.flagKey, plan |-> r.plan,
               version |-> r.answer]
  /\ answers' = IF answers = 2 THEN 2 ELSE answers + 1
  /\ UNCHANGED <<input, timer, timers, stored, version, clicks, faults>>

(* Without the finally. *)
BadFailed(r) ==
  /\ faults < MaxFaults
  /\ faults' = faults + 1
  /\ r \in requests
  /\ requests' = requests \ {r}
  /\ UNCHANGED <<input, value, requestInFlight, timer, timers, stored, version,
                 clicks, answers>>

(* An error, or no answer: what was shown is left as it is. *)
Failed(r) ==
  /\ faults < MaxFaults
  /\ faults' = faults + 1
  /\ r \in requests
  /\ requests' = requests \ {r}
  /\ requestInFlight' = FALSE
  /\ UNCHANGED <<input, value, timer, timers, stored, version, clicks, answers>>

Change ==
  /\ version < MaxChanges
  /\ version' = version + 1
  /\ UNCHANGED <<page, stored, clicks, faults, answers>>

Next ==
  \/ \E a \in ApiKeys \cup {Blank}, f \in FlagKeys \cup {Blank} : Connect(a, f)
  \/ \E p \in Plans : PickPlan(p)
  \/ Reload
  \/ \E t \in TimerIds : Tick(t)
  \/ \E r \in requests : Serve(r) \/ Answered(r) \/ Failed(r)
  \/ Change

Spec == Init /\ [][Next]_vars

(* Intervals go on, and fetch ends, with an answer or an error. *)
FairSpec ==
  /\ Spec
  /\ \A t \in TimerIds : WF_vars(Tick(t))
  /\ WF_vars(\E r \in requests : Serve(r) \/ Answered(r))

-----------------------------------------------------------------------------
(* After the page was connected to another flag, the first answer may be   *)
(* the old flag's, from a request that was in flight: that one only.       *)
OldFlagAtMostOnce ==
  value # NoValue /\ (value.apiKey # apiKey \/ value.flagKey # flagKey)
    => answers = 1

(* What the page shows for a flag and plan is never older than what it     *)
(* showed for them before: answers cannot overtake each other.             *)
NeverOlder ==
  [][value # NoValue /\ value' # NoValue
       /\ [value' EXCEPT !.version = 0] = [value EXCEPT !.version = 0]
     => value'.version >= value.version]_vars

(* Once the visitor, the flag and the network are quiet, a page with both  *)
(* keys shows the flag as it is, for them and for the plan that is picked. *)
(* A click that found a request in flight asked for nothing; the interval  *)
(* makes up for it.                                                        *)
ShowsTheFlag ==
  <>[](apiKey # Blank /\ flagKey # Blank =>
         value = [apiKey |-> apiKey, flagKey |-> flagKey, plan |-> plan,
                  version |-> version])
=============================================================================
