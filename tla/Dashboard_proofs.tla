--------------------------- MODULE Dashboard_proofs ---------------------------
(***************************************************************************)
(* One tab of the dashboard, for any number of organizations, calls,       *)
(* sockets, selections, changes and faults: what it keeps of its types,    *)
(* that one socket is live whichever callbacks call connectSocket, whose   *)
(* socket that is, and that the flags it shows are current.                *)
(***************************************************************************)
EXTENDS Dashboard, FiniteSetTheorems, WellFoundedInduction, TLAPS

-----------------------------------------------------------------------------
(* Types. *)

(* A call that waits, as FreeCalls and NoCall tell it from one that does   *)
(* not, and a socket.                                                      *)
CallRecord ==
  [kind : {"boot", "select", "load", NONE}, org : OrgOrNone,
   awaits : Replies \cup {NONE}, answer : (0..MaxChanges) \cup {NONE}]
SocketRecord ==
  [org : OrgOrNone, state : Live \cup Ending \cup {"closed"}, messages : 0..MaxChanges]

(* Whoever waits does so for an organization; a message's call for flags   *)
(* only; nothing the server answered is newer than the newest it did.      *)
CallsInv ==
  \A c \in Calls :
    \/ call[c] = NoCall
    \/ /\ call[c].org \in Orgs /\ call[c].awaits # NONE
       /\ call[c].kind = "load" => call[c].awaits = "flags"
       /\ call[c].awaits = "projects" => call[c].answer = NONE
       /\ call[c].awaits = "flags" /\ call[c].answer # NONE
            => call[c].answer <= newest[call[c].org]

(* Only an open socket has messages: never more than changes that have     *)
(* been broadcast.                                                         *)
SocketsInv ==
  \A s \in Sockets :
    /\ ws[s].state # "closed" \/ s \in timers => ws[s].org \in Orgs
    /\ ws[s].messages > 0 => /\ ws[s].state = "open"
                             /\ ws[s].messages + unsent[ws[s].org] <= version[ws[s].org]

VersionsInv == \A o \in Orgs : unsent[o] <= version[o] /\ newest[o] <= version[o]

TabInvariant == TypeOK /\ CallsInv /\ SocketsInv /\ VersionsInv

(* What is used again: the numbers of calls and sockets. *)
LEMMA LeastIsMember ==
  ASSUME NEW S, S \subseteq Nat, S # {}
  PROVE  Least(S) \in S /\ \A y \in S : Least(S) <= y
<1>1. PICK x \in S : \A y \in S : ~(<<y, x>> \in OpToRel(<, Nat))
  BY NatLessThanWellFounded, WFMin
<1>2. \A y \in S : x <= y
  <2>1. SUFFICES ASSUME NEW y \in S, y < x PROVE FALSE
    OBVIOUS
  <2>2. <<y, x>> \in OpToRel(<, Nat)
    BY <2>1 DEF OpToRel
  <2> QED
    BY <1>1, <2>2
<1> QED
  BY <1>2 DEF Least

LEMMA BeginFacts ==
  ASSUME TabInvariant, NEW kind, NEW o, NEW awaits, Begin(kind, o, awaits)
  PROVE  LET c == Least(FreeCalls) IN
         /\ c \in Calls /\ call[c] = NoCall
         /\ call' = [call EXCEPT ![c] =
                       [kind |-> kind, org |-> o, awaits |-> awaits, answer |-> NONE]]
<1>1. FreeCalls # {} /\ FreeCalls \subseteq Nat
  BY BoundsAssumption DEF Begin, FreeCalls, Calls
<1>2. Least(FreeCalls) \in FreeCalls
  BY <1>1, LeastIsMember
<1> QED
  BY <1>2 DEF Begin, FreeCalls, Waiting

LEMMA BeginTab ==
  ASSUME TabInvariant, NEW kind \in {"boot", "select", "load"}, NEW o \in Orgs,
         NEW awaits \in Replies, kind = "load" => awaits = "flags",
         Begin(kind, o, awaits), UNCHANGED newest
  PROVE  /\ call' \in [Calls -> CallRecord]
         /\ CallsInv'
<1> USE BeginFacts, NoneAssumption DEF TabInvariant
<1>1. call' \in [Calls -> CallRecord]
  BY DEF TypeOK, CallRecord, OrgOrNone
<1>2. CallsInv'
  BY DEF CallsInv, TypeOK, NoCall
<1> QED
  BY <1>1, <1>2

(* connectSocket: what it leaves of the sockets there are, and what it     *)
(* makes of the one it opens.                                              *)
LEMMA ClosedFacts ==
  ASSUME TabInvariant, NEW s \in Sockets
  PROVE  /\ Closed(s) \in SocketRecord /\ Closed(s).org = ws[s].org
         /\ \/ Closed(s) = ws[s] /\ (s = socket => ws[s].state \notin Live)
            \/ /\ Closed(s).state = "closing" /\ Closed(s).messages = 0
               /\ ws[s].state \in Live
<1>1. ws[s] \in SocketRecord
  BY DEF TabInvariant, TypeOK, SocketRecord
<1>2. CASE s = socket /\ ws[s].state \in Live
  <2>1. Closed(s) = [ws[s] EXCEPT !.state = "closing", !.messages = 0]
    BY <1>2 DEF Closed
  <2>2. 0 \in 0..MaxChanges
    BY BoundsAssumption
  <2> QED
    BY <1>1, <1>2, <2>1, <2>2 DEF SocketRecord, Ending
<1> QED
  BY <1>1, <1>2 DEF Closed

LEMMA OpenedFacts ==
  ASSUME NEW o, NEW running, ConnectSocket(o, running)
  PROVE  /\ socket' \in Sockets /\ ws[socket'].state = "closed" /\ socket' \notin running
         /\ ws'[socket'] = Opened(o)
<1>1. FreeSockets(running) # {} /\ FreeSockets(running) \subseteq Nat
  BY BoundsAssumption DEF ConnectSocket, FreeSockets, Sockets
<1>2. socket' \in FreeSockets(running)
  BY <1>1, LeastIsMember DEF ConnectSocket
<1> QED
  BY <1>2 DEF FreeSockets, ConnectSocket

LEMMA ConnectTab ==
  ASSUME TabInvariant, NEW o \in Orgs, NEW running \in SUBSET timers,
         ConnectSocket(o, running), UNCHANGED <<version, unsent>>
  PROVE  /\ socket' \in Sockets /\ socketOrgId' = o /\ socketClosing' \in BOOLEAN
         /\ ws' \in [Sockets -> SocketRecord]
         /\ timers' \in SUBSET Sockets /\ reconnectTimer' \in Sockets \cup {NONE}
         /\ reopened' \in BOOLEAN
         /\ missed' \in SUBSET Orgs /\ missed \subseteq missed'
         /\ SocketsInv'
         /\ ws'[socket'] = Opened(o)
         /\ ws[socket'].messages = 0
<1>1. socket' \in Sockets /\ ws[socket'].state = "closed" /\ socket' \notin running
  BY OpenedFacts
<1>2. ws' = [s \in Sockets |-> IF s = socket' THEN Opened(o) ELSE Closed(s)]
  BY DEF ConnectSocket
<1>4. Opened(o) \in SocketRecord
  BY BoundsAssumption DEF Opened, SocketRecord, OrgOrNone, Live, Ending
<1>5. SocketsInv'
  <2>1. timers' \subseteq timers
    BY DEF ConnectSocket
  <2>2. \A s \in Sockets \ {socket'} : ws'[s] = Closed(s)
    BY <1>2
  <2>3. ws'[socket'].org = o /\ ws'[socket'].messages = 0
    BY <1>1, <1>2 DEF Opened
  <2> QED
    BY ClosedFacts, <2>1, <2>2, <2>3 DEF SocketsInv, TabInvariant, Live
<1>6. missed' \in SUBSET Orgs /\ missed \subseteq missed'
  BY DEF ConnectSocket, Lost, TabInvariant, TypeOK, SocketsInv
<1>7. ws[socket'].messages = 0
  BY <1>1 DEF TabInvariant, SocketsInv, TypeOK
<1>8. reopened' \in BOOLEAN
  BY DEF ConnectSocket, Reopen
<1>9. /\ socketOrgId' = o /\ socketClosing' \in BOOLEAN
      /\ timers' \in SUBSET Sockets /\ reconnectTimer' \in Sockets \cup {NONE}
  BY DEF ConnectSocket, TabInvariant, TypeOK
<1> QED
  BY <1>1, <1>2, <1>4, <1>5, <1>6, <1>7, <1>8, <1>9, ClosedFacts

(* Calls, as they go on and end. *)
LEMMA CallFacts ==
  ASSUME TabInvariant, NEW c \in Calls, call[c].awaits # NONE
  PROVE  /\ call[c] \in CallRecord /\ call[c].org \in Orgs /\ call[c] # NoCall
         /\ call[c].awaits = "projects" => call[c].answer = NONE
         /\ call[c].kind = "load" => call[c].awaits = "flags"
         /\ call[c].awaits = "flags" /\ call[c].answer # NONE
              => /\ call[c].answer \in 0..MaxChanges
                 /\ call[c].answer <= newest[call[c].org]
<1>1. call[c] # NoCall
  BY NoneAssumption DEF NoCall
<1> QED
  BY <1>1 DEF TabInvariant, TypeOK, CallsInv, CallRecord

LEMMA EndTab ==
  ASSUME TabInvariant, NEW c \in Calls, End(c), UNCHANGED newest
  PROVE  call' \in [Calls -> CallRecord] /\ CallsInv'
<1>1. NoCall \in CallRecord
  BY DEF NoCall, CallRecord, OrgOrNone
<1> QED
  BY <1>1 DEF End, TabInvariant, TypeOK, CallRecord, CallsInv

LEMMA AwaitTab ==
  ASSUME TabInvariant, NEW c \in Calls, call[c].awaits # NONE,
         NEW a \in {"flags", "refusal", "audits"}, Await(c, a),
         a = "flags" => call[c].answer = NONE,
         a # "flags" => call[c].kind # "load", UNCHANGED newest
  PROVE  call' \in [Calls -> CallRecord] /\ CallsInv'
<1>1. /\ call[c] \in CallRecord /\ call[c].org \in Orgs
      /\ call \in [Calls -> CallRecord]
  BY CallFacts DEF TabInvariant, TypeOK, CallRecord
<1>2. call' \in [Calls -> CallRecord]
  BY <1>1 DEF Await, CallRecord, Replies
<1>3. CallsInv'
  BY <1>1, NoneAssumption DEF Await, CallsInv, TabInvariant, CallRecord, Replies
<1> QED
  BY <1>2, <1>3

(* The steps preserve the types. *)
LEMMA CallsTab ==
  ASSUME TabInvariant, NEW c \in Calls, CallStep(c) \/ Fail(c)
  PROVE  TabInvariant'
<1> USE DEF TabInvariant
<1>1. /\ call[c].awaits # NONE
      /\ call[c] \in CallRecord /\ call[c].org \in Orgs
  BY CallFacts, NoneAssumption
  DEF CallStep, Fail, ProjectsAnswered, ReadFlags, FlagsAnswered, AuditsAnswered, Refused,
      Replies
<1>2. CASE ProjectsAnswered(c) /\ UNCHANGED <<flags, live, missed, astray>>
  <2>1. call' \in [Calls -> CallRecord] /\ CallsInv'
    BY <1>1, <1>2, AwaitTab, EndTab, CallFacts DEF ProjectsAnswered
  <2> QED
    BY <1>1, <1>2, <2>1
    DEF ProjectsAnswered, TypeOK, CallRecord, OrgOrNone, SocketsInv, VersionsInv, live,
        server, count
<1>3. CASE /\ ProjectsAnswered(c) \/ AuditsAnswered(c)
           /\ ConnectSocket(call[c].org, timers) /\ End(c)
  <2>1. call' \in [Calls -> CallRecord] /\ CallsInv'
    BY <1>3, EndTab DEF ProjectsAnswered, AuditsAnswered
  <2>2. /\ UNCHANGED <<token, selectedOrg, version, unsent, selections, faults, latest,
                       newest, raced>>
        /\ selectedProject' \in {selectedProject, call[c].org}
        /\ flags' \in {flags, NoFlags}
        /\ astray' \in BOOLEAN
    BY <1>3 DEF ProjectsAnswered, AuditsAnswered, page, server, count, TypeOK
  <2>3. NoFlags \in [org : OrgOrNone, version : 0..MaxChanges]
    BY BoundsAssumption DEF NoFlags, OrgOrNone
  <2>4. TypeOK'
    BY <1>1, <1>3, <2>1, <2>2, <2>3, ConnectTab
    DEF TypeOK, CallRecord, SocketRecord, OrgOrNone
  <2> QED
    BY <1>1, <1>3, <2>1, <2>2, <2>4, ConnectTab DEF VersionsInv
<1>4. CASE ReadFlags(c)
  <2>1. version[call[c].org] \in 0..MaxChanges
    BY <1>1 DEF TypeOK
  <2>2. call' \in [Calls -> CallRecord]
    BY <1>1, <1>4, <2>1 DEF ReadFlags, TypeOK, CallRecord
  <2>3. CallsInv'
    BY <1>1, <1>4, <2>1, NoneAssumption
    DEF ReadFlags, TypeOK, CallRecord, CallsInv, VersionsInv
  <2>4. TypeOK'
    BY <1>1, <1>4, <2>1, <2>2 DEF ReadFlags, TypeOK, CallRecord, page, live, server, count
  <2> QED
    BY <1>1, <1>4, <2>1, <2>3, <2>4
    DEF ReadFlags, TypeOK, SocketsInv, VersionsInv, live, server
<1>5. CASE FlagsAnswered(c)
  <2>1. call' \in [Calls -> CallRecord] /\ CallsInv'
    BY <1>1, <1>5, AwaitTab, EndTab DEF FlagsAnswered
  <2>2. call[c].answer \in 0..MaxChanges
    BY <1>1, <1>5, CallFacts DEF FlagsAnswered
  <2>3. TypeOK'
    BY <1>1, <1>5, <2>1, <2>2
    DEF FlagsAnswered, TypeOK, CallRecord, OrgOrNone, live, server, count
  <2> QED
    BY <1>5, <2>1, <2>3 DEF FlagsAnswered, SocketsInv, VersionsInv, live, server
<1>6. CASE Refused(c) \/ Fail(c)
  <2>1. call' \in [Calls -> CallRecord] /\ CallsInv'
    BY <1>6, EndTab DEF Refused, Fail, Broken
  <2>2. TypeOK'
    <3>1. token' \in {token, "expelled"} /\ astray' \in BOOLEAN /\ missed' \in SUBSET Orgs
      BY <1>1, <1>6 DEF Refused, Fail, Broken, TypeOK
    <3>2. faults' \in 0..MaxFaults
      BY <1>6, BoundsAssumption DEF Refused, Fail, TypeOK
    <3> QED
      BY <1>6, <2>1, <3>1, <3>2 DEF Refused, Fail, Broken, TypeOK, CallRecord, live, server
  <2> QED
    BY <1>6, <2>1, <2>2 DEF Refused, Fail, Broken, SocketsInv, VersionsInv, live, server
<1> QED
  BY <1>2, <1>3, <1>4, <1>5, <1>6
  DEF CallStep, ProjectsAnswered, AuditsAnswered

LEMMA UsersTab ==
  ASSUME TabInvariant, Login \/ Logout \/ \E o \in Orgs : Select(o)
  PROVE  TabInvariant'
<1> USE DEF TabInvariant
<1>1. ASSUME NEW o \in Orgs, Begin("select", o, "projects"), latest' = Least(FreeCalls),
             selectedOrg' = o, token' \in {token, "valid"},
             selections < MaxSelections, selections' = selections + 1,
             UNCHANGED <<selectedProject, flags, live, server, faults, astray,
                         missed, newest, raced>>
      PROVE  TabInvariant'
  <2>1. call' \in [Calls -> CallRecord] /\ CallsInv'
    BY <1>1, BeginTab DEF Replies
  <2>2. latest' \in Calls
    BY <1>1, BeginFacts
  <2>3. selections' \in 0..MaxSelections
    BY <1>1, BoundsAssumption DEF TypeOK
  <2>4. TypeOK'
    BY <1>1, <2>1, <2>2, <2>3 DEF TypeOK, CallRecord, live, server
  <2> QED
    BY <1>1, <2>1, <2>4 DEF SocketsInv, VersionsInv, live, server
<1>2. ASSUME NEW o \in Orgs, Select(o) PROVE TabInvariant'
  BY <1>1, <1>2 DEF Select
<1>3. CASE Login
  BY <1>1, <1>3 DEF Login, TypeOK
<1>4. CASE Logout
  <2>1. /\ ws' \in [Sockets -> SocketRecord]
        /\ SocketsInv'
    BY <1>4, ClosedFacts DEF Logout, SocketsInv, server, Live
  <2>2. missed' \in SUBSET Orgs
    BY <1>4 DEF Logout, Lost, TypeOK, SocketsInv
  <2>3. TypeOK'
    BY <1>4, <2>1, <2>2 DEF Logout, TypeOK, SocketRecord, server, count
  <2> QED
    BY <1>4, <2>1, <2>3 DEF Logout, CallsInv, VersionsInv, server
<1> QED
  BY <1>2, <1>3, <1>4

LEMMA SocketsTab ==
  ASSUME TabInvariant, NEW s \in Sockets, SocketStep(s) \/ Drop(s)
  PROVE  TabInvariant'
<1> USE DEF TabInvariant
<1>1. ws \in [Sockets -> SocketRecord]
  BY DEF TypeOK, SocketRecord
<1>2. CASE Answer(s)
  <2>1. ws' \in [Sockets -> SocketRecord] /\ SocketsInv'
    BY <1>1, <1>2 DEF Answer, SocketRecord, SocketsInv, server, Live
  <2>2. TypeOK'
    BY <1>2, <2>1 DEF Answer, TypeOK, SocketRecord, page, server, count, hist
  <2> QED
    BY <1>2, <2>1, <2>2 DEF Answer, CallsInv, VersionsInv, server, hist
<1>3. CASE Drop(s)
  <2>1. 0 \in 0..MaxChanges
    BY BoundsAssumption
  <2>2. ws' \in [Sockets -> SocketRecord] /\ SocketsInv'
    <3>1. ws' \in [Sockets -> SocketRecord]
      <4>1. ws' = [ws EXCEPT ![s] = [ws[s] EXCEPT !.state = "dropped", !.messages = 0]]
        BY <1>1, <1>3 DEF Drop
      <4>2. [ws[s] EXCEPT !.state = "dropped", !.messages = 0] \in SocketRecord
        BY <1>1, <2>1 DEF SocketRecord, Ending
      <4> QED
        BY <1>1, <4>1, <4>2
    <3>2. /\ ws'[s].org = ws[s].org /\ ws[s].state # "closed" /\ ws'[s].messages = 0
          /\ \A t \in Sockets \ {s} : ws'[t] = ws[t]
          /\ UNCHANGED <<timers, version, unsent>>
      BY <1>1, <1>3 DEF Drop, SocketRecord, server, Live
    <3> QED
      BY <1>1, <3>1, <3>2 DEF SocketsInv
  <2>3. missed' \in SUBSET Orgs
    BY <1>3 DEF Drop, Lost, TypeOK, SocketsInv
  <2>4. faults' \in 0..MaxFaults
    BY <1>3, BoundsAssumption DEF Drop, TypeOK
  <2>5. TypeOK'
    BY <1>3, <2>2, <2>3, <2>4 DEF Drop, TypeOK, SocketRecord, page, server
  <2> QED
    BY <1>3, <2>2, <2>5 DEF Drop, CallsInv, VersionsInv, server
<1>4. CASE CloseEvent(s)
  <2>1. ws' \in [Sockets -> SocketRecord] /\ SocketsInv'
    BY <1>1, <1>4 DEF CloseEvent, SocketRecord, SocketsInv, server, Ending, TypeOK
  <2>2. timers' \in SUBSET Sockets /\ reconnectTimer' \in Sockets \cup {NONE}
    BY <1>4 DEF CloseEvent, TypeOK
  <2>3. TypeOK'
    BY <1>4, <2>1, <2>2 DEF CloseEvent, TypeOK, SocketRecord, page, server, count, hist
  <2> QED
    BY <1>4, <2>1, <2>3 DEF CloseEvent, CallsInv, VersionsInv, server, hist
<1>5. CASE Retry(s)
  <2>1. /\ ws[s].org \in Orgs /\ ConnectSocket(ws[s].org, timers \ {s})
        /\ UNCHANGED <<page, call, server, count, latest, newest, raced>>
        /\ astray' \in BOOLEAN
    BY <1>5 DEF Retry, SocketsInv, TypeOK
  <2>2. UNCHANGED <<version, unsent>>
    BY <2>1 DEF server
  <2>3. TypeOK'
    BY <2>1, <2>2, ConnectTab DEF TypeOK, SocketRecord, OrgOrNone, page, server, count
  <2> QED
    BY <2>1, <2>2, <2>3, ConnectTab DEF CallsInv, VersionsInv
<1>6. CASE Message(s)
  <2>1. ws' \in [Sockets -> SocketRecord] /\ SocketsInv'
    BY <1>1, <1>6, BoundsAssumption DEF Message, SocketRecord, SocketsInv, server, TypeOK
  <2>2. call' \in [Calls -> CallRecord] /\ CallsInv'
    <3>1. CASE UNCHANGED call
      BY <1>6, <3>1 DEF Message, TypeOK, CallRecord, CallsInv
    <3>2. CASE selectedProject # NONE /\ Begin("load", selectedProject, "flags")
      <4>1. selectedProject \in Orgs
        BY <3>2 DEF TypeOK, OrgOrNone
      <4> QED
        BY <1>6, <3>2, <4>1, BeginTab DEF Message, Replies
    <3> QED
      BY <1>6, <3>1, <3>2 DEF Message
  <2>3. missed' \in SUBSET Orgs
    BY <1>6 DEF Message, TypeOK, SocketsInv
  <2>4. TypeOK'
    BY <1>6, <2>1, <2>2, <2>3
    DEF Message, TypeOK, SocketRecord, CallRecord, page, server, count
  <2> QED
    BY <1>6, <2>1, <2>2, <2>4 DEF Message, VersionsInv, server
<1> QED
  BY <1>2, <1>3, <1>4, <1>5, <1>6 DEF SocketStep

LEMMA ServerTab ==
  ASSUME TabInvariant, NEW o \in Orgs, Change(o) \/ Broadcast(o)
  PROVE  TabInvariant'
<1> USE DEF TabInvariant
<1>1. CASE Change(o)
  <2>1. /\ version[o] \in 0..MaxChanges /\ unsent[o] \in 0..MaxChanges
        /\ version[o] < MaxChanges /\ unsent[o] <= version[o]
    BY <1>1 DEF Change, TypeOK, VersionsInv
  <2>2. /\ version' \in [Orgs -> 0..MaxChanges] /\ unsent' \in [Orgs -> 0..MaxChanges]
        /\ VersionsInv'
    BY <1>1, <2>1, BoundsAssumption DEF Change, TypeOK, VersionsInv, hist
  <2>3. SocketsInv'
    BY <1>1, BoundsAssumption DEF Change, TypeOK, SocketsInv, live
  <2>4. TypeOK'
    BY <1>1, <2>2 DEF Change, TypeOK, page, live, count, hist
  <2> QED
    BY <1>1, <2>2, <2>3, <2>4 DEF Change, CallsInv, hist
<1>2. CASE Broadcast(o)
  <2>1. unsent' \in [Orgs -> 0..MaxChanges] /\ VersionsInv'
    BY <1>2, BoundsAssumption DEF Broadcast, TypeOK, VersionsInv
  <2>2. ws' \in [Sockets -> SocketRecord] /\ SocketsInv'
    BY <1>2, BoundsAssumption DEF Broadcast, TypeOK, SocketsInv, VersionsInv, SocketRecord
  <2>3. TypeOK'
    BY <1>2, <2>1, <2>2 DEF Broadcast, TypeOK, SocketRecord, page, count
  <2> QED
    BY <1>2, <2>1, <2>2, <2>3 DEF Broadcast, CallsInv
<1> QED
  BY <1>1, <1>2

LEMMA TabInit == Init => TabInvariant
<1> SUFFICES ASSUME Init PROVE TabInvariant
  OBVIOUS
<1>1. /\ 0 \in 0..MaxChanges /\ 0 \in 0..MaxSelections /\ 0 \in 0..MaxFaults
      /\ 1 \in Calls /\ First \in Orgs
  BY BoundsAssumption, OrgsAssumption DEF Calls
<1>2. call \in [Calls -> CallRecord] /\ CallsInv
  BY <1>1, NoneAssumption DEF Init, CallRecord, NoCall, OrgOrNone, Replies, CallsInv
<1>3. ws \in [Sockets -> SocketRecord] /\ SocketsInv
  BY <1>1 DEF Init, SocketRecord, Unused, OrgOrNone, SocketsInv
<1>4. TypeOK
  BY <1>1, <1>2, <1>3 DEF Init, TypeOK, NoFlags, OrgOrNone, CallRecord, SocketRecord
<1>5. VersionsInv
  BY DEF Init, VersionsInv
<1> QED
  BY <1>2, <1>3, <1>4, <1>5 DEF TabInvariant

LEMMA TabStep == TabInvariant /\ [Next]_vars => TabInvariant'
<1> SUFFICES ASSUME TabInvariant, [Next]_vars PROVE TabInvariant'
  OBVIOUS
<1>1. CASE UNCHANGED vars
  BY <1>1
  DEF TabInvariant, TypeOK, CallsInv, SocketsInv, VersionsInv, vars, page, live, server, count,
      hist
<1> QED
  BY <1>1, CallsTab, UsersTab, SocketsTab, ServerTab DEF Next, Quiet

LEMMA TabInvariance == Spec => []TabInvariant
BY TabInit, TabStep, PTL DEF Spec

(* Every call, socket and version keeps its type; whoever waits does so    *)
(* for an organization; only an open socket has messages, and with those   *)
(* still to be sent to it they are no more than the changes there were;    *)
(* and no answer is newer than what the server has sent, and that than     *)
(* what it has.                                                            *)
THEOREM TabTypes == Spec => [](TypeOK /\ CallsInv /\ SocketsInv /\ VersionsInv)
<1>1. TabInvariant => TypeOK /\ CallsInv /\ SocketsInv /\ VersionsInv
  BY DEF TabInvariant
<1> QED
  BY <1>1, TabInvariance, PTL

-----------------------------------------------------------------------------
(* Sockets. *)

(* Unless the socket was opened too early, every other socket that has     *)
(* still to report its end is another organization's, so that only the     *)
(* socket itself can set a timer, once, by its own end.                    *)
TimerInv ==
  ~reopened =>
    /\ \A s \in Sockets \ {socket} :
         ws[s].state # "closed" => ws[s].org # socketOrgId
    /\ timers # {} => timers = {socket} /\ ws[socket].state = "closed"

SocketInvariant ==
  TabInvariant /\ OneLiveSocket /\ SilentAfterLogout /\ TimerInv

(* What the steps do to the sockets: one may be opened, ...                *)
Opens ==
  \E o \in OrgOrNone, running \in SUBSET timers :
    ConnectSocket(o, running) /\ UNCHANGED token

(* ... or one moves on without becoming live; ...                          *)
Moves(s) ==
  /\ ws' = [ws EXCEPT ![s] = ws'[s]]
  /\ ws'[s].org = ws[s].org
  /\ ws[s].state # "closed"
  /\ ws'[s].state \in Live => ws[s].state \in Live
  /\ UNCHANGED <<token, socket, socketOrgId, reopened>>
  /\ \/ UNCHANGED timers /\ (ws'[s].state = "closed" => ws[s].state \in Ending)
     \/ /\ ws[s].state \in Ending /\ ws[s].org = socketOrgId
        /\ ws'[s].state = "closed"
        /\ timers' = timers \cup {s}

(* ... or none does, and the user may leave or come back.                  *)
Stays ==
  /\ \A s \in Sockets : ws'[s].state = ws[s].state /\ ws'[s].org = ws[s].org
  /\ token' = "cleared" => token = "cleared"
  /\ UNCHANGED <<socket, socketOrgId, reopened, timers>>

-----------------------------------------------------------------------------
(* Every step opens a socket, moves one, or leaves them as they are; or    *)
(* the user logs out, and what was live ends.                              *)

LEMMA CallSteps ==
  ASSUME TabInvariant, NEW c \in Calls, CallStep(c) \/ Fail(c)
  PROVE  Opens \/ Stays
<1>1. CASE UNCHANGED live /\ token' \in {token, "expelled"}
  BY <1>1 DEF Stays, live
<1>2. CASE (ProjectsAnswered(c) \/ AuditsAnswered(c)) /\ ConnectSocket(call[c].org, timers)
  <2>1. call[c].org \in OrgOrNone
    BY DEF TabInvariant, TypeOK
  <2> QED
    BY <1>2, <2>1 DEF Opens, ProjectsAnswered, AuditsAnswered, page
<1> QED
  BY <1>1, <1>2
  DEF CallStep, Fail, Refused, Broken, ProjectsAnswered, ReadFlags, FlagsAnswered,
      AuditsAnswered, page

LEMMA UserSteps ==
  ASSUME Login \/ \E o \in Orgs : Select(o)
  PROVE  Stays
BY DEF Login, Select, Stays, live

LEMMA SocketSteps ==
  ASSUME TabInvariant, NEW s \in Sockets, SocketStep(s) \/ Drop(s)
  PROVE  Opens \/ Moves(s)
<1>1. ws \in [Sockets -> SocketRecord]
  BY DEF TabInvariant, TypeOK, SocketRecord
<1>2. CASE Answer(s) \/ Drop(s) \/ CloseEvent(s)
  BY <1>1, <1>2 DEF Answer, Drop, CloseEvent, Moves, SocketRecord, Live, Ending, page
<1>3. CASE Retry(s)
  <2>1. ws[s].org \in OrgOrNone
    BY <1>1 DEF SocketRecord
  <2> QED
    BY <1>3, <2>1 DEF Retry, Opens, page
<1>4. CASE Message(s)
  BY <1>1, <1>4 DEF Message, Moves, SocketRecord, Live, Ending, page
<1> QED
  BY <1>2, <1>3, <1>4 DEF SocketStep

LEMMA ServerSteps ==
  ASSUME TabInvariant, NEW o \in Orgs, Change(o) \/ Broadcast(o)
  PROVE  Stays
<1>1. CASE Change(o)
  BY <1>1 DEF Change, Stays, page, live
<1>2. CASE Broadcast(o)
  BY <1>2 DEF Broadcast, Stays, page, TabInvariant, TypeOK
<1> QED
  BY <1>1, <1>2

-----------------------------------------------------------------------------
(* The steps preserve the invariant. *)

LEMMA OpensKeeps ==
  ASSUME SocketInvariant, Opens
  PROVE  OneLiveSocket' /\ SilentAfterLogout' /\ TimerInv'
<1>1. PICK o \in OrgOrNone, running \in SUBSET timers :
             ConnectSocket(o, running) /\ UNCHANGED token
  BY DEF Opens
<1>2. /\ ws' = [s \in Sockets |-> IF s = socket' THEN Opened(o) ELSE Closed(s)]
      /\ timers' = running \ {reconnectTimer}
      /\ socketOrgId' = o
      /\ Reopen(o, running)
  BY <1>1 DEF ConnectSocket
<1>3. \A s \in Sockets : /\ Closed(s).state \notin Live
                         /\ Closed(s).org = ws[s].org
                         /\ Closed(s).state # "closed" => ws[s].state # "closed"
  BY ClosedFacts DEF Closed, SocketInvariant, OneLiveSocket, LiveSockets, Live
<1>4. OneLiveSocket'
  BY <1>2, <1>3 DEF OneLiveSocket, LiveSockets
<1>5. SilentAfterLogout'
  BY <1>1, <1>2, <1>3 DEF SilentAfterLogout, LiveSockets, Opened, LoggedIn, Live
<1>6. TimerInv'
  <2>1. SUFFICES ASSUME ~reopened' PROVE TimerInv'
    BY DEF TimerInv
  <2>2. /\ \A s \in Sockets : ws[s].org = o => ws[s].state = "closed"
        /\ timers' = {}
    BY <1>2, <2>1 DEF Reopen
  <2> QED
    BY <1>2, <1>3, <2>2 DEF TimerInv
<1> QED
  BY <1>4, <1>5, <1>6

LEMMA MovesKeeps ==
  ASSUME SocketInvariant, NEW s \in Sockets, Moves(s)
  PROVE  OneLiveSocket' /\ SilentAfterLogout' /\ TimerInv'
<1>1. \A t \in Sockets : /\ ws'[t].state \in Live => ws[t].state \in Live
                         /\ ws'[t].org = ws[t].org
                         /\ ws'[t].state # "closed" => ws[t].state # "closed"
                         /\ t # s => ws'[t] = ws[t]
  BY DEF Moves, SocketInvariant, TabInvariant, TypeOK
<1>2. OneLiveSocket' /\ SilentAfterLogout'
  BY <1>1
  DEF Moves, SocketInvariant, OneLiveSocket, SilentAfterLogout, LiveSockets
<1>3. TimerInv'
  <2>1. SUFFICES ASSUME ~reopened PROVE TimerInv'
    BY DEF TimerInv, Moves
  <2>2. \A t \in Sockets \ {socket'} : ws'[t].state # "closed" => ws'[t].org # socketOrgId'
    BY <1>1, <2>1 DEF TimerInv, Moves, SocketInvariant
  <2>3. CASE UNCHANGED timers
    BY <1>1, <2>1, <2>2, <2>3 DEF TimerInv, Moves, SocketInvariant, TabInvariant, TypeOK
  <2>4. CASE /\ ws[s].state \in Ending /\ ws[s].org = socketOrgId
             /\ ws'[s].state = "closed"
             /\ timers' = timers \cup {s}
    <3>1. s = socket /\ timers = {}
      BY <2>1, <2>4 DEF TimerInv, SocketInvariant, Ending
    <3> QED
      BY <2>1, <2>2, <2>4, <3>1 DEF TimerInv, Moves
  <2> QED
    BY <2>3, <2>4 DEF Moves
<1> QED
  BY <1>2, <1>3

LEMMA StaysKeeps ==
  ASSUME SocketInvariant, Stays
  PROVE  OneLiveSocket' /\ SilentAfterLogout' /\ TimerInv'
BY DEF SocketInvariant, TabInvariant, TypeOK, OneLiveSocket, SilentAfterLogout, TimerInv,
   LiveSockets, Stays

LEMMA LogoutKeeps ==
  ASSUME SocketInvariant, Logout
  PROVE  OneLiveSocket' /\ SilentAfterLogout' /\ TimerInv'
<1>1. \A s \in Sockets : /\ Closed(s).state \notin Live
                         /\ Closed(s).org = ws[s].org
                         /\ Closed(s).state = "closed" <=> ws[s].state = "closed"
  BY ClosedFacts DEF Closed, SocketInvariant, OneLiveSocket, LiveSockets, Live
<1>2. LiveSockets' = {}
  BY <1>1 DEF Logout, LiveSockets
<1>3. TimerInv'
  <2>1. /\ ws' = [s \in Sockets |-> Closed(s)]
        /\ timers' \subseteq timers
        /\ UNCHANGED <<socket, socketOrgId, reopened>>
    BY DEF Logout
  <2> QED
    BY <1>1, <2>1 DEF TimerInv, SocketInvariant, TabInvariant, TypeOK
<1> QED
  BY <1>2, <1>3 DEF OneLiveSocket, SilentAfterLogout

LEMMA SocketInvariantStep == SocketInvariant /\ [Next]_vars => SocketInvariant'
<1> SUFFICES ASSUME SocketInvariant, [Next]_vars PROVE SocketInvariant'
  OBVIOUS
<1>t. TabInvariant'
  BY TabStep DEF SocketInvariant
<1> USE <1>t, OpensKeeps, MovesKeeps, StaysKeeps DEF SocketInvariant
<1>1. CASE \E c \in Calls : CallStep(c) \/ Fail(c)
  BY <1>1, CallSteps
<1>2. CASE Login \/ \E o \in Orgs : Select(o)
  BY <1>2, UserSteps
<1>3. CASE \E s \in Sockets : SocketStep(s) \/ Drop(s)
  BY <1>3, SocketSteps
<1>4. CASE \E o \in Orgs : Change(o) \/ Broadcast(o)
  BY <1>4, ServerSteps
<1>5. CASE Logout
  BY <1>5, LogoutKeeps
<1>6. CASE UNCHANGED vars
  BY <1>6
  DEF vars, page, live, OneLiveSocket, SilentAfterLogout, TimerInv,
      LiveSockets
<1> QED
  BY <1>1, <1>2, <1>3, <1>4, <1>5, <1>6 DEF Next, Quiet

LEMMA SocketInvariance == Spec => []SocketInvariant
<1>1. Init => SocketInvariant
  BY TabInit
  DEF Init, SocketInvariant, OneLiveSocket, SilentAfterLogout, TimerInv, LiveSockets, Live,
      Unused
<1> QED
  BY <1>1, SocketInvariantStep, PTL DEF Spec

(* Whatever clicks, retries and late answers call connectSocket, at most   *)
(* one socket is live, and it is the one the page knows and can close.     *)
THEOREM OneSocketIsLive == Spec => []OneLiveSocket
<1>1. SocketInvariant => OneLiveSocket
  BY DEF SocketInvariant
<1> QED
  BY <1>1, SocketInvariance, PTL

(* After the user has logged out no socket is live, although answers that  *)
(* were outstanding still open sockets.                                    *)
THEOREM LogoutIsSilent == Spec => []SilentAfterLogout
<1>1. SocketInvariant => SilentAfterLogout
  BY DEF SocketInvariant
<1> QED
  BY <1>1, SocketInvariance, PTL

(* A retry tears down a live socket only if that one was opened while the  *)
(* end of an earlier one for the same organization was outstanding.        *)
THEOREM RetriesReplaceTheDead == Spec => []RetryOnlyWhenDown
<1>1. SocketInvariant => RetryOnlyWhenDown
  <2>1. SUFFICES ASSUME SocketInvariant, timers # {}, ~reopened
                 PROVE  LiveSockets = {} /\ Cardinality(timers) = 1
    BY DEF RetryOnlyWhenDown
  <2>2. timers = {socket} /\ ws[socket].state = "closed"
    BY <2>1 DEF SocketInvariant, TimerInv
  <2>3. LiveSockets = {}
    BY <2>1, <2>2 DEF SocketInvariant, OneLiveSocket, LiveSockets, Live
  <2>4. Cardinality({socket}) = 1
    BY FS_Singleton
  <2> QED
    BY <2>2, <2>3, <2>4
<1> QED
  BY <1>1, SocketInvariance, PTL

-----------------------------------------------------------------------------
(* Selections. *)

(* The last selection is of the selected organization while it is on its   *)
(* way; once it has ended, the page has turned to its socket, unless       *)
(* something led astray; and socketOrgId is the socket's organization.     *)
SelectionAsked == latest \in Selecting => call[latest].org = selectedOrg
SelectionEnded == latest \notin Selecting /\ ~astray => socketOrgId = selectedOrg
SocketNamed == socket # NONE => ws[socket].org = socketOrgId

SelectionInv == SelectionAsked /\ SelectionEnded /\ SocketNamed

LEMMA OrgOfSocketKept ==
  ASSUME SocketInvariant, SelectionInv, Next
  PROVE  SocketNamed'
<1>t. TabInvariant /\ socket \in Sockets \cup {NONE}
  BY DEF SocketInvariant, TabInvariant, TypeOK
<1>1. CASE Opens
  <2>1. PICK o \in OrgOrNone, running \in SUBSET timers : ConnectSocket(o, running)
    BY <1>1 DEF Opens
  <2> QED
    BY <2>1, OpenedFacts DEF SocketNamed, ConnectSocket, Opened
<1>2. CASE Stays
  BY <1>t, <1>2 DEF Stays, SelectionInv, SocketNamed
<1>3. ASSUME NEW s \in Sockets, Moves(s) PROVE SocketNamed'
  BY <1>t, <1>3 DEF Moves, SelectionInv, SocketNamed, TabInvariant, TypeOK
<1>4. CASE Logout
  BY <1>t, <1>4, ClosedFacts DEF Logout, SelectionInv, SocketNamed
<1>5. CASE Quiet
  BY <1>5 DEF Quiet, vars, live, SelectionInv, SocketNamed
<1> QED
  BY <1>t, <1>1, <1>2, <1>3, <1>4, <1>5, CallSteps, UserSteps, SocketSteps, ServerSteps
  DEF Next

LEMMA SelectionStep ==
  ASSUME SocketInvariant, SelectionInv, [Next]_vars
  PROVE  SelectionInv'
<1> USE DEF SelectionInv, SelectionAsked, SelectionEnded
<1>1. CASE UNCHANGED vars
  BY <1>1 DEF vars, page, live, hist, SocketNamed, Selecting, Waiting
<1> SUFFICES ASSUME Next
             PROVE  SelectionAsked' /\ SelectionEnded'
  BY <1>1, OrgOfSocketKept
<1>t. TabInvariant /\ latest \in Calls /\ call \in [Calls -> CallRecord]
  BY DEF SocketInvariant, TabInvariant, TypeOK, CallRecord
<1>2. ASSUME NEW c \in Calls, CallStep(c) \/ Fail(c)
      PROVE  SelectionAsked' /\ SelectionEnded'
  <2>1. call[c].awaits # NONE /\ call[c] # NoCall
    BY <1>t, <1>2, NoneAssumption, CallFacts
    DEF CallStep, Fail, ProjectsAnswered, ReadFlags, FlagsAnswered, AuditsAnswered, Refused,
        Replies
  <2>2. ASSUME UNCHANGED <<latest, astray, selectedOrg, socketOrgId>>,
               NEW r, call' = [call EXCEPT ![c] = r], r.kind = call[c].kind,
               r.org = call[c].org, r # NoCall
        PROVE  SelectionAsked' /\ SelectionEnded'
    BY <1>t, <2>1, <2>2 DEF Selecting, Waiting
  <2>3. CASE /\ ConnectSocket(call[c].org, timers) /\ End(c) /\ astray' = (c # latest)
             /\ UNCHANGED <<latest, selectedOrg>> /\ call[c].awaits # "flags"
    <3>1. socketOrgId' = call[c].org
      BY <2>3 DEF ConnectSocket
    <3>2. call[c].kind # "load"
      BY <1>t, <2>1, <2>3, CallFacts
    <3> QED
      BY <1>t, <2>1, <2>3, <3>1, <3>2 DEF End, Selecting, Waiting
  <2>4. CASE /\ \E a \in Replies : Await(c, a)
             /\ UNCHANGED <<latest, astray, selectedOrg, socketOrgId>>
    <3>1. PICK a \in Replies : Await(c, a)
      BY <2>4
    <3>2. call' = [call EXCEPT ![c] = [call[c] EXCEPT !.awaits = a]]
      BY <3>1 DEF Await
    <3>3. LET r == [call[c] EXCEPT !.awaits = a] IN
            r.kind = call[c].kind /\ r.org = call[c].org /\ r # NoCall
      BY <1>t, NoneAssumption DEF CallRecord, NoCall
    <3> QED
      BY <2>2, <2>4, <3>2, <3>3
  <2>5. CASE ReadFlags(c)
    <3>1. LET r == [call[c] EXCEPT !.answer = version[call[c].org]] IN
            r.kind = call[c].kind /\ r.org = call[c].org /\ r # NoCall
               /\ call' = [call EXCEPT ![c] = r]
      BY <1>t, <2>1, <2>5, NoneAssumption DEF ReadFlags, CallRecord, NoCall
    <3> QED
      BY <2>2, <2>5, <3>1 DEF ReadFlags, page, live
  <2>6. CASE /\ call[c].kind = "load" /\ End(c)
             /\ UNCHANGED <<latest, selectedOrg, astray, socketOrgId>>
    BY <1>t, <2>1, <2>6 DEF End, Selecting, Waiting
  <2>7. CASE Refused(c) \/ Fail(c)
    BY <1>t, <2>1, <2>7 DEF Refused, Fail, Broken, End, Selecting, Waiting, live
  <2> QED
    BY <1>2, <2>3, <2>4, <2>5, <2>6, <2>7
    DEF CallStep, ProjectsAnswered, FlagsAnswered, AuditsAnswered, Replies, live, page
<1>3. CASE Login \/ \E o \in Orgs : Select(o)
  <2>1. PICK o : /\ Begin("select", o, "projects") /\ selectedOrg' = o
                 /\ latest' = Least(FreeCalls)
    BY <1>3 DEF Login, Select
  <2>2. latest' \in Calls
        /\ call' = [call EXCEPT ![latest'] = [kind |-> "select", org |-> o,
                                              awaits |-> "projects", answer |-> NONE]]
    BY <1>t, <2>1, BeginFacts
  <2>3. call'[latest'].kind = "select" /\ call'[latest'].org = o /\ call'[latest'] # NoCall
    BY <1>t, <2>2, NoneAssumption DEF NoCall, Replies
  <2> QED
    BY <2>1, <2>2, <2>3 DEF Selecting, Waiting
<1>4. ASSUME UNCHANGED <<latest, astray, selectedOrg, socketOrgId, call>>
      PROVE  SelectionAsked' /\ SelectionEnded'
  BY <1>4 DEF Selecting, Waiting
<1>5. ASSUME NEW s \in Sockets, SocketStep(s) \/ Drop(s)
      PROVE  SelectionAsked' /\ SelectionEnded'
  <2>1. CASE Answer(s) \/ CloseEvent(s) \/ Drop(s)
    BY <1>4, <2>1 DEF Answer, CloseEvent, Drop, page, hist
  <2>2. CASE Retry(s)
    <3>1. /\ UNCHANGED <<latest, selectedOrg, call>> /\ socketOrgId' = ws[s].org
          /\ astray' = (astray \/ (reopened /\ ws[s].org # socketOrgId))
          /\ s \in timers
      BY <2>2 DEF Retry, ConnectSocket, page
    <3>2. ~astray' => socketOrgId' = socketOrgId
      <4>1. SUFFICES ASSUME ~reopened PROVE ws[s].org = socketOrgId
        BY <3>1
      <4>2. s = socket
        BY <3>1, <4>1 DEF SocketInvariant, TimerInv
      <4> QED
        BY <4>2, BoundsAssumption, NoneAssumption DEF Sockets, SocketNamed
    <3> QED
      BY <3>1, <3>2 DEF Selecting, Waiting
  <2>3. CASE Message(s)
    <3>1. UNCHANGED <<latest, selectedOrg, astray, socketOrgId>>
      BY <2>3 DEF Message, page
    <3>2. CASE Begin("load", selectedProject, "flags")
      <4>1. PICK c \in Calls :
              /\ call[c] = NoCall
              /\ call' = [call EXCEPT ![c] = [kind |-> "load", org |-> selectedProject,
                                              awaits |-> "flags", answer |-> NONE]]
        BY <1>t, <3>2, BeginFacts
      <4> QED
        BY <1>t, <3>1, <4>1 DEF Selecting, Waiting
    <3> QED
      BY <1>4, <2>3, <3>1, <3>2 DEF Message
  <2> QED
    BY <1>5, <2>1, <2>2, <2>3 DEF SocketStep
<1>6. CASE Logout \/ Quiet \/ \E o \in Orgs : Change(o) \/ Broadcast(o)
  BY <1>4, <1>6 DEF Logout, Quiet, Change, Broadcast, vars, page, live, hist
<1> QED
  BY <1>2, <1>3, <1>5, <1>6 DEF Next

LEMMA SelectionInit == Init => SelectionInv
BY NoneAssumption, BoundsAssumption
DEF Init, SelectionInv, SelectionAsked, SelectionEnded, SocketNamed, Selecting,
    Waiting, NoCall, Calls, Replies

(* With no selection on its way, a connected socket is the selected        *)
(* organization's, unless the last selection failed or was overtaken.      *)
THEOREM SocketIsOfTheSelection == Spec => []SocketFollowsSelection
<1>1. Init => SelectionInv
  BY SelectionInit
<1>2. SocketInvariant /\ SelectionInv /\ [Next]_vars => SelectionInv'
  BY SelectionStep
<1>3. SelectionInv => SocketFollowsSelection
  BY DEF SelectionInv, SelectionEnded, SocketNamed, SocketFollowsSelection, Connected
<1> QED
  BY <1>1, <1>2, <1>3, SocketInvariance, PTL DEF Spec

-----------------------------------------------------------------------------
(* Flags. *)

(* A call has still to be answered by the server; a message to be          *)
(* delivered.                                                              *)
Asking(o) ==
  \E c \in Calls : call[c].awaits = "flags" /\ call[c].org = o /\ call[c].answer = NONE
Sent(o) == \E s \in Sockets : ws[s].org = o /\ ws[s].messages > 0

(* Unless the server has answered with the flags as they are, the tab has  *)
(* still to be told, or to ask, or has missed something.                   *)
Owed(o) == newest[o] # version[o] => o \in missed \/ unsent[o] > 0 \/ Sent(o) \/ Asking(o)

(* The flags shown are the newest that were answered, or those are on      *)
(* their way, or were lost.                                                *)
ShownInv ==
  flags.org \in Orgs /\ ~raced =>
    \/ flags.version = newest[flags.org] \/ flags.org \in missed
    \/ \E c \in Calls : /\ call[c].awaits = "flags" /\ call[c].org = flags.org
                        /\ call[c].answer = newest[flags.org]

FlagsInv == ShownInv /\ \A o \in Orgs : Owed(o)

(* A step that takes nothing of this back. *)
CallsKept ==
  \A c \in Calls : call[c].awaits = "flags" => call'[c] = call[c] \/ call[c].org \in missed'
MessagesKept ==
  \A s \in Sockets : ws[s].messages > 0 =>
    \/ ws[s].org \in missed'
    \/ ws'[s].org = ws[s].org /\ (ws'[s].messages > 0 \/ Asking(ws[s].org)')

LEMMA Kept ==
  ASSUME FlagsInv, CallsKept, MessagesKept, missed \subseteq missed',
         UNCHANGED <<version, unsent, newest>>, flags' = NoFlags \/ UNCHANGED <<flags, raced>>
  PROVE  FlagsInv'
<1>1. ASSUME NEW o \in Orgs PROVE Owed(o)'
  <2>1. Asking(o) => Asking(o)' \/ o \in missed'
    BY DEF CallsKept, Asking
  <2>2. Sent(o) => Sent(o)' \/ o \in missed' \/ Asking(o)'
    BY DEF Sent, MessagesKept
  <2> QED
    BY <2>1, <2>2 DEF FlagsInv, Owed
<1>2. ShownInv'
  <2>1. CASE flags' = NoFlags
    BY <2>1, NoneAssumption DEF ShownInv, NoFlags
  <2>2. CASE UNCHANGED <<flags, raced>>
    BY <2>2 DEF FlagsInv, ShownInv, CallsKept
  <2> QED
    BY <2>1, <2>2
<1> QED
  BY <1>1, <1>2 DEF FlagsInv

LEMMA ClosingKeeps ==
  ASSUME TabInvariant, OneLiveSocket, Lost(socket), NEW s \in Sockets, ws[s].messages > 0
  PROVE  ws[s].org \in missed'
BY NoneAssumption, BoundsAssumption
DEF TabInvariant, SocketsInv, OneLiveSocket, LiveSockets, Live, Lost, Sockets

LEMMA LostKeeps ==
  ASSUME NEW s, Lost(s)
  PROVE  missed \subseteq missed'
BY DEF Lost

LEMMA BeginKeeps ==
  ASSUME TabInvariant, NEW kind, NEW o, NEW awaits, Begin(kind, o, awaits)
  PROVE  CallsKept
BY BeginFacts, NoneAssumption DEF CallsKept, TabInvariant, TypeOK, NoCall, Replies

LEMMA FlagsStep ==
  ASSUME TabInvariant, OneLiveSocket, FlagsInv, [Next]_vars
  PROVE  FlagsInv'
<1> USE Kept, LostKeeps
<1>t. /\ call \in [Calls -> CallRecord] /\ ws \in [Sockets -> SocketRecord]
      /\ version \in [Orgs -> 0..MaxChanges] /\ newest \in [Orgs -> 0..MaxChanges]
      /\ unsent \in [Orgs -> 0..MaxChanges]
  BY DEF TabInvariant, TypeOK, CallRecord, SocketRecord
<1>k. ASSUME UNCHANGED <<call, ws, missed, version, unsent, newest, flags, raced>>
      PROVE  FlagsInv'
  BY <1>k DEF CallsKept, MessagesKept
<1>1. ASSUME NEW c \in Calls, CallStep(c) \/ Fail(c)
      PROVE  FlagsInv'
  <2>1. CASE /\ ConnectSocket(call[c].org, timers) /\ call[c].awaits # "flags"
             /\ ProjectsAnswered(c) \/ AuditsAnswered(c)
    <3>1. CallsKept
      BY <1>t, <2>1 DEF CallsKept, ProjectsAnswered, AuditsAnswered, End, Await
    <3>2. MessagesKept /\ missed \subseteq missed'
      BY <2>1, ClosingKeeps DEF MessagesKept, ConnectSocket
    <3> QED
      BY <2>1, <3>1, <3>2 DEF ProjectsAnswered, AuditsAnswered, page, server, live
  <2>2. CASE ProjectsAnswered(c) /\ UNCHANGED <<flags, live, missed>>
    <3>1. CallsKept
      BY <1>t, <2>2 DEF CallsKept, ProjectsAnswered, End, Await
    <3> QED
      BY <2>2, <3>1 DEF ProjectsAnswered, MessagesKept, live, server
  <2>3. CASE ReadFlags(c)
    <3> DEFINE o == call[c].org
    <3>1. /\ o \in Orgs /\ call' = [call EXCEPT ![c].answer = version[o]]
          /\ call[c].awaits = "flags" /\ call[c].answer = NONE
          /\ newest' = [newest EXCEPT ![o] = version[o]] /\ missed' = missed \ {o}
          /\ UNCHANGED <<version, unsent, ws, flags, raced>>
      BY <2>3, CallFacts, NoneAssumption DEF ReadFlags, page, live, server, Replies
    <3>2. ASSUME NEW p \in Orgs PROVE Owed(p)'
      <4>1. CASE p = o
        BY <1>t, <3>1, <4>1 DEF Owed
      <4>2. CASE p # o
        BY <1>t, <3>1, <4>2 DEF Owed, FlagsInv, Asking, Sent
      <4> QED
        BY <4>1, <4>2
    <3>3. ShownInv'
      <4>1. CASE flags.org = o
        BY <1>t, <3>1, <4>1 DEF ShownInv, CallRecord
      <4>2. CASE flags.org # o
        BY <1>t, <3>1, <4>2 DEF ShownInv, FlagsInv
      <4> QED
        BY <4>1, <4>2
    <3> QED
      BY <3>2, <3>3 DEF FlagsInv
  <2>4. CASE FlagsAnswered(c)
    <3> DEFINE o == call[c].org
    <3>1. /\ o \in Orgs /\ flags' = [org |-> o, version |-> call[c].answer]
          /\ raced' = (call[c].answer < newest[o])
          /\ call[c].answer \in 0..MaxChanges /\ call[c].answer <= newest[o]
          /\ newest[o] \in 0..MaxChanges
          /\ call[c].answer # NONE
          /\ UNCHANGED <<version, unsent, newest, ws, missed>>
      BY <1>t, <2>4, CallFacts, NoneAssumption DEF FlagsAnswered, live, server, Replies
    <3>2. ShownInv'
      <4>1. call[c].answer < newest[o] => raced'
        BY <3>1, Zenon
      <4>2. ~raced' => call[c].answer = newest[o]
        BY <3>1, <4>1
      <4> QED
        BY <3>1, <4>2 DEF ShownInv
    <3>3. \A d \in Calls : d # c => call'[d] = call[d]
      BY <1>t, <2>4 DEF FlagsAnswered, End, Await
    <3>4. ASSUME NEW p \in Orgs PROVE Owed(p)'
      BY <1>t, <3>1, <3>3 DEF Owed, FlagsInv, Asking, Sent
    <3> QED
      BY <3>2, <3>4 DEF FlagsInv
  <2>5. CASE Refused(c) \/ Fail(c)
    <3>1. /\ CallsKept /\ missed \subseteq missed'
      BY <1>t, <2>5 DEF CallsKept, Refused, Fail, Broken, End
    <3> QED
      BY <2>5, <3>1 DEF Refused, Fail, Broken, MessagesKept, live, server
  <2> QED
    BY <1>1, <2>1, <2>2, <2>3, <2>4, <2>5 DEF CallStep, ProjectsAnswered, AuditsAnswered
<1>2. CASE Login \/ \E o \in Orgs : Select(o)
  <2>1. CallsKept
    BY <1>2, BeginKeeps DEF Login, Select
  <2> QED
    BY <1>2, <2>1 DEF Login, Select, MessagesKept, live, server
<1>3. CASE Logout
  <2>1. MessagesKept /\ missed \subseteq missed'
    BY <1>3, ClosingKeeps DEF MessagesKept, Logout
  <2> QED
    BY <1>3, <2>1 DEF Logout, CallsKept, server
<1>4. ASSUME NEW s \in Sockets, SocketStep(s) \/ Drop(s)
      PROVE  FlagsInv'
  <2>1. CASE Answer(s) \/ CloseEvent(s)
    <3>1. MessagesKept
      BY <1>t, <2>1 DEF MessagesKept, Answer, CloseEvent, SocketRecord
    <3> QED
      BY <2>1, <3>1 DEF Answer, CloseEvent, CallsKept, page, server, hist
  <2>2. CASE Drop(s)
    <3>1. MessagesKept /\ missed \subseteq missed'
      BY <1>t, <2>2, NoneAssumption, BoundsAssumption
      DEF MessagesKept, Drop, Lost, SocketRecord, Sockets
    <3> QED
      BY <2>2, <3>1 DEF Drop, CallsKept, page, server
  <2>3. CASE Retry(s)
    <3>1. MessagesKept /\ missed \subseteq missed'
      BY <2>3, ClosingKeeps DEF MessagesKept, Retry, ConnectSocket
    <3> QED
      BY <2>3, <3>1 DEF Retry, CallsKept, page, server
  <2>4. CASE Message(s)
    <3>1. CallsKept
      <4>1. CASE Begin("load", selectedProject, "flags")
        BY <4>1, BeginKeeps
      <4> QED
        BY <2>4, <4>1 DEF Message, CallsKept
    <3>2. ws[s].org \in missed' \/ Asking(ws[s].org)'
      <4>1. SUFFICES ASSUME ws[s].org \notin missed' PROVE Asking(ws[s].org)'
        OBVIOUS
      <4>2. ws[s].org \in Orgs
        BY <2>4 DEF Message, TabInvariant, SocketsInv
      <4>3. Begin("load", ws[s].org, "flags")
        BY <2>4, <4>1, <4>2, NoneAssumption DEF Message
      <4>4. ws'[s].org = ws[s].org
        BY <1>t, <2>4 DEF Message, SocketRecord
      <4> QED
        BY <1>t, <4>3, <4>4, BeginFacts DEF Asking
    <3>3. MessagesKept
      BY <1>t, <2>4, <3>2 DEF Message, MessagesKept
    <3>4. missed \subseteq missed'
      BY <2>4 DEF Message
    <3> QED
      BY <2>4, <3>1, <3>3, <3>4 DEF Message, page, server
  <2> QED
    BY <1>4, <2>1, <2>2, <2>3, <2>4 DEF SocketStep
<1>5. ASSUME NEW o \in Orgs, Change(o)
      PROVE  FlagsInv'
  <2>1. /\ version' = [version EXCEPT ![o] = @ + 1] /\ unsent' = [unsent EXCEPT ![o] = @ + 1]
        /\ UNCHANGED <<call, ws, missed, newest, flags, raced>>
    BY <1>5 DEF Change, page, live, hist
  <2>2. ASSUME NEW p \in Orgs PROVE Owed(p)'
    BY <1>t, <2>1, BoundsAssumption DEF FlagsInv, Owed, Asking, Sent
  <2> QED
    BY <2>1, <2>2 DEF FlagsInv, ShownInv
<1>6. ASSUME NEW o \in Orgs, Broadcast(o)
      PROVE  FlagsInv'
  <2>1. /\ unsent' = [unsent EXCEPT ![o] = @ - 1]
        /\ missed \subseteq missed'
        /\ UNCHANGED <<call, version, newest, flags, raced>>
    BY <1>6 DEF Broadcast, page
  <2>2. \A s \in Sockets : /\ ws'[s].org = ws[s].org
                           /\ ws[s].messages > 0 => ws'[s].messages > 0
    BY <1>t, <1>6, BoundsAssumption DEF Broadcast, SocketRecord
  <2>3. o \in missed' \/ Sent(o)'
    <3>1. SUFFICES ASSUME ws' # ws PROVE Sent(o)'
      BY <1>6 DEF Broadcast
    <3>2. PICK s \in Sockets : ws'[s] # ws[s]
      BY <1>t, <1>6, <3>1 DEF Broadcast
    <3> QED
      BY <1>t, <1>6, <3>2, BoundsAssumption DEF Broadcast, Sent, SocketRecord
  <2>4. ASSUME NEW p \in Orgs PROVE Owed(p)'
    <3>1. CASE p = o
      BY <2>3, <3>1 DEF Owed
    <3>2. CASE p # o
      <4>1. unsent'[p] = unsent[p]
        BY <1>t, <2>1, <3>2
      <4>2. Sent(p) => Sent(p)'
        BY <2>2 DEF Sent
      <4>3. Asking(p) => Asking(p)'
        BY <2>1 DEF Asking
      <4> QED
        BY <2>1, <4>1, <4>2, <4>3 DEF FlagsInv, Owed
    <3> QED
      BY <3>1, <3>2
  <2> QED
    BY <2>1, <2>4 DEF FlagsInv, ShownInv
<1>7. CASE UNCHANGED vars
  BY <1>k, <1>7 DEF vars, page, live, server, hist
<1> QED
  BY <1>1, <1>2, <1>3, <1>4, <1>5, <1>6, <1>7 DEF Next, Quiet

(* A connected tab with nothing outstanding shows the flags as they are,   *)
(* unless it was not told, or two answers arrived in the wrong order.      *)
THEOREM FlagsShownAreCurrent == Spec => []FlagsAreCurrent
<1>1. Init => FlagsInv
  BY NoneAssumption DEF Init, FlagsInv, ShownInv, NoFlags, Owed
<1>2. TabInvariant /\ OneLiveSocket /\ FlagsInv /\ [Next]_vars => FlagsInv'
  BY FlagsStep
<1>3. TabInvariant /\ OneLiveSocket /\ FlagsInv => FlagsAreCurrent
  <2>1. SUFFICES ASSUME TabInvariant, OneLiveSocket, FlagsInv, Connected, Waiting = {},
                        ws[socket].messages = 0, unsent[ws[socket].org] = 0,
                        flags.org = ws[socket].org, flags.org \notin missed, ~raced
                 PROVE  flags.version = version[flags.org]
    BY DEF FlagsAreCurrent
  <2>2. socket \in Sockets /\ flags.org \in Orgs
    BY <2>1 DEF Connected, TabInvariant, TypeOK, SocketsInv
  <2>3. \A c \in Calls : call[c].awaits # "flags"
    BY <2>1, NoneAssumption DEF Waiting, NoCall, Replies
  <2>4. ~Sent(flags.org)
    <3>1. ASSUME NEW s \in Sockets, ws[s].messages > 0 PROVE s = socket
      BY <2>1, <3>1 DEF OneLiveSocket, LiveSockets, Live, TabInvariant, SocketsInv
    <3> QED
      BY <2>1, <3>1 DEF Sent
  <2> QED
    BY <2>1, <2>2, <2>3, <2>4 DEF FlagsInv, ShownInv, Owed, Asking
<1> QED
  BY <1>1, <1>2, <1>3, TabInvariance, OneSocketIsLive, PTL DEF Spec
=============================================================================
