--------------------------- MODULE Realtime_proofs ---------------------------
(***************************************************************************)
(* Realtime's safety properties, for any number of requests, sockets and   *)
(* organizations, and any sizes of the connection pool and of the thread   *)
(* pool.                                                                   *)
(***************************************************************************)
EXTENDS Realtime, FiniteSetTheorems, TLAPS

(* Who is past the handshake, or owed or sent an event, was let in. *)
AdmittedInv ==
  \A s \in Sockets : endpoint[s] = "accepting" => caller[s] = "member"

(* What a broadcast has still to send, and what was sent, is the           *)
(* organization's; what is due is sent or has still to be, to clients that *)
(* are there; and nothing is due before the broadcast.                     *)
TargetsInv ==
  \A r \in Requests : \A s \in targets[r] :
    /\ OrgOf[s] = OrgOf[r]
    /\ caller[s] = "member"
    /\ endpoint[s] # "away"

ToldInv ==
  \A s \in Sockets : \A r \in told[s] :
    /\ OrgOf[s] = OrgOf[r]
    /\ caller[s] = "member"
    /\ endpoint[s] # "away"

DueInv ==
  \A r \in Requests :
    /\ \A s \in due[r] : s \in targets[r] \/ r \in told[s]
    /\ due[r] \subseteq alive
    /\ request[r] \notin {"sending", "closing", "answered"} => due[r] = {}
    /\ request[r] # "sending" => targets[r] = {}

RealtimeInvariant ==
  /\ TypeOK
  /\ NoDeafSocket
  /\ NoGhostSocket
  /\ AdmittedInv
  /\ TargetsInv
  /\ ToldInv
  /\ DueInv
  /\ IsFiniteSet(held)
  /\ ConnectionsReturned

RequestActions(r) ==
  \/ \E c \in CallersOf[r] : Submit(r, c)
  \/ Dispatch(r) \/ CheckOut(r) \/ Commit(r) \/ Refuse(r)
  \/ TimeOut(r) \/ Broadcast(r) \/ EndBroadcast(r) \/ CloseSession(r)

SocketActions(s) ==
  \/ \E c \in CallersOf[s] : Connect(s, c)
  \/ Leave(s) \/ OpenSession(s) \/ RefuseToken(s) \/ Block(s) \/ Handshake(s)
  \/ HandshakeTimeOut(s) \/ Accept(s) \/ AcceptFails(s) \/ ReceiveEnds(s)
  \/ EndpointEnds(s)

(* Every step is one of these, or changes nothing. *)
LEMMA Steps ==
  ASSUME [Next]_vars
  PROVE  \/ \E r \in Requests : RequestActions(r)
         \/ \E r \in Requests, s \in Sockets : Send(r, s)
         \/ \E s \in Sockets : SocketActions(s)
         \/ UNCHANGED vars
BY DEF Next, RequestStep, EndpointStep, RequestActions, SocketActions, Quiet

(* A request's steps choose no socket's caller. *)
LEMMA CallersKept ==
  ASSUME TypeOK, NEW r \in Requests, RequestActions(r)
  PROVE  /\ \A s \in Sockets : caller'[s] = caller[s]
         /\ caller' \in [Sessions -> Callers]
         /\ UNCHANGED <<endpoint, alive, connections>>
<1>1. CASE \E c \in CallersOf[r] : Submit(r, c)
  BY <1>1, CallersAssumption, SessionsAssumption DEF Submit, TypeOK, Sessions
<1>2. CASE ~\E c \in CallersOf[r] : Submit(r, c)
  BY <1>2
  DEF RequestActions, Dispatch, CheckOut, Commit, Refuse, TimeOut, Broadcast,
      EndBroadcast, CloseSession, registry, TypeOK
<1> QED
  BY <1>1, <1>2

(* The initial states have the invariant. *)
LEMMA InitInvariant == Init => RealtimeInvariant
<1> SUFFICES ASSUME Init PROVE RealtimeInvariant
  OBVIOUS
<1>2. IsFiniteSet(held) /\ Cardinality(held) = 0
  BY FS_EmptySet, Zenon DEF Init
<1>3. TypeOK
  BY DEF Init, TypeOK, Callers, RequestStates, EndpointStates, Sessions
<1>4. ConnectionsReturned
  BY <1>2, SizesAssumption DEF Init, ConnectionsReturned
<1> QED
  BY <1>2, <1>3, <1>4
  DEF Init, RealtimeInvariant, NoDeafSocket, NoGhostSocket, AdmittedInv, TargetsInv,
      ToldInv, DueInv

-----------------------------------------------------------------------------
(* Types. *)

LEMMA RequestTypes ==
  ASSUME TypeOK, NEW r \in Requests,
         RequestActions(r) \/ \E s \in Sockets : Send(r, s)
  PROVE  TypeOK'
<1>1. request' \in [Requests -> RequestStates]
  BY DEF TypeOK, RequestActions, Submit, Dispatch, CheckOut, Commit, Refuse, TimeOut,
     Broadcast, Send, EndBroadcast, CloseSession, MoveRequest, RequestStates, OnThread
<1>2. held' \in SUBSET Sessions
  BY DEF TypeOK, RequestActions, Submit, Dispatch, CheckOut, Commit, Refuse, TimeOut,
     Broadcast, Send, EndBroadcast, CloseSession, Sessions
<1>3. CASE RequestActions(r) /\ ~Broadcast(r)
  BY <1>1, <1>2, <1>3, CallersKept
  DEF TypeOK, RequestActions, Submit, Dispatch, CheckOut, Commit, Refuse, TimeOut,
      EndBroadcast, CloseSession, registry
<1>4. CASE Broadcast(r)
  BY <1>1, <1>2, <1>4, CallersAssumption DEF TypeOK, Broadcast, Sessions
<1>5. CASE \E s \in Sockets : Send(r, s)
  BY <1>1, <1>2, <1>5, CallersAssumption DEF TypeOK, Send, Unregister, Sessions
<1> QED
  BY <1>3, <1>4, <1>5

LEMMA SocketTypes ==
  ASSUME TypeOK, NEW s \in Sockets, SocketActions(s)
  PROVE  TypeOK'
<1>1. endpoint' \in [Sockets -> EndpointStates]
  BY DEF TypeOK, SocketActions, Connect, Leave, OpenSession, RefuseToken, Block, Handshake,
     HandshakeTimeOut, Accept, AcceptFails, ReceiveEnds, EndpointEnds, MoveEndpoint,
     EndpointStates, registry
<1>2. held' \in SUBSET Sessions
  BY DEF TypeOK, SocketActions, Connect, Leave, OpenSession, RefuseToken, Block, Handshake,
     HandshakeTimeOut, Accept, AcceptFails, ReceiveEnds, EndpointEnds, Sessions
<1>3. alive' \in SUBSET Sockets /\ due' \in [Requests -> SUBSET Sockets]
  BY DEF TypeOK, SocketActions, Connect, Leave, OpenSession, RefuseToken, Block, Handshake,
     HandshakeTimeOut, Accept, AcceptFails, ReceiveEnds, EndpointEnds, Hangup, registry
<1>4. caller' \in [Sessions -> Callers]
  BY CallersAssumption
  DEF TypeOK, Sessions, SocketActions, Connect, Leave, OpenSession, RefuseToken, Block, Handshake,
      HandshakeTimeOut, Accept, AcceptFails, ReceiveEnds, EndpointEnds, registry
<1>5. connections' \in [Orgs -> SUBSET Sockets]
  BY CallersAssumption
  DEF TypeOK, SocketActions, Connect, Leave, OpenSession, RefuseToken, Block, Handshake,
      HandshakeTimeOut, Accept, AcceptFails, ReceiveEnds, EndpointEnds, registry, Unregister,
      Sessions
<1>6. loop' \in Sockets \cup {Idle} /\ UNCHANGED <<request, targets, told>>
  BY DEF TypeOK, SocketActions, Connect, Leave, OpenSession, RefuseToken, Block, Handshake,
     HandshakeTimeOut, Accept, AcceptFails, ReceiveEnds, EndpointEnds, registry
<1> QED
  BY <1>1, <1>2, <1>3, <1>4, <1>5, <1>6 DEF TypeOK

-----------------------------------------------------------------------------
(* The registry. *)

LEMMA RegistryStep ==
  ASSUME TypeOK, NoDeafSocket, NoGhostSocket, AdmittedInv, [Next]_vars
  PROVE  NoDeafSocket' /\ NoGhostSocket' /\ AdmittedInv'
<1>1. ASSUME NEW r \in Requests, RequestActions(r)
      PROVE  NoDeafSocket' /\ NoGhostSocket' /\ AdmittedInv'
  <2>1. /\ \A s \in Sockets : caller'[s] = caller[s]
        /\ UNCHANGED <<endpoint, alive, connections>>
    BY <1>1, CallersKept
  <2> QED
    BY <2>1 DEF NoDeafSocket, NoGhostSocket, AdmittedInv, TypeOK
<1>2. ASSUME NEW r \in Requests, NEW s \in Sockets, Send(r, s)
      PROVE  NoDeafSocket' /\ NoGhostSocket' /\ AdmittedInv'
  <2>1. UNCHANGED <<endpoint, caller, alive>>
    BY <1>2 DEF Send
  <2>2. CASE UNCHANGED connections
    BY <2>1, <2>2 DEF NoDeafSocket, NoGhostSocket, AdmittedInv
  <2>3. CASE s \notin alive /\ Unregister(s)
    BY <2>1, <2>3, CallersAssumption
    DEF NoDeafSocket, NoGhostSocket, AdmittedInv, Unregister, TypeOK, Sessions
  <2> QED
    BY <1>2, <2>2, <2>3 DEF Send
<1>3. ASSUME NEW s \in Sockets, SocketActions(s)
      PROVE  NoDeafSocket' /\ NoGhostSocket' /\ AdmittedInv'
  <2>1. ASSUME NEW c \in CallersOf[s], Connect(s, c)
        PROVE  NoDeafSocket' /\ NoGhostSocket' /\ AdmittedInv'
    BY <2>1, CallersAssumption
    DEF NoDeafSocket, NoGhostSocket, AdmittedInv, Connect, MoveEndpoint, TypeOK, Sessions
  <2>2. CASE Leave(s) \/ Block(s)
    BY <2>2 DEF NoDeafSocket, NoGhostSocket, AdmittedInv, Leave, Hangup, Block, registry
  <2>3. CASE OpenSession(s) \/ RefuseToken(s) \/ Handshake(s) \/ HandshakeTimeOut(s)
             \/ AcceptFails(s) \/ EndpointEnds(s)
    <3>1. endpoint[s] # "open" /\ endpoint' = [endpoint EXCEPT ![s] = endpoint'[s]]
          /\ endpoint'[s] # "open" /\ alive' \subseteq alive
          /\ (endpoint'[s] = "accepting" => caller[s] = "member")
          /\ UNCHANGED <<caller, connections>>
      BY <2>3
      DEF OpenSession, RefuseToken, Handshake, HandshakeTimeOut, AcceptFails, EndpointEnds,
          MoveEndpoint, Hangup, TypeOK, registry
    <3> QED
      BY <3>1 DEF NoDeafSocket, NoGhostSocket, AdmittedInv, TypeOK
  <2>4. CASE Accept(s)
    <3>1. OrgOf[s] \in Orgs /\ caller[s] = "member"
      BY <2>4, CallersAssumption DEF Accept, MoveEndpoint, AdmittedInv, Sessions
    <3>2. /\ connections' = [connections EXCEPT ![OrgOf[s]] = @ \cup {s}]
          /\ endpoint' = [endpoint EXCEPT ![s] = "open"]
          /\ UNCHANGED <<caller, alive>>
      BY <2>4 DEF Accept, MoveEndpoint
    <3>3. NoDeafSocket' /\ AdmittedInv'
      BY <3>1, <3>2, CallersAssumption DEF NoDeafSocket, AdmittedInv, TypeOK, Sessions
    <3>4. NoGhostSocket'
      BY <3>1, <3>2 DEF NoGhostSocket, TypeOK
    <3> QED
      BY <3>3, <3>4
  <2>5. CASE ReceiveEnds(s)
    BY <2>5, CallersAssumption
    DEF NoDeafSocket, NoGhostSocket, AdmittedInv, ReceiveEnds, MoveEndpoint, Unregister,
        TypeOK, Sessions
  <2> QED
    BY <1>3, <2>1, <2>2, <2>3, <2>4, <2>5 DEF SocketActions
<1>4. CASE UNCHANGED <<endpoint, caller, alive, connections>>
  BY <1>4 DEF NoDeafSocket, NoGhostSocket, AdmittedInv
<1> QED
  BY <1>1, <1>2, <1>3, <1>4, Steps DEF vars

-----------------------------------------------------------------------------
(* Broadcasts. *)

LEMMA BroadcastStep ==
  ASSUME TypeOK, NoGhostSocket, TargetsInv, ToldInv, DueInv, [Next]_vars
  PROVE  TargetsInv' /\ ToldInv' /\ DueInv'
<1>1. ASSUME NEW r \in Requests, RequestActions(r), ~Broadcast(r)
      PROVE  TargetsInv' /\ ToldInv' /\ DueInv'
  <2>1. /\ \A s \in Sockets : caller'[s] = caller[s]
        /\ UNCHANGED <<endpoint, alive>>
    BY <1>1, CallersKept
  <2>2. UNCHANGED <<targets, told, due>>
    BY <1>1
    DEF RequestActions, Submit, Dispatch, CheckOut, Commit, Refuse, TimeOut,
        EndBroadcast, CloseSession, registry
  <2>3. /\ request' = [request EXCEPT ![r] = request'[r]]
        /\ request'[r] # "sending"
        /\ request[r] = "sending" => targets[r] = {} /\ request'[r] = "closing"
        /\ request[r] = "closing" => request'[r] = "answered"
        /\ request[r] # "answered"
    BY <1>1
    DEF RequestActions, Submit, Dispatch, CheckOut, Commit, Refuse, TimeOut,
        EndBroadcast, CloseSession, MoveRequest, TypeOK
  <2> QED
    BY <2>1, <2>2, <2>3 DEF TargetsInv, ToldInv, DueInv, TypeOK
<1>2. ASSUME NEW r \in Requests, Broadcast(r)
      PROVE  TargetsInv' /\ ToldInv' /\ DueInv'
  <2>1. OrgOf[r] \in Orgs
    BY CallersAssumption DEF Sessions
  <2> QED
    BY <1>2, <2>1
    DEF TargetsInv, ToldInv, DueInv, Broadcast, MoveRequest, NoGhostSocket, TypeOK
<1>3. ASSUME NEW r \in Requests, NEW s \in Sockets, Send(r, s)
      PROVE  TargetsInv' /\ ToldInv' /\ DueInv'
  BY <1>3 DEF TargetsInv, ToldInv, DueInv, Send, TypeOK
<1>4. ASSUME NEW s \in Sockets, SocketActions(s)
      PROVE  TargetsInv' /\ ToldInv' /\ DueInv'
  <2>1. /\ UNCHANGED <<request, targets, told>>
        /\ \A t \in Sockets : endpoint[t] # "away" => /\ endpoint'[t] # "away"
                                                      /\ caller'[t] = caller[t]
    BY <1>4
    DEF SocketActions, Connect, Leave, OpenSession, RefuseToken, Block, Handshake,
        HandshakeTimeOut, Accept, AcceptFails, ReceiveEnds, EndpointEnds, MoveEndpoint,
        TypeOK, Sessions, registry
  <2>2. \A q \in Requests : due'[q] \subseteq due[q] /\ due'[q] \subseteq alive'
    BY <1>4
    DEF SocketActions, Connect, Leave, OpenSession, RefuseToken, Block, Handshake,
        HandshakeTimeOut, Accept, AcceptFails, ReceiveEnds, EndpointEnds, Hangup,
        TypeOK, DueInv, registry
  <2> QED
    BY <2>1, <2>2 DEF TargetsInv, ToldInv, DueInv, TypeOK
<1>5. CASE UNCHANGED vars
  BY <1>5 DEF vars, TargetsInv, ToldInv, DueInv
<1> QED
  BY <1>1, <1>2, <1>3, <1>4, <1>5, Steps

-----------------------------------------------------------------------------
(* Connections of the database. *)

LEMMA PoolStep ==
  ASSUME TypeOK, IsFiniteSet(held), ConnectionsReturned, [Next]_vars
  PROVE  IsFiniteSet(held)' /\ ConnectionsReturned'
<1> USE SizesAssumption, SessionsAssumption
<1>1. Cardinality(held) \in Nat
  BY FS_CardinalityType
<1>2. ASSUME NEW x, held' = held \cup {x}, ConnectionFree
      PROVE  IsFiniteSet(held') /\ Cardinality(held') <= PoolSize
  <2>1. /\ IsFiniteSet(held \cup {x})
        /\ Cardinality(held \cup {x}) \in {Cardinality(held), Cardinality(held) + 1}
    BY FS_AddElement
  <2>2. Cardinality(held \cup {x}) <= PoolSize
    BY <1>1, <1>2, <2>1 DEF ConnectionFree
  <2> QED
    BY <1>2, <2>1, <2>2
<1>3. ASSUME NEW x, held' = held \ {x}
      PROVE  IsFiniteSet(held') /\ Cardinality(held') <= PoolSize
  <2>1. /\ IsFiniteSet(held \ {x})
        /\ Cardinality(held \ {x}) \in {Cardinality(held), Cardinality(held) - 1}
    BY FS_RemoveElement
  <2>2. Cardinality(held \ {x}) <= PoolSize
    BY <1>1, <2>1 DEF ConnectionsReturned
  <2> QED
    BY <1>3, <2>1, <2>2
<1>4. ASSUME UNCHANGED held
      PROVE  IsFiniteSet(held') /\ Cardinality(held') <= PoolSize
  BY <1>4 DEF ConnectionsReturned
<1>5. IsFiniteSet(held') /\ Cardinality(held') <= PoolSize
  <2>1. ASSUME NEW r \in Requests, RequestActions(r) \/ \E s \in Sockets : Send(r, s)
        PROVE  UNCHANGED held \/ (held' = held \cup {r} /\ ConnectionFree) \/ held' = held \ {r}
    BY <2>1
    DEF RequestActions, Submit, Dispatch, CheckOut, Commit, Refuse, TimeOut, Broadcast, Send,
        EndBroadcast, CloseSession
  <2>2. ASSUME NEW s \in Sockets, SocketActions(s)
        PROVE  UNCHANGED held \/ (held' = held \cup {s} /\ ConnectionFree) \/ held' = held \ {s}
    BY <2>2
    DEF SocketActions, Connect, Leave, OpenSession, RefuseToken, Block, Handshake,
        HandshakeTimeOut, Accept, AcceptFails, ReceiveEnds, EndpointEnds
  <2> QED
    BY <1>2, <1>3, <1>4, <2>1, <2>2, Steps DEF ConnectionsReturned, vars
<1>6. \A r \in (held \cap Requests)' :
        request'[r] \in {"authenticated", "handling", "refreshed", "sending", "closing"}
  <2>1. ASSUME NEW r \in Requests, RequestActions(r)
        PROVE  \A q \in (held \cap Requests)' :
                 request'[q] \in {"authenticated", "handling", "refreshed", "sending", "closing"}
    BY <2>1
    DEF RequestActions, Submit, Dispatch, CheckOut, Commit, Refuse, TimeOut, Broadcast,
        EndBroadcast, CloseSession, MoveRequest, ConnectionsReturned, TypeOK
  <2>2. ASSUME NEW s \in Sockets, SocketActions(s)
        PROVE  UNCHANGED request /\ (held \cap Requests)' \subseteq held \cap Requests
    BY <2>2
    DEF SocketActions, Connect, Leave, OpenSession, RefuseToken, Block, Handshake,
        HandshakeTimeOut, Accept, AcceptFails, ReceiveEnds, EndpointEnds, registry
  <2>3. ASSUME NEW r \in Requests, NEW s \in Sockets, Send(r, s)
        PROVE  UNCHANGED <<request, held>>
    BY <2>3 DEF Send
  <2> QED
    BY <2>1, <2>2, <2>3, Steps DEF ConnectionsReturned, vars
<1>7. \A s \in (held \cap Sockets)' : endpoint'[s] \in {"accepting", "open", "closing"}
  <2>1. ASSUME NEW r \in Requests, RequestActions(r) \/ \E s \in Sockets : Send(r, s)
        PROVE  UNCHANGED endpoint /\ (held \cap Sockets)' \subseteq held \cap Sockets
    BY <2>1
    DEF RequestActions, Submit, Dispatch, CheckOut, Commit, Refuse, TimeOut, Broadcast, Send,
        EndBroadcast, CloseSession, registry
  <2>2. ASSUME NEW s \in Sockets, SocketActions(s)
        PROVE  \A t \in (held \cap Sockets)' : endpoint'[t] \in {"accepting", "open", "closing"}
    BY <2>2
    DEF SocketActions, Connect, Leave, OpenSession, RefuseToken, Block, Handshake,
        HandshakeTimeOut, Accept, AcceptFails, ReceiveEnds, EndpointEnds, MoveEndpoint,
        ConnectionsReturned, TypeOK, registry
  <2> QED
    BY <2>1, <2>2, Steps DEF ConnectionsReturned, vars
<1> QED
  BY <1>5, <1>6, <1>7 DEF ConnectionsReturned

-----------------------------------------------------------------------------
LEMMA InvariantStep == RealtimeInvariant /\ [Next]_vars => RealtimeInvariant'
<1> SUFFICES ASSUME RealtimeInvariant, [Next]_vars PROVE RealtimeInvariant'
  OBVIOUS
<1>1. TypeOK'
  <2>1. CASE UNCHANGED vars
    BY <2>1 DEF RealtimeInvariant, TypeOK, vars
  <2> QED
    BY <2>1, Steps, RequestTypes, SocketTypes DEF RealtimeInvariant
<1> QED
  BY <1>1, RegistryStep, BroadcastStep, PoolStep DEF RealtimeInvariant

LEMMA Invariance == Spec => []RealtimeInvariant
BY InitInvariant, InvariantStep, PTL DEF Spec

(* Type correctness, for any number of requests, sockets and               *)
(* organizations.                                                          *)
THEOREM RealtimeTypes == Spec => []TypeOK
<1>1. RealtimeInvariant => TypeOK
  BY DEF RealtimeInvariant
<1> QED
  BY <1>1, Invariance, PTL

(* Whatever else connects, leaves or fails meanwhile, a dashboard that is  *)
(* connected is registered.                                                *)
THEOREM NobodyIsDeaf == Spec => []NoDeafSocket
<1>1. RealtimeInvariant => NoDeafSocket
  BY DEF RealtimeInvariant
<1> QED
  BY <1>1, Invariance, PTL

(* No registration outlives its endpoint, and each is a member's. *)
THEOREM NoGhosts == Spec => []NoGhostSocket
<1>1. RealtimeInvariant => NoGhostSocket
  BY DEF RealtimeInvariant
<1> QED
  BY <1>1, Invariance, PTL

(* A broadcast over a copy of the registry misses nobody who was in it and *)
(* has stayed.                                                             *)
THEOREM BroadcastsReachEveryone == Spec => []EveryoneIsTold
<1>1. RealtimeInvariant => EveryoneIsTold
  BY DEF RealtimeInvariant, DueInv, EveryoneIsTold
<1> QED
  BY <1>1, Invariance, PTL

(* No event is ever sent across organizations, or to who is not a member. *)
THEOREM EventsStayWithinOrg == Spec => []ToldWithinOrg
<1>1. RealtimeInvariant => ToldWithinOrg
  BY DEF RealtimeInvariant, ToldInv, ToldWithinOrg
<1> QED
  BY <1>1, Invariance, PTL

(* The pool is never overdrawn, and nothing that has ended keeps a         *)
(* connection.                                                             *)
THEOREM ConnectionsComeBack == Spec => []ConnectionsReturned
<1>1. RealtimeInvariant => ConnectionsReturned
  BY DEF RealtimeInvariant
<1> QED
  BY <1>1, Invariance, PTL
=============================================================================
