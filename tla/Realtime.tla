------------------------------ MODULE Realtime ------------------------------
(***************************************************************************)
(* Dashboard sockets and PATCH requests on one server process: the         *)
(* registry of sockets, broadcasts that await one socket after the other,  *)
(* and the three things everybody waits for, which are the event loop, the *)
(* worker threads and the database connections.                            *)
(*                                                                         *)
(* A session checks a connection out with its first query and returns it   *)
(* when it commits or is closed.  A request waits for a connection on a    *)
(* worker thread; the handshake of a socket waits for one on the event     *)
(* loop, on which nothing else runs meanwhile, and keeps it for as long as *)
(* the socket is open.  A wait ends with an exception after a while.       *)
(***************************************************************************)
EXTENDS Naturals, FiniteSets

CONSTANTS
  Orgs,       \* the organizations
  Requests,   \* the PATCH requests that may be made
  Sockets,    \* the sockets that dashboards may open
  OrgOf,      \* the organization of a request's flag, or of a socket's URL
  CallersOf,  \* whose token a request, or a socket, may carry
  PoolSize,   \* the connections of the pool, its overflow included
  Threads,    \* the worker threads
  Idle        \* not a socket: the event loop is free

Sessions == Requests \cup Sockets

(* Of the organization a request or a socket is about: a member; a         *)
(* stranger, which a user is here who asks for anything the handler has    *)
(* reason to refuse; or no user, for want of a valid token.  Users are     *)
(* never removed: a valid token has its user.                              *)
Callers == {"member", "stranger", "nobody"}

ASSUME SessionsAssumption == Idle \notin Sockets /\ Requests \cap Sockets = {}
ASSUME CallersAssumption ==
  OrgOf \in [Sessions -> Orgs] /\ CallersOf \in [Sessions -> SUBSET Callers]
ASSUME SizesAssumption == PoolSize \in Nat \ {0} /\ Threads \in Nat \ {0}

VARIABLES
  loop,         \* the socket whose handshake blocks the event loop
  held,         \* the sessions that have a connection checked out
  request,      \* where each request is
  endpoint,     \* where the endpoint of each socket is
  caller,       \* whose token each request and each socket carries
  alive,        \* the sockets whose client is there
  connections,  \* the registry: the sockets of each organization
  targets,      \* the sockets a broadcast has still to send to
  told,         \* the requests whose event each client was sent
  due           \* history variable: the sockets registered since a broadcast
                \* began, whose clients have been there since

vars == <<loop, held, request, endpoint, caller, alive, connections, targets,
          told, due>>

(* A request, in the worker threads where it has one:                      *)
(*   idle -> waiting -> authenticating -> authenticated -> handling        *)
(*        -> committed -> refreshed -> sending -> closing -> answered      *)
OnThread == {"authenticating", "handling", "committed", "refreshed", "sending"}

(* An endpoint:                                                            *)
(*   away -> arrived -> opened -> accepting -> open -> closing -> closed   *)

Working == {r \in Requests : request[r] \in OnThread}
ThreadFree == Cardinality(Working) < Threads
ConnectionFree == Cardinality(held) < PoolSize

Init ==
  /\ loop = Idle
  /\ held = {}
  /\ request = [r \in Requests |-> "idle"]
  /\ endpoint = [s \in Sockets |-> "away"]
  /\ caller = [x \in Sessions |-> "nobody"]
  /\ alive = {}
  /\ connections = [o \in Orgs |-> {}]
  /\ targets = [r \in Requests |-> {}]
  /\ told = [s \in Sockets |-> {}]
  /\ due = [r \in Requests |-> {}]

MoveRequest(r, from, to) ==
  request[r] = from /\ request' = [request EXCEPT ![r] = to]
MoveEndpoint(s, from, to) ==
  endpoint[s] = from /\ endpoint' = [endpoint EXCEPT ![s] = to]

registry == <<caller, alive, connections, targets, told, due>>

(* A client that has gone, or was closed, is owed nothing. *)
Hangup(s) ==
  /\ alive' = alive \ {s}
  /\ due' = [r \in Requests |-> due[r] \ {s}]

-----------------------------------------------------------------------------
(* Requests. *)

(* How a request ends is decided by whose it is.                           *)
Submit(r, c) ==
  /\ MoveRequest(r, "idle", "waiting")
  /\ caller' = [caller EXCEPT ![r] = c]
  /\ UNCHANGED <<loop, held, endpoint, alive, connections, targets, told, due>>

(* The event loop hands the dependency get_current_user, and later the     *)
(* handler, to a worker thread.                                            *)
Dispatch(r) ==
  /\ loop = Idle
  /\ ThreadFree
  /\ \/ MoveRequest(r, "waiting", "authenticating")
     \/ MoveRequest(r, "authenticated", "handling")
  /\ UNCHANGED <<loop, held, endpoint, registry>>

(* The first query of a session, and the first one after a commit, check a *)
(* connection out: the user's, and the refresh of the flag.                *)
CheckOut(r) ==
  /\ ConnectionFree
  /\ \/ caller[r] # "nobody" /\ MoveRequest(r, "authenticating", "authenticated")
     \/ MoveRequest(r, "committed", "refreshed")
  /\ held' = held \cup {r}
  /\ UNCHANGED <<loop, endpoint, registry>>

Commit(r) ==
  /\ caller[r] = "member"
  /\ MoveRequest(r, "handling", "committed")
  /\ held' = held \ {r}
  /\ UNCHANGED <<loop, endpoint, registry>>

(* The dependency refuses an invalid token before it queries; the handler, *)
(* on a thread and with a connection, a flag that is not there or is       *)
(* another organization's, or a body with a blank or a taken value.  What  *)
(* is none of these is not refused, however long it waits.                 *)
Refuse(r) ==
  /\ \/ caller[r] = "nobody" /\ MoveRequest(r, "authenticating", "closing")
     \/ caller[r] = "stranger" /\ MoveRequest(r, "handling", "closing")
  /\ UNCHANGED <<loop, held, endpoint, registry>>

(* A pool whose timeout is None: the wait goes on. *)
BadTimeOut(r) ==
  /\ ~ConnectionFree
  /\ caller[r] # "nobody"
  /\ request[r] \in {"authenticating", "committed"}
  /\ UNCHANGED vars

(* No connection was returned for 30 seconds: the query raises.  What was  *)
(* committed stays so, but is neither invalidated nor announced.           *)
TimeOut(r) ==
  /\ ~ConnectionFree
  /\ \/ caller[r] # "nobody" /\ MoveRequest(r, "authenticating", "closing")
     \/ MoveRequest(r, "committed", "closing")
  /\ UNCHANGED <<loop, held, endpoint, registry>>

(* The worker waits until the event loop has run the broadcast, which      *)
(* starts with a copy of the organization's set.                           *)
Broadcast(r) ==
  /\ loop = Idle
  /\ MoveRequest(r, "refreshed", "sending")
  /\ targets' = [targets EXCEPT ![r] = connections[OrgOf[r]]]
  /\ due' = [due EXCEPT ![r] = connections[OrgOf[r]] \cap alive]
  /\ UNCHANGED <<loop, held, endpoint, caller, alive, connections, told>>

(* The organization's entry removed with its first socket. *)
BadUnregister(s) ==
  connections' = [connections EXCEPT ![OrgOf[s]] = {}]

Unregister(s) ==
  connections' = [connections EXCEPT ![OrgOf[s]] = @ \ {s}]

(* A failed send ends the broadcast. *)
BadSend(r, s) ==
  /\ loop = Idle
  /\ s \in targets[r]
  /\ IF s \in alive
     THEN /\ targets' = [targets EXCEPT ![r] = @ \ {s}]
          /\ told' = [told EXCEPT ![s] = @ \cup {r}]
          /\ UNCHANGED connections
     ELSE /\ targets' = [targets EXCEPT ![r] = {}]
          /\ Unregister(s)
          /\ UNCHANGED told
  /\ UNCHANGED <<loop, held, request, endpoint, caller, alive, due>>

(* One socket of the copy is sent the event, in whatever order the set has *)
(* them; other tasks run while the send is awaited.  A client that has     *)
(* gone makes the send fail, or the event is lost before anyone notices.   *)
Send(r, s) ==
  /\ loop = Idle
  /\ s \in targets[r]
  /\ targets' = [targets EXCEPT ![r] = @ \ {s}]
  /\ IF s \in alive
     THEN told' = [told EXCEPT ![s] = @ \cup {r}] /\ UNCHANGED connections
     ELSE /\ Unregister(s) \/ UNCHANGED connections
          /\ UNCHANGED told
  /\ UNCHANGED <<loop, held, request, endpoint, caller, alive, due>>

EndBroadcast(r) ==
  /\ loop = Idle
  /\ targets[r] = {}
  /\ MoveRequest(r, "sending", "closing")
  /\ UNCHANGED <<loop, held, endpoint, registry>>

(* get_db without its finally. *)
BadCloseSession(r) ==
  /\ loop = Idle
  /\ MoveRequest(r, "closing", "answered")
  /\ UNCHANGED <<loop, held, endpoint, registry>>

(* get_db ends: the session is closed, whatever happened. *)
CloseSession(r) ==
  /\ loop = Idle
  /\ MoveRequest(r, "closing", "answered")
  /\ held' = held \ {r}
  /\ UNCHANGED <<loop, endpoint, registry>>

RequestStep(r) ==
  \/ Dispatch(r) \/ CheckOut(r) \/ Commit(r) \/ Refuse(r) \/ TimeOut(r)
  \/ Broadcast(r) \/ EndBroadcast(r) \/ CloseSession(r)
  \/ \E s \in Sockets : Send(r, s)

-----------------------------------------------------------------------------
(* Sockets. *)

Connect(s, c) ==
  /\ MoveEndpoint(s, "away", "arrived")
  /\ caller' = [caller EXCEPT ![s] = c]
  /\ alive' = alive \cup {s}
  /\ UNCHANGED <<loop, held, request, connections, targets, told, due>>

(* The tab is closed, or the network fails. *)
Leave(s) ==
  /\ s \in alive
  /\ Hangup(s)
  /\ UNCHANGED <<loop, held, request, endpoint, caller, connections, targets, told>>

(* get_db is entered on a worker thread. *)
OpenSession(s) ==
  /\ loop = Idle
  /\ ThreadFree
  /\ MoveEndpoint(s, "arrived", "opened")
  /\ UNCHANGED <<loop, held, request, registry>>

(* An invalid token is refused without a query. *)
RefuseToken(s) ==
  /\ loop = Idle
  /\ caller[s] = "nobody"
  /\ MoveEndpoint(s, "opened", "closing")
  /\ Hangup(s)
  /\ UNCHANGED <<loop, held, request, caller, connections, targets, told>>

(* _is_org_member finds no connection free, and the event loop waits. *)
Block(s) ==
  /\ loop = Idle
  /\ caller[s] # "nobody"
  /\ endpoint[s] = "opened"
  /\ ~ConnectionFree
  /\ loop' = s
  /\ UNCHANGED <<held, request, endpoint, registry>>

(* _is_org_member, with a connection: a member is let in, a stranger is    *)
(* closed.                                                                 *)
Handshake(s) ==
  /\ loop \in {Idle, s}
  /\ caller[s] # "nobody"
  /\ ConnectionFree
  /\ loop' = Idle
  /\ held' = held \cup {s}
  /\ \/ /\ caller[s] = "member"
        /\ MoveEndpoint(s, "opened", "accepting")
        /\ UNCHANGED <<alive, due>>
     \/ /\ caller[s] = "stranger"
        /\ MoveEndpoint(s, "opened", "closing")
        /\ Hangup(s)
  /\ UNCHANGED <<request, caller, connections, targets, told>>

(* A wait that has timed out is begun again. *)
BadHandshakeTimeOut(s) ==
  /\ loop = s
  /\ ~ConnectionFree
  /\ UNCHANGED vars

(* The wait on the event loop ends with an exception, and the handshake    *)
(* with it.                                                                *)
HandshakeTimeOut(s) ==
  /\ loop = s
  /\ ~ConnectionFree
  /\ loop' = Idle
  /\ MoveEndpoint(s, "opened", "closing")
  /\ Hangup(s)
  /\ UNCHANGED <<held, request, caller, connections, targets, told>>

(* ConnectionManager.connect: accept, then register.  That the client has  *)
(* gone may not have been noticed yet.                                     *)
Accept(s) ==
  /\ loop = Idle
  /\ MoveEndpoint(s, "accepting", "open")
  /\ connections' = [connections EXCEPT ![OrgOf[s]] = @ \cup {s}]
  /\ UNCHANGED <<loop, held, request, caller, alive, targets, told, due>>

AcceptFails(s) ==
  /\ loop = Idle
  /\ s \notin alive
  /\ MoveEndpoint(s, "accepting", "closing")
  /\ UNCHANGED <<loop, held, request, registry>>

(* The receive loop ended without its finally. *)
BadReceiveEnds(s) ==
  /\ loop = Idle
  /\ s \notin alive
  /\ MoveEndpoint(s, "open", "closing")
  /\ UNCHANGED <<loop, held, request, registry>>

(* The receive loop learns that the client has gone. *)
ReceiveEnds(s) ==
  /\ loop = Idle
  /\ s \notin alive
  /\ MoveEndpoint(s, "open", "closing")
  /\ Unregister(s)
  /\ UNCHANGED <<loop, held, request, caller, alive, targets, told, due>>

(* The endpoint has returned or raised: get_db closes the session. *)
EndpointEnds(s) ==
  /\ loop = Idle
  /\ MoveEndpoint(s, "closing", "closed")
  /\ held' = held \ {s}
  /\ UNCHANGED <<loop, request, registry>>

EndpointStep(s) ==
  \/ OpenSession(s) \/ RefuseToken(s) \/ Block(s) \/ Handshake(s)
  \/ HandshakeTimeOut(s) \/ Accept(s) \/ AcceptFails(s) \/ ReceiveEnds(s)
  \/ EndpointEnds(s)

-----------------------------------------------------------------------------
(* Every request is answered and every socket is closed, or open for good. *)
Quiet ==
  /\ \A r \in Requests : request[r] = "answered"
  /\ \A s \in Sockets : endpoint[s] = "closed"
  /\ UNCHANGED vars

Next ==
  \/ \E r \in Requests : (\E c \in CallersOf[r] : Submit(r, c)) \/ RequestStep(r)
  \/ \E s \in Sockets : (\E c \in CallersOf[s] : Connect(s, c)) \/ Leave(s) \/ EndpointStep(s)
  \/ Quiet

Spec == Init /\ [][Next]_vars

(* The event loop and the worker threads run what they can run, a query is *)
(* answered, a wait for a connection ends after pool_timeout, and a client *)
(* that has gone is noticed (uvicorn pings).  Clients are free to come, to *)
(* stay and to go.  A request that is not to be refused is not, however    *)
(* long it waits: what ends its waits is TimeOut and HandshakeTimeOut.     *)
FairSpec ==
  /\ Spec
  /\ \A r \in Requests : WF_vars(RequestStep(r))
  /\ \A s \in Sockets : WF_vars(EndpointStep(s))

-----------------------------------------------------------------------------
RequestStates == OnThread \cup {"idle", "waiting", "authenticated", "closing", "answered"}
EndpointStates ==
  {"away", "arrived", "opened", "accepting", "open", "closing", "closed"}

TypeOK ==
  /\ loop \in Sockets \cup {Idle}
  /\ held \in SUBSET Sessions
  /\ request \in [Requests -> RequestStates]
  /\ endpoint \in [Sockets -> EndpointStates]
  /\ caller \in [Sessions -> Callers]
  /\ alive \in SUBSET Sockets
  /\ connections \in [Orgs -> SUBSET Sockets]
  /\ targets \in [Requests -> SUBSET Sockets]
  /\ told \in [Sockets -> SUBSET Requests]
  /\ due \in [Requests -> SUBSET Sockets]

-----------------------------------------------------------------------------
(* Safety. *)

(* No deaf dashboard: a socket whose endpoint is receiving and whose       *)
(* client is there is registered, whatever other sockets of its            *)
(* organization end or fail to be sent an event.                           *)
NoDeafSocket ==
  \A s \in Sockets :
    endpoint[s] = "open" /\ s \in alive => s \in connections[OrgOf[s]]

(* No ghost: what is registered is a member's socket, under its own        *)
(* organization, and its endpoint is still there to remove it.             *)
NoGhostSocket ==
  \A o \in Orgs : \A s \in connections[o] :
    endpoint[s] = "open" /\ OrgOf[s] = o /\ caller[s] = "member"

(* A finished broadcast has reached every client that was registered when  *)
(* it began and has stayed since, although others left, failed or came     *)
(* while it was waiting on each.                                           *)
EveryoneIsTold ==
  \A r \in Requests : request[r] \in {"closing", "answered"} =>
    \A s \in due[r] : r \in told[s]

(* An event reaches members of its own organization only. *)
ToldWithinOrg ==
  \A s \in Sockets : \A r \in told[s] :
    OrgOf[s] = OrgOf[r] /\ caller[s] = "member"

(* Connections are borrowed: there are never more than the pool has, and   *)
(* none belongs to a request that was answered or an endpoint that ended.  *)
ConnectionsReturned ==
  /\ Cardinality(held) <= PoolSize
  /\ \A r \in held \cap Requests :
       request[r] \in {"authenticated", "handling", "refreshed", "sending", "closing"}
  /\ \A s \in held \cap Sockets : endpoint[s] \in {"accepting", "open", "closing"}

-----------------------------------------------------------------------------
(* Liveness. *)

(* Every request is answered.  Requests that hold connections and wait for *)
(* a thread, requests that hold threads and wait for a connection, and a   *)
(* handshake that stops the event loop both need, can wait on each other   *)
(* in a circle.  None of them is to be refused, so that only the timeout   *)
(* of the pool breaks it.                                                  *)
RequestAnswered ==
  \A r \in Requests : request[r] = "waiting" ~> request[r] = "answered"

(* A dashboard that has gone gives its database connection back. *)
SocketReleased ==
  \A s \in Sockets :
    endpoint[s] # "away" /\ s \notin alive ~> endpoint[s] = "closed" /\ s \notin held
=============================================================================
