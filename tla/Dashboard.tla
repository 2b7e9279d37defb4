----------------------------- MODULE Dashboard -----------------------------
(***************************************************************************)
(* One tab of the dashboard and the server it talks to.                    *)
(*                                                                         *)
(* The tab runs one callback at a time; what it awaits is answered in any  *)
(* order, or fails.  Selecting an organization is a call that awaits three *)
(* answers (projects, flags, audit log) before it opens a socket; every    *)
(* message of the socket is a call that loads the flags again.  The close  *)
(* event of a socket arrives some time after the socket was closed, and    *)
(* sets a timer that opens another one.                                    *)
(***************************************************************************)
EXTENDS Naturals, FiniteSets

CONSTANTS
  Orgs,           \* the organizations of the user
  WithProject,    \* those that have a project (one, with flags)
  First,          \* the organization that /orgs lists first
  MaxCalls,       \* bound: the calls that wait for an answer at once
  MaxSockets,     \* bound: the sockets whose end is outstanding at once
  MaxSelections,  \* bound: how often the user selects an organization
  MaxChanges,     \* bound: how often flags are changed
  MaxFaults,      \* bound: how many answers fail and sockets are dropped
  NONE            \* null, undefined

(* What a call waits for. *)
Replies == {"projects", "flags", "audits", "refusal"}

ASSUME OrgsAssumption == WithProject \subseteq Orgs /\ First \in Orgs
ASSUME NoneAssumption == NONE \notin Orgs /\ NONE \notin Nat /\ NONE \notin Replies
ASSUME BoundsAssumption ==
  /\ MaxCalls \in Nat \ {0} /\ MaxSockets \in Nat \ {0}
  /\ MaxSelections \in Nat /\ MaxChanges \in Nat /\ MaxFaults \in Nat

Calls == 1..MaxCalls
Sockets == 1..MaxSockets

VARIABLES
  token,            \* "valid", or null: "cleared" by the user, "expelled" by
                    \* an error while the page started
  selectedOrg, selectedProject,  \* a project is named by its organization
  flags,            \* the flags shown: of which organization, in what version
  call,             \* the calls that wait for an answer
  socket,           \* state.socket
  ws,               \* every socket: its organization, its state, its messages
  socketOrgId, socketClosing,
  timers,           \* the timers that run, named by the socket that set them
  reconnectTimer,   \* state.socketReconnectTimer
  version,          \* the server: the version of each organization's flags
  unsent,           \* the server: changes that are committed, not broadcast
  selections, faults,  \* how many there have been
  latest,           \* history variable: the call of the last selection
  astray,           \* history variable: the last selection failed, another one
                    \* opened its socket later, or a forgotten timer did
  reopened,         \* history variable: the socket was opened while the end of
                    \* an earlier one for its organization was outstanding
  missed,           \* history variable: the organizations with a change of
                    \* which the tab was not told, or not answered, since
  newest,           \* history variable: the newest version the server answered
  raced             \* history variable: the flags shown were answered earlier

page == <<token, selectedOrg, selectedProject, flags>>
live == <<socket, ws, socketOrgId, socketClosing, timers, reconnectTimer, reopened>>
server == <<version, unsent>>
count == <<selections, faults>>
hist == <<latest, astray, missed, newest, raced>>
vars == <<page, call, live, server, count, hist>>

NoCall == [kind |-> NONE, org |-> NONE, awaits |-> NONE, answer |-> NONE]
NoFlags == [org |-> NONE, version |-> 0]

LoggedIn == token = "valid"

Waiting == {c \in Calls : call[c] # NoCall}
Selecting == {c \in Waiting : call[c].kind # "load"}

Live == {"connecting", "open"}
Ending == {"closing", "dropped"}   \* the close event is outstanding
LiveSockets == {s \in Sockets : ws[s].state \in Live}

(* Calls and sockets are named by numbers that are used again. *)
Least(S) == CHOOSE x \in S : \A y \in S : x <= y
FreeCalls == Calls \ Waiting
FreeSockets(running) == {s \in Sockets \ running : ws[s].state = "closed"}
Unused == [org |-> NONE, state |-> "closed", messages |-> 0]

(* The page is loaded with a token of an earlier session. *)
Init ==
  /\ token = "valid"
  /\ selectedOrg = First
  /\ selectedProject = NONE
  /\ flags = NoFlags
  /\ call = [c \in Calls |->
               IF c = 1 THEN [kind |-> "boot", org |-> First,
                              awaits |-> "projects", answer |-> NONE] ELSE NoCall]
  /\ latest = 1
  /\ socket = NONE
  /\ ws = [s \in Sockets |-> Unused]
  /\ socketOrgId = NONE
  /\ socketClosing = FALSE
  /\ timers = {}
  /\ reconnectTimer = NONE
  /\ version = [o \in Orgs |-> 0]
  /\ unsent = [o \in Orgs |-> 0]
  /\ selections = 0
  /\ faults = 0
  /\ astray = FALSE
  /\ reopened = FALSE
  /\ missed = {}
  /\ newest = [o \in Orgs |-> 0]
  /\ raced = FALSE

-----------------------------------------------------------------------------
(* connectSocket, as a callback runs it when the timers `running' run.     *)

(* What a socket has not delivered when it ends is lost. *)
Lost(s) ==
  missed' = IF s # NONE /\ ws[s].messages > 0 THEN missed \cup {ws[s].org} ELSE missed

(* An earlier socket for the organization has yet to report its end, or    *)
(* has set a timer that is no longer known.                                *)
Reopen(o, running) ==
  reopened' = ( \/ \E s \in Sockets : ws[s].org = o /\ ws[s].state # "closed"
                \/ running \ {reconnectTimer} # {} )

(* A new socket; the server refuses it if its URL carries no token. *)
Opened(o) ==
  [org |-> o, state |-> IF LoggedIn THEN "connecting" ELSE "dropped", messages |-> 0]
Closed(s) ==
  IF s = socket /\ ws[s].state \in Live
  THEN [ws[s] EXCEPT !.state = "closing", !.messages = 0] ELSE ws[s]

(* The socket before is not closed. *)
BadConnectSocket(o, running) ==
  /\ FreeSockets(running) # {}
  /\ socket' = Least(FreeSockets(running))
  /\ ws' = [s \in Sockets |-> IF s = socket' THEN Opened(o) ELSE ws[s]]
  /\ timers' = running \ {reconnectTimer}
  /\ socketOrgId' = o
  /\ socketClosing' = FALSE
  /\ Reopen(o, running)
  /\ UNCHANGED <<reconnectTimer, missed>>

(* No clearTimeout. *)
BadConnectSocketTimer(o, running) ==
  /\ FreeSockets(running) # {}
  /\ socket' = Least(FreeSockets(running))
  /\ ws' = [s \in Sockets |-> IF s = socket' THEN Opened(o) ELSE Closed(s)]
  /\ timers' = running
  /\ socketOrgId' = o
  /\ socketClosing' = FALSE
  /\ Reopen(o, running)
  /\ Lost(socket)
  /\ UNCHANGED reconnectTimer

(* The old socket is closed with the flag socketClosing set, the timer is  *)
(* cleared, and the flag reset before the close event can arrive.          *)
ConnectSocket(o, running) ==
  /\ FreeSockets(running) # {}
  /\ socket' = Least(FreeSockets(running))
  /\ ws' = [s \in Sockets |-> IF s = socket' THEN Opened(o) ELSE Closed(s)]
  /\ timers' = running \ {reconnectTimer}
  /\ socketOrgId' = o
  /\ socketClosing' = FALSE
  /\ Reopen(o, running)
  /\ Lost(socket)
  /\ UNCHANGED reconnectTimer

-----------------------------------------------------------------------------
(* Calls of the page. *)

Begin(kind, o, awaits) ==
  /\ FreeCalls # {}
  /\ call' = [call EXCEPT ![Least(FreeCalls)] =
                [kind |-> kind, org |-> o, awaits |-> awaits, answer |-> NONE]]
Await(c, awaits) == call' = [call EXCEPT ![c].awaits = awaits]
End(c) == call' = [call EXCEPT ![c] = NoCall]

(* selectOrganization, on a click or after a project was created. *)
Select(o) ==
  /\ LoggedIn
  /\ selections < MaxSelections
  /\ selections' = selections + 1
  /\ selectedOrg' = o
  /\ Begin("select", o, "projects")
  /\ latest' = Least(FreeCalls)
  /\ UNCHANGED <<token, selectedProject, flags, live, server, faults, astray,
                 missed, newest, raced>>

(* The projects are answered: the organization's project is selected and   *)
(* its flags are asked for, with the token there is; without a project the *)
(* list is emptied and the socket opened.                                  *)
ProjectsAnswered(c) ==
  LET o == call[c].org IN
  /\ call[c].awaits = "projects"
  /\ \/ /\ o \in WithProject
        /\ selectedProject' = o
        /\ Await(c, IF LoggedIn THEN "flags" ELSE "refusal")
        /\ UNCHANGED <<flags, live, missed, astray>>
     \/ /\ o \notin WithProject
        /\ ConnectSocket(o, timers)
        /\ flags' = NoFlags
        /\ End(c)
        /\ astray' = (c # latest)
        /\ UNCHANGED selectedProject
  /\ UNCHANGED <<token, selectedOrg, server, count, latest, newest, raced>>

(* The server reads the flags. *)
ReadFlags(c) ==
  LET o == call[c].org IN
  /\ call[c].awaits = "flags"
  /\ call[c].answer = NONE
  /\ call' = [call EXCEPT ![c].answer = version[o]]
  /\ newest' = [newest EXCEPT ![o] = version[o]]
  /\ missed' = missed \ {o}
  /\ UNCHANGED <<page, live, server, count, latest, astray, raced>>

(* The answer arrives and is shown; selectFlag asks for the audit log.     *)
(* Nothing follows that call when a message made it.                       *)
FlagsAnswered(c) ==
  LET o == call[c].org IN
  /\ call[c].awaits = "flags"
  /\ call[c].answer # NONE
  /\ flags' = [org |-> o, version |-> call[c].answer]
  /\ raced' = (call[c].answer < newest[o])
  /\ IF call[c].kind = "load" THEN End(c) ELSE Await(c, "audits")
  /\ UNCHANGED <<token, selectedOrg, selectedProject, live, server, count,
                 latest, astray, missed, newest>>

(* The audit log is answered or has failed: the socket is opened. *)
AuditsAnswered(c) ==
  /\ call[c].awaits = "audits"
  /\ ConnectSocket(call[c].org, timers)
  /\ End(c)
  /\ astray' = (c # latest)
  /\ UNCHANGED <<page, server, count, latest, newest, raced>>

(* An answer is an error, and nobody catches it; while the page starts, it *)
(* removes whatever token there is, and leaves the socket as it is.        *)
Broken(c) ==
  /\ End(c)
  /\ token' = IF call[c].kind = "boot" /\ LoggedIn THEN "expelled" ELSE token
  /\ astray' = (astray \/ (c = latest /\ call[c].kind # "load"))
  /\ missed' = IF call[c].awaits = "flags" THEN missed \cup {call[c].org} ELSE missed
  /\ UNCHANGED <<selectedOrg, selectedProject, flags, live, server, selections,
                 latest, newest, raced>>

Refused(c) ==
  /\ call[c].awaits = "refusal"
  /\ Broken(c)
  /\ UNCHANGED faults

Fail(c) ==
  /\ faults < MaxFaults
  /\ faults' = faults + 1
  /\ call[c].awaits \in {"projects", "flags"}
  /\ Broken(c)

CallStep(c) ==
  \/ ProjectsAnswered(c) \/ ReadFlags(c) \/ FlagsAnswered(c)
  \/ AuditsAnswered(c) \/ Refused(c)

(* Logging out without closing the socket. *)
BadLogout ==
  /\ LoggedIn
  /\ token' = "cleared"
  /\ socketClosing' = TRUE
  /\ timers' = timers \ {reconnectTimer}
  /\ UNCHANGED <<selectedOrg, selectedProject, flags, call, socket, ws,
                 socketOrgId, reconnectTimer, reopened, server, count, hist>>

Logout ==
  /\ LoggedIn
  /\ token' = "cleared"
  /\ socketClosing' = TRUE
  /\ ws' = [s \in Sockets |-> Closed(s)]
  /\ timers' = timers \ {reconnectTimer}
  /\ Lost(socket)
  /\ UNCHANGED <<selectedOrg, selectedProject, flags, call, socket, socketOrgId,
                 reconnectTimer, reopened, server, count, latest, astray, newest,
                 raced>>

(* The same user logs in again; the organization selected before is        *)
(* selected again.                                                         *)
Login ==
  /\ ~LoggedIn
  /\ selections < MaxSelections
  /\ selections' = selections + 1
  /\ token' = "valid"
  /\ Begin("select", selectedOrg, "projects")
  /\ latest' = Least(FreeCalls)
  /\ UNCHANGED <<selectedOrg, selectedProject, flags, live, server, faults,
                 astray, missed, newest, raced>>

-----------------------------------------------------------------------------
(* Sockets. *)

(* The server accepts the socket and registers it. *)
Answer(s) ==
  /\ ws[s].state = "connecting"
  /\ ws' = [ws EXCEPT ![s].state = "open"]
  /\ UNCHANGED <<page, call, socket, socketOrgId, socketClosing, timers,
                 reconnectTimer, reopened, server, count, hist>>

(* The server or the network closes the socket, what was sent is lost. *)
Drop(s) ==
  /\ faults < MaxFaults
  /\ faults' = faults + 1
  /\ ws[s].state \in Live
  /\ ws' = [ws EXCEPT ![s].state = "dropped", ![s].messages = 0]
  /\ Lost(s)
  /\ UNCHANGED <<page, call, socket, socketOrgId, socketClosing, timers,
                 reconnectTimer, reopened, server, selections, latest, astray,
                 newest, raced>>

(* Whatever socket ended, another is opened for its organization. *)
BadCloseEvent(s) ==
  /\ ws[s].state \in Ending
  /\ ws' = [ws EXCEPT ![s].state = "closed"]
  /\ IF ~socketClosing /\ LoggedIn
     THEN timers' = timers \cup {s} /\ reconnectTimer' = s
     ELSE UNCHANGED <<timers, reconnectTimer>>
  /\ UNCHANGED <<page, call, socket, socketOrgId, socketClosing, reopened,
                 server, count, hist>>

(* The flag socketClosing stays set once the user has switched. *)
BadCloseEventOnce(s) ==
  /\ ws[s].state \in Ending
  /\ ws' = [ws EXCEPT ![s].state = "closed"]
  /\ UNCHANGED <<page, call, socket, socketOrgId, socketClosing, timers,
                 reconnectTimer, reopened, server, count, hist>>

(* The close event: unless the page is closing a socket, has logged out or *)
(* has turned to another organization, it retries after 2.5 seconds.       *)
CloseEvent(s) ==
  /\ ws[s].state \in Ending
  /\ ws' = [ws EXCEPT ![s].state = "closed"]
  /\ IF ~socketClosing /\ LoggedIn /\ socketOrgId = ws[s].org
     THEN timers' = timers \cup {s} /\ reconnectTimer' = s
     ELSE UNCHANGED <<timers, reconnectTimer>>
  /\ UNCHANGED <<page, call, socket, socketOrgId, socketClosing, reopened,
                 server, count, hist>>

Retry(s) ==
  /\ s \in timers
  /\ ConnectSocket(ws[s].org, timers \ {s})
  /\ astray' = (astray \/ (reopened /\ ws[s].org # socketOrgId))
  /\ UNCHANGED <<page, call, server, count, latest, newest, raced>>

(* A message that finds a load under way starts none. *)
BadMessage(s) ==
  /\ ws[s].state = "open"
  /\ ws[s].messages > 0
  /\ ws' = [ws EXCEPT ![s].messages = @ - 1]
  /\ IF LoggedIn /\ selectedProject # NONE /\ Waiting = {}
     THEN Begin("load", selectedProject, "flags")
     ELSE UNCHANGED call
  /\ missed' = IF LoggedIn /\ selectedProject = ws[s].org
               THEN missed ELSE missed \cup {ws[s].org}
  /\ UNCHANGED <<page, socket, socketOrgId, socketClosing, timers,
                 reconnectTimer, reopened, server, count, latest, astray,
                 newest, raced>>

(* The message event: the flags of the selected project are loaded again.  *)
Message(s) ==
  /\ ws[s].state = "open"
  /\ ws[s].messages > 0
  /\ ws' = [ws EXCEPT ![s].messages = @ - 1]
  /\ IF LoggedIn /\ selectedProject # NONE
     THEN Begin("load", selectedProject, "flags")
     ELSE UNCHANGED call
  /\ missed' = IF LoggedIn /\ selectedProject = ws[s].org
               THEN missed ELSE missed \cup {ws[s].org}
  /\ UNCHANGED <<page, socket, socketOrgId, socketClosing, timers,
                 reconnectTimer, reopened, server, count, latest, astray,
                 newest, raced>>

SocketStep(s) == Answer(s) \/ CloseEvent(s) \/ Retry(s) \/ Message(s)

-----------------------------------------------------------------------------
(* The server. *)

(* A change of a flag is committed. *)
Change(o) ==
  /\ \A p \in Orgs : version[p] < MaxChanges
  /\ o \in WithProject
  /\ version' = [version EXCEPT ![o] = @ + 1]
  /\ unsent' = [unsent EXCEPT ![o] = @ + 1]
  /\ UNCHANGED <<page, call, live, count, hist>>

(* An event is sent again and again. *)
BadBroadcast(o) ==
  /\ unsent[o] > 0
  /\ ws' = [s \in Sockets |->
              IF ws[s].state = "open" /\ ws[s].org = o
              THEN [ws[s] EXCEPT !.messages = @ + 1] ELSE ws[s]]
  /\ missed' = IF ws' = ws THEN missed \cup {o} ELSE missed
  /\ UNCHANGED <<page, call, socket, socketOrgId, socketClosing, timers,
                 reconnectTimer, reopened, version, unsent, count, latest,
                 astray, newest, raced>>

(* Its event is sent to the sockets that are registered. *)
Broadcast(o) ==
  /\ unsent[o] > 0
  /\ unsent' = [unsent EXCEPT ![o] = @ - 1]
  /\ ws' = [s \in Sockets |->
              IF ws[s].state = "open" /\ ws[s].org = o
              THEN [ws[s] EXCEPT !.messages = @ + 1] ELSE ws[s]]
  /\ missed' = IF ws' = ws THEN missed \cup {o} ELSE missed
  /\ UNCHANGED <<page, call, socket, socketOrgId, socketClosing, timers,
                 reconnectTimer, reopened, version, count, latest, astray,
                 newest, raced>>

-----------------------------------------------------------------------------
(* Logged out, with nothing outstanding. *)
Quiet ==
  /\ ~LoggedIn
  /\ Waiting = {} /\ timers = {}
  /\ \A s \in Sockets : ws[s].state \in {"open", "closed"}
  /\ UNCHANGED vars

Next ==
  \/ \E c \in Calls : CallStep(c) \/ Fail(c)
  \/ \E o \in Orgs : Select(o)
  \/ \E s \in Sockets : SocketStep(s) \/ Drop(s)
  \/ \E o \in Orgs : Change(o) \/ Broadcast(o)
  \/ Logout \/ Login
  \/ Quiet

Spec == Init /\ [][Next]_vars

(* The browser delivers events and answers, timers fire, and the server    *)
(* answers and broadcasts.  Users, changes and faults are free.            *)
FairSpec ==
  /\ Spec
  /\ \A c \in Calls : WF_vars(CallStep(c))
  /\ \A s \in Sockets : WF_vars(SocketStep(s))
  /\ \A o \in Orgs : WF_vars(Broadcast(o))

-----------------------------------------------------------------------------
OrgOrNone == Orgs \cup {NONE}

TypeOK ==
  /\ token \in {"valid", "cleared", "expelled"}
  /\ selectedOrg \in Orgs /\ selectedProject \in OrgOrNone
  /\ flags \in [org : OrgOrNone, version : 0..MaxChanges]
  /\ call \in [Calls -> [kind : {"boot", "select", "load", NONE}, org : OrgOrNone,
                         awaits : Replies \cup {NONE},
                         answer : (0..MaxChanges) \cup {NONE}]]
  /\ socket \in Sockets \cup {NONE}
  /\ ws \in [Sockets -> [org : OrgOrNone,
                         state : Live \cup Ending \cup {"closed"},
                         messages : 0..MaxChanges]]
  /\ socketOrgId \in OrgOrNone /\ socketClosing \in BOOLEAN
  /\ timers \in SUBSET Sockets /\ reconnectTimer \in Sockets \cup {NONE}
  /\ version \in [Orgs -> 0..MaxChanges] /\ unsent \in [Orgs -> 0..MaxChanges]
  /\ selections \in 0..MaxSelections /\ faults \in 0..MaxFaults
  /\ latest \in Calls
  /\ astray \in BOOLEAN /\ reopened \in BOOLEAN /\ raced \in BOOLEAN
  /\ missed \in SUBSET Orgs
  /\ newest \in [Orgs -> 0..MaxChanges]

-----------------------------------------------------------------------------
(* Safety. *)

Connected == socket # NONE /\ ws[socket].state = "open"

(* Clicks, retries and answers may open sockets in any order: at most one  *)
(* is ever live, and it is the one the page knows.                         *)
OneLiveSocket == LiveSockets \subseteq {socket}

(* Once the user has logged out, no socket of the session is live, and no  *)
(* retry or late answer brings one back: what they open has no token.      *)
SilentAfterLogout ==
  token = "cleared" => LiveSockets = {}

(* A retry replaces a socket that is down.  It can only tear down a live   *)
(* one when the socket was opened while the close event of an earlier      *)
(* socket for the same organization was still to come.                     *)
RetryOnlyWhenDown ==
  timers # {} /\ ~reopened => LiveSockets = {} /\ Cardinality(timers) = 1

(* The socket is the selected organization's, unless the last selection    *)
(* failed, or an earlier one was answered after it.                        *)
SocketFollowsSelection ==
  LoggedIn /\ Connected /\ Selecting = {} /\ ~astray
    => ws[socket].org = selectedOrg

(* A tab that is connected and has nothing outstanding shows the flags as  *)
(* they are, unless an event was sent while it had no socket registered,   *)
(* was lost with the socket or answered by an error, or two answers        *)
(* arrived in the wrong order.                                             *)
FlagsAreCurrent ==
  LET o == ws[socket].org IN
    LoggedIn /\ Connected /\ Waiting = {} /\ ws[socket].messages = 0
      /\ unsent[o] = 0 /\ flags.org = o
    => flags.version = version[o] \/ o \in missed \/ raced

-----------------------------------------------------------------------------
(* Liveness. *)

Down ==
  LoggedIn /\ socket # NONE /\ ~socketClosing /\ ws[socket].state \in Ending

(* A socket that ends while the user is logged in is replaced by one that  *)
(* is connected, unless it was opened while an earlier one was still       *)
(* ending: then each retry tears down what the one before has opened.      *)
ConnectionReturns ==
  Down ~> \/ Connected
          \/ ~LoggedIn
          \/ reopened /\ timers # {}
=============================================================================
