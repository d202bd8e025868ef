---------------------------- MODULE McpSessions ----------------------------
(***************************************************************************)
(* Sessions of agents at the MCP server (mcp_server.ts): requests are      *)
(* admitted by the runtime mode and the agent's token, sessions live in    *)
(* memory and as rows of the shared database, and every session pumps      *)
(* trading events to its agent.  Requests, pumps, the mode monitor and the *)
(* operator in the other process interleave at every await.                *)
(***************************************************************************)
EXTENDS Naturals, FiniteSets

CONSTANTS Session,       \* session ids; each is initialised at most once
          Event,         \* trading events that may happen
          AUTH_MAXIMUM_FAILURES,
          MaxAdmin, MaxFaults

VARIABLES runtimeMode,         \* mcp_runtime_state, written by the operator
          currentRuntimeMode,  \* the server's copy
          agentRow,            \* enabled, and the number of token rotations
          rowOf,               \* session rows: none, open or closed
          sessions,            \* sessions in memory
          http,                \* a request in the server
          authenticationFailures,
          pump,                \* the notification pump of each session
          events,              \* events that happened
          delivered,           \* mcp_event_deliveries with status delivered, per session
          received,            \* what the agent received, per session
          disconnecting,       \* an agent change still has to disconnect the agent's sessions
          shuttingDown,
          used                 \* admin operations and faults so far

sessionVars == <<runtimeMode, currentRuntimeMode, agentRow, rowOf, sessions, http, authenticationFailures,
                 pump, events, delivered, received, disconnecting, shuttingDown, used>>

NoRequest == [at |-> "none"]
Resting == [at |-> "none", event |-> "none"]

Init ==
  /\ runtimeMode = "active" /\ currentRuntimeMode = "active"
  /\ agentRow = [enabled |-> TRUE, token |-> 0]
  /\ rowOf = [s \in Session |-> "none"] /\ sessions = {} /\ http = NoRequest
  /\ authenticationFailures = 0 /\ pump = [s \in Session |-> Resting]
  /\ events = {} /\ delivered = [s \in Session |-> {}] /\ received = [s \in Session |-> {}]
  /\ disconnecting = FALSE /\ shuttingDown = FALSE /\ used = [admin |-> 0, faults |-> 0]

Admin == used.admin < MaxAdmin /\ used' = [used EXCEPT !.admin = @ + 1]
Fault == used.faults < MaxFaults /\ used' = [used EXCEPT !.faults = @ + 1]

-----------------------------------------------------------------------------
(* The mode, as the server learns it. *)

\* applyRuntimeMode: leaving "active" closes every session.
applyRuntimeMode ==
  /\ currentRuntimeMode' = runtimeMode
  /\ IF currentRuntimeMode # runtimeMode /\ runtimeMode # "active"
       THEN /\ sessions' = {}
            /\ rowOf' = [s \in Session |-> IF s \in sessions /\ rowOf[s] = "open" THEN "closed" ELSE rowOf[s]]
       ELSE UNCHANGED <<sessions, rowOf>>
  /\ UNCHANGED pump

synchronizeRuntimeMode ==
  /\ ~shuttingDown /\ currentRuntimeMode # runtimeMode /\ applyRuntimeMode
  /\ UNCHANGED <<disconnecting, runtimeMode, agentRow, http, authenticationFailures, events, delivered, received, shuttingDown, used>>

-----------------------------------------------------------------------------
(* Requests. *)

isRateLimited == authenticationFailures >= AUTH_MAXIMUM_FAILURES

\* A request with the token of some rotation, for a session or to initialise
\* one, that finds the mode active and the caller not rate limited.
handleMcpRequest(s, token) ==
  /\ ~shuttingDown /\ http = NoRequest /\ token <= agentRow.token
  /\ runtimeMode = "active" /\ currentRuntimeMode' = "active" /\ ~isRateLimited
  /\ http' = [at |-> "authenticate", session |-> s, token |-> token]
  /\ UNCHANGED <<disconnecting, runtimeMode, agentRow, rowOf, sessions, authenticationFailures, pump, events, delivered,
                 received, shuttingDown, used>>

authenticateRequest ==
  /\ http.at = "authenticate"
  /\ IF agentRow.enabled /\ http.token = agentRow.token
       THEN /\ authenticationFailures' = 0
            /\ http' = CASE http.session \in sessions -> [http EXCEPT !.at = "touch"]
                         [] rowOf[http.session] = "none" -> [http EXCEPT !.at = "connect"]
                         [] OTHER -> NoRequest
       ELSE authenticationFailures' = authenticationFailures + 1 /\ http' = NoRequest
  /\ UNCHANGED <<disconnecting, runtimeMode, currentRuntimeMode, agentRow, rowOf, sessions, pump, events, delivered, received,
                 shuttingDown, used>>

windowPasses ==
  /\ authenticationFailures > 0 /\ authenticationFailures' = 0 /\ Admin
  /\ UNCHANGED <<disconnecting, runtimeMode, currentRuntimeMode, agentRow, rowOf, sessions, http, pump, events, delivered,
                 received, shuttingDown>>

\* handleExistingSession.
touchMcpSession ==
  /\ http.at = "touch" /\ http' = NoRequest
  /\ IF rowOf[http.session] = "open" /\ runtimeMode = "active"
       THEN UNCHANGED <<rowOf, sessions>>
       ELSE /\ sessions' = sessions \ {http.session}
            /\ rowOf' = [rowOf EXCEPT ![http.session] = "closed"]
  /\ UNCHANGED <<disconnecting, runtimeMode, currentRuntimeMode, agentRow, authenticationFailures, pump, events, delivered,
                 received, shuttingDown, used>>

Connectable == runtimeMode = "active"

\* initializeMcpSession: the session is registered in memory, its row
\* inserted in a transaction that reads the mode again, its pump started.
connectMcpSession ==
  /\ http.at = "connect" /\ http' = NoRequest
  /\ sessions' = sessions \cup {http.session}
  /\ rowOf' = [rowOf EXCEPT ![http.session] = IF Connectable THEN "open" ELSE "closed"]
  /\ UNCHANGED <<disconnecting, runtimeMode, currentRuntimeMode, agentRow, authenticationFailures, pump, events, delivered,
                 received, shuttingDown, used>>

closeSession(s) ==
  /\ ~shuttingDown /\ s \in sessions /\ Admin
  /\ sessions' = sessions \ {s}
  /\ rowOf' = [rowOf EXCEPT ![s] = IF @ = "open" THEN "closed" ELSE @]
  /\ UNCHANGED <<disconnecting, runtimeMode, currentRuntimeMode, agentRow, http, authenticationFailures, pump, events, delivered,
                 received, shuttingDown>>

-----------------------------------------------------------------------------
(* Notifications. *)

Happens(e) ==
  /\ e \notin events /\ events' = events \cup {e}
  /\ UNCHANGED <<disconnecting, runtimeMode, currentRuntimeMode, agentRow, rowOf, sessions, http, authenticationFailures, pump,
                 delivered, received, shuttingDown, used>>

Pumps(s, to) ==
  /\ pump' = [pump EXCEPT ![s] = to]
  /\ UNCHANGED <<disconnecting, runtimeMode, currentRuntimeMode, agentRow, rowOf, sessions, http, authenticationFailures, events,
                 shuttingDown>>

\* touchMcpSession, currentAgent and listPendingMcpEvents; notificationBusy
\* keeps a second pump of the session out.
pumpNotifications(s) ==
  /\ pump[s] = Resting /\ s \in sessions /\ rowOf[s] = "open" /\ ~shuttingDown
  /\ currentRuntimeMode = "active" /\ runtimeMode = "active" /\ agentRow.enabled
  /\ \E e \in events \ delivered[s] : Pumps(s, [at |-> "send", event |-> e])
  /\ UNCHANGED <<delivered, received, used>>

sendLoggingMessage(s) ==
  /\ pump[s].at = "send"
  /\ \/ /\ s \in sessions /\ received' = [received EXCEPT ![s] = @ \cup {pump[s].event}]
        /\ Pumps(s, [pump[s] EXCEPT !.at = "record"]) /\ UNCHANGED used
     \/ /\ s \notin sessions /\ Pumps(s, Resting) /\ UNCHANGED <<received, used>>
     \/ /\ Fault /\ Pumps(s, Resting) /\ UNCHANGED received
  /\ UNCHANGED delivered

recordMcpEventDelivery(s) ==
  /\ pump[s].at = "record" /\ Pumps(s, Resting)
  /\ \/ delivered' = [delivered EXCEPT ![s] = @ \cup {pump[s].event}] /\ UNCHANGED used
     \/ Fault /\ UNCHANGED delivered
  /\ UNCHANGED received

-----------------------------------------------------------------------------
(* The operator, in the other process, and shutdown. *)

DisconnectAll == [s \in Session |-> IF rowOf[s] = "open" THEN "closed" ELSE rowOf[s]]

setMcpRuntimeMode(to) ==
  /\ Admin /\ runtimeMode # to /\ runtimeMode' = to
  /\ rowOf' = IF to = "active" THEN rowOf ELSE DisconnectAll
  /\ UNCHANGED <<disconnecting, currentRuntimeMode, agentRow, sessions, http, authenticationFailures, pump, events, delivered,
                 received, shuttingDown>>

\* Agent changes write the row and disconnect in a second call.
Changes(row, disconnects) ==
  /\ Admin /\ ~disconnecting /\ agentRow' = row /\ disconnecting' = disconnects
  /\ UNCHANGED <<runtimeMode, currentRuntimeMode, rowOf, sessions, http, authenticationFailures, pump, events,
                 delivered, received, shuttingDown>>

rotateMcpAgentToken == Changes([agentRow EXCEPT !.token = @ + 1], TRUE)
updateMcpAgent(on) == agentRow.enabled # on /\ Changes([agentRow EXCEPT !.enabled = on], ~on)
disconnectMcpAgentSessions ==
  /\ disconnecting /\ disconnecting' = FALSE /\ rowOf' = DisconnectAll
  /\ UNCHANGED <<runtimeMode, currentRuntimeMode, agentRow, sessions, http, authenticationFailures, pump, events,
                 delivered, received, shuttingDown, used>>

\* shutdown, drainAndClose: pumps stop, requests drain, then every session is
\* closed and its row with it.
drainAndClose ==
  /\ http = NoRequest /\ \A s \in Session : pump[s] = Resting
  /\ ~shuttingDown /\ Admin /\ shuttingDown' = TRUE
  /\ sessions' = {}
  /\ rowOf' = [s \in Session |-> IF s \in sessions /\ rowOf[s] = "open" THEN "closed" ELSE rowOf[s]]
  /\ UNCHANGED <<disconnecting, runtimeMode, currentRuntimeMode, agentRow, http, authenticationFailures, pump, events, delivered,
                 received>>

Server == \/ synchronizeRuntimeMode \/ authenticateRequest \/ touchMcpSession \/ connectMcpSession
          \/ \E s \in Session : pumpNotifications(s) \/ sendLoggingMessage(s) \/ recordMcpEventDelivery(s)

Next ==
  \/ Server
  \/ \E s \in Session : closeSession(s) \/ \E token \in 0..agentRow.token : handleMcpRequest(s, token)
  \/ \E e \in Event : Happens(e)
  \/ \E to \in {"active", "standby"} : setMcpRuntimeMode(to)
  \/ \E on \in BOOLEAN : updateMcpAgent(on)
  \/ rotateMcpAgentToken \/ disconnectMcpAgentSessions \/ windowPasses \/ drainAndClose

\* The event loop runs what is due: monitor and pumps are interval timers.
Fairness == /\ WF_sessionVars(synchronizeRuntimeMode)
            /\ \A s \in Session : /\ WF_sessionVars(pumpNotifications(s))
                                  /\ WF_sessionVars(sendLoggingMessage(s) \/ recordMcpEventDelivery(s))

Spec == Init /\ [][Next]_sessionVars /\ Fairness

-----------------------------------------------------------------------------
TypeOK ==
  /\ runtimeMode \in {"active", "standby"} /\ sessions \subseteq Session
  /\ rowOf \in [Session -> {"none", "open", "closed"}] /\ authenticationFailures \in Nat

\* No session counts as connected while the runtime is not active, although
\* the server learns of the mode late and may be initialising a session; and
\* an event is recorded as delivered to a session only if it was sent to it.
SessionsFollowTheMode ==
  /\ runtimeMode # "active" => \A s \in Session : rowOf[s] # "open"
  /\ \A s \in Session : delivered[s] \subseteq received[s]

\* An event that happened reaches every session that stays connected, a
\* failed send or a failed delivery record notwithstanding.
Owes(s, e) == e \in events /\ rowOf[s] = "open"
Settled(s, e) == e \in received[s] \/ rowOf[s] # "open" \/ ~agentRow.enabled \/ shuttingDown
=============================================================================
