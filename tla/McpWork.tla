------------------------------ MODULE McpWork ------------------------------
(***************************************************************************)
(* What agents ask for and how it is carried out: tool calls of the MCP    *)
(* server (mcp_server.ts) write control requests and proposals into the    *)
(* shared database (mcp_repository.ts); the operator approves, rejects,    *)
(* revokes or stops; the bridge in the main process claims one item at a   *)
(* time, re-checks it around an audit record and carries it out            *)
(* (mcp_control_bridge.ts).  Server and bridge are two processes: every    *)
(* step below is one database call or the code between two of them.        *)
(***************************************************************************)
EXTENDS Naturals, Sequences, FiniteSets

CONSTANTS Item,         \* identifiers of requests and proposals
          Calls,        \* the actions whose tools agents call
          Permissions,  \* what an agent may be granted
          MaxAdmin, MaxFailures, MaxDeaths

VARIABLES mode,         \* mcp_runtime_state
          agent,        \* the agent's row
          call,         \* the agent's tool call in the server
          work,         \* mcp_control_requests and mcp_agent_proposals
          order,        \* ids, oldest decision or request first
          review,       \* an operator's approval between its reads and its write
          bridge,       \* the item the bridge carries out
          recovered,    \* the bridge marked interrupted work of an earlier life
          blocked,      \* kinds of resources whose preflight finds a blocker now
          executed,     \* how often an item was carried out
          spent

workVars == <<mode, agent, call, work, order, review, bridge, recovered, blocked, executed, spent>>

-----------------------------------------------------------------------------
(* The tools, and what the bridge demands of their actions. *)

Tool(kind, permission, actions) == {[kind |-> kind, permission |-> permission, action |-> a] : a \in actions}

registerContractTools ==
  Tool("control", "contracts.write", {"contracts.create", "contracts.update"}) \cup
  Tool("proposal", "contracts.write", {"contracts.publish", "contracts.archive", "contracts.delete_draft",
                                       "contracts.create_version", "contracts.duplicate", "contracts.delete_version"})

registerRiskTools == Tool("proposal", "risk.write", {"risk.update", "risk.delete"})
registerConfigurationTools ==
  Tool("proposal", "contracts.write", {"schemas.create", "schemas.update", "schemas.delete"}) \cup
  Tool("proposal", "strategies.write", {"strategies.create", "strategies.update", "strategies.publish",
                                        "strategies.archive", "strategies.delete"}) \cup
  Tool("proposal", "routes.write", {"routes.set", "routes.delete"})

registerWorkflowTools ==
  Tool("proposal", "workflow.write", {"workflow.resource_create", "workflow.resource_update", "workflow.resource_publish",
                                      "workflow.resource_archive", "workflow.resource_delete_draft", "workflow.activate"})

registerTradingTools ==
  Tool("control", "trading.reconcile", {"trading.reconcile"}) \cup
  Tool("control", "trading.cancel_entries", {"trading.cancel_entries"}) \cup
  Tool("control", "trading.kill_switch", {"trading.kill_switch"}) \cup
  Tool("proposal", "trading.kill_switch", {"trading.release_kill_switch"}) \cup
  Tool("control", "trading.flatten", {"trading.flatten"})

Tools == registerContractTools \cup registerRiskTools \cup registerConfigurationTools
           \cup registerWorkflowTools \cup registerTradingTools

APPROVAL_REQUIRED_ACTIONS ==
  {"contracts.publish", "contracts.archive", "contracts.delete_draft", "contracts.delete_version",
   "schemas.update", "schemas.delete", "strategies.publish", "strategies.archive", "strategies.delete",
   "routes.set", "routes.delete", "risk.update", "risk.delete", "workflow.resource_archive",
   "workflow.resource_delete_draft", "workflow.activate", "trading.release_kill_switch"}

ACTION_PERMISSIONS(action) ==
  CASE action \in {"contracts.create", "contracts.update", "contracts.publish", "contracts.archive",
                   "contracts.delete_draft"} -> "contracts.write"
    [] action \in {"risk.update", "risk.delete"} -> "risk.write"
    [] OTHER -> action

ContractActions == {t.action : t \in registerContractTools}
SchemaActions == {"schemas.create", "schemas.update", "schemas.delete"}
proposalPermission(action) ==
  CASE action \in ContractActions \cup SchemaActions -> "contracts.write"
    [] action \in {t.action : t \in registerRiskTools} -> "risk.write"
    [] action \in {t.action : t \in registerWorkflowTools} -> "workflow.write"
    [] action \in {"routes.set", "routes.delete"} -> "routes.write"
    [] action = "trading.release_kill_switch" -> "trading.kill_switch"
    [] OTHER -> "strategies.write"

\* preflightMcpAction asks the preflight of the action's kind of resource;
\* risk policies have none, a release is blocked while no kill switch is set.
Families == {"contracts", "schemas", "strategies", "routes", "workflow", "release"}
preflightContractAction(action) == action \in ContractActions /\ "contracts" \in blocked
preflightSchemaAction(action) == action \in SchemaActions /\ "schemas" \in blocked
preflightRouteAction(action) == action \in {"routes.set", "routes.delete"} /\ "routes" \in blocked
preflightStrategyAction(action) ==
  /\ action \in {t.action : t \in registerConfigurationTools} \ (SchemaActions \cup {"routes.set", "routes.delete"})
  /\ "strategies" \in blocked

preflightWorkflowAction(action) == action \in {t.action : t \in registerWorkflowTools} /\ "workflow" \in blocked
preflightMcpAction(action) ==
  ~(preflightContractAction(action) \/ preflightSchemaAction(action) \/ preflightStrategyAction(action)
      \/ preflightRouteAction(action) \/ preflightWorkflowAction(action)
      \/ (action = "trading.release_kill_switch" /\ "release" \in blocked))

required(kind, action) == IF kind = "control" THEN ACTION_PERMISSIONS(action) ELSE proposalPermission(action)

-----------------------------------------------------------------------------
none == "none"
NoWork == [kind |-> none, action |-> none, status |-> none, by |-> none]
Idle == [at |-> none]
NoCall == [at |-> none, tool |-> none]
Final == {"succeeded", "completed", "failed", "rejected", "expired"}

Init ==
  /\ mode = "active" /\ agent = [enabled |-> TRUE, deleted |-> FALSE, permissions |-> Permissions]
  /\ call = NoCall /\ work = [i \in Item |-> NoWork] /\ order = <<>> /\ review = none
  /\ bridge = Idle /\ recovered = FALSE /\ blocked = {}
  /\ executed = [i \in Item |-> 0]
  /\ spent = [admin |-> 0, failures |-> 0, deaths |-> 0]

agentHasPermission(permission) == agent.enabled /\ permission \in agent.permissions
Fails == spent.failures < MaxFailures /\ spent' = [spent EXCEPT !.failures = @ + 1]
Known(status) == {i \in Item : work[i].status = status}
NowAt(i) == order' = SelectSeq(order, LAMBDA j : j # i) \o <<i>>

-----------------------------------------------------------------------------
(* The server: a tool call checks the agent, then writes. *)

callTool ==
  /\ call = NoCall /\ \E i \in Item : work[i] = NoWork
  /\ mode = "active" /\ ~agent.deleted
  /\ \E t \in Tools :
       /\ t.action \in Calls /\ agentHasPermission(t.permission)
       /\ call' = [at |-> "checked", tool |-> t]
  /\ UNCHANGED <<mode, agent, work, order, review, bridge, recovered, blocked, executed, spent>>

\* preflightMcpAction, before the transaction that writes the proposal.
preflight ==
  /\ call.at = "checked" /\ call.tool.kind = "proposal"
  /\ call' = IF ~preflightMcpAction(call.tool.action) THEN NoCall ELSE [call EXCEPT !.at = "preflighted"]
  /\ UNCHANGED <<mode, agent, work, order, review, bridge, recovered, blocked, executed, spent>>

requiresApproval(action) == action \in APPROVAL_REQUIRED_ACTIONS

Writes(kind, status, by) ==
  /\ call' = NoCall
  /\ IF mode # "active" THEN UNCHANGED <<work, order>>
     ELSE \E i \in Item :
            /\ work[i] = NoWork
            /\ work' = [work EXCEPT ![i] = [kind |-> kind, action |-> call.tool.action, status |-> status, by |-> by]]
            /\ NowAt(i)
  /\ UNCHANGED <<mode, agent, review, bridge, recovered, blocked, executed, spent>>

enqueueMcpControlRequest == call.at = "checked" /\ call.tool.kind = "control" /\ Writes("control", "pending", none)

createMcpProposal ==
  /\ call.at = "preflighted"
  /\ IF requiresApproval(call.tool.action) THEN Writes("proposal", "pending", none)
     ELSE Writes("proposal", "approved", "agent")

-----------------------------------------------------------------------------
(* The operator. *)

Admin == spent.admin < MaxAdmin /\ spent' = [spent EXCEPT !.admin = @ + 1]
Ends(which, status) == [i \in Item |-> IF i \in which THEN [work[i] EXCEPT !.status = status] ELSE work[i]]

\* setMcpRuntimeMode, one transaction.
setMcpRuntimeMode(to) ==
  /\ Admin /\ mode # to /\ mode' = to
  /\ work' = IF to # "disabled" THEN work
             ELSE Ends({i \in Item : \/ work[i].kind = "control" /\ work[i].status = "pending"
                                     \/ work[i].status = "approved"}, "failed")
  /\ UNCHANGED <<agent, call, order, review, bridge, recovered, blocked, executed>>

updateMcpAgent(enabled, permissions) ==
  /\ Admin /\ ~agent.deleted
  /\ agent' = [agent EXCEPT !.enabled = enabled, !.permissions = permissions] /\ agent' # agent
 
  /\ UNCHANGED <<mode, call, work, order, review, bridge, recovered, blocked, executed>>

deleteMcpAgent ==
  /\ Admin /\ ~agent.deleted
  /\ agent' = [enabled |-> FALSE, deleted |-> TRUE, permissions |-> {}]
  /\ work' = [i \in Item |->
       CASE work[i].status \in {"running", "executing"} -> [work[i] EXCEPT !.status = "failed"]
         [] work[i].kind = "control" /\ work[i].status = "pending" -> [work[i] EXCEPT !.status = "failed"]
         [] work[i].kind = "proposal" /\ work[i].status \in {"pending", "approved"} -> [work[i] EXCEPT !.status = "rejected"]
         [] OTHER -> work[i]]
  /\ UNCHANGED <<mode, call, order, review, bridge, recovered, blocked, executed>>

\* approveMcpProposal reads the mode and the row, runs the preflight, and
\* then writes under conditions of its own.
readsForApproval(i) ==
  /\ Admin /\ review = none /\ mode = "active"
  /\ work[i].kind = "proposal" /\ work[i].status = "pending" /\ preflightMcpAction(work[i].action)
  /\ review' = i
  /\ UNCHANGED <<mode, agent, call, work, order, bridge, recovered, blocked, executed>>

ApprovableOnceRead == work[review].status = "pending"

Approvable == work[review].status = "pending" /\ mode = "active"

approveMcpProposal ==
  /\ review # none /\ review' = none
  /\ IF Approvable
       THEN work' = [work EXCEPT ![review].status = "approved", ![review].by = "operator"] /\ NowAt(review)
       ELSE UNCHANGED <<work, order>>
  /\ UNCHANGED <<mode, agent, call, bridge, recovered, blocked, executed, spent>>

rejectMcpProposal(i) ==
  /\ Admin /\ work[i].kind = "proposal" /\ work[i].status = "pending"
  /\ work' = [work EXCEPT ![i].status = "rejected", ![i].by = "operator"]
  /\ UNCHANGED <<mode, agent, call, order, review, bridge, recovered, blocked, executed>>

\* expireMcpProposals, before a list and before a claim: any proposal may
\* have reached its expiry.
expireMcpProposals ==
  /\ \E i \in Item : /\ work[i].kind = "proposal" /\ work[i].status \in {"pending", "approved"}
                     /\ work' = [work EXCEPT ![i].status = "expired"]
  /\ Admin
  /\ UNCHANGED <<mode, agent, call, order, review, bridge, recovered, blocked, executed>>

\* Another operation changes what preflight finds.
configurationChanges ==
  /\ Admin /\ \E f \in Families :
                blocked' = IF f \in blocked THEN blocked \ {f} ELSE blocked \cup {f}
  /\ UNCHANGED <<mode, agent, call, work, order, review, bridge, recovered, executed>>

-----------------------------------------------------------------------------
(* The bridge. *)

recoverReadyWork ==
  /\ bridge = Idle /\ ~recovered /\ mode = "active" /\ recovered' = TRUE
  /\ work' = Ends(Known("running") \cup Known("executing"), "failed")
  /\ UNCHANGED <<mode, agent, call, order, review, bridge, blocked, executed, spent>>

First(which) == CHOOSE i \in which : \A j \in which : \E m, n \in DOMAIN order : order[m] = i /\ order[n] = j /\ m <= n
Requests == {i \in Item : work[i].kind = "control" /\ work[i].status = "pending"}
Approved == Known("approved")

\* claimNextMcpControlRequest, and only without one claimNextApprovedMcpProposal.
claim ==
  /\ bridge = Idle /\ recovered /\ mode = "active" /\ Requests \cup Approved # {}
  /\ LET i == First(IF Requests # {} THEN Requests ELSE Approved)
     IN  /\ work' = [work EXCEPT ![i].status = IF work[i].kind = "control" THEN "running" ELSE "executing"]
         /\ bridge' = [at |-> "claimed", item |-> i]
  /\ UNCHANGED <<mode, agent, call, order, review, recovered, blocked, executed, spent>>

On(i) == work[i]
Refuses == bridge' = [bridge EXCEPT !.at = "failed"] /\ UNCHANGED executed
Goes(at) == bridge' = [bridge EXCEPT !.at = at] /\ UNCHANGED executed

\* The mode and the agent's permission are read again.
authorizes ==
  /\ bridge.at = "claimed"
  /\ LET w == On(bridge.item)
     IN  IF mode = "active" /\ agentHasPermission(required(w.kind, w.action)) THEN Goes("authorized") ELSE Refuses
  /\ UNCHANGED <<mode, agent, call, work, order, review, recovered, blocked, spent>>

\* The audit record "authorized"; without it nothing is carried out.
audits ==
  /\ bridge.at = "authorized"
  /\ \/ Goes("audited") /\ UNCHANGED spent
     \/ Refuses /\ Fails
  /\ UNCHANGED <<mode, agent, call, work, order, review, recovered, blocked>>

CarriesOut ==
  \/ /\ executed' = [executed EXCEPT ![bridge.item] = @ + 1]
     /\ bridge' = [bridge EXCEPT !.at = "done"] /\ UNCHANGED spent
  \/ Refuses /\ Fails       \* the operation itself throws

executeAuthorized ==
  /\ bridge.at = "audited" /\ On(bridge.item).kind = "control"
  /\ IF mode = "active" THEN CarriesOut ELSE Refuses /\ UNCHANGED spent
  /\ UNCHANGED <<mode, agent, call, work, order, review, recovered, blocked>>

\* A proposal's preflight is awaited between the last check of the mode and
\* the operation.
preflightsAgain ==
  /\ bridge.at = "audited" /\ On(bridge.item).kind = "proposal"
  /\ IF mode = "active" /\ preflightMcpAction(On(bridge.item).action) THEN Goes("preflighted") ELSE Refuses
  /\ UNCHANGED <<mode, agent, call, work, order, review, recovered, blocked, spent>>

executeAuthorizedProposal ==
  /\ bridge.at = "preflighted" /\ CarriesOut
  /\ UNCHANGED <<mode, agent, call, work, order, review, recovered, blocked>>

InHand(i) == work[i].status = IF work[i].kind = "control" THEN "running" ELSE "executing"
Success(i) == IF work[i].kind = "control" THEN "succeeded" ELSE "completed"

\* The audit record "completed" and the result; a failure of either leads to
\* the catch, which records a failure.
completes ==
  /\ bridge.at = "done"
  /\ \/ /\ InHand(bridge.item) /\ work' = [work EXCEPT ![bridge.item].status = Success(bridge.item)]
        /\ bridge' = Idle /\ UNCHANGED <<executed, spent>>
     \/ Refuses /\ UNCHANGED <<work, spent>> /\ ~InHand(bridge.item)
     \/ Refuses /\ Fails /\ UNCHANGED work
  /\ UNCHANGED <<mode, agent, call, order, review, recovered, blocked>>

completesFailed ==
  /\ bridge.at = "failed" /\ bridge' = Idle
  /\ \/ /\ work' = IF InHand(bridge.item) THEN [work EXCEPT ![bridge.item].status = "failed"] ELSE work
        /\ UNCHANGED spent
     \/ Fails /\ UNCHANGED work
  /\ UNCHANGED <<mode, agent, call, order, review, recovered, blocked, executed>>

\* The main process restarts; the server dies with its calls.
restarts ==
  /\ spent.deaths < MaxDeaths /\ spent' = [spent EXCEPT !.deaths = @ + 1]
  /\ bridge' = Idle /\ recovered' = FALSE /\ review' = none
  /\ UNCHANGED <<mode, agent, call, work, order, blocked, executed>>

Bridge == recoverReadyWork \/ claim \/ authorizes \/ audits \/ executeAuthorized \/ preflightsAgain
            \/ executeAuthorizedProposal \/ completes \/ completesFailed

Operator ==
  \/ \E to \in {"active", "standby", "disabled"} : setMcpRuntimeMode(to)
  \/ \E on \in BOOLEAN, permissions \in {{}, Permissions} : updateMcpAgent(on, permissions)
  \/ deleteMcpAgent \/ approveMcpProposal \/ expireMcpProposals \/ configurationChanges
  \/ \E i \in Item : readsForApproval(i) \/ rejectMcpProposal(i)

Next ==
  \/ callTool \/ preflight \/ enqueueMcpControlRequest \/ createMcpProposal
  \/ Operator \/ Bridge \/ restarts

Spec == Init /\ [][Next]_workVars

-----------------------------------------------------------------------------
TypeOK ==
  /\ mode \in {"active", "standby", "disabled"} /\ recovered \in BOOLEAN /\ blocked \subseteq Families
  /\ \A i \in Item : work[i].status \in Final \cup {none, "pending", "approved", "running", "executing"}

\* Whatever agents, operators and restarts do in between, an item is carried
\* out at most once and never after it was rejected or expired; an action on
\* the approval list only with an operator's approval; a success is reported
\* only of what was done.  Every tool demands exactly the permission the
\* bridge demands of its action, so what the server admits for an agent the
\* bridge admits too.
ActionsAreAuthorised ==
  /\ \A t \in Tools : required(t.kind, t.action) = t.permission
  /\ \A i \in Item :
       /\ executed[i] <= 1
       /\ executed[i] = 1 =>
            /\ work[i].status \in {"running", "executing", "succeeded", "completed", "failed"}
            /\ (work[i].kind = "proposal" /\ work[i].action \in APPROVAL_REQUIRED_ACTIONS) => work[i].by = "operator"
       /\ work[i].status \in {"succeeded", "completed"} => executed[i] = 1

\* A disabled runtime has nothing left to carry out: no control request
\* waits, no approved proposal, however an approval or a tool call raced the
\* change of mode.
DisabledIsDrained ==
  mode = "disabled" => Requests = {} /\ Approved = {}
=============================================================================
