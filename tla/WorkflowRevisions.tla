------------------------- MODULE WorkflowRevisions -------------------------
(***************************************************************************)
(* Who may change the active workflow, and on top of what.  Resources are  *)
(* drafted, published, archived and deleted (workflow_repository.ts); a    *)
(* graph is drafted in browser tabs that share one server draft            *)
(* (ui_workflow_drafts.ts, workflow-builder.tsx) and activated as a new    *)
(* revision; an agent activates graphs of its own; the builder history     *)
(* steps back and forth between revisions.                                 *)
(*                                                                         *)
(* A graph is the set of resource versions it places; what it compiles to  *)
(* is in WorkflowGraph.  The server's transactions are single steps, the   *)
(* calls of a tab arrive in order, and `removed' records, beside a graph,  *)
(* what an operator took away knowingly since the revision it is based on. *)
(***************************************************************************)
EXTENDS Naturals, Sequences, FiniteSets, SequencesExt

CONSTANTS Family,        \* logical resources
          MaxVersions,   \* bound on the versions of a resource
          Tab,           \* browser tabs with the builder open
          HistoryLimit,  \* WORKFLOW_BUILDER_HISTORY_LIMIT
          MaxRevisions,  \* bound on revisions
          MaxDrafts,     \* bound on the versions of the server draft
          MaxSpent       \* bound on operations on resources, agent calls, edits,
                         \* comparisons, lost answers and drafts that end

VARIABLES resource,   \* status of each resource version
          revisions,  \* the graphs of the revisions, in order
          active,     \* the active revision, 0 when there is none
          undo, redo, \* the builder history: stacks of revisions
          draft,      \* the server draft 'operator'
          tab,        \* what each browser tab holds
          spent       \* how many of them there were

revisionVars == <<resource, revisions, active, undo, redo, draft, tab, spent>>

Version == Family \X (1 .. MaxVersions)
NoDraft == [version |-> 0, base |-> 0, graph |-> {}, removed |-> {}, expired |-> FALSE]
Nothing == [draft |-> NoDraft, active |-> 0, graph |-> {"nothing"}]
Closed == [open |-> FALSE, preview |-> Nothing, graph |-> {}, removed |-> {}, seen |-> 0, version |-> 0, base |-> 0,
           unsaved |-> FALSE, calls |-> <<>>, dialog |-> "none"]

Spend == spent < MaxSpent /\ spent' = spent + 1
GraphOf(r) == IF r = 0 THEN {} ELSE revisions[r]
Published == {v \in Version : resource[v] = "published"}
Present == {v \in Version : resource[v] # "absent"}

-----------------------------------------------------------------------------
(* Resources.                                                              *)

Reset == undo' = <<>> /\ redo' = <<>>

createWorkflowResourceDraft(f) ==
    \E n \in 1 .. MaxVersions :
        /\ \A m \in 1 .. MaxVersions : resource[<<f, m>>] # "absent" => m < n
        /\ n > 1 => resource[<<f, n - 1>>] # "absent"
        /\ resource' = [resource EXCEPT ![<<f, n>>] = "draft"]
        /\ UNCHANGED <<undo, redo>>

publishWorkflowResource(v) ==
    /\ resource[v] = "draft"
    /\ resource' = [resource EXCEPT ![v] = "published"]
    /\ UNCHANGED <<undo, redo>>

archiveWorkflowResource(v) ==
    /\ resource[v] = "published"
    /\ v \notin GraphOf(active)
    /\ resource' = [resource EXCEPT ![v] = "archived"]
    /\ Reset

archiveWorkflowResourceFamily(f) ==
    LET members == {v \in Published : v[1] = f}
    IN  /\ members # {}
        /\ members \cap GraphOf(active) = {}
        /\ resource' = [v \in Version |-> IF v \in members THEN "archived" ELSE resource[v]]
        /\ Reset

deleteWorkflowResourceDraft(v) ==
    /\ resource[v] = "draft"
    /\ resource' = [resource EXCEPT ![v] = "absent"]
    /\ UNCHANGED <<undo, redo>>

deleteWorkflowResourceFamily(f) ==
    /\ \E v \in Present : v[1] = f
    /\ \A i \in DOMAIN revisions : \A v \in revisions[i] : v[1] # f
    /\ resource' = [v \in Version |-> IF v[1] = f THEN "absent" ELSE resource[v]]
    /\ Reset

ResourceStep ==
    /\ Spend
    /\ \/ \E f \in Family : \/ createWorkflowResourceDraft(f)
                            \/ archiveWorkflowResourceFamily(f)
                            \/ deleteWorkflowResourceFamily(f)
       \/ \E v \in Version : \/ publishWorkflowResource(v)
                             \/ archiveWorkflowResource(v)
                             \/ deleteWorkflowResourceDraft(v)
    /\ UNCHANGED <<revisions, active, draft, tab>>

-----------------------------------------------------------------------------
(* Revisions.                                                              *)

(* The graph compiles: every node has a published version, and a resource  *)
(* is placed once.                                                         *)
Compiles(g) == g \subseteq Published /\ \A v, w \in g : v[1] = w[1] => v = w

BaseHolds(base) == base = active

activateCompiledWorkflowRevision(g) ==
    /\ Len(revisions) < MaxRevisions
    /\ revisions' = Append(revisions, g)
    /\ active' = Len(revisions) + 1

pushWorkflowHistoryEntry(stack, r) ==
    LET longer == Append(stack, r)
    IN  IF Len(longer) > HistoryLimit THEN Tail(longer) ELSE longer

Pop(stack) == SubSeq(stack, 1, Len(stack) - 1)

saveWorkflowRevision(base, g, mode) ==
    /\ Compiles(g)
    /\ BaseHolds(base)
    /\ activateCompiledWorkflowRevision(g)
    /\ IF mode = "record" THEN undo' = pushWorkflowHistoryEntry(undo, active) /\ redo' = <<>>
       ELSE UNCHANGED <<undo, redo>>

HistoryTarget(direction) == IF direction = "undo" THEN Last(undo) ELSE Last(redo)

applyWorkflowBuilderHistory(base, direction) ==
    /\ BaseHolds(base)
    /\ (IF direction = "undo" THEN undo ELSE redo) # <<>>
    /\ Compiles(GraphOf(HistoryTarget(direction)))
    /\ activateCompiledWorkflowRevision(GraphOf(HistoryTarget(direction)))
    /\ IF direction = "undo"
       THEN undo' = Pop(undo) /\ redo' = pushWorkflowHistoryEntry(redo, active)
       ELSE redo' = Pop(redo) /\ undo' = pushWorkflowHistoryEntry(undo, active)

(* An agent's workflow.activate names the revision it read; the history is *)
(* left as it is.                                                          *)
agentActivates(g) ==
    /\ Spend
    /\ saveWorkflowRevision(active, g, "ignore")
    /\ UNCHANGED <<resource, draft, tab>>

-----------------------------------------------------------------------------
(* The server draft.                                                       *)

saveUiWorkflowDraft(version, base, g, removed) ==
    /\ draft.version = version
    /\ draft' = [version |-> version + 1, base |-> base, graph |-> g, removed |-> removed, expired |-> FALSE]

assertDraftBinding(version, base, g) ==
    /\ draft.version = version
    /\ ~ draft.expired
    /\ draft.base = base
    /\ draft.graph = g

(* Draft, revision and history change in one transaction.                  *)
activateUiWorkflowDraft(t) ==
    /\ assertDraftBinding(tab[t].version, tab[t].base, tab[t].graph)
    /\ saveWorkflowRevision(tab[t].base, tab[t].graph, "record")
    /\ saveUiWorkflowDraft(tab[t].version, Len(revisions) + 1, tab[t].graph, {})

(* A deleted draft is created again from version 1.                        *)
draftEnds ==
    /\ Spend
    /\ draft.version # 0
    /\ draft' \in {NoDraft, [draft EXCEPT !.expired = TRUE]}
    /\ UNCHANGED <<resource, revisions, active, undo, redo, tab>>

(* The library takes the graph of an old revision as the new draft.        *)
restoreRevision(r) ==
    /\ Spend
    /\ draft.version < MaxDrafts
    /\ r \in DOMAIN revisions
    /\ saveUiWorkflowDraft(draft.version, active, revisions[r], GraphOf(active) \ revisions[r])
    /\ UNCHANGED <<resource, revisions, active, undo, redo, tab>>

-----------------------------------------------------------------------------
(* The builder in a tab.                                                   *)

Idle(t) == tab[t].open /\ tab[t].calls = <<>> /\ tab[t].dialog = "none"
Server == <<resource, revisions, active, undo, redo, draft>>

(* The graph the server shows: the draft, or else the active revision.     *)
ServerState == [draft |-> draft, active |-> active, graph |-> GraphOf(active)]
Shown(state) ==
    IF state.draft.version = 0 THEN [NoDraft EXCEPT !.base = state.active, !.graph = state.graph] ELSE state.draft

Taking(t, state, seen) ==
    [tab[t] EXCEPT !.open = TRUE, !.seen = seen, !.preview = Nothing, !.unsaved = FALSE,
                   !.version = Shown(state).version, !.base = Shown(state).base,
                   !.graph = Shown(state).graph, !.removed = Shown(state).removed]

load(t) ==
    /\ ~ tab[t].open
    /\ tab' = [tab EXCEPT ![t] = Taking(t, ServerState, active)]
    /\ UNCHANGED <<Server, spent>>

(* A later load refreshes the active revision beside the draft shown.      *)
refresh(t) ==
    /\ Spend
    /\ Idle(t)
    /\ tab' = [tab EXCEPT ![t].seen = active]
    /\ UNCHANGED Server

(* Every edit is sent at once as a draft, also while an earlier one is     *)
(* still on its way: a version is placed, in the place of another version  *)
(* of its resource, or taken off the canvas.                               *)
send(t, g) ==
    LET gone == tab[t].removed \cup (tab[t].graph \ g)
    IN  /\ Spend
        /\ tab[t].version < MaxDrafts
        /\ tab' = [tab EXCEPT ![t].graph = g, ![t].removed = gone, ![t].unsaved = TRUE,
                              ![t].calls = Append(@, [version |-> tab[t].version, base |-> tab[t].base,
                                                      graph |-> g, removed |-> gone])]
        /\ UNCHANGED Server

edit(t, v) ==
    LET old == {w \in tab[t].graph : w[1] = v[1]}
    IN  /\ tab[t].open /\ tab[t].dialog = "none"
        /\ Len(tab[t].calls) < 2
        /\ v \in Present
        /\ send(t, IF v \in tab[t].graph THEN tab[t].graph \ {v} ELSE (tab[t].graph \ old) \cup {v})

saveDraft(t) == Idle(t) /\ send(t, tab[t].graph)

(* The answer clears the mark of unsaved changes whatever was edited since *)
(* the call; a conflict, or a lost answer, leaves everything as it is.     *)
persistGraphDraft(t) ==
    LET call == Head(tab[t].calls)
        left == [tab[t] EXCEPT !.calls = Tail(@)]
    IN  /\ tab[t].calls # <<>>
        /\ \/ /\ saveUiWorkflowDraft(call.version, call.base, call.graph, call.removed)
              /\ tab' = [tab EXCEPT ![t] = [left EXCEPT !.version = call.version + 1, !.base = call.base,
                                                        !.unsaved = FALSE]]
              /\ UNCHANGED spent
           \/ /\ Spend
              /\ saveUiWorkflowDraft(call.version, call.base, call.graph, call.removed)
              /\ tab' = [tab EXCEPT ![t] = left]
           \/ /\ draft.version # call.version
              /\ tab' = [tab EXCEPT ![t] = left]
              /\ UNCHANGED <<draft, spent>>
        /\ UNCHANGED <<resource, revisions, active, undo, redo>>

(* "Activate the saved graph": the draft is read again, the impact is      *)
(* shown for the base, and the operator writes the confirmation.           *)
reviewActivation(t) ==
    /\ Idle(t)
    /\ ~ tab[t].unsaved
    /\ tab[t].version # 0
    /\ draft.version = tab[t].version /\ ~ draft.expired
    /\ Compiles(tab[t].graph) /\ BaseHolds(tab[t].base)
    /\ tab' = [tab EXCEPT ![t].dialog = "activate"]
    /\ UNCHANGED <<Server, spent>>

activateGraph(t) ==
    /\ tab[t].dialog = "activate"
    /\ draft.version < MaxDrafts
    /\ activateUiWorkflowDraft(t)
    /\ tab' = [tab EXCEPT ![t].dialog = "none", ![t].seen = active', ![t].base = active',
                          ![t].version = draft'.version, ![t].removed = {}]
    /\ UNCHANGED <<resource, spent>>

reviewHistory(t, direction) ==
    /\ Idle(t)
    /\ BaseHolds(tab[t].seen)
    /\ (IF direction = "undo" THEN undo ELSE redo) # <<>>
    /\ tab' = [tab EXCEPT ![t].dialog = direction]
    /\ UNCHANGED <<Server, spent>>

navigateHistory(t, direction) ==
    /\ tab[t].dialog = direction
    /\ applyWorkflowBuilderHistory(tab[t].seen, direction)
    /\ tab' = [tab EXCEPT ![t].dialog = "none", ![t].seen = active', ![t].base = active',
                          ![t].graph = revisions'[active'], ![t].removed = {}, ![t].unsaved = TRUE]
    /\ UNCHANGED <<resource, draft, spent>>

(* The operator cancels, or the server answers with a conflict, after      *)
(* which the history loads the active revision.                            *)
closeDialog(t) ==
    /\ tab[t].dialog # "none"
    /\ \E seen \in IF tab[t].dialog = "activate" THEN {tab[t].seen} ELSE {tab[t].seen, active} :
          tab' = [tab EXCEPT ![t].dialog = "none", ![t].seen = seen]
    /\ UNCHANGED <<Server, spent>>

(* After a conflict the operator compares with the server's state, and     *)
(* later takes its draft over, or keeps their own graph on the new base.   *)
compare(t) ==
    /\ Idle(t)
    /\ Spend
    /\ tab' = [tab EXCEPT ![t].preview = ServerState]
    /\ UNCHANGED Server

adopt(t) ==
    /\ Idle(t) /\ tab[t].preview # Nothing
    /\ tab' = [tab EXCEPT ![t] = Taking(t, tab[t].preview, tab[t].seen)]
    /\ UNCHANGED <<Server, spent>>

rebase(t) ==
    LET state == tab[t].preview
    IN  /\ Idle(t) /\ state # Nothing
        /\ tab' = [tab EXCEPT ![t].version = state.draft.version, ![t].base = state.active, ![t].unsaved = TRUE,
                              ![t].removed = @ \cup (state.graph \ tab[t].graph), ![t].preview = Nothing]
        /\ UNCHANGED <<Server, spent>>

-----------------------------------------------------------------------------
Init ==
    /\ resource = [v \in Version |-> IF v[2] = 1 THEN "published" ELSE "absent"]
    /\ revisions = <<>>
    /\ active = 0
    /\ undo = <<>> /\ redo = <<>>
    /\ draft = NoDraft
    /\ tab = [t \in Tab |-> Closed]
    /\ spent = 0

Next ==
    \/ ResourceStep
    \/ \E f \in Family, n \in 1 .. MaxVersions : agentActivates(GraphOf(active) \cup {<<f, n>>})
    \/ draftEnds
    \/ \E r \in DOMAIN revisions : restoreRevision(r)
    \/ \E t \in Tab :
         \/ load(t) \/ refresh(t) \/ saveDraft(t) \/ closeDialog(t)
         \/ compare(t) \/ adopt(t) \/ rebase(t)
         \/ \E v \in Version : edit(t, v)
         \/ persistGraphDraft(t)
         \/ reviewActivation(t) \/ activateGraph(t)
         \/ \E direction \in {"undo", "redo"} : reviewHistory(t, direction) \/ navigateHistory(t, direction)

Spec == Init /\ [][Next]_revisionVars

-----------------------------------------------------------------------------
TypeOK ==
    /\ resource \in [Version -> {"absent", "draft", "published", "archived"}]
    /\ \A i \in DOMAIN revisions : revisions[i] \subseteq Version
    /\ active \in 0 .. Len(revisions)
    /\ Len(undo) <= HistoryLimit /\ Len(redo) <= HistoryLimit
    /\ draft.version \in 0 .. MaxDrafts + 1
    /\ \A t \in Tab : tab[t].graph \subseteq Version /\ tab[t].seen \in 0 .. Len(revisions)

(* What runs, and what one click can bring back, stands on published       *)
(* resources; and every revision there ever was can still be read: none of *)
(* its resources has been deleted.                                         *)
RevisionsStand ==
    /\ GraphOf(active) \subseteq Published
    /\ \A i \in DOMAIN undo : GraphOf(undo[i]) \subseteq Published
    /\ \A i \in DOMAIN redo : GraphOf(redo[i]) \subseteq Published
    /\ \A i \in DOMAIN revisions : revisions[i] \subseteq Present

(* No activated edit is lost: when a tab activates its graph, all that was *)
(* active before is still there, except what an operator removed knowingly *)
(* on the way to that graph.  Whatever another tab, an agent or the        *)
(* history activated in the meantime is refused or kept, never dropped.    *)
NoActivatedEditIsLost ==
    \A t \in Tab : tab[t].dialog = "activate" /\ tab'[t].dialog = "none" /\ active' # active =>
        GraphOf(active) \ revisions'[active'] \subseteq tab[t].removed
=============================================================================
