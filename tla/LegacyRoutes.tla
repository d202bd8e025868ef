---------------------------- MODULE LegacyRoutes ----------------------------
(***************************************************************************)
(* The takeover of the channel routes of older installations into the      *)
(* visual workflow at startup (workflow_repository.ts,                     *)
(* migrateLegacyTradingRoutesToWorkflow; forwarder.ts,                     *)
(* initializeCoreRuntime).  While no workflow revision is active, every    *)
(* start turns each enabled route into typed resources, published one      *)
(* database call after the other, and activates them as one revision.  The *)
(* process may die between any two calls and start again; between starts   *)
(* the operator changes the settings and routes the resources come from.   *)
(*                                                                         *)
(* A route is a channel and an account.  Of the kinds of resource three    *)
(* are kept: the channel's own, one taken from the global settings (as     *)
(* content filter, keywords, duplicate guard and output are), and the      *)
(* account's own.                                                          *)
(***************************************************************************)
EXTENDS Naturals, Sequences, FiniteSets, SequencesExt

CONSTANTS Route,       \* pairs <<channel, account>>
          Setting,     \* values of the global filter settings
          MaxDeaths,   \* bound on process deaths
          MaxChanges   \* bound on changes between starts

VARIABLES enabled,     \* the enabled routes
          unfit,       \* routes whose strategy allows no enabled schema
          setting,     \* the global filter settings
          published,   \* the versions of each resource, oldest first
          phase,       \* "down", "migrating" or "serving"
          pending,     \* the resources still to be made in this start
          made,        \* the nodes of the graph so far
          revision,    \* the active revision's nodes, or {}
          deaths, changes

legacyVars == <<enabled, unfit, setting, published, phase, pending, made, revision, deaths, changes>>

RouteKind == {"channel", "content_filter", "account"}
ResourceKey == RouteKind \X Route

(* The configuration of each resource of a route, in stage order.          *)
legacyResourceDefinitions(r) ==
    <<[key |-> <<"channel", r>>, configuration |-> r[1]],
      [key |-> <<"content_filter", r>>, configuration |-> setting],
      [key |-> <<"account", r>>, configuration |-> r[2]]>>

selectLegacySchema(r) == r \notin unfit

loadLegacyWorkflowInputs == {r \in enabled : selectLegacySchema(r)}

-----------------------------------------------------------------------------
startup ==
    /\ phase = "down"
    /\ made' = {}
    /\ IF revision # {} \/ loadLegacyWorkflowInputs = {}
       THEN phase' = "serving" /\ pending' = <<>>
       ELSE /\ phase' = "migrating"
            /\ LET order == SetToSeq(loadLegacyWorkflowInputs)
               IN  pending' = FlattenSeq([i \in DOMAIN order |-> legacyResourceDefinitions(order[i])])
    /\ UNCHANGED <<enabled, unfit, setting, published, revision, deaths, changes>>

(* The newest published version, when it is configured like this, is used  *)
(* again; otherwise a draft is created and then published.                 *)
Reusable(d) ==
    LET versions == {v \in DOMAIN published[d.key] : published[d.key][v].status = "published"}
    IN  \E v \in versions : /\ \A w \in versions : w <= v
                            /\ published[d.key][v].configuration = d.configuration

Placed(d, v) == [kind |-> d.key[1], route |-> d.key[2], version |-> v, configuration |-> d.configuration]

ensurePublishedWorkflowResource ==
    LET d == Head(pending)
        versions == published[d.key]
        last == Len(versions)
        fresh == last > 0 /\ versions[last].status = "draft" /\ versions[last].mine
    IN  /\ phase = "migrating" /\ pending # <<>>
        /\ CASE fresh ->                            \* publishWorkflowResource
                  /\ published' = [published EXCEPT ![d.key][last].status = "published",
                                                    ![d.key][last].mine = FALSE]
                  /\ made' = made \cup {Placed(d, last)}
                  /\ pending' = Tail(pending)
             [] ~ fresh /\ Reusable(d) ->
                  /\ made' = made \cup {Placed(d, CHOOSE v \in DOMAIN versions :
                                                     /\ versions[v].status = "published"
                                                     /\ \A w \in DOMAIN versions :
                                                           versions[w].status = "published" => w <= v)}
                  /\ pending' = Tail(pending)
                  /\ UNCHANGED published
             [] OTHER ->                            \* createWorkflowResourceDraft
                  /\ published' = [published EXCEPT ![d.key] =
                         Append(@, [configuration |-> d.configuration, status |-> "draft", mine |-> TRUE])]
                  /\ UNCHANGED <<made, pending>>
    /\ UNCHANGED <<enabled, unfit, setting, phase, revision, deaths, changes>>

(* loadWorkflowResources refuses two nodes of the same behaviour; the      *)
(* failure is logged and the service starts without a revision.            *)
BehaviourPlacedOnce ==
    \A n, m \in made : n.kind = m.kind /\ n.configuration = m.configuration => n = m

activateMigration ==
    /\ phase = "migrating" /\ pending = <<>>
    /\ phase' = "serving"
    /\ revision' = IF BehaviourPlacedOnce THEN made ELSE {}
    /\ UNCHANGED <<enabled, unfit, setting, published, pending, made, deaths, changes>>

-----------------------------------------------------------------------------
(* The process stops or dies; a draft it was about to publish stays.       *)
stop ==
    /\ phase # "down"
    /\ phase = "migrating" => deaths < MaxDeaths
    /\ deaths' = IF phase = "migrating" THEN deaths + 1 ELSE deaths
    /\ changes < MaxChanges \/ phase = "migrating"
    /\ phase' = "down"
    /\ pending' = <<>> /\ made' = {}
    /\ published' = [k \in ResourceKey |-> [v \in DOMAIN published[k] |-> [published[k][v] EXCEPT !.mine = FALSE]]]
    /\ UNCHANGED <<enabled, unfit, setting, revision, changes>>

operatorChanges ==
    /\ phase = "serving" \/ phase = "down"
    /\ changes < MaxChanges
    /\ changes' = changes + 1
    /\ \/ setting' \in Setting \ {setting} /\ UNCHANGED <<enabled, unfit>>
       \/ (\E r \in Route : enabled' \in {enabled \cup {r}, enabled \ {r}}) /\ UNCHANGED <<setting, unfit>>
       \/ (\E r \in Route : unfit' \in {unfit \cup {r}, unfit \ {r}}) /\ UNCHANGED <<setting, enabled>>
    /\ UNCHANGED <<published, phase, pending, made, revision, deaths>>

Init ==
    /\ enabled = {}
    /\ unfit = {}
    /\ setting \in Setting
    /\ published = [k \in ResourceKey |-> <<>>]
    /\ phase = "down"
    /\ pending = <<>> /\ made = {}
    /\ revision = {}
    /\ deaths = 0 /\ changes = 0

Next == startup \/ ensurePublishedWorkflowResource \/ activateMigration \/ stop \/ operatorChanges

Spec == Init /\ [][Next]_legacyVars

-----------------------------------------------------------------------------
TypeOK ==
    /\ enabled \subseteq Route /\ unfit \subseteq Route
    /\ setting \in Setting
    /\ \A k \in ResourceKey : \A v \in DOMAIN published[k] : published[k][v].status \in {"draft", "published"}
    /\ phase \in {"down", "migrating", "serving"}

(* A takeover is whole or has not happened, however often the start was    *)
(* interrupted: the revision has every kind of node for each of its        *)
(* routes, on versions that are published and configured as placed, and    *)
(* repeated starts never publish the same configuration of a resource      *)
(* twice in a row.                                                         *)
MigrationIsWhole ==
    /\ \A n \in revision :
          /\ \A k \in RouteKind : \E m \in revision : m.route = n.route /\ m.kind = k
          /\ published[<<n.kind, n.route>>][n.version].status = "published"
          /\ published[<<n.kind, n.route>>][n.version].configuration = n.configuration
    /\ \A k \in ResourceKey : \A v, w \in DOMAIN published[k] :
          /\ v < w
          /\ \A u \in v .. w : u \in {v, w} <=> published[k][u].status = "published"
          => published[k][v].configuration # published[k][w].configuration
=============================================================================
