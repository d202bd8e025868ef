--------------------------- MODULE WorkflowGraph ---------------------------
(***************************************************************************)
(* From the canvas to the routes that trade.  The workflow builder         *)
(* (frontend/src/app/workflow) edits a graph of resource nodes; the server *)
(* (workflow_repository.ts) validates it, compiles it into execution       *)
(* paths, compares those with the active ones, asks for a written          *)
(* confirmation when they differ, and activates them.                      *)
(*                                                                         *)
(* Every edit is one step here, activation included; WorkflowRevisions     *)
(* has the interleavings of several editors.  An undefined channel scope   *)
(* or fallback policy of an edge, both of which the server refuses when    *)
(* they are present and empty, is the empty set.  Positions are left out.  *)
(***************************************************************************)
EXTENDS Naturals, Sequences, FiniteSets

CONSTANTS Node,        \* the nodes that may be placed
          Kind,        \* the kind of each node
          Mode,        \* the mode of each output node
          Revisable,   \* nodes whose resource, or account, changes
          Placeable,   \* nodes that are removed and placed again
          Drawn,       \* the graphs editing starts from
          Joints,      \* pairs of nodes an editor connects and separates
          MaxEdges,    \* bound on the edges of a graph
          MaxReadinessChanges \* bound on changes of an account's readiness

VARIABLES graph,     \* the active graph: version, nodes, resource of each node, edges
          compiled,  \* the execution paths stored with it
          ready,     \* accounts that are enabled and ready
          changed    \* how often readiness changed

graphVars == <<graph, compiled, ready, changed>>

STAGE == [channel |-> 0, content_filter |-> 1, keyword_filter |-> 2, regex |-> 3, parser |-> 4,
          schema |-> 5, contract |-> 6, dedupe |-> 7, strategy |-> 8, sizing |-> 9,
          adaptive_risk |-> 10, account |-> 11, output |-> 12]

REQUIRED_EXECUTION_KINDS == {"channel", "parser", "schema", "contract", "strategy", "sizing", "account"}
LEGACY_POLICY == {"SYMBOL_UNAVAILABLE"}
RECOMMENDED_POLICY == {"SYMBOL_UNAVAILABLE", "MAX_CONCURRENT_POSITIONS", "SYMBOL_ALREADY_OWNED"}

Channel == {n \in Node : Kind[n] = "channel"}
Account == {n \in Node : Kind[n] = "account"}
Output == {n \in Node : Kind[n] = "output"}
Fallbacks(g) == {e \in g.edges : e.kind = "account_fallback"}
Flows(g) == g.edges \ Fallbacks(g)

-----------------------------------------------------------------------------
(* The server: validation.                                                 *)

workflowEdgeKind(e, version) ==
    IF version = 1 THEN e.kind \in {"none", "flow"} ELSE e.kind \in {"flow", "account_fallback"}

workflowEdgeFallbackPolicy(e, version) ==
    IF e.kind = "account_fallback" /\ version = 3 THEN e.policy # {} ELSE e.policy = {}

workflowEdgeChannelScope(e, g) ==
    /\ e.kind = "account_fallback" => e.scope # {}
    /\ e.scope \subseteq g.nodes \cap Channel

normalizeWorkflowEdge(e, g) ==
    /\ workflowEdgeKind(e, g.version)
    /\ {e.source, e.target} \subseteq g.nodes
    /\ e.source # e.target
    /\ e.kind = "account_fallback" => {e.source, e.target} \subseteq Account
    /\ workflowEdgeChannelScope(e, g)
    /\ workflowEdgeFallbackPolicy(e, g.version)

validateGraph(g) ==
    /\ \A e \in g.edges : normalizeWorkflowEdge(e, g)
    /\ \A e, d \in g.edges : e.source = d.source /\ e.target = d.target => e = d

(* Flow edges run from an earlier column to a later one, which is what     *)
(* makes the flow acyclic: the count of the topological sort never fails.  *)
buildWorkflowTopology(g) == \A e \in Flows(g) : STAGE[Kind[e.source]] < STAGE[Kind[e.target]]

-----------------------------------------------------------------------------
(* The server: compilation, for one origin channel at a time.              *)

edgeAppliesToChannel(e, c) == e.scope = {} \/ c \in e.scope

Targets(g, c, n) == {e.target : e \in {d \in Flows(g) : d.source = n /\ edgeAppliesToChannel(d, c)}}

RECURSIVE ordinaryAccountNodes(_, _, _)
ordinaryAccountNodes(g, c, n) ==
    IF Kind[n] = "account" THEN {n}
    ELSE UNION {ordinaryAccountNodes(g, c, t) : t \in Targets(g, c, n)}

fallbackEdgesUnscoped(g, c) == Fallbacks(g)

fallbackEdges(g, c) == {e \in Fallbacks(g) : c \in e.scope}

(* Linear, acyclic, starting at an account the channel reaches directly    *)
(* and leading to none of those.                                           *)
fallbackSuccessorsForChannel(g, c) ==
    LET edges == fallbackEdges(g, c)
        ordinary == ordinaryAccountNodes(g, c, c)
        predecessors == {e.target : e \in edges}
    IN  /\ \A e, d \in edges : e # d => e.source # d.source /\ e.target # d.target
        /\ ~ \E S \in (SUBSET predecessors) \ {{}} :
               \A n \in S : \E e \in edges : e.source = n /\ e.target \in S
        /\ \A e \in edges : e.target \notin ordinary /\ e.source \in ordinary \cup predecessors

RECURSIVE accountChain(_, _, _)
accountChain(g, c, a) ==
    LET next == {e \in fallbackEdges(g, c) : e.source = a}
    IN  IF next = {} THEN <<a>>
        ELSE LET e == CHOOSE e \in next : TRUE IN <<a>> \o accountChain(g, c, e.target)

FallbackOn(g, c, a) ==
    UNION {IF e.policy = {} THEN LEGACY_POLICY ELSE e.policy :
             e \in {d \in fallbackEdges(g, c) : d.source = a}}

OutputTargets(g, c, a) == Targets(g, c, a) \cap Output

RECURSIVE walkWorkflowPaths(_, _, _, _)
walkWorkflowPaths(g, c, n, lineage) ==
    LET next == Append(lineage, n)
        outputs == OutputTargets(g, c, n)
    IN  CASE Kind[n] # "account" -> UNION {walkWorkflowPaths(g, c, t, next) : t \in Targets(g, c, n)}
          [] outputs = {} -> {next}
          [] OTHER -> {Append(next, t) : t \in outputs}

Last(kinds, nodes) == LET i == CHOOSE i \in DOMAIN nodes :
                               /\ Kind[nodes[i]] = kinds
                               /\ \A j \in DOMAIN nodes : Kind[nodes[j]] = kinds => j <= i
                      IN  nodes[i]

(* What a path trades with: the resource of each kind on it, the last one  *)
(* where a kind occurs more than once (the accounts before the candidate). *)
compiledEffectiveConfiguration(g, nodes) ==
    [k \in {Kind[nodes[i]] : i \in DOMAIN nodes} |-> <<Last(k, nodes), g.resource[Last(k, nodes)]>>]

compileTerminalLineage(g, c, lineage) ==
    LET at == CHOOSE i \in DOMAIN lineage : Kind[lineage[i]] = "account"
        chain == accountChain(g, c, lineage[at])
        NodesAt(r) == SubSeq(lineage, 1, at - 1) \o SubSeq(chain, 1, r + 1)
                        \o SubSeq(lineage, at + 1, Len(lineage))
    IN  IF REQUIRED_EXECUTION_KINDS \subseteq {Kind[lineage[i]] : i \in DOMAIN lineage}
        THEN {[channel |-> c, account |-> chain[r + 1], group |-> <<c, lineage>>, rank |-> r,
               fallbackOn |-> FallbackOn(g, c, chain[r + 1]), nodeIds |-> NodesAt(r),
               configuration |-> compiledEffectiveConfiguration(g, NodesAt(r)),
               enabled |-> chain[r + 1] \in ready] : r \in 0 .. Len(chain) - 1}
        ELSE {}

Channels(g) == g.nodes \cap Channel

compileWorkflow(g) ==
    UNION {compileTerminalLineage(g, cl[1], cl[2]) :
             cl \in UNION {{<<c, l>> : l \in walkWorkflowPaths(g, c, c, <<>>)} : c \in Channels(g)}}

assertConsistentTelegramOutputs(paths) ==
    \A p, q \in paths :
        p.channel = q.channel =>
            LET Forwards(x) == {Mode[n] : n \in {x.nodeIds[i] : i \in DOMAIN x.nodeIds} \cap Output}
                                 \cap {"telegram_xml", "telegram_original"}
            IN  Cardinality(Forwards(p) \cup Forwards(q)) <= 1

(* Everything that makes the server refuse the graph.                      *)
Compiles(g, paths) ==
    /\ validateGraph(g)
    /\ buildWorkflowTopology(g)
    /\ \A c \in Channels(g) :
         /\ fallbackSuccessorsForChannel(g, c)
         /\ \A a \in ordinaryAccountNodes(g, c, c) : Cardinality(OutputTargets(g, c, a)) <= 1
    /\ assertConsistentTelegramOutputs(paths)

-----------------------------------------------------------------------------
(* The server: impact and activation.                                      *)

pathIdentity(p) == <<p.channel, p.account, p.nodeIds>>

pathDefinition(p) == <<p.enabled, p.configuration, p.fallbackOn>>

workflowImpact(current, candidate) ==
    \/ {pathIdentity(p) : p \in current} # {pathIdentity(p) : p \in candidate}
    \/ \E p \in current, q \in candidate :
         pathIdentity(p) = pathIdentity(q) /\ pathDefinition(p) # pathDefinition(q)

(* saveWorkflowRevision: the graph and the paths compiled from it become   *)
(* the active ones.  The builder sends the confirmation phrase exactly     *)
(* when the impact asks for it, so the phrase is no obstacle here.         *)
activateGraph(g) ==
    /\ Cardinality(g.edges) <= MaxEdges
    /\ LET paths == compileWorkflow(g)
       IN  Compiles(g, paths) /\ compiled' = paths
    /\ graph' = g
    /\ UNCHANGED <<ready, changed>>

-----------------------------------------------------------------------------
(* The builder.                                                            *)

Edge(s, t, k, scope, policy) ==
    [source |-> s, target |-> t, kind |-> k, scope |-> scope, policy |-> policy]

Connected(g, s, t) == \E e \in g.edges : e.source = s /\ e.target = t

RECURSIVE reached(_, _, _)
reached(g, c, found) ==
    LET next == found \cup {e.target : e \in {d \in g.edges : d.source \in found /\ edgeAppliesToChannel(d, c)}}
    IN  IF next = found THEN found ELSE reached(g, c, next)

channelNodesReachingSource(g, s) == {c \in Channels(g) : s \in reached(g, c, {c})}

WithKinds(g) == {[e EXCEPT !.kind = IF @ = "none" THEN "flow" ELSE @] : e \in g.edges}

(* A flow edge drawn between two nodes.  With several origin channels a    *)
(* dialog asks for the scope; with one the edge is scoped to it.  The edge *)
(* declares its kind in a graph of version 2 only, so that in a graph of   *)
(* version 3 the server refuses the edge drawn without the dialog.         *)
connectNodes(s, t) ==
    /\ {s, t} \subseteq graph.nodes
    /\ STAGE[Kind[s]] < STAGE[Kind[t]]
    /\ ~ Connected(graph, s, t)
    /\ LET channels == channelNodesReachingSource(graph, s)
           edges == IF graph.version = 2 THEN WithKinds(graph) ELSE graph.edges
           kind == IF graph.version = 2 THEN "flow" ELSE "none"
       IN  /\ Cardinality(channels) <= 1
           /\ activateGraph([graph EXCEPT !.edges = edges \cup {Edge(s, t, kind, channels, {})}])

(* The routing dialog, for a new edge and for one that exists.             *)
saveConnectionRouting(s, t, scope) ==
    LET channels == channelNodesReachingSource(graph, s)
        edges == IF graph.version >= 2 THEN WithKinds(graph) ELSE graph.edges
        kind == IF graph.version >= 2 THEN "flow" ELSE "none"
        old == {e \in edges : e.source = s /\ e.target = t}
    IN  /\ {s, t} \subseteq graph.nodes
        /\ STAGE[Kind[s]] < STAGE[Kind[t]]
        /\ Cardinality(channels) > 1
        /\ scope \subseteq channels
        /\ activateGraph([graph EXCEPT !.edges =
               IF old = {} THEN edges \cup {Edge(s, t, kind, scope, {})}
               ELSE (edges \ old) \cup {[e EXCEPT !.scope = scope] : e \in old}])

upgradeWorkflowGraphForFallbackPolicy(g) ==
    [g EXCEPT !.version = 3,
              !.edges = {[e EXCEPT !.policy = IF e.kind = "account_fallback" /\ @ = {} THEN LEGACY_POLICY ELSE @] :
                            e \in WithKinds(g)}]

RECURSIVE fallbackChainEdges(_, _, _)
fallbackChainEdges(g, origin, selected) ==
    LET accounts == UNION {{e.source, e.target} : e \in selected}
        more == {e \in Fallbacks(g) : e.scope \cap origin.scope # {} /\ {e.source, e.target} \cap accounts # {}}
    IN  IF more \subseteq selected THEN selected ELSE fallbackChainEdges(g, origin, selected \cup more)

(* The fallback dialog: a new or an existing edge between two accounts,    *)
(* its channels, its reasons, and whether these go to the whole chain.     *)
saveFallbackPolicy(s, t, scope, policy, applyToChain) ==
    LET channels == channelNodesReachingSource(graph, s)
        g == upgradeWorkflowGraphForFallbackPolicy(graph)
        edge == Edge(s, t, "account_fallback", scope, policy)
        h == [g EXCEPT !.edges = {e \in @ : ~ (e.source = s /\ e.target = t)} \cup {edge}]
        reach == IF applyToChain THEN fallbackChainEdges(h, edge, {edge}) ELSE {edge}
    IN  /\ {s, t} \subseteq graph.nodes \cap Account
        /\ s # t
        /\ channels # {}
        /\ scope # {} /\ scope \subseteq channels
        /\ activateGraph([h EXCEPT !.edges = (@ \ reach) \cup {[e EXCEPT !.policy = policy] : e \in reach}])

removeEdge(e) == activateGraph([graph EXCEPT !.edges = @ \ {e}])

deleteNode(n) ==
    /\ n \in graph.nodes \cap Placeable
    /\ activateGraph([graph EXCEPT !.nodes = @ \ {n},
                                   !.edges = {e \in @ : n \notin {e.source, e.target}}])

addExistingResource(n) ==
    /\ n \in Placeable \ graph.nodes
    /\ activateGraph([graph EXCEPT !.nodes = @ \cup {n}])

(* A node takes another published version of its resource.                 *)
saveResource(n) ==
    /\ n \in graph.nodes \cap Revisable
    /\ activateGraph([graph EXCEPT !.resource[n] = 3 - @])

(* An account becomes ready, or is disabled, between two activations.      *)
accountChanges(a) ==
    /\ changed < MaxReadinessChanges
    /\ changed' = changed + 1
    /\ ready' = IF a \in ready THEN ready \ {a} ELSE ready \cup {a}
    /\ UNCHANGED <<graph, compiled>>

-----------------------------------------------------------------------------
GraphInit ==
    /\ ready = Account
    /\ graph \in {g \in Drawn : Compiles(g, compileWorkflow(g))}
    /\ compiled = compileWorkflow(graph)
    /\ changed = 0

GraphNext ==
    \/ \E j \in Joints : connectNodes(j[1], j[2])
    \/ \E j \in Joints, scope \in SUBSET Channel : saveConnectionRouting(j[1], j[2], scope)
    \/ \E j \in Joints, scope \in SUBSET Channel,
          policy \in {LEGACY_POLICY, RECOMMENDED_POLICY}, whole \in BOOLEAN :
            saveFallbackPolicy(j[1], j[2], scope, policy, whole)
    \/ \E e \in graph.edges : <<e.source, e.target>> \in Joints /\ removeEdge(e)
    \/ \E n \in Placeable : deleteNode(n) \/ addExistingResource(n)
    \/ \E n \in Revisable : saveResource(n)
    \/ \E a \in Account \cap Revisable : accountChanges(a)

GraphSpec == GraphInit /\ [][GraphNext]_graphVars

-----------------------------------------------------------------------------
GraphTypeOK ==
    /\ graph.version \in 1 .. 3
    /\ graph.nodes \subseteq Node
    /\ graph.resource \in [Node -> {1, 2}]
    /\ \A e \in graph.edges : e.source \in Node /\ e.target \in Node /\ e.scope \subseteq Channel
    /\ ready \subseteq Account
    /\ changed \in 0 .. MaxReadinessChanges

(* The lineages drawn on the canvas, said without walking it: a set of     *)
(* nodes, one account among them, whose neighbours in column order are     *)
(* joined by an edge that applies to the channel.                          *)
Between(L, m, n) == {x \in L : STAGE[Kind[m]] < STAGE[Kind[x]] /\ STAGE[Kind[x]] < STAGE[Kind[n]]}
DrawnLineage(g, c, L) ==
    /\ \A m, n \in L : m # n => Kind[m] # Kind[n]
    /\ \A m, n \in L : STAGE[Kind[m]] < STAGE[Kind[n]] /\ Between(L, m, n) = {} =>
           \E e \in Flows(g) : e.source = m /\ e.target = n /\ (e.scope = {} \/ c \in e.scope)
    /\ \A a \in L \cap Account :
           (\E e \in Flows(g) : e.source = a /\ Kind[e.target] = "output" /\ (e.scope = {} \/ c \in e.scope))
               => L \cap Output # {}

Lineages(g, c) ==
    {L \in {{c} \cup M \cup {a} \cup O : M \in SUBSET (g.nodes \ (Channel \cup Account \cup Output)),
                                         a \in g.nodes \cap Account,
                                         O \in {{}} \cup {{o} : o \in g.nodes \cap Output}} :
        /\ REQUIRED_EXECUTION_KINDS \subseteq {Kind[n] : n \in L}
        /\ DrawnLineage(g, c, L)}

(* The paths the server stores are the ones the canvas shows.  For every   *)
(* channel the primary paths are exactly the drawn lineages that contain   *)
(* every required kind; behind each of them stand, in order and with the   *)
(* reasons written on the edges, the accounts of the fallback chain drawn  *)
(* for that channel; and no account takes two places for one channel.      *)
CompiledAsDrawn ==
    LET Range(s) == {s[i] : i \in DOMAIN s}
    IN  /\ \A c \in Channels(graph) :
             {Range(p.nodeIds) : p \in {q \in compiled : q.channel = c /\ q.rank = 0}} = Lineages(graph, c)
        /\ \A p \in compiled :
             LET drawn == {e \in graph.edges : /\ e.kind = "account_fallback"
                                               /\ e.source = p.account /\ p.channel \in e.scope}
                 behind == {q \in compiled : q.group = p.group /\ q.rank = p.rank + 1}
             IN  /\ {q.account : q \in behind} = {e.target : e \in drawn}
                 /\ p.fallbackOn = UNION {IF e.policy = {} THEN {"SYMBOL_UNAVAILABLE"} ELSE e.policy : e \in drawn}
                 /\ p.rank > 0 => \E q \in compiled : q.group = p.group /\ q.rank = p.rank - 1
        /\ \A p, q \in compiled :
             p.channel = q.channel /\ p.account = q.account => p.rank = q.rank

(* What the dispatcher acts on: for every channel, the candidates in order *)
(* with their configuration, their reasons and whether they are enabled.   *)
Routes(paths) ==
    {{[channel |-> p.channel, rank |-> p.rank, account |-> p.account, configuration |-> p.configuration,
       fallbackOn |-> p.fallbackOn, enabled |-> p.enabled] : p \in {q \in paths : q.group = k}} :
          k \in {q.group : q \in paths}}

(* An activation that asks for no confirmation changes nothing that is     *)
(* traded: the routes, their order, reasons, configuration and enablement  *)
(* are those of the revision before it.                                    *)
UnconfirmedEditsAreInert ==
    ~ workflowImpact(compiled, compiled') => Routes(compiled) = Routes(compiled')

Own(paths, c) == {{[q EXCEPT !.enabled = TRUE] : q \in r} : r \in Routes({p \in paths : p.channel = c})}

EditedElsewhere(g, h, c) ==
    /\ g.nodes = h.nodes
    /\ g.resource = h.resource
    /\ \A e \in (WithKinds(g) \ WithKinds(h)) \cup (WithKinds(h) \ WithKinds(g)) : e.scope # {} /\ c \notin e.scope

(* Channels are isolated from one another: an edit of edges that are       *)
(* scoped to other channels leaves a channel's routes as they were, apart  *)
(* from the enablement that every activation reads afresh.                 *)
ChannelsAreIsolated ==
    \A c \in Channels(graph) \cap Channels(graph') :
        EditedElsewhere(graph, graph', c) => Own(compiled, c) = Own(compiled', c)
=============================================================================
