------------------------------ MODULE MCTrading ------------------------------
(***************************************************************************)
(* What is decided before an order exists: the parsed signal, the workflow *)
(* with its revisions, the runtime switches, the catalogue of contracts,   *)
(* strategies and routes, and the accounts with their credentials. The     *)
(* components share no variable, so one is explored at a time: part never  *)
(* changes.                                                                *)
(***************************************************************************)
EXTENDS SignalParser, WorkflowGraph

CONSTANTS Parts, Family, MaxVersions, Tab, HistoryLimit, MaxRevisions, MaxDrafts,
    MaxSpent, Route, Setting, MaxInterruptions, MaxRouteChanges, Asked, MaxRequests,
    Client, Versions, Schema, Strategy, TradedAccount, Definition, MaxChanges, Key,
    OwnerOf, Granted, MaxAccountRequests, MaxFailures, MaxDeaths

VARIABLES
    part,
    resource, revisions, active, undo, redo, draft, tab, versionsSpent,
    enabled, unfit, setting, published, phase, toPublish, made, revision, interruptions,
    routeChanges,
    row, dbq, act, fenced, runtimeLock, entries, stopped, overlapped, asked,
    contract, schema, strategy, account, route, intent, pending, changes,
    acct, stored, candidate, exposure, creating, doing, killWaits, epochHolds, spent

Edits == INSTANCE WorkflowRevisions WITH spent <- versionsSpent
Taken == INSTANCE LegacyRoutes WITH deaths <- interruptions, changes <- routeChanges,
    pending <- toPublish, MaxDeaths <- MaxInterruptions, MaxChanges <- MaxRouteChanges

Control == INSTANCE RuntimeControl
Records == INSTANCE Catalogue WITH Account <- TradedAccount
Keys == INSTANCE Accounts WITH MaxRequests <- MaxAccountRequests

(* Two messages, the answers a model may give and the schemas in force.    *)
Clause(label, numbers) == [label |-> label, numbers |-> numbers]
MCTexts ==
    {[clauses |-> <<Clause("none", {4}), Clause("entry", {2}), Clause("stop", {1}),
                    Clause("target", {3, 4})>>,
      actions |-> {"LONG"}, pairs |-> {"BTC"}, byMarket |-> FALSE],
     [clauses |-> <<Clause("averaging", {2, 3}), Clause("stop", {4}), Clause("target", {1})>>,
      actions |-> {"SHORT"}, pairs |-> {"BTC"}, byMarket |-> TRUE]}

Span(a, b) == [min |-> a, max |-> b]
One(a) == Span(a, a)
MCAnswers ==
    [action : {"LONG", "SHORT"}, pair : {"BTC"}, type : {"LIMIT"},
     entry : {{}, {One(2)}, {Span(2, 3)}, {Span(3, 2)}},
     targets : {<<One(3), One(4)>>, <<One(4), One(3)>>, <<One(3)>>, <<One(1)>>, <<Span(3, 4)>>,
                <<>>},
     stop : {1, 4}, extra : {"absent"}]
    \cup [action : {"LONG"}, pair : {"BTC"}, type : {"MARKET"}, entry : {{}},
          targets : {<<One(3), One(4)>>}, stop : {1}, extra : {"absent", "good", "bad"}]
    \cup {Malformed}

Contract == [items |-> 1..2, field |-> "optional",
             geometry |-> {"stopOnLossSide", "targetsOnProfitSide", "orderedTargets"},
             grounding |-> {"entry", "target", "stop", "action", "pair"}]

Dynamic == [parser |-> "dynamic", mode |-> "optional_range", types |-> {}, field |-> "required",
            shape |-> "range", items |-> 1..3, geometry |-> {}, grounding |-> {},
            contract |-> {Contract}]

MCDefinitions ==
    {Dynamic, [Dynamic EXCEPT !.mode = "typed"],
     [Dynamic EXCEPT !.contract = {}, !.geometry = Contract.geometry, !.grounding = Contract.grounding],
     [Dynamic EXCEPT !.mode = "typed", !.types = {"MARKET", "LIMIT"}, !.field = "none"]}
    \cup {[parser |-> p] : p \in {"standard", "loma", "cryptodanielvip", "speculantca"}}

MCUsages == {-1, 3}
OneCallEach == <<1, 1>>

(* A graph of two channels, a chain of resources, three accounts and an    *)
(* output; the joints an editor works on let channels share or split       *)
(* accounts and accounts fall back on one another.                         *)
MCKind ==
    [c1 |-> "channel", c2 |-> "channel", f |-> "regex", p |-> "parser", s |-> "schema",
     k |-> "contract", t |-> "strategy", z |-> "sizing", a1 |-> "account", a2 |-> "account",
     a3 |-> "account", o1 |-> "output", o2 |-> "output"]

MCNode == DOMAIN MCKind
MCMode == [n \in MCNode |-> IF n = "o1" THEN "telegram_xml" ELSE "telegram_original"]
FlowEdge(a, b) == Edge(a, b, "none", {}, {})
MCDrawn ==
    {[version |-> 1, nodes |-> MCNode \ {"o2", "f"}, resource |-> [n \in MCNode |-> 1],
      edges |-> {FlowEdge("c1", "p"), FlowEdge("c2", "p"), FlowEdge("p", "s"),
                 FlowEdge("s", "k"), FlowEdge("k", "t"), FlowEdge("t", "z"),
                 FlowEdge("z", "a1")}]}

MCJoints == {<<"c2", "p">>, <<"z", "a2">>, <<"a1", "a2">>, <<"a2", "a3">>}

TwoLegacyRoutes == {<<"c1", "a">>, <<"c2", "b">>}

(* What the dashboard, an agent and the engine may ask of the runtime row. *)
EveryRequest ==
    [web |-> {"execute", "pause", "live", "unlive", "kill", "release", "flatten", "rotate",
              "reset"},
     mcp |-> {"kill", "release", "flatten"}, engine |-> {"drift"}]

PauseAndFlatten == [web |-> {"pause", "unlive"}, mcp |-> {"flatten"}, engine |-> {}]

TwoKeysAndAStranger == [k1 |-> "a", k2 |-> "a", k3 |-> "b"]

-----------------------------------------------------------------------------
\* The variables of a component that is not explored.
Unused == "unused"

revisionsVars == <<resource, revisions, active, undo, redo, draft, tab, versionsSpent>>
legacyVars == <<enabled, unfit, setting, published, phase, toPublish, made, revision,
    interruptions, routeChanges>>

runtimeVars == <<row, dbq, act, fenced, runtimeLock, entries, stopped, overlapped,
    asked>>

catalogueVars == <<contract, schema, strategy, account, route, intent, pending,
    changes>>

accountsVars == <<acct, stored, candidate, exposure, creating, doing, killWaits, epochHolds,
    spent>>

TradingInit ==
    /\ part \in Parts
    /\ IF part = "parser" THEN Init
       ELSE job = Unused /\ daily = Unused /\ reservations = Unused /\ day = Unused /\
            upsets = Unused
    /\ IF part = "graph" THEN GraphInit
       ELSE graph = Unused /\ compiled = Unused /\ ready = Unused /\ changed = Unused
    /\ IF part = "revisions" THEN Edits!Init
       ELSE resource = Unused /\ revisions = Unused /\ active = Unused /\ undo = Unused /\
            redo = Unused /\ draft = Unused /\ tab = Unused /\ versionsSpent = Unused
    /\ IF part = "legacy" THEN Taken!Init
       ELSE enabled = Unused /\ unfit = Unused /\ setting = Unused /\
            published = Unused /\ phase = Unused /\ toPublish = Unused /\ made = Unused /\
            revision = Unused /\ interruptions = Unused /\ routeChanges = Unused
    /\ IF part = "runtime" THEN Control!Init
       ELSE row = Unused /\ dbq = Unused /\ act = Unused /\ fenced = Unused /\
            runtimeLock = Unused /\ entries = Unused /\ stopped = Unused /\
            overlapped = Unused /\ asked = Unused
    /\ IF part = "catalogue" THEN Records!Init
       ELSE contract = Unused /\ schema = Unused /\ strategy = Unused /\
            account = Unused /\ route = Unused /\ intent = Unused /\ pending = Unused /\
            changes = Unused
    /\ IF part = "accounts" THEN Keys!Init
       ELSE acct = Unused /\ stored = Unused /\ candidate = Unused /\ exposure = Unused /\
            creating = Unused /\ doing = Unused /\ killWaits = Unused /\ epochHolds = Unused /\ spent = Unused

TradingNext ==
    \/ /\ part = "parser" /\ Next
       /\ UNCHANGED <<part, graphVars, revisionsVars, legacyVars, runtimeVars,
                      catalogueVars, accountsVars>>
    \/ /\ part = "graph" /\ GraphNext
       /\ UNCHANGED <<part, parserVars, revisionsVars, legacyVars, runtimeVars,
                      catalogueVars, accountsVars>>
    \/ /\ part = "revisions" /\ Edits!Next
       /\ UNCHANGED <<part, parserVars, graphVars, legacyVars, runtimeVars,
                      catalogueVars, accountsVars>>
    \/ /\ part = "legacy" /\ Taken!Next
       /\ UNCHANGED <<part, parserVars, graphVars, revisionsVars, runtimeVars,
                      catalogueVars, accountsVars>>
    \/ /\ part = "runtime" /\ Control!Next
       /\ UNCHANGED <<part, parserVars, graphVars, revisionsVars, legacyVars,
                      catalogueVars, accountsVars>>
    \/ /\ part = "catalogue" /\ Records!Next
       /\ UNCHANGED <<part, parserVars, graphVars, revisionsVars, legacyVars,
                      runtimeVars, accountsVars>>
    \/ /\ part = "accounts" /\ Keys!Next
       /\ UNCHANGED <<part, parserVars, graphVars, revisionsVars, legacyVars,
                      runtimeVars, catalogueVars>>

tradingVars == <<part, parserVars, graphVars, revisionsVars, legacyVars, runtimeVars,
    catalogueVars, accountsVars>>

TradingSpec == TradingInit /\ [][TradingNext]_tradingVars

-----------------------------------------------------------------------------
(* An accepted signal says what its message says, and the model calls that *)
(* produced it stay within the day's reserved budget (signal_schema.ts,    *)
(* reserveAiUsage of db.ts).                                               *)
SignalsAreMeant ==
    part = "parser" => /\ TypeOK
                       /\ AcceptedSignalsAreMeant
                       /\ BudgetHolds

(* A stop outlasts whoever asks for more meanwhile, except a request that  *)
(* lowers another switch and had read the row before                       *)
(* (updateTradingRuntimeState); an enabled account trades with verified    *)
(* credentials of the account it is bound to, which change only while      *)
(* nothing of it is at the exchange (rotateCredentials).                   *)
AuthorityHolds ==
    /\ [](part = "runtime" => Control!TypeOK /\ Control!StopsPrevail)
    /\ [](part = "accounts" => Keys!TypeOK /\ Keys!EnabledIsBound)
    /\ [][part = "accounts" => Keys!KeysChangeFlat]_tradingVars

(* What an enabled route needs stays in place under it, and a trade keeps  *)
(* the strategy version it was made with (trading_repository.ts).          *)
CatalogueHolds ==
    part = "catalogue" => /\ Records!TypeOK
                          /\ Records!RoutesKeepTheirParts
                          /\ Records!TradesKeepTheirStrategy

(* A compiled workflow does what its graph shows, a channel's routes       *)
(* change only with its own edges, and what needs no confirmation changes  *)
(* nothing that is traded; no activated edit is lost to another editor, a  *)
(* revision never refers to what is gone; legacy routes are taken over as  *)
(* a whole (workflow_repository.ts, ui_workflow_drafts.ts).                *)
WorkflowsAreAsActivated ==
    /\ [](part = "graph" => GraphTypeOK /\ CompiledAsDrawn)
    /\ [][part = "graph" => /\ UnconfirmedEditsAreInert
                            /\ ChannelsAreIsolated]_tradingVars
    /\ [](part = "revisions" => Edits!TypeOK /\ Edits!RevisionsStand)
    /\ [][part = "revisions" => Edits!NoActivatedEditIsLost]_tradingVars
    /\ [](part = "legacy" => Taken!TypeOK /\ Taken!MigrationIsWhole)

(* An engaged kill switch stays engaged until it is released               *)
(* (docs/TRADING_GUIDE.md, "Die Sperre bleibt bestehen";                   *)
(* emergencyFlatten of trading_web_control.ts).                            *)
StopsHold == part = "runtime" => Control!StopsHold
=============================================================================
