----------------------------- MODULE Catalogue -----------------------------
(***************************************************************************)
(* The trading catalogue: versioned signal contracts, the signal schemas   *)
(* that use them, versioned strategies, the route of a channel and the     *)
(* account it trades on (trading_repository.ts).  Dashboard and agent      *)
(* bridge change it concurrently.  Some operations are one transaction;    *)
(* others check first and write in a later database call, and anything may *)
(* happen in between.  A message of the channel turns the route that is    *)
(* enabled at that moment into a trade intent.                             *)
(***************************************************************************)
EXTENDS Naturals, FiniteSets

CONSTANTS Client,      \* who changes the catalogue: dashboard, agent bridge
          Versions,    \* versions 1..n of the signal contract
          Schema, Strategy, Account, Definition,
          MaxChanges   \* completed changes

VARIABLES contract,    \* contract[v]: status and definition of version v
          schema,      \* schema[s]: state, contract version (0 is none)
          strategy,    \* strategy[t]: status, allowedSignalSchemas and the rest of its configuration
          account,     \* account[x]
          route,       \* the channel's route
          intent,      \* the channel's latest trade intent, with what it pinned
          pending,     \* pending[c]: what client c has checked and not yet written
          changes

catalogueVars == <<contract, schema, strategy, account, route, intent, pending, changes>>

NoStrategy == [status |-> "none", allowed |-> {}, rest |-> CHOOSE d \in Definition : TRUE]
NoRoute == [state |-> "none"]
NoIntent == [status |-> "none"]
Nothing == [op |-> "none"]

Init ==
  /\ contract = [v \in Versions |-> [status |-> "none", definition |-> CHOOSE d \in Definition : TRUE]]
  /\ schema = [s \in Schema |-> [state |-> "none", version |-> 0]]
  /\ strategy = [t \in Strategy |-> NoStrategy]
  /\ account \in [Account -> {"none", "ready"}]
  /\ route = NoRoute /\ intent = NoIntent
  /\ pending = [c \in Client |-> Nothing] /\ changes = 0

Checks(c, request) ==
  /\ pending[c] = Nothing /\ pending' = [pending EXCEPT ![c] = request]
  /\ UNCHANGED <<contract, schema, strategy, account, route, intent, changes>>

Free(c) == pending[c] = Nothing /\ UNCHANGED pending
Writes(c) == pending' = [pending EXCEPT ![c] = Nothing]
Counts == changes < MaxChanges /\ changes' = changes + 1

-----------------------------------------------------------------------------
(* Signal contracts.  Versions are numbered MAX + 1; when the last version *)
(* is deleted the contract goes with it and a new one starts at 1.         *)

Existing == {v \in Versions : contract[v].status # "none"}
NextVersion == IF Existing = {} THEN 1 ELSE 1 + CHOOSE v \in Existing : \A w \in Existing : w <= v
Adds(definition) ==
  /\ NextVersion \in Versions
  /\ contract' = [contract EXCEPT ![NextVersion] = [status |-> "draft", definition |-> definition]]
  /\ UNCHANGED <<schema, strategy, account, route, intent>> /\ Counts

SetsContract(v, status) ==
  /\ contract' = [contract EXCEPT ![v].status = status]
  /\ UNCHANGED <<schema, strategy, account, route, intent>> /\ Counts

createSignalContract(c, d) == Free(c) /\ Existing = {} /\ Adds(d)

createSignalContractDraftVersion(c, source) ==
  /\ Free(c) /\ source \in Existing
  /\ \A v \in Versions : contract[v].status # "draft"
  /\ Adds(contract[source].definition)

updateSignalContractDraft(c, v, base, d) ==
  /\ Free(c) /\ contract[v] = [status |-> "draft", definition |-> base] /\ d # base
  /\ contract' = [contract EXCEPT ![v].definition = d]
  /\ UNCHANGED <<schema, strategy, account, route, intent>> /\ Counts

publishSignalContractVersion(c, v) == Free(c) /\ contract[v].status = "draft" /\ SetsContract(v, "published")

archiveSignalContractVersion(c, v) ==
  /\ Free(c) /\ contract[v].status = "published"
  /\ \A s \in Schema : ~(schema[s].version = v /\ schema[s].state = "on")
  /\ SetsContract(v, "archived")

deleteSignalContractDraft(c, v) == Free(c) /\ contract[v].status = "draft" /\ SetsContract(v, "none")

deleteSignalContractVersion(c, v) ==
  /\ Free(c) /\ contract[v].status \in {"published", "archived"}
  /\ \A s \in Schema : schema[s].version # v
  /\ SetsContract(v, "none")

\* duplicateSignalContract reads its source and creates the copy later; the
\* model's other contract is the emptied one.
duplicateSignalContract(c, v) ==
  \/ v \in Existing /\ Checks(c, [op |-> "duplicate", definition |-> contract[v].definition])
  \/ /\ pending[c].op = "duplicate" /\ Writes(c)
     /\ Existing = {} /\ Adds(pending[c].definition)

-----------------------------------------------------------------------------
(* Signal schemas. *)

SetsSchema(s, state, v) ==
  /\ schema' = [schema EXCEPT ![s] = [state |-> state, version |-> v]]
  /\ UNCHANGED <<contract, strategy, account, route, intent>> /\ Counts

\* signalSchemaInput: a selected contract version must be published, as read
\* before the write.
signalSchemaInput(v) == v # 0 => contract[v].status = "published"

Routed(s) == route.state = "on" /\ s \in strategy[route.strategy].allowed
assertSignalSchemaNotActivelyRouted(s) == ~Routed(s)

createTradingSignalSchema(c, s, state, v) ==
  \/ signalSchemaInput(v) /\ Checks(c, [op |-> "createSchema", schema |-> s, state |-> state, version |-> v])
  \/ /\ pending[c] = [op |-> "createSchema", schema |-> s, state |-> state, version |-> v]
     /\ Writes(c) /\ schema[s].state = "none" /\ SetsSchema(s, state, v)

updateTradingSignalSchema(c, s, state, v) ==
  \/ /\ schema[s].state # "none" /\ signalSchemaInput(v)
     /\ Checks(c, [op |-> "updateSchema", schema |-> s, state |-> state, version |-> v])
  \/ /\ pending[c] = [op |-> "updateSchema", schema |-> s, state |-> state, version |-> v]
     /\ Writes(c) /\ schema[s].state # "none"
     /\ assertSignalSchemaNotActivelyRouted(s) /\ SetsSchema(s, state, v)

deleteTradingSignalSchema(c, s) ==
  /\ Free(c) /\ schema[s].state # "none" /\ assertSignalSchemaNotActivelyRouted(s)
  /\ SetsSchema(s, "none", 0)

-----------------------------------------------------------------------------
(* Strategies. *)

SetsStrategy(t, record) ==
  /\ strategy' = [strategy EXCEPT ![t] = record]
  /\ UNCHANGED <<contract, schema, account, route, intent>> /\ Counts

assertSignalSchemasAvailable(allowed) == \A s \in allowed : schema[s].state = "on"

createTradingStrategyDraft(c, t, allowed, d) ==
  /\ Free(c) /\ strategy[t].status = "none" /\ assertSignalSchemasAvailable(allowed)
  /\ SetsStrategy(t, [status |-> "draft", allowed |-> allowed, rest |-> d])

EditStrategy(t, allowed, d) == [op |-> "updateStrategy", strategy |-> t, allowed |-> allowed, rest |-> d]
EditableOnceMade(t) == strategy[t].status # "none"
Editable(t) == strategy[t].status = "draft"
updateTradingStrategyDraft(c, t, allowed, d) ==
  \/ assertSignalSchemasAvailable(allowed) /\ Checks(c, EditStrategy(t, allowed, d))
  \/ /\ pending[c] = EditStrategy(t, allowed, d) /\ Writes(c) /\ Editable(t)
     /\ SetsStrategy(t, [strategy[t] EXCEPT !.allowed = allowed, !.rest = d])

publishTradingStrategyVersion(c, t) ==
  \/ /\ strategy[t].status = "draft" /\ assertSignalSchemasAvailable(strategy[t].allowed)
     /\ Checks(c, [op |-> "publishStrategy", strategy |-> t])
  \/ /\ pending[c] = [op |-> "publishStrategy", strategy |-> t]
     /\ Writes(c) /\ strategy[t].status = "draft"
     /\ SetsStrategy(t, [strategy[t] EXCEPT !.status = "published"])

archiveTradingStrategyVersion(c, t) ==
  /\ Free(c) /\ strategy[t].status = "published"
  /\ ~(route.state = "on" /\ route.strategy = t)
  /\ SetsStrategy(t, [strategy[t] EXCEPT !.status = "archived"])

deleteTradingStrategyVersion(c, t) ==
  /\ Free(c) /\ strategy[t].status # "none"
  /\ route.state # "none" => route.strategy # t
  /\ intent.status # "none" => intent.strategy # t
  /\ SetsStrategy(t, NoStrategy)

-----------------------------------------------------------------------------
(* Accounts, the route and the intents that follow from it. *)

SetsAccount(x, state) ==
  /\ account' = [account EXCEPT ![x] = state]
  /\ UNCHANGED <<contract, schema, strategy, route, intent>> /\ Counts

createTradingAccount(c, x) == Free(c) /\ account[x] = "none" /\ SetsAccount(x, "ready")
\* setAccountEnabled and verification, see module Accounts.
updateTradingAccountState(c, x, state) ==
  /\ Free(c) /\ account[x] \in {"ready", "down"} /\ state \in {"ready", "down"} /\ state # account[x]
  /\ SetsAccount(x, state)

\* Retained history keeps the row as a retired one (foreign keys).
deleteTradingAccount(c, x) ==
  /\ Free(c) /\ account[x] \in {"ready", "down"}
  /\ route.state # "none" => route.account # x
  /\ intent.status = "active" => intent.account # x
  /\ SetsAccount(x, IF intent.status # "none" /\ intent.account = x THEN "retired" ELSE "none")

setTradingRoute(c, t, x, state) ==
  /\ Free(c) /\ strategy[t].status = "published" /\ assertSignalSchemasAvailable(strategy[t].allowed)
  /\ account[x] # "none" /\ (state = "on" => account[x] = "ready")
  /\ route' = [state |-> state, strategy |-> t, account |-> x]
  /\ route' # route
  /\ UNCHANGED <<contract, schema, strategy, account, intent>> /\ Counts

deleteTradingRoute(c) ==
  \/ route.state # "none" /\ intent.status # "active" /\ Checks(c, [op |-> "deleteRoute"])
  \/ /\ pending[c].op = "deleteRoute" /\ Writes(c) /\ route' = NoRoute
     /\ UNCHANGED <<contract, schema, strategy, account, intent>> /\ Counts

\* What keeps an intent of the enabled route from being traded.
blockReason(s) ==
  \/ strategy[route.strategy].status # "published" \/ account[route.account] # "ready"
  \/ schema[s].state # "on"

\* The kill switch, the pause and the live switch may block it as well.
createTradingIntent(s) ==
  /\ route.state = "on" /\ intent.status # "active"
  /\ \E status \in {"blocked"} \cup (IF blockReason(s) THEN {} ELSE {"active"}) :
       intent' = [status |-> status, strategy |-> route.strategy, account |-> route.account,
                  pinned |-> [strategy[route.strategy] EXCEPT !.status = "published"]]
  /\ intent' # intent
  /\ UNCHANGED <<contract, schema, strategy, account, route, pending>> /\ Counts

tradeEnds ==
  /\ intent.status = "active" /\ intent' = [intent EXCEPT !.status = "completed"]
  /\ UNCHANGED <<contract, schema, strategy, account, route, pending, changes>>

\* A write found the row changed, or the process was stopped before it.
givesUp(c) ==
  /\ pending[c] # Nothing /\ pending' = [pending EXCEPT ![c] = Nothing]
  /\ UNCHANGED <<contract, schema, strategy, account, route, intent, changes>>

ContractStep(c) ==
  \/ \E d \in Definition : createSignalContract(c, d)
  \/ \E v \in Versions :
       \/ createSignalContractDraftVersion(c, v) \/ publishSignalContractVersion(c, v)
       \/ \E base, d \in Definition : updateSignalContractDraft(c, v, base, d)
       \/ archiveSignalContractVersion(c, v) \/ deleteSignalContractDraft(c, v)
       \/ deleteSignalContractVersion(c, v) \/ duplicateSignalContract(c, v)

ConfigurationStep(c) ==
  \/ \E s \in Schema : \E state \in {"on", "off"}, v \in {0} \cup Versions :
       createTradingSignalSchema(c, s, state, v) \/ updateTradingSignalSchema(c, s, state, v)
  \/ \E s \in Schema : deleteTradingSignalSchema(c, s)
  \/ \E t \in Strategy :
       \/ \E allowed \in SUBSET Schema \ {{}}, d \in Definition :
            createTradingStrategyDraft(c, t, allowed, d) \/ updateTradingStrategyDraft(c, t, allowed, d)
       \/ publishTradingStrategyVersion(c, t) \/ archiveTradingStrategyVersion(c, t)
       \/ deleteTradingStrategyVersion(c, t)
       \/ \E x \in Account, state \in {"on", "off"} : setTradingRoute(c, t, x, state)
  \/ deleteTradingRoute(c)
  \/ \E x \in Account : \/ createTradingAccount(c, x) \/ deleteTradingAccount(c, x)
                        \/ \E state \in {"ready", "down"} : updateTradingAccountState(c, x, state)

Next ==
  \/ \E c \in Client : ContractStep(c) \/ ConfigurationStep(c) \/ givesUp(c)
  \/ \E s \in Schema : createTradingIntent(s)
  \/ tradeEnds

Spec == Init /\ [][Next]_catalogueVars

-----------------------------------------------------------------------------
TypeOK ==
  /\ \A v \in Versions : contract[v].status \in {"none", "draft", "published", "archived"}
                         /\ contract[v].definition \in Definition
  /\ \A s \in Schema : schema[s].state \in {"none", "on", "off"} /\ schema[s].version \in {0} \cup Versions
  /\ \A t \in Strategy : strategy[t].status \in {"none", "draft", "published", "archived"}
                         /\ strategy[t].allowed \subseteq Schema
  /\ account \in [Account -> {"none", "ready", "down", "retired"}] /\ changes \in 0..MaxChanges

\* What an enabled route needs stays in place under it: its strategy version
\* published, every signal schema that version allows enabled, its account
\* not removed - although schemas, strategies and accounts are changed by
\* others whose checks and writes the route's own change may separate.
RoutesKeepTheirParts ==
  route.state = "on" =>
    /\ strategy[route.strategy].status = "published"
    /\ \A s \in strategy[route.strategy].allowed : schema[s].state = "on"
    /\ account[route.account] \in {"ready", "down"}

\* A trade keeps the strategy version it was made with, word for word, and
\* its account's row for as long as its history is kept.
TradesKeepTheirStrategy ==
  intent.status # "none" =>
    /\ strategy[intent.strategy].status \in {"published", "archived"}
    /\ [strategy[intent.strategy] EXCEPT !.status = "published"] = intent.pinned
    /\ account[intent.account] # "none"
=============================================================================
