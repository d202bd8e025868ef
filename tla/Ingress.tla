------------------------------- MODULE Ingress -------------------------------
(***************************************************************************)
(* Durable ingress: what happens to a Telegram message between the update  *)
(* that announces it and the outbox rows made from it                      *)
(* (incoming_work_repository.ts, and the parts of forwarder.ts that accept *)
(* a message, run its parser task and publish the results).                *)
(*                                                                         *)
(* One database call or transaction is one step, because db.ts serialises  *)
(* its callers.  The outbox itself appears only through what module        *)
(* Delivery promises of it: a claimed row is executed by one execution,    *)
(* which completes, fails, or is requeued after a crash.                   *)
(***************************************************************************)
EXTENDS Naturals, FiniteSets, TLAPS

CONSTANTS
    Messages,       \* Telegram messages of the watched channels
    NoAlbum,        \* AlbumOf[m] of a message outside any media group
    AlbumOf,        \* media_group_id of each message
    Revisions,      \* workflow revisions an operator may activate
    Legacy,         \* "no workflow active": the configuration file routes
    EligiblePlans,  \* plans of a revision that accept a message's content
    ContentOf,      \* the signal the parser finds in a message
    Limit,          \* rows a pump cycle classifies at most
    MaxUpsets       \* bound on crashes, failures, repeated announcements
                    \* and workflow changes together

ASSUME IngressAssumption == MaxUpsets \in Nat

Albums == {AlbumOf[m] : m \in Messages} \ {NoAlbum}
Plans == UNION {EligiblePlans[w][m] : w \in Revisions, m \in Messages}

\* Outbox rows by their deterministic identity (incoming_work_repository.ts).
Single(m) == <<"single", m>>
Child(m, p) == <<"plan", m, p>>
Output(m, p) == <<"output", m, p>>
Album(g) == <<"album", g>>
Parsing == {Single(m) : m \in Messages} \cup {Child(m, p) : m \in Messages, p \in Plans}
Tasks == Parsing \cup {Output(m, p) : m \in Messages, p \in Plans} \cup {Album(g) : g \in Albums}

VARIABLES
    active,     \* active workflow revision, or Legacy
    inbox,      \* incoming_messages.status
    work,       \* incoming_work.status
    pinned,     \* incoming_work.workflow_revision_id
    group,      \* incoming_album_groups.status
    parts,      \* incoming_album_groups.work_ids_json
    ripe,       \* albums whose ready_at has passed
    payload,    \* albumMessages of the album's outbox row
    pump,       \* where the pump is in listPending
    listed,     \* rows the pump read as pending and has not visited yet
    wake,       \* a pump cycle is requested or its timer is armed
    task,       \* pending_tasks.status
    stage,      \* progress of the execution of a parsing row
    signals,    \* rows of table signals, by the parsing row that saved them
    intents,    \* signals that have trade intents
    sent,       \* ghost: Telegram messages sent for a row
    pruned,     \* ghost: rows retention has deleted
    upsets

ingressVars == <<active, inbox, work, pinned, group, parts, ripe, payload>>
pumpVars == <<pump, listed, wake>>
taskVars == <<task, stage, signals, intents, sent, pruned>>
vars == <<ingressVars, pumpVars, taskVars, upsets>>

upset == upsets < MaxUpsets /\ upsets' = upsets + 1

MessageOf(t) == IF t[1] = "album" THEN payload[t[2]] ELSE {t[2]}
\* enqueueOutboxTask: ON CONFLICT(id) DO NOTHING.
Enqueued(T) == [t \in Tasks |-> IF t \in T /\ task[t] = "none" THEN "pending" ELSE task[t]]
InboxSet(M, status) == [m \in Messages |-> IF m \in M /\ inbox[m] # "none" THEN status ELSE inbox[m]]

-----------------------------------------------------------------------------
(* Accepting a message.                                                     *)

activateWorkflow(w) ==
    /\ w # active
    /\ upset
    /\ active' = w
    /\ UNCHANGED <<inbox, work, pinned, group, parts, ripe, payload, pumpVars, taskVars>>

\* Telegram may announce a message any number of times; only the first
\* announcement writes.  A message that an older release left in the inbox
\* without durable work is kept for review.
acceptIncomingMessage(m) ==
    /\ work[m] = "none"
    /\ pinned' = [pinned EXCEPT ![m] = active]
    /\ LET status == IF inbox[m] # "none" THEN "needs_review" ELSE "pending" IN
       /\ work' = [work EXCEPT ![m] = status]
       /\ inbox' = [inbox EXCEPT ![m] = IF status = "pending" THEN "received" ELSE status]
    /\ wake' = TRUE
    /\ UNCHANGED <<active, group, parts, ripe, payload, pump, listed, taskVars, upsets>>

\* A repeated announcement finds its row and only requests the pump.
announceAgain(m) ==
    /\ work[m] # "none"
    /\ ~wake
    /\ upset
    /\ wake' = TRUE
    /\ UNCHANGED <<ingressVars, pump, listed, taskVars>>

-----------------------------------------------------------------------------
(* Classifying accepted rows: each visit is one transaction.                *)

finishClassification(M, status) ==
    /\ work' = [m \in Messages |-> IF m \in M THEN status ELSE work[m]]
    /\ inbox' = InboxSet(M, status)

listPending ==
    /\ pump = "idle" /\ wake
    /\ LET pending == {m \in Messages : work[m] = "pending"} IN
       \E L \in SUBSET pending :
          /\ \/ L = pending
             \/ Cardinality(L) = Limit
          /\ Cardinality(L) <= Limit
          /\ listed' = L
    /\ wake' = FALSE
    /\ pump' = "classify"
    /\ UNCHANGED <<ingressVars, taskVars, upsets>>

\* Mutant: the plans of the revision active now, not of the pinned one.
routeByActiveWorkflow(m) ==
    LET plans == EligiblePlans[active][m] IN
    /\ active # Legacy
    /\ task' = Enqueued({Child(m, p) : p \in plans})
    /\ finishClassification({m}, IF plans = {} THEN "filtered" ELSE "routed")
    /\ UNCHANGED <<group, parts, ripe>>

routeWorkflowPlans(m) ==
    LET plans == EligiblePlans[pinned[m]][m] IN
    /\ pinned[m] # Legacy
    /\ task' = Enqueued({Child(m, p) : p \in plans})
    /\ finishClassification({m}, IF plans = {} THEN "filtered" ELSE "routed")
    /\ UNCHANGED <<group, parts, ripe>>

\* acceptsLegacySource and the forwarding switch may refuse any message.
legacyFiltered(m) ==
    /\ pinned[m] = Legacy
    /\ finishClassification({m}, "filtered")
    /\ UNCHANGED <<task, group, parts, ripe>>

\* Mutant: a late part reopens a closed album.
joinAnyAlbum(m) ==
    LET g == AlbumOf[m] IN
    /\ parts' = [parts EXCEPT ![g] = @ \cup {m}]
    /\ group' = [group EXCEPT ![g] = "waiting"]
    /\ ripe' = ripe \ {g}
    /\ finishClassification({m}, "album_waiting")

\* A part joins its waiting album and postpones the closing; a part that
\* comes after the closing is kept for review.
addAlbumPart(m) ==
    LET g == AlbumOf[m] IN
    \/ /\ group[g] = "completed"
       /\ finishClassification({m}, "needs_review")
       /\ UNCHANGED <<group, parts, ripe>>
    \/ /\ group[g] # "completed"
       /\ parts' = [parts EXCEPT ![g] = @ \cup {m}]
       /\ group' = [group EXCEPT ![g] = "waiting"]
       /\ ripe' = ripe \ {g}
       /\ finishClassification({m}, "album_waiting")

routeLegacyAlbum(m) ==
    /\ pinned[m] = Legacy /\ AlbumOf[m] # NoAlbum
    /\ addAlbumPart(m)
    /\ UNCHANGED task

routeSingle(m) ==
    /\ pinned[m] = Legacy /\ AlbumOf[m] = NoAlbum
    /\ task' = Enqueued({Single(m)})
    /\ finishClassification({m}, "routed")
    /\ UNCHANGED <<group, parts, ripe>>

classifyIncomingRow(m) ==
    \/ routeWorkflowPlans(m)
    \/ legacyFiltered(m)
    \/ routeLegacyAlbum(m)
    \/ routeSingle(m)

processIncomingRow(m) ==
    /\ pump = "classify" /\ m \in listed
    /\ listed' = listed \ {m}
    /\ IF work[m] = "pending" THEN classifyIncomingRow(m)
       ELSE UNCHANGED <<work, inbox, task, group, parts, ripe>>
    /\ UNCHANGED <<active, pinned, payload, pump, wake, stage, signals, intents, sent, pruned, upsets>>

\* The classification throws and is rolled back; a second transaction moves
\* the row to review whatever its status is by then.
classificationFails(m) ==
    /\ pump = "classify" /\ m \in listed
    /\ upset
    /\ listed' = listed \ {m}
    /\ finishClassification({m}, "needs_review")
    /\ UNCHANGED <<active, pinned, group, parts, ripe, payload, pump, wake, taskVars>>

closeAlbum(G) ==
    /\ task' = Enqueued({Album(g) : g \in G})
    /\ payload' = [g \in Albums |-> IF g \in G THEN parts[g] ELSE payload[g]]
    /\ group' = [g \in Albums |-> IF g \in G THEN "completed" ELSE group[g]]
    /\ finishClassification(UNION {parts[g] : g \in G}, "routed")

flushIncomingAlbums ==
    /\ pump = "classify" /\ listed = {}
    /\ closeAlbum({g \in ripe : group[g] = "waiting"})
    /\ pump' = "arm"
    /\ UNCHANGED <<active, pinned, parts, ripe, listed, wake, stage, signals, intents, sent, pruned, upsets>>

\* Mutant: the wakeup forgets the albums that still wait.
armForPendingOnly ==
    /\ pump = "arm"
    /\ pump' = "idle"
    /\ wake' = (wake \/ \E m \in Messages : work[m] = "pending")
    /\ UNCHANGED <<ingressVars, listed, taskVars, upsets>>

scheduleRemainingIngress ==
    /\ pump = "arm"
    /\ pump' = "idle"
    /\ wake' = (wake \/ (\E m \in Messages : work[m] = "pending")
                     \/ (\E g \in Albums : group[g] = "waiting"))
    /\ UNCHANGED <<ingressVars, listed, taskVars, upsets>>

\* 800 ms pass without another part.
albumReady(g) ==
    /\ group[g] = "waiting" /\ g \notin ripe
    /\ ripe' = ripe \cup {g}
    /\ UNCHANGED <<active, inbox, work, pinned, group, parts, payload, pumpVars, taskVars, upsets>>

-----------------------------------------------------------------------------
(* Executing the rows.                                                      *)

claimOutboxTask(t) ==
    /\ task[t] = "pending"
    /\ task' = [task EXCEPT ![t] = "running"]
    /\ stage' = [stage EXCEPT ![t] = "claimed"]
    /\ UNCHANGED <<ingressVars, pumpVars, signals, intents, sent, pruned, upsets>>

Scope(t) == IF t[1] = "plan" THEN t[3] ELSE "all"
\* findDuplicateSignal: the same normalised content under another identity,
\* within the plan's scope (a workflow) or anywhere (the legacy path).
isDuplicateSignal(t) ==
    \E s \in signals :
       /\ s # t
       /\ ContentOf[s[2]] = ContentOf[t[2]]
       /\ Scope(t) = "all" \/ Scope(s) = Scope(t)

Progress(t, to) == stage' = [stage EXCEPT ![t] = to]

\* Mutant: the outputs are published before the duplicate check decides.
publishFirst(t) ==
    /\ stage[t] = "claimed" /\ t[1] = "plan"
    /\ Progress(t, "published")
    /\ signals' = IF isDuplicateSignal(t) THEN signals ELSE signals \cup {t}
    /\ intents' = IF isDuplicateSignal(t) THEN intents ELSE intents \cup {t}
    /\ task' = Enqueued({Output(t[2], t[3])})
    /\ UNCHANGED <<inbox, sent>>

\* One transaction: the duplicate check, the signal, its trade intents and
\* its Telegram outputs.
processWorkflowSignal(t) ==
    /\ stage[t] = "claimed" /\ t[1] = "plan"
    /\ Progress(t, "published")
    /\ \/ /\ isDuplicateSignal(t)
          /\ inbox' = InboxSet({t[2]}, "duplicate")
          /\ UNCHANGED <<signals, intents, task>>
       \/ /\ ~isDuplicateSignal(t)
          /\ signals' = signals \cup {t}
          /\ intents' = intents \cup {t}
          /\ task' = Enqueued({Output(t[2], t[3])})
          /\ UNCHANGED inbox
    /\ UNCHANGED sent

finishWorkflowSignal(t) ==
    /\ stage[t] = "published" /\ t[1] = "plan"
    /\ inbox' = InboxSet({t[2]}, "processed")
    /\ Progress(t, "idle")
    /\ task' = [task EXCEPT ![t] = "completed"]
    /\ UNCHANGED <<signals, intents, sent>>

\* The legacy path makes the same check, but its check, its save and its
\* intent are three separate database calls.
checkLegacySignal(t) ==
    /\ stage[t] = "claimed" /\ t[1] = "single"
    /\ \/ /\ isDuplicateSignal(t)
          /\ inbox' = InboxSet({t[2]}, "duplicate")
          /\ Progress(t, "idle")
          /\ task' = [task EXCEPT ![t] = "completed"]
       \/ /\ ~isDuplicateSignal(t)
          /\ Progress(t, "checked")
          /\ UNCHANGED <<inbox, task>>
    /\ UNCHANGED <<signals, intents, sent>>

saveSignal(t) ==
    /\ stage[t] = "checked"
    /\ signals' = signals \cup {t}
    /\ Progress(t, "saved")
    /\ UNCHANGED <<inbox, task, intents, sent>>

createLegacyIntentForSignal(t) ==
    /\ stage[t] = "saved"
    /\ intents' = intents \cup {t}
    /\ Progress(t, "published")
    /\ UNCHANGED <<inbox, task, signals, sent>>

\* A raw output reports to the inbox, an XML output does not.
Reports(t, status) ==
    {InboxSet(MessageOf(t), status)} \cup (IF t[1] = "output" THEN {inbox} ELSE {})

\* sendXmlMessage, forwardRawMessage and forwardMediaGroup, with the outcome
\* confirmed.
deliver(t) ==
    /\ task[t] = "running"
    /\ stage[t] = IF t[1] = "single" THEN "published" ELSE "claimed"
    /\ t[1] # "plan"
    /\ sent' = [sent EXCEPT ![t] = @ + 1]
    /\ task' = [task EXCEPT ![t] = "completed"]
    /\ Progress(t, "idle")
    /\ inbox' \in Reports(t, "processed")
    /\ UNCHANGED <<signals, intents>>

execute(t) ==
    /\ \/ processWorkflowSignal(t)
       \/ finishWorkflowSignal(t)
       \/ checkLegacySignal(t)
       \/ saveSignal(t)
       \/ createLegacyIntentForSignal(t)
       \/ deliver(t)
    /\ UNCHANGED <<active, work, pinned, group, parts, ripe, payload, pumpVars, pruned, upsets>>

\* The execution throws before anything is sent: the row is failed and the
\* inbox says so.
executionFails(t) ==
    /\ task[t] = "running"
    /\ upset
    /\ task' = [task EXCEPT ![t] = "failed"]
    /\ Progress(t, "idle")
    /\ inbox' \in Reports(t, "failed")
    /\ UNCHANGED <<active, work, pinned, group, parts, ripe, payload, pumpVars, signals, intents, sent, pruned>>

retryPersistedTask(t) ==
    /\ task[t] = "failed"
    /\ task' = [task EXCEPT ![t] = "pending"]
    /\ UNCHANGED <<ingressVars, pumpVars, stage, signals, intents, sent, pruned, upsets>>

-----------------------------------------------------------------------------
(* Retention and crashes.                                                   *)

Live(t) == task[t] \in {"pending", "running", "failed"}

\* A signal is deleted once no live row of its message and no intent needs it.
prunableSignals(m, settled) ==
    {s \in signals :
       /\ s[2] = m
       /\ s \notin intents \/ settled
       /\ ~\E t \in Tasks \ {Album(g) : g \in Albums} : t[2] = m /\ Live(t)}

\* The transaction over everything of message m that is old enough; its
\* trade intents go with it only when their trades are over.
pruneOperationalData(m, settled) ==
    LET old == {t \in Tasks : m \in MessageOf(t) /\ task[t] = "completed"} IN
    /\ old # {}
    /\ inbox' = IF inbox[m] \in {"processed", "filtered"} THEN [inbox EXCEPT ![m] = "none"] ELSE inbox
    /\ signals' = signals \ prunableSignals(m, settled)
    /\ intents' = IF settled THEN {s \in intents : s[2] # m} ELSE intents
    /\ task' = [t \in Tasks |-> IF t \in old THEN "none" ELSE task[t]]
    /\ pruned' = pruned \cup old
    /\ UNCHANGED <<active, work, pinned, group, parts, ripe, payload, pumpVars, stage, sent, upsets>>

\* The next start requeues what was claimed and not yet sent, and pumps.
Crash ==
    /\ upset
    /\ pump' = "idle" /\ listed' = {} /\ wake' = TRUE
    /\ task' = [t \in Tasks |-> IF task[t] = "running" THEN "pending" ELSE task[t]]
    /\ stage' = [t \in Tasks |-> "idle"]
    /\ UNCHANGED <<ingressVars, signals, intents, sent, pruned>>

-----------------------------------------------------------------------------
Init ==
    /\ active \in Revisions \cup {Legacy}
    /\ inbox \in [Messages -> {"none", "received"}]
    /\ work = [m \in Messages |-> "none"]
    /\ pinned = [m \in Messages |-> Legacy]
    /\ group = [g \in Albums |-> "none"]
    /\ parts = [g \in Albums |-> {}]
    /\ ripe = {}
    /\ payload = [g \in Albums |-> {}]
    /\ pump = "idle" /\ listed = {} /\ wake = FALSE
    /\ task = [t \in Tasks |-> "none"]
    /\ stage = [t \in Tasks |-> "idle"]
    /\ signals = {} /\ intents = {} /\ pruned = {}
    /\ sent = [t \in Tasks |-> 0]
    /\ upsets = 0

Pump ==
    \/ listPending
    \/ \E m \in Messages : processIncomingRow(m)
    \/ flushIncomingAlbums
    \/ scheduleRemainingIngress

Next ==
    \/ \E w \in Revisions \cup {Legacy} : activateWorkflow(w)
    \/ \E m \in Messages : acceptIncomingMessage(m) \/ announceAgain(m) \/ classificationFails(m)
    \/ Pump
    \/ \E g \in Albums : albumReady(g)
    \/ \E t \in Tasks : claimOutboxTask(t) \/ execute(t) \/ executionFails(t) \/ retryPersistedTask(t)
    \/ \E m \in Messages, settled \in BOOLEAN : pruneOperationalData(m, settled)
    \/ Crash

Spec == Init /\ [][Next]_vars

\* The pump is a loop of awaited database calls on the event loop, and time
\* passes; executions are left to the outbox modules.
FairSpec == Spec /\ WF_vars(Pump) /\ \A g \in Albums : WF_vars(albumReady(g))

-----------------------------------------------------------------------------
(* Properties.                                                              *)

\* Every variable stays within the statuses that the tables allow.
TypeOK ==
    /\ active \in Revisions \cup {Legacy}
    /\ inbox \in [Messages -> {"none", "received", "filtered", "album_waiting", "routed",
                               "needs_review", "duplicate", "processed", "failed"}]
    /\ work \in [Messages -> {"none", "pending", "filtered", "album_waiting", "routed", "needs_review"}]
    /\ pinned \in [Messages -> Revisions \cup {Legacy}]
    /\ group \in [Albums -> {"none", "waiting", "completed"}]
    /\ parts \in [Albums -> SUBSET Messages] /\ payload \in [Albums -> SUBSET Messages]
    /\ ripe \subseteq Albums
    /\ pump \in {"idle", "classify", "arm"} /\ listed \subseteq Messages /\ wake \in BOOLEAN
    /\ task \in [Tasks -> {"none", "pending", "running", "failed", "completed"}]
    /\ stage \in [Tasks -> {"idle", "claimed", "checked", "saved", "published"}]
    /\ signals \subseteq Parsing /\ intents \subseteq Parsing
    /\ pruned \subseteq Tasks /\ sent \in [Tasks -> Nat]
    /\ upsets \in 0..MaxUpsets

\* The rows that a routed message must have, by the route pinned when it was
\* accepted.
RouteOf(m) ==
    IF pinned[m] # Legacy THEN {Child(m, p) : p \in EligiblePlans[pinned[m]][m]}
    ELSE IF AlbumOf[m] = NoAlbum THEN {Single(m)} ELSE {Album(AlbumOf[m])}

Exists(t) == task[t] # "none" \/ t \in pruned
Carries(t, m) == Exists(t) /\ m \in MessageOf(t)

\* No message is lost and none is routed twice: the rows that carry a
\* message are exactly those of the route pinned at its acceptance once it is
\* routed, and none before that, or when it is filtered, waiting in an album
\* or kept for review, across crashes, repeated announcements, failing
\* classifications, workflow changes and late album parts.
RoutedExactlyAsPinned ==
    \A m \in Messages :
       {t \in Tasks : t[1] # "output" /\ Carries(t, m)}
          = IF work[m] = "routed" THEN RouteOf(m) ELSE {}

\* A message held in an album is listed in an album that will still be
\* closed, so that no part waits forever in a group already sent.
WaitingPartsAreHeld ==
    \A m \in Messages :
       work[m] = "album_waiting" <=>
          AlbumOf[m] # NoAlbum /\ group[AlbumOf[m]] = "waiting" /\ m \in parts[AlbumOf[m]]

\* Within a workflow plan no two stored signals have the same content, and a
\* blocked duplicate publishes neither trade intents nor Telegram outputs.
DuplicatesPublishNothing ==
    /\ \A s, t \in {u \in signals : u[1] = "plan"} :
          ContentOf[s[2]] = ContentOf[t[2]] /\ s[3] = t[3] => s = t
    /\ intents \subseteq signals
    /\ \A m \in Messages, p \in Plans :
          task[Output(m, p)] \in {"pending", "running", "failed"} => Child(m, p) \in signals

\* Re-executing a parsing row after a crash or an operator's retry never
\* sends a second time: a row is sent at most once as long as retention has
\* not deleted it.
SentOnce ==
    \A t \in Tasks : sent[t] > 1 => t \in pruned

\* Nothing happens twice: a duplicate publishes neither intents nor outputs,
\* and a row that is executed again after a crash or a retry is not sent again
\* (processWorkflowSignal, executeScheduledOutboxTask of forwarder.ts).
NothingIsDoneTwice == DuplicatesPublishNothing /\ SentOnce

\* Every accepted message is decided and every waiting album is closed,
\* whatever crashes happen on the way: a decision is never taken back, so
\* with finitely many messages none stays undecided for ever.
AcceptedIsDecided ==
    <>[](\A m \in Messages : work[m] \notin {"pending", "album_waiting"})

\* "0 sperrt identische Signale dauerhaft": no two parsed messages with the
\* same content both lead to trade intents, in the legacy path.
IdenticalSignalsBlocked ==
    \A m, n \in Messages :
       ContentOf[m] = ContentOf[n] /\ {Single(m), Single(n)} \subseteq intents => m = n

-----------------------------------------------------------------------------
(* The inductive invariant behind these properties.                        *)

\* What is decided about a message is what its rows say.
MessageAgrees(m) ==
    /\ m \in listed => work[m] = "pending"
    /\ Exists(Single(m)) <=>
         work[m] = "routed" /\ pinned[m] = Legacy /\ AlbumOf[m] = NoAlbum
    /\ \A p \in Plans : Exists(Child(m, p)) <=>
         work[m] = "routed" /\ pinned[m] # Legacy /\ p \in EligiblePlans[pinned[m]][m]
    /\ work[m] = "album_waiting" =>
         /\ pinned[m] = Legacy /\ AlbumOf[m] # NoAlbum
         /\ group[AlbumOf[m]] = "waiting" /\ m \in parts[AlbumOf[m]]
    /\ work[m] = "routed" /\ pinned[m] = Legacy /\ AlbumOf[m] # NoAlbum =>
         group[AlbumOf[m]] = "completed" /\ m \in parts[AlbumOf[m]]

\* An album is closed into exactly the parts that waited in it.
AlbumAgrees(g) ==
    /\ Exists(Album(g)) <=> group[g] = "completed"
    /\ payload[g] = IF group[g] = "completed" THEN parts[g] ELSE {}
    /\ \A m \in parts[g] :
         /\ AlbumOf[m] = g /\ pinned[m] = Legacy
         /\ work[m] = IF group[g] = "completed" THEN "routed" ELSE "album_waiting"

\* How far an execution is, and that what it sent it completed.
TaskAgrees(t) ==
    /\ stage[t] # "idle" => task[t] = "running"
    /\ stage[t] \in {"checked", "saved"} => t[1] = "single"
    /\ stage[t] = "saved" => t \in signals
    /\ sent[t] > 0 /\ t \notin pruned => sent[t] = 1 /\ task[t] = "completed"

Routes == (\A m \in Messages : MessageAgrees(m)) /\ (\A g \in Albums : AlbumAgrees(g))
Executions == (\A t \in Tasks : TaskAgrees(t)) /\ DuplicatesPublishNothing
IngressInv == TypeOK /\ Routes /\ Executions

-----------------------------------------------------------------------------
(* Proofs.                                                                 *)

\* An outbox row is a message's own, one of its plans', an output's or an
\* album's, and its identity tells which.
LEMMA Kinds ==
  /\ \A m \in Messages : Single(m) \in Tasks /\ Single(m)[1] = "single" /\ Single(m)[2] = m
  /\ \A m \in Messages, p \in Plans :
       /\ Child(m, p) \in Tasks /\ Child(m, p)[1] = "plan"
       /\ Child(m, p)[2] = m /\ Child(m, p)[3] = p
  /\ \A m \in Messages, p \in Plans :
       /\ Output(m, p) \in Tasks /\ Output(m, p)[1] = "output"
       /\ Output(m, p)[2] = m /\ Output(m, p)[3] = p
  /\ \A g \in Albums : Album(g) \in Tasks /\ Album(g)[1] = "album" /\ Album(g)[2] = g
  /\ \A t \in Tasks :
       \/ \E m \in Messages : t = Single(m)
       \/ \E m \in Messages, p \in Plans : t = Child(m, p) \/ t = Output(m, p)
       \/ \E g \in Albums : t = Album(g)
  BY DEF Tasks, Parsing, Single, Child, Output, Album

\* A message outside the albums has no album; the others' album is one.
LEMMA AlbumsOfMessages ==
  ASSUME NEW m \in Messages, AlbumOf[m] # NoAlbum
  PROVE  AlbumOf[m] \in Albums
  BY DEF Albums

\* The plans of a pinned revision are plans.
LEMMA PlansOfRevisions ==
  ASSUME NEW m \in Messages, NEW w \in Revisions
  PROVE  EligiblePlans[w][m] \subseteq Plans
  BY DEF Plans

\* The agreement of messages, albums and rows survives a step that decides
\* nothing and creates or forgets no row but outputs (execute, Crash,
\* pruneOperationalData).
LEMMA RoutesKept ==
  ASSUME Routes, UNCHANGED <<work, pinned, group, parts, payload>>, listed' \subseteq listed,
         \A t \in Tasks : t[1] # "output" => (Exists(t)' <=> Exists(t))
  PROVE  Routes'
<1>1. ASSUME NEW m \in Messages PROVE MessageAgrees(m)'
  <2>1. /\ Exists(Single(m))' <=> Exists(Single(m))
        /\ \A p \in Plans : Exists(Child(m, p))' <=> Exists(Child(m, p))
    BY Kinds
  <2> HIDE DEF Exists
  <2> QED
    BY <2>1 DEF Routes, MessageAgrees
<1>2. ASSUME NEW g \in Albums PROVE AlbumAgrees(g)'
  <2>1. Exists(Album(g))' <=> Exists(Album(g))
    BY Kinds
  <2> QED
    BY <2>1 DEF Routes, AlbumAgrees
<1> QED
  BY <1>1, <1>2 DEF Routes

\* Rows put into the outbox by the pump start no execution and are no outputs
\* (enqueueOutboxTask).
LEMMA EnqueueKeeps ==
  ASSUME TypeOK, Executions, NEW T, task' = Enqueued(T), \A t \in T : t[1] # "output",
         UNCHANGED <<stage, signals, intents, sent, pruned>>
  PROVE  Executions'
<1>1. ASSUME NEW t \in Tasks PROVE TaskAgrees(t)'
  BY DEF Executions, TaskAgrees, Enqueued
<1>2. \A m \in Messages, p \in Plans : task'[Output(m, p)] = task[Output(m, p)]
  BY Kinds DEF Enqueued
<1> QED
  BY <1>1, <1>2 DEF Executions, DuplicatesPublishNothing

\* A step that touches no row of the outbox keeps the executions.
LEMMA ExecutionsKept ==
  ASSUME Executions, UNCHANGED <<task, stage, signals, intents, sent, pruned>>
  PROVE  Executions'
  BY DEF Executions, TaskAgrees, DuplicatesPublishNothing

\* Changing workflow, repeating an announcement, listing, arming the timer and
\* waiting for an album decide nothing.
LEMMA QuietKeeps ==
  ASSUME IngressInv,
         \/ \E w \in Revisions \cup {Legacy} : activateWorkflow(w)
         \/ \E m \in Messages : announceAgain(m)
         \/ listPending \/ scheduleRemainingIngress
         \/ \E g \in Albums : albumReady(g)
  PROVE  IngressInv'
<1> USE DEF upset, ingressVars, pumpVars, taskVars
<1>1. ASSUME NEW w \in Revisions \cup {Legacy}, activateWorkflow(w) PROVE IngressInv'
  <2>1. TypeOK'
    BY <1>1, IngressAssumption DEF IngressInv, TypeOK, activateWorkflow
  <2>2. Routes'
    BY <1>1, RoutesKept DEF IngressInv, activateWorkflow, Exists
  <2> QED
    BY <1>1, <2>1, <2>2, ExecutionsKept DEF IngressInv, activateWorkflow
<1>2. ASSUME NEW m \in Messages, announceAgain(m) PROVE IngressInv'
  <2>1. TypeOK'
    BY <1>2, IngressAssumption DEF IngressInv, TypeOK, announceAgain
  <2>2. Routes'
    BY <1>2, RoutesKept DEF IngressInv, announceAgain, Exists
  <2> QED
    BY <1>2, <2>1, <2>2, ExecutionsKept DEF IngressInv, announceAgain
<1>3. CASE listPending
  <2>1. listed' \subseteq {m \in Messages : work[m] = "pending"}
    BY <1>3 DEF listPending
  <2>2. TypeOK'
    BY <1>3, <2>1 DEF IngressInv, TypeOK, listPending
  <2>3. UNCHANGED <<work, pinned, group, parts, payload, task, stage, signals, intents, sent, pruned>>
    BY <1>3 DEF listPending
  <2>4. Routes'
    BY <2>1, <2>3 DEF IngressInv, Routes, MessageAgrees, AlbumAgrees, Exists
  <2> QED
    BY <2>2, <2>3, <2>4, ExecutionsKept DEF IngressInv
<1>4. CASE scheduleRemainingIngress
  <2>1. TypeOK'
    BY <1>4 DEF IngressInv, TypeOK, scheduleRemainingIngress
  <2>2. Routes'
    BY <1>4, RoutesKept DEF IngressInv, scheduleRemainingIngress, Exists
  <2> QED
    BY <1>4, <2>1, <2>2, ExecutionsKept DEF IngressInv, scheduleRemainingIngress
<1>5. ASSUME NEW g \in Albums, albumReady(g) PROVE IngressInv'
  <2>1. TypeOK'
    BY <1>5 DEF IngressInv, TypeOK, albumReady
  <2>2. Routes'
    BY <1>5, RoutesKept DEF IngressInv, albumReady, Exists
  <2> QED
    BY <1>5, <2>1, <2>2, ExecutionsKept DEF IngressInv, albumReady
<1> QED
  BY <1>1, <1>2, <1>3, <1>4, <1>5

\* Accepting a message pins its route and decides nothing else
\* (acceptIncomingMessage).
LEMMA AcceptKeeps ==
  ASSUME IngressInv, NEW m \in Messages, acceptIncomingMessage(m)
  PROVE  IngressInv'
<1> USE DEF ingressVars, pumpVars, taskVars
<1>1. TypeOK'
  BY DEF IngressInv, TypeOK, acceptIncomingMessage
<1>2. /\ work[m] = "none" /\ work'[m] \in {"pending", "needs_review"}
      /\ \A n \in Messages \ {m} : work'[n] = work[n] /\ pinned'[n] = pinned[n]
      /\ UNCHANGED <<group, parts, payload, listed, task, stage, signals, intents, sent, pruned>>
  BY DEF IngressInv, TypeOK, acceptIncomingMessage
<1>3. ASSUME NEW n \in Messages PROVE MessageAgrees(n)'
  <2>1. \A t : Exists(t)' <=> Exists(t)
    BY <1>2 DEF Exists
  <2> HIDE DEF Exists
  <2>2. CASE n = m
    BY <1>2, <2>1, <2>2 DEF IngressInv, Routes, MessageAgrees
  <2>3. CASE n # m
    BY <1>2, <2>1, <2>3 DEF IngressInv, Routes, MessageAgrees
  <2> QED
    BY <2>2, <2>3
<1>4. ASSUME NEW g \in Albums PROVE AlbumAgrees(g)'
  BY <1>2 DEF IngressInv, TypeOK, Routes, AlbumAgrees, Exists
<1> QED
  BY <1>1, <1>2, <1>3, <1>4, ExecutionsKept DEF IngressInv, Routes

\* After enqueueing, the rows that exist are those before and the new ones.
LEMMA EnqueuedExists ==
  ASSUME NEW T, task' = Enqueued(T), UNCHANGED pruned
  PROVE  \A t \in Tasks : Exists(t)' <=> Exists(t) \/ t \in T
  BY DEF Enqueued, Exists

\* A message still to be classified has no row and is in no album.
LEMMA UndecidedIsFree ==
  ASSUME IngressInv, NEW m \in Messages, m \in listed
  PROVE  /\ work[m] = "pending"
         /\ ~Exists(Single(m)) /\ \A p \in Plans : ~Exists(Child(m, p))
         /\ \A g \in Albums : m \notin parts[g]
  BY DEF IngressInv, Routes, MessageAgrees, AlbumAgrees

\* A message that is decided without an album gets exactly the rows of its
\* pinned route (classifyIncomingRow).
LEMMA DecideKeeps ==
  ASSUME IngressInv, NEW m \in Messages, m \in listed, listed' = listed \ {m},
         NEW status \in {"filtered", "routed", "needs_review"}, finishClassification({m}, status),
         NEW T, T \subseteq {Single(m)} \cup {Child(m, p) : p \in Plans},
         task' = Enqueued(T),
         Single(m) \in T <=> status = "routed" /\ pinned[m] = Legacy /\ AlbumOf[m] = NoAlbum,
         \A p \in Plans : Child(m, p) \in T <=>
            status = "routed" /\ pinned[m] # Legacy /\ p \in EligiblePlans[pinned[m]][m],
         status = "routed" => pinned[m] # Legacy \/ AlbumOf[m] = NoAlbum,
         UNCHANGED <<pinned, group, parts, ripe, payload, stage, signals, intents, sent, pruned>>
  PROVE  Routes' /\ Executions'
<1>1. \A t \in Tasks : Exists(t)' <=> Exists(t) \/ t \in T
  BY EnqueuedExists
<1>2. \A t \in T : t[1] \in {"single", "plan"} /\ t[2] = m
  BY Kinds
<1>3. work'[m] = status /\ \A n \in Messages \ {m} : work'[n] = work[n]
  BY DEF finishClassification
<1>4. ASSUME NEW n \in Messages PROVE MessageAgrees(n)'
  <2>1. /\ Exists(Single(n))' <=> Exists(Single(n)) \/ Single(n) \in T
        /\ \A p \in Plans : Exists(Child(n, p))' <=> Exists(Child(n, p)) \/ Child(n, p) \in T
    BY <1>1, Kinds
  <2>2. CASE n = m
    BY <1>3, <2>1, <2>2, UndecidedIsFree DEF MessageAgrees
  <2>3. CASE n # m
    <3>1. Single(n) \notin T /\ \A p \in Plans : Child(n, p) \notin T
      BY <1>2, <2>3, Kinds
    <3>2. MessageAgrees(n)
      BY DEF IngressInv, Routes
    <3> QED
      BY <1>3, <2>1, <2>3, <3>1, <3>2 DEF MessageAgrees
  <2> QED
    BY <2>2, <2>3
<1>5. ASSUME NEW g \in Albums PROVE AlbumAgrees(g)'
  <2>1. Exists(Album(g))' <=> Exists(Album(g))
    BY <1>1, <1>2, Kinds
  <2>2. AlbumAgrees(g) /\ m \notin parts[g] /\ parts[g] \subseteq Messages
    BY UndecidedIsFree DEF IngressInv, Routes, TypeOK
  <2> QED
    BY <1>3, <2>1, <2>2 DEF AlbumAgrees
<1>6. Executions'
  BY <1>2, EnqueueKeeps DEF IngressInv
<1> QED
  BY <1>4, <1>5, <1>6 DEF Routes

\* A part joins the album that is still open, or is kept for review
\* (addAlbumPart).
LEMMA AlbumPartKeeps ==
  ASSUME IngressInv, NEW m \in Messages, m \in listed, listed' = listed \ {m}, routeLegacyAlbum(m),
         UNCHANGED <<pinned, payload, stage, signals, intents, sent, pruned>>
  PROVE  Routes' /\ Executions'
<1> DEFINE h == AlbumOf[m]
<1>1. /\ h \in Albums /\ pinned[m] = Legacy /\ h # NoAlbum
      /\ UNCHANGED task /\ addAlbumPart(m)
  BY AlbumsOfMessages DEF routeLegacyAlbum
<1>2. /\ Executions'
      /\ \A t : Exists(t)' <=> Exists(t)
  BY <1>1, ExecutionsKept DEF IngressInv, Exists
<1>3. CASE group[h] = "completed"
  <2>1. /\ work'[m] = "needs_review" /\ \A n \in Messages \ {m} : work'[n] = work[n]
        /\ UNCHANGED <<group, parts>>
    BY <1>1, <1>3 DEF addAlbumPart, finishClassification
  <2>2. ASSUME NEW n \in Messages PROVE MessageAgrees(n)'
    <3>1. MessageAgrees(n) /\ (n = m => ~Exists(Single(n)) /\ \A p \in Plans : ~Exists(Child(n, p)))
      BY UndecidedIsFree DEF IngressInv, Routes
    <3> QED
      BY <1>2, <2>1, <3>1 DEF MessageAgrees
  <2>3. ASSUME NEW g \in Albums PROVE AlbumAgrees(g)'
    <3>1. AlbumAgrees(g) /\ m \notin parts[g] /\ parts[g] \subseteq Messages
      BY UndecidedIsFree DEF IngressInv, Routes, TypeOK
    <3> QED
      BY <1>2, <2>1, <3>1 DEF AlbumAgrees
  <2> QED
    BY <1>2, <2>2, <2>3 DEF Routes
<1>4. CASE group[h] # "completed"
  <2>1. /\ work'[m] = "album_waiting" /\ \A n \in Messages \ {m} : work'[n] = work[n]
        /\ parts' = [parts EXCEPT ![h] = @ \cup {m}]
        /\ group' = [group EXCEPT ![h] = "waiting"]
    BY <1>1, <1>4 DEF addAlbumPart, finishClassification
  <2> HIDE DEF h
  <2>2. ASSUME NEW n \in Messages PROVE MessageAgrees(n)'
    <3>1. CASE n = m
      BY <1>1, <1>2, <2>1, <3>1, UndecidedIsFree DEF MessageAgrees, h, IngressInv, TypeOK
    <3>2. CASE n # m
      <4>1. MessageAgrees(n) /\ work'[n] = work[n]
        BY <2>1, <3>2 DEF IngressInv, Routes
      <4>2. AlbumOf[n] # NoAlbum => AlbumOf[n] \in Albums
        BY AlbumsOfMessages
      <4>3. ASSUME AlbumOf[n] # NoAlbum
            PROVE  /\ parts[AlbumOf[n]] \subseteq parts'[AlbumOf[n]]
                   /\ group[AlbumOf[n]] \in {"waiting", "completed"} =>
                        group'[AlbumOf[n]] = group[AlbumOf[n]]
        BY <1>4, <2>1, <4>2, <4>3 DEF IngressInv, TypeOK
      <4> QED
        BY <1>2, <3>2, <4>1, <4>3 DEF MessageAgrees
    <3> QED
      BY <3>1, <3>2
  <2>3. ASSUME NEW g \in Albums PROVE AlbumAgrees(g)'
    <3>1. AlbumAgrees(g) /\ m \notin parts[g] /\ parts[g] \subseteq Messages
      BY UndecidedIsFree DEF IngressInv, Routes, TypeOK
    <3>2. CASE g = h
      <4>1. parts'[g] = parts[g] \cup {m} /\ group'[g] = "waiting"
        BY <2>1, <3>2 DEF IngressInv, TypeOK
      <4> QED
        BY <1>1, <1>2, <1>4, <2>1, <3>1, <3>2, <4>1 DEF AlbumAgrees, h
    <3>3. CASE g # h
      <4>1. parts'[g] = parts[g] /\ group'[g] = group[g]
        BY <2>1, <3>3 DEF IngressInv, TypeOK
      <4> QED
        BY <1>2, <2>1, <3>1, <4>1 DEF AlbumAgrees
    <3> QED
      BY <3>2, <3>3
  <2> QED
    BY <1>2, <2>2, <2>3 DEF Routes
<1> QED
  BY <1>3, <1>4

\* The type of what a decision writes.
LEMMA DecisionTypes ==
  ASSUME TypeOK, NEW M, NEW status \in {"filtered", "album_waiting", "routed", "needs_review"},
         finishClassification(M, status)
  PROVE  /\ work' \in [Messages -> {"none", "pending", "filtered", "album_waiting", "routed", "needs_review"}]
         /\ inbox' \in [Messages -> {"none", "received", "filtered", "album_waiting", "routed",
                                     "needs_review", "duplicate", "processed", "failed"}]
  BY DEF TypeOK, finishClassification, InboxSet

\* Enqueueing keeps the type of the outbox.
LEMMA EnqueuedType ==
  ASSUME TypeOK, NEW T, task' = Enqueued(T)
  PROVE  task' \in [Tasks -> {"none", "pending", "running", "failed", "completed"}]
  BY DEF TypeOK, Enqueued

\* One visit of the pump keeps the agreement, whatever route is pinned
\* (processIncomingRow).
LEMMA ProcessKeeps ==
  ASSUME IngressInv, NEW m \in Messages, processIncomingRow(m)
  PROVE  IngressInv'
<1>1. /\ m \in listed /\ listed' = listed \ {m}
      /\ UNCHANGED <<active, pinned, payload, pump, wake, stage, signals, intents, sent, pruned, upsets>>
  BY DEF processIncomingRow
<1>2. classifyIncomingRow(m)
  BY <1>1, UndecidedIsFree DEF processIncomingRow
<1>3. CASE routeWorkflowPlans(m)
  <2> DEFINE plans == EligiblePlans[pinned[m]][m]
             T == {Child(m, p) : p \in plans}
             status == IF plans = {} THEN "filtered" ELSE "routed"
  <2>1. /\ pinned[m] # Legacy /\ task' = Enqueued(T) /\ finishClassification({m}, status)
        /\ UNCHANGED <<group, parts, ripe>>
    BY <1>3 DEF routeWorkflowPlans
  <2>2. pinned[m] \in Revisions
    BY <2>1 DEF IngressInv, TypeOK
  <2>3. plans \subseteq Plans
    BY <2>2, PlansOfRevisions
  <2>4. /\ T \subseteq {Single(m)} \cup {Child(m, p) : p \in Plans} /\ Single(m) \notin T
        /\ \A p \in Plans : Child(m, p) \in T <=> p \in plans
    BY <2>3, Kinds
  <2>5. /\ status \in {"filtered", "routed", "needs_review"}
        /\ \A p \in Plans : Child(m, p) \in T <=> status = "routed" /\ pinned[m] # Legacy /\ p \in plans
    BY <2>1, <2>4
  <2>6. TypeOK'
    BY <1>1, <2>1, DecisionTypes, EnqueuedType DEF IngressInv, TypeOK
  <2> HIDE DEF T, status
  <2>7. Routes' /\ Executions'
    BY <1>1, <2>1, <2>4, <2>5, DecideKeeps
  <2> QED
    BY <2>6, <2>7 DEF IngressInv
<1>4. CASE legacyFiltered(m)
  <2>1. /\ pinned[m] = Legacy /\ UNCHANGED task /\ finishClassification({m}, "filtered")
        /\ UNCHANGED <<group, parts, ripe>>
    BY <1>4 DEF legacyFiltered
  <2> DEFINE T == {}
  <2>2. task' = Enqueued(T)
    BY <2>1 DEF Enqueued, IngressInv, TypeOK
  <2>3. TypeOK'
    BY <1>1, <2>1, DecisionTypes DEF IngressInv, TypeOK
  <2>4. /\ T \subseteq {Single(m)} \cup {Child(m, p) : p \in Plans}
        /\ Single(m) \notin T /\ \A p \in Plans : Child(m, p) \notin T
    OBVIOUS
  <2> HIDE DEF T
  <2>5. Routes' /\ Executions'
    BY <1>1, <2>1, <2>2, <2>4, DecideKeeps
  <2> QED
    BY <2>3, <2>5 DEF IngressInv
<1>5. CASE routeLegacyAlbum(m)
  <2>1. Routes' /\ Executions'
    BY <1>1, <1>5, AlbumPartKeeps
  <2>2. /\ AlbumOf[m] \in Albums /\ UNCHANGED task
        /\ \/ finishClassification({m}, "needs_review") /\ UNCHANGED <<group, parts, ripe>>
           \/ /\ parts' = [parts EXCEPT ![AlbumOf[m]] = @ \cup {m}]
              /\ group' = [group EXCEPT ![AlbumOf[m]] = "waiting"]
              /\ ripe' = ripe \ {AlbumOf[m]}
              /\ finishClassification({m}, "album_waiting")
    BY <1>5, AlbumsOfMessages DEF routeLegacyAlbum, addAlbumPart
  <2>3. TypeOK'
    BY <1>1, <2>2, DecisionTypes DEF IngressInv, TypeOK
  <2> QED
    BY <2>1, <2>3 DEF IngressInv
<1>6. CASE routeSingle(m)
  <2> DEFINE T == {Single(m)}
  <2>1. /\ pinned[m] = Legacy /\ AlbumOf[m] = NoAlbum /\ task' = Enqueued(T)
        /\ finishClassification({m}, "routed") /\ UNCHANGED <<group, parts, ripe>>
    BY <1>6 DEF routeSingle
  <2>2. Single(m) \in T /\ \A p \in Plans : Child(m, p) \notin T
    BY Kinds
  <2>3. TypeOK'
    BY <1>1, <2>1, DecisionTypes, EnqueuedType DEF IngressInv, TypeOK
  <2>4. T \subseteq {Single(m)} \cup {Child(m, p) : p \in Plans}
    OBVIOUS
  <2> HIDE DEF T
  <2>5. Routes' /\ Executions'
    BY <1>1, <2>1, <2>2, <2>4, DecideKeeps
  <2> QED
    BY <2>3, <2>5 DEF IngressInv
<1> QED
  BY <1>2, <1>3, <1>4, <1>5, <1>6 DEF classifyIncomingRow

\* A classification that throws moves an undecided row to review
\* (processIncomingWork's second transaction).
LEMMA FailedKeeps ==
  ASSUME IngressInv, NEW m \in Messages, classificationFails(m)
  PROVE  IngressInv'
<1>1. /\ m \in listed /\ listed' = listed \ {m} /\ finishClassification({m}, "needs_review")
      /\ UNCHANGED <<active, pinned, group, parts, ripe, payload, pump, wake, task, stage, signals,
                     intents, sent, pruned>>
      /\ upsets < MaxUpsets /\ upsets' = upsets + 1
  BY DEF classificationFails, upset, taskVars
<1>2. task' = Enqueued({})
  BY <1>1 DEF Enqueued, IngressInv, TypeOK
<1>3. TypeOK'
  BY <1>1, DecisionTypes, IngressAssumption DEF IngressInv, TypeOK
<1>4. Routes' /\ Executions'
  BY <1>1, <1>2, DecideKeeps
<1> QED
  BY <1>3, <1>4 DEF IngressInv

\* Closing an album routes exactly the parts that waited in it
\* (flushIncomingAlbums, closeAlbum).
LEMMA FlushKeeps ==
  ASSUME IngressInv, flushIncomingAlbums
  PROVE  IngressInv'
<1> DEFINE G == {g \in ripe : group[g] = "waiting"}
           T == {Album(g) : g \in G}
           M == UNION {parts[g] : g \in G}
<1>1. /\ task' = Enqueued(T) /\ finishClassification(M, "routed")
      /\ payload' = [g \in Albums |-> IF g \in G THEN parts[g] ELSE payload[g]]
      /\ group' = [g \in Albums |-> IF g \in G THEN "completed" ELSE group[g]]
      /\ listed = {} /\ pump' = "arm"
      /\ UNCHANGED <<active, pinned, parts, ripe, listed, wake, stage, signals, intents, sent, pruned, upsets>>
  BY DEF flushIncomingAlbums, closeAlbum
<1>2. G \subseteq Albums /\ \A g \in G : group[g] = "waiting"
  BY DEF IngressInv, TypeOK
<1>3. TypeOK'
  BY <1>1, DecisionTypes, EnqueuedType DEF IngressInv, TypeOK
<1>4. /\ \A m \in Messages : Single(m) \notin T /\ \A p \in Plans : Child(m, p) \notin T
      /\ \A g \in Albums : Album(g) \in T <=> g \in G
      /\ \A t \in T : t[1] # "output"
  BY <1>2, Kinds
<1>5. \A m \in Messages : m \in M <=> work[m] = "album_waiting" /\ AlbumOf[m] \in G
  <2>1. ASSUME NEW m \in Messages, m \in M PROVE work[m] = "album_waiting" /\ AlbumOf[m] \in G
    BY <1>2, <2>1 DEF IngressInv, Routes, AlbumAgrees
  <2>2. ASSUME NEW m \in Messages, work[m] = "album_waiting", AlbumOf[m] \in G PROVE m \in M
    BY <2>2 DEF IngressInv, Routes, MessageAgrees
  <2> QED
    BY <2>1, <2>2
<1>6. \A m \in Messages : work'[m] = IF m \in M THEN "routed" ELSE work[m]
  BY <1>1 DEF finishClassification
<1> HIDE DEF T, M, G
<1>7. \A t \in Tasks : Exists(t)' <=> Exists(t) \/ t \in T
  BY <1>1, EnqueuedExists
<1>8. ASSUME NEW m \in Messages PROVE MessageAgrees(m)'
  <2>1. /\ Exists(Single(m))' <=> Exists(Single(m))
        /\ \A p \in Plans : Exists(Child(m, p))' <=> Exists(Child(m, p))
    BY <1>4, <1>7, Kinds
  <2>2. MessageAgrees(m)
    BY DEF IngressInv, Routes
  <2>3. AlbumOf[m] # NoAlbum =>
          group'[AlbumOf[m]] = IF AlbumOf[m] \in G THEN "completed" ELSE group[AlbumOf[m]]
    BY <1>1, AlbumsOfMessages
  <2>4. CASE m \in M
    BY <1>1, <1>5, <1>6, <2>1, <2>2, <2>3, <2>4 DEF MessageAgrees
  <2>5. CASE m \notin M
    <3>1. work'[m] = work[m]
      BY <1>6, <2>5
    <3>2. work[m] = "album_waiting" => AlbumOf[m] \notin G
      BY <1>5, <2>5
    <3> QED
      BY <1>1, <2>1, <2>2, <2>3, <3>1, <3>2 DEF MessageAgrees
  <2> QED
    BY <2>4, <2>5
<1>9. ASSUME NEW g \in Albums PROVE AlbumAgrees(g)'
  <2>1. Exists(Album(g))' <=> Exists(Album(g)) \/ g \in G
    BY <1>4, <1>7, Kinds
  <2>2. AlbumAgrees(g) /\ parts[g] \subseteq Messages
    BY DEF IngressInv, Routes, TypeOK
  <2>3. \A m \in parts[g] : work'[m] = IF g \in G THEN "routed" ELSE work[m]
    BY <1>2, <1>5, <1>6, <2>2 DEF AlbumAgrees
  <2> QED
    BY <1>1, <1>2, <2>1, <2>2, <2>3 DEF AlbumAgrees
<1>10. Executions'
  BY <1>1, <1>4, EnqueueKeeps DEF IngressInv
<1> QED
  BY <1>3, <1>8, <1>9, <1>10 DEF Routes, IngressInv

\* The agreement gives exactly the rows of the pinned route.
LEMMA AgreementRoutes == IngressInv => RoutedExactlyAsPinned
<1> SUFFICES ASSUME IngressInv, NEW m \in Messages
             PROVE  {t \in Tasks : t[1] # "output" /\ Carries(t, m)}
                      = IF work[m] = "routed" THEN RouteOf(m) ELSE {}
  BY DEF RoutedExactlyAsPinned
<1> DEFINE route == IF work[m] = "routed" THEN RouteOf(m) ELSE {}
<1>1. MessageAgrees(m) /\ \A g \in Albums : AlbumAgrees(g)
  BY DEF IngressInv, Routes
<1>2. pinned[m] # Legacy => EligiblePlans[pinned[m]][m] \subseteq Plans
  BY PlansOfRevisions DEF IngressInv, TypeOK
<1>3. ASSUME NEW n \in Messages PROVE Carries(Single(n), m) <=> Single(n) \in route
  <2>1. Carries(Single(n), m) <=> n = m /\ Exists(Single(m))
    BY Kinds DEF Carries, MessageOf
  <2>2. Single(n) \in route <=> work[m] = "routed" /\ pinned[m] = Legacy /\ AlbumOf[m] = NoAlbum /\ n = m
    BY DEF RouteOf, Single, Child, Album
  <2> QED
    BY <1>1, <2>1, <2>2 DEF MessageAgrees
<1>4. ASSUME NEW n \in Messages, NEW p \in Plans PROVE Carries(Child(n, p), m) <=> Child(n, p) \in route
  <2>1. Carries(Child(n, p), m) <=> n = m /\ Exists(Child(m, p))
    BY Kinds DEF Carries, MessageOf
  <2>2. Child(n, p) \in route <=>
          work[m] = "routed" /\ pinned[m] # Legacy /\ p \in EligiblePlans[pinned[m]][m] /\ n = m
    BY DEF RouteOf, Single, Child, Album
  <2> QED
    BY <1>1, <2>1, <2>2 DEF MessageAgrees
<1>5. ASSUME NEW g \in Albums PROVE Carries(Album(g), m) <=> Album(g) \in route
  <2>1. Carries(Album(g), m) <=> Exists(Album(g)) /\ m \in payload[g]
    BY Kinds DEF Carries, MessageOf
  <2>2. Album(g) \in route <=> work[m] = "routed" /\ pinned[m] = Legacy /\ AlbumOf[m] # NoAlbum /\ g = AlbumOf[m]
    BY DEF RouteOf, Single, Child, Album
  <2>3. g # NoAlbum
    BY DEF Albums
  <2>4. /\ Exists(Album(g)) <=> group[g] = "completed"
        /\ payload[g] = IF group[g] = "completed" THEN parts[g] ELSE {}
    BY <1>1 DEF AlbumAgrees
  <2>5. m \in parts[g] => /\ AlbumOf[m] = g /\ pinned[m] = Legacy
                          /\ work[m] = IF group[g] = "completed" THEN "routed" ELSE "album_waiting"
    BY <1>1 DEF AlbumAgrees
  <2>6. work[m] = "routed" /\ pinned[m] = Legacy /\ AlbumOf[m] # NoAlbum =>
          group[AlbumOf[m]] = "completed" /\ m \in parts[AlbumOf[m]]
    BY <1>1 DEF MessageAgrees
  <2>7. CASE Exists(Album(g)) /\ m \in payload[g]
    BY <2>1, <2>2, <2>3, <2>4, <2>5, <2>7
  <2>8. CASE Album(g) \in route
    BY <2>1, <2>2, <2>4, <2>6, <2>8
  <2> QED
    BY <2>1, <2>7, <2>8
<1>6. \A t \in route : t \in Tasks /\ t[1] # "output"
  BY <1>2, Kinds, AlbumsOfMessages DEF RouteOf
<1>7. \A n \in Messages, p \in Plans : Output(n, p)[1] = "output"
  BY Kinds
<1> HIDE DEF route
<1>8. \A t \in Tasks : t[1] # "output" => (Carries(t, m) <=> t \in route)
  BY <1>3, <1>4, <1>5, <1>7, Kinds
<1>9. {t \in Tasks : t[1] # "output" /\ Carries(t, m)} = route
  BY <1>6, <1>8
<1> QED
  BY <1>9 DEF route

\* The agreement places every waiting part in an album that is still open.
LEMMA AgreementHolds == IngressInv => WaitingPartsAreHeld
<1> SUFFICES ASSUME IngressInv, NEW m \in Messages
             PROVE  work[m] = "album_waiting" <=>
                      AlbumOf[m] # NoAlbum /\ group[AlbumOf[m]] = "waiting" /\ m \in parts[AlbumOf[m]]
  BY DEF WaitingPartsAreHeld
<1>1. MessageAgrees(m) /\ \A g \in Albums : AlbumAgrees(g)
  BY DEF IngressInv, Routes
<1>2. CASE work[m] = "album_waiting"
  BY <1>1, <1>2 DEF MessageAgrees
<1>3. CASE AlbumOf[m] # NoAlbum /\ group[AlbumOf[m]] = "waiting" /\ m \in parts[AlbumOf[m]]
  <2>1. AlbumAgrees(AlbumOf[m])
    BY <1>1, <1>3, AlbumsOfMessages
  <2> QED
    BY <1>3, <2>1 DEF AlbumAgrees
<1> QED
  BY <1>2, <1>3

\* The agreement of the executions excludes a second publication or sending.
LEMMA AgreementIsOnce == IngressInv => NothingIsDoneTwice
<1> SUFFICES ASSUME IngressInv PROVE SentOnce
  BY DEF IngressInv, Executions, NothingIsDoneTwice
<1> QED
  BY DEF IngressInv, Executions, TypeOK, TaskAgrees, SentOnce

=============================================================================
