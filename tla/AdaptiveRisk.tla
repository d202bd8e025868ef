---------------------------- MODULE AdaptiveRisk ----------------------------
(***************************************************************************)
(* Adaptive risk of a channel (trading_channel_risk.ts and its _math): the *)
(* percentage a new entry may risk moves along a ladder of tiers with the  *)
(* results of past weeks.  Two stores are modelled.  The older one is a    *)
(* policy row per channel, shared by every account the channel trades on;  *)
(* the workflow's is a state row per channel, account and risk resource.   *)
(*                                                                         *)
(* Entries of one account are prepared one after the other (the account's  *)
(* mutation queue), those of two accounts interleave: a resolver per       *)
(* account, whose steps are the transactions of the code.  A path's state  *)
(* belongs to one account, so only the accounts of Traded walk paths here. *)
(*                                                                         *)
(* A week of results is abstracted to how it compares with the policy's    *)
(* thresholds; "unproved" is a history the money evidence does not cover.  *)
(***************************************************************************)
EXTENDS Naturals, Sequences, FiniteSets, SequencesExt

CONSTANTS
    Account,
    Traded,        \* the accounts the channel's closed positions belong to
    Tiers,         \* tiers are numbered 0..Tiers-1
    WeakWeeks,     \* weakWeeksBeforeBlock (weakChannelAction is "block")
    Configurations,\* what an operator may set: [mode, start, locked, manual]
    Result,        \* how a week may go
    MaxWeeks, MaxPolicies, MaxChanges

VARIABLES policy, evaluations, path, state, pathEvaluations, closed, week, resolver, policies, saving, sourceChanges

adaptiveVars == <<policy, evaluations, path, state, pathEvaluations, closed, week, resolver, policies, saving,
                  sourceChanges>>

Tier == 0..(Tiers - 1)
NoLock == Tiers
NoPolicy == [mode |-> "none", tier |-> 0, locked |-> NoLock, manual |-> FALSE, block |-> "none", version |-> 0]
NoState == [hash |-> 0, tier |-> 0, block |-> "none"]
Idle == [pc |-> "idle", week |-> 0, snap |-> NoPolicy, state |-> NoState, granted |-> FALSE, tier |-> 0, evidence |-> "none"]

(***************************************************************************)
(* The evidence of a week.  collectChannelEvidence throws when the history *)
(* is incomplete or when channel history and capital are not those of one  *)
(* account (capitalAccount: "ambiguous account/equity context").           *)
(***************************************************************************)
performanceSources(accounts, w) == [b \in accounts |-> closed[b][w]]

capitalAccount(accounts, a) == Cardinality(accounts \cup {a}) = 1

collectChannelEvidence(accounts, a, w) ==
    /\ \A b \in accounts : closed[b][w].result # "unproved"
    /\ capitalAccount(accounts, a)

Source(accounts, a, w) == [account |-> a, positions |-> performanceSources(accounts, w)]

Performance(accounts, a, w) == IF a \in accounts THEN closed[a][w].result ELSE "few"

(* assertCachedEvidence: an evaluation made earlier is used only while it  *)
(* is not invalidated and its sources still hash to what it stored.        *)
assertCachedEvidence(row, accounts, a) ==
    /\ ~row.invalid
    /\ collectChannelEvidence(accounts, a, row.week)
    /\ row.source = Source(accounts, a, row.week)

(***************************************************************************)
(* recommendation: which tier a week's result leads to.  "uncertain" is an *)
(* interval of money values that overlaps a threshold.                     *)
(***************************************************************************)
recommendation(tier, locked, result) ==
    IF locked # NoLock THEN [tier |-> locked, action |-> "hold", uncertain |-> FALSE]
    ELSE CASE result = "loss" -> [tier |-> IF tier > 0 THEN tier - 1 ELSE 0, action |-> "decrease", uncertain |-> FALSE]
           [] result = "profit" -> [tier |-> IF tier < Tiers - 1 THEN tier + 1 ELSE tier, action |-> "increase", uncertain |-> FALSE]
           [] result = "uncertain" -> [tier |-> tier, action |-> "hold", uncertain |-> TRUE]
           [] OTHER -> [tier |-> tier, action |-> "hold", uncertain |-> FALSE]

(* Weak weeks in a row turn the last decrease into a block.                *)
shouldBlockWeakChannel(rows, action) ==
    /\ action = "decrease"
    /\ Len(rows) >= WeakWeeks - 1
    /\ \A i \in (Len(rows) - WeakWeeks + 2)..Len(rows) : rows[i].action \in {"decrease", "block"}

Suggested(rows, tier, locked, result) ==
    LET first == recommendation(tier, locked, result)
    IN  IF shouldBlockWeakChannel(rows, first.action) THEN [first EXCEPT !.action = "block"] ELSE first

BlockOf(suggested) ==
    IF suggested.action = "block" THEN "weak" ELSE IF suggested.uncertain THEN "uncertain" ELSE "none"

Evaluation(key, w, tier, suggested, applied, source) ==
    [key |-> key, week |-> w, previous |-> tier, applied |-> applied, action |-> suggested.action,
     invalid |-> FALSE, source |-> source]

(* Mutant: an evaluation that was invalidated is made anew.                *)
existingValid(rows, key, w) == {i \in DOMAIN rows : rows[i].key = key /\ rows[i].week = w /\ ~rows[i].invalid}

existing(rows, key, w) == {i \in DOMAIN rows : rows[i].key = key /\ rows[i].week = w}

Invalidated(rows, key, w) ==
    [i \in DOMAIN rows |-> IF i \in existing(rows, key, w) THEN [rows[i] EXCEPT !.invalid = TRUE] ELSE rows[i]]

-----------------------------------------------------------------------------
(***************************************************************************)
(* The channel policy.                                                     *)
(***************************************************************************)
Granted(a, tier, evidence) ==
    resolver' = [resolver EXCEPT ![a] = [Idle EXCEPT !.pc = "done", !.granted = TRUE, !.tier = tier, !.evidence = evidence]]

Denied(a) == resolver' = [resolver EXCEPT ![a] = [Idle EXCEPT !.pc = "done"]]

(* What the row grants: the strategy's own risk (no tier) in the modes     *)
(* that only observe.                                                      *)
Answer(a, row, evidence) ==
    IF row.block # "none" \/ row.manual THEN Denied(a)
    ELSE Granted(a, IF row.mode = "automatic"
                       THEN (IF row.locked # NoLock THEN row.locked ELSE row.tier) ELSE NoLock,
                 evidence)

resolveEffectiveChannelRisk(a) ==
    /\ path = "legacy" /\ resolver[a].pc = "idle"
    /\ IF policy = NoPolicy THEN Granted(a, NoLock, "none")
       ELSE IF policy.block # "none" \/ policy.manual \/ policy.mode = "fixed" \/ policy.locked # NoLock
       THEN Answer(a, policy, "operator")
       ELSE resolver' = [resolver EXCEPT ![a] = [Idle EXCEPT !.pc = "evaluate", !.week = week, !.snap = policy]]
    /\ UNCHANGED <<policy, evaluations, path, state, pathEvaluations, closed, week, policies, saving, sourceChanges>>

(* evaluatePolicy inserts the week's evaluation and, for an automatic      *)
(* policy, writes tier and block back where the version is still the one   *)
(* read; the block written is that of the row read before the transaction. *)
evaluatePolicy(a) ==
    LET snap == resolver[a].snap
        w == resolver[a].week
        rows == existing(evaluations, snap.version, w)
        suggested == Suggested(evaluations, snap.tier, snap.locked, Performance(Traded, a, w))
        applied == IF snap.mode = "automatic" THEN suggested.tier ELSE snap.tier
    IN  /\ path = "legacy" /\ resolver[a].pc = "evaluate"
        /\ IF rows # {}
           THEN /\ resolver' = [resolver EXCEPT ![a].pc =
                                  IF \A i \in rows : assertCachedEvidence(evaluations[i], Traded, a)
                                  THEN "reread" ELSE "invalidate"]
                /\ UNCHANGED <<policy, evaluations>>
           ELSE IF ~collectChannelEvidence(Traded, a, w)
           THEN /\ resolver' = [resolver EXCEPT ![a].pc = "invalidate"]
                /\ UNCHANGED <<policy, evaluations>>
           ELSE /\ evaluations' = Append(evaluations, Evaluation(snap.version, w, snap.tier, suggested, applied,
                                                                 Source(Traded, a, w)))
                /\ policy' = IF snap.mode = "automatic" /\ policy.version = snap.version
                             THEN [policy EXCEPT !.tier = applied, !.block = BlockOf(suggested)] ELSE policy
                /\ resolver' = [resolver EXCEPT ![a].pc = "reread"]
        /\ UNCHANGED <<path, state, pathEvaluations, closed, week, policies, saving, sourceChanges>>

invalidateChannelEvaluation(a) ==
    LET snap == resolver[a].snap
    IN  /\ path = "legacy" /\ resolver[a].pc = "invalidate"
        /\ evaluations' = Invalidated(evaluations, snap.version, resolver[a].week)
        /\ policy' = IF snap.mode = "automatic" /\ policy.version = snap.version
                     THEN [policy EXCEPT !.block = "unresolved"] ELSE policy
        /\ resolver' = [resolver EXCEPT ![a].pc = "rereadFailed"]
        /\ UNCHANGED <<path, state, pathEvaluations, closed, week, policies, saving, sourceChanges>>

(* The row is read again and decides; a row deleted meanwhile makes        *)
(* policyFromRow throw, and the entry is not planned.                      *)
rereadPolicy(a) ==
    /\ path = "legacy" /\ resolver[a].pc \in {"reread", "rereadFailed"}
    /\ IF policy = NoPolicy THEN Denied(a)
       ELSE Answer(a, policy, IF resolver[a].pc = "reread" THEN "proved" ELSE "failed")
    /\ UNCHANGED <<policy, evaluations, path, state, pathEvaluations, closed, week, policies, saving, sourceChanges>>

(* An operator saves the policy: the version is counted up from the row    *)
(* read first, and the row written is a new configuration, unblocked.      *)
upsertChannelRiskPolicy ==
    /\ path = "legacy" /\ policies < MaxPolicies
    /\ saving' = Append(saving, policy.version)
    /\ policies' = policies + 1
    /\ UNCHANGED <<policy, evaluations, path, state, pathEvaluations, closed, week, resolver, sourceChanges>>

writesChannelRiskPolicy ==
    /\ \E i \in DOMAIN saving, c \in Configurations :
         /\ policy' = [mode |-> c.mode, tier |-> c.start, locked |-> c.locked, manual |-> c.manual,
                       block |-> IF c.manual THEN "manual" ELSE "none", version |-> saving[i] + 1]
         /\ saving' = RemoveAt(saving, i)
    /\ UNCHANGED <<evaluations, path, state, pathEvaluations, closed, week, resolver, policies, sourceChanges>>

deleteChannelRiskPolicy ==
    /\ path = "legacy" /\ policies < MaxPolicies /\ policy # NoPolicy
    /\ policy' = NoPolicy
    /\ policies' = policies + 1
    /\ UNCHANGED <<evaluations, path, state, pathEvaluations, closed, week, resolver, saving, sourceChanges>>

-----------------------------------------------------------------------------
(***************************************************************************)
(* The workflow's adaptive risk.  policy stands for the configuration the  *)
(* active path pins; its version for the hash of that configuration.       *)
(***************************************************************************)

(* loadWorkflowRiskState: a first use starts at the configured tier; a     *)
(* changed configuration keeps the earned tier and lifts blocks.  An       *)
(* unresolved block ends the resolution here.                              *)
loadWorkflowRiskState(a) ==
    LET stored == state[a]
        block == IF policy.manual THEN "manual" ELSE "none"
        row == IF stored = NoState THEN [hash |-> policy.version, tier |-> policy.tier, block |-> block]
               ELSE IF stored.hash # policy.version THEN [hash |-> policy.version, tier |-> stored.tier, block |-> block]
               ELSE stored
    IN  /\ path = "workflow" /\ resolver[a].pc = "idle" /\ policy # NoPolicy
        /\ state' = [state EXCEPT ![a] = row]
        /\ IF row.block = "unresolved" THEN Denied(a)
           ELSE resolver' = [resolver EXCEPT ![a] = [Idle EXCEPT !.pc = "evaluate", !.week = week, !.snap = policy, !.state = row]]
        /\ UNCHANGED <<policy, evaluations, path, pathEvaluations, closed, week, policies, saving, sourceChanges>>

resolvedWorkflowRisk(a, configuration, row, evidence) ==
    IF configuration.manual \/ row.block # "none" THEN Denied(a)
    ELSE Granted(a, IF configuration.mode # "automatic" THEN NoLock
                       ELSE IF configuration.locked # NoLock THEN configuration.locked ELSE row.tier,
                 evidence)

(* An evaluation writes tier and block of the state whole: a week without  *)
(* a block lifts the block of an earlier weak week.                        *)
evaluateWorkflowRiskState(a) ==
    LET c == resolver[a].snap
        row == resolver[a].state
        w == resolver[a].week
        rows == existing(pathEvaluations[a], c.version, w)
        suggested == Suggested(pathEvaluations[a], row.tier, c.locked, Performance({a}, a, w))
        automatic == c.mode = "automatic"
        next == [row EXCEPT !.tier = IF automatic THEN suggested.tier ELSE row.tier,
                            !.block = IF automatic THEN BlockOf(suggested) ELSE "none"]
    IN  /\ path = "workflow" /\ resolver[a].pc = "evaluate"
        /\ IF c.mode = "fixed" \/ c.locked # NoLock \/ c.manual
           THEN /\ resolvedWorkflowRisk(a, c, row, "operator")
                /\ UNCHANGED <<state, pathEvaluations>>
           ELSE IF rows # {} /\ \A i \in rows : assertCachedEvidence(pathEvaluations[a][i], {a}, a)
           THEN /\ resolvedWorkflowRisk(a, c, row, "proved")
                /\ UNCHANGED <<state, pathEvaluations>>
           ELSE IF rows # {} \/ ~collectChannelEvidence({a}, a, w)
           THEN /\ resolver' = [resolver EXCEPT ![a].pc = "invalidate"]
                /\ UNCHANGED <<state, pathEvaluations>>
           ELSE /\ pathEvaluations' = [pathEvaluations EXCEPT ![a] =
                       Append(@, Evaluation(c.version, w, row.tier, suggested, next.tier, Source({a}, a, w)))]
                /\ state' = [state EXCEPT ![a] = IF automatic THEN next ELSE @]
                /\ resolvedWorkflowRisk(a, c, next, "proved")
        /\ UNCHANGED <<policy, evaluations, path, closed, week, policies, saving, sourceChanges>>

invalidateWorkflowEvaluation(a) ==
    LET c == resolver[a].snap
        row == IF c.mode = "automatic" THEN [resolver[a].state EXCEPT !.block = "unresolved"] ELSE resolver[a].state
    IN  /\ path = "workflow" /\ resolver[a].pc = "invalidate"
        /\ pathEvaluations' = [pathEvaluations EXCEPT ![a] = Invalidated(@, c.version, resolver[a].week)]
        /\ state' = [state EXCEPT ![a] = IF c.mode = "automatic" /\ @.hash = c.version
                                         THEN [@ EXCEPT !.block = "unresolved"] ELSE @]
        /\ resolvedWorkflowRisk(a, c, row, "failed")
        /\ UNCHANGED <<policy, evaluations, path, closed, week, policies, saving, sourceChanges>>

(* Another version of the risk resource is activated.                      *)
activateConfiguration ==
    /\ path = "workflow" /\ policies < MaxPolicies
    /\ \E c \in Configurations :
         policy' = [mode |-> c.mode, tier |-> c.start, locked |-> c.locked, manual |-> c.manual,
                    block |-> "none", version |-> policy.version + 1]
    /\ policies' = policies + 1
    /\ UNCHANGED <<evaluations, path, state, pathEvaluations, closed, week, resolver, saving, sourceChanges>>

-----------------------------------------------------------------------------
(* The engine goes on to the next entry of the account.                    *)
nextEntry(a) ==
    /\ resolver[a].pc = "done"
    /\ resolver' = [resolver EXCEPT ![a] = Idle]
    /\ UNCHANGED <<policy, evaluations, path, state, pathEvaluations, closed, week, policies, saving, sourceChanges>>

(* Monday: the results of the week that ended become what entries use.     *)
weekEnds ==
    /\ week < MaxWeeks
    /\ week' = week + 1
    /\ \E results \in [Traded -> Result] :
         closed' = [a \in Traded |-> [closed[a] EXCEPT ![week'].result = results[a]]]
    /\ UNCHANGED <<policy, evaluations, path, state, pathEvaluations, resolver, policies, saving, sourceChanges>>

(* Late fees or a corrected rate change the money evidence of a week.      *)
evidenceChanges ==
    /\ sourceChanges < MaxChanges
    /\ \E a \in Traded, r \in Result :
         closed' = [closed EXCEPT ![a][week] = [result |-> r, hash |-> @.hash + 1]]
    /\ sourceChanges' = sourceChanges + 1
    /\ UNCHANGED <<policy, evaluations, path, state, pathEvaluations, week, resolver, policies, saving>>

AdaptiveInit ==
    /\ path \in {"legacy", "workflow"}
    /\ policy = NoPolicy /\ evaluations = <<>>
    /\ state = [a \in Traded |-> NoState]
    /\ pathEvaluations = [a \in Traded |-> <<>>]
    /\ \E results \in [Traded -> Result] :
         closed = [a \in Traded |-> [w \in 1..MaxWeeks |-> [result |-> IF w = 1 THEN results[a] ELSE "few", hash |-> 0]]]
    /\ week = 1
    /\ resolver = [a \in Account |-> Idle]
    /\ policies = 0 /\ saving = <<>> /\ sourceChanges = 0

AdaptiveNext ==
    \/ \E a \in Account :
         \/ resolveEffectiveChannelRisk(a) \/ evaluatePolicy(a) \/ invalidateChannelEvaluation(a) \/ rereadPolicy(a)
         \/ nextEntry(a)
    \/ \E a \in Traded :
         loadWorkflowRiskState(a) \/ evaluateWorkflowRiskState(a) \/ invalidateWorkflowEvaluation(a)
    \/ upsertChannelRiskPolicy \/ writesChannelRiskPolicy \/ deleteChannelRiskPolicy
    \/ activateConfiguration
    \/ weekEnds \/ evidenceChanges

-----------------------------------------------------------------------------
(***************************************************************************)
(* A week counts once.  However many entries of however many accounts ask, *)
(* a policy version (a configuration of an account's path) evaluates a     *)
(* week at most once and moves by at most one tier for it, and the tier in *)
(* force is one an evaluation applied or the operator set.                 *)
(***************************************************************************)
CountedOnce(rows) ==
    /\ \A i, j \in DOMAIN rows : rows[i].key = rows[j].key /\ rows[i].week = rows[j].week => i = j
    /\ \A i \in DOMAIN rows : /\ rows[i].applied <= rows[i].previous + 1
                              /\ rows[i].previous <= rows[i].applied + 1

WeeksCountOnce == CountedOnce(evaluations) /\ \A a \in Traded : CountedOnce(pathEvaluations[a])

(***************************************************************************)
(* Along a workflow path a tier of an automatic policy is granted only     *)
(* when the operator locked it or on evidence proved for this resolution:  *)
(* an evaluation whose sources changed never backs a grant again.          *)
(***************************************************************************)
PathGrantsAreProved ==
    path = "workflow" =>
        \A a \in Traded : resolver[a].granted /\ resolver[a].tier # NoLock => resolver[a].evidence \in {"proved", "operator"}

(***************************************************************************)
(* "Automatic stays blocked until an expressly new policy": once the       *)
(* evidence of an automatic policy was found unresolved, only another      *)
(* configuration lifts the block of a path, and for a channel no entry of  *)
(* the same week does once the week's evaluation was invalidated.          *)
(***************************************************************************)
UnresolvedStays(before, after) == before.block = "unresolved" => after.block = "unresolved"

PathBlockHolds(before, after) == before.hash = after.hash => UnresolvedStays(before, after)

ChannelBlockHolds(before, after) ==
    /\ before.version = after.version
    /\ \E i \in existing(evaluations, before.version, week) : evaluations[i].invalid
    => UnresolvedStays(before, after)

AdaptiveBlocksHold ==
    IF path = "workflow" THEN \A a \in Traded : PathBlockHolds(state[a], state'[a])
    ELSE Len(saving') < Len(saving) \/ ChannelBlockHolds(policy, policy')
=============================================================================
