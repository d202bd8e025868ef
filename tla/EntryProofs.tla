---------------------------- MODULE EntryProofs ----------------------------
(***************************************************************************)
(* The steps of EntryDispatch from the hand-off of an entry on, with the    *)
(* drain, the venue and the reconciliation of what it reports, and then     *)
(* the theorems.                                                            *)
(***************************************************************************)
EXTENDS EntrySteps

\* The request leaves once, journaled, under the account's mutex (sendProtectedEntry).
LEMMA Keeps_sendProtectedEntry ==
  ASSUME Inv, sendProtectedEntry
  PROVE  Inv'
<1>1. /\ wpc = "dispatching" /\ wpc' = "waiting"
      /\ venue' = [venue EXCEPT ![wc] = IF @ = "absent" THEN "inflight" ELSE @]
      /\ sends' = [sends EXCEPT ![wc] = @ + 1]
      /\ drained' = [drained EXCEPT ![acct(wc)] = FALSE]
      /\ entrySafe(wc, TRUE)
      /\ UNCHANGED <<intent, order, position, op, run, rank, last, stage, caller, target, wc>>
  BY DEF sendProtectedEntry, workerAt, goto, rows, fallback, mutexes
<1>2. /\ wc \in Cands /\ acct(wc) \in Ranks /\ RowsAgree(wc) /\ RunsAgree(wc) /\ WorkerAgrees
      /\ venue \in [Cands -> Answered \cup {"absent", "inflight"}] /\ sends \in [Cands -> Nat]
      /\ drained \in [Ranks -> BOOLEAN]
  BY <1>1, CandParts DEF Inv, Types, IInv, acct
<1>3. /\ sends[wc] = 0 /\ venue[wc] = "absent" /\ op[wc] = "dispatching"
      /\ intent[wc] \in {"planned", "submitting"} /\ run[wc[1]] # "probing"
      /\ \A d \in On(acct(wc)) \ {wc} : position[d] \notin Active
  BY <1>1, <1>2 DEF WorkerAgrees, RowsAgree
<1>4. order[wc] \in {"created", "submitting"} /\ position[wc] = "opening"
  BY <1>1, <1>3 DEF entrySafe, candidateNeverSent, hasUndispatchedPlanProof
<1>5. /\ venue'[wc] = "inflight" /\ sends'[wc] = 1
      /\ \A d \in Cands \ {wc} : venue'[d] = venue[d] /\ sends'[d] = sends[d]
  <2>1. venue'[wc] = "inflight" /\ \A d \in Cands \ {wc} : venue'[d] = venue[d]
    BY <1>1, <1>2, <1>3
  <2>2. sends'[wc] = sends[wc] + 1 /\ \A d \in Cands \ {wc} : sends'[d] = sends[d]
    BY <1>1, <1>2
  <2>3. sends[wc] + 1 = 1
    BY <1>3
  <2> QED
    BY <2>1, <2>2, <2>3
<1>6. /\ drained'[acct(wc)] = FALSE
      /\ \A a \in Ranks \ {acct(wc)} : drained'[a] = drained[a]
  BY <1>1, <1>2
<1>7. Types'
  <2>1. /\ venue' \in [Cands -> Answered \cup {"absent", "inflight"}]
        /\ sends' \in [Cands -> Nat] /\ drained' \in [Ranks -> BOOLEAN]
    BY <1>1, <1>2
  <2> QED
    BY <1>1, <1>2, <2>1 DEF Inv, Types, WorkerSteps
<1>8. \A d \in Cands : RowsAgree(d)'
  <2> TAKE d \in Cands
  <2>1. CASE d = wc
    <3>1. /\ venue'[d] = "inflight" /\ op'[d] = "dispatching"
          /\ order'[d] \in {"created", "submitting"} /\ position'[d] = "opening"
          /\ intent'[d] \in {"planned", "submitting"}
      BY <1>1, <1>3, <1>4, <1>5, <2>1
    <3>2. sends'[d] <= 1 /\ sends'[d] # 0
      BY <1>5, <2>1
    <3> QED
      BY <3>1, <3>2 DEF RowsAgree, Live
  <2>2. CASE d # wc
    <3>1. RowsAgree(d)
      BY DEF Inv, IInv
    <3> QED
      BY <1>1, <1>5, <2>2, <3>1, RowKept
  <2> QED
    BY <2>1, <2>2
<1>9. \A d \in Cands : RunsAgree(d)'
  <2> TAKE d \in Cands
  <2>1. RunsAgree(d)
    BY DEF Inv, IInv
  <2>2. CASE d = wc
    BY <1>1, <1>3, <2>1, <2>2 DEF RunsAgree, SettledIntent
  <2>3. CASE d # wc
    BY <1>1, <1>5, <2>1, <2>3 DEF RunsAgree
  <2> QED
    BY <2>2, <2>3
<1>10. \A b \in Ranks : MutexAgrees(b)'
  <2>1. wpc \in Between /\ wpc' \in Between
    BY <1>1 DEF Between, WorkerSteps
  <2> QED
    BY <1>1, <2>1, MutexKept DEF Inv
<1>11. WorkerAgrees'
  BY <1>1, <1>3 DEF WorkerAgrees
<1>12. OneOwnerPerSymbol'
  <2>1. \A d \in On(acct(wc)) \ {wc} : venue[d] \notin Live
    BY <1>3, LiveIsActive DEF On
  <2>2. \A d \in Cands : acct(d) = acct(wc) /\ venue'[d] \in Live => d = wc
    BY <1>5, <2>1 DEF On
  <2>3. OneOwnerPerSymbol
    BY DEF Inv, IInv
  <2> SUFFICES ASSUME NEW c \in Cands, NEW d \in Cands, acct(c) = acct(d),
                      venue'[c] \in Live, venue'[d] \in Live
               PROVE  c = d
    BY DEF OneOwnerPerSymbol, Live
  <2>4. CASE c = wc \/ d = wc
    BY <2>2, <2>4
  <2>5. CASE c # wc /\ d # wc
    BY <1>5, <2>3, <2>5 DEF OneOwnerPerSymbol
  <2> QED
    BY <2>4, <2>5
<1>13. DrainedIsDrained'
  <2>1. DrainedIsDrained
    BY DEF Inv, IInv
  <2> SUFFICES ASSUME NEW a \in Ranks, drained'[a], NEW c \in On(a)
               PROVE  venue'[c] \notin {"inflight", "open"}
    BY DEF DrainedIsDrained, On
  <2>2. a # acct(wc) /\ drained[a]
    BY <1>6
  <2>3. c \in Cands /\ c # wc
    BY <2>2 DEF On
  <2> QED
    BY <1>5, <2>1, <2>2, <2>3 DEF DrainedIsDrained
<1> QED
  BY <1>7, <1>8, <1>9, <1>10, <1>11, <1>12, <1>13 DEF Inv, IInv

\* A write that was never sent is journaled as abandoned (recordWriteFailure).
LEMMA Keeps_recordUnsent ==
  ASSUME Inv, recordUnsent
  PROVE  Inv'
<1>1. /\ wpc = "unsent" /\ wpc' \in {"abandon"}
      /\ UNCHANGED <<intent, order, position, run, rank, last, venue, sends, drained, stage, caller, target, wc>>
      /\ op' = [op EXCEPT ![wc] = "abandoned"]
  BY DEF recordUnsent, workerAt, goto, fail, rows, world, fallback, mutexes
<1>2. /\ wc \in Cands /\ RowsAgree(wc) /\ RowTypes /\ WorkerAgrees
      /\ sends[wc] \in Nat
  BY <1>1 DEF Inv, Types, IInv, RowTypes
<1>3. sends[wc] = 0 /\ intent[wc] \in {"planned", "submitting"}
  BY <1>1, <1>2 DEF WorkerAgrees
<1>4. /\ RowTypes' /\ Only(wc)
      /\ op'[wc] = "abandoned"
  BY <1>1, <1>2, <1>3 DEF RowTypes, Only, Phases
<1>5. Types'
  BY <1>1, <1>2, <1>4, WorkerTypes DEF Inv, Between, WorkerSteps
<1>6. RowsAgree(wc)'
  BY <1>1, <1>2, <1>3, <1>4 DEF RowsAgree, Live
<1>7. \A d \in Cands : RowsAgree(d)'
  BY <1>1, <1>2, <1>4, <1>6, OneRow DEF Inv, Only
<1>8. \A d \in Cands : RunsAgree(d)'
  BY <1>1, <1>3, <1>4, RunsKept DEF Inv, Only, SettledIntent
<1>9. \A b \in Ranks : MutexAgrees(b)'
  <2>1. \A d \in Cands : order[d] # "none" => order'[d] # "none"
    BY <1>1, <1>2, <1>4 DEF Only, ORDER_STATUSES
  <2>2. wpc \in Between /\ wpc' \in Between
    BY <1>1 DEF Between, WorkerSteps
  <2> QED
    BY <1>1, <2>1, <2>2, MutexKept DEF Inv
<1>10. WorkerAgrees'
  BY <1>1, <1>2, <1>3, <1>4 DEF WorkerAgrees, Only, On
<1>11. OneOwnerPerSymbol' /\ DrainedIsDrained'
  BY <1>1, VenueKept DEF Inv
<1> QED
  BY <1>5, <1>7, <1>8, <1>9, <1>10, <1>11 DEF Inv, IInv

\* Its reservation is given back on that proof (abandonUndispatchedPlan).
LEMMA Keeps_abandonUnsent ==
  ASSUME Inv, abandonUnsent
  PROVE  Inv'
<1>1. /\ wpc = "abandon" /\ wpc' \in {"failing"}
      /\ UNCHANGED <<intent, run, rank, last, venue, sends, drained, stage, caller, target, wc>>
      /\ err' = err
      /\ abandonUndispatchedPlan(wc)
  BY DEF abandonUnsent, workerAt, goto, fail, rows, world, fallback, mutexes
<1>2. /\ wc \in Cands /\ RowsAgree(wc) /\ RowTypes /\ WorkerAgrees
      /\ sends[wc] \in Nat
  BY <1>1 DEF Inv, Types, IInv, RowTypes
<1>3. sends[wc] = 0 /\ intent[wc] \notin {"none", "completed"}
  BY <1>1, <1>2 DEF WorkerAgrees, RowsAgree
<1>4. /\ RowTypes' /\ Only(wc)
      /\ \/ order'[wc] = order[wc] /\ op'[wc] = op[wc] /\ position'[wc] = position[wc]
         \/ /\ intent[wc] \in {"planned", "submitting"}
            /\ order'[wc] = "cancelled" /\ position'[wc] = "closed" /\ op'[wc] \in {"none", "abandoned"}
  <2>1. CASE UNCHANGED <<order, op, position>>
    BY <1>1, <1>2, <2>1 DEF RowTypes, Only
  <2>2. CASE /\ intent[wc] \in {"planned", "submitting"}
             /\ order' = [order EXCEPT ![wc] = "cancelled"]
             /\ op' = [op EXCEPT ![wc] = op'[wc]] /\ op'[wc] \in {"none", "abandoned"}
             /\ position' = [position EXCEPT ![wc] = "closed"]
    BY <1>1, <1>2, <2>2 DEF RowTypes, Only, Phases, ORDER_STATUSES
  <2> QED
    BY <1>1, <1>2, <2>1, <2>2, Abandons
<1>5. Types'
  BY <1>1, <1>2, <1>4, WorkerTypes DEF Inv, Between, WorkerSteps
<1>6. RowsAgree(wc)'
  BY <1>1, <1>2, <1>3, <1>4 DEF RowsAgree, Live
<1>7. \A d \in Cands : RowsAgree(d)'
  BY <1>1, <1>2, <1>4, <1>6, OneRow DEF Inv, Only
<1>8. \A d \in Cands : RunsAgree(d)'
  BY <1>1, <1>3, <1>4, RunsKept DEF Inv, Only, SettledIntent
<1>9. \A b \in Ranks : MutexAgrees(b)'
  <2>1. \A d \in Cands : order[d] # "none" => order'[d] # "none"
    BY <1>1, <1>2, <1>4 DEF Only, ORDER_STATUSES
  <2>2. wpc \in Between /\ wpc' \in Between
    BY <1>1 DEF Between, WorkerSteps
  <2> QED
    BY <1>1, <2>1, <2>2, MutexKept DEF Inv
<1>10. WorkerAgrees'
  BY <1>1, <1>2, <1>3, <1>4 DEF WorkerAgrees, Only, On
<1>11. OneOwnerPerSymbol' /\ DrainedIsDrained'
  BY <1>1, VenueKept DEF Inv
<1> QED
  BY <1>5, <1>7, <1>8, <1>9, <1>10, <1>11 DEF Inv, IInv

\* An answer settles the row as the venue has it (runJournaledExchangeWrite).
LEMMA Keeps_replyAcknowledged ==
  ASSUME Inv, replyAcknowledged
  PROVE  Inv'
<1>1. /\ wpc = "waiting" /\ wpc' \in {"acked"}
      /\ UNCHANGED <<intent, position, run, rank, last, venue, sends, drained, stage, caller, target, wc>>
      /\ venue[wc] \in Answered
      /\ order' = [order EXCEPT ![wc] = persisted(wc, venueStatus(wc))]
      /\ op' = [op EXCEPT ![wc] = "acknowledged"]
  BY DEF replyAcknowledged, workerAt, goto, fail, rows, world, fallback, mutexes
<1>2. /\ wc \in Cands /\ RowsAgree(wc) /\ RowTypes /\ WorkerAgrees
      /\ sends[wc] \in Nat
  BY <1>1 DEF Inv, Types, IInv, RowTypes
<1>3. intent[wc] \in {"planned", "submitting"}
  BY <1>1, <1>2 DEF WorkerAgrees
<1>4. /\ RowTypes' /\ Only(wc)
      /\ order'[wc] = persisted(wc, venueStatus(wc)) /\ op'[wc] = "acknowledged"
      /\ order'[wc] \in ORDER_STATUSES /\ Tells(order'[wc], venue[wc])
  <2>1. /\ persisted(wc, venueStatus(wc)) \in ORDER_STATUSES
        /\ Tells(persisted(wc, venueStatus(wc)), venue[wc])
    BY <1>1, <1>2, PersistedTells
  <2> DEFINE p == persisted(wc, venueStatus(wc))
  <2>2. order' = [order EXCEPT ![wc] = p] /\ p \in ORDER_STATUSES /\ Tells(p, venue[wc])
    BY <1>1, <2>1
  <2> HIDE DEF p
  <2>3. /\ order'[wc] = p /\ order' \in [Cands -> ORDER_STATUSES \cup {"none"}]
        /\ \A d \in Cands \ {wc} : order'[d] = order[d]
    BY <1>2, <2>2 DEF RowTypes
  <2>4. /\ op'[wc] = "acknowledged" /\ op' \in [Cands -> Phases]
        /\ \A d \in Cands \ {wc} : op'[d] = op[d]
    BY <1>1, <1>2 DEF RowTypes, Phases, Pending
  <2>5. RowTypes' /\ Only(wc)
    BY <1>1, <1>2, <2>3, <2>4 DEF RowTypes, Only
  <2> QED
    BY <2>2, <2>3, <2>4, <2>5 DEF p
<1>5. Types'
  BY <1>1, <1>2, <1>4, WorkerTypes DEF Inv, Between, WorkerSteps
<1>6. RowsAgree(wc)'
  BY <1>1, <1>2, <1>3, <1>4 DEF RowsAgree, Live, Tells, ORDER_STATUSES
<1>7. \A d \in Cands : RowsAgree(d)'
  BY <1>1, <1>2, <1>4, <1>6, OneRow DEF Inv, Only
<1>8. \A d \in Cands : RunsAgree(d)'
  BY <1>1, <1>3, <1>4, RunsKept DEF Inv, Only, SettledIntent
<1>9. \A b \in Ranks : MutexAgrees(b)'
  <2>1. \A d \in Cands : order[d] # "none" => order'[d] # "none"
    BY <1>1, <1>2, <1>4 DEF Only, ORDER_STATUSES
  <2>2. wpc \in Between /\ wpc' \in Between
    BY <1>1 DEF Between, WorkerSteps
  <2> QED
    BY <1>1, <2>1, <2>2, MutexKept DEF Inv
<1>10. WorkerAgrees'
  BY <1>1, <1>2, <1>3, <1>4 DEF WorkerAgrees, Only, On
<1>11. OneOwnerPerSymbol' /\ DrainedIsDrained'
  BY <1>1, VenueKept DEF Inv
<1> QED
  BY <1>5, <1>7, <1>8, <1>9, <1>10, <1>11 DEF Inv, IInv

\* An unclear answer leaves the outcome open (acknowledgement).
LEMMA Keeps_replyUnclear ==
  ASSUME Inv, replyUnclear
  PROVE  Inv'
<1>1. /\ wpc = "waiting" /\ wpc' \in {"failing"}
      /\ UNCHANGED <<intent, position, run, rank, last, venue, sends, drained, stage, caller, target, wc>>
      /\ err' = "ERROR"
      /\ order' = [order EXCEPT ![wc] = persisted(wc, "unknown")]
      /\ op' = [op EXCEPT ![wc] = "unresolved"]
  BY DEF replyUnclear, workerAt, goto, fail, rows, world, fallback, mutexes
<1>2. /\ wc \in Cands /\ RowsAgree(wc) /\ RowTypes /\ WorkerAgrees
      /\ sends[wc] \in Nat
  BY <1>1 DEF Inv, Types, IInv, RowTypes
<1>3. intent[wc] \in {"planned", "submitting"}
  BY <1>1, <1>2 DEF WorkerAgrees
<1>4. /\ RowTypes' /\ Only(wc)
      /\ op'[wc] = "unresolved"
      /\ order'[wc] \in ORDER_STATUSES /\ Tells(order'[wc], venue[wc])
  <2> DEFINE p == persisted(wc, "unknown")
  <2>1. p \in ORDER_STATUSES /\ Tells(p, venue[wc])
    BY <1>2, PersistedTells
  <2>2. order' = [order EXCEPT ![wc] = p]
    BY <1>1
  <2> HIDE DEF p
  <2>3. /\ order'[wc] = p /\ order' \in [Cands -> ORDER_STATUSES \cup {"none"}]
        /\ \A d \in Cands \ {wc} : order'[d] = order[d]
    BY <1>2, <2>1, <2>2 DEF RowTypes
  <2>4. /\ op'[wc] = "unresolved" /\ op' \in [Cands -> Phases]
        /\ \A d \in Cands \ {wc} : op'[d] = op[d]
    BY <1>1, <1>2 DEF RowTypes, Phases, Pending
  <2>5. RowTypes' /\ Only(wc)
    BY <1>1, <1>2, <2>3, <2>4 DEF RowTypes, Only
  <2> QED
    BY <2>1, <2>3, <2>4, <2>5
<1>5. Types'
  BY <1>1, <1>2, <1>4, WorkerTypes DEF Inv, Between, WorkerSteps
<1>6. RowsAgree(wc)'
  BY <1>1, <1>2, <1>3, <1>4 DEF RowsAgree, Live, Tells, ORDER_STATUSES
<1>7. \A d \in Cands : RowsAgree(d)'
  BY <1>1, <1>2, <1>4, <1>6, OneRow DEF Inv, Only
<1>8. \A d \in Cands : RunsAgree(d)'
  BY <1>1, <1>3, <1>4, RunsKept DEF Inv, Only, SettledIntent
<1>9. \A b \in Ranks : MutexAgrees(b)'
  <2>1. \A d \in Cands : order[d] # "none" => order'[d] # "none"
    BY <1>1, <1>2, <1>4 DEF Only, ORDER_STATUSES
  <2>2. wpc \in Between /\ wpc' \in Between
    BY <1>1 DEF Between, WorkerSteps
  <2> QED
    BY <1>1, <2>1, <2>2, MutexKept DEF Inv
<1>10. WorkerAgrees'
  BY <1>1, <1>2, <1>3, <1>4 DEF WorkerAgrees, Only, On, FallbackReasons
<1>11. OneOwnerPerSymbol' /\ DrainedIsDrained'
  BY <1>1, VenueKept DEF Inv
<1> QED
  BY <1>5, <1>7, <1>8, <1>9, <1>10, <1>11 DEF Inv, IInv

\* A lost answer leaves the operation unresolved (recordWriteFailure).
LEMMA Keeps_replyFails ==
  ASSUME Inv, replyFails
  PROVE  Inv'
<1>1. /\ wpc = "waiting" /\ wpc' \in {"wfail"}
      /\ UNCHANGED <<intent, order, position, run, rank, last, venue, sends, drained, stage, caller, target, wc>>
      /\ op' = [op EXCEPT ![wc] = "unresolved"]
  BY DEF replyFails, workerAt, goto, fail, rows, world, fallback, mutexes
<1>2. /\ wc \in Cands /\ RowsAgree(wc) /\ RowTypes /\ WorkerAgrees
      /\ sends[wc] \in Nat
  BY <1>1 DEF Inv, Types, IInv, RowTypes
<1>3. intent[wc] \in {"planned", "submitting"}
  BY <1>1, <1>2 DEF WorkerAgrees
<1>4. /\ RowTypes' /\ Only(wc)
      /\ op'[wc] = "unresolved"
  BY <1>1, <1>2, <1>3 DEF RowTypes, Only, Phases, Pending
<1>5. Types'
  BY <1>1, <1>2, <1>4, WorkerTypes DEF Inv, Between, WorkerSteps
<1>6. RowsAgree(wc)'
  BY <1>1, <1>2, <1>3, <1>4 DEF RowsAgree, Live
<1>7. \A d \in Cands : RowsAgree(d)'
  BY <1>1, <1>2, <1>4, <1>6, OneRow DEF Inv, Only
<1>8. \A d \in Cands : RunsAgree(d)'
  BY <1>1, <1>3, <1>4, RunsKept DEF Inv, Only, SettledIntent
<1>9. \A b \in Ranks : MutexAgrees(b)'
  <2>1. \A d \in Cands : order[d] # "none" => order'[d] # "none"
    BY <1>1, <1>2, <1>4 DEF Only, ORDER_STATUSES
  <2>2. wpc \in Between /\ wpc' \in Between
    BY <1>1 DEF Between, WorkerSteps
  <2> QED
    BY <1>1, <2>1, <2>2, MutexKept DEF Inv
<1>10. WorkerAgrees'
  BY <1>1, <1>2, <1>3, <1>4 DEF WorkerAgrees, Only, On
<1>11. OneOwnerPerSymbol' /\ DrainedIsDrained'
  BY <1>1, VenueKept DEF Inv
<1> QED
  BY <1>5, <1>7, <1>8, <1>9, <1>10, <1>11 DEF Inv, IInv

\* The order of a lost answer becomes unknown (submitTrackedProtectedEntry).
LEMMA Keeps_markUnknown ==
  ASSUME Inv, markUnknown
  PROVE  Inv'
<1>1. /\ wpc = "wfail" /\ wpc' \in {"failing"}
      /\ UNCHANGED <<intent, position, op, run, rank, last, venue, sends, drained, stage, caller, target, wc>>
      /\ \E s : /\ order' = [order EXCEPT ![wc] = s] /\ s \in ORDER_STATUSES \cup {order[wc]}
                /\ Tells(s, venue[wc])
  <2>0. wpc = "wfail" => wc \in Cands
    BY DEF Inv, Types
  <2>1. wpc = "wfail" => order[wc] \in ORDER_STATUSES \cup {"none"} /\ Tells(order[wc], venue[wc])
    BY <2>0 DEF Inv, Types, IInv, RowsAgree, Tells
  <2> DEFINE u == IF order[wc] \in {"created", "submitting", "unknown"} THEN "unknown" ELSE order[wc]
             Good(s) == s \in ORDER_STATUSES \cup {order[wc]} /\ Tells(s, venue[wc])
  <2>2. /\ wpc = "wfail"
        /\ \/ order' = [order EXCEPT ![wc] = u]
           \/ /\ venue[wc] \in Answered
              /\ \E f \in {0, 1} : order' = [order EXCEPT ![wc] = mergedStatus(u, venueStatus(wc), f, 1)]
    BY DEF markUnknown, workerAt
  <2>3. u \in ORDER_STATUSES \cup {"none"} /\ Good(u) /\ Tells(u, venue[wc])
    BY <2>1, <2>2 DEF Tells, ORDER_STATUSES
  <2> HIDE DEF u
  <2>4. \A f : venue[wc] \in Answered => Good(mergedStatus(u, venueStatus(wc), f, 1))
    BY <2>3, MergeTells DEF venueStatus
  <2> HIDE DEF Good
  <2>5. \E s : order' = [order EXCEPT ![wc] = s] /\ Good(s)
    BY <2>2, <2>3, <2>4
  <2>6. /\ wpc = "wfail" /\ wpc' = "failing"
        /\ UNCHANGED <<intent, position, op, run, rank, last, venue, sends, drained, stage, caller,
                       target, wc>>
    BY DEF markUnknown, workerAt, goto, world, fallback, mutexes
  <2> QED
    BY <2>5, <2>6 DEF Good
<1>2. /\ wc \in Cands /\ RowsAgree(wc) /\ RowTypes /\ WorkerAgrees
      /\ sends[wc] \in Nat
  BY <1>1 DEF Inv, Types, IInv, RowTypes
<1>3. intent[wc] \in {"planned", "submitting"}
  BY <1>1, <1>2 DEF WorkerAgrees
<1>4. /\ RowTypes' /\ Only(wc)
      /\ order'[wc] # "none" \/ order'[wc] = order[wc]
      /\ Tells(order'[wc], venue[wc])
  <2>1. PICK s : /\ order' = [order EXCEPT ![wc] = s] /\ s \in ORDER_STATUSES \cup {order[wc]}
                 /\ Tells(s, venue[wc])
    BY <1>1
  <2>2. "none" \notin ORDER_STATUSES
    BY DEF ORDER_STATUSES
  <2>3. order'[wc] = s /\ RowTypes' /\ Only(wc)
    BY <1>1, <1>2, <2>1 DEF RowTypes, Only
  <2> QED
    BY <2>1, <2>2, <2>3
<1>5. Types'
  BY <1>1, <1>2, <1>4, WorkerTypes DEF Inv, Between, WorkerSteps
<1>6. RowsAgree(wc)'
  BY <1>1, <1>2, <1>3, <1>4 DEF RowsAgree, Live, Tells
<1>7. \A d \in Cands : RowsAgree(d)'
  BY <1>1, <1>2, <1>4, <1>6, OneRow DEF Inv, Only
<1>8. \A d \in Cands : RunsAgree(d)'
  BY <1>1, <1>3, <1>4, RunsKept DEF Inv, Only, SettledIntent
<1>9. \A b \in Ranks : MutexAgrees(b)'
  <2>1. \A d \in Cands : order[d] # "none" => order'[d] # "none"
    BY <1>1, <1>2, <1>4 DEF Only, ORDER_STATUSES
  <2>2. wpc \in Between /\ wpc' \in Between
    BY <1>1 DEF Between, WorkerSteps
  <2> QED
    BY <1>1, <2>1, <2>2, MutexKept DEF Inv
<1>10. WorkerAgrees'
  BY <1>1, <1>2, <1>3, <1>4 DEF WorkerAgrees, Only, On, FallbackReasons
<1>11. OneOwnerPerSymbol' /\ DrainedIsDrained'
  BY <1>1, VenueKept DEF Inv
<1> QED
  BY <1>5, <1>7, <1>8, <1>9, <1>10, <1>11 DEF Inv, IInv

\* An acknowledged entry is protected or left to the loop (submitInitialExits).
LEMMA Keeps_entryAcknowledged ==
  ASSUME Inv, entryAcknowledged
  PROVE  Inv'
<1>1. /\ wpc = "acked"
      /\ UNCHANGED <<intent, order, op, run, rank, last, venue, sends, drained, target, wc>>
  BY DEF entryAcknowledged, workerAt, goto, fail, beginReconcile, fallback, world, mutexes
<1>2. \/ wpc' \in {"failing", "finish"} /\ UNCHANGED <<position, stage, caller>>
      \/ /\ wpc' = "failing" /\ UNCHANGED <<stage, caller>>
         /\ position' = [position EXCEPT ![wc] = IF @ \in Active THEN "emergency" ELSE @]
      \/ /\ wpc' = "exits" /\ stage' = [stage EXCEPT ![acct(wc)] = "drain"]
         /\ caller' = [caller EXCEPT ![acct(wc)] = "exits"]
         /\ position' = [position EXCEPT ![wc] = IF order[wc] = "filled" THEN "open" ELSE @]
  BY DEF entryAcknowledged, goto, fail, beginReconcile, emergencyExit, mutexes
<1>3. /\ wc \in Cands /\ acct(wc) \in Ranks /\ RowsAgree(wc) /\ RowTypes
      /\ stage \in [Ranks -> Stages] /\ caller \in [Ranks -> Callers]
      /\ intent[wc] \in {"planned", "submitting"}
  BY <1>1, CandParts DEF Inv, Types, IInv, WorkerAgrees, RowTypes, acct
<1>4. stage[acct(wc)] = "idle" /\ wpc \in Between
  BY <1>1, WorkerExcludes DEF Between, WorkerSteps
<1>5. /\ position' \in [Cands -> Active \cup {"none", "closed"}]
      /\ \A d \in Cands \ {wc} : position'[d] = position[d]
      /\ position'[wc] = position[wc] \/ (position'[wc] \in Active /\ position[wc] \in Active)
         \/ (order[wc] = "filled" /\ position'[wc] \in Active)
  <2>1. CASE UNCHANGED position
    BY <1>3, <2>1 DEF RowTypes
  <2>2. CASE position' = [position EXCEPT ![wc] = IF @ \in Active THEN "emergency" ELSE @]
    BY <1>3, <2>2 DEF RowTypes, Active
  <2>3. CASE position' = [position EXCEPT ![wc] = IF order[wc] = "filled" THEN "open" ELSE @]
    BY <1>3, <2>3 DEF RowTypes, Active
  <2> QED
    BY <1>2, <2>1, <2>2, <2>3
<1>6. /\ stage' \in [Ranks -> Stages] /\ caller' \in [Ranks -> Callers]
      /\ \A b \in Ranks \ {acct(wc)} : stage'[b] = stage[b] /\ caller'[b] = caller[b]
      /\ \/ UNCHANGED <<stage, caller>> /\ wpc' \in {"failing", "finish"}
         \/ /\ wpc' = "exits" /\ stage'[acct(wc)] = "drain" /\ caller'[acct(wc)] = "exits"
  BY <1>2, <1>3 DEF Stages, Callers
<1>7. Types'
  <2>1. wpc' \in WorkerSteps /\ wpc' # "idle"
    BY <1>2 DEF WorkerSteps
  <2> QED
    BY <1>1, <1>3, <1>5, <1>6, <2>1 DEF Inv, Types
<1>8. RowsAgree(wc)'
  <2>1. "none" \notin Active /\ "closed" \notin Active
    BY DEF Active
  <2> QED
    BY <1>1, <1>3, <1>5, <2>1 DEF RowsAgree, Live
<1>9. \A d \in Cands : RowsAgree(d)'
  BY <1>1, <1>3, <1>5, <1>8, OneRow DEF Inv
<1>10. \A d \in Cands : RunsAgree(d)'
  BY <1>1, RunsKept DEF Inv
<1>11. \A b \in Ranks : MutexAgrees(b)'
  <2>1. "failing" \in Between /\ "finish" \in Between
    BY DEF Between, WorkerSteps
  <2> QED
    BY <1>1, <1>3, <1>4, <1>6, <2>1, WorkerEnters DEF Inv
<1>12. WorkerAgrees'
  BY <1>1, <1>2, <1>3 DEF WorkerAgrees
<1>13. OneOwnerPerSymbol' /\ DrainedIsDrained'
  BY <1>1, VenueKept DEF Inv
<1> QED
  BY <1>7, <1>9, <1>10, <1>11, <1>12, <1>13 DEF Inv, IInv

\* The worker lets go of a submitted entry (executePendingIntent).
LEMMA Keeps_entrySubmitted ==
  ASSUME Inv, entrySubmitted
  PROVE  Inv'
<1>0. intent' = [intent EXCEPT ![wc] = IF @ \in {"submitting", "unknown"} THEN "monitoring" ELSE @]
  BY DEF entrySubmitted
<1>1. /\ wpc = "finish" /\ wpc' = "idle" /\ wc' = NoCand
      /\ UNCHANGED <<order, position, op, run, rank, last, venue, sends, drained,
                     stage, caller, target>>
  BY DEF entrySubmitted, workerAt, fallback, world, mutexes
<1>2. PICK c \in Cands : c = wc /\ RowsAgree(c) /\ intent \in [Cands -> IntentStatus \cup {"none"}]
  BY <1>1 DEF Inv, Types, IInv
<1>3. /\ \/ intent'[c] = intent[c]
         \/ intent[c] \in {"submitting", "unknown"} /\ intent'[c] = "monitoring"
      /\ \A d \in Cands \ {c} : intent'[d] = intent[d]
  BY <1>0, <1>2
<1>4. Types'
  <2>1. "monitoring" \in IntentStatus /\ "idle" \in WorkerSteps
    BY DEF IntentStatus, WorkerSteps
  <2>2. intent' \in [Cands -> IntentStatus \cup {"none"}]
    BY <1>0, <1>2, <2>1
  <2> QED
    BY <1>1, <2>1, <2>2 DEF Inv, Types
<1>5. RowsAgree(c)'
  <2>1. CASE intent'[c] = intent[c]
    BY <1>1, <1>2, <2>1, RowKept
  <2>2. CASE intent'[c] = "monitoring"
    BY <1>1, <1>2, <2>2 DEF RowsAgree, Live
  <2> QED
    BY <1>3, <2>1, <2>2
<1>6. \A d \in Cands : RowsAgree(d)'
  BY <1>1, <1>2, <1>3, <1>5, OneRow DEF Inv
<1>7. \A d \in Cands : RunsAgree(d)'
  BY <1>1, <1>3, RunsKept DEF Inv, SettledIntent
<1>8. \A b \in Ranks : MutexAgrees(b)'
  BY <1>1, WorkerRests DEF Inv, Between, WorkerSteps
<1>9. WorkerAgrees'
  BY <1>1 DEF WorkerAgrees
<1>10. OneOwnerPerSymbol' /\ DrainedIsDrained'
  BY <1>1, VenueKept DEF Inv
<1> QED
  BY <1>4, <1>6, <1>7, <1>8, <1>9, <1>10 DEF Inv, IInv

\* A failure settles the intent, or promotes the next rank (handleIntentFailure).
LEMMA Keeps_handleIntentFailure ==
  ASSUME Inv, handleIntentFailure
  PROVE  Inv'
<1>1. /\ wpc = "closing" /\ settleFailure(wc, err) /\ wpc' = "idle" /\ wc' = NoCand
      /\ UNCHANGED <<venue, sends, drained, stage, caller, target>>
  BY DEF handleIntentFailure, workerAt, world, mutexes
<1>2. wc \in Cands /\ intent[wc] # "none"
  BY <1>1 DEF Inv, Types, IInv, WorkerAgrees
<1>3. /\ intent' \in [Cands -> IntentStatus \cup {"none"}]
      /\ order' \in [Cands -> ORDER_STATUSES \cup {"none"}]
      /\ position' \in [Cands -> Active \cup {"none", "closed"}]
      /\ op' \in [Cands -> Phases]
      /\ run' \in [Runs -> {"none", "probing", "selected", "stopped", "exhausted"}]
      /\ rank' \in [Runs -> Ranks] /\ last' \in [Runs -> Ranks]
      /\ \A d \in Cands : order[d] # "none" => order'[d] # "none"
      /\ \A d \in Cands : RowsAgree(d)' /\ RunsAgree(d)'
  BY <1>1, <1>2, Settles
<1>4. Types'
  BY <1>1, <1>3 DEF Inv, Types, WorkerSteps
<1>5. \A b \in Ranks : MutexAgrees(b)'
  BY <1>1, <1>3, WorkerRests DEF Inv, Between, WorkerSteps
<1>6. WorkerAgrees'
  BY <1>1 DEF WorkerAgrees
<1>7. OneOwnerPerSymbol' /\ DrainedIsDrained'
  BY <1>1, VenueKept DEF Inv
<1> QED
  BY <1>3, <1>4, <1>5, <1>6, <1>7 DEF Inv, IInv

\* A revoked preparation is settled unsent (retireUnauthorizedPreparation).
LEMMA Keeps_retireUnauthorizedPreparation ==
  ASSUME Inv, NEW c \in Cands, retireUnauthorizedPreparation(c)
  PROVE  Inv'
<1>1. /\ wpc = "idle" /\ settleFailure(c, "RISK") /\ intent[c] # "none"
      /\ UNCHANGED <<venue, sends, drained, stage, caller, target, wpc, wc>>
  BY DEF retireUnauthorizedPreparation, LoopIdle, hasUndispatchedPlanProof, world, worker, mutexes
<1>2. /\ intent' \in [Cands -> IntentStatus \cup {"none"}]
      /\ order' \in [Cands -> ORDER_STATUSES \cup {"none"}]
      /\ position' \in [Cands -> Active \cup {"none", "closed"}]
      /\ op' \in [Cands -> Phases]
      /\ run' \in [Runs -> {"none", "probing", "selected", "stopped", "exhausted"}]
      /\ rank' \in [Runs -> Ranks] /\ last' \in [Runs -> Ranks]
      /\ \A d \in Cands : order[d] # "none" => order'[d] # "none"
      /\ \A d \in Cands : RowsAgree(d)' /\ RunsAgree(d)'
  BY <1>1, Settles
<1>3. Types'
  BY <1>1, <1>2 DEF Inv, Types
<1>4. \A b \in Ranks : MutexAgrees(b)'
  BY <1>1, <1>2, MutexKept DEF Inv
<1>5. WorkerAgrees'
  BY <1>1 DEF WorkerAgrees
<1>6. OneOwnerPerSymbol' /\ DrainedIsDrained'
  BY <1>1, VenueKept DEF Inv
<1> QED
  BY <1>2, <1>3, <1>4, <1>5, <1>6 DEF Inv, IInv

\* The drain gives back a reservation that was never sent (drainEntryCommitment).
LEMMA Keeps_drainAbandon ==
  ASSUME Inv, NEW c \in Cands, drainAbandon(c)
  PROVE  Inv'
<1>1. /\ stage[acct(c)] = "drain" /\ intent[c] \in {"planned", "submitting"}
      /\ intent' = [intent EXCEPT ![c] = "failed"] /\ abandonUndispatchedPlan(c)
      /\ UNCHANGED <<run, rank, last, venue, sends, drained, stage, caller, target, wpc, wc, err>>
  BY DEF drainAbandon, hasUndispatchedPlanProof, fallback, world, worker, mutexes
<1>2. acct(c) \in Ranks /\ RowsAgree(c) /\ RowTypes /\ WorkerAgrees /\ wpc \in WorkerSteps
  BY CandParts DEF Inv, Types, IInv, RowTypes, acct
<1>3. /\ \/ UNCHANGED <<order, op, position>>
         \/ /\ order' = [order EXCEPT ![c] = "cancelled"]
            /\ op' = [op EXCEPT ![c] = op'[c]] /\ op'[c] \in {"none", "abandoned"}
            /\ position' = [position EXCEPT ![c] = "closed"] /\ sends[c] = 0
  BY <1>1, Abandons
<1>4. /\ RowTypes' /\ Only(c) /\ intent'[c] = "failed"
      /\ \/ order'[c] = order[c] /\ op'[c] = op[c] /\ position'[c] = position[c]
         \/ /\ order'[c] = "cancelled" /\ op'[c] \in {"none", "abandoned"}
            /\ position'[c] = "closed" /\ sends[c] = 0
  <2>1. /\ intent'[c] = "failed" /\ intent' \in [Cands -> IntentStatus \cup {"none"}]
        /\ \A d \in Cands \ {c} : intent'[d] = intent[d]
    BY <1>1, <1>2 DEF RowTypes, IntentStatus
  <2>2. CASE UNCHANGED <<order, op, position>>
    BY <1>2, <2>1, <2>2 DEF RowTypes, Only
  <2>3. CASE /\ order' = [order EXCEPT ![c] = "cancelled"]
             /\ op' = [op EXCEPT ![c] = op'[c]] /\ op'[c] \in {"none", "abandoned"}
             /\ position' = [position EXCEPT ![c] = "closed"] /\ sends[c] = 0
    <3>1. "cancelled" \in ORDER_STATUSES /\ op'[c] \in Phases
      BY <2>3 DEF ORDER_STATUSES, Phases
    <3>2. /\ order' \in [Cands -> ORDER_STATUSES \cup {"none"}] /\ op' \in [Cands -> Phases]
          /\ position' \in [Cands -> Active \cup {"none", "closed"}]
      BY <1>2, <2>3, <3>1 DEF RowTypes
    <3>3. /\ order'[c] = "cancelled" /\ position'[c] = "closed"
          /\ \A d \in Cands \ {c} : /\ order'[d] = order[d] /\ op'[d] = op[d]
                                    /\ position'[d] = position[d]
      BY <1>2, <2>3 DEF RowTypes
    <3> QED
      BY <2>1, <2>3, <3>2, <3>3 DEF RowTypes, Only
  <2> QED
    BY <1>3, <2>2, <2>3
<1>5. Types'
  BY <1>1, <1>4 DEF Inv, Types, RowTypes
<1>6. RowsAgree(c)'
  BY <1>1, <1>2, <1>4 DEF RowsAgree, Live
<1>7. \A d \in Cands : RowsAgree(d)'
  BY <1>1, <1>4, <1>6, OneRow DEF Inv, Only
<1>8. \A d \in Cands : RunsAgree(d)'
  BY <1>1, <1>4, RunsKept DEF Inv, Only, SettledIntent
<1>9. \A b \in Ranks : MutexAgrees(b)'
  <2>1. \A d \in Cands : order[d] # "none" => order'[d] # "none"
    BY <1>4 DEF Only
  <2> QED
    BY <1>1, <2>1, MutexKept DEF Inv
<1>10. WorkerAgrees'
  <2>1. wpc \in Between => wc \in Cands /\ wc # c
    <3>1. wpc \in Between => wpc \notin {"idle", "reconcile", "exits"}
      BY DEF Between
    <3> QED
      BY <1>1, <3>1, WorkerExcludes DEF Inv, Types
  <2>2. \A d \in Cands : position'[d] \in Active => position[d] \in Active
    BY <1>4 DEF Only, Active
  <2>3. wpc # "idle" => wc \in Cands /\ intent[wc] # "none"
    BY <1>2 DEF WorkerAgrees, Inv, Types
  <2>4. wpc # "idle" => intent'[wc] # "none"
    BY <1>4, <2>3 DEF Only
  <2> QED
    BY <1>1, <1>2, <1>4, <2>1, <2>2, <2>4, WorkerKept DEF Inv, Only
<1>11. OneOwnerPerSymbol' /\ DrainedIsDrained'
  BY <1>1, VenueKept DEF Inv
<1> QED
  BY <1>5, <1>7, <1>8, <1>9, <1>10, <1>11 DEF Inv, IInv

\* The drain asks the venue to cancel an active entry (drainEntryCommitment).
LEMMA Keeps_drainCancel ==
  ASSUME Inv, NEW c \in Cands, drainCancel(c)
  PROVE  Inv'
<1>1. /\ stage[acct(c)] = "drain" /\ order[c] \in {"open", "cancel_pending"}
      /\ order' = [order EXCEPT ![c] = "cancel_pending"]
      /\ stage' = [stage EXCEPT ![acct(c)] = "cancelling"]
      /\ target' = [target EXCEPT ![acct(c)] = c]
      /\ UNCHANGED <<intent, position, op, run, rank, last, venue, sends, drained, caller, wpc, wc, err>>
  BY DEF drainCancel, cancelAllowed, to, fallback, world, worker
<1>2. acct(c) \in Ranks /\ c \in On(acct(c))
  BY CandParts DEF acct, On
<1>3. "cancel_pending" \in ORDER_STATUSES /\ Tells("cancel_pending", venue[c])
  BY DEF ORDER_STATUSES, Tells
<1>4. "cancelling" \in Stages \ {"idle"}
  BY DEF Stages
<1> QED
  BY <1>1, <1>2, <1>3, <1>4, PassOnOrder

\* A refused cancel leaves the entry unknown (prepareCancelDispatch).
LEMMA Keeps_cancelRefused ==
  ASSUME Inv, NEW c \in Cands, cancelRefused(c)
  PROVE  Inv'
<1>1. /\ stage[acct(c)] = "drain" /\ order[c] = "open"
      /\ order' = [order EXCEPT ![c] = "unknown"]
      /\ UNCHANGED <<intent, position, op, run, rank, last, venue, sends, drained, stage, target,
                     caller, wpc, wc, err>>
  BY DEF cancelRefused, fallback, world, worker, mutexes
<1>2. acct(c) \in Ranks /\ c \in On(acct(c))
  BY CandParts DEF acct, On
<1>3. /\ stage' = [stage EXCEPT ![acct(c)] = "drain"]
      /\ target' = [target EXCEPT ![acct(c)] = target[acct(c)]]
      /\ target[acct(c)] \in Cands \cup {NoCand}
  BY <1>1, <1>2 DEF Inv, Types
<1>4. "unknown" \in ORDER_STATUSES /\ Tells("unknown", venue[c])
  <2>1. RowsAgree(c)
    BY DEF Inv, IInv
  <2> QED
    BY <1>1, <2>1 DEF RowsAgree, Tells, ORDER_STATUSES
<1>5. "drain" \in Stages \ {"idle"}
  BY DEF Stages
<1> QED
  BY <1>1, <1>2, <1>3, <1>4, <1>5, PassOnOrder

\* A failed cancel leaves a live order unknown (cancelEntryRow).
LEMMA Keeps_cancelEntryRowFails ==
  ASSUME Inv, NEW a \in Ranks, cancelEntryRowFails(a)
  PROVE  Inv'
<1> DEFINE t == target[a]
           s == IF order[t] \in TerminalOrder THEN order[t] ELSE "unknown"
<1>1. /\ stage[a] \in {"cancelling", "cancelSent"} /\ order' = [order EXCEPT ![t] = s]
      /\ stage' = [stage EXCEPT ![a] = "drain"] /\ target' = [target EXCEPT ![a] = NoCand]
      /\ UNCHANGED <<intent, position, op, run, rank, last, venue, sends, drained, caller, wpc, wc, err>>
  BY DEF cancelEntryRowFails, to, fallback, world, worker
<1>2. t \in On(a) /\ order[t] # "none"
  BY <1>1 DEF Inv, IInv, MutexAgrees
<1>3. /\ s \in ORDER_STATUSES /\ Tells(s, venue[t])
      /\ order[t] = "filled" => s = "filled"
  <2>1. RowsAgree(t) /\ order[t] \in ORDER_STATUSES
    BY <1>2 DEF Inv, Types, IInv, On
  <2> QED
    BY <2>1 DEF RowsAgree, Tells, TerminalOrder, ORDER_STATUSES
<1>4. "drain" \in Stages \ {"idle"}
  BY DEF Stages
<1> HIDE DEF s, t
<1> QED
  BY <1>1, <1>2, <1>3, <1>4, PassOnOrder

\* A cancel's answer is merged into the order (cancelTrackedOrder).
LEMMA Keeps_cancelAcknowledged ==
  ASSUME Inv, NEW a \in Ranks, cancelAcknowledged(a)
  PROVE  Inv'
<1> DEFINE t == target[a]
           s == persisted(t, venueStatus(t))
<1>1. /\ stage[a] = "cancelSent" /\ venue[t] \in Answered /\ order' = [order EXCEPT ![t] = s]
      /\ stage' = [stage EXCEPT ![a] = "drain"] /\ target' = [target EXCEPT ![a] = NoCand]
      /\ UNCHANGED <<intent, position, op, run, rank, last, venue, sends, drained, caller, wpc, wc, err>>
  BY DEF cancelAcknowledged, to, fallback, world, worker
<1>2. t \in On(a) /\ t \in Cands /\ order[t] # "none"
  BY <1>1 DEF Inv, IInv, MutexAgrees, On
<1> HIDE DEF t
<1>3. /\ s \in ORDER_STATUSES /\ Tells(s, venue[t])
      /\ order[t] = "filled" => s = "filled"
  BY <1>1, <1>2, PersistedTells
<1>4. "drain" \in Stages \ {"idle"}
  BY DEF Stages
<1> HIDE DEF s
<1> QED
  BY <1>1, <1>2, <1>3, <1>4, PassOnOrder DEF t

\* An emergency exit marks the active positions (prepareAccountEmergency).
LEMMA Keeps_prepareAccountEmergency ==
  ASSUME Inv, NEW a \in Ranks, prepareAccountEmergency(a)
  PROVE  Inv'
<1>1. /\ UNCHANGED <<intent, order, op, run, rank, last, venue, sends, drained, stage, caller, target,
                     wpc, wc, err>>
      /\ position' = [d \in Cands |->
           IF d \in On(a) /\ position[d] \in Active THEN "emergency" ELSE position[d]]
  BY DEF prepareAccountEmergency, On, fallback, world, worker, mutexes
<1>2. \A d \in Cands : position'[d] = position[d]
                       \/ (position[d] \in Active /\ position'[d] = "emergency")
  BY <1>1
<1>3. /\ position' \in [Cands -> Active \cup {"none", "closed"}]
      /\ \A d \in Cands : position'[d] \in Active => position[d] \in Active
  BY <1>1 DEF Inv, Types, Active
<1>4. Types'
  BY <1>1, <1>3 DEF Inv, Types
<1>5. \A d \in Cands : RowsAgree(d)'
  <2> TAKE d \in Cands
  <2>1. RowsAgree(d)
    BY DEF Inv, IInv
  <2> QED
    BY <1>1, <1>2, <2>1 DEF RowsAgree, Live, Active
<1>6. \A d \in Cands : RunsAgree(d)'
  BY <1>1, RunsKept DEF Inv
<1>7. \A b \in Ranks : MutexAgrees(b)'
  BY <1>1, MutexKept DEF Inv
<1>8. WorkerAgrees'
  <2>1. wpc \in WorkerSteps /\ (wpc # "idle" => intent[wc] # "none")
    BY DEF Inv, Types, IInv, WorkerAgrees
  <2> QED
    BY <1>1, <1>3, <2>1, WorkerKept DEF Inv
<1>9. OneOwnerPerSymbol' /\ DrainedIsDrained'
  BY <1>1, VenueKept DEF Inv
<1> QED
  BY <1>4, <1>5, <1>6, <1>7, <1>8, <1>9 DEF Inv, IInv

\* The venue accepts, rejects, fills, cancels or flattens on its own.
LEMMA Keeps_venueMoves ==
  ASSUME Inv, NEW c \in Cands, NEW from, NEW next,
         <<from, next>> \in {<<"inflight", "open">>, <<"inflight", "rejected">>, <<"open", "filled">>,
                            <<"open", "cancelled">>, <<"filled", "flat">>},
         venueMoves(c, from, next)
  PROVE  Inv'
<1>1. /\ venue' = [venue EXCEPT ![c] = next] /\ venue[c] = from
      /\ UNCHANGED <<intent, order, position, op, run, rank, last, sends, drained, stage, caller,
                     target, wpc, wc, err>>
  BY DEF venueMoves, rows, fallback, worker, mutexes
<1>2. venue'[c] = next /\ \A d \in Cands \ {c} : venue'[d] = venue[d]
  BY <1>1 DEF Inv, Types
<1>3. /\ from # "absent" /\ next # "absent" /\ next # "inflight"
      /\ from = "filled" <=> next = "flat"
      /\ from \notin {"rejected", "cancelled", "flat"}
      /\ next \in Answered /\ (next = "open" => from = "inflight")
  BY DEF Answered
<1>4. Types'
  <2>1. venue' \in [Cands -> Answered \cup {"absent", "inflight"}]
    BY <1>1, <1>3 DEF Inv, Types
  <2> QED
    BY <1>1, <2>1 DEF Inv, Types
<1>5. \A d \in Cands : RowsAgree(d)'
  <2> TAKE d \in Cands
  <2>1. RowsAgree(d)
    BY DEF Inv, IInv
  <2>2. CASE d = c
    BY <1>1, <1>2, <1>3, <2>1, <2>2 DEF RowsAgree, Live
  <2>3. CASE d # c
    BY <1>1, <1>2, <2>1, <2>3, RowKept
  <2> QED
    BY <2>2, <2>3
<1>6. \A d \in Cands : RunsAgree(d)'
  BY <1>1, RunsKept DEF Inv
<1>7. \A b \in Ranks : MutexAgrees(b)'
  BY <1>1, MutexKept DEF Inv
<1>8. WorkerAgrees'
  <2>1. wpc \in WorkerSteps /\ (wpc # "idle" => intent[wc] # "none")
    BY DEF Inv, Types, IInv, WorkerAgrees
  <2> QED
    BY <1>1, <2>1, WorkerKept DEF Inv
<1>9. \A d \in Cands : venue'[d] \in Live => venue[d] \in Live
  BY <1>1, <1>2, <1>3 DEF Live
<1>10. OneOwnerPerSymbol'
  <2>1. OneOwnerPerSymbol
    BY DEF Inv, IInv
  <2> QED
    BY <1>9, <2>1 DEF OneOwnerPerSymbol, Live
<1>11. DrainedIsDrained'
  <2>1. DrainedIsDrained
    BY DEF Inv, IInv
  <2>2. \A d \in Cands : venue'[d] \in {"inflight", "open"} => venue[d] \in {"inflight", "open"}
    BY <1>1, <1>2, <1>3
  <2> QED
    BY <1>1, <2>1, <2>2 DEF DrainedIsDrained, On
<1> QED
  BY <1>4, <1>5, <1>6, <1>7, <1>8, <1>10, <1>11 DEF Inv, IInv

\* A snapshot closes only what is flat at the venue (applyRemoteState).
LEMMA Keeps_applyRemoteState ==
  ASSUME Inv, NEW a \in Ranks, applyRemoteState(a)
  PROVE  Inv'
<1>1. PICK seen \in SUBSET {c \in On(a) : venue[c] \in Answered} :
        /\ stage[a] = "observe" /\ ingestOwnedState(a, seen)
        /\ \E s \in {"failSoft", "failHard", "ok"} : stage' = [stage EXCEPT ![a] = s]
        /\ UNCHANGED <<run, rank, last, venue, sends, drained, caller, target, wpc, wc, err>>
        /\ \/ UNCHANGED <<intent, position>>
           \/ \E handled \in SUBSET {c \in On(a) : position[c] \in Active},
                 slipped \in SUBSET {c \in On(a) : position[c] \in Active} :
                reconcilePositions(a, handled, slipped)
  BY DEF applyRemoteState, to, fallback, world, worker
<1>2. \A d \in Cands :
      /\ order'[d] \in ORDER_STATUSES \cup {"none"} /\ Tells(order'[d], venue[d])
      /\ order[d] = "filled" => order'[d] = "filled"
      /\ order'[d] = "none" => order[d] = "none"
  <2> TAKE d \in Cands
  <2>1. CASE d \in seen
    <3>1. order'[d] = persisted(d, venueStatus(d)) /\ venue[d] \in Answered
      BY <1>1, <2>1 DEF ingestOwnedState, ingestedOrder
    <3>2. /\ order'[d] \in ORDER_STATUSES /\ Tells(order'[d], venue[d])
          /\ order[d] = "filled" => order'[d] = "filled"
      BY <3>1, PersistedTells
    <3> QED
      BY <3>2 DEF ORDER_STATUSES
  <2>2. CASE d \notin seen
    <3>1. order'[d] = order[d]
      BY <1>1, <2>2 DEF ingestOwnedState, ingestedOrder
    <3>2. RowsAgree(d) /\ order[d] \in ORDER_STATUSES \cup {"none"}
      BY DEF Inv, Types, IInv
    <3> QED
      BY <3>1, <3>2 DEF RowsAgree, Tells
  <2> QED
    BY <2>1, <2>2
<1>3. \A d \in Cands :
      \/ op'[d] = op[d]
      \/ op'[d] = "resolved" /\ d \in On(a) /\ op[d] \notin {"none", "prepared", "abandoned"}
  <2> TAKE d \in Cands
  <2>1. op'[d] = ingestedOp(d, seen)
    BY <1>1 DEF ingestOwnedState
  <2> QED
    BY <1>1, <2>1 DEF ingestedOp, Pending
<1>4. \A d \in Cands :
      \/ position'[d] = position[d] /\ intent'[d] = intent[d]
      \/ /\ d \in On(a) /\ position[d] \in Active /\ RowMoves(d)
  <2>1. CASE UNCHANGED <<intent, position>>
    BY <2>1
  <2>2. ASSUME NEW handled \in SUBSET {c \in On(a) : position[c] \in Active}, NEW slipped,
               reconcilePositions(a, handled, slipped), NEW d \in Cands
        PROVE  \/ position'[d] = position[d] /\ intent'[d] = intent[d]
               \/ /\ d \in On(a) /\ position[d] \in Active /\ RowMoves(d)
    <3>1. CASE d \notin handled
      BY <2>2, <3>1 DEF reconcilePositions
    <3>2. CASE d \in handled
      BY <2>2, <3>2, ReconciledRow
    <3> QED
      BY <3>1, <3>2
  <2> QED
    BY <1>1, <2>1, <2>2
<1>5. Types'
  <2>1. DOMAIN order' = Cands /\ DOMAIN op' = Cands
        /\ order' = [d \in Cands |-> order'[d]] /\ op' = [d \in Cands |-> op'[d]]
    BY <1>1 DEF ingestOwnedState
  <2>2. position' = [d \in Cands |-> position'[d]] /\ intent' = [d \in Cands |-> intent'[d]]
    <3>1. CASE UNCHANGED <<intent, position>>
      BY <3>1 DEF Inv, Types
    <3>2. ASSUME NEW handled, NEW slipped, reconcilePositions(a, handled, slipped)
          PROVE  position' = [d \in Cands |-> position'[d]] /\ intent' = [d \in Cands |-> intent'[d]]
      BY <3>2 DEF reconcilePositions
    <3> QED
      BY <1>1, <3>1, <3>2
  <2>3. order' \in [Cands -> ORDER_STATUSES \cup {"none"}]
    BY <1>2, <2>1
  <2>4. op' \in [Cands -> Phases]
    <3>1. op \in [Cands -> Phases] /\ "resolved" \in Phases
      BY DEF Inv, Types, Phases
    <3>2. \A d \in Cands : op'[d] \in Phases
      BY <1>3, <3>1
    <3> QED
      BY <2>1, <3>2
  <2>5. /\ position' \in [Cands -> Active \cup {"none", "closed"}]
        /\ intent' \in [Cands -> IntentStatus \cup {"none"}]
    <3>1. RowTypes
      BY DEF Inv, Types, RowTypes
    <3>2. \A d \in Cands : /\ position'[d] \in Active \cup {"none", "closed"}
                           /\ intent'[d] \in IntentStatus \cup {"none"}
      BY <1>4, <3>1 DEF RowTypes, RowMoves
    <3> QED
      BY <2>2, <3>2
  <2>6. stage' \in [Ranks -> Stages]
    <3>1. stage \in [Ranks -> Stages] /\ {"failSoft", "failHard", "ok"} \subseteq Stages
      BY DEF Inv, Types, Stages
    <3> QED
      BY <1>1, <3>1
  <2> QED
    BY <1>1, <2>3, <2>4, <2>5, <2>6 DEF Inv, Types
<1>6. \A d \in Cands : RowsAgree(d)'
  <2> TAKE d \in Cands
  <2>1. RowsAgree(d) /\ sends'[d] = sends[d] /\ venue'[d] = venue[d]
    BY <1>1 DEF Inv, IInv
  <2>2. op'[d] \in {"none", "prepared", "abandoned"} => sends'[d] = 0
    BY <1>3, <2>1 DEF RowsAgree
  <2>3. CASE position'[d] = position[d] /\ intent'[d] = intent[d]
    <3>1. /\ Tells(order'[d], venue'[d]) /\ (order'[d] = "none" => order[d] = "none")
          /\ order[d] = "filled" => order'[d] = "filled"
      BY <1>2, <2>1
    <3>2. intent'[d] \in {"none", "pending"} =>
            order'[d] = "none" /\ position'[d] = "none" /\ op'[d] = "none"
      <4>1. intent'[d] \in {"none", "pending"} =>
              sends[d] = 0 /\ order[d] = "none" /\ position[d] = "none" /\ op[d] = "none"
        BY <2>1, <2>3 DEF RowsAgree
      <4>2. order[d] = "none" /\ sends[d] = 0 => order'[d] = "none"
        <5>1. sends[d] = 0 => venue[d] = "absent"
          BY <2>1 DEF RowsAgree
        <5> QED
          BY <1>1, <5>1 DEF ingestOwnedState, ingestedOrder, Answered
      <4> QED
        BY <1>3, <2>3, <4>1, <4>2
    <3> QED
      BY <2>1, <2>2, <2>3, <3>1, <3>2 DEF RowsAgree, Tells, Live
  <2>4. CASE position[d] \in Active /\ RowMoves(d)
    <3>1. /\ position[d] \notin {"none", "closed"} /\ intent[d] \notin {"none", "pending"}
          /\ position'[d] # "none" /\ intent'[d] \notin {"none", "pending"}
      BY <2>1, <2>4 DEF RowsAgree, RowMoves, Active
    <3>2. position'[d] = "closed" => venue'[d] \notin Live
      <4>1. position'[d] = "closed" => venue[d] # "filled" /\ order'[d] \in TerminalOrder
        BY <2>4, <3>1 DEF RowMoves
      <4> QED
        BY <1>2, <2>1, <4>1 DEF Tells, TerminalOrder, Live
    <3>3. intent'[d] = "completed" => order'[d] = "filled"
      BY <1>2, <2>1, <2>4 DEF RowMoves, RowsAgree
    <3> QED
      BY <1>2, <2>1, <2>2, <3>1, <3>2, <3>3 DEF RowsAgree, Tells
  <2> QED
    BY <1>4, <2>3, <2>4
<1>7. \A d \in Cands : RunsAgree(d)'
  <2>1. \A d \in Cands : \/ intent'[d] = intent[d]
                         \/ /\ intent[d] # "none"
                            /\ intent[d] \in SettledIntent => intent'[d] \in SettledIntent
    <3> TAKE d \in Cands
    <3>1. RowsAgree(d)
      BY DEF Inv, IInv
    <3> QED
      BY <1>4, <3>1 DEF RowMoves, RowsAgree, Active
  <2> QED
    BY <1>1, <2>1, RunsKept DEF Inv
<1>8. \A b \in Ranks : MutexAgrees(b)'
  <2>1. /\ stage'[a] \notin {"idle", "cancelling", "cancelSent"}
        /\ \A b \in Ranks \ {a} : stage'[b] = stage[b]
    BY <1>1 DEF Inv, Types
  <2> QED
    BY <1>1, <1>2, <2>1, PassKept DEF Inv
<1>9. WorkerAgrees'
  <2>1. WorkerAgrees /\ wpc \in WorkerSteps /\ (wpc # "idle" => wc \in Cands)
    BY DEF Inv, Types, IInv
  <2>2. wpc \in Between => wc \notin On(a)
    <3>1. wpc \in Between => wpc \notin {"idle", "reconcile", "exits"}
      BY DEF Between
    <3> QED
      BY <1>1, <3>1, WorkerExcludes DEF On
  <2>3. wpc \in Between => intent'[wc] = intent[wc] /\ op'[wc] = op[wc]
    <3>1. wpc \in Between => wpc # "idle"
      BY DEF Between
    <3> QED
      BY <1>3, <1>4, <2>1, <2>2, <3>1
  <2>4. wpc # "idle" => intent'[wc] # "none"
    <3>1. wpc # "idle" => intent[wc] # "none"
      BY <2>1 DEF WorkerAgrees
    <3> QED
      BY <1>4, <2>1, <3>1 DEF RowMoves
  <2>5. \A d \in Cands : position'[d] \in Active => position[d] \in Active
    BY <1>4
  <2> QED
    BY <1>1, <2>1, <2>3, <2>4, <2>5, WorkerKept DEF Inv
<1>10. OneOwnerPerSymbol' /\ DrainedIsDrained'
  BY <1>1, VenueKept DEF Inv
<1> QED
  BY <1>5, <1>6, <1>7, <1>8, <1>9, <1>10 DEF Inv, IInv

-----------------------------------------------------------------------------
(* Every step keeps the agreement, and what follows from it.               *)

\* A fresh database, an empty venue and a stopped worker agree.
LEMMA Starts == Init => Inv
<1> SUFFICES ASSUME Init PROVE Inv
  OBVIOUS
<1>1. 0 \in Ranks /\ 0 \in Nat
  BY EntryAssumption DEF Ranks
<1>2. Types
  BY <1>1 DEF Init, Types, Phases, WorkerSteps, Stages, Callers
<1>3. ASSUME NEW c \in Cands PROVE RowsAgree(c)
  <2>1. /\ intent[c] = "none" /\ order[c] = "none" /\ position[c] = "none" /\ op[c] = "none"
        /\ venue[c] = "absent" /\ sends[c] = 0
    BY DEF Init
  <2> QED
    BY <2>1 DEF RowsAgree
<1>4. \A c \in Cands : RunsAgree(c)
  <2> TAKE c \in Cands
  <2>1. c[1] \in Runs /\ c[2] \in Nat
    BY CandParts, RankTypes, <1>2
  <2> QED
    BY <2>1 DEF Init, RunsAgree
<1>5. (\A a \in Ranks : MutexAgrees(a)) /\ WorkerAgrees
  BY DEF Init, MutexAgrees, WorkerAgrees
<1>6. OneOwnerPerSymbol /\ DrainedIsDrained
  BY DEF Init, OneOwnerPerSymbol, DrainedIsDrained, Live, On
<1> QED
  BY <1>2, <1>3, <1>4, <1>5, <1>6 DEF Inv, IInv

\* No commit of the engine, the coordinator or the operator, no move of the
\* venue and no crash breaks the agreement.
LEMMA Steps == Inv /\ [Next]_vars => Inv'
<1> SUFFICES ASSUME Inv, [Next]_vars PROVE Inv'
  OBVIOUS
<1>1. ASSUME NEW r \in Runs, createWorkflowTradingIntents(r) PROVE Inv'
  BY <1>1, Keeps_createWorkflowTradingIntents
<1>2. ASSUME NEW c \in Cands, processIntent(c) \/ clockUnsafe(c) PROVE Inv'
  BY <1>2, Keeps_processIntent, Keeps_clockUnsafe
<1>3. ASSUME preparePendingIntent \/ markWorkflowFallbackSelected \/ setIntentSubmitting
             \/ workerFails \/ prepareTradingOperation \/ beforeDispatch \/ markDispatching
      PROVE Inv'
  BY <1>3, Keeps_preparePendingIntent, Keeps_markWorkflowFallbackSelected,
     Keeps_setIntentSubmitting, Keeps_workerFails, Keeps_prepareTradingOperation,
     Keeps_beforeDispatch, Keeps_markDispatching
<1>4. ASSUME sendProtectedEntry \/ refuseDispatch \/ recordUnsent \/ abandonUnsent
             \/ replyAcknowledged \/ replyUnclear \/ replyFails \/ markUnknown
             \/ entryAcknowledged \/ entrySubmitted \/ isolateFailure \/ handleIntentFailure
      PROVE Inv'
  BY <1>4, Keeps_sendProtectedEntry, Keeps_refuseDispatch, Keeps_recordUnsent,
     Keeps_abandonUnsent, Keeps_replyAcknowledged, Keeps_replyUnclear, Keeps_replyFails,
     Keeps_markUnknown, Keeps_entryAcknowledged, Keeps_entrySubmitted, Keeps_isolateFailure,
     Keeps_handleIntentFailure
<1>5. ASSUME NEW a \in Ranks,
             reconcileAccount(a) \/ cancelSend(a) \/ cancelEntryRowFails(a)
             \/ cancelAcknowledged(a) \/ drainEnds(a) \/ observeFails(a) \/ applyRemoteState(a)
      PROVE Inv'
  BY <1>5, Keeps_reconcileAccount, Keeps_cancelSend, Keeps_cancelEntryRowFails,
     Keeps_cancelAcknowledged, Keeps_drainEnds, Keeps_observeFails, Keeps_applyRemoteState
<1>6. ASSUME NEW a \in Ranks,
             reconciled(a) \/ candidateReconciled(a) \/ exitsReconciled(a)
             \/ entriesProved(a) \/ expiryProved(a) \/ accountReleased(a)
      PROVE Inv'
  BY <1>6, Keeps_reconciled, Keeps_candidateReconciled, Keeps_exitsReconciled,
     Keeps_entriesProved, Keeps_expiryProved, Keeps_accountReleased
<1>7. ASSUME NEW c \in Cands,
             drainAbandon(c) \/ drainCancel(c) \/ cancelRefused(c)
             \/ retireUnauthorizedPreparation(c) \/ cancelExpiredEntries(c)
      PROVE Inv'
  BY <1>7, Keeps_drainAbandon, Keeps_drainCancel, Keeps_cancelRefused,
     Keeps_retireUnauthorizedPreparation, Keeps_cancelExpiredEntries
<1>8. ASSUME NEW a \in Ranks,
             holdEntries(a) \/ cancelOpenEntries(a) \/ requestReconciliation(a)
             \/ releaseAccountKillSwitch(a) \/ prepareAccountEmergency(a)
      PROVE Inv'
  BY <1>8, Keeps_holdEntries, Keeps_cancelOpenEntries, Keeps_requestReconciliation,
     Keeps_releaseAccountKillSwitch, Keeps_prepareAccountEmergency
<1>9. ASSUME disableEntries \/ setKillSwitchRuntime \/ enableEntries
             \/ releaseGlobalTradingKillSwitch
      PROVE Inv'
  BY <1>9, Keeps_disableEntries, Keeps_setKillSwitchRuntime, Keeps_enableEntries,
     Keeps_releaseGlobalTradingKillSwitch
<1>10. ASSUME NEW c \in Cands,
              venueAccepts(c) \/ venueRejects(c) \/ venueFills(c) \/ venueCancels(c) \/ venueExits(c)
       PROVE Inv'
  BY <1>10, Keeps_venueMoves DEF venueAccepts, venueRejects, venueFills, venueCancels, venueExits
<1>11. CASE Crash
  BY <1>11, Keeps_Crash
<1>12. CASE UNCHANGED vars
  <2>1. UNCHANGED <<intent, order, position, op, run, rank, last, venue, sends, drained, wpc, wc, err,
                    stage, caller, target>>
    BY <1>12 DEF vars, rows, fallback, world, worker, mutexes
  <2> QED
    BY <2>1, ControlKept
<1> QED
  BY <1>1, <1>2, <1>3, <1>4, <1>5, <1>6, <1>7, <1>8, <1>9, <1>10, <1>11, <1>12
     DEF Next, entryWorker, reconciliation, operators, venueStep

\* The rows, the runs, the account mutexes and the worker of trading_engine.ts
\* agree with the venue in every reachable state, for any number of runs,
\* accounts and upsets.
THEOREM EntryAgreement == Spec => [](Types /\ IInv)
<1>1. Init => Inv
  BY Starts
<1>2. Inv /\ [Next]_vars => Inv'
  BY Steps
<1> QED
  BY <1>1, <1>2, PTL DEF Spec, Inv

\* A run reaches one account only: below its rank everything was settled
\* unsent, above it nothing exists yet.
LEMMA OneAccount == Inv => AtMostOneAccount
<1> SUFFICES ASSUME Inv, NEW r \in Runs, NEW j \in Ranks, sends[<<r, j>>] > 0
             PROVE  j = rank[r]
  BY DEF AtMostOneAccount
<1>1. /\ <<r, j>> \in Cands /\ <<r, j>>[1] = r /\ <<r, j>>[2] = j
      /\ sends[<<r, j>>] \in Nat /\ rank[r] \in Nat /\ j \in Nat
  <2>1. <<r, j>> \in Cands /\ <<r, j>>[1] = r /\ <<r, j>>[2] = j
    BY DEF Cands
  <2>2. sends[<<r, j>>] \in Nat
    BY <2>1 DEF Inv, Types
  <2> QED
    BY <2>1, <2>2, RankTypes DEF Inv
<1>2. RowsAgree(<<r, j>>) /\ RunsAgree(<<r, j>>)
  BY <1>1 DEF Inv, IInv
<1>3. ~(j > rank[r])
  <2>1. j > rank[r] => intent[<<r, j>>] = "none"
    BY <1>1, <1>2 DEF RunsAgree
  <2>2. intent[<<r, j>>] = "none" => sends[<<r, j>>] = 0
    BY <1>2 DEF RowsAgree
  <2> QED
    BY <1>1, <2>1, <2>2
<1>4. ~(j < rank[r])
  <2>1. j < rank[r] => sends[<<r, j>>] = 0
    BY <1>1, <1>2 DEF RunsAgree
  <2>2. sends[<<r, j>>] # 0
    BY <1>1
  <2> QED
    BY <2>1, <2>2
<1> QED
  BY <1>1, <1>3, <1>4

\* One send per candidate, and rows that tell the truth of the venue, are parts
\* of the agreement.
LEMMA RowsAreHonest == Inv => NoDoubleSend /\ RowsTellTheVenue
  BY DEF Inv, IInv, RowsAgree, NoDoubleSend, RowsTellTheVenue, ClosedMeansFlat, UnsentIsUnsent

\* The failure of candidate c leaves every settled intent settled, and a
\* completed one completed (settleFailure under transitionTradingIntent).
LEMMA FailureKeepsSettled ==
  ASSUME Inv, NEW c \in Cands, NEW e, settleFailure(c, e), intent[c] # "none",
         e \in FallbackReasons => intent[c] # "completed"
  PROVE  \A d \in Cands :
            /\ intent[d] \in SettledIntent => intent'[d] \in SettledIntent
            /\ intent[d] = "completed" => intent'[d] = "completed"
<1>1. ASSUME NEW s, Closes(c, s), intent[c] # "completed"
      PROVE  \A d \in Cands :
                /\ intent[d] \in SettledIntent => intent'[d] \in SettledIntent
                /\ intent[d] = "completed" => intent'[d] = "completed"
  BY <1>1 DEF Closes, SettledIntent, Inv, Types
<1>2. ASSUME NEW s, NEW q, Promotes(c, s, q), intent[c] # "completed"
      PROVE  \A d \in Cands :
                /\ intent[d] \in SettledIntent => intent'[d] \in SettledIntent
                /\ intent[d] = "completed" => intent'[d] = "completed"
  <2> DEFINE n == <<c[1], c[2] + 1>>
  <2>1. n \in Cands /\ n[1] = c[1] /\ n[2] = c[2] + 1 /\ n[2] > rank[n[1]]
    <3>1. c[1] \in Runs /\ c[2] \in Nat /\ rank[c[1]] = c[2] /\ c[2] < last[c[1]]
      BY <1>2, CandParts, RankTypes DEF Promotes, Inv, isCurrent
    <3>2. last[c[1]] \in Ranks
      BY <3>1 DEF Inv, Types
    <3>3. c[2] + 1 \in Ranks
      BY <3>1, <3>2, EntryAssumption DEF Ranks
    <3>4. n \in Cands /\ n[1] = c[1] /\ n[2] = c[2] + 1
      BY <3>1, <3>3 DEF Cands
    <3> QED
      BY <3>1, <3>4
  <2>2. intent[n] = "none"
    BY <2>1 DEF Inv, IInv, RunsAgree
  <2>3. intent' = [intent EXCEPT ![c] = "blocked", ![n] = s]
    BY <1>2 DEF Promotes
  <2> HIDE DEF n
  <2> QED
    BY <1>2, <2>1, <2>2, <2>3 DEF SettledIntent, Inv, Types
<1>3. CASE intent[c] # "completed"
  BY <1>1, <1>2, <1>3, SettleCases
<1>4. CASE intent[c] = "completed"
  <2>1. ~canTransitionIntent(intent[c], "unknown") /\ ~canTransitionIntent(intent[c], "blocked")
    BY <1>4, SettledIsFinal DEF SettledIntent
  <2>2. UNCHANGED intent
    BY <1>4, <2>1 DEF settleFailure
  <2> QED
    BY <2>2
<1> QED
  BY <1>3, <1>4

\* A settled intent is never taken up again by any step of the engine.
LEMMA SettledSteps ==
  ASSUME Inv, [Next]_vars
  PROVE  \A c \in Cands : /\ intent[c] \in SettledIntent => intent'[c] \in SettledIntent
                          /\ intent[c] = "completed" => intent'[c] = "completed"
<1> DEFINE Kept == \A c \in Cands : /\ intent[c] \in SettledIntent => intent'[c] \in SettledIntent
                                    /\ intent[c] = "completed" => intent'[c] = "completed"
<1> SUFFICES Kept
  OBVIOUS
<1> HIDE DEF Kept
<1>0. UNCHANGED intent => Kept
  BY DEF Kept
<1>1. ASSUME NEW r \in Runs, createWorkflowTradingIntents(r) PROVE Kept
  <2>1. <<r, 0>> \in Cands /\ <<r, 0>>[1] = r /\ intent[<<r, 0>>] = "none"
    <3>1. <<r, 0>> \in Cands
      BY EntryAssumption DEF Cands, Ranks
    <3>2. RunsAgree(<<r, 0>>) /\ run[r] = "none"
      BY <1>1, <3>1 DEF createWorkflowTradingIntents, Inv, IInv
    <3> QED
      BY <3>1, <3>2 DEF RunsAgree
  <2> QED
    BY <1>1, <2>1 DEF Kept, createWorkflowTradingIntents, SettledIntent, Inv, Types
<1>2. ASSUME NEW c \in Cands, processIntent(c) \/ clockUnsafe(c) PROVE UNCHANGED intent
  <2>1. processIntent(c) => UNCHANGED intent
    BY DEF processIntent
  <2>2. clockUnsafe(c) => UNCHANGED intent
    BY DEF clockUnsafe
  <2> QED
    BY <1>2, <2>1, <2>2
<1>3. CASE preparePendingIntent
  <2> DEFINE n == [intent EXCEPT ![wc] = "planned"]
  <2>1. UNCHANGED intent \/ (intent[wc] = "pending" /\ intent' = n)
    BY <1>3, Zenon DEF preparePendingIntent
  <2> QED
    BY <1>0, <2>1 DEF Kept, SettledIntent, Inv, Types
<1>4. CASE setIntentSubmitting
  BY <1>4 DEF Kept, setIntentSubmitting, workerAt, SettledIntent, Inv, Types, IInv, WorkerAgrees
<1>5. ASSUME markWorkflowFallbackSelected \/ workerFails \/ prepareTradingOperation \/ beforeDispatch
           \/ markDispatching \/ sendProtectedEntry \/ refuseDispatch \/ recordUnsent \/ abandonUnsent
      PROVE UNCHANGED intent
  <2>1. markWorkflowFallbackSelected => UNCHANGED intent
    BY DEF markWorkflowFallbackSelected, rows
  <2>2. workerFails => UNCHANGED intent
    BY DEF workerFails, rows
  <2>3. prepareTradingOperation => UNCHANGED intent
    BY DEF prepareTradingOperation, rows
  <2>4. beforeDispatch => UNCHANGED intent
    BY DEF beforeDispatch, rows
  <2>5. markDispatching => UNCHANGED intent
    BY DEF markDispatching, rows
  <2>6. sendProtectedEntry => UNCHANGED intent
    BY DEF sendProtectedEntry, rows
  <2>7. refuseDispatch => UNCHANGED intent
    BY DEF refuseDispatch, rows
  <2>8. recordUnsent => UNCHANGED intent
    BY DEF recordUnsent, rows
  <2>9. abandonUnsent => UNCHANGED intent
    BY DEF abandonUnsent, rows
  <2> QED
    BY <1>5, <2>1, <2>2, <2>3, <2>4, <2>5, <2>6, <2>7, <2>8, <2>9
<1>6. ASSUME replyAcknowledged \/ replyUnclear \/ replyFails \/ markUnknown \/ entryAcknowledged
           \/ isolateFailure
      PROVE UNCHANGED intent
  BY <1>6 DEF replyAcknowledged, replyUnclear, replyFails, markUnknown, entryAcknowledged,
     isolateFailure, rows
<1>7. CASE entrySubmitted
  BY <1>7 DEF Kept, entrySubmitted, SettledIntent, Inv, Types
<1>8. CASE handleIntentFailure
  <2>1. /\ wc \in Cands /\ settleFailure(wc, err) /\ intent[wc] # "none"
        /\ err \in FallbackReasons => intent[wc] # "completed"
    BY <1>8 DEF handleIntentFailure, workerAt, Inv, Types, IInv, WorkerAgrees
  <2> QED
    BY <2>1, FailureKeepsSettled DEF Kept
<1>9. ASSUME NEW a \in Ranks, applyRemoteState(a) PROVE Kept
  <2>1. \/ UNCHANGED intent
        \/ \E handled, slipped : reconcilePositions(a, handled, slipped)
    BY <1>9 DEF applyRemoteState
  <2>2. ASSUME NEW handled, NEW slipped, reconcilePositions(a, handled, slipped)
        PROVE  \A c \in Cands : intent[c] \in SettledIntent => intent'[c] = intent[c]
    BY <2>2 DEF reconcilePositions
  <2> QED
    BY <1>0, <2>1, <2>2 DEF Kept, SettledIntent
<1>10. ASSUME NEW a \in Ranks,
             reconcileAccount(a) \/ cancelSend(a) \/ cancelEntryRowFails(a)
             \/ cancelAcknowledged(a) \/ drainEnds(a) \/ observeFails(a)
       PROVE UNCHANGED intent
  BY <1>10 DEF reconcileAccount, cancelSend, cancelEntryRowFails, cancelAcknowledged, drainEnds,
     observeFails, rows
<1>11. ASSUME NEW a \in Ranks,
             reconciled(a) \/ candidateReconciled(a) \/ exitsReconciled(a)
             \/ entriesProved(a) \/ expiryProved(a) \/ accountReleased(a)
       PROVE UNCHANGED intent
  <2>1. reconciled(a) => UNCHANGED intent
    BY DEF reconciled, rows
  <2>2. candidateReconciled(a) => UNCHANGED intent
    BY DEF candidateReconciled, rows
  <2>3. exitsReconciled(a) => UNCHANGED intent
    BY DEF exitsReconciled, rows
  <2>4. entriesProved(a) => UNCHANGED intent
    BY DEF entriesProved, rows
  <2>5. expiryProved(a) => UNCHANGED intent
    BY DEF expiryProved, rows
  <2>6. accountReleased(a) => UNCHANGED intent
    BY DEF accountReleased, rows
  <2> QED
    BY <1>11, <2>1, <2>2, <2>3, <2>4, <2>5, <2>6
<1>12. ASSUME NEW c \in Cands, drainCancel(c) \/ cancelRefused(c) \/ cancelExpiredEntries(c)
       PROVE UNCHANGED intent
  BY <1>12 DEF drainCancel, cancelRefused, cancelExpiredEntries, rows
<1>17. ASSUME NEW c \in Cands, drainAbandon(c) PROVE Kept
  <2>1. intent[c] \in {"planned", "submitting"} /\ intent' = [intent EXCEPT ![c] = "failed"]
    BY <1>17 DEF drainAbandon, hasUndispatchedPlanProof
  <2> QED
    BY <2>1 DEF Kept, SettledIntent, Inv, Types
<1>13. ASSUME NEW c \in Cands, retireUnauthorizedPreparation(c) PROVE Kept
  <2>1. settleFailure(c, "RISK") /\ intent[c] # "none" /\ "RISK" \notin FallbackReasons
    BY <1>13 DEF retireUnauthorizedPreparation, hasUndispatchedPlanProof, FallbackReasons
  <2> QED
    BY <2>1, FailureKeepsSettled DEF Kept
<1>14. ASSUME NEW a \in Ranks,
             holdEntries(a) \/ cancelOpenEntries(a) \/ requestReconciliation(a)
             \/ releaseAccountKillSwitch(a) \/ prepareAccountEmergency(a)
       PROVE UNCHANGED intent
  BY <1>14 DEF holdEntries, cancelOpenEntries, requestReconciliation, releaseAccountKillSwitch,
     prepareAccountEmergency, rows
<1>15. ASSUME disableEntries \/ setKillSwitchRuntime \/ enableEntries
            \/ releaseGlobalTradingKillSwitch \/ Crash \/ UNCHANGED vars
       PROVE UNCHANGED intent
  BY <1>15 DEF disableEntries, setKillSwitchRuntime, enableEntries, releaseGlobalTradingKillSwitch,
     Crash, vars, rows
<1>16. ASSUME NEW c \in Cands,
              venueAccepts(c) \/ venueRejects(c) \/ venueFills(c) \/ venueCancels(c) \/ venueExits(c)
       PROVE UNCHANGED intent
  BY <1>16 DEF venueAccepts, venueRejects, venueFills, venueCancels, venueExits, venueMoves, rows
<1> QED
  BY <1>1, <1>2, <1>3, <1>4, <1>5, <1>6, <1>7, <1>8, <1>9, <1>10, <1>11, <1>12, <1>13, <1>14,
     <1>15, <1>16, <1>17, <1>0 DEF Next, entryWorker, reconciliation, operators, venueStep

\* A signal run never has an entry at, or on its way to, two accounts, however
\* its fallback advances (markWorkflowFallbackSelected before the dispatch).
THEOREM RunReachesOneAccount == Spec => []AtMostOneAccount
<1>1. Inv => AtMostOneAccount
  BY OneAccount
<1> QED
  BY <1>1, EntryAgreement, PTL DEF Inv

\* No entry leaves twice, across retries, crashes and operator restarts
\* (runJournaledExchangeWrite).
THEOREM EntrySentOnce == Spec => []NoDoubleSend
<1>1. Inv => NoDoubleSend
  BY RowsAreHonest
<1> QED
  BY <1>1, EntryAgreement, PTL DEF Inv

\* What a row calls closed or unsent is so at the venue
\* (abandonUndispatchedPlan, reconcileMissingRemotePosition, recordWriteFailure).
THEOREM RowsAreTrue == Spec => []RowsTellTheVenue
<1>1. Inv => RowsTellTheVenue
  BY RowsAreHonest
<1> QED
  BY <1>1, EntryAgreement, PTL DEF Inv

\* Two signals never own one symbol of one account (loadCapacityState and
\* proveEntrySafety under the account's mutex).
THEOREM SymbolHasOneOwner == Spec => []OneOwnerPerSymbol
<1>1. Inv => OneOwnerPerSymbol
  BY DEF Inv, IInv
<1> QED
  BY <1>1, EntryAgreement, PTL DEF Inv

\* A proved drain or release leaves nothing that can still fill
\* (drainAndProveEntries, releaseAccountKillSwitchOwned).
THEOREM DrainIsReal == Spec => []DrainedIsDrained
<1>1. Inv => DrainedIsDrained
  BY DEF Inv, IInv
<1> QED
  BY <1>1, EntryAgreement, PTL DEF Inv

\* A settled intent is final, also for the fallback's unconditional update
\* (advanceWorkflowFallbackTransaction).
THEOREM SettledIsForGood == Spec => SettledStaysSettled
<1>1. Inv /\ [Next]_vars =>
        [\A c \in Cands : /\ intent[c] \in SettledIntent => intent'[c] \in SettledIntent
                          /\ intent[c] = "completed" => intent'[c] = "completed"]_vars
  BY SettledSteps
<1> QED
  BY <1>1, EntryAgreement, PTL DEF Spec, Inv, SettledStaysSettled
=============================================================================
