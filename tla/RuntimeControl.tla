--------------------------- MODULE RuntimeControl ---------------------------
(***************************************************************************)
(* The three global switches of trading - execution, live trading and the  *)
(* kill switch - under concurrent operators (trading_web_control.ts,       *)
(* trading_runtime_release.ts, updateTradingRuntimeState in                *)
(* trading_repository.ts).  The dashboard handles one mutation at a time   *)
(* and so does the bridge that executes agents' requests, but the two run  *)
(* beside each other and beside the engine's clock guard.  The switches    *)
(* live in one database row which updateTradingRuntimeState reads and then *)
(* writes in two database calls; what keeps the read from being stale is   *)
(* the fence epoch of TradingMutationCoordinator together with the order   *)
(* in which SerializedDatabaseAccess executes the calls.                   *)
(***************************************************************************)
EXTENDS Naturals, Sequences, FiniteSets

CONSTANTS Asked,        \* Asked[a]: what actor a (an operator or the engine) may ask for
          MaxRequests   \* requests each actor makes

VARIABLES row,          \* the singleton row of trading_runtime_state
          dbq,          \* calls accepted by SerializedDatabaseAccess, oldest first
          act,          \* what each actor is doing: [request, at, seen]
          fenced,       \* fenced[a]: an operator fenced entries since a took its epoch
          runtimeLock,  \* owner and waiters of the coordinator key '@runtime', oldest first
          entries,      \* TradingRuntime.entriesEnabled
          stopped,      \* an operator's stop was written and not released since
          overlapped,   \* a lowering request wrote back a row it had read before that stop
          asked         \* requests made by each actor

runtimeVars == <<row, dbq, act, fenced, runtimeLock, entries, stopped, overlapped, asked>>

Actor == DOMAIN Asked
Row == [execution : BOOLEAN, live : BOOLEAN, kill : BOOLEAN]
Idle == [request |-> "none", at |-> "idle", seen |-> [execution |-> FALSE, live |-> FALSE, kill |-> FALSE]]

Stops == {"kill", "flatten", "rotate"}
Lowering == {"pause", "unlive", "reset"}
UnderRuntimeLock == {"execute", "pause", "live", "unlive", "kill", "release"}
Requests == Stops \cup Lowering \cup UnderRuntimeLock \cup {"drift"}

Init ==
  /\ row \in {r \in Row : r.kill => ~r.execution}
  /\ dbq = <<>> /\ act = [a \in Actor |-> Idle] /\ fenced = [a \in Actor |-> FALSE]
  /\ runtimeLock = <<>> /\ entries = row.execution
  /\ stopped = FALSE /\ overlapped = FALSE /\ asked = [a \in Actor |-> 0]

At(a, at) == act[a].at = at
Moves(a, at) == act' = [act EXCEPT ![a].at = at]

\* fenceEntries, and with it disableEntries: every epoch taken before is stale.
fenceEntries == fenced' = [a \in Actor |-> TRUE]
disableEntries == fenceEntries /\ entries' = FALSE

\* A database call joins the queue the moment the code makes it.
Call(a, kind) == dbq' = Append(dbq, [by |-> a, kind |-> kind])

-----------------------------------------------------------------------------
(* Requests arrive.  setRuntime holds and fences entries for a lowering    *)
(* request, takes its epoch and queues for '@runtime'; emergencyFlatten,   *)
(* credential rotation, the reset precheck and the clock guard do not.     *)

setRuntime(a, r) ==
  /\ r \in UnderRuntimeLock
  /\ fenced' = IF r \in {"kill", "pause", "unlive"}
               THEN [b \in Actor |-> b # a] ELSE [fenced EXCEPT ![a] = FALSE]
  /\ runtimeLock' = Append(runtimeLock, a)
  /\ act' = [act EXCEPT ![a] = [Idle EXCEPT !.request = r, !.at = "queued"]]
  /\ UNCHANGED <<dbq, entries>>

\* disableEntries is followed by the first database call without an await.
emergencyFlatten(a, r) ==
  /\ r \in {"flatten", "reset"}
  /\ disableEntries
  /\ Call(a, "read")
  /\ act' = [act EXCEPT ![a] = [Idle EXCEPT !.request = r, !.at = "update"]]
  /\ UNCHANGED runtimeLock

replaceAccountCredentials(a, r) ==
  /\ r = "rotate"
  /\ fenceEntries
  /\ act' = [act EXCEPT ![a] = [Idle EXCEPT !.request = r, !.at = "catalogue"]]
  /\ UNCHANGED <<dbq, runtimeLock, entries>>

\* The engine's clock guard stops entries without a fence.
assertClockSafeForEntry(a, r) ==
  /\ r = "drift"
  /\ Call(a, "read")
  /\ act' = [act EXCEPT ![a] = [Idle EXCEPT !.request = r, !.at = "update"]]
  /\ UNCHANGED <<fenced, runtimeLock, entries>>

arrives(a, r) ==
  /\ At(a, "idle") /\ asked[a] < MaxRequests
  /\ asked' = [asked EXCEPT ![a] = @ + 1]
  /\ \/ setRuntime(a, r) \/ emergencyFlatten(a, r)
     \/ replaceAccountCredentials(a, r) \/ assertClockSafeForEntry(a, r)
  /\ UNCHANGED <<row, stopped, overlapped>>

\* The account and its catalogue entry were read; the switches are next.
rotationStops(a) ==
  /\ At(a, "catalogue") /\ disableEntries /\ Call(a, "read") /\ Moves(a, "update")
  /\ UNCHANGED <<row, runtimeLock, stopped, overlapped, asked>>

-----------------------------------------------------------------------------
(* Owners of '@runtime'. *)

Leaves(a) == /\ act' = [act EXCEPT ![a] = Idle]
             /\ runtimeLock' = SelectSeq(runtimeLock, LAMBDA b : b # a)

owned(a) ==
  /\ At(a, "queued") /\ Head(runtimeLock) = a
  /\ \/ /\ act[a].request \in {"pause", "kill"}
        /\ disableEntries /\ Call(a, "read") /\ Moves(a, "update")
     \/ /\ act[a].request = "unlive"
        /\ fenceEntries /\ Call(a, "read") /\ Moves(a, "update") /\ UNCHANGED entries
     \/ /\ act[a].request = "live"
        /\ Call(a, "accounts") /\ Moves(a, "overview") /\ UNCHANGED <<fenced, entries>>
     \/ /\ act[a].request \in {"execute", "release"}
        /\ Call(a, "overview") /\ Moves(a, "overview") /\ UNCHANGED <<fenced, entries>>
  /\ UNCHANGED <<row, runtimeLock, stopped, overlapped, asked>>

assertAuthority(a) == ~fenced[a]

\* reconcileEnabledAccounts returned; the epoch is compared right before the
\* update starts.
reconciled(a) ==
  /\ At(a, "reconcile")
  /\ IF assertAuthority(a)
     THEN Call(a, "read") /\ Moves(a, "update") /\ UNCHANGED runtimeLock
     ELSE Leaves(a) /\ UNCHANGED dbq
  /\ UNCHANGED <<row, fenced, entries, stopped, overlapped, asked>>

\* An account could not be reconciled, proved or verified.
refused(a) ==
  /\ At(a, "reconcile") \/ At(a, "prove")
  /\ Leaves(a)
  /\ UNCHANGED <<row, dbq, fenced, entries, stopped, overlapped, asked>>

\* Every account was owned in canonical order, reconciled twice and its
\* balance read; a fence since the epochs were taken ends the release.
prepared(a) ==
  /\ At(a, "prove")
  /\ IF assertAuthority(a)
     THEN Call(a, "release") /\ Moves(a, "commit") /\ UNCHANGED runtimeLock
     ELSE Leaves(a) /\ UNCHANGED dbq
  /\ UNCHANGED <<row, fenced, entries, stopped, overlapped, asked>>

-----------------------------------------------------------------------------
(* The database executes one call at a time, in the order they were made;  *)
(* the caller goes on at once with what it had read.                       *)

Next1(kind) == dbq # <<>> /\ Head(dbq).kind = kind
Caller == Head(dbq).by
Changes(r) ==
  CASE r \in {"kill", "flatten", "rotate", "drift"} -> [execution |-> FALSE, kill |-> TRUE]
    [] r = "reset" -> [execution |-> FALSE, live |-> FALSE]
    [] r \in {"pause", "undo"} -> [execution |-> FALSE]
    [] r = "execute" -> [execution |-> TRUE]
    [] r = "live" -> [live |-> TRUE]
    [] r = "unlive" -> [live |-> FALSE]

Merged(seen, change) ==
  LET next == [f \in DOMAIN seen |-> IF f \in DOMAIN change THEN change[f] ELSE seen[f]]
  IN  IF next.kill THEN [next EXCEPT !.execution = FALSE] ELSE next

overview ==
  /\ Next1("overview")
  /\ LET a == Caller IN
     \/ /\ act[a].request = "execute" /\ ~row.kill
        /\ dbq' = Append(Tail(dbq), [by |-> a, kind |-> "accounts"]) /\ UNCHANGED <<act, runtimeLock>>
     \/ /\ act[a].request = "release" /\ row.kill
        /\ dbq' = Tail(dbq) /\ Moves(a, "prove") /\ UNCHANGED runtimeLock
     \/ /\ row.kill = (act[a].request = "execute")
        /\ dbq' = Tail(dbq) /\ Leaves(a)
  /\ UNCHANGED <<row, fenced, entries, stopped, overlapped, asked>>

\* reconcileEnabledAccounts and setLiveRuntime list the accounts and
\* reconcile each, at least one, which reads the database again.
reconcileEnabledAccounts ==
  /\ \/ /\ Next1("accounts")
        /\ dbq' = Append(Tail(dbq), [by |-> Caller, kind |-> "evidence"]) /\ UNCHANGED act
     \/ /\ Next1("evidence")
        /\ dbq' = Tail(dbq) /\ Moves(Caller, "reconcile")
  /\ UNCHANGED <<row, fenced, runtimeLock, entries, stopped, overlapped, asked>>

\* updateTradingRuntimeState: the row is read ...
getTradingRuntimeState ==
  /\ Next1("read")
  /\ act' = [act EXCEPT ![Caller].seen = row]
  /\ dbq' = Append(Tail(dbq), [by |-> Caller, kind |-> "write"])
  /\ UNCHANGED <<row, fenced, runtimeLock, entries, stopped, overlapped, asked>>

\* ... and written back whole.  Starting execution then asks the runtime to
\* enable entries.
updateTradingRuntimeState ==
  /\ Next1("write")
  /\ LET a == Caller
         r == IF At(a, "undo") THEN "undo" ELSE act[a].request
         next == Merged(act[a].seen, Changes(r))
     IN  /\ row' = next
         /\ stopped' = (stopped \/ r \in Stops)
         /\ overlapped' = (overlapped \/ (r \in Lowering \cup {"undo"} /\ row.kill /\ ~next.kill))
         /\ \/ /\ r = "execute"
               /\ dbq' = Append(Tail(dbq), [by |-> a, kind |-> "enable"])
               /\ Moves(a, "enable") /\ UNCHANGED runtimeLock
            \/ /\ r # "execute"
               /\ dbq' = Tail(dbq) /\ Leaves(a)
  /\ UNCHANGED <<fenced, entries, asked>>

\* enableEntries re-reads the row; when it may not enable entries the caller
\* disables them and takes execution back.
enableEntries ==
  /\ Next1("enable")
  /\ LET a == Caller
         mayEnable == row.execution /\ ~row.kill
     IN  \/ /\ mayEnable
            /\ entries' = TRUE /\ dbq' = Tail(dbq) /\ Leaves(a) /\ UNCHANGED fenced
         \/ \* refused by the row, startup authority or the protection scan
            /\ disableEntries
            /\ dbq' = Append(Tail(dbq), [by |-> a, kind |-> "read"])
            /\ Moves(a, "undo") /\ UNCHANGED runtimeLock
  /\ UNCHANGED <<row, stopped, overlapped, asked>>

\* commitGlobalRelease: one transaction.  While it runs the database serves
\* no one else, but operators may still fence.
beginRelease ==
  /\ Next1("release") /\ At(Caller, "commit")
  /\ IF row.kill /\ assertAuthority(Caller)
     THEN Moves(Caller, "committing") /\ UNCHANGED <<dbq, runtimeLock>>
     ELSE Leaves(Caller) /\ dbq' = Tail(dbq)
  /\ UNCHANGED <<row, fenced, entries, stopped, overlapped, asked>>

commitRelease ==
  /\ Next1("release") /\ At(Caller, "committing")
  /\ \/ /\ assertAuthority(Caller)
        /\ row' = [row EXCEPT !.kill = FALSE, !.execution = FALSE] /\ stopped' = FALSE
     \/ \* a fence or a conflicting proof rolls the release back
        UNCHANGED <<row, stopped>>
  /\ dbq' = Tail(dbq) /\ Leaves(Caller)
  /\ UNCHANGED <<fenced, entries, overlapped, asked>>

Database == overview \/ reconcileEnabledAccounts \/ getTradingRuntimeState \/ updateTradingRuntimeState
            \/ enableEntries \/ beginRelease \/ commitRelease

Next ==
  \/ \E a \in Actor : \E r \in Asked[a] : arrives(a, r)
  \/ \E a \in Actor : rotationStops(a) \/ owned(a) \/ reconciled(a) \/ refused(a) \/ prepared(a)
  \/ Database

Spec == Init /\ [][Next]_runtimeVars

-----------------------------------------------------------------------------
TypeOK ==
  /\ row \in Row /\ entries \in BOOLEAN /\ stopped \in BOOLEAN /\ overlapped \in BOOLEAN
  /\ \A a \in Actor : act[a].request \in Requests \cup {"none"} /\ act[a].seen \in Row
  /\ fenced \in [Actor -> BOOLEAN] /\ asked \in [Actor -> 0..MaxRequests]
  /\ \A i \in DOMAIN runtimeLock : runtimeLock[i] \in Actor
  /\ Len(dbq) <= Cardinality(Actor)

\* After an operator stopped trading - kill switch, emergency flatten or
\* credential rotation - the kill switch stays engaged and execution stays
\* off until a proved release commits, whoever asks for execution, live
\* trading or a release meanwhile.  The one exception is a request that
\* lowers another switch and had read the row before the stop wrote it.
StopsPrevail == stopped => overlapped \/ (row.kill /\ ~row.execution)

\* The same without the exception.
StopsHold == stopped => row.kill /\ ~row.execution
=============================================================================
