------------------------------- MODULE Restore -------------------------------
(***************************************************************************)
(* restoreBackupArtifact (backup.ts): the offline replacement of database, *)
(* configuration, runtime settings and templates by those of a verified    *)
(* artifact.  Members are staged beside their targets, the current files   *)
(* are moved aside, the staged ones moved in; any error moves everything   *)
(* back.  Every rename or removal may fail, the maintenance lease may end  *)
(* while members are staged, and the process may die between two renames.  *)
(***************************************************************************)
EXTENDS Naturals, Sequences, FiniteSets

CONSTANTS MaxFailures   \* failing file operations, over one restore

VARIABLES target,       \* what stands at each member's path
          preserved,    \* what stands at its .pre-restore path
          temporary,    \* what stands at its .restore .tmp path
          original,     \* what stood at the path when the restore began
          member,       \* the members the artifact brings
          progress,     \* RestoreProgress: members installed, sidecars moved
          at, todo,     \* the phase, and the members it has still to treat
          outcome,      \* what the caller was told
          lease, failures

restoreVars == <<target, preserved, temporary, original, member, progress, at, todo, outcome,
                 lease, failures>>

\* The write-ahead log beside the database is moved aside, never brought.
Paths == {"database", "config", "settings", "templates", "wal"}
Optional == {"settings", "templates"}

\* The orders in which the code treats the members.
Order == <<"database", "config", "settings", "templates">>
PreserveOrder == Order \o <<"wal">>
RemoveOrder == <<"templates", "settings", "config", "database">>
ReturnOrder == <<"config", "database", "settings", "templates", "wal">>

Pick(order, S) == SelectSeq(order, LAMBDA p : p \in S)

\* createRestorePlan: an artifact always has database and configuration; a
\* previous path is planned only for a file that exists.
Init ==
  /\ original \in [Paths -> {"old", "none"}]
  /\ \E o \in SUBSET Optional : member = {"database", "config"} \cup o
  /\ target = original /\ preserved = [p \in Paths |-> "none"]
  /\ temporary = [p \in Paths |-> "none"]
  /\ progress = {} /\ at = "stage" /\ todo = Pick(Order, member)
  /\ outcome = "none" /\ lease = TRUE /\ failures = 0

Fails == failures < MaxFailures /\ failures' = failures + 1
Phase(p, order, S) == at' = p /\ todo' = Pick(order, S)

\* removeInstalledRestoreFiles starts every rollback.
Rollback == Phase("remove", RemoveOrder, progress)

\* stageRestore: each member is copied and checked against the manifest; the
\* staged database is put into its fail-closed state, so what is staged is
\* never a database that may trade.
stageRestore ==
  /\ at = "stage" /\ todo # <<>>
  /\ \/ /\ temporary' = [temporary EXCEPT ![Head(todo)] = IF Head(todo) = "database" THEN "closed" ELSE "new"]
        /\ todo' = Tail(todo) /\ UNCHANGED <<at, failures>>
     \/ Fails /\ Rollback /\ UNCHANGED temporary
  /\ UNCHANGED <<target, preserved, original, member, progress, outcome, lease>>

\* assertRestoreInactive, the second time: staging is slow.
assertRestoreInactive ==
  /\ at = "stage" /\ todo = <<>>
  /\ IF lease THEN Phase("preserve", PreserveOrder, {p \in member \cup {"wal"} : original[p] = "old"})
              ELSE Rollback
  /\ UNCHANGED <<target, preserved, temporary, original, member, progress, outcome, lease, failures>>

\* preserveCurrentFiles: the current files are renamed aside, sidecars last.
preserveCurrentFiles ==
  /\ at = "preserve" /\ todo # <<>>
  /\ \/ LET p == Head(todo) IN
        /\ target' = [target EXCEPT ![p] = "none"] /\ preserved' = [preserved EXCEPT ![p] = target[p]]
        /\ todo' = Tail(todo) /\ UNCHANGED <<at, failures>>
        /\ progress' = IF p = "wal" THEN progress \cup {p} ELSE progress
     \/ Fails /\ Rollback /\ UNCHANGED <<target, preserved, progress>>
  /\ UNCHANGED <<temporary, original, member, outcome, lease>>

startInstall ==
  /\ at = "preserve" /\ todo = <<>> /\ Phase("install", Order, member)
  /\ UNCHANGED <<target, preserved, temporary, original, member, progress, outcome, lease, failures>>

\* installRestore: rename in, then note it.
installRestore ==
  /\ at = "install" /\ todo # <<>>
  /\ \/ LET p == Head(todo) IN
        /\ target' = [target EXCEPT ![p] = temporary[p]] /\ temporary' = [temporary EXCEPT ![p] = "none"]
        /\ progress' = progress \cup {p} /\ todo' = Tail(todo) /\ UNCHANGED <<at, failures>>
     \/ Fails /\ Rollback /\ UNCHANGED <<target, temporary, progress>>
  /\ UNCHANGED <<preserved, original, member, outcome, lease>>

\* The temporary files are gone already; a failing removal still rolls back.
restoreResult ==
  /\ at = "install" /\ todo = <<>>
  /\ \/ at' = "done" /\ outcome' = "restored" /\ UNCHANGED <<todo, failures>>
     \/ Fails /\ Rollback /\ UNCHANGED outcome
  /\ UNCHANGED <<target, preserved, temporary, original, member, progress, lease>>

\* A rollback step that fails ends the rollback: the caller sees that error.
Stuck == Fails /\ at' = "done" /\ outcome' = "stuck" /\ UNCHANGED todo

removeInstalledRestoreFiles ==
  /\ at = "remove" /\ todo # <<>>
  /\ \/ /\ target' = [target EXCEPT ![Head(todo)] = "none"]
        /\ todo' = Tail(todo) /\ UNCHANGED <<at, failures, outcome>>
     \/ Stuck /\ UNCHANGED target
  /\ UNCHANGED <<preserved, temporary, original, member, progress, lease>>

returnForgettingSidecars ==
  /\ at = "remove" /\ todo = <<>>
  /\ Phase("return", Order, {p \in member : preserved[p] # "none"})
  /\ UNCHANGED <<target, preserved, temporary, original, member, progress, outcome, lease, failures>>

startReturn ==
  /\ at = "remove" /\ todo = <<>>
  /\ Phase("return", ReturnOrder, {p \in member \cup (progress \cap {"wal"}) : preserved[p] # "none"})
  /\ UNCHANGED <<target, preserved, temporary, original, member, progress, outcome, lease, failures>>

\* restorePreservedFiles: what was moved aside moves back.
restorePreservedFiles ==
  /\ at = "return" /\ todo # <<>>
  /\ \/ LET p == Head(todo) IN
        /\ target' = [target EXCEPT ![p] = preserved[p]] /\ preserved' = [preserved EXCEPT ![p] = "none"]
        /\ todo' = Tail(todo) /\ UNCHANGED <<at, failures, outcome>>
     \/ Stuck /\ UNCHANGED <<target, preserved>>
  /\ UNCHANGED <<temporary, original, member, progress, lease>>

\* removeRestoreTemporaryFiles, then the original error is thrown.
rollbackRestore ==
  /\ at = "return" /\ todo = <<>>
  /\ \/ /\ temporary' = [p \in Paths |-> "none"] /\ at' = "done" /\ outcome' = "failed"
        /\ UNCHANGED <<todo, failures>>
     \/ Stuck /\ UNCHANGED temporary
  /\ UNCHANGED <<target, preserved, original, member, progress, lease>>

\* The lease ends, or its process dies, at any time.
leaseEnds ==
  /\ lease /\ lease' = FALSE
  /\ UNCHANGED <<target, preserved, temporary, original, member, progress, at, todo, outcome, failures>>

dies ==
  /\ at # "done" /\ at' = "done" /\ outcome' = "died"
  /\ UNCHANGED <<target, preserved, temporary, original, member, progress, todo, lease, failures>>

Next ==
  \/ stageRestore \/ assertRestoreInactive \/ preserveCurrentFiles \/ startInstall
  \/ installRestore \/ restoreResult \/ removeInstalledRestoreFiles \/ startReturn
  \/ restorePreservedFiles \/ rollbackRestore \/ leaseEnds \/ dies

Spec == Init /\ [][Next]_restoreVars

-----------------------------------------------------------------------------
TypeOK ==
  /\ target \in [Paths -> {"old", "new", "closed", "none"}]
  /\ preserved \in [Paths -> {"old", "none"}]
  /\ temporary \in [Paths -> {"new", "closed", "none"}] /\ progress \subseteq Paths

\* A restore that reports success put every member of the artifact in place,
\* the database fail-closed and without the old log beside it; one that
\* reports its own failure left every path as it found it
\* (restoreBackupArtifact, rollbackRestore).
RestoreIsAllOrNothing ==
  /\ outcome = "restored" =>
       /\ \A p \in member : target[p] = IF p = "database" THEN "closed" ELSE "new"
       /\ target["wal"] = "none"
  /\ outcome = "failed" => target = original

\* However the restore ends, and wherever it dies, a file the restore found
\* still exists, at its path or beside it, and no path outside the artifact
\* and the database's log was touched.
NothingIsDestroyed ==
  \A p \in Paths : /\ original[p] = "old" => "old" \in {target[p], preserved[p]}
                   /\ p \notin member \cup {"wal"} => target[p] = original[p]
=============================================================================
