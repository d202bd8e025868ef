----------------------------- MODULE AuditTrail -----------------------------
(***************************************************************************)
(* The hash-chained audit trail (audit_trail.ts) and the write-once        *)
(* archive it is delivered to (services/b2-audit-receiver).  A record is   *)
(* appended to the local file, then delivered; only then is its caller     *)
(* told.  Deliveries time out while the receiver still works on them, the  *)
(* receiver's upload may land after its own deadline, replay delivers the  *)
(* file while new records are written, and the process may die anywhere.   *)
(*                                                                         *)
(* A record's hash is the record's id: two records have the same hash only *)
(* when they are the same.                                                 *)
(***************************************************************************)
EXTENDS Naturals, Sequences, FiniteSets

CONSTANTS MaxRecords,   \* events recorded
          MaxDiskFaults,\* failing appends
          MaxDeaths,    \* deaths of the service
          MaxTimeouts,  \* deliveries given up by the sender
          MaxResets     \* resetLocal calls

VARIABLES file,         \* the local JSONL file; a torn line has id 0
          sequence, previousHash, \* the trail's memory
          step,         \* recordSerial: the record being appended or delivered
          replay,       \* replayRemote: the index delivered next; 0: not running
          serving,      \* the process is up and its trail initialised
          late,         \* persists still running after their sender gave up
          puts,         \* uploads still on their way after their deadline
          archive,      \* the bucket: one locked version per sequence number
          acked,        \* ids whose record() resolved
          ids, trouble  \* ids used; faults, deaths, timeouts, resets so far

trailVars == <<file, sequence, previousHash, step, replay, serving, late, puts, archive,
               acked, ids, trouble>>

ZERO_HASH == 0
NoStep == [at |-> "idle", rec |-> [seq |-> 0, prev |-> 0, id |-> 0]]
Torn == [seq |-> 0, prev |-> 0, id |-> 0]

Init ==
  /\ file = <<>> /\ sequence = 0 /\ previousHash = ZERO_HASH
  /\ step = NoStep /\ replay = 0 /\ serving = TRUE
  /\ late = {} /\ puts = {} /\ archive = <<>> /\ acked = {} /\ ids = 0
  /\ trouble = [disk |-> 0, deaths |-> 0, timeouts |-> 0, resets |-> 0]

\* verifiedRecordsFromFile: sequence numbers count up and each record names
\* the hash of the one before.
verifiedRecords(f) ==
  \A i \in 1..Len(f) : /\ f[i].seq = i /\ f[i].id # 0
                       /\ f[i].prev = IF i = 1 THEN ZERO_HASH ELSE f[i - 1].id

Last(f) == IF f = <<>> THEN Torn ELSE f[Len(f)]

-----------------------------------------------------------------------------
(* Recording: one at a time (writeChain). *)

recordSerial ==
  /\ serving /\ step.at = "idle" /\ ids < MaxRecords
  /\ ids' = ids + 1
  /\ step' = [at |-> "append", rec |-> [seq |-> sequence + 1, prev |-> previousHash, id |-> ids + 1]]
  /\ UNCHANGED <<file, sequence, previousHash, replay, serving, late, puts, archive, acked, trouble>>

\* Write, sync, close; then the memory of the chain advances, before and
\* whatever becomes of the delivery.
appendRecord ==
  /\ serving /\ step.at = "append"
  /\ file' = Append(file, step.rec)
  /\ sequence' = step.rec.seq /\ previousHash' = step.rec.id
  /\ step' = [step EXCEPT !.at = "deliver"]
  /\ UNCHANGED <<replay, serving, late, puts, archive, acked, ids, trouble>>

\* No room or no file: nothing is written.  A failing sync leaves the line.
appendFails ==
  /\ serving /\ step.at = "append" /\ trouble.disk < MaxDiskFaults
  /\ file' \in {file, Append(file, step.rec)}
  /\ trouble' = [trouble EXCEPT !.disk = IF file' = file THEN @ ELSE @ + 1]
  /\ step' = NoStep
  /\ UNCHANGED <<sequence, previousHash, replay, serving, late, puts, archive, acked, ids>>

-----------------------------------------------------------------------------
(* The receiver: one persist at a time, against a write-once bucket.        *)

Archived(n) == n \in DOMAIN archive

verifyAnyPredecessor(rec) == rec.seq <= Len(archive) + 1

\* verifyPredecessor: the previous object is there and has the hash the
\* record names.
verifyPredecessor(rec) ==
  rec.seq = 1 \/ (Archived(rec.seq - 1) /\ archive[rec.seq - 1].id = rec.prev)

Put(rec) == IF rec.seq = Len(archive) + 1 THEN Append(archive, rec) ELSE archive

\* persistBounded answers "stored" or "replayed" only for these very bytes
\* under this sequence number; everything else is a conflict or a failure.
persistBounded(rec) ==
  [store |-> IF verifyPredecessor(rec) /\ ~Archived(rec.seq) THEN Put(rec) ELSE archive,
   ok |-> verifyPredecessor(rec) /\ (~Archived(rec.seq) \/ archive[rec.seq] = rec)]

\* The conditional upload of a persist whose deadline passed may still land.
\* Assumed: the bucket honours IfNoneMatch, which the receiver asks a live test
\* to establish; a bucket that ignored it would keep two versions here.
uploadLands(rec) ==
  /\ rec \in puts /\ puts' = puts \ {rec}
  /\ archive' = IF Archived(rec.seq) THEN archive ELSE Put(rec)
  /\ UNCHANGED <<file, sequence, previousHash, step, replay, serving, late, acked, ids, trouble>>

\* A persist that was running when its sender gave up.
persistLate(rec) ==
  /\ rec \in late /\ late' = late \ {rec}
  /\ archive' = persistBounded(rec).store
  /\ UNCHANGED <<file, sequence, previousHash, step, replay, serving, puts, acked, ids, trouble>>

-----------------------------------------------------------------------------
(* Delivery. *)

\* The receiver answered: the caller of record() is told.
deliverRemote ==
  /\ serving /\ step.at = "deliver"
  /\ archive' = persistBounded(step.rec).store
  /\ acked' = IF persistBounded(step.rec).ok THEN acked \cup {step.rec.id} ELSE acked
  /\ step' = NoStep
  /\ UNCHANGED <<file, sequence, previousHash, replay, serving, late, puts, ids, trouble>>

\* The delivery fails: lost before it reached the receiver, cut off while the
\* receiver was at work, its upload still on its way, or stored with the
\* answer lost.
GivesUp(rec) ==
  /\ trouble.timeouts < MaxTimeouts
  /\ trouble' = [trouble EXCEPT !.timeouts = @ + 1]
  /\ \/ UNCHANGED <<late, puts, archive>>
     \/ late' = late \cup {rec} /\ UNCHANGED <<puts, archive>>
     \/ /\ verifyPredecessor(rec) /\ ~Archived(rec.seq)
        /\ puts' = puts \cup {rec} /\ UNCHANGED <<late, archive>>
     \/ archive' = persistBounded(rec).store /\ UNCHANGED <<late, puts>>

deliveryTimesOut ==
  /\ serving /\ step.at = "deliver" /\ GivesUp(step.rec) /\ step' = NoStep
  /\ UNCHANGED <<file, sequence, previousHash, replay, serving, acked, ids>>

\* replayRemote delivers the verified file from its beginning, next to new
\* records; it stops at the first failure.
replayRemote ==
  /\ serving /\ replay = 0 /\ file # <<>> /\ Len(archive) < Len(file) /\ replay' = 1
  /\ UNCHANGED <<file, sequence, previousHash, step, serving, late, puts, archive, acked, ids, trouble>>

\* The next record of the file, when everything up to it verifies.
Readable(i) == i <= Len(file) /\ verifiedRecords(SubSeq(file, 1, i))

replayOne ==
  /\ serving /\ replay > 0
  /\ \/ /\ Readable(replay)
        /\ archive' = persistBounded(file[replay]).store
        /\ replay' = IF persistBounded(file[replay]).ok THEN replay + 1 ELSE 0
        /\ UNCHANGED <<late, puts, trouble>>
     \/ /\ Readable(replay)
        /\ GivesUp(file[replay]) /\ replay' = 0
     \/ /\ ~Readable(replay)
        /\ replay' = 0 /\ UNCHANGED <<late, puts, archive, trouble>>
  /\ UNCHANGED <<file, sequence, previousHash, step, serving, acked, ids>>

-----------------------------------------------------------------------------
(* Death, start and reset. *)

\* A death while a line is being written may leave it whole, torn or absent.
dies ==
  /\ serving /\ trouble.deaths < MaxDeaths
  /\ trouble' = [trouble EXCEPT !.deaths = @ + 1]
  /\ file' \in IF step.at = "append" THEN {file, Append(file, step.rec), Append(file, Torn)} ELSE {file}
  /\ late' \in IF step.at = "deliver" THEN {late, late \cup {step.rec}} ELSE {late}
  /\ serving' = FALSE /\ step' = NoStep /\ replay' = 0
  /\ UNCHANGED <<sequence, previousHash, puts, archive, acked, ids>>

\* initialize verifies the whole file; a file that does not verify keeps the
\* service in recovery.
initialize ==
  /\ ~serving /\ verifiedRecords(file) /\ serving' = TRUE
  /\ sequence' = Last(file).seq /\ previousHash' = Last(file).id
  /\ UNCHANGED <<file, step, replay, late, puts, archive, acked, ids, trouble>>

\* Factory reset: the local chain begins anew, under the same source id.
resetLocal ==
  /\ serving /\ step.at = "idle" /\ trouble.resets < MaxResets
  /\ trouble' = [trouble EXCEPT !.resets = @ + 1]
  /\ file' = <<>> /\ sequence' = 0 /\ previousHash' = ZERO_HASH /\ replay' = 0
  /\ UNCHANGED <<step, serving, late, puts, archive, acked, ids>>

Next ==
  \/ recordSerial \/ appendRecord \/ appendFails \/ deliverRemote \/ deliveryTimesOut
  \/ \E rec \in puts : uploadLands(rec)
  \/ \E rec \in late : persistLate(rec)
  \/ replayRemote \/ replayOne \/ dies \/ initialize \/ resetLocal

Spec == Init /\ [][Next]_trailVars

-----------------------------------------------------------------------------
(* Properties. *)

Rec == [seq : 0..MaxRecords, prev : 0..MaxRecords, id : 0..MaxRecords]

TypeOK ==
  /\ file \in Seq(Rec) /\ archive \in Seq(Rec) /\ late \subseteq Rec /\ puts \subseteq Rec
  /\ sequence \in 0..MaxRecords /\ previousHash \in 0..MaxRecords
  /\ step \in [at : {"idle", "append", "deliver"}, rec : Rec] /\ replay \in 0..MaxRecords + 1
  /\ serving \in BOOLEAN /\ acked \subseteq 1..MaxRecords /\ ids \in 0..MaxRecords

\* The archive is one unbroken hash chain, whatever deliveries are lost,
\* repeated, overtaken by a replay or land late (verifyPredecessor,
\* persistBounded).
ArchiveIsAChain ==
  \A n \in DOMAIN archive : archive[n].seq = n /\ (n > 1 => archive[n].prev = archive[n - 1].id)

\* A caller of record() that was told of success finds its record in the
\* archive, and with it every record before it.
AcknowledgedIsArchived == \A id \in acked : \E n \in DOMAIN archive : archive[n].id = id

\* Without a fault of the disk or a death in the middle of a write the local
\* file verifies, also when deliveries fail: a failed delivery never makes a
\* sequence number be used twice (recordSerial).
LocalChainVerifies == trouble.disk = 0 /\ trouble.deaths = 0 => verifiedRecords(file)
=============================================================================
