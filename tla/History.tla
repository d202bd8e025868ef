------------------------------- MODULE History -------------------------------
(****************************************************************************)
(* The resumable traversal of an account's fill history.  The executor      *)
(* reads pages in bounded portions (history_pagination.py), proves which    *)
(* interval it has covered (history_coverage.py) and, for a provider that   *)
(* keeps only its newest fills, that nothing was dropped before it was read *)
(* (hyperliquid_retention.py).  Rows and checkpoint travel to the engine    *)
(* together; it stores the fills first and the checkpoint last              *)
(* (trading_engine.ts, trading_history_repository.ts).                      *)
(*                                                                          *)
(* A fill is its position in the order of execution; fills[i] is its time.  *)
(* Meanwhile the market goes on: fills happen and time passes between any   *)
(* two requests.  An acquisition may end after any page (budget, deadline,  *)
(* a transient error), its answer may be lost, and the engine may stop      *)
(* between storing fills and checkpoint.  Acquisitions of an account are    *)
(* serial.  Waiting times (nextReadAt) only end the present acquisition.    *)
(* The evidence window only moves back here (an older obligation); moving   *)
(* it forward after a proven baseline is the same reset.                    *)
(****************************************************************************)
EXTENDS Integers, Sequences, FiniteSets, FiniteSetsExt

CONSTANTS
    Profile,    \* a subset of {"hyperliquid", "krakenfutures"}
    LIMIT,      \* rows of a page
    RETENTION,  \* fills the provider keeps (hyperliquid)
    Width,      \* the longest window, 7 days
    OVERLAP,    \* how far a window reaches back into the previous one
    MaxTime, MaxFills

VARIABLES
    profile, now,
    fills,       \* the exchange's executions, by time
    required,    \* the oldest time the engine needs evidence for
    checkpoint,  \* trading_history_checkpoints, source "fills"
    acquisition, \* the read in progress
    delivered    \* fills the engine has stored

historyVars == <<profile, now, fills, required, checkpoint, acquisition, delivered>>

None == -1
NoProbe == [phase |-> "none", since |-> None, until |-> None,
            fixed |-> None, cursor |-> 0, count |-> 0, anchor |-> 0, validated |-> None]

Fresh(since) == [baseline |-> since, since |-> since, until |-> None, cursor |-> None,
                 scanned |-> None, coverage |-> None, complete |-> FALSE, probe |-> NoProbe]

NoAcquisition == [phase |-> "idle", started |-> 0, visible |-> 0, state |-> Fresh(0),
                  rows |-> {}, pages |-> 0]

Least(a, b) == IF a < b THEN a ELSE b
Most(a, b) == IF a > b THEN a ELSE b

----------------------------------------------------------------------------
(* The exchange *)

Retained == IF profile = "hyperliquid" THEN Most(1, Len(fills) - RETENTION + 1)..Len(fills)
                                       ELSE 1..Len(fills)

Between(start, end) == {i \in Retained : start <= fills[i] /\ fills[i] <= end}
Oldest(S, n) == {i \in S : Cardinality({j \in S : j < i}) < n}
Newest(S, n) == {i \in S : Cardinality({j \in S : j > i}) < n}
Times(S) == {fills[i] : i \in S}

\* A page is full, or ends with the last fill of some instant.
Pages(S) ==
    IF S = {} THEN {{}}
    ELSE {Oldest(S, n) : n \in {k \in 1..Least(LIMIT, Cardinality(S)) :
             \/ k = LIMIT
             \/ \A i \in Oldest(S, k), j \in S \ Oldest(S, k) : fills[i] < fills[j]}}

trade ==
    /\ Len(fills) < MaxFills
    /\ fills' = Append(fills, now)
    /\ UNCHANGED <<profile, now, required, checkpoint, acquisition, delivered>>

tick ==
    /\ now < MaxTime
    /\ now' = now + 1
    /\ UNCHANGED <<profile, fills, required, checkpoint, acquisition, delivered>>

----------------------------------------------------------------------------
(* Windows and coverage *)

Window(state) ==
    [state EXCEPT !.until = IF @ # None THEN @ ELSE Least(now, state.since + Width)]

end_window(state, complete) ==
    [state EXCEPT !.cursor = None, !.scanned = state.until,
                  !.since = Most(state.baseline, state.until - OVERLAP), !.until = None,
                  !.complete = complete /\ state.until >= now - OVERLAP]

\* A completed newer window cannot repair an earlier hole.
cover_window(state) ==
    LET start == IF state.coverage # None THEN state.coverage ELSE state.baseline
    IN IF state.since > start THEN state
       ELSE [state EXCEPT !.coverage = Most(start, state.until)]

covered_window(state) == state.coverage # None /\ state.coverage >= state.until

Covered(state) ==
    LET next == cover_window(state) IN end_window(next, covered_window(next))

----------------------------------------------------------------------------
(* Hyperliquid: pages by time, then the proof that nothing was dropped.  A  *)
(* step is [state, rows, more]: the next checkpoint, the rows received, and *)
(* whether the acquisition may go on reading.                               *)

Step(state, rows, more) == [state |-> state, rows |-> rows, more |-> more]
Discard(state) == Step([state EXCEPT !.probe = NoProbe, !.complete = FALSE], {}, FALSE)

begin_retention(state) ==
    [state EXCEPT !.complete = FALSE,
        !.probe = [NoProbe EXCEPT !.phase = "witness", !.since = state.since,
                                  !.until = state.until]]

\* A page that ends inside an instant is continued at that instant; only a
\* short page of a single instant has consumed it.
continuation(state, start, page) ==
    LET last == Max(Times(page))
    IN IF last > start
       THEN Step([state EXCEPT !.cursor = last, !.complete = FALSE], page, TRUE)
       ELSE IF Cardinality(page) = LIMIT
       THEN Step([state EXCEPT !.complete = FALSE], page, FALSE)
       ELSE IF last < state.until
       THEN Step([state EXCEPT !.cursor = last + 1, !.complete = FALSE], page, TRUE)
       ELSE Step(begin_retention(state), page, TRUE)

hyperliquid_fills(state) ==
    LET start == IF state.cursor # None THEN state.cursor ELSE state.since
        clean == [state EXCEPT !.probe = NoProbe]
    IN {IF page = {} THEN Step(begin_retention(clean), {}, TRUE)
        ELSE continuation(clean, start, page) : page \in Pages(Between(start, state.until))}

\* The oldest retained fill is older than the window: nothing of it is gone.
witnessCoversOnTouch(state, page) == page = {} \/ Min(Times(page)) <= state.since
witnessCovers(state, page) == page = {} \/ Min(Times(page)) < state.since

witness_step(state, page) ==
    IF witnessCovers(state, page)
    THEN Step(Covered([state EXCEPT !.probe = NoProbe]), {}, TRUE)
    ELSE IF Cardinality(page) = LIMIT /\ Cardinality(Times(page)) = 1
    THEN Discard(state)
    ELSE Step([state EXCEPT !.probe.phase = "horizon", !.probe.count = Cardinality(page),
                            !.probe.cursor = Max(Times(page)), !.probe.anchor = Min(page)],
              {}, TRUE)

horizon_step(state, latest) ==
    IF latest = {} \/ Max(Times(latest)) < state.probe.cursor THEN Discard(state)
    ELSE Step([state EXCEPT !.probe.phase = "scan",
                            !.probe.fixed = Most(now, Max(Times(latest)))], {}, TRUE)

\* Count every row from the oldest on, the overlaps of pages included.
scan_step(state, page) ==
    LET probe == state.probe
        count == probe.count + Cardinality(page)
        last == Max(Times(page))
        cursor == IF last > probe.cursor THEN last ELSE last + 1
    IN IF count >= RETENTION
       THEN Step(end_window([state EXCEPT !.probe = NoProbe], FALSE), {}, TRUE)
       ELSE IF page = {}
       THEN Step([state EXCEPT !.probe.phase = "verify", !.probe.count = count], {}, TRUE)
       ELSE IF last = probe.cursor /\ Cardinality(page) = LIMIT
       THEN Discard(state)
       ELSE Step([state EXCEPT !.probe.phase = IF cursor > probe.fixed THEN "verify" ELSE "scan",
                               !.probe.cursor = cursor, !.probe.count = count], {}, TRUE)

verify_step(state, page) ==
    IF state.probe.anchor \notin page THEN Discard(state)
    ELSE Step(Covered([state EXCEPT !.probe.phase = "proved", !.probe.validated = now,
                                    !.until = Least(state.probe.until, state.probe.fixed)]),
              {}, TRUE)

Everything == Pages(Between(0, MaxTime))
retention_step(state) ==
    CASE state.probe.phase = "witness" -> {witness_step(state, page) : page \in Everything}
      [] state.probe.phase = "horizon" -> {horizon_step(state, Newest(Retained, LIMIT))}
      [] state.probe.phase = "scan" ->
           {scan_step(state, page) :
                page \in Pages(Between(state.probe.cursor, state.probe.fixed))}
      [] state.probe.phase = "verify" -> {verify_step(state, page) : page \in Everything}

hyperliquid_page(state) ==
    IF state.probe.phase \in {"none", "proved"} THEN hyperliquid_fills(state)
                                                ELSE retention_step(state)

\* Kraken: an opaque continuation token; here the last row delivered.
kraken_page(state) ==
    LET left == {i \in Between(state.since, state.until) : i > state.cursor}
        page == Oldest(left, LIMIT)
    IN {IF page = left THEN Step(Covered(state), page, TRUE)
        ELSE Step([state EXCEPT !.cursor = Max(page), !.complete = FALSE], page, TRUE)}

Page(state) == IF profile = "hyperliquid" THEN hyperliquid_page(Window(state))
                                          ELSE kraken_page(Window(state))

----------------------------------------------------------------------------
(* The acquisition *)

\* historyCheckpoints with alignEvidenceWindow: an older obligation restarts
\* the traversal.
beginAcquisition ==
    /\ acquisition.phase = "idle"
    /\ LET state == IF required < checkpoint.baseline THEN Fresh(required) ELSE checkpoint
       IN /\ checkpoint' = state
          /\ acquisition' = [NoAcquisition EXCEPT !.phase = "reading", !.started = now,
                                !.visible = Len(fills), !.state = state]
    /\ UNCHANGED <<profile, now, fills, required, delivered>>

\* read_history_pages; a source scanned past the start of the read is done.
readPage ==
    /\ acquisition.phase = "reading"
    /\ \E step \in Page(acquisition.state) :
          acquisition' = [acquisition EXCEPT
              !.state = step.state, !.rows = @ \cup step.rows, !.pages = 1,
              !.phase = IF step.more /\ step.state.scanned < acquisition.started
                        THEN "reading" ELSE "answered"]
    /\ UNCHANGED <<profile, now, fills, required, checkpoint, delivered>>

\* The read ends with what it has: the budget is spent (the page's own verdict
\* stands), or a request meets the deadline or a transient error.
budgetEnds ==
    /\ acquisition.phase = "reading"
    /\ \E cut \in BOOLEAN :
          acquisition' = [acquisition EXCEPT !.phase = "answered",
                                             !.state.complete = @ /\ ~cut]
    /\ UNCHANGED <<profile, now, fills, required, checkpoint, delivered>>

persistRemoteExecutions ==
    /\ acquisition.phase = "answered"
    /\ delivered' = delivered \cup acquisition.rows
    /\ acquisition' = [acquisition EXCEPT !.phase = "stored"]
    /\ UNCHANGED <<profile, now, fills, required, checkpoint>>

persistHistoryProgress ==
    /\ acquisition.phase = "stored"
    /\ checkpoint' = acquisition.state
    /\ acquisition' = NoAcquisition
    /\ UNCHANGED <<profile, now, fills, required, delivered>>

\* The answer is lost, or the engine stops before the checkpoint is stored.
acquisitionLost ==
    /\ acquisition.phase # "idle"
    /\ acquisition' = NoAcquisition
    /\ UNCHANGED <<profile, now, fills, required, checkpoint, delivered>>

\* A restore or an import reveals an older obligation.
earlierObligation ==
    /\ required > 0
    /\ required' = 0
    /\ UNCHANGED <<profile, now, fills, checkpoint, acquisition, delivered>>

\* fresh_fill_source: the answer may call the fill history complete.
retention_covers(probe, through) ==
    probe.phase = "none" \/ (/\ probe.phase = "proved"
                             /\ probe.validated >= acquisition.started
                             /\ through <= Least(probe.fixed, probe.until))

ClaimsComplete ==
    LET state == acquisition.state
    IN /\ acquisition.phase \in {"answered", "stored"}
       /\ acquisition.pages > 0 /\ state.complete
       /\ state.coverage # None
       /\ state.baseline <= required /\ state.coverage >= acquisition.started
       /\ retention_covers(state.probe, state.coverage)

----------------------------------------------------------------------------
HistoryInit ==
    /\ profile \in Profile
    /\ now = 0 /\ fills = <<>> /\ required = 1
    /\ checkpoint = Fresh(1)
    /\ acquisition = NoAcquisition
    /\ delivered = {}

HistoryNext ==
    \/ trade \/ tick
    \/ now >= 1 /\ beginAcquisition
    \/ readPage \/ budgetEnds \/ persistRemoteExecutions \/ persistHistoryProgress
    \/ acquisitionLost \/ earlierObligation

HistorySpec == HistoryInit /\ [][HistoryNext]_historyVars

----------------------------------------------------------------------------
HistoryTypeOK ==
    /\ fills \in Seq(0..MaxTime) /\ Len(fills) <= MaxFills
    /\ delivered \subseteq 1..Len(fills)
    /\ \A state \in {checkpoint, acquisition.state} :
          /\ state.baseline \in 0..1 /\ state.since \in 0..MaxTime
          /\ state.until \in -1..MaxTime /\ state.coverage \in -1..MaxTime
          /\ state.probe.count < RETENTION
    /\ acquisition.phase \in {"idle", "reading", "answered", "stored"}

\* The interval a stored checkpoint calls covered holds no fill the engine
\* does not have: page limits, fills of the same instant, a provider dropping
\* its oldest fills during the read, interrupted reads, lost answers and a
\* stop between fills and checkpoint leave no hole behind the claim.
CoveredIsDelivered ==
    checkpoint.coverage # None =>
        \A i \in 1..Len(fills) :
            (checkpoint.baseline <= fills[i] /\ fills[i] < checkpoint.coverage)
                => i \in delivered

\* An answer that calls the fill history complete, the evidence on which
\* releases and closures rest, misses no fill that happened before the read
\* began.
CompleteMissesNothing ==
    (acquisition.phase = "stored" /\ ClaimsComplete) =>
        \A i \in 1..acquisition.visible :
            (required <= fills[i] /\ fills[i] < acquisition.started) => i \in delivered
=============================================================================
