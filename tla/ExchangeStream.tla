---------------------------- MODULE ExchangeStream ----------------------------
(****************************************************************************)
(* The private event stream of one exchange account, end to end: the        *)
(* executor's AccountStream and ExchangeStreamHub (stream_hub.py), the poll *)
(* of TradingRuntime over HTTP (trading_runtime.ts, ccxt_exchange.ts), the  *)
(* stored events and stream state (exchange_stream_repository.ts) and the   *)
(* forced reconciliation a state-changing event asks for.                   *)
(*                                                                          *)
(* An event is its number in the order the exchange produced it.  The       *)
(* executor keeps the last MaxBuffered events and numbers them from 1 for   *)
(* every stream it opens; the runtime keeps the last cursor in memory.  The *)
(* executor may restart, credentials may be rotated, an answer may be lost  *)
(* and the request repeated.  Payloads, timestamps and the 5000-event       *)
(* pruning of the stored events are left out.                               *)
(****************************************************************************)
EXTENDS Naturals, Sequences, FiniteSets, SequencesExt

CONSTANTS
    Channel,       \* orders, trades, positions, tickers
    StateChanging, \* the events that are orders, executions or positions
    MaxBuffered,   \* MAX_BUFFERED_EVENTS
    MaxPerPoll,    \* MAX_EVENTS_PER_POLL
    MaxAttempts,   \* maximumAttempts of a read: 3
    MaxEvents, MaxUpheavals, MaxLosses

VARIABLES
    stream,     \* the executor's stream: [buffer, cursor], or NoStream
    rotated,    \* the credentials changed since the stream was opened
    failures,   \* _channel_failures: "ok", "recent", or "sustained" past the grace
    retries,    \* _network_retries: channels a restored transport may clear
    faulted,    \* channels that met another failure since their last data
    produced,   \* how many events the exchange produced
    request,    \* "idle", "asked", "answered" or "failed"
    answer,     \* the answer on its way
    attempts,   \* failed attempts of the present request
    cursor,     \* streamCursors
    dirty,      \* streamDirtyAccounts
    stored,     \* trading_exchange_events
    status,     \* trading_exchange_stream_state.status
    cycle,      \* the runtime: "stopped", "idle" or "reconciling"
    owed,       \* stored state changes no forced reconciliation began after
    unseen,     \* events the executor received, not stored, no gap reported since
    excused,    \* the two cases in which a gap goes unnoticed, see below
    upheavals, losses

streamVars == <<stream, rotated, failures, retries, faulted, produced, request,
                answer, attempts, cursor, dirty, stored, status, cycle, owed, unseen,
                excused, upheavals, losses>>

executor == <<stream, rotated, failures, retries, faulted, unseen>>
runtime == <<request, answer, attempts, cursor, dirty, stored, status, cycle, owed>>

NoStream == [buffer |-> <<>>, cursor |-> 0, open |-> FALSE]
NoAnswer == [events |-> <<>>, nextCursor |-> 0, gap |-> FALSE, health |-> "healthy"]
Healthy == [c \in Channel |-> "ok"]
NewStream == [buffer |-> <<>>, cursor |-> 0, open |-> TRUE]

----------------------------------------------------------------------------
(* The executor *)

\* _watch received data: the channel has recovered and each record is kept.
ingest(channel) ==
    /\ stream.open /\ produced < MaxEvents
    /\ produced' = produced + 1
    /\ failures' = [failures EXCEPT ![channel] = "ok"]
    /\ retries' = retries \ {channel}
    /\ faulted' = faulted \ {channel}
    /\ LET kept == Append(stream.buffer, produced + 1)
       IN stream' = [stream EXCEPT
              !.buffer = IF Len(kept) > MaxBuffered THEN Tail(kept) ELSE kept,
              !.cursor = @ + 1]
    /\ unseen' = unseen \cup {produced + 1}
    /\ UNCHANGED <<rotated, excused, upheavals, losses>> /\ UNCHANGED runtime

\* _record_channel_failure.  Only an unbroken run of network errors may be
\* cleared by the transport alone.
recoverable(channel, network) ==
    network /\ (failures[channel] = "ok" \/ channel \in retries)

watchFails(channel, network) ==
    /\ stream.open
    /\ retries' = IF recoverable(channel, network) THEN retries \cup {channel}
                                                   ELSE retries \ {channel}
    /\ failures' = [failures EXCEPT ![channel] = IF @ = "ok" THEN "recent" ELSE @]
    /\ faulted' = IF network THEN faulted ELSE faulted \cup {channel}
    /\ UNCHANGED <<stream, rotated, unseen, produced, excused, upheavals, losses>>
    /\ UNCHANGED runtime

\* STREAM_DEGRADED_GRACE_SECONDS pass.
graceElapses(channel) ==
    /\ failures[channel] = "recent"
    /\ failures' = [failures EXCEPT ![channel] = "sustained"]
    /\ UNCHANGED <<stream, rotated, retries, faulted, unseen, produced, excused,
                   upheavals, losses>>
    /\ UNCHANGED runtime

\* The executor process restarts, or the credentials of the account change.
restartExecutor ==
    /\ upheavals < MaxUpheavals /\ upheavals' = upheavals + 1
    /\ stream.open
    /\ stream' = NoStream
    /\ rotated' = FALSE /\ failures' = Healthy /\ retries' = {} /\ faulted' = {}
    /\ UNCHANGED <<unseen, produced, excused, losses>> /\ UNCHANGED runtime

rotateCredentials ==
    /\ upheavals < MaxUpheavals /\ upheavals' = upheavals + 1
    /\ stream.open /\ ~rotated
    /\ rotated' = TRUE
    /\ UNCHANGED <<stream, failures, retries, faulted, unseen, produced, excused, losses>>
    /\ UNCHANGED runtime

\* AccountStream.poll.
Gap(s, from) == from > s.cursor \/ from + 1 < s.cursor - Len(s.buffer) + 1
Page(s, from) ==
    LET start == from + Len(s.buffer) - s.cursor + 1
        stop == IF start + MaxPerPoll - 1 < Len(s.buffer) THEN start + MaxPerPoll - 1
                                                          ELSE Len(s.buffer)
    IN SubSeq(s.buffer, start, stop)

Batch(s, from, health) ==
    IF Gap(s, from)
    THEN [events |-> <<>>, nextCursor |-> s.cursor, gap |-> TRUE, health |-> health]
    ELSE [events |-> Page(s, from), nextCursor |-> from + Len(Page(s, from)),
          gap |-> FALSE, health |-> health]

\* ensure_started: a new set of symbols replaces the ticker subscription,
\* whose failures are forgotten.
ensure_started(resubscribe) == IF resubscribe THEN {"tickers"} ELSE {}

\* _health: the first failure past the grace degrades the stream.
Health(failing) ==
    IF \E c \in Channel : failing[c] = "sustained" THEN "degraded" ELSE "healthy"

\* ExchangeStreamHub.poll: open the stream if there is none or its credentials
\* are old, follow the requested symbols, and answer.  `restored' are the
\* channels of _network_retries whose transport recovered.
hubPoll(resubscribe, restored) ==
    LET fresh == ~stream.open \/ rotated
        s == IF fresh THEN NewStream ELSE stream
        cleared == restored \cup ensure_started(resubscribe)
        failing == [c \in Channel |-> IF fresh \/ c \in cleared THEN "ok" ELSE failures[c]]
    IN /\ request = "asked"
       /\ stream' = s /\ rotated' = FALSE
       /\ failures' = failing
       /\ retries' = IF fresh THEN {} ELSE retries \ cleared
       /\ faulted' = IF fresh THEN {} ELSE faulted \ ensure_started(resubscribe)
       /\ request' = "answered" /\ answer' = Batch(s, cursor, Health(failing))
       /\ excused' = (excused \/ (fresh /\ cursor = 0 /\ unseen # {}))
       /\ UNCHANGED <<unseen, produced, upheavals, losses, attempts, cursor, dirty,
                      stored, status, cycle, owed>>

----------------------------------------------------------------------------
(* The runtime *)

Answered == request = "answered"

pollExchangeStreams ==
    /\ cycle # "stopped" /\ request = "idle"
    /\ request' = "asked" /\ attempts' = 0
    /\ UNCHANGED <<answer, cursor, dirty, stored, status, cycle, owed, produced, excused,
                   upheavals, losses>>
    /\ UNCHANGED executor

\* The answer does not arrive: the read is repeated a few times with the
\* same cursor, then the failure is recorded.
answerLost ==
    /\ Answered
    /\ losses < MaxLosses /\ losses' = losses + 1
    /\ excused' = (excused \/ answer.gap)
    /\ attempts' = attempts + 1
    /\ request' = IF attempts + 1 < MaxAttempts THEN "asked" ELSE "failed"
    /\ answer' = NoAnswer
    /\ UNCHANGED <<cursor, dirty, stored, status, cycle, owed, produced, upheavals>>
    /\ UNCHANGED executor

recordExchangeStreamFailure ==
    /\ request = "failed"
    /\ request' = "idle"
    /\ status' = "degraded"
    /\ UNCHANGED <<answer, attempts, cursor, dirty, stored, cycle, owed, produced,
                   excused, upheavals, losses>>
    /\ UNCHANGED executor

\* persistExchangeStreamBatch in one transaction, then cursor and dirty mark.
\* A repeated event is ignored by its key.
persistExchangeStreamBatch ==
    /\ Answered
    /\ LET arrived == ToSet(answer.events)
           changes == (arrived \ stored) \cap StateChanging
       IN /\ stored' = stored \cup arrived
          /\ status' = IF answer.gap THEN "degraded" ELSE answer.health
          /\ cursor' = answer.nextCursor
          /\ dirty' = (dirty \/ changes # {} \/ answer.gap)
          /\ owed' = owed \cup changes
          /\ unseen' = IF answer.gap THEN {} ELSE unseen \ arrived
    /\ request' = "idle" /\ answer' = NoAnswer
    /\ UNCHANGED <<stream, rotated, failures, retries, faulted, attempts, cycle,
                   produced, excused, upheavals, losses>>

\* reconcileAccounts: the mark is taken before the exchange is read.  An
\* unforced pass may be skipped by its interval and proves nothing.
reconcileAccounts ==
    /\ cycle = "idle"
    /\ cycle' = "reconciling"
    /\ dirty' = FALSE
    /\ owed' = IF dirty THEN {} ELSE owed
    /\ UNCHANGED <<request, answer, attempts, cursor, stored, status, produced, excused,
                   upheavals, losses>>
    /\ UNCHANGED executor

reconciled ==
    /\ cycle = "reconciling"
    /\ cycle' = "idle"
    /\ UNCHANGED <<request, answer, attempts, cursor, dirty, stored, status, owed, produced,
                   excused, upheavals, losses>>
    /\ UNCHANGED executor

\* stop waits for the cycle and the poll; start reconciles every account.
stop ==
    /\ cycle = "idle" /\ request = "idle"
    /\ upheavals < MaxUpheavals /\ upheavals' = upheavals + 1
    /\ cycle' = "stopped"
    /\ cursor' = 0 /\ dirty' = FALSE /\ status' = "stopped"
    /\ UNCHANGED <<request, answer, attempts, stored, owed, produced, excused, losses>>
    /\ UNCHANGED executor

start ==
    /\ cycle = "stopped"
    /\ cycle' = "reconciling"
    /\ owed' = {} /\ unseen' = {}
    /\ UNCHANGED <<stream, rotated, failures, retries, faulted, request, answer, attempts,
                   cursor, dirty, stored, status, produced, excused, upheavals, losses>>

----------------------------------------------------------------------------
StreamInit ==
    /\ stream = NoStream /\ rotated = FALSE
    /\ failures = Healthy /\ retries = {} /\ faulted = {}
    /\ produced = 0
    /\ request = "idle" /\ answer = NoAnswer /\ attempts = 0 /\ cursor = 0
    /\ dirty = FALSE /\ stored = {} /\ status = "none"
    /\ cycle = "stopped" /\ owed = {} /\ unseen = {}
    /\ excused = FALSE /\ upheavals = 0 /\ losses = 0

StreamNext ==
    \/ \E c \in Channel : ingest(c) \/ graceElapses(c)
    \/ \E c \in Channel, network \in BOOLEAN : watchFails(c, network)
    \/ restartExecutor \/ rotateCredentials
    \/ \E resubscribe \in BOOLEAN, restored \in SUBSET retries : hubPoll(resubscribe, restored)
    \/ pollExchangeStreams \/ answerLost \/ recordExchangeStreamFailure
    \/ persistExchangeStreamBatch \/ reconcileAccounts \/ reconciled \/ stop \/ start

StreamSpec == StreamInit /\ [][StreamNext]_streamVars

----------------------------------------------------------------------------
StreamTypeOK ==
    /\ stream.buffer \in Seq(1..MaxEvents) /\ Len(stream.buffer) <= MaxBuffered
    /\ stream.cursor \in 0..MaxEvents /\ stream.open \in BOOLEAN
    /\ failures \in [Channel -> {"ok", "recent", "sustained"}]
    /\ retries \subseteq Channel /\ faulted \subseteq Channel
    /\ attempts \in 0..MaxAttempts /\ cursor \in 0..MaxEvents
    /\ stored \subseteq 1..MaxEvents /\ owed \subseteq stored
    /\ status \in {"none", "healthy", "degraded", "stopped"}
    /\ cycle \in {"stopped", "idle", "reconciling"}

\* Every stored order, execution or position event is followed by a forced
\* reconciliation that began after the event was stored: until then the
\* account stays marked, also when the event arrives while another
\* reconciliation is running (reconcileAccounts takes the mark first).
StoredChangesAreReconciled ==
    (owed # {} /\ cycle # "stopped") => dirty

\* An event the executor received is either still waiting after the runtime's
\* cursor, or the next answer reports a gap: slow polls, a full buffer, a
\* rotated key, a restart of either side and lost or repeated answers skip no
\* event silently.
Waiting == IF rotated \/ ~stream.open THEN {}
           ELSE {e \in ToSet(stream.buffer) : stream.cursor - Len(stream.buffer)
                     + (CHOOSE i \in 1..Len(stream.buffer) : stream.buffer[i] = e) > cursor}

GapWillShow == \/ Answered /\ answer.gap
               \/ Gap(IF rotated \/ ~stream.open THEN NewStream ELSE stream, cursor)

NoGapIsSilent == cycle # "stopped" => (unseen \subseteq Waiting \/ GapWillShow)

\* The same, but for the two ways in which the cursor of an earlier stream
\* fits the numbering of a later one: the earlier stream ended before the
\* runtime's cursor left 0, or the answer that reported the gap was lost.
StreamEndedAtZero == cursor = 0 /\ (rotated \/ ~stream.open)
GapsAreNoticed == excused \/ StreamEndedAtZero \/ NoGapIsSilent

\* A channel that failed for another reason than the network is reported
\* healthy again by data only, never by a restored connection.
FaultsNeedData == \A c \in faulted : failures[c] # "ok"
=============================================================================
