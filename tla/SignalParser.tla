---------------------------- MODULE SignalParser ----------------------------
(***************************************************************************)
(* Turning a message into an executable signal: the provider attempts with *)
(* their daily budget (signal_parser.ts, ai_usage_reservations.ts, the     *)
(* usage tables of db.ts) and the validation and grounding of what the     *)
(* model answers (signal_schema.ts, signal_contract.ts).  Several messages *)
(* are parsed at once against one budget, the day turns between reserving  *)
(* and settling, a settlement fails or its answer is lost, and the process *)
(* dies with a call outstanding.                                           *)
(*                                                                         *)
(* A text is its labelled clauses, and the actions and pairs it mentions;  *)
(* prices are small numbers.  An answer is the record its XML would give.  *)
(***************************************************************************)
EXTENDS Integers, Sequences, FiniteSets, FiniteSetsExt

CONSTANTS Jobs,               \* parses running concurrently
          Texts, Answers,     \* source texts; what a model may answer
          Definitions,        \* executable schemas: how strict each is
          Plan,               \* attempts per model, primary first
          Allowance, DailyRequestLimit, DailyTokenLimit,
          Usages,             \* tokens a provider may report; -1 for none
          MaxDays, MaxUpsets

VARIABLES job,                \* per job: parseSignalToXml's loop
          daily,              \* ai_usage_daily
          reservations,       \* ai_usage_reservations
          day, upsets

parserVars == <<job, daily, reservations, day, upsets>>

-----------------------------------------------------------------------------
(* signal_schema.ts: geometry.  A range is [min, max]; LONG counts up.      *)

Range1(p) == [min |-> p, max |-> p]
range(r) == r.min <= r.max

\* b lies strictly beyond a, in the direction of the trade.
Beyond(action, a, b) == IF action = "LONG" THEN b.min > a.max ELSE b.max < a.min

assertStopGeometry(a) == a.entry # {} => \A e \in a.entry : Beyond(a.action, Range1(a.stop), e)

\* The baseline is the entry range, or the stop of a market entry.
Baseline(a) == IF a.entry = {} THEN Range1(a.stop) ELSE CHOOSE e \in a.entry : TRUE

assertTargetGeometry(a) ==
  \A i \in 1..Len(a.targets) :
    /\ Beyond(a.action, Baseline(a), a.targets[i])
    /\ i > 1 => Beyond(a.action, a.targets[i - 1], a.targets[i])

assertScalarGeometry(a) == assertStopGeometry(a) /\ assertTargetGeometry(a)

\* parseXml: an answer that is no signal document at all.
Malformed == [malformed |-> TRUE]
parseXml(a) == a # Malformed

\* assertAllowedChildren: the legacy schemas know no further elements.
assertAllowedChildren(a) == a.extra = "absent"

\* scalarTargets, range and decimal: at least one target, no inverted range.
WellFormed(a) ==
  /\ Len(a.targets) > 0 /\ \A i \in 1..Len(a.targets) : range(a.targets[i])
  /\ \A e \in a.entry : range(e)

Scalar(a) == \A i \in 1..Len(a.targets) : a.targets[i].min = a.targets[i].max

validateStandard(a) == assertAllowedChildren(a) /\ WellFormed(a) /\ Scalar(a) /\ assertScalarGeometry(a)

\* validateCryptoDaniel: the entry type says whether there is a range.
validateCryptoDaniel(a) == validateStandard(a) /\ (a.type = "LIMIT" <=> a.entry # {})

validateLoma(a) == assertAllowedChildren(a) /\ WellFormed(a) /\ a.entry # {} /\ assertScalarGeometry(a)

\* validateSpeculant: an announcement, which carries nothing executable.
validateSpeculant(a) == assertAllowedChildren(a) /\ a.targets = <<>>

\* validateSignalContractDefinition: an additional field is "none" or declares
\* whether it is required; typed entries need their type values.
validateEntry(d) == (d.mode = "typed") <=> (d.types # {})
validateTargets(d) == d.items # {}
validateSignalContractDefinition(d) == validateEntry(d) /\ validateTargets(d)

\* assertDeclaredNode over declaredStructure: nothing undeclared.
assertDeclaredNode(d, a) == a.extra # "absent" => d.field # "none"

\* validateAdditionalFields: presence, then the field's type, bounds, pattern.
validateAdditionalFields(d, a) == a.extra # "bad" /\ (d.field = "required" => a.extra # "absent")

\* contractEntry: required, optional or decided by the entry type.
contractEntry(d, a) ==
  CASE d.mode = "required_range" -> a.entry # {}
    [] d.mode = "typed" -> a.type \in d.types /\ (a.type = "LIMIT" <=> a.entry # {})
    [] OTHER -> TRUE

contractTargets(d, a) == Len(a.targets) \in d.items /\ (d.shape = "scalar" => Scalar(a))

\* assertContractGeometry: each check is a flag of the contract; without an
\* entry the first target stands in for it when the stop is judged.
assertContractGeometry(d, a) ==
  /\ "stopOnLossSide" \in d.geometry =>
       Beyond(a.action, Range1(a.stop), IF a.entry = {} THEN a.targets[1] ELSE Baseline(a))
  /\ "targetsOnProfitSide" \in d.geometry /\ a.entry # {} =>
       \A i \in 1..Len(a.targets) : Beyond(a.action, Baseline(a), a.targets[i])
  /\ "orderedTargets" \in d.geometry =>
       \A i \in 2..Len(a.targets) : Beyond(a.action, a.targets[i - 1], a.targets[i])

validateDynamicContract(d, a) ==
  /\ assertDeclaredNode(d, a) /\ WellFormed(a) /\ contractEntry(d, a) /\ contractTargets(d, a)
  /\ validateAdditionalFields(d, a) /\ assertContractGeometry(d, a)

\* composeSignalSchemaContract: the schema keeps the structure, the contract
\* brings the policy.
composeSignalSchemaContract(s, c) ==
  [s EXCEPT !.items = c.items, !.field = IF @ = "none" \/ c.field = "none" THEN @ ELSE c.field,
            !.geometry = c.geometry, !.grounding = c.grounding]

\* The schema's own definition where it names no fallback contract.
executableDefinition(d) ==
  IF d.contract = {} THEN d ELSE composeSignalSchemaContract(d, CHOOSE c \in d.contract : TRUE)

validateLegacyParserSchema(d, a) ==
  CASE d.parser = "cryptodanielvip" -> validateCryptoDaniel(a)
    [] d.parser = "loma" -> validateLoma(a)
    [] d.parser = "speculantca" -> validateSpeculant(a)
    [] OTHER -> validateStandard(a)

validateSignalXml(d, a) ==
  /\ parseXml(a)
  /\ IF d.parser = "dynamic"
       THEN /\ validateSignalContractDefinition(executableDefinition(d))
            /\ validateDynamicContract(executableDefinition(d), a)
       ELSE validateLegacyParserSchema(d, a)

-----------------------------------------------------------------------------
(* Grounding: what the message itself says.                                 *)

\* sourceFieldNumbers: the numbers between a label and the next one.
sourceFieldNumbers(t, kind) ==
  UNION {t.clauses[i].numbers : i \in {k \in 1..Len(t.clauses) : t.clauses[k].label = kind}}

AllNumbers(t) == UNION {t.clauses[i].numbers : i \in 1..Len(t.clauses)}

RangeNumbers(R) == UNION {{r.min, r.max} : r \in R}

groundingFields(a) ==
  [entry |-> RangeNumbers(a.entry), stop |-> IF a.targets = <<>> THEN {} ELSE {a.stop},
   target |-> RangeNumbers({a.targets[i] : i \in 1..Len(a.targets)})]

\* assertFieldGrounded: exactly the labelled values, and there are some.  A
\* market entry may be priced by its averaging clause.

assertFieldGroundedSubset(t, kind, expected) ==
  expected \subseteq sourceFieldNumbers(t, kind)

assertFieldGrounded(t, kind, expected) ==
  LET direct == sourceFieldNumbers(t, kind)
      actual == IF kind = "entry" /\ direct = {} /\ t.byMarket
                  THEN sourceFieldNumbers(t, "averaging") ELSE direct
  IN actual # {} /\ expected = actual

assertNumbersGrounded(t, kinds, a) == UNION {groundingFields(a)[k] : k \in kinds} \subseteq AllNumbers(t)

\* Competing pairs or actions ground nothing.
assertPairGrounded(t, a) == a.pair \in t.pairs /\ (a.targets # <<>> => Cardinality(t.pairs) = 1)
assertActionGrounded(t, a) == a.action \in t.actions /\ Cardinality(t.actions) = 1

Fields == {"entry", "target", "stop"}

\* The legacy schemas ground everything, a contract what it asks for.
groundingPolicy(d) ==
  IF d.parser = "dynamic" THEN executableDefinition(d).grounding ELSE Fields \cup {"action", "pair"}

assertSignalGrounded(t, d, a) ==
  LET kinds == groundingPolicy(d) \cap {k \in Fields : groundingFields(a)[k] # {}} IN
  /\ "pair" \in groundingPolicy(d) => assertPairGrounded(t, a)
  /\ "action" \in groundingPolicy(d) => assertActionGrounded(t, a)
  /\ assertNumbersGrounded(t, kinds, a)
  /\ \A k \in kinds : assertFieldGrounded(t, k, groundingFields(a)[k])

-----------------------------------------------------------------------------
(* The daily budget. *)

NoDay == [count |-> 0, used |-> 0, reserved |-> 0]
IdleJob == [at |-> "plan", plan |-> 1, attempt |-> 1, id |-> 0, actual |-> -1, tries |-> 0,
            result |-> {}, next |-> "none"]

FailedJob == [IdleJob EXCEPT !.at = "failed"]

Init ==
  /\ job = [j \in Jobs |-> IdleJob]
  /\ daily = [d \in 1..MaxDays |-> NoDay] /\ reservations = <<>> /\ day = 1 /\ upsets = 0

Upset == upsets < MaxUpsets /\ upsets' = upsets + 1

\* The guarded update of reserveAiUsage.
CanReserve(d) ==
  /\ daily[d].count < DailyRequestLimit
  /\ daily[d].used + daily[d].reserved + Allowance <= DailyTokenLimit

\* reserveAiUsage for the attempt; without budget the parse ends.
reserveAiUsage(j) ==
  /\ job[j].at = "plan"
  /\ IF CanReserve(day)
       THEN /\ daily' = [daily EXCEPT ![day].count = @ + 1, ![day].reserved = @ + Allowance]
            /\ reservations' = Append(reservations, [day |-> day, status |-> "reserved", actual |-> 0])
            /\ job' = [job EXCEPT ![j].at = "call", ![j].id = Len(reservations) + 1]
       ELSE job' = [job EXCEPT ![j] = FailedJob] /\ UNCHANGED <<daily, reservations>>
  /\ UNCHANGED <<day, upsets>>

\* classifyAiError: the failures worth another attempt.
Errors == {"AbortError", "timeout", "401", "403", "408", "409", "429", "4xx", "5xx", "network", "other"}
classifyAiError(e) == e \in {"timeout", "408", "409", "429", "5xx", "network"}

\* nextAttemptDelay: what a failed attempt leads to.
hasAnotherAttempt(j) == job[j].attempt < Plan[job[j].plan] \/ job[j].plan < Len(Plan)
nextAttempt(j) ==
  IF job[j].attempt < Plan[job[j].plan] THEN <<job[j].plan, job[j].attempt + 1>>
                                        ELSE <<job[j].plan + 1, 1>>

\* validatedCompletion: what becomes of a settled answer, for the message and
\* definition of this parse (inputs, first read here).
validatedCompletion(t, d, a) ==
  IF validateSignalXml(d, a) /\ assertSignalGrounded(t, d, a)
    THEN {[text |-> t, schema |-> d, signal |-> a]} ELSE {}

\* Every outcome of a parse.
Completions == UNION {{validatedCompletion(t, d, a) : a \in Answers} : t \in Texts, d \in Definitions}

\* requestCompletion answers with the usage it reports, or none.
requestCompletion(j, n) ==
  /\ job[j].at = "call"
  /\ job' = [job EXCEPT ![j].at = "settle", ![j].actual = n, ![j].next = "validate"]
  /\ UNCHANGED <<daily, reservations, day, upsets>>

\* The call fails; it is settled as unknown.
requestFails(j, e) ==
  /\ job[j].at = "call" /\ Upset
  /\ job' = [job EXCEPT ![j].at = "settle", ![j].actual = -1, ![j].next = IF classifyAiError(e) THEN "retry" ELSE "failed"]
  /\ UNCHANGED <<daily, reservations, day>>

\* commitAiUsage: idempotent for the same settlement, on the day reserved.
Settled(j) == [day |-> reservations[job[j].id].day, actual |-> IF job[j].actual < 0 THEN Allowance ELSE job[j].actual,
               status |-> IF job[j].actual < 0 THEN "settled_unknown" ELSE "settled_known"]

commitAiUsage(j) ==
  LET r == reservations[job[j].id] IN
  IF r.status = "reserved"
    THEN /\ daily' = [daily EXCEPT ![r.day].reserved = @ - Allowance, ![r.day].used = @ + Settled(j).actual]
         /\ reservations' = [reservations EXCEPT ![job[j].id] = Settled(j)]
    ELSE UNCHANGED <<daily, reservations>>

Retried(j) ==
  IF hasAnotherAttempt(j)
    THEN [IdleJob EXCEPT !.plan = nextAttempt(j)[1], !.attempt = nextAttempt(j)[2]]
    ELSE FailedJob

\* An answer is validated once its usage is settled; an invalid one is retried
\* like a retryable failure.
AfterSettling(j) ==
  CASE job[j].next = "validate" ->
         {IF r = {} THEN Retried(j) ELSE [IdleJob EXCEPT !.at = "done", !.result = r] : r \in Completions}
    [] job[j].next = "retry" -> {Retried(j)}
    [] OTHER -> {FailedJob}

\* settleAiUsage: three tries; a try may fail before or after its commit
\* (a run of failures counts as one upset).
settleAiUsage(j) ==
  /\ job[j].at = "settle"
  /\ \/ commitAiUsage(j) /\ (\E after \in AfterSettling(j) : job' = [job EXCEPT ![j] = after]) /\ UNCHANGED upsets
     \/ /\ IF job[j].tries = 0 THEN Upset ELSE UNCHANGED upsets
        /\ (commitAiUsage(j) \/ UNCHANGED <<daily, reservations>>)
        /\ job' = [job EXCEPT ![j] = IF @.tries = 2 THEN FailedJob ELSE [@ EXCEPT !.tries = @ + 1]]
  /\ UNCHANGED day

\* throwIfAborted before an attempt, or an abort during the back-off.
aborted(j) ==
  /\ job[j].at = "plan" /\ Upset /\ job' = [job EXCEPT ![j] = FailedJob]
  /\ UNCHANGED <<daily, reservations, day>>

dayTurns == day < MaxDays /\ day' = day + 1 /\ UNCHANGED <<job, daily, reservations, upsets>>

\* The process dies; the messages are parsed again from the start.
dies ==
  /\ Upset /\ \E j \in Jobs : job[j].at \in {"call", "settle"}
  /\ job' = [j \in Jobs |-> IF job[j].at \in {"done", "failed"} THEN job[j] ELSE IdleJob]
  /\ UNCHANGED <<daily, reservations, day>>

Next ==
  \/ \E j \in Jobs : \/ reserveAiUsage(j) \/ settleAiUsage(j) \/ aborted(j)
                     \/ \E n \in Usages : requestCompletion(j, n)
                     \/ \E e \in Errors : requestFails(j, e)
  \/ dayTurns \/ dies

Spec == Init /\ [][Next]_parserVars

-----------------------------------------------------------------------------
Of(d, status) == {i \in 1..Len(reservations) : reservations[i].day = d /\ reservations[i].status \in status}

TypeOK ==
  /\ \A d \in 1..MaxDays : daily[d].count \in Nat /\ daily[d].used \in Nat /\ daily[d].reserved \in Nat
  /\ \A j \in Jobs : job[j].id <= Len(reservations)

\* The day's totals are the sum of its reservations and settlements, a call
\* under way is covered by a reservation nobody settled, and no day commits
\* more tokens than its limit except by what providers reported beyond the
\* allowance (reserveAiUsage, commitAiUsage, settleAiUsage).
BudgetHolds ==
  /\ \A d \in 1..MaxDays :
       LET settled == Of(d, {"settled_known", "settled_unknown"}) IN
       /\ daily[d].reserved = Allowance * Cardinality(Of(d, {"reserved"}))
       /\ daily[d].used = MapThenSumSet(LAMBDA i : reservations[i].actual, settled)
       /\ daily[d].count <= DailyRequestLimit
       /\ daily[d].used + daily[d].reserved <= DailyTokenLimit
            + MapThenSumSet(LAMBDA i : Max({0, reservations[i].actual - Allowance}), settled)
  /\ \A j \in Jobs : job[j].at = "call" => reservations[job[j].id].status = "reserved"

Strict(d) == d.parser = "dynamic" =>
  /\ executableDefinition(d).geometry = {"stopOnLossSide", "targetsOnProfitSide", "orderedTargets"}
  /\ executableDefinition(d).grounding = Fields \cup {"action", "pair"}

\* An accepted signal, under a schema that keeps its geometry and grounding,
\* says what the message says: every executed price stands in the message
\* under its own label (or the averaging label of a market entry), the message
\* names one action and one pair, and stop, entry and targets follow each
\* other strictly in the direction of the trade (validateSignalXml,
\* assertSignalGrounded).
AcceptedSignalsAreMeant ==
  \A j \in Jobs : \A r \in job[j].result : Strict(r.schema) =>
      LET a == r.signal
          legs == <<Range1(a.stop)>> \o (IF a.entry = {} THEN <<>> ELSE <<Baseline(a)>>) \o a.targets
      IN /\ r.text.actions = {a.action} /\ a.pair \in r.text.pairs
         /\ groundingFields(a).target = sourceFieldNumbers(r.text, "target") \/ a.targets = <<>>
         /\ a.targets # <<>> => {a.stop} = sourceFieldNumbers(r.text, "stop")
         /\ RangeNumbers(a.entry) \in {{}, sourceFieldNumbers(r.text, "entry"),
                                        sourceFieldNumbers(r.text, "averaging")}
         /\ a.targets # <<>> => \A i \in 2..Len(legs) : Beyond(a.action, legs[i - 1], legs[i])
=============================================================================
