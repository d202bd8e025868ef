------------------------------ MODULE Accounts ------------------------------
(***************************************************************************)
(* The life of an exchange account: created with credentials, verified     *)
(* against the exchange, enabled, its credentials rotated, its kill switch *)
(* set and released, removed (trading_web_control.ts, the account rows of  *)
(* trading_repository.ts, the credential files of trading_credentials.ts). *)
(* Every operation but the first steps of a creation runs as owner of the  *)
(* account's key in the mutation coordinator and takes many steps -        *)
(* database row, credential file and exchange change one after the other - *)
(* any of which may fail, and the process may die between two of them.     *)
(***************************************************************************)
EXTENDS Naturals, FiniteSets

CONSTANTS Key,           \* credentials an operator may enter
          OwnerOf,       \* OwnerOf[k]: the exchange account key k belongs to
          Granted,       \* keys whose account and generation the reviewer accepted for live use
          MaxRequests, MaxFailures, MaxDeaths

VARIABLES acct,          \* the row in trading_accounts
          stored,        \* the account's credential file: a key or none
          candidate,     \* a staged candidate file
          exposure,      \* what the engine's orders left at the exchange
          creating,      \* a creation that does not own the account yet
          doing,         \* the operation that owns the account
          killWaits,     \* a kill request fenced entries and queues behind the owner
          epochHolds,    \* no operator fenced entries since the release took its epoch
          spent          \* requests, failures and deaths so far

accountVars == <<acct, stored, candidate, exposure, creating, doing, killWaits, epochHolds, spent>>

none == "none"
NoAccount == [status |-> none, enabled |-> FALSE, identity |-> none, generation |-> none, kill |-> FALSE]
Nothing == [op |-> none, at |-> none, key |-> none, bound |-> none]

NoCreation == [at |-> none, key |-> none]

Init ==
  /\ acct = NoAccount /\ stored = none /\ candidate = none /\ exposure = "flat"
  /\ creating = NoCreation /\ doing = Nothing /\ killWaits = FALSE /\ epochHolds = TRUE
  /\ spent = [requests |-> 0, failures |-> 0, deaths |-> 0]

Exists == acct.status # none
\* liveProviderAcceptancePinned: a signed grant names the account's identity
\* and credential generation.
liveProviderAcceptancePinned(generation) == generation \in Granted

Requests ==
  /\ doing = Nothing /\ spent.requests < MaxRequests
  /\ spent' = [spent EXCEPT !.requests = @ + 1]
  /\ UNCHANGED <<acct, stored, candidate, exposure, killWaits>>

Asks(op, key) ==
  /\ Requests
  /\ doing' = [Nothing EXCEPT !.op = op, !.at = "begun", !.key = key]
  /\ UNCHANGED creating

Goes(at) == doing' = [doing EXCEPT !.at = at]
Ends == doing' = Nothing
At(op, at) == doing.op = op /\ doing.at = at
Fails == /\ spent.failures < MaxFailures
         /\ spent' = [spent EXCEPT !.failures = @ + 1]
\* updateTradingAccountState; an account that is gone stays gone.
Sets(status, enabled) ==
  acct' = IF Exists THEN [acct EXCEPT !.status = status, !.enabled = enabled] ELSE acct
SetsBound(status, enabled, key) ==
  acct' = IF Exists THEN [acct EXCEPT !.status = status, !.enabled = enabled, !.identity = OwnerOf[key],
                                      !.generation = key]
          ELSE acct

-----------------------------------------------------------------------------
(* Creation: row and credential file while others may already own the      *)
(* account, then the verification as its owner.                            *)

createAccount(k) ==
  /\ ~Exists /\ creating = NoCreation /\ Requests
  /\ creating' = [at |-> "begun", key |-> k]
  /\ UNCHANGED <<doing, epochHolds>>

Creates(at) == creating' = [creating EXCEPT !.at = at]

\* A new account has an identifier, and so a credential file, of its own.
insertsAccount ==
  /\ creating.at = "begun"
  /\ acct' = [NoAccount EXCEPT !.status = "unverified"] /\ stored' = none /\ Creates("credentials")
  /\ UNCHANGED <<candidate, exposure, doing, killWaits, epochHolds, spent>>

setsCredentials ==
  /\ creating.at = "credentials"
  /\ \/ stored' = creating.key /\ Creates("verify") /\ UNCHANGED spent
     \/ Fails /\ Creates("failed") /\ UNCHANGED stored
  /\ UNCHANGED <<acct, candidate, exposure, doing, killWaits, epochHolds>>

\* The account may have been removed before its creator could own it.
verifiesCreation ==
  /\ creating.at = "verify" /\ doing = Nothing
  /\ IF Exists THEN /\ doing' = [Nothing EXCEPT !.op = "create", !.at = "verify"]
                    /\ creating' = NoCreation
     ELSE Creates("failed") /\ UNCHANGED doing
  /\ UNCHANGED <<acct, stored, candidate, exposure, killWaits, epochHolds, spent>>

\* The catch of createAccount takes everything back; either removal may fail
\* in turn.  It follows a failed verification before another owner gets to
\* the exchange and back: the two removals are local.
takesBack ==
  /\ \/ At("create", "failed") /\ Ends /\ UNCHANGED creating
     \/ creating.at = "failed" /\ creating' = NoCreation /\ UNCHANGED doing
  /\ \/ stored' = none /\ acct' = NoAccount /\ UNCHANGED spent
     \/ /\ Fails
        /\ \/ stored' = none /\ UNCHANGED acct
           \/ acct' = NoAccount /\ UNCHANGED stored
  /\ UNCHANGED <<candidate, exposure, killWaits, epochHolds>>

-----------------------------------------------------------------------------
(* verifyAccountOwned, on its own, at the end of a creation and when an    *)
(* account that was disabled is enabled.                                   *)

verifyAccount == Exists /\ Asks("verify", none) /\ UNCHANGED epochHolds

Identified == stored # none /\ acct.identity \in {none, OwnerOf[stored]}

verified ==
  /\ doing.at = "verify" \/ At("verify", "begun")
  /\ LET enableOnSuccess == doing.op \in {"create", "enable"}
         After(ok) == IF doing.op = "create" /\ ~ok THEN Goes("failed") ELSE Ends
     IN  \/ /\ Identified
            /\ SetsBound("ready", (enableOnSuccess \/ acct.enabled) /\ liveProviderAcceptancePinned(stored), stored)
            /\ After(TRUE) /\ UNCHANGED spent
         \/ \* the exchange rejects, answers for another account, or does not answer
            /\ IF Identified THEN Fails ELSE UNCHANGED spent
            /\ Sets("error", FALSE) /\ After(FALSE)
  /\ UNCHANGED <<stored, candidate, exposure, creating, killWaits, epochHolds>>

-----------------------------------------------------------------------------
(* setAccountEnabled. *)

setAccountEnabled(on) == Exists /\ Asks(IF on THEN "enable" ELSE "disable", none) /\ epochHolds' = (epochHolds /\ on)

enables ==
  /\ At("enable", "begun")
  /\ \/ /\ liveProviderAcceptancePinned(acct.generation) /\ acct.status = "disabled"
        /\ Goes("verify") /\ UNCHANGED acct
     \/ /\ liveProviderAcceptancePinned(acct.generation) /\ acct.status = "ready"
        /\ Sets("ready", TRUE) /\ Ends
     \/ /\ ~liveProviderAcceptancePinned(acct.generation) \/ acct.status \notin {"disabled", "ready"}
        /\ Ends /\ UNCHANGED acct
  /\ UNCHANGED <<stored, candidate, exposure, creating, killWaits, epochHolds, spent>>

\* cancelOpenEntries and a reconciliation come first; a managed position
\* keeps the account enabled.
disables ==
  /\ At("disable", "begun")
  /\ \/ exposure # "open" /\ exposure' = "flat" /\ Sets("disabled", FALSE) /\ UNCHANGED spent
     \/ exposure = "open" /\ UNCHANGED <<acct, exposure, spent>>
     \/ Fails /\ UNCHANGED <<acct, exposure>>
  /\ Ends
  /\ UNCHANGED <<stored, candidate, creating, killWaits, epochHolds>>

-----------------------------------------------------------------------------
(* Credential rotation. *)

replaceAccountCredentials(k) == Exists /\ Asks("rotate", k) /\ epochHolds' = FALSE

rotationDisables ==
  /\ At("rotate", "begun")
  /\ Sets("unverified", FALSE) /\ Goes("old")
  /\ UNCHANGED <<stored, candidate, exposure, creating, killWaits, epochHolds, spent>>

\* The existing credentials prove which exchange account this row is.
bindsOld ==
  /\ At("rotate", "old")
  /\ \/ /\ Identified /\ SetsBound("unverified", FALSE, stored)
        /\ doing' = [doing EXCEPT !.at = "exposure", !.bound = OwnerOf[stored]] /\ UNCHANGED spent
     \/ /\ IF Identified THEN Fails ELSE UNCHANGED spent
        /\ Ends /\ UNCHANGED acct
  /\ UNCHANGED <<stored, candidate, exposure, creating, killWaits, epochHolds>>

RemoteHasNoPosition == exposure # "open"

RemoteIsFlat == exposure = "flat"

\* Entries are cancelled, the account reconciled and read again.
checksExposure ==
  /\ At("rotate", "exposure")
  /\ \E after \in IF exposure = "order" THEN {"order", "flat"} ELSE {exposure} :
       /\ exposure' = after
       /\ IF RemoteIsFlat' THEN candidate' = doing.key /\ Goes("candidate") ELSE Ends /\ UNCHANGED candidate
  /\ UNCHANGED <<acct, stored, creating, killWaits, epochHolds, spent>>

verifiesCandidate ==
  /\ At("rotate", "candidate")
  /\ \/ OwnerOf[candidate] = doing.bound /\ Goes("promote") /\ UNCHANGED spent
     \/ /\ IF OwnerOf[candidate] = doing.bound THEN Fails ELSE UNCHANGED spent
        /\ Goes("refused")
  /\ UNCHANGED <<acct, stored, candidate, exposure, creating, killWaits, epochHolds>>

\* promoteCandidate: the account's file is replaced, then the candidate
\* removed; the write or the removal may fail.
promoteCandidate ==
  /\ At("rotate", "promote")
  /\ \/ stored' = candidate /\ candidate' = none /\ Goes("record") /\ UNCHANGED spent
     \/ Fails /\ stored' \in {stored, candidate} /\ Goes("refused") /\ UNCHANGED candidate
  /\ UNCHANGED <<acct, exposure, creating, killWaits, epochHolds>>

rotated ==
  /\ At("rotate", "record")
  /\ \/ /\ acct' = [acct EXCEPT !.status = "ready", !.enabled = FALSE, !.identity = doing.bound,
                               !.generation = doing.key]
        /\ UNCHANGED spent
     \/ Fails /\ UNCHANGED acct   \* outside the try: the row stays unverified
  /\ Ends
  /\ UNCHANGED <<stored, candidate, exposure, creating, killWaits, epochHolds>>

\* The catch: the candidate is discarded (a failure is ignored) and the
\* account is ready, disabled, with the generation it had.
rotationRefused ==
  /\ At("rotate", "refused")
  /\ \/ candidate' = none /\ UNCHANGED spent
     \/ Fails /\ UNCHANGED candidate
  /\ acct' = [acct EXCEPT !.status = "ready", !.enabled = FALSE, !.identity = doing.bound] /\ Ends
  /\ UNCHANGED <<stored, exposure, creating, killWaits, epochHolds>>

-----------------------------------------------------------------------------
(* The account's kill switch. *)

\* configureAccount holds entries before it queues for the account.
configureAccount ==
  /\ Exists /\ ~killWaits /\ spent.requests < MaxRequests
  /\ spent' = [spent EXCEPT !.requests = @ + 1]
  /\ killWaits' = TRUE /\ epochHolds' = FALSE
  /\ UNCHANGED <<acct, stored, candidate, exposure, creating, doing>>

configureAccountOwned ==
  /\ killWaits /\ doing = Nothing /\ killWaits' = FALSE
  /\ IF Exists THEN acct' = [acct EXCEPT !.kill = TRUE] ELSE UNCHANGED acct
  /\ exposure' \in IF exposure = "order" THEN {"order", "flat"} ELSE {exposure}
  /\ UNCHANGED <<stored, candidate, creating, doing, epochHolds, spent>>

releaseAccountKillSwitch == Exists /\ Asks("release", none) /\ epochHolds' = TRUE

\* Two forced reconciliations and a fresh balance, then the proof and the
\* write in one transaction (see module SafetyProof).
releases ==
  /\ At("release", "begun")
  /\ \/ /\ acct.kill /\ acct.enabled /\ acct.status = "ready" /\ epochHolds
        /\ Identified /\ exposure # "order"
        /\ acct' = [acct EXCEPT !.kill = FALSE] /\ UNCHANGED spent
     \/ UNCHANGED <<acct, spent>>
  /\ Ends
  /\ UNCHANGED <<stored, candidate, exposure, creating, killWaits, epochHolds>>

-----------------------------------------------------------------------------
(* Removal, trading, death of the process. *)

removeAccount == Exists /\ Asks("remove", none) /\ epochHolds' = FALSE

removesRow ==
  /\ At("remove", "begun")
  /\ \/ exposure = "flat" /\ acct' = NoAccount /\ Goes("files")
     \/ Ends /\ UNCHANGED acct
  /\ UNCHANGED <<stored, candidate, exposure, creating, killWaits, epochHolds, spent>>

removesFile ==
  /\ At("remove", "files")
  /\ \/ stored' = none /\ UNCHANGED spent
     \/ Fails /\ UNCHANGED stored
  /\ Ends
  /\ UNCHANGED <<acct, candidate, exposure, creating, killWaits, epochHolds>>

\* The engine enters a trade as owner of the account; a workflow is published
\* over it once its creation has answered.
entrySent ==
  /\ doing = Nothing /\ creating = NoCreation /\ acct.enabled /\ acct.status = "ready" /\ ~acct.kill /\ ~killWaits
  /\ exposure = "flat" /\ exposure' = "order"
  /\ UNCHANGED <<acct, stored, candidate, creating, doing, killWaits, epochHolds, spent>>

exchangeActs ==
  /\ exposure # "flat"
  /\ exposure' \in IF exposure = "order" THEN {"open", "flat"} ELSE {"flat"}
  /\ UNCHANGED <<acct, stored, candidate, creating, doing, killWaits, epochHolds, spent>>

\* A start sweeps candidate files; a leftover file of a removed account is
\* nobody's.
dies ==
  /\ spent.deaths < MaxDeaths /\ (doing # Nothing \/ creating # NoCreation)
  /\ spent' = [spent EXCEPT !.deaths = @ + 1]
  /\ creating' = NoCreation /\ doing' = Nothing /\ killWaits' = FALSE /\ candidate' = none /\ epochHolds' = TRUE
  /\ stored' = IF Exists THEN stored ELSE none
  /\ UNCHANGED <<acct, exposure>>

Requested ==
  \/ \E k \in Key : createAccount(k) \/ replaceAccountCredentials(k)
  \/ verifyAccount \/ \E on \in BOOLEAN : setAccountEnabled(on)
  \/ configureAccount \/ releaseAccountKillSwitch \/ removeAccount

Next ==
  \/ Requested
  \/ insertsAccount \/ setsCredentials \/ verifiesCreation \/ takesBack
  \/ verified \/ enables \/ disables
  \/ rotationDisables \/ bindsOld \/ checksExposure \/ verifiesCandidate \/ promoteCandidate
  \/ rotated \/ rotationRefused \/ configureAccountOwned \/ releases
  \/ removesRow \/ removesFile \/ entrySent \/ exchangeActs \/ dies

Spec == Init /\ [][Next]_accountVars

-----------------------------------------------------------------------------
TypeOK ==
  /\ acct.status \in {none, "unverified", "ready", "disabled", "error"} /\ acct.enabled \in BOOLEAN
  /\ {stored, candidate, acct.generation} \subseteq Key \cup {none}
  /\ exposure \in {"flat", "order", "open"} /\ killWaits \in BOOLEAN /\ epochHolds \in BOOLEAN

\* An enabled account trades with credentials of the very exchange account
\* it is bound to, verified, and accepted for live use - after any mix of
\* rotations that failed half-way, crashes and re-verifications.
EnabledIsBound ==
  acct.enabled =>
    /\ acct.status = "ready" /\ liveProviderAcceptancePinned(acct.generation)
    /\ stored # none /\ OwnerOf[stored] = acct.identity

\* Orders at the exchange never change hands: the stored credentials are
\* replaced or removed only while the engine has nothing at the exchange, and
\* as long as the account exists its identity does not change.
KeysChangeFlat ==
  /\ (stored # none /\ stored' # stored /\ acct.identity # none) => exposure = "flat"
  /\ (acct.identity # none /\ Exists') => acct'.identity = acct.identity
=============================================================================
