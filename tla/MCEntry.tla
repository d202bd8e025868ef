------------------------------ MODULE MCEntry ------------------------------
(***************************************************************************)
(* EntryDispatch for TLC.  Three situations are explored one at a time:    *)
(* two runs contend for one account, one run falls back over two accounts, *)
(* and one run on one account meets many upsets.  An account no run of the *)
(* situation reaches is left alone.                                        *)
(***************************************************************************)
EXTENDS EntryDispatch, TLC

CONSTANTS Parts, Upsets  \* the situations, and how many upsets each may meet

VARIABLE part

AllReasons == FallbackReasons
SomeUpsets == [contention |-> 0, fallback |-> 1, operators |-> 2]

Reached(a) == a = 0 \/ part = "fallback"

InPart ==
    /\ upsets' <= Upsets[part]
    /\ \A r \in Runs : run'[r] # "none" => last'[r] = IF part = "fallback" THEN LastRank ELSE 0
    /\ part # "contention" =>
         \A r, s \in Runs : run'[r] # "none" /\ run'[s] # "none" => r = s
    /\ \A a \in Ranks : ~Reached(a) =>
         /\ stage'[a] = "idle"
         /\ held'[a] /\ ~held[a] => \A b \in Ranks : held'[b]

EntryInit == part \in Parts /\ Init
EntryNext == Next /\ InPart /\ UNCHANGED part
EntrySpec == EntryInit /\ [][EntryNext]_<<vars, part>>

(* Runs are interchangeable: nothing orders them.                           *)
Symmetry == Permutations(Runs)
=============================================================================
