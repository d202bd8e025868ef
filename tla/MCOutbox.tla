----------------------------- MODULE MCOutbox -----------------------------
(***************************************************************************)
(* The outbox rows and the scheduler for TLC, explored one at a time.      *)
(*                                                                         *)
(* rows    one outbox row, two queue slots and two overlapping routing     *)
(*         starts: rows meet only in the slots, so one row is what the     *)
(*         safety of the delivery depends on, and two slots let a          *)
(*         timed-out execution of it overlap with a current one.           *)
(* window  two rows, two executions and a queue of one.                    *)
(*                                                                         *)
(* The module that is not explored keeps its initial state.                *)
(***************************************************************************)
EXTENDS Outbox, OutboxScheduler

CONSTANTS Parts, e1, e2, s1, s2, x1, x2

VARIABLE part

TwoSlots == {e1, e2}
TwoStarts == {s1, s2}
TwoExecutions == {x1, x2}

OutboxInit ==
    /\ part \in Parts /\ Init /\ SchedulerInit
    /\ part = "rows" => row = [t \in Ids |-> "absent"]

\* The operator retries the first row only.
RetriesBounded == row[2] = "closed" => row'[2] = "closed"

OutboxNext ==
    /\ UNCHANGED part
    /\ \/ part = "rows" /\ Next /\ UNCHANGED schedulerVars
       \/ part = "window" /\ SchedulerNext /\ RetriesBounded /\ UNCHANGED vars

OutboxSpec == OutboxInit /\ [][OutboxNext]_<<part, vars, schedulerVars>>

\* Which slot, start or free execution identity is taken is never observed.
Symmetric ==
    Permutations(TwoSlots) \cup Permutations(TwoStarts) \cup Permutations(TwoExecutions)
=============================================================================
