------------------------------ MODULE Delivery ------------------------------
(***************************************************************************)
(* What the outbox promises the owner of a destination channel and the     *)
(* operator, who both see no slots, timeouts or restarts: a task is shown  *)
(* as unsent, as in doubt or as closed. A task in doubt returns to unsent  *)
(* only through an authorisation, a closed one stays closed, and a task    *)
(* shown as unsent still owes its message: whatever it delivered before    *)
(* was authorised.                                                         *)
(***************************************************************************)
EXTENDS Naturals

CONSTANT Tasks

VARIABLES
    shown,      \* "unsent", "doubt" or "closed"
    delivered,  \* messages of the task that reach the target
    granted     \* attempts authorised by the operator after the first

Init ==
    /\ shown = [t \in Tasks |-> "unsent"]
    /\ delivered = [t \in Tasks |-> 0]
    /\ granted = [t \in Tasks |-> 0]

\* From here on nobody can tell whether the message arrived.
Attempt(t) ==
    /\ shown[t] = "unsent"
    /\ shown' = [shown EXCEPT ![t] = "doubt"]
    /\ UNCHANGED <<delivered, granted>>

Deliver(t) ==
    /\ delivered[t] < granted[t] + (IF shown[t] = "unsent" THEN 0 ELSE 1)
    /\ delivered' = [delivered EXCEPT ![t] = @ + 1]
    /\ UNCHANGED <<shown, granted>>

Close(t) ==
    /\ shown[t] \in {"unsent", "doubt"}
    /\ shown' = [shown EXCEPT ![t] = "closed"]
    /\ UNCHANGED <<delivered, granted>>

\* The operator, shown the doubt, asks for the message again.
Authorise(t) ==
    /\ shown[t] = "doubt"
    /\ shown' = [shown EXCEPT ![t] = "unsent"]
    /\ granted' = [granted EXCEPT ![t] = @ + 1]
    /\ UNCHANGED delivered

Next == \E t \in Tasks : Attempt(t) \/ Deliver(t) \/ Close(t) \/ Authorise(t)

Spec == Init /\ [][Next]_<<shown, delivered, granted>>
=============================================================================
