------------------------------ MODULE MCIngress ------------------------------
(***************************************************************************)
(* Small instances of Ingress: two album parts and a message of its own    *)
(* with the same content as the first, and a workflow with one or two      *)
(* eligible plans.                                                         *)
(***************************************************************************)
EXTENDS Ingress

CONSTANTS m1, m2, m3, w1, w2, p1, p2, g1, c1, c2

MCAlbumOf == [m \in Messages |-> IF m = m1 THEN NoAlbum ELSE g1]
NoAlbums == [m \in Messages |-> NoAlbum]
MCEligiblePlans == [w \in Revisions |-> [m \in Messages |->
    IF w = w1 THEN {p1} ELSE IF m = m1 THEN {p1, p2} ELSE {}]]

MCContentOf == [m \in Messages |-> c1]
=============================================================================
