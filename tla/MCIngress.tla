------------------------------ MODULE MCIngress ------------------------------
(* Small instances of Ingress for TLC. *)
EXTENDS Ingress, TLC

CONSTANTS d1, d2, d3, d4, e1, e2, e3, u1

\* e1 is delivered twice, the second time perhaps with a later timestamp; the
\* table holds two of the three event ids.
MCDeliveries == {d1, d2, d3, d4}
MCEvents == {e1, e2, e3}
MCEventOf == d1 :> e1 @@ d2 :> e1 @@ d3 :> e2 @@ d4 :> e3
MCStampOf == d1 :> 0 @@ d2 :> 1 @@ d3 :> 0 @@ d4 :> 1
MCUserOf == e1 :> u1 @@ e2 :> u1 @@ e3 :> u1
MCUsers == {u1}
MCForgeries == {{}, {d1}}
MCNoForgery == {{}}
=============================================================================
