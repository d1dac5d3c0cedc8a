---------------------------- MODULE MCLinkLayer ----------------------------
(* Model-checking instance of LinkLayer: two peers, three endpoints (one   *)
(* RC address per peer plus one further endpoint inbound packets may come  *)
(* from), four session objects.  The caps keep the code's order            *)
(* (per-endpoint cap below per-key cap) at a size TLC can reach.           *)
EXTENDS LinkLayer, TLC

CONSTANTS p1, p2, a1, a2, a3

MCAddrOf == (p1 :> a1) @@ (p2 :> a2)

=============================================================================
