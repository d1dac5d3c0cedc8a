------------------------------ MODULE MCEvLoop ------------------------------
(* A running router's loop: its PumpLL ticker and one link layer's UDP     *)
(* socket.                                                                 *)
EXTENDS EvLoop

CONSTANTS pumpTicker, linkUdp

MCGlues == {pumpTicker, linkUdp}
MCKind == pumpTicker :> "ticker" @@ linkUdp :> "udp"
=============================================================================
