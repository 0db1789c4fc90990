------------------------------ MODULE MCLotesD1 ------------------------------
(* Two commands at a time over a window of three events.                   *)
EXTENDS LotesD1
=============================================================================
