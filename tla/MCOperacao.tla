----------------------------- MODULE MCOperacao ------------------------------
(* Model-checking instance of Operacao.                                     *)
EXTENDS Operacao

CONSTANTS c1, c2, d1

MCContinuas == {c1, c2}
MCDiarias == {d1}
MCUmaContinua == {c1}
=============================================================================
