---------------------------- MODULE MCEspelhoD1 ------------------------------
(* Model-checking instance of EspelhoD1.                                    *)
EXTENDS EspelhoD1, TLC

CONSTANTS c1, c2, v1, v2, benchmark

MCClientes == {c1, c2}
MCVagas == {v1, v2}
MCNativas == {benchmark}
=============================================================================
