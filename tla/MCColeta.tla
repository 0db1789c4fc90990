------------------------------- MODULE MCColeta -------------------------------
(* Two queues, one of them with two tasks, that all want the same site.    *)
EXTENDS Coleta, TLC

CONSTANTS f1, f2, t1, t2, t3, s1

MCFilaDe == f1 :> <<t1, t2>> @@ f2 :> <<t3>>
MCSitio == t1 :> s1 @@ t2 :> s1 @@ t3 :> s1
=============================================================================
