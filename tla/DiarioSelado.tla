----------------------------- MODULE DiarioSelado -----------------------------
(***************************************************************************)
(* What a sealed ledger promises to whoever seals through it, whatever     *)
(* store is underneath: a journal with one entry per key, each entry after *)
(* all the others, and receipts that always name the entry of their key.   *)
(* A receipt for contents other than the journal's is only given when the  *)
(* journal holds a reconciliation of exactly that key and content.  What   *)
(* no receipt relies on may be forgotten; the rest stays for ever.         *)
(*                                                                         *)
(* CorrenteLocal (SQLite plus export) and EspelhoD1 (cloud) implement it.  *)
(***************************************************************************)
EXTENDS Naturals

CONSTANTS Correlacoes, Conteudos, Ids

VARIABLES
  diario,    \* the entries of the journal
  entregues  \* the receipts given out

Chaves == Correlacoes \cup (Correlacoes \X Conteudos)

TemEntrada(d, k) == \E e \in d : e.chave = k

(* The receipt r can be shown from the journal d.                          *)
Prova(d, r) ==
  \E e \in d :
    /\ e.chave = r.chave /\ e.id = r.id
    /\ e.conteudo = r.conteudo \/ TemEntrada(d, <<r.chave, r.conteudo>>)

Init == diario = {} /\ entregues = {}

(* A record of a new key is entered after all the others.                  *)
Selar ==
  \E k \in Chaves, c \in Conteudos, i \in Ids, n \in {1} \cup {e.pos + 1 : e \in diario} :
    /\ ~TemEntrada(diario, k)
    /\ \A e \in diario : e.id # i /\ e.pos < n
    /\ diario' = diario \cup {[pos |-> n, chave |-> k, conteudo |-> c, id |-> i]}
    /\ UNCHANGED entregues

(* The caller learns which entry stands for its record.                    *)
Receber ==
  \E k \in Chaves, c \in Conteudos, i \in Ids :
    LET recibo == [chave |-> k, conteudo |-> c, id |-> i] IN
      /\ Prova(diario, recibo)
      /\ entregues' = entregues \cup {recibo}
      /\ UNCHANGED diario

(* Entries no receipt relies on are lost.                                  *)
Esquecer ==
  /\ \E d \in SUBSET diario : (\A r \in entregues : Prova(d, r)) /\ diario' = d
  /\ UNCHANGED entregues

Next == Selar \/ Receber \/ Esquecer

Spec == Init /\ [][Next]_<<diario, entregues>>
=============================================================================
