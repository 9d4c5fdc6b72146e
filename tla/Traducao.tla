------------------------------- MODULE Traducao -------------------------------
(***************************************************************************)
(* What both translation servers promise: a word is answered with the word *)
(* of the same meaning in the other language.  A request is a record of    *)
(* two languages and a word; the dictionary is the meaning of the three    *)
(* arrays of words that each server has.                                   *)
(***************************************************************************)

ERRO == "ERROR:UNKNOW"

Dicionario == {[pt |-> "peixe", en |-> "fish", jp |-> "sakana"],
               [pt |-> "bola", en |-> "ball", jp |-> "tama"],
               [pt |-> "gato", en |-> "cat", jp |-> "neko"]}
Linguas == {"pt", "en", "jp"}

\* r is what p asks for by the dictionary, an error if it has no such entry.
Traduz(p, r) ==
  \/ /\ {p.ori, p.des} \subseteq Linguas
     /\ \E d \in Dicionario : d[p.ori] = p.palavra /\ d[p.des] = r
  \/ /\ r = ERRO
     /\ {p.ori, p.des} \subseteq Linguas => \A d \in Dicionario : d[p.ori] # p.palavra
=============================================================================
