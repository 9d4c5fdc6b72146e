--------------------------- MODULE MCFilaMensagens ---------------------------
(***************************************************************************)
(* What the users type in the runs of FilaMensagens: a word that the       *)
(* server knows, one that it does not, and an unknown language.            *)
(***************************************************************************)
EXTENDS FilaMensagens

P(o, d, p) == [ori |-> o, des |-> d, palavra |-> p]

Variados == {P("pt", "en", "gato"), P("jp", "pt", "fish"), P("fr", "en", "gato")}

Dois == {P("pt", "en", "gato"), P("en", "pt", "gato")}
=============================================================================
