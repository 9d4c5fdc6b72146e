---------------------------- MODULE MCSoqueteUnix ----------------------------
(***************************************************************************)
(* What the users type in the run of SoqueteUnix: a word that the server   *)
(* knows, one that it does not, and an unknown language on either side.    *)
(***************************************************************************)
EXTENDS SoqueteUnix

P(o, d, p) == [ori |-> o, des |-> d, palavra |-> p]

Variados == {P("pt", "en", "gato"), P("jp", "pt", "fish"), P("fr", "en", "gato"),
             P("en", "fr", "cat")}
=============================================================================
