------------------------------- MODULE MCTokens ------------------------------
(* Two accounts, of which one may be given two tokens. *)
EXTENDS TokenManager, TLC

CONSTANTS a1, a2, t1, t2, t3

MCTokensOf == (a1 :> {t1, t2}) @@ (a2 :> {t3})
=============================================================================
