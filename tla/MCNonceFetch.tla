---------------------------- MODULE MCNonceFetch ---------------------------
(* Two pages of one issuer, one of another, one that is not safe.           *)
EXTENDS NonceFetch, TLC

CONSTANTS u1, u2, u3, u4, o1, o2

Places == (u1 :> o1) @@ (u2 :> o1) @@ (u3 :> o2) @@ (u4 :> o1)
=============================================================================
