------------------------- MODULE MCRetrievalService ------------------------
(* Instances of RetrievalService for TLC: which calls are REST requests and *)
(* which sets may be permuted.  The sets themselves are in the cfg files.   *)
EXTENDS RetrievalService, TLC

NatsCalls == Calls \ RestCalls

Symmetry == Permutations(Keys)
            \union Permutations(RestCalls)
            \union Permutations(NatsCalls)
=============================================================================
