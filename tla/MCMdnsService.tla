--------------------------- MODULE MCMdnsService ---------------------------
(* MdnsService with two packets, one search, one browse and two callers that *)
(* share a queue of two actions.                                             *)
EXTENDS MdnsService

CONSTANTS p1, p2, s1, b1, c1, c2
=============================================================================
