------------------------------- MODULE Lists -------------------------------
(***************************************************************************)
(* The two shapes of loop the responder's code runs over its arrays and    *)
(* linked lists, written as recursive functions, which TLAPS can expand.   *)
(***************************************************************************)
EXTENDS Naturals, Sequences

\* for (each element of seq) state = Op(state, element)
Loop(Op(_, _), base, seq) ==
    LET f[n \in 0 .. Len(seq)] == IF n = 0 THEN base ELSE Op(f[n - 1], seq[n])
    IN  f[Len(seq)]

\* seq after every element of the set gone has been taken off it
Without(seq, gone) ==
    Loop(LAMBDA left, e : IF e \in gone THEN left ELSE Append(left, e), <<>>, seq)
=============================================================================
