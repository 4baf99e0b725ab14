--------------------------- MODULE MCLedSequencer ---------------------------
(* The engine with one continuous pattern between two error codes, one of  *)
(* them of two steps; unit lengths keep the order of the configured ones   *)
(* (pulse < gap between patterns < gap between frames).                    *)
EXTENDS LedSequencer

MCPatterns == <<
  [continuous |-> FALSE, sequence |-> <<[on |-> 1, off |-> 1, repeat |-> 2]>>],
  [continuous |-> TRUE,  sequence |-> <<[on |-> 1, off |-> 1, repeat |-> 1],
                                        [on |-> 1, off |-> 2, repeat |-> 1]>>],
  [continuous |-> FALSE, sequence |-> <<[on |-> 1, off |-> 0, repeat |-> 1],
                                        [on |-> 1, off |-> 1, repeat |-> 2]>>],
  [continuous |-> FALSE, sequence |-> <<[on |-> 1, off |-> 1, repeat |-> 1]>>]
>>
=============================================================================
