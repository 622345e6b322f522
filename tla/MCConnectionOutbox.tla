------------------------- MODULE MCConnectionOutbox -------------------------
(* An instance of ConnectionOutbox for TLC: the streams of a kind are      *)
(* interchangeable.                                                        *)
EXTENDS ConnectionOutbox

Symmetry == Permutations(Attachments) \cup Permutations(Monitors)

=============================================================================
