---------------------------- MODULE MCProcessor ----------------------------
(* Instances of Processor for TLC: every content triggers every rule. *)
EXTENDS ProcessorProperties, TLC

MCMatches == [c \in Contents |-> Rules]
Symmetry  == Permutations(Workers)
============================================================================
