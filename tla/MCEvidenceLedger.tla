-------------------------- MODULE MCEvidenceLedger --------------------------
(* Instances of EvidenceLedger for TLC. *)
EXTENDS EvidenceLedger, TLC

Symmetry == Permutations(Requests \ Exports)
============================================================================
