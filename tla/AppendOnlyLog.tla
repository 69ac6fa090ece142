--------------------------- MODULE AppendOnlyLog ----------------------------
(***************************************************************************)
(* What an evidence ledger promises: a sequence of distinct values that    *)
(* only ever grows, one value at a time, at its end.                       *)
(***************************************************************************)
EXTENDS Naturals, Sequences

CONSTANT Values

VARIABLE log

Init == log = <<>> \/ \E v \in Values : log = <<v>>

Add(v) ==
    /\ \A i \in DOMAIN log : log[i] # v
    /\ log' = Append(log, v)

Next == \E v \in Values : Add(v)

Spec == Init /\ [][Next]_log
============================================================================
