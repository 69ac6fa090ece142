-------------------------- MODULE IngestLifecycle --------------------------
(***************************************************************************)
(* What the ingest queue promises about one collected record, without      *)
(* workers, leases, attempts or stores.                                    *)
(*                                                                         *)
(* A record is submitted once.  While it is open it may be indexed (its    *)
(* intelligence is in MongoDB and in the graph and its alerts have been    *)
(* evaluated).  It is resolved exactly once: done, which requires it to be *)
(* indexed; dropped as irrelevant; or dead, from where only an operator    *)
(* reopens it.  Only a done or dropped record may expire, and an expired   *)
(* or resolved record never comes back by itself.                          *)
(***************************************************************************)

CONSTANT Records

VARIABLES outcome, \* the fate of each record
          indexed  \* the records whose intelligence is fully published

vars == <<outcome, indexed>>

Outcomes == {"absent", "open", "done", "dropped", "dead", "expired"}

TypeOK ==
    /\ outcome \in [Records -> Outcomes]
    /\ indexed \in SUBSET Records

Init ==
    /\ outcome = [r \in Records |-> "absent"]
    /\ indexed = {}

Move(r, from, to) ==
    /\ outcome[r] = from
    /\ outcome' = [outcome EXCEPT ![r] = to]
    /\ UNCHANGED indexed

Submit(r) == Move(r, "absent", "open")

Index(r) ==
    /\ outcome[r] = "open"
    /\ indexed' = indexed \cup {r}
    /\ UNCHANGED outcome

Complete(r) == r \in indexed /\ Move(r, "open", "done")
Drop(r)     == Move(r, "open", "dropped")
GiveUp(r)   == Move(r, "open", "dead")
Reopen(r)   == Move(r, "dead", "open")
Expire(r)   == Move(r, "done", "expired") \/ Move(r, "dropped", "expired")

\* The sweep of stale leases gives up on several records in one write.
GiveUpAll(S) ==
    /\ \A r \in S : outcome[r] = "open"
    /\ outcome' = [r \in Records |-> IF r \in S THEN "dead" ELSE outcome[r]]
    /\ UNCHANGED indexed

Next ==
    \/ \E r \in Records :
          Submit(r) \/ Index(r) \/ Complete(r) \/ Drop(r) \/ GiveUp(r)
          \/ Reopen(r) \/ Expire(r)
    \/ \E S \in SUBSET Records : GiveUpAll(S)

Spec == Init /\ [][Next]_vars
============================================================================
