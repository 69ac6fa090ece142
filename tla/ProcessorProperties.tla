------------------------ MODULE ProcessorProperties ------------------------
(***************************************************************************)
(* What the raw-ingest queue of Processor guarantees.  The first group     *)
(* holds for any number of instances and every disturbance; the second     *)
(* needs a single instance whose final writes are acknowledged.            *)
(***************************************************************************)
EXTENDS Processor

\* No interleaving of claims, waits, releases, retries and late writes of
\* several instances lets a record be claimed more often than max_attempts
\* allows (_claim_next checks the counter for only two of its five cases).
AttemptsBounded == \A r \in Records : raw[r].attempts <= MaxAttempts

\* A record is marked completed only after its intelligence is in MongoDB with
\* its evidence snapshot and in the graph, and all its alerts were evaluated,
\* whichever instances, replays and crashes contributed to that.
CompletedIsIndexed ==
    \A r \in Records : raw[r].status = "completed" =>
        /\ intel[r] # None /\ graph[r] # {}
        /\ r \in snapshot /\ r \in evaluated

\* The graph and the alert history never refer to intelligence that MongoDB
\* does not hold, not even between two calls of _process_intel.
NoDanglingReference ==
    /\ \A r \in Records : graph[r] # {} => intel[r] # None
    /\ \A a \in alerts : graph[a[1]] # {}

\* How often an alert entered the history.
Entered(a) == expired[a] + (IF a \in alerts THEN 1 ELSE 0)

\* An alert is broadcast at most once for each time it entered the history,
\* although records are replayed by several instances (_evaluate_alerts inserts
\* before it broadcasts).  It enters again only after the TTL index removed it
\* (mongodb.py:388-393), as when a dead letter is retried a month later.
BroadcastAtMostOnce == \A a \in Alerts : sent[a] <= Entered(a)
-----------------------------------------------------------------------------
Open == {"pending", "processing", "failed", "waiting_dependency"}

InHand(r) == \E w \in Workers : pc[w] \in DocSteps /\ Rec(w) = r

\* The one way to get stuck: the instance went down, or the write of its except
\* block failed, after the oversize write of the last attempt
\* (processor.py:201-243).  No claim, sweep or operator finds the record again.
CutOffOversized(r) ==
    /\ r \in Oversized /\ ~InHand(r)
    /\ raw[r].status = "failed" /\ raw[r].attempts = MaxAttempts

\* An unresolved record never gets stuck otherwise: an instance has it in hand,
\* it can be claimed, or its lease runs out and lets it be claimed or exhausted.
NoRecordStranded ==
    \A r \in Records : raw[r].status \in Open =>
        \/ InHand(r) \/ Claimable(r) \/ raw[r].lease = "live" \/ r \in Stale
        \/ CutOffOversized(r)

\* A record that waited for the graph is finished with the stored document,
\* so MongoDB and the graph agree on it (_resume_saved skips the analysis).
WaitedRecordsAgree ==
    \A r \in Records : raw[r].status = "completed" /\ raw[r].waits > 0 =>
        intel[r] \in graph[r]

\* README.md:105: pending and failed records are never expired.  The TTL index
\* on processing.completed_at removes resolved records only.
TtlSparesUnfinished ==
    [][\A r \in Records :
          raw[r].status \in {"pending", "failed"} => raw'[r].status # "deleted"]_vars

\* The life of each record is that of IngestLifecycle: resolved once, done only
\* when indexed, and back to open only from dead by an operator.
Outcome(r) ==
    CASE raw[r].status \in Open -> "open"
      [] raw[r].status = "completed" -> "done"
      [] raw[r].status = "exhausted" -> "dead"
      [] raw[r].status = "deleted" -> "expired"
      [] OTHER -> raw[r].status

Lifecycle == INSTANCE IngestLifecycle
                WITH outcome <- [r \in Records |-> Outcome(r)], indexed <- evaluated

ImplementsLifecycle == Lifecycle!Spec

\* Every published record is eventually completed, dropped or exhausted, in
\* spite of crashes, restarts, failing calls and graph outages.
EventuallyResolved ==
    \A r \in Records :
        raw[r].status \in Open ~> raw[r].status \notin Open \/ CutOffOversized(r)

\* As long as only the graph failed and instances were stopped and restarted,
\* every attempt a claim takes is given back, and a record is given up only
\* after MaxWaits waits: an outage does not burn attempts
\* (tests/test_consumers.py:135), nor does a shutdown.
OutageNeverBurnsAttempts ==
    worst = "outage" => \A r \in Records \ Oversized :
        /\ raw[r].status \in {"pending", "waiting_dependency", "exhausted"}
             => raw[r].attempts = 0
        /\ raw[r].status = "exhausted" => raw[r].waits >= MaxWaits
-----------------------------------------------------------------------------
(* What the repository says and the code does not always do. *)

\* README.md:105 again, for a failed record that nobody works on or can claim
\* any more: the one that stays failed for the whole retention period.
TtlSparesLeftover ==
    [][\A r \in Records :
          raw[r].status = "failed" /\ ~InHand(r) /\ ~Claimable(r)
             => raw'[r].status # "deleted"]_vars
============================================================================
