------------------------------ MODULE Pipeline ------------------------------
(***************************************************************************)
(* IngestionPipeline.process of ingestion/pipeline.py, called by several   *)
(* collector processes at once, over the two stores that recognise a       *)
(* duplicate: the Redis key of RedisDedupStore (pending, then done, each   *)
(* with its TTL) and the unique dedup_key of MongoDB's raw_ingest.         *)
(*                                                                         *)
(* An item stands for its dedup_key: its source reference and its content. *)
(* Each call to a store is one action and may fail before or after it took *)
(* effect; a process may crash between any two calls.                      *)
(***************************************************************************)
EXTENDS Integers, FiniteSets

CONSTANTS
    Items,        \* dedup keys of the records the sources offer
    Unsafe,       \* items the safety policy rejects
    Procs,        \* collector processes
    Retries,      \* the 3 retries of a failed commit
    Disturbances, \* the kinds of disturbance a run admits
    MaxDisturbed, \* bound: disturbances in a behaviour
    None

DisturbanceKinds == {"mongo", "redis", "lost_ack", "crash", "ttl", "forget", "source"}
MildKinds == {"mongo", "ttl", "forget", "source"}

ASSUME ConstantsOK ==
    /\ Unsafe \subseteq Items /\ IsFiniteSet(Procs)
    /\ Retries \in Nat
    /\ Disturbances \subseteq DisturbanceKinds
    /\ MaxDisturbed \in Nat
    /\ None \notin Items

VARIABLES
    key,       \* Redis: the state of each dedup key
    stored,    \* MongoDB: the items in raw_ingest
    inserts,   \* history: inserts of each item into raw_ingest
    published, \* history: PUBLISHED outcomes for each item
    step,      \* where each process stands in process()
    item,      \* its record
    tries,     \* commits it tried again
    outcome,   \* what its last call of process() ended with
    disturbed, \* disturbances so far
    worst      \* history: "mild" while they were of MildKinds, then "severe"

keys      == <<key, stored, inserts>>
calls     == <<step, item, tries>>
trouble   == <<disturbed, worst>>
pipeVars  == <<keys, published, calls, outcome, trouble>>

Steps    == {"idle", "reserve", "publish", "release", "settle", "commit"}
Outcomes == {"none", "published", "duplicate", "rejected", "raised"}

PipeTypeOK ==
    /\ key \in [Items -> {"free", "pending", "done"}]
    /\ stored \in SUBSET Items
    /\ inserts \in [Items -> Nat] /\ published \in [Items -> Nat]
    /\ step \in [Procs -> Steps]
    /\ item \in [Procs -> Items \cup {None}]
    /\ \A p \in Procs : step[p] # "idle" => item[p] \in Items
    /\ tries \in [Procs -> 0..Retries]
    /\ outcome \in [Procs -> Outcomes]
    /\ disturbed \in 0..MaxDisturbed
    /\ worst \in {"mild", "severe"}

PipeInit ==
    /\ key = [i \in Items |-> "free"]
    /\ stored = {}
    /\ inserts = [i \in Items |-> 0] /\ published = [i \in Items |-> 0]
    /\ step = [p \in Procs |-> "idle"]
    /\ item = [p \in Procs |-> None]
    /\ tries = [p \in Procs |-> 0]
    /\ outcome = [p \in Procs |-> "none"]
    /\ disturbed = 0
    /\ worst = "mild"

Disturb(kind) ==
    /\ kind \in Disturbances
    /\ disturbed < MaxDisturbed
    /\ disturbed' = disturbed + 1
    /\ worst' = IF kind \in MildKinds THEN worst ELSE "severe"

Proceed(p, from, to) ==
    /\ step[p] = from
    /\ step' = [step EXCEPT ![p] = to]
    /\ UNCHANGED <<item, outcome>>

Return(p, from, result) ==
    /\ step[p] = from
    /\ step' = [step EXCEPT ![p] = "idle"]
    /\ item' = [item EXCEPT ![p] = None]
    /\ tries' = [tries EXCEPT ![p] = 0]
    /\ outcome' = [outcome EXCEPT ![p] = result]
-----------------------------------------------------------------------------
(* process(), call by call. *)

\* The call, and the safety policy, which needs no store.
Submit(p, i) ==
    /\ step[p] = "idle"
    /\ IF i \in Unsafe
       THEN outcome' = [outcome EXCEPT ![p] = "rejected"] /\ UNCHANGED <<step, item>>
       ELSE /\ step' = [step EXCEPT ![p] = "reserve"]
            /\ item' = [item EXCEPT ![p] = i]
            /\ outcome' = [outcome EXCEPT ![p] = "none"]
    /\ UNCHANGED <<keys, published, tries, trouble>>

\* SET NX of a pending key: any key, pending or done, makes it a duplicate.
Reserve(p) ==
    /\ step[p] = "reserve"
    /\ IF key[item[p]] = "free"
       THEN /\ Proceed(p, "reserve", "publish") /\ UNCHANGED tries
            /\ key' = [key EXCEPT ![item[p]] = "pending"]
       ELSE Return(p, "reserve", "duplicate") /\ UNCHANGED key
    /\ UNCHANGED <<stored, inserts, published, trouble>>

\* Redis raises, perhaps after it has set the key.
ReserveFails(p) ==
    /\ Return(p, "reserve", "raised")
    /\ \/ Disturb("redis") /\ UNCHANGED key
       \/ /\ Disturb("lost_ack") /\ key[item[p]] = "free"
          /\ key' = [key EXCEPT ![item[p]] = "pending"]
    /\ UNCHANGED <<stored, inserts, published>>

Insert(i) ==
    /\ stored' = stored \cup {i}
    /\ inserts' = [inserts EXCEPT ![i] = IF i \in stored THEN @ ELSE @ + 1]

\* Mutant of Publish: a matched record counts as inserted.
PublishIgnoringMatch(p) ==
    /\ Proceed(p, "publish", "commit")
    /\ Insert(item[p])
    /\ UNCHANGED <<key, published, tries, trouble>>

\* The upsert by dedup_key inserts, matches, or loses to a concurrent insert.
Publish(p) ==
    /\ Proceed(p, "publish", IF item[p] \in stored THEN "settle" ELSE "commit")
    /\ Insert(item[p])
    /\ UNCHANGED <<key, published, tries, trouble>>

\* Mutant of PublishFails: every error is taken for a duplicate key.
PublishErrorIsDuplicate(p) ==
    /\ Proceed(p, "publish", "settle")
    /\ \/ Disturb("mongo") /\ UNCHANGED <<stored, inserts>>
       \/ Disturb("lost_ack") /\ Insert(item[p])
    /\ UNCHANGED <<key, published, tries>>

\* The validation or MongoDB raises, perhaps after the insert.
PublishFails(p) ==
    /\ Proceed(p, "publish", "release")
    /\ \/ Disturb("mongo") /\ UNCHANGED <<stored, inserts>>
       \/ Disturb("lost_ack") /\ Insert(item[p])
    /\ UNCHANGED <<key, published, tries>>

\* Mutant of Release: the reservation is left to its TTL.
ReleaseNothing(p) ==
    /\ Return(p, "release", "raised")
    /\ UNCHANGED <<keys, published, trouble>>

\* A pending key is deleted, whoever holds it, and the error is raised again.
Release(p) ==
    /\ Return(p, "release", "raised")
    /\ key' = [key EXCEPT ![item[p]] = IF @ = "pending" THEN "free" ELSE @]
    /\ UNCHANGED <<stored, inserts, published, trouble>>

ReleaseFails(p) ==
    /\ Return(p, "release", "raised")
    /\ Disturb("redis")
    /\ UNCHANGED <<keys, published>>

\* A pending key becomes done; an expired or forgotten one stays away.
Settled(i) == [key EXCEPT ![i] = IF @ = "free" THEN @ ELSE "done"]

\* The commit for an item MongoDB already held ...
Settle(p) ==
    /\ Return(p, "settle", "duplicate")
    /\ key' = Settled(item[p])
    /\ UNCHANGED <<stored, inserts, published, trouble>>

\* ... is not tried again.
SettleFails(p) ==
    /\ Return(p, "settle", "raised")
    /\ Disturb("redis")
    /\ UNCHANGED <<keys, published>>

\* The commit after an insert ...
Commit(p) ==
    /\ Return(p, "commit", "published")
    /\ key' = Settled(item[p])
    /\ published' = [published EXCEPT ![item[p]] = @ + 1]
    /\ UNCHANGED <<stored, inserts, trouble>>

\* Mutant of CommitFails: one retry too many.
CommitFailsOnceMore(p) ==
    /\ \/ /\ tries[p] <= Retries
          /\ Proceed(p, "commit", "commit")
          /\ tries' = [tries EXCEPT ![p] = @ + 1]
       \/ tries[p] > Retries /\ Return(p, "commit", "raised")
    /\ \/ Disturb("redis") /\ UNCHANGED key
       \/ Disturb("lost_ack") /\ key' = Settled(item[p])
    /\ UNCHANGED <<stored, inserts, published>>

\* ... is retried; the last failure is raised.
CommitFails(p) ==
    /\ \/ /\ tries[p] < Retries
          /\ Proceed(p, "commit", "commit")
          /\ tries' = [tries EXCEPT ![p] = @ + 1]
       \/ tries[p] = Retries /\ Return(p, "commit", "raised")
    /\ \/ Disturb("redis") /\ UNCHANGED key
       \/ Disturb("lost_ack") /\ key' = Settled(item[p])
    /\ UNCHANGED <<stored, inserts, published>>

PipeStep(p) ==
    \/ Reserve(p) \/ Publish(p) \/ Release(p) \/ Settle(p) \/ Commit(p)

PipeTrouble(p) ==
    \/ ReserveFails(p) \/ PublishFails(p) \/ ReleaseFails(p)
    \/ SettleFails(p) \/ CommitFails(p)
-----------------------------------------------------------------------------
(* What else happens to the two stores. *)

\* The TTL of the key: 300 s while pending, 90 days when done.
KeyExpires(i) ==
    /\ \/ key[i] = "pending"
       \/ key[i] = "done" /\ "ttl" \in Disturbances
    /\ key' = [key EXCEPT ![i] = "free"]
    /\ UNCHANGED <<stored, inserts, published, calls, outcome, trouble>>

\* The TTL index removes a processed record from raw_ingest.
RawExpires(i) ==
    /\ i \in stored
    /\ Disturb("ttl")
    /\ stored' = stored \ {i}
    /\ UNCHANGED <<key, inserts, published, calls, outcome>>

\* The processor, replaying a record whose intelligence exists, frees its key.
Forget(i) ==
    /\ i \in stored
    /\ Disturb("forget")
    /\ key' = [key EXCEPT ![i] = "free"]
    /\ UNCHANGED <<stored, inserts, published, calls, outcome>>

PipeSurroundings(i) == KeyExpires(i) \/ RawExpires(i) \/ Forget(i)

\* The process dies and what it held in memory is gone.
Die(p) ==
    /\ Disturb("crash")
    /\ step' = [step EXCEPT ![p] = "idle"]
    /\ item' = [item EXCEPT ![p] = None]
    /\ tries' = [tries EXCEPT ![p] = 0]
    /\ outcome' = [outcome EXCEPT ![p] = "none"]
    /\ UNCHANGED <<keys, published>>
-----------------------------------------------------------------------------
(* The pipeline by itself, called with any item at any time. *)

\* A failure of something its caller uses.
Elsewhere ==
    /\ \E kind \in {"source", "redis", "mongo", "ttl"} : Disturb(kind)
    /\ UNCHANGED <<keys, published, calls, outcome>>

PipeNext ==
    \/ Elsewhere
    \/ \E p \in Procs :
          (\E i \in Items : Submit(p, i)) \/ PipeStep(p) \/ PipeTrouble(p) \/ Die(p)
    \/ \E i \in Items : PipeSurroundings(i)

PipeSpec == PipeInit /\ [][PipeNext]_pipeVars
-----------------------------------------------------------------------------
Ever == {i \in Items : inserts[i] > 0}

\* Whatever fails, expires or crashes, a key is marked done only for an item
\* that was inserted, so the long-lived mark never hides a record for 90 days
\* that MongoDB never had.
DoneMeansInserted == \A i \in Items : key[i] = "done" => i \in Ever

\* A record is reported as published at most once for each insert, so the
\* counts of collection_runs never exceed what raw_ingest received.
PublishedOncePerInsert == \A i \in Items : published[i] <= inserts[i]

\* As long as Redis answered and no process died, nobody leaves a reservation
\* behind: a pending key has a process that will commit or release it, even
\* when a slow process outlives its own key and releases that of another.
PendingHasOwner ==
    worst = "mild" => \A i \in Items : key[i] = "pending" =>
        \E p \in Procs : item[p] = i /\ step[p] \in {"publish", "release", "settle", "commit"}
============================================================================
