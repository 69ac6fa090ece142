----------------------------- MODULE Processor -----------------------------
(***************************************************************************)
(* The raw-ingest queue of broker/processor.py: MongoProcessor instances   *)
(* claim records from MongoDB under a lease, analyse them, store the       *)
(* intelligence in MongoDB and in Neo4j, raise alerts, and write the       *)
(* record's outcome back.  Each await on a store is one action, so every   *)
(* interleaving of two instances, every crash between two calls and every  *)
(* failing call is a behaviour of the model.                               *)
(*                                                                         *)
(* Time is abstracted: a lease is live until LeaseExpires ends it.         *)
(* Records are numbered by their _id order, the order of a claim.          *)
(***************************************************************************)
EXTENDS Integers, FiniteSets

CONSTANTS
    Records,      \* raw records, numbered in _id order
    Workers,      \* MongoProcessor instances sharing the database
    Contents,     \* results the analysis of a record may produce
    Rules,        \* alert rules and watchlists
    Matches,      \* Matches[c]: the rules that content c triggers
    Empty,        \* records without text
    Oversized,    \* records above processor.max_content_bytes
    MaxAttempts,  \* processor.max_attempts
    MaxWaits,     \* the 100 of _mark_waiting
    Disturbances, \* the kinds of disturbance a run admits
    MaxDisturbed, \* bound: disturbances in a behaviour
    None

DisturbanceKinds == {"crash", "stop", "error", "lost_ack", "graph", "retry", "expiry"}
OutageKinds == {"stop", "graph", "retry", "expiry"}

ASSUME ConstantsOK ==
    /\ Records \subseteq Nat
    /\ Empty \subseteq Records /\ Oversized \subseteq Records
    /\ Matches \in [Contents -> SUBSET Rules]
    /\ MaxAttempts \in Nat \ {0} /\ MaxWaits \in Nat \ {0}
    /\ Disturbances \subseteq DisturbanceKinds
    /\ MaxDisturbed \in Nat
    /\ None \notin Records /\ None \notin Contents /\ None \notin Rules

VARIABLES
    raw,       \* raw_ingest: the processing sub-document of each record
    intel,     \* intel: the stored document of each record, or None
    graph,     \* Neo4j: the contents merged for each record
    snapshot,  \* records whose intel carries an evidence_snapshot
    alerts,    \* alerts_history: the <<record, rule>> it holds
    expired,   \* history: times the TTL index removed each alert
    sent,      \* broadcasts made of each alert
    keyHeld,   \* records whose dedup key is in Redis
    evaluated, \* history: records whose alerts were evaluated to the end
    pc,        \* where each instance stands in _run_loop or _process_doc
    job,       \* the locals of its _process_doc
    fatal,     \* its _fatal_error is set
    graphUp,   \* Neo4j answers
    disturbed, \* disturbances so far
    worst      \* history: "outage" while they were of OutageKinds, then "failure"

stores  == <<intel, graph, snapshot, alerts, expired, sent, keyHeld, evaluated>>
local   == <<pc, job, fatal>>
outside == <<graphUp, disturbed, worst>>
vars    == <<raw, stores, local, outside>>

Statuses == {"absent", "pending", "processing", "failed", "waiting_dependency",
             "completed", "dropped", "exhausted", "deleted"}
Phases   == {"none", "intel_saved", "completed"}
Leases   == {"none", "live", "expired"}

\* The steps of _run_loop, then those of _process_doc.
LoopSteps == {"off", "stopping", "top", "poll", "claim"}
DocSteps  == {"check", "oversized", "nlp", "insert", "graph", "waits", "wait",
              "alerts", "snapshot", "finish", "drop", "fail"}

NoJob == [rec |-> None, attempts |-> 0, phase |-> "none", content |-> None,
          todo |-> {}, cast |-> None, waits |-> 0]

Alerts == Records \X Rules

RawType == [status : Statuses, lease : Leases, attempts : Int, phase : Phases,
            waits : Nat, done : BOOLEAN]
JobType == [rec : Records \cup {None}, attempts : Int, phase : Phases,
            content : Contents \cup {None}, todo : SUBSET Rules,
            cast : Rules \cup {None}, waits : Nat]

\* The steps at which an analysis result is at hand.
HoldsContent == {"insert", "graph", "waits", "wait", "alerts", "snapshot"}

LocalsOK ==
    \A w \in Workers :
        /\ pc[w] \in DocSteps => job[w].rec \in Records
        /\ pc[w] \in HoldsContent => job[w].content \in Contents

TypeOK ==
    /\ raw \in [Records -> RawType]
    /\ intel \in [Records -> Contents \cup {None}]
    /\ graph \in [Records -> SUBSET Contents]
    /\ snapshot \in SUBSET Records
    /\ alerts \in SUBSET Alerts
    /\ expired \in [Alerts -> Nat]
    /\ sent \in [Alerts -> Nat]
    /\ keyHeld \in SUBSET Records
    /\ evaluated \in SUBSET Records
    /\ pc \in [Workers -> LoopSteps \cup DocSteps]
    /\ job \in [Workers -> JobType]
    /\ LocalsOK
    /\ fatal \in [Workers -> BOOLEAN]
    /\ graphUp \in BOOLEAN
    /\ disturbed \in 0..MaxDisturbed
    /\ worst \in {"outage", "failure"}

Init ==
    /\ raw = [r \in Records |-> [status |-> "absent", lease |-> "none",
                 attempts |-> 0, phase |-> "none", waits |-> 0, done |-> FALSE]]
    /\ intel = [r \in Records |-> None]
    /\ graph = [r \in Records |-> {}]
    /\ snapshot = {}
    /\ alerts = {}
    /\ expired = [a \in Alerts |-> 0]
    /\ sent = [a \in Alerts |-> 0]
    /\ keyHeld = {}
    /\ evaluated = {}
    /\ pc = [w \in Workers |-> "off"]
    /\ job = [w \in Workers |-> NoJob]
    /\ fatal = [w \in Workers |-> FALSE]
    /\ graphUp = TRUE
    /\ disturbed = 0
    /\ worst = "outage"
-----------------------------------------------------------------------------
(* Helpers. *)

Disturb(kind) ==
    /\ kind \in Disturbances
    /\ disturbed < MaxDisturbed
    /\ disturbed' = disturbed + 1
    /\ worst' = IF kind \in OutageKinds THEN worst ELSE "failure"

Goto(w, step) == pc' = [pc EXCEPT ![w] = step]

\* A step of _process_doc that touches nothing but its own locals.
Proceed(w, from, to) ==
    /\ pc[w] = from
    /\ Goto(w, to)
    /\ UNCHANGED fatal

\* Leaving _process_doc, or the process: the locals are gone.
Leave(w, step) ==
    /\ Goto(w, step)
    /\ job' = [job EXCEPT ![w] = NoJob]

\* update_one by ingest_id matches nothing once the record is deleted.
Update(r, doc) ==
    raw' = IF raw[r].status = "deleted" THEN raw ELSE [raw EXCEPT ![r] = doc]

\* No write names the worker that claimed the record.
Rec(w) == job[w].rec
-----------------------------------------------------------------------------
(* _run_loop. *)

Start(w) ==
    /\ pc[w] = "off"
    /\ Goto(w, "top")
    /\ fatal' = [fatal EXCEPT ![w] = FALSE]
    /\ UNCHANGED <<raw, stores, job, outside>>

Stale == {r \in Records : /\ raw[r].status = "processing"
                          /\ raw[r].lease = "expired"
                          /\ raw[r].attempts >= MaxAttempts}

ExhaustStaleLeases(w) ==
    /\ Proceed(w, "top", "poll")
    /\ raw' = [r \in Records |->
                 IF r \in Stale
                 THEN [raw[r] EXCEPT !.status = "exhausted", !.lease = "none"]
                 ELSE raw[r]]
    /\ UNCHANGED <<stores, job, outside>>

\* A healthy graph leaves _fatal_error alone; a reconnect clears it.
GraphReady(w) ==
    /\ pc[w] = "poll"
    /\ \/ /\ graphUp
          /\ Goto(w, "claim")
          /\ \/ UNCHANGED fatal
             \/ fatal' = [fatal EXCEPT ![w] = FALSE]
       \/ /\ ~graphUp
          /\ Goto(w, "top")
          /\ fatal' = [fatal EXCEPT ![w] = TRUE]
    /\ UNCHANGED <<raw, stores, job, outside>>

\* Mutant of Claimable: an expired lease is taken over without the attempts check.
ClaimableWhenExpired(r) ==
    \/ raw[r].status = "pending"
    \/ raw[r].status = "failed" /\ raw[r].attempts < MaxAttempts
    \/ raw[r].status \in {"processing", "waiting_dependency"} /\ raw[r].lease = "expired"

\* Mutant of Claimable: nothing picks up a record that waits for the graph.
ClaimableNotWaiting(r) ==
    \/ raw[r].status = "pending"
    \/ raw[r].status = "failed" /\ raw[r].attempts < MaxAttempts
    \/ /\ raw[r].status = "processing" /\ raw[r].lease = "expired"
       /\ raw[r].attempts < MaxAttempts

Claimable(r) ==
    \/ raw[r].status = "pending"
    \/ raw[r].status = "failed" /\ raw[r].attempts < MaxAttempts
    \/ /\ raw[r].status = "processing" /\ raw[r].lease = "expired"
       /\ raw[r].attempts < MaxAttempts
    \/ raw[r].status = "waiting_dependency" /\ raw[r].lease = "expired"

\* find_one_and_update: the first claimable record, its snapshot kept in job.
Claim(w, r) ==
    /\ pc[w] = "claim"
    /\ Claimable(r)
    /\ \A s \in Records : Claimable(s) => r <= s
    /\ raw' = [raw EXCEPT ![r].status = "processing", ![r].lease = "live",
                          ![r].attempts = @ + 1]
    /\ job' = [job EXCEPT ![w] = [NoJob EXCEPT !.rec = r,
                                     !.attempts = raw[r].attempts + 1,
                                     !.phase = raw[r].phase]]
    /\ Goto(w, "check")
    /\ fatal' = [fatal EXCEPT ![w] = FALSE]
    /\ UNCHANGED <<stores, outside>>

ClaimNothing(w) ==
    /\ pc[w] = "claim"
    /\ \A r \in Records : ~Claimable(r)
    /\ Goto(w, "top")
    /\ fatal' = [fatal EXCEPT ![w] = FALSE]
    /\ UNCHANGED <<raw, stores, job, outside>>

\* The sweep or the claim raises: _fatal_error is set and the loop goes on.
LoopCallFails(w) ==
    /\ pc[w] \in {"top", "claim"}
    /\ Disturb("error")
    /\ Goto(w, "top")
    /\ fatal' = [fatal EXCEPT ![w] = TRUE]
    /\ UNCHANGED <<raw, stores, job, graphUp>>
-----------------------------------------------------------------------------
(* _process_doc. *)

\* Mutant of Resumable: a replay is always analysed again.
ResumableNever(w) == job[w].phase = "intel_saved" /\ intel[Rec(w)] = None

\* _resume_saved: the claimed snapshot says the intelligence is stored.
Resumable(w) == job[w].phase = "intel_saved" /\ intel[Rec(w)] # None

CheckContent(w) ==
    /\ \/ Rec(w) \in Empty /\ Proceed(w, "check", "drop") /\ UNCHANGED job
       \/ /\ Rec(w) \in Oversized \ Empty
          /\ Proceed(w, "check", "oversized") /\ UNCHANGED job
       \/ /\ Rec(w) \notin Empty \cup Oversized
          /\ IF Resumable(w)
             THEN /\ Proceed(w, "check", "insert")
                  /\ job' = [job EXCEPT ![w].content = intel[Rec(w)]]
             ELSE Proceed(w, "check", "nlp") /\ UNCHANGED job
    /\ UNCHANGED <<raw, stores, outside>>

\* The oversize update, after which the code raises into the handler.
MarkOversized(w) ==
    /\ Proceed(w, "oversized", "fail")
    /\ Update(Rec(w), [raw[Rec(w)] EXCEPT !.status = "failed", !.lease = "none"])
    /\ UNCHANGED <<stores, job, outside>>

\* Mutant of Analyse: the graph is written without the insert into MongoDB.
AnalyseGraphFirst(w) ==
    /\ \/ Proceed(w, "nlp", "drop") /\ UNCHANGED job
       \/ /\ Proceed(w, "nlp", "graph")
          /\ \E c \in Contents : job' = [job EXCEPT ![w].content = c]
    /\ UNCHANGED <<raw, stores, outside>>

\* The verdict depends on the dictionary and the actors known at the time,
\* so two analyses of one record may differ.
Analyse(w) ==
    /\ \/ Proceed(w, "nlp", "drop") /\ UNCHANGED job
       \/ /\ Proceed(w, "nlp", "insert")
          /\ \E c \in Contents : job' = [job EXCEPT ![w].content = c]
    /\ UNCHANGED <<raw, stores, outside>>

\* The first document stays; a duplicate frees the dedup key instead.
InsertIntel(w) ==
    /\ Proceed(w, "insert", "graph")
    /\ \/ /\ intel[Rec(w)] = None
          /\ intel' = [intel EXCEPT ![Rec(w)] = job[w].content]
          /\ UNCHANGED keyHeld
       \/ /\ intel[Rec(w)] # None
          /\ keyHeld' = IF raw[Rec(w)].status = "deleted" THEN keyHeld
                        ELSE keyHeld \ {Rec(w)}
          /\ UNCHANGED intel
    /\ UNCHANGED <<raw, graph, snapshot, alerts, expired, sent, evaluated, job, outside>>

\* Mutant of UpsertGraph: a failing graph write is swallowed.
UpsertGraphSwallowed(w) ==
    /\ Proceed(w, "graph", "alerts")
    /\ graph' = IF graphUp THEN [graph EXCEPT ![Rec(w)] = @ \cup {job[w].content}]
                ELSE graph
    /\ job' = [job EXCEPT ![w].todo = Matches[job[w].content]]
    /\ UNCHANGED <<raw, intel, snapshot, alerts, expired, sent, keyHeld, evaluated,
                   outside>>

UpsertGraph(w) ==
    /\ \/ /\ graphUp
          /\ Proceed(w, "graph", "alerts")
          /\ graph' = [graph EXCEPT ![Rec(w)] = @ \cup {job[w].content}]
          /\ job' = [job EXCEPT ![w].todo = Matches[job[w].content]]
       \/ /\ ~graphUp
          /\ Proceed(w, "graph", "waits")
          /\ UNCHANGED <<graph, job>>
    /\ UNCHANGED <<raw, intel, snapshot, alerts, expired, sent, keyHeld, evaluated,
                   outside>>

\* The graph refuses the write, or applies it and its answer is lost.
UpsertFails(w) ==
    /\ Proceed(w, "graph", "waits")
    /\ \/ Disturb("error") /\ UNCHANGED graph
       \/ /\ graphUp
          /\ Disturb("lost_ack")
          /\ graph' = [graph EXCEPT ![Rec(w)] = @ \cup {job[w].content}]
    /\ UNCHANGED <<raw, intel, snapshot, alerts, expired, sent, keyHeld, evaluated, job,
                   graphUp>>

\* _mark_waiting reads the counter in one call ...
ReadWaits(w) ==
    /\ Proceed(w, "waits", "wait")
    /\ job' = [job EXCEPT ![w].waits =
                 IF raw[Rec(w)].status = "deleted" THEN 0 ELSE raw[Rec(w)].waits]
    /\ UNCHANGED <<raw, stores, outside>>

\* Mutant of MarkWaiting: the two increments are swapped.
MarkWaitingSwapped(w) ==
    /\ pc[w] = "wait"
    /\ LET terminal == job[w].waits + 1 >= MaxWaits
       IN Update(Rec(w),
            [raw[Rec(w)] EXCEPT
               !.status = IF terminal THEN "exhausted" ELSE "waiting_dependency",
               !.phase = "intel_saved",
               !.lease = IF terminal THEN "none" ELSE "live",
               !.attempts = @ + 1, !.waits = @ - 1])
    /\ Leave(w, "top")
    /\ UNCHANGED <<stores, fatal, outside>>

\* ... and writes the decision it based on it in another.
MarkWaiting(w) ==
    /\ pc[w] = "wait"
    /\ LET terminal == job[w].waits + 1 >= MaxWaits
       IN Update(Rec(w),
            [raw[Rec(w)] EXCEPT
               !.status = IF terminal THEN "exhausted" ELSE "waiting_dependency",
               !.phase = "intel_saved",
               !.lease = IF terminal THEN "none" ELSE "live",
               !.attempts = @ - 1, !.waits = @ + 1])
    /\ Leave(w, "top")
    /\ UNCHANGED <<stores, fatal, outside>>

\* Mutant of InsertAlert: a duplicate key does not skip the broadcast.
InsertAlertAlwaysCast(w, k) ==
    /\ pc[w] = "alerts" /\ job[w].cast = None /\ k \in job[w].todo
    /\ alerts' = alerts \cup {<<Rec(w), k>>}
    /\ job' = [job EXCEPT ![w].todo = @ \ {k}, ![w].cast = k]
    /\ UNCHANGED <<raw, intel, graph, snapshot, expired, sent, keyHeld, evaluated, pc,
                   fatal, outside>>

\* A new alert is broadcast by the worker that inserted it.
InsertAlert(w, k) ==
    /\ pc[w] = "alerts" /\ job[w].cast = None /\ k \in job[w].todo
    /\ alerts' = alerts \cup {<<Rec(w), k>>}
    /\ job' = [job EXCEPT ![w].todo = @ \ {k},
                          ![w].cast = IF <<Rec(w), k>> \in alerts THEN None ELSE k]
    /\ UNCHANGED <<raw, intel, graph, snapshot, expired, sent, keyHeld, evaluated, pc,
                   fatal, outside>>

Broadcast(w) ==
    /\ pc[w] = "alerts" /\ job[w].cast # None
    /\ sent' = [sent EXCEPT ![<<Rec(w), job[w].cast>>] = @ + 1]
    /\ job' = [job EXCEPT ![w].cast = None]
    /\ UNCHANGED <<raw, intel, graph, snapshot, alerts, expired, keyHeld, evaluated, pc,
                   fatal, outside>>

\* A broadcast that raises is logged and not repeated.
BroadcastFails(w) ==
    /\ pc[w] = "alerts" /\ job[w].cast # None
    /\ Disturb("error")
    /\ job' = [job EXCEPT ![w].cast = None]
    /\ UNCHANGED <<raw, stores, pc, fatal, graphUp>>

AlertsDone(w) ==
    /\ job[w].todo = {} /\ job[w].cast = None
    /\ Proceed(w, "alerts", "snapshot")
    /\ evaluated' = evaluated \cup {Rec(w)}
    /\ UNCHANGED <<raw, intel, graph, snapshot, alerts, expired, sent, keyHeld, job, outside>>

WriteSnapshot(w) ==
    /\ Proceed(w, "snapshot", "finish")
    /\ snapshot' = IF intel[Rec(w)] = None THEN snapshot ELSE snapshot \cup {Rec(w)}
    /\ UNCHANGED <<raw, intel, graph, alerts, expired, sent, keyHeld, evaluated, job, outside>>

Finished(w) ==
    [raw[Rec(w)] EXCEPT !.status = IF pc[w] = "drop" THEN "dropped" ELSE "completed",
                        !.done = TRUE, !.lease = "none", !.phase = "completed"]

FinishRaw(w) ==
    /\ pc[w] \in {"finish", "drop"}
    /\ Update(Rec(w), Finished(w))
    /\ Leave(w, "top")
    /\ UNCHANGED <<stores, fatal, outside>>

\* The final write is applied but its answer is lost: the handler runs too.
FinishAckLost(w) ==
    /\ pc[w] \in {"finish", "drop"}
    /\ Disturb("lost_ack")
    /\ Update(Rec(w), Finished(w))
    /\ Goto(w, "fail")
    /\ UNCHANGED <<stores, job, fatal, graphUp>>

\* A call raises, or the analysis fails or times out.  A failing broadcast
\* and a failing graph write have their own handling above.
CallFails(w) ==
    /\ pc[w] \in DocSteps \ {"graph", "fail"}
    /\ job[w].cast = None
    /\ Disturb("error")
    /\ Goto(w, "fail")
    /\ UNCHANGED <<raw, stores, job, fatal, graphUp>>

\* Mutant of MarkFailed: the last attempt is not told from the others.
MarkFailedNeverTerminal(w) ==
    /\ pc[w] = "fail"
    /\ Update(Rec(w), [raw[Rec(w)] EXCEPT !.status = "failed", !.lease = "none"])
    /\ Leave(w, "top")
    /\ UNCHANGED <<stores, fatal, outside>>

\* Mutant of MarkFailed: completed_at is stamped on a failure too.
MarkFailedStamped(w) ==
    /\ pc[w] = "fail"
    /\ Update(Rec(w),
         [raw[Rec(w)] EXCEPT
            !.status = IF job[w].attempts >= MaxAttempts THEN "exhausted" ELSE "failed",
            !.lease = "none", !.done = TRUE])
    /\ Leave(w, "top")
    /\ UNCHANGED <<stores, fatal, outside>>

\* The except block: terminal is judged on the snapshot taken at the claim.
MarkFailed(w) ==
    /\ pc[w] = "fail"
    /\ Update(Rec(w),
         [raw[Rec(w)] EXCEPT
            !.status = IF job[w].attempts >= MaxAttempts THEN "exhausted" ELSE "failed",
            !.lease = "none"])
    /\ Leave(w, "top")
    /\ UNCHANGED <<stores, fatal, outside>>

\* The write of the except block raises as well: the lease stays.
MarkFailedFails(w) ==
    /\ pc[w] = "fail"
    /\ Disturb("error")
    /\ Leave(w, "top")
    /\ UNCHANGED <<raw, stores, fatal, graphUp>>
-----------------------------------------------------------------------------
(* Process life: stop() cancels the task at its await, then releases. *)

Crash(w) ==
    /\ pc[w] # "off"
    /\ Disturb("crash")
    /\ Leave(w, "off")
    /\ UNCHANGED <<raw, stores, fatal, graphUp>>

Stop(w) ==
    /\ pc[w] \notin {"off", "stopping"}
    /\ Disturb("stop")
    /\ Leave(w, "stopping")
    /\ UNCHANGED <<raw, stores, fatal, graphUp>>

\* Mutant of ReleaseOpenLeases: the attempt is not given back.
ReleaseKeepingAttempts(w) ==
    /\ Proceed(w, "stopping", "off")
    /\ raw' = [r \in Records |->
                 IF raw[r].status = "processing"
                 THEN [raw[r] EXCEPT !.status = "pending", !.lease = "none"]
                 ELSE raw[r]]
    /\ UNCHANGED <<stores, job, outside>>

\* Every record being processed is released, whoever holds it.
ReleaseOpenLeases(w) ==
    /\ Proceed(w, "stopping", "off")
    /\ raw' = [r \in Records |->
                 IF raw[r].status = "processing"
                 THEN [raw[r] EXCEPT !.status = "pending", !.lease = "none",
                                     !.attempts = @ - 1]
                 ELSE raw[r]]
    /\ UNCHANGED <<stores, job, outside>>
-----------------------------------------------------------------------------
(* The surroundings. *)

\* MongoPublisher.publish inserts the record once; the pipeline commits its key.
Publish(r) ==
    /\ raw[r].status = "absent"
    /\ raw' = [raw EXCEPT ![r].status = "pending"]
    /\ keyHeld' = keyHeld \cup {r}
    /\ UNCHANGED <<intel, graph, snapshot, alerts, expired, sent, evaluated, local, outside>>

\* Mutant of RetryDeadLetter: the filter on the status is missing.
RetryAnyRecord(r) ==
    /\ raw[r].status \notin {"absent", "deleted"}
    /\ Disturb("retry")
    /\ raw' = [raw EXCEPT ![r].status = "pending", ![r].attempts = 0]
    /\ UNCHANGED <<stores, local, graphUp>>

\* retry_dead_letter resets the attempts, not the waits, phase or completed_at.
RetryDeadLetter(r) ==
    /\ raw[r].status = "exhausted"
    /\ Disturb("retry")
    /\ raw' = [raw EXCEPT ![r].status = "pending", ![r].attempts = 0]
    /\ UNCHANGED <<stores, local, graphUp>>

LeaseExpires(r) ==
    /\ raw[r].lease = "live"
    /\ raw' = [raw EXCEPT ![r].lease = "expired"]
    /\ UNCHANGED <<stores, local, outside>>

\* The TTL index deletes any record that has a completed_at.
TtlDelete(r) ==
    /\ raw[r].done /\ raw[r].status # "deleted"
    /\ raw' = [raw EXCEPT ![r].status = "deleted", ![r].lease = "none"]
    /\ UNCHANGED <<stores, local, outside>>

\* The TTL index on alerts_history removes an alert 30 days after it was
\* raised; a dead letter, whose replay may raise it again, has no such limit.
AlertExpires(a) ==
    /\ a \in alerts
    /\ Disturb("expiry")
    /\ alerts' = alerts \ {a}
    /\ expired' = [expired EXCEPT ![a] = @ + 1]
    /\ UNCHANGED <<raw, intel, graph, snapshot, sent, keyHeld, evaluated, local, graphUp>>

GraphFails ==
    /\ graphUp
    /\ Disturb("graph")
    /\ graphUp' = FALSE
    /\ UNCHANGED <<raw, stores, local>>

GraphRecovers ==
    /\ ~graphUp
    /\ graphUp' = TRUE
    /\ UNCHANGED <<raw, stores, local, disturbed, worst>>
-----------------------------------------------------------------------------
Work(w) ==
    \/ ExhaustStaleLeases(w) \/ GraphReady(w)
    \/ (\E r \in Records : Claim(w, r)) \/ ClaimNothing(w)
    \/ CheckContent(w) \/ MarkOversized(w) \/ Analyse(w) \/ InsertIntel(w)
    \/ UpsertGraph(w) \/ ReadWaits(w) \/ MarkWaiting(w)
    \/ (\E k \in Rules : InsertAlert(w, k)) \/ Broadcast(w) \/ AlertsDone(w)
    \/ WriteSnapshot(w) \/ FinishRaw(w) \/ MarkFailed(w)

Trouble(w) ==
    \/ LoopCallFails(w) \/ UpsertFails(w) \/ BroadcastFails(w)
    \/ FinishAckLost(w) \/ CallFails(w) \/ MarkFailedFails(w)
    \/ Crash(w) \/ Stop(w)

Next ==
    \/ \E w \in Workers : Start(w) \/ Work(w) \/ Trouble(w) \/ ReleaseOpenLeases(w)
    \/ \E r \in Records :
          Publish(r) \/ RetryDeadLetter(r) \/ LeaseExpires(r) \/ TtlDelete(r)
    \/ \E a \in Alerts : AlertExpires(a)
    \/ GraphFails \/ GraphRecovers

Spec == Init /\ [][Next]_vars

\* An instance that runs keeps running its loop and is restarted when it went
\* down, leases end, and the graph comes back.  Collection, operators, the TTL
\* monitor and every disturbance are not obliged to happen.
Fairness ==
    /\ \A w \in Workers : WF_vars(Work(w)) /\ WF_vars(Start(w))
                          /\ WF_vars(ReleaseOpenLeases(w))
    /\ \A r \in Records : WF_vars(LeaseExpires(r))
    /\ WF_vars(GraphRecovers)

FairSpec == Spec /\ Fairness
============================================================================
