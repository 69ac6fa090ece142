------------------------- MODULE SoleInstanceProofs -------------------------
(***************************************************************************)
(* What ProcessorProperties promises of a single instance whose final      *)
(* writes are acknowledged, for every set of records, contents and rules,  *)
(* every max_attempts and every other disturbance: crashes and restarts,   *)
(* failing calls, failing writes of the except block, graph outages,       *)
(* shutdowns and operator retries.  The writes name the record and not the *)
(* lease, so two instances overwrite each other's outcome when a lease     *)
(* runs out under a live one; and an instance that hears nothing of its    *)
(* final write makes the record fail over the written outcome.             *)
(*                                                                         *)
(* SoloInv is inductive on top of the invariants of ProcessorProofs.  It   *)
(* says of the record in hand that its sub-document still is as the locals *)
(* of _process_doc have it (HeldOK), of any record what its status implies *)
(* (RecordOK), and of a history of outages and shutdowns that no attempt   *)
(* is spent while nobody has the record in hand (OutageOK).                *)
(***************************************************************************)
EXTENDS ProcessorProofs

\* One instance, and no final write is applied without its acknowledgement.
Sole ==
    /\ \A v, w \in Workers : v = w
    /\ "lost_ack" \notin Disturbances

Resolved == {"completed", "dropped", "deleted"}
AtRest   == {"absent", "pending", "waiting_dependency", "exhausted"}

\* What the sub-document of a record tells.
RecordOK(r) ==
    /\ raw[r].done => raw[r].status \in Resolved
    /\ raw[r].status \in {"processing", "waiting_dependency"} => raw[r].lease # "none"
    /\ raw[r].status = "failed" /\ r \notin Oversized => raw[r].attempts < MaxAttempts
    /\ raw[r].waits > 0 =>
          /\ intel[r] # None
          /\ raw[r].phase = "intel_saved" \/ raw[r].status \in Resolved
          /\ raw[r].status = "completed" => intel[r] \in graph[r]

\* What the locals of _process_doc say of the record in hand.
HeldOK(w) ==
    pc[w] \in DocSteps =>
        /\ \/ raw[Rec(w)].status = "processing"
           \/ pc[w] = "fail" /\ raw[Rec(w)].status = "failed" /\ Rec(w) \in Oversized
        /\ job[w].attempts = raw[Rec(w)].attempts
        /\ job[w].phase = raw[Rec(w)].phase
        /\ pc[w] = "wait" => job[w].waits = raw[Rec(w)].waits
        /\ raw[Rec(w)].waits > 0 =>
              /\ pc[w] \in {"insert", "graph", "waits", "wait"} => job[w].content = intel[Rec(w)]
              /\ pc[w] \in {"alerts", "snapshot", "finish"} => intel[Rec(w)] \in graph[Rec(w)]
              /\ pc[w] # "nlp"
        /\ pc[w] = "oversized" => Rec(w) \in Oversized
        /\ worst = "outage" /\ pc[w] = "fail" => Rec(w) \in Oversized

\* The instance will give the record back.
Busy(w, r) == pc[w] = "stopping" \/ (pc[w] \in DocSteps /\ Rec(w) = r)

\* After nothing worse than outages and shutdowns: the one attempt of a record
\* belongs to the instance that has it in hand or is about to release it.
OutageOK(r) ==
    worst = "outage" =>
        /\ raw[r].status \in AtRest => raw[r].attempts = 0
        /\ raw[r].status = "exhausted" => raw[r].waits >= MaxWaits
        /\ raw[r].status = "processing" =>
              raw[r].attempts = 1 /\ \E w \in Workers : Busy(w, r)
        /\ raw[r].status # "failed"

SoloInv ==
    /\ \A r \in Records : RecordOK(r)
    /\ \A w \in Workers : HeldOK(w)
    /\ \A r \in Records \ Oversized : OutageOK(r)

\* With what ProcessorProofs knows of a reachable state.
SoloBefore == TypeOK /\ AttemptsInv /\ IndexInv /\ SoloInv

\* What Update writes is there afterwards, and nowhere else.
LEMMA Written ==
    ASSUME TypeOK, NEW r \in Records, NEW doc, Update(r, doc), raw[r].status # "deleted"
    PROVE  raw'[r] = doc /\ \A q \in Records \ {r} : raw'[q] = raw[q]
BY DEF TypeOK, Update

\* RecordOK of a record whose sub-document did not change.
LEMMA RecordKept ==
    ASSUME TypeOK, NEW r \in Records, RecordOK(r), raw'[r] = raw[r],
           intel'[r] = intel[r] \/ raw[r].waits = 0, graph[r] \subseteq graph'[r]
    PROVE  RecordOK(r)'
BY DEF RecordOK

\* Worse than an outage stays worse: a history of outages was one before.
LEMMA WorstStays ==
    ASSUME TypeOK, Next, worst' = "outage"
    PROVE  worst = "outage"
BY DEF Next, Start, Work, Trouble, ReleaseOpenLeases, Disturb, outside, TypeOK,
       ExhaustStaleLeases, GraphReady, Claim, ClaimNothing, LoopCallFails, CheckContent,
       MarkOversized, Analyse, InsertIntel, UpsertGraph, UpsertFails, ReadWaits,
       MarkWaiting, InsertAlert, Broadcast, BroadcastFails, AlertsDone, WriteSnapshot,
       FinishRaw, FinishAckLost, CallFails, MarkFailed, MarkFailedFails, Crash, Stop,
       Publish, RetryDeadLetter, LeaseExpires, TtlDelete, GraphFails, GraphRecovers,
       AlertExpires

\* A step of the only instance that writes no sub-document.
LEMMA SoloQuiet ==
    ASSUME Sole, SoloBefore, NEW w \in Workers, Step(w), raw' = raw,
           \A r \in Records : intel'[r] = intel[r] \/ raw[r].waits = 0,
           HeldOK(w)',
           \A r \in Records \ Oversized :
               worst' = "outage" /\ raw[r].status = "processing" /\ Busy(w, r) => Busy(w, r)'
    PROVE  SoloInv'
<1>1. \A r \in Records : RecordOK(r)'
  BY RecordKept, StepGrows DEF SoloBefore, SoloInv, StoresGrow
<1>2. worst' = "outage" => worst = "outage"
  BY WorstStays, NextCases DEF SoloBefore
<1>3. ASSUME NEW r \in Records \ Oversized PROVE OutageOK(r)'
  BY <1>2 DEF SoloBefore, SoloInv, OutageOK, Sole
<1> QED
  BY <1>1, <1>3 DEF SoloInv, Sole

\* A quiet step from one place of _process_doc to the next.
LEMMA SoloDoc ==
    ASSUME Sole, SoloBefore, NEW w \in Workers, Step(w), raw' = raw,
           pc[w] \in DocSteps \ {"fail"}, pc'[w] \in DocSteps,
           job'[w].rec = job[w].rec, job'[w].attempts = job[w].attempts,
           job'[w].phase = job[w].phase,
           \A r \in Records : intel'[r] = intel[r] \/ raw[r].waits = 0,
           pc'[w] = "wait" => job'[w].waits = raw[Rec(w)].waits,
           raw[Rec(w)].waits > 0 =>
              /\ pc'[w] \in {"insert", "graph", "waits", "wait"}
                    => job'[w].content = intel'[Rec(w)]
              /\ pc'[w] \in {"alerts", "snapshot", "finish"}
                    => intel'[Rec(w)] \in graph'[Rec(w)]
              /\ pc'[w] # "nlp",
           pc'[w] = "oversized" => Rec(w) \in Oversized,
           worst' = "outage" => pc'[w] # "fail"
    PROVE  SoloInv'
<1>1. Rec(w)' = Rec(w) /\ raw[Rec(w)].status = "processing"
  BY DEF Rec, SoloBefore, SoloInv, HeldOK
<1>2. HeldOK(w)'
  BY <1>1 DEF HeldOK, SoloBefore, SoloInv
<1>3. \A r \in Records : Busy(w, r) => Busy(w, r)'
  BY <1>1 DEF Busy, DocSteps
<1> QED
  BY <1>2, <1>3, SoloQuiet

\* A quiet step that takes the instance out of, or around, its loop.
LEMMA SoloLoop ==
    ASSUME Sole, SoloBefore, NEW w \in Workers, Step(w), raw' = raw, intel' = intel,
           pc'[w] \notin DocSteps,
           \/ pc[w] \notin DocSteps \cup {"stopping"}
           \/ pc'[w] = "stopping"
           \/ worst' # "outage"
    PROVE  SoloInv'
BY SoloQuiet DEF HeldOK, Busy

\* The steps around a record: start-up, an empty claim, a failing call of the
\* loop, a crash, a shutdown, the failing write of the except block.
LEMMA SoloAround ==
    ASSUME Sole, SoloBefore, NEW w \in Workers,
           \/ Start(w) \/ GraphReady(w) \/ ClaimNothing(w) \/ LoopCallFails(w)
           \/ Crash(w) \/ Stop(w) \/ MarkFailedFails(w)
    PROVE  SoloInv'
<1>1. Step(w) /\ raw' = raw /\ intel' = intel
  BY DEF Step, Work, Trouble, Start, GraphReady, ClaimNothing, LoopCallFails, Crash, Stop,
         MarkFailedFails, stores
<1>2. pc \in [Workers -> LoopSteps \cup DocSteps]
  BY DEF SoloBefore, TypeOK
<1>3. pc'[w] \in LoopSteps /\ pc'[w] \notin DocSteps
  BY <1>2 DEF Start, GraphReady, ClaimNothing, LoopCallFails, Crash, Stop,
         MarkFailedFails, Goto, Leave, LoopSteps, DocSteps
<1>4. \/ pc[w] \notin DocSteps \cup {"stopping"}
      \/ pc'[w] = "stopping"
      \/ worst' # "outage"
  BY <1>2 DEF Start, GraphReady, ClaimNothing, LoopCallFails, Crash, Stop,
         MarkFailedFails, Goto, Leave, DocSteps, Disturb, OutageKinds
<1> QED
  BY <1>1, <1>3, <1>4, SoloLoop

\* The checks on the content, the resumption of a saved record among them.
LEMMA SoloCheck ==
    ASSUME Sole, SoloBefore, NEW w \in Workers, CheckContent(w)
    PROVE  SoloInv'
<1> USE DEF Proceed, Goto, Rec
<1>0. TypeOK /\ Step(w) /\ UNCHANGED <<raw, intel, graph>> /\ pc[w] = "check"
  BY DEF SoloBefore, Step, Work, CheckContent, stores
<1>1. /\ pc \in [Workers -> LoopSteps \cup DocSteps] /\ job \in [Workers -> JobType]
      /\ Rec(w) \in Records /\ HeldOK(w) /\ RecordOK(Rec(w))
  BY <1>0 DEF SoloBefore, SoloInv, TypeOK, LocalsOK, DocSteps
<1>2. raw[Rec(w)].waits > 0 => Resumable(w)
  BY <1>0, <1>1 DEF RecordOK, HeldOK, Resumable, Resolved, DocSteps
<1>3. /\ job'[w].rec = job[w].rec /\ job'[w].attempts = job[w].attempts
      /\ job'[w].phase = job[w].phase
      /\ pc'[w] \in {"drop", "oversized", "insert", "nlp"}
      /\ pc'[w] = "insert" => job'[w].content = intel[Rec(w)]
      /\ pc'[w] = "nlp" => ~Resumable(w)
      /\ pc'[w] = "oversized" => Rec(w) \in Oversized
  BY <1>1 DEF CheckContent, JobType
<1> QED
  BY <1>0, <1>1, <1>2, <1>3, SoloDoc DEF DocSteps

\* The analysis is only reached by a record that never waited.
LEMMA SoloAnalysis ==
    ASSUME Sole, SoloBefore, NEW w \in Workers, Analyse(w)
    PROVE  SoloInv'
<1> USE DEF Proceed, Goto, Rec
<1>0. TypeOK /\ Step(w) /\ UNCHANGED <<raw, intel, graph>> /\ pc[w] = "nlp"
  BY DEF SoloBefore, Step, Work, Analyse, stores
<1>1. /\ pc \in [Workers -> LoopSteps \cup DocSteps] /\ job \in [Workers -> JobType]
      /\ ~(raw[Rec(w)].waits > 0)
  BY <1>0 DEF SoloBefore, SoloInv, TypeOK, HeldOK, DocSteps
<1>2. /\ job'[w].rec = job[w].rec /\ job'[w].attempts = job[w].attempts
      /\ job'[w].phase = job[w].phase
      /\ pc'[w] \in {"drop", "insert"}
  BY <1>1 DEF Analyse, JobType
<1> QED
  BY <1>0, <1>1, <1>2, SoloDoc DEF DocSteps

\* The insert leaves the first document in place and hands it on.
LEMMA SoloInsert ==
    ASSUME Sole, SoloBefore, NEW w \in Workers, InsertIntel(w)
    PROVE  SoloInv'
<1> USE DEF Proceed, Goto, Rec
<1>0. /\ TypeOK /\ Step(w) /\ UNCHANGED <<raw, graph, job>>
      /\ pc[w] = "insert" /\ pc'[w] = "graph"
  BY DEF SoloBefore, Step, Work, InsertIntel, TypeOK
<1>1. /\ Rec(w) \in Records /\ HeldOK(w) /\ RecordOK(Rec(w))
      /\ raw[Rec(w)] \in RawType /\ intel \in [Records -> Contents \cup {None}]
  BY <1>0 DEF SoloBefore, SoloInv, TypeOK, LocalsOK, DocSteps
<1>2. raw[Rec(w)].waits \in Nat
  BY <1>1 DEF RawType
<1>3. intel[Rec(w)] = None => raw[Rec(w)].waits = 0
  BY <1>1, <1>2 DEF RecordOK
<1>4. \A r \in Records : intel'[r] = intel[r] \/ raw[r].waits = 0
  BY <1>1, <1>3 DEF InsertIntel
<1>5. raw[Rec(w)].waits > 0 => job'[w].content = intel'[Rec(w)]
  BY <1>0, <1>1, <1>4 DEF HeldOK, DocSteps
<1> QED
  BY <1>0, <1>1, <1>4, <1>5, SoloDoc DEF DocSteps

\* The graph takes the document at hand, or fails: the record then waits.
LEMMA SoloUpsert ==
    ASSUME Sole, SoloBefore, NEW w \in Workers, UpsertGraph(w) \/ UpsertFails(w)
    PROVE  SoloInv'
<1> USE DEF Proceed, Goto, Rec
<1>0. /\ TypeOK /\ Step(w) /\ UNCHANGED <<raw, intel>> /\ pc[w] = "graph"
  BY DEF SoloBefore, Step, Work, Trouble, UpsertGraph, UpsertFails
<1>1. /\ Rec(w) \in Records /\ HeldOK(w) /\ job \in [Workers -> JobType]
      /\ pc \in [Workers -> LoopSteps \cup DocSteps]
      /\ graph \in [Records -> SUBSET Contents]
  BY <1>0 DEF SoloBefore, SoloInv, TypeOK, LocalsOK, DocSteps
<1>2. CASE pc'[w] = "alerts"
  <2>1. UpsertGraph(w) /\ graphUp
    BY <1>1, <1>2 DEF UpsertGraph, UpsertFails
  <2>2. job[w].content \in graph'[Rec(w)]
    BY <1>1, <2>1 DEF UpsertGraph
  <2>3. /\ job'[w].rec = job[w].rec /\ job'[w].attempts = job[w].attempts
        /\ job'[w].phase = job[w].phase
    BY <1>1, <2>1 DEF UpsertGraph, JobType
  <2> QED
    BY <1>0, <1>1, <1>2, <2>2, <2>3, SoloDoc DEF DocSteps, HeldOK
<1>3. CASE pc'[w] # "alerts"
  <2>1. pc'[w] = "waits" /\ job' = job
    BY <1>1, <1>3 DEF UpsertGraph, UpsertFails
  <2> QED
    BY <1>0, <1>1, <2>1, SoloDoc DEF DocSteps, HeldOK
<1> QED
  BY <1>2, <1>3

\* The read of the wait counter before the write that raises it.
LEMMA SoloReadWaits ==
    ASSUME Sole, SoloBefore, NEW w \in Workers, ReadWaits(w)
    PROVE  SoloInv'
<1> USE DEF Proceed, Goto, Rec
<1>0. /\ TypeOK /\ Step(w) /\ UNCHANGED <<raw, intel, graph>>
      /\ pc[w] = "waits"
  BY DEF SoloBefore, Step, Work, ReadWaits, stores
<1>1. /\ Rec(w) \in Records /\ HeldOK(w) /\ job \in [Workers -> JobType]
      /\ pc \in [Workers -> LoopSteps \cup DocSteps]
  BY <1>0 DEF SoloBefore, SoloInv, TypeOK, LocalsOK, DocSteps
<1>2. raw[Rec(w)].status = "processing"
  BY <1>0, <1>1 DEF HeldOK, DocSteps
<1>3. /\ pc'[w] = "wait" /\ job'[w].waits = raw[Rec(w)].waits
      /\ job'[w].rec = job[w].rec /\ job'[w].attempts = job[w].attempts
      /\ job'[w].phase = job[w].phase /\ job'[w].content = job[w].content
  BY <1>1, <1>2 DEF ReadWaits, JobType
<1> QED
  BY <1>0, <1>1, <1>3, SoloDoc DEF DocSteps, HeldOK

\* The steps between the graph and the final write.
LEMMA SoloAlerts ==
    ASSUME Sole, SoloBefore, NEW w \in Workers,
           \/ \E k \in Rules : InsertAlert(w, k)
           \/ Broadcast(w) \/ BroadcastFails(w) \/ AlertsDone(w) \/ WriteSnapshot(w)
    PROVE  SoloInv'
<1> USE DEF Proceed, Goto, Rec
<1>0. /\ TypeOK /\ Step(w) /\ UNCHANGED <<raw, intel, graph>>
      /\ pc[w] \in {"alerts", "snapshot"}
  BY DEF SoloBefore, Step, Work, Trouble, InsertAlert, Broadcast, BroadcastFails,
         AlertsDone, WriteSnapshot, stores
<1>1. /\ Rec(w) \in Records /\ HeldOK(w) /\ job \in [Workers -> JobType]
      /\ pc \in [Workers -> LoopSteps \cup DocSteps]
  BY <1>0 DEF SoloBefore, SoloInv, TypeOK, LocalsOK, DocSteps
<1>2. pc'[w] \in {"alerts", "snapshot", "finish"}
  BY <1>1 DEF InsertAlert, Broadcast, BroadcastFails, AlertsDone, WriteSnapshot
<1>3. /\ job'[w].rec = job[w].rec /\ job'[w].attempts = job[w].attempts
      /\ job'[w].phase = job[w].phase
  <2>1. ASSUME NEW k \in Rules, InsertAlert(w, k)
        PROVE  /\ job'[w].rec = job[w].rec /\ job'[w].attempts = job[w].attempts
               /\ job'[w].phase = job[w].phase
    BY <1>1, <2>1 DEF InsertAlert, JobType
  <2>2. CASE Broadcast(w) \/ BroadcastFails(w)
    BY <1>1, <2>2 DEF Broadcast, BroadcastFails, JobType
  <2>3. CASE AlertsDone(w) \/ WriteSnapshot(w)
    BY <2>3 DEF AlertsDone, WriteSnapshot
  <2> QED
    BY <2>1, <2>2, <2>3
<1> QED
  BY <1>0, <1>1, <1>2, <1>3, SoloDoc DEF DocSteps, HeldOK

\* A failing call costs an attempt; no outage is blamed for it.
LEMMA SoloCallFails ==
    ASSUME Sole, SoloBefore, NEW w \in Workers, CallFails(w)
    PROVE  SoloInv'
<1>1. /\ Step(w) /\ UNCHANGED <<raw, intel, graph, job>> /\ worst' # "outage"
      /\ pc[w] \in DocSteps \ {"fail"} /\ pc'[w] = "fail"
  BY DEF SoloBefore, TypeOK, Step, Trouble, CallFails, Disturb, OutageKinds, stores, Goto
<1> QED
  BY <1>1, SoloDoc DEF DocSteps

\* A step that writes the sub-document of one record, q, and no store.  Nobody
\* holds another record, before or after.
LEMMA SoloWrite ==
    ASSUME Sole, SoloBefore, NEW w \in Workers, Step(w), NEW q \in Records,
           \A r \in Records \ {q} : raw'[r] = raw[r],
           UNCHANGED <<intel, graph, worst>>,
           pc[w] = "claim" \/ (pc[w] \in DocSteps /\ Rec(w) = q),
           RecordOK(q)', HeldOK(w)', q \notin Oversized => OutageOK(q)'
    PROVE  SoloInv'
<1>1. \A r \in Records : RecordOK(r)'
  BY RecordKept DEF SoloBefore, SoloInv
<1>2. ASSUME NEW r \in Records \ Oversized, r # q PROVE OutageOK(r)'
  <2>1. \A v \in Workers : ~Busy(v, r)
    BY <1>2 DEF Sole, Busy, DocSteps
  <2> QED
    BY <1>2, <2>1 DEF OutageOK, SoloBefore, SoloInv
<1> QED
  BY <1>1, <1>2 DEF SoloInv, Sole

\* A claim puts a record in hand that nobody had.
LEMMA SoloClaim ==
    ASSUME Sole, SoloBefore, NEW w \in Workers, NEW q \in Records, Claim(w, q)
    PROVE  SoloInv'
<1>0. /\ TypeOK /\ Step(w) /\ UNCHANGED <<intel, graph, worst>> /\ pc[w] = "claim"
      /\ pc \in [Workers -> LoopSteps \cup DocSteps] /\ job \in [Workers -> JobType]
      /\ raw \in [Records -> RawType] /\ Claimable(q)
  BY DEF SoloBefore, TypeOK, Step, Work, Claim, stores, outside
<1>1. /\ RecordOK(q) /\ (q \notin Oversized => OutageOK(q))
  BY DEF SoloBefore, SoloInv
<1>2. /\ raw'[q].status = "processing" /\ raw'[q].lease = "live"
      /\ raw'[q].attempts = raw[q].attempts + 1 /\ raw'[q].phase = raw[q].phase
      /\ raw'[q].waits = raw[q].waits /\ raw'[q].done = raw[q].done
  BY <1>0 DEF Claim, RawType
<1>3. \A r \in Records \ {q} : raw'[r] = raw[r]
  BY <1>0 DEF Claim
<1>4. /\ pc'[w] = "check" /\ job'[w].rec = q
      /\ job'[w].attempts = raw'[q].attempts /\ job'[w].phase = raw'[q].phase
  BY <1>0, <1>2 DEF Claim, NoJob, Goto
<1>5. raw[q].status \notin Resolved /\ raw[q].status \in Open
  BY <1>0 DEF Claimable, Resolved, Open
<1>6. RecordOK(q)'
  BY <1>0, <1>1, <1>2, <1>5 DEF RecordOK
<1>7. HeldOK(w)'
  BY <1>2, <1>4 DEF HeldOK, Rec
<1>8. ASSUME q \notin Oversized PROVE OutageOK(q)'
  <2>1. Busy(w, q)'
    BY <1>4 DEF Busy, Rec, DocSteps
  <2>2. \A v \in Workers : ~Busy(v, q)
    BY <1>0 DEF Sole, Busy, DocSteps
  <2>3. worst = "outage" => raw[q].attempts = 0
    BY <1>1, <1>5, <1>8, <2>2 DEF OutageOK, Open, AtRest
  <2> QED
    BY <1>0, <1>2, <2>1, <2>3 DEF OutageOK, AtRest
<1> QED
  BY <1>0, <1>3, <1>6, <1>7, <1>8, SoloWrite

\* What the sole instance knows of the record in hand before it writes to it.
LEMMA InHandFacts ==
    ASSUME SoloBefore, NEW w \in Workers, pc[w] \in DocSteps
    PROVE  /\ TypeOK /\ Rec(w) \in Records /\ raw[Rec(w)] \in RawType
           /\ job[w] \in JobType
           /\ HeldOK(w) /\ RecordOK(Rec(w))
           /\ Rec(w) \notin Oversized => OutageOK(Rec(w))
           /\ raw[Rec(w)].status \notin Resolved /\ ~raw[Rec(w)].done
           /\ raw[Rec(w)].status # "deleted"
<1>1. TypeOK /\ Rec(w) \in Records
  BY DEF SoloBefore, TypeOK, LocalsOK, Rec
<1>2. HeldOK(w) /\ RecordOK(Rec(w)) /\ (Rec(w) \notin Oversized => OutageOK(Rec(w)))
  BY <1>1 DEF SoloBefore, SoloInv
<1>3. raw[Rec(w)].status \in {"processing", "failed"}
  BY <1>2 DEF HeldOK
<1>4. raw[Rec(w)].status \notin Resolved
  BY <1>3 DEF Resolved
<1> QED
  BY <1>1, <1>2, <1>3, <1>4 DEF RecordOK, TypeOK

\* The oversize write, with the except block still to come.
LEMMA SoloOversized ==
    ASSUME Sole, SoloBefore, NEW w \in Workers, MarkOversized(w)
    PROVE  SoloInv'
<1>0. /\ Step(w) /\ UNCHANGED <<intel, graph, worst, job>>
      /\ pc[w] = "oversized" /\ pc'[w] = "fail" /\ pc[w] \in DocSteps
  BY DEF SoloBefore, TypeOK, Step, Work, MarkOversized, stores, outside, Proceed, Goto,
         DocSteps
<1>9. PICK q \in Records : q = Rec(w)
  BY <1>0, InHandFacts
<1>1. /\ TypeOK /\ q = Rec(w) /\ raw[q] \in RawType /\ HeldOK(w) /\ RecordOK(q)
      /\ ~raw[q].done /\ raw[q].status # "deleted" /\ raw[q].status \notin Resolved
  BY <1>0, <1>9, InHandFacts
<1>2. /\ raw'[q] = [raw[q] EXCEPT !.status = "failed", !.lease = "none"]
      /\ \A r \in Records \ {q} : raw'[r] = raw[r]
  BY <1>1, Written DEF MarkOversized
<1>3. /\ raw'[q].status = "failed" /\ raw'[q].attempts = raw[q].attempts
      /\ raw'[q].phase = raw[q].phase /\ raw'[q].waits = raw[q].waits
      /\ raw'[q].done = raw[q].done
  BY <1>1, <1>2 DEF RawType
<1>4. q \in Oversized
  BY <1>0, <1>1 DEF HeldOK
<1>5. RecordOK(q)'
  BY <1>0, <1>1, <1>3, <1>4 DEF RecordOK
<1>6. HeldOK(w)'
  BY <1>0, <1>1, <1>3, <1>4 DEF HeldOK, Rec
<1> QED
  BY <1>0, <1>1, <1>2, <1>4, <1>5, <1>6, SoloWrite

\* A record waits for the graph, and gives its attempt back.
LEMMA SoloWaiting ==
    ASSUME Sole, SoloBefore, NEW w \in Workers, MarkWaiting(w)
    PROVE  SoloInv'
<1> DEFINE last == job[w].waits + 1 >= MaxWaits
           st == IF last THEN "exhausted" ELSE "waiting_dependency"
           ls == IF last THEN "none" ELSE "live"
<1>0. /\ Step(w) /\ UNCHANGED <<intel, graph, worst>>
      /\ pc[w] = "wait" /\ pc'[w] = "top" /\ pc[w] \in DocSteps /\ pc'[w] \notin DocSteps
  BY DEF SoloBefore, TypeOK, Step, Work, MarkWaiting, stores, outside, Leave, Goto,
         DocSteps
<1>9. PICK q \in Records : q = Rec(w)
  BY <1>0, InHandFacts
<1>1. /\ TypeOK /\ q = Rec(w) /\ raw[q] \in RawType /\ HeldOK(w) /\ RecordOK(q)
      /\ ~raw[q].done /\ raw[q].status # "deleted"
      /\ q \notin Oversized => OutageOK(q)
  BY <1>0, <1>9, InHandFacts
<1>2. /\ raw'[q] = [raw[q] EXCEPT !.status = st, !.phase = "intel_saved", !.lease = ls,
                                  !.attempts = raw[q].attempts - 1,
                                  !.waits = raw[q].waits + 1]
      /\ \A r \in Records \ {q} : raw'[r] = raw[r]
  BY <1>1, Written DEF MarkWaiting
<1>3. /\ raw'[q].status = st /\ raw'[q].attempts = raw[q].attempts - 1
      /\ raw'[q].phase = "intel_saved" /\ raw'[q].waits = raw[q].waits + 1
      /\ raw'[q].done = raw[q].done /\ raw'[q].lease = ls
  BY <1>1, <1>2 DEF RawType
<1>4. raw[q].status = "processing" /\ job[w].waits = raw[q].waits
  BY <1>0, <1>1 DEF HeldOK
<1>5. intel[q] # None
  BY <1>0, <1>9 DEF SoloBefore, IndexInv, Progress
<1>6. RecordOK(q)'
  BY <1>0, <1>1, <1>3, <1>5 DEF RecordOK
<1>7. ASSUME q \notin Oversized PROVE OutageOK(q)'
  <2>1. worst = "outage" => raw[q].attempts = 1
    BY <1>1, <1>4, <1>7 DEF OutageOK
  <2> QED
    BY <1>0, <1>3, <1>4, <2>1 DEF OutageOK, AtRest
<1> QED
  BY <1>0, <1>1, <1>2, <1>6, <1>7, SoloWrite DEF HeldOK

\* The two final writes of a record in hand.
LEMMA SoloFinish ==
    ASSUME Sole, SoloBefore, NEW w \in Workers, FinishRaw(w)
    PROVE  SoloInv'
<1> DEFINE st == IF pc[w] = "drop" THEN "dropped" ELSE "completed"
<1>0. /\ Step(w) /\ UNCHANGED <<intel, graph, worst>>
      /\ pc[w] \in {"finish", "drop"} /\ pc'[w] = "top"
      /\ pc[w] \in DocSteps /\ pc'[w] \notin DocSteps
  BY DEF SoloBefore, TypeOK, Step, Work, FinishRaw, stores, outside, Leave, Goto,
         DocSteps
<1>9. PICK q \in Records : q = Rec(w)
  BY <1>0, InHandFacts
<1>1. /\ TypeOK /\ q = Rec(w) /\ raw[q] \in RawType /\ HeldOK(w) /\ RecordOK(q)
      /\ raw[q].status # "deleted"
  BY <1>0, <1>9, InHandFacts
<1>2. /\ raw'[q] = [raw[q] EXCEPT !.status = st, !.done = TRUE, !.lease = "none",
                                  !.phase = "completed"]
      /\ \A r \in Records \ {q} : raw'[r] = raw[r]
  BY <1>1, Written DEF FinishRaw, Finished
<1>3. raw'[q].status = st /\ raw'[q].waits = raw[q].waits
  BY <1>1, <1>2 DEF RawType
<1>4. raw[q].waits > 0 => intel[q] # None /\ (st = "completed" => intel[q] \in graph[q])
  BY <1>0, <1>1 DEF HeldOK, RecordOK
<1>5. st \in Resolved /\ st \in {"dropped", "completed"}
  BY DEF Resolved
<1>6. RecordOK(q)'
  BY <1>0, <1>3, <1>4, <1>5 DEF RecordOK
<1>7. OutageOK(q)'
  BY <1>3, <1>5 DEF OutageOK, AtRest
<1> QED
  BY <1>0, <1>1, <1>2, <1>6, <1>7, SoloWrite DEF HeldOK

\* The write of the except block.
LEMMA SoloFailed ==
    ASSUME Sole, SoloBefore, NEW w \in Workers, MarkFailed(w)
    PROVE  SoloInv'
<1> DEFINE st == IF job[w].attempts >= MaxAttempts THEN "exhausted" ELSE "failed"
<1>0. /\ Step(w) /\ UNCHANGED <<intel, graph, worst>>
      /\ pc[w] = "fail" /\ pc'[w] = "top"
      /\ pc[w] \in DocSteps /\ pc'[w] \notin DocSteps
  BY DEF SoloBefore, TypeOK, Step, Work, MarkFailed, stores, outside, Leave, Goto,
         DocSteps
<1>9. PICK q \in Records : q = Rec(w)
  BY <1>0, InHandFacts
<1>1. /\ TypeOK /\ q = Rec(w) /\ raw[q] \in RawType /\ HeldOK(w) /\ RecordOK(q)
      /\ ~raw[q].done /\ raw[q].status # "deleted" /\ raw[q].status \notin Resolved
  BY <1>0, <1>9, InHandFacts
<1>2. /\ raw'[q] = [raw[q] EXCEPT !.status = st, !.lease = "none"]
      /\ \A r \in Records \ {q} : raw'[r] = raw[r]
  BY <1>1, Written DEF MarkFailed
<1>3. /\ raw'[q].status = st /\ raw'[q].attempts = raw[q].attempts
      /\ raw'[q].phase = raw[q].phase /\ raw'[q].waits = raw[q].waits
      /\ raw'[q].done = raw[q].done
  BY <1>1, <1>2 DEF RawType
<1>4. st = "failed" => raw[q].attempts < MaxAttempts
  BY <1>0, <1>1, ConstantsOK DEF HeldOK, RawType
<1>5. st \in {"exhausted", "failed"}
  OBVIOUS
<1>6. RecordOK(q)'
  BY <1>0, <1>1, <1>3, <1>4, <1>5 DEF RecordOK
<1>7. q \notin Oversized => worst # "outage"
  BY <1>0, <1>1 DEF HeldOK
<1> QED
  BY <1>0, <1>1, <1>2, <1>6, <1>7, SoloWrite DEF HeldOK, OutageOK

\* The two writes to many records: both find no record of a document in hand.
LEMMA SoloSweep ==
    ASSUME Sole, SoloBefore, NEW w \in Workers,
           ExhaustStaleLeases(w) \/ ReleaseOpenLeases(w)
    PROVE  SoloInv'
<1>0. /\ UNCHANGED <<intel, graph, worst>> /\ raw \in [Records -> RawType]
      /\ pc[w] \in {"top", "stopping"} /\ pc'[w] \notin DocSteps
  BY DEF SoloBefore, TypeOK, ExhaustStaleLeases, ReleaseOpenLeases, stores, outside,
         Proceed, Goto, DocSteps
<1>1. ASSUME NEW r \in Records
      PROVE  /\ raw'[r].done = raw[r].done /\ raw'[r].phase = raw[r].phase
             /\ raw'[r].waits = raw[r].waits
             /\ \/ raw'[r] = raw[r]
                \/ /\ ExhaustStaleLeases(w) /\ raw[r].status = "processing"
                   /\ raw'[r].status = "exhausted"
                \/ /\ ReleaseOpenLeases(w) /\ raw[r].status = "processing"
                   /\ raw'[r].status = "pending"
                   /\ raw'[r].attempts = raw[r].attempts - 1
             /\ ReleaseOpenLeases(w) => raw'[r].status # "processing"
  <2>1. raw[r] \in RawType
    BY <1>0
  <2>2. CASE ExhaustStaleLeases(w) /\ r \in Stale
    <3>1. raw'[r] = [raw[r] EXCEPT !.status = "exhausted", !.lease = "none"]
      BY <2>2 DEF ExhaustStaleLeases
    <3>2. raw[r].status = "processing" /\ ~ReleaseOpenLeases(w)
      BY <2>2 DEF Stale, ExhaustStaleLeases, ReleaseOpenLeases, Proceed
    <3> QED
      BY <2>1, <2>2, <3>1, <3>2 DEF RawType
  <2>3. CASE ExhaustStaleLeases(w) /\ r \notin Stale
    <3>1. raw'[r] = raw[r] /\ ~ReleaseOpenLeases(w)
      BY <2>3 DEF ExhaustStaleLeases, ReleaseOpenLeases, Proceed
    <3> QED
      BY <3>1
  <2>4. CASE ReleaseOpenLeases(w) /\ raw[r].status = "processing"
    <3>1. raw'[r] = [raw[r] EXCEPT !.status = "pending", !.lease = "none",
                                   !.attempts = raw[r].attempts - 1]
      BY <2>4 DEF ReleaseOpenLeases
    <3>2. /\ raw'[r].status = "pending" /\ raw'[r].attempts = raw[r].attempts - 1
          /\ raw'[r].done = raw[r].done /\ raw'[r].phase = raw[r].phase
          /\ raw'[r].waits = raw[r].waits
      BY <2>1, <3>1 DEF RawType
    <3> QED
      BY <2>4, <3>2
  <2>5. CASE ReleaseOpenLeases(w) /\ raw[r].status # "processing"
    <3>1. raw'[r] = raw[r]
      BY <2>5 DEF ReleaseOpenLeases
    <3> QED
      BY <2>5, <3>1
  <2> QED
    BY <2>2, <2>3, <2>4, <2>5
<1>2. ASSUME NEW r \in Records PROVE RecordOK(r)'
  BY <1>0, <1>1 DEF SoloBefore, SoloInv, RecordOK, Resolved
<1>3. ASSUME NEW r \in Records \ Oversized PROVE OutageOK(r)'
  <2>1. OutageOK(r) /\ raw[r].attempts \in Int
    BY <1>0 DEF SoloBefore, SoloInv, RawType
  <2>2. CASE ExhaustStaleLeases(w)
    <3>1. worst = "outage" => raw[r].status # "processing"
      BY <2>1, <2>2 DEF OutageOK, Busy, Sole, ExhaustStaleLeases, Proceed, DocSteps
    <3> QED
      BY <1>0, <1>1, <2>1, <2>2, <3>1
         DEF OutageOK, ExhaustStaleLeases, ReleaseOpenLeases, Proceed
  <2>3. CASE ReleaseOpenLeases(w)
    <3>1. raw'[r].status # "processing" /\ ~ExhaustStaleLeases(w)
      BY <1>1, <2>3 DEF ExhaustStaleLeases, ReleaseOpenLeases, Proceed
    <3>2. CASE raw'[r] = raw[r]
      BY <1>0, <2>1, <3>1, <3>2 DEF OutageOK
    <3>3. CASE /\ raw[r].status = "processing" /\ raw'[r].status = "pending"
               /\ raw'[r].attempts = raw[r].attempts - 1
      BY <1>0, <2>1, <3>3 DEF OutageOK
    <3> QED
      BY <1>1, <3>1, <3>2, <3>3
  <2> QED
    BY <2>2, <2>3
<1> QED
  BY <1>0, <1>2, <1>3 DEF SoloInv, Sole, HeldOK

\* Every step of an instance, together.
LEMMA SoloStep ==
    ASSUME Sole, SoloBefore, NEW w \in Workers, Step(w)
    PROVE  SoloInv'
<1>1. ~FinishAckLost(w)
  BY DEF Sole, FinishAckLost, Disturb
<1> QED
  BY <1>1, SoloAround, SoloCheck, SoloAnalysis, SoloInsert, SoloUpsert, SoloReadWaits,
     SoloAlerts, SoloCallFails, SoloClaim, SoloOversized, SoloWaiting, SoloFinish,
     SoloFailed, SoloSweep
     DEF Step, Work, Trouble

\* The four writes that come from outside: none of them finds the record in hand.
LEMMA SoloOutside ==
    ASSUME Sole, SoloBefore, NEW q \in Records,
           Publish(q) \/ RetryDeadLetter(q) \/ LeaseExpires(q) \/ TtlDelete(q)
    PROVE  SoloInv'
<1>0. /\ UNCHANGED <<intel, graph, pc, job>> /\ raw \in [Records -> RawType]
      /\ raw[q] \in RawType /\ TypeOK
      /\ worst' = worst
  BY DEF SoloBefore, TypeOK, Publish, RetryDeadLetter, LeaseExpires, TtlDelete, stores,
         local, outside, Disturb, OutageKinds
<1>1. \A r \in Records \ {q} : raw'[r] = raw[r]
  BY <1>0 DEF Publish, RetryDeadLetter, LeaseExpires, TtlDelete
<1>2. /\ raw'[q].done = raw[q].done /\ raw'[q].phase = raw[q].phase
      /\ raw'[q].waits = raw[q].waits
      /\ \/ /\ raw[q].status = "absent" /\ raw'[q].status = "pending"
            /\ raw'[q].attempts = raw[q].attempts
         \/ /\ raw[q].status = "exhausted" /\ raw'[q].status = "pending"
            /\ raw'[q].attempts = 0
         \/ /\ raw'[q].status = raw[q].status /\ raw'[q].attempts = raw[q].attempts
            /\ raw[q].lease # "none" /\ raw'[q].lease = "expired"
         \/ /\ raw[q].done /\ raw'[q].status = "deleted"
            /\ raw'[q].attempts = raw[q].attempts
  <2>1. CASE Publish(q)
    <3>1. raw'[q] = [raw[q] EXCEPT !.status = "pending"] /\ raw[q].status = "absent"
      BY <1>0, <2>1 DEF Publish
    <3> QED
      BY <1>0, <3>1 DEF RawType
  <2>2. CASE RetryDeadLetter(q)
    <3>1. /\ raw'[q] = [raw[q] EXCEPT !.status = "pending", !.attempts = 0]
          /\ raw[q].status = "exhausted"
      BY <1>0, <2>2 DEF RetryDeadLetter
    <3> QED
      BY <1>0, <3>1 DEF RawType
  <2>3. CASE LeaseExpires(q)
    <3>1. raw'[q] = [raw[q] EXCEPT !.lease = "expired"] /\ raw[q].lease # "none"
      BY <1>0, <2>3 DEF LeaseExpires
    <3> QED
      BY <1>0, <3>1 DEF RawType
  <2>4. CASE TtlDelete(q)
    <3>1. raw'[q] = [raw[q] EXCEPT !.status = "deleted", !.lease = "none"] /\ raw[q].done
      BY <1>0, <2>4 DEF TtlDelete
    <3> QED
      BY <1>0, <3>1 DEF RawType
  <2> QED
    BY <2>1, <2>2, <2>3, <2>4
<1>3. RecordOK(q) /\ (q \notin Oversized => OutageOK(q))
  BY DEF SoloBefore, SoloInv
<1>4. \A r \in Records : RecordOK(r)'
  <2>1. ASSUME NEW r \in Records, r # q PROVE RecordOK(r)'
    BY <1>0, <1>1, <2>1, RecordKept DEF SoloBefore, SoloInv
  <2>2. RecordOK(q)'
    BY <1>0, <1>2, <1>3 DEF RecordOK, Resolved
  <2> QED
    BY <2>1, <2>2
<1>5. ASSUME NEW v \in Workers PROVE HeldOK(v)'
  <2>1. HeldOK(v) /\ (pc[v] \in DocSteps => Rec(v) \in Records) /\ Rec(v)' = Rec(v)
    BY <1>0 DEF SoloBefore, SoloInv, TypeOK, LocalsOK, Rec
  <2>2. CASE pc[v] \notin DocSteps
    BY <1>0, <2>2 DEF HeldOK
  <2>3. CASE pc[v] \in DocSteps /\ Rec(v) # q
    <3>1. raw'[Rec(v)] = raw[Rec(v)]
      BY <1>1, <2>1, <2>3
    <3> QED
      BY <1>0, <2>1, <2>3, <3>1 DEF HeldOK
  <2>4. CASE pc[v] \in DocSteps /\ Rec(v) = q
    <3>1. raw[q].status \in {"processing", "failed"}
      BY <2>1, <2>4 DEF HeldOK
    <3>2. ~raw[q].done
      BY <1>3, <3>1 DEF RecordOK, Resolved
    <3>3. /\ raw'[q].status = raw[q].status /\ raw'[q].attempts = raw[q].attempts
          /\ raw'[q].phase = raw[q].phase /\ raw'[q].waits = raw[q].waits
      BY <1>2, <3>1, <3>2
    <3> QED
      BY <1>0, <2>1, <2>4, <3>3 DEF HeldOK
  <2> QED
    BY <2>2, <2>3, <2>4
<1>6. ASSUME NEW r \in Records \ Oversized PROVE OutageOK(r)'
  <2>0. \A v \in Workers : Busy(v, r)' = Busy(v, r)
    BY <1>0 DEF Busy, Rec
  <2>1. CASE r # q
    <3>1. raw'[r] = raw[r] /\ OutageOK(r)
      BY <1>1, <2>1 DEF SoloBefore, SoloInv
    <3> QED
      BY <1>0, <2>0, <3>1 DEF OutageOK
  <2>2. CASE r = q
    BY <1>0, <1>2, <1>3, <2>0, <2>2 DEF OutageOK, AtRest
  <2> QED
    BY <2>1, <2>2
<1> QED
  BY <1>4, <1>5, <1>6 DEF SoloInv

\* A step that touches nothing the invariant speaks of.
LEMMA SoloStutter ==
    ASSUME SoloBefore, UNCHANGED <<raw, intel, graph, pc, job>>,
           worst' = "outage" => worst = "outage"
    PROVE  SoloInv'
<1>1. \A r \in Records : RecordOK(r)'
  BY DEF SoloBefore, SoloInv, RecordOK
<1>2. \A v \in Workers : HeldOK(v)'
  BY DEF SoloBefore, SoloInv, HeldOK, Rec
<1>3. \A r \in Records, v \in Workers : Busy(v, r)' = Busy(v, r)
  BY DEF Busy, Rec
<1>4. \A r \in Records \ Oversized : OutageOK(r)'
  BY <1>3 DEF SoloBefore, SoloInv, OutageOK
<1> QED
  BY <1>1, <1>2, <1>4 DEF SoloInv

\* Every step keeps the invariant.
LEMMA SoloNext ==
    ASSUME Sole
    PROVE  SoloBefore /\ [Next]_vars => SoloInv'
<1>1. ASSUME SoloBefore, GraphFails \/ GraphRecovers \/ \E a \in Alerts : AlertExpires(a)
      PROVE  SoloInv'
  <2>1. UNCHANGED <<raw, intel, graph, pc, job>> /\ (worst' = "outage" => worst = "outage")
    BY <1>1 DEF GraphFails, GraphRecovers, AlertExpires, Disturb, OutageKinds, stores, local
  <2> QED
    BY <1>1, <2>1, SoloStutter
<1>2. ASSUME SoloBefore, UNCHANGED vars PROVE SoloInv'
  BY <1>2, SoloStutter DEF vars, stores, local, outside
<1> QED
  BY <1>1, <1>2, NextCases, SoloStep, SoloOutside DEF Surroundings

\* Nothing was published yet.
LEMMA SoloInit == Init => SoloInv
BY DEF Init, SoloInv, RecordOK, HeldOK, OutageOK, AtRest, Resolved, DocSteps

\* The invariant, with those of ProcessorProofs it rests on.
LEMMA SoloAlways == ASSUME Sole PROVE Spec => []SoloBefore
<1>1. Init => AttemptsInv
  BY ConstantsOK DEF Init, AttemptsInv, AttemptLeft
<1>2. Init => SoloBefore
  BY <1>1, TypeInit, IndexInit, SoloInit DEF SoloBefore
<1>3. SoloBefore /\ [Next]_vars => SoloBefore'
  BY TypeNext, AttemptsNext, IndexNext, SoloNext DEF SoloBefore
<1> QED
  BY <1>2, <1>3, PTL DEF Spec

\* One instance whose final writes are acknowledged never lets an unresolved
\* record out of reach, whatever crashes, failing calls, outages, shutdowns and
\* operator retries there are: it is in hand, claimable, under a live lease or
\* about to be swept.
THEOREM SoleLeavesNoneStranded == ASSUME Sole PROVE Spec => []NoRecordStranded
<1>1. SoloBefore => NoRecordStranded
  <2> SUFFICES ASSUME SoloBefore, NEW r \in Records, raw[r].status \in Open,
                      ~InHand(r), ~Claimable(r), raw[r].lease # "live", r \notin Stale
               PROVE  CutOffOversized(r)
    BY DEF NoRecordStranded
  <2>1. RecordOK(r) /\ raw[r] \in RawType /\ raw[r].attempts <= MaxAttempts
    BY DEF SoloBefore, SoloInv, TypeOK, AttemptsInv, AttemptLeft
  <2>2. raw[r].status \in {"processing", "waiting_dependency"} => raw[r].lease = "expired"
    BY <2>1 DEF RecordOK, RawType, Leases
  <2>3. raw[r].attempts \in Int /\ MaxAttempts \in Nat
    BY <2>1, ConstantsOK DEF RawType
  <2>4. raw[r].status = "failed" /\ raw[r].attempts = MaxAttempts
    BY <2>1, <2>2, <2>3 DEF Open, Claimable, Stale
  <2> QED
    BY <2>1, <2>3, <2>4 DEF CutOffOversized, RecordOK
<1> QED
  BY <1>1, SoloAlways, PTL

\* One instance whose final writes are acknowledged finishes a record that
\* waited for the graph with the document MongoDB holds: the graph never keeps
\* another analysis only.
THEOREM SoleWaitedAgree == ASSUME Sole PROVE Spec => []WaitedRecordsAgree
<1>1. SoloBefore => WaitedRecordsAgree
  BY DEF SoloBefore, SoloInv, RecordOK, WaitedRecordsAgree
<1> QED
  BY <1>1, SoloAlways, PTL

\* With one instance whose final writes are acknowledged, graph outages,
\* shutdowns and operator retries alone never use up an attempt, however many
\* and in whatever order, and a record is given up for them only after MaxWaits
\* waits.
THEOREM SoleOutageSparesAttempts == ASSUME Sole PROVE Spec => []OutageNeverBurnsAttempts
<1>1. SoloBefore => OutageNeverBurnsAttempts
  BY DEF SoloBefore, SoloInv, OutageOK, AtRest, OutageNeverBurnsAttempts
<1> QED
  BY <1>1, SoloAlways, PTL

\* A step turns a record into "deleted" only if it carries a completed_at.
LEMMA DeletedBy ==
    ASSUME TypeOK, [Next]_vars, NEW r \in Records,
           raw'[r].status = "deleted"
    PROVE  raw[r].status = "deleted" \/ raw[r].done
<1> SUFFICES ASSUME raw[r].status # "deleted" PROVE raw[r].done
  OBVIOUS
<1>0. raw \in [Records -> RawType]
  BY DEF TypeOK
<1>1. CASE UNCHANGED raw
  BY <1>1
<1>2. ASSUME NEW q \in Records, Publish(q) \/ RetryDeadLetter(q) \/ LeaseExpires(q)
      PROVE  FALSE
  <2>1. raw[q] \in RawType
    BY <1>0
  <2>2. raw'[q].status \in {"pending", raw[q].status}
    BY <1>0, <1>2, <2>1 DEF Publish, RetryDeadLetter, LeaseExpires, RawType
  <2>3. \A p \in Records \ {q} : raw'[p] = raw[p]
    BY <1>0, <1>2 DEF Publish, RetryDeadLetter, LeaseExpires
  <2> QED
    BY <2>2, <2>3
<1>3. ASSUME NEW q \in Records, TtlDelete(q) PROVE raw[r].done
  BY <1>0, <1>3 DEF TtlDelete
<1>4. ASSUME NEW w \in Workers, Step(w) PROVE FALSE
  <2>1. CASE UNCHANGED raw
    BY <2>1
  <2>2. CASE ExhaustStaleLeases(w)
    <3>1. raw'[r].status \in {raw[r].status, "exhausted"}
      BY <1>0, <2>2 DEF ExhaustStaleLeases, RawType
    <3> QED
      BY <3>1
  <2>3. ASSUME NEW q \in Records, Claim(w, q) PROVE FALSE
    BY <1>0, <2>3 DEF Claim, RawType
  <2>4. CASE MarkOversized(w)
    BY <1>0, <2>4 DEF MarkOversized, Update, RawType
  <2>5. CASE MarkWaiting(w)
    BY <1>0, <2>5 DEF MarkWaiting, Update, RawType
  <2>6. CASE MarkFailed(w)
    BY <1>0, <2>6 DEF MarkFailed, Update, RawType
  <2>7. CASE FinishRaw(w) \/ FinishAckLost(w)
    BY <1>0, <2>7 DEF FinishRaw, FinishAckLost, Finished, Update, RawType
  <2>8. CASE ReleaseOpenLeases(w)
    <3>1. raw'[r].status \in {raw[r].status, "pending"}
      BY <1>0, <2>8 DEF ReleaseOpenLeases, RawType
    <3> QED
      BY <3>1
  <2> QED
    BY <1>4, <2>1, <2>2, <2>3, <2>4, <2>5, <2>6, <2>7, <2>8
       DEF Step, Start, Work, Trouble, GraphReady, ClaimNothing, LoopCallFails,
           CheckContent, Analyse, InsertIntel, UpsertGraph, UpsertFails, ReadWaits,
           InsertAlert, Broadcast, BroadcastFails, AlertsDone, WriteSnapshot, CallFails,
           MarkFailedFails, Crash, Stop
<1> QED
  BY <1>1, <1>2, <1>3, <1>4, NextCases
     DEF Surroundings, GraphFails, GraphRecovers, AlertExpires, vars

\* With one instance whose final writes are acknowledged, the TTL index on
\* completed_at never takes a pending or failed record.
THEOREM SoleTtlSparesUnfinished == ASSUME Sole PROVE Spec => TtlSparesUnfinished
<1>1. SoloBefore /\ [Next]_vars =>
         [\A r \in Records :
             raw[r].status \in {"pending", "failed"} => raw'[r].status # "deleted"]_vars
  BY DeletedBy DEF SoloBefore, SoloInv, RecordOK, Resolved
<1> QED
  BY <1>1, SoloAlways, PTL DEF Spec, TtlSparesUnfinished
-----------------------------------------------------------------------------
(* The refinement.  Every step of a sole instance is one step in the life  *)
(* of one record, the sweep's one step for several, or none.               *)

Fates == [r \in Records |-> Outcome(r)]

\* What a write to the sub-document of one record q may be in IngestLifecycle.
LEMMA FateWrite ==
    ASSUME NEW q \in Records, \A r \in Records \ {q} : raw'[r] = raw[r],
           evaluated' = evaluated,
           \/ raw'[q].status = raw[q].status
           \/ raw[q].status \in Open /\ raw'[q].status \in Open
           \/ raw[q].status = "absent" /\ raw'[q].status = "pending"
           \/ raw[q].status \in Open /\ raw'[q].status = "completed" /\ q \in evaluated
           \/ raw[q].status \in Open /\ raw'[q].status = "dropped"
           \/ raw[q].status \in Open /\ raw'[q].status = "exhausted"
           \/ raw[q].status = "exhausted" /\ raw'[q].status = "pending"
           \/ raw[q].status \in {"completed", "dropped"} /\ raw'[q].status = "deleted"
    PROVE  [Lifecycle!Next]_(Lifecycle!vars)
<1> USE DEF Lifecycle!Next, Lifecycle!vars, Lifecycle!Move
<1>1. \A r \in Records \ {q} : Outcome(r)' = Outcome(r)
  BY DEF Outcome
<1>2. ASSUME NEW to, Outcome(q)' = to PROVE Fates' = [Fates EXCEPT ![q] = to]
  BY <1>1, <1>2 DEF Fates
<1>3. CASE Outcome(q)' = Outcome(q)
  BY <1>1, <1>3
<1>4. CASE raw[q].status = "absent" /\ raw'[q].status = "pending"
  <2>1. Outcome(q) = "absent" /\ Outcome(q)' = "open"
    BY <1>4 DEF Outcome, Open
  <2> QED
    BY <1>2, <2>1 DEF Fates, Lifecycle!Submit
<1>5. CASE raw[q].status \in Open /\ raw'[q].status = "completed" /\ q \in evaluated
  <2>1. Outcome(q) = "open" /\ Outcome(q)' = "done"
    BY <1>5 DEF Outcome, Open
  <2> QED
    BY <1>2, <1>5, <2>1 DEF Fates, Lifecycle!Complete
<1>6. CASE raw[q].status \in Open /\ raw'[q].status = "dropped"
  <2>1. Outcome(q) = "open" /\ Outcome(q)' = "dropped"
    BY <1>6 DEF Outcome, Open
  <2> QED
    BY <1>2, <2>1 DEF Fates, Lifecycle!Drop
<1>7. CASE raw[q].status \in Open /\ raw'[q].status = "exhausted"
  <2>1. Outcome(q) = "open" /\ Outcome(q)' = "dead"
    BY <1>7 DEF Outcome, Open
  <2> QED
    BY <1>2, <2>1 DEF Fates, Lifecycle!GiveUp
<1>8. CASE raw[q].status = "exhausted" /\ raw'[q].status = "pending"
  <2>1. Outcome(q) = "dead" /\ Outcome(q)' = "open"
    BY <1>8 DEF Outcome, Open
  <2> QED
    BY <1>2, <2>1 DEF Fates, Lifecycle!Reopen
<1>9. CASE raw[q].status \in {"completed", "dropped"} /\ raw'[q].status = "deleted"
  <2>1. Outcome(q) \in {"done", "dropped"} /\ Outcome(q)' = "expired"
    BY <1>9 DEF Outcome, Open
  <2> QED
    BY <1>2, <2>1 DEF Fates, Lifecycle!Expire
<1>10. CASE raw[q].status \in Open /\ raw'[q].status \in Open
  BY <1>3, <1>10 DEF Outcome, Open
<1>11. CASE raw'[q].status = raw[q].status
  BY <1>3, <1>11 DEF Outcome
<1> QED
  BY <1>4, <1>5, <1>6, <1>7, <1>8, <1>9, <1>10, <1>11

\* The write that ends a call of _process_doc.
LEMMA FateDoc ==
    ASSUME Sole, SoloBefore, NEW w \in Workers,
           \/ MarkOversized(w) \/ MarkWaiting(w) \/ FinishRaw(w) \/ MarkFailed(w)
    PROVE  [Lifecycle!Next]_(Lifecycle!vars)
<1>0. pc[w] \in DocSteps /\ evaluated' = evaluated
  BY DEF MarkOversized, MarkWaiting, FinishRaw, MarkFailed, Proceed, DocSteps, stores
<1>1. PICK q \in Records : q = Rec(w)
  BY <1>0, InHandFacts
<1>2. /\ TypeOK /\ raw[q] \in RawType /\ raw[q].status # "deleted" /\ HeldOK(w)
  BY <1>0, <1>1, InHandFacts
<1>3. raw[q].status \in Open
  BY <1>0, <1>1, <1>2 DEF HeldOK, Open
<1>4. CASE MarkOversized(w)
  <2>1. /\ raw'[q] = [raw[q] EXCEPT !.status = "failed", !.lease = "none"]
        /\ \A r \in Records \ {q} : raw'[r] = raw[r]
    BY <1>1, <1>2, <1>4, Written DEF MarkOversized
  <2>2. raw'[q].status \in Open
    BY <1>2, <2>1 DEF RawType, Open
  <2> QED
    BY <1>0, <1>3, <2>1, <2>2, FateWrite
<1>5. CASE MarkFailed(w)
  <2> DEFINE st == IF job[w].attempts >= MaxAttempts THEN "exhausted" ELSE "failed"
  <2>1. /\ raw'[q] = [raw[q] EXCEPT !.status = st, !.lease = "none"]
        /\ \A r \in Records \ {q} : raw'[r] = raw[r]
    BY <1>1, <1>2, <1>5, Written DEF MarkFailed
  <2>2. raw'[q].status \in Open \cup {"exhausted"}
    BY <1>2, <2>1 DEF RawType, Open
  <2> QED
    BY <1>0, <1>3, <2>1, <2>2, FateWrite
<1>6. CASE MarkWaiting(w)
  <2> DEFINE last == job[w].waits + 1 >= MaxWaits
             st == IF last THEN "exhausted" ELSE "waiting_dependency"
             ls == IF last THEN "none" ELSE "live"
  <2>1. /\ raw'[q] = [raw[q] EXCEPT !.status = st, !.phase = "intel_saved", !.lease = ls,
                                    !.attempts = raw[q].attempts - 1,
                                    !.waits = raw[q].waits + 1]
        /\ \A r \in Records \ {q} : raw'[r] = raw[r]
    BY <1>1, <1>2, <1>6, Written DEF MarkWaiting
  <2>2. st \in Open \cup {"exhausted"}
    BY DEF Open
  <2>3. raw'[q].status = st
    BY <1>2, <2>1 DEF RawType
  <2> QED
    BY <1>0, <1>3, <2>1, <2>2, <2>3, FateWrite
<1>7. CASE FinishRaw(w)
  <2> DEFINE st == IF pc[w] = "drop" THEN "dropped" ELSE "completed"
  <2>1. /\ raw'[q] = [raw[q] EXCEPT !.status = st, !.done = TRUE, !.lease = "none",
                                    !.phase = "completed"]
        /\ \A r \in Records \ {q} : raw'[r] = raw[r]
    BY <1>1, <1>2, <1>7, Written DEF FinishRaw, Finished
  <2>2. raw'[q].status = st
    BY <1>2, <2>1 DEF RawType
  <2>3. pc[w] = "finish" => q \in evaluated
    BY <1>1 DEF SoloBefore, IndexInv, Progress
  <2>4. pc[w] \in {"finish", "drop"}
    BY <1>7 DEF FinishRaw
  <2> QED
    BY <1>0, <1>3, <2>1, <2>2, <2>3, <2>4, FateWrite
<1> QED
  BY <1>4, <1>5, <1>6, <1>7

\* A step that resolves and evaluates nothing stutters there.
LEMMA FateKept ==
    ASSUME UNCHANGED <<raw, evaluated>>
    PROVE  [Lifecycle!Next]_(Lifecycle!vars)
BY DEF Lifecycle!vars, Outcome

\* A sweep gives open records up, or keeps them open.
LEMMA FateSweep ==
    ASSUME SoloBefore, NEW w \in Workers, ExhaustStaleLeases(w) \/ ReleaseOpenLeases(w)
    PROVE  [Lifecycle!Next]_(Lifecycle!vars)
<1>0. evaluated' = evaluated /\ raw \in [Records -> RawType]
  BY DEF SoloBefore, TypeOK, ExhaustStaleLeases, ReleaseOpenLeases, stores
<1>1. CASE ExhaustStaleLeases(w)
  <2>1. ASSUME NEW r \in Records
        PROVE  Outcome(r)' = IF r \in Stale THEN "dead" ELSE Outcome(r)
    <3>1. CASE r \in Stale
      <4>1. raw'[r].status = "exhausted"
        BY <1>0, <1>1, <3>1 DEF ExhaustStaleLeases, RawType
      <4> QED
        BY <3>1, <4>1 DEF Outcome, Open
    <3>2. CASE r \notin Stale
      <4>1. raw'[r] = raw[r]
        BY <1>1, <3>2 DEF ExhaustStaleLeases
      <4> QED
        BY <3>2, <4>1 DEF Outcome
    <3> QED
      BY <3>1, <3>2
  <2>2. Stale \in SUBSET Records /\ \A r \in Stale : Outcome(r) = "open"
    BY DEF Stale, Outcome, Open
  <2>3. Lifecycle!GiveUpAll(Stale)
    BY <1>0, <2>1, <2>2 DEF Lifecycle!GiveUpAll
  <2> QED
    BY <2>2, <2>3 DEF Lifecycle!Next
<1>2. CASE ReleaseOpenLeases(w)
  <2>1. ASSUME NEW r \in Records PROVE Outcome(r)' = Outcome(r)
    <3>1. CASE raw[r].status = "processing"
      <4>1. raw'[r].status = "pending"
        BY <1>0, <1>2, <3>1 DEF ReleaseOpenLeases, RawType
      <4> QED
        BY <3>1, <4>1 DEF Outcome, Open
    <3>2. CASE raw[r].status # "processing"
      <4>1. raw'[r] = raw[r]
        BY <1>2, <3>2 DEF ReleaseOpenLeases
      <4> QED
        BY <4>1 DEF Outcome
    <3> QED
      BY <3>1, <3>2
  <2> QED
    BY <1>0, <2>1 DEF Lifecycle!vars
<1> QED
  BY <1>1, <1>2

\* Every step of an instance is one of IngestLifecycle, or a stutter.
LEMMA FateStep ==
    ASSUME Sole, SoloBefore, NEW w \in Workers, Step(w)
    PROVE  [Lifecycle!Next]_(Lifecycle!vars)
<1>0. raw \in [Records -> RawType] /\ ~FinishAckLost(w)
  BY DEF SoloBefore, TypeOK, Sole, FinishAckLost, Disturb
<1>1. CASE UNCHANGED <<raw, evaluated>>
  BY <1>1, FateKept
<1>2. ASSUME NEW q \in Records, Claim(w, q) PROVE [Lifecycle!Next]_(Lifecycle!vars)
  <2>1. raw[q].status \in Open
    BY <1>2 DEF Claim, Claimable, Open
  <2>2. /\ raw'[q].status = "processing" /\ evaluated' = evaluated
        /\ \A r \in Records \ {q} : raw'[r] = raw[r]
    BY <1>0, <1>2 DEF Claim, RawType, stores
  <2> QED
    BY <2>1, <2>2, FateWrite DEF Open
<1>3. CASE AlertsDone(w)
  <2>1. /\ pc[w] = "alerts" /\ pc[w] \in DocSteps /\ raw' = raw
        /\ evaluated' = evaluated \cup {Rec(w)}
    BY <1>3 DEF AlertsDone, Proceed, DocSteps
  <2>2. Rec(w) \in Records /\ raw[Rec(w)].status = "processing"
    BY <2>1, InHandFacts DEF HeldOK
  <2>3. Lifecycle!Index(Rec(w))
    BY <2>1, <2>2 DEF Lifecycle!Index, Outcome, Open
  <2> QED
    BY <2>2, <2>3 DEF Lifecycle!Next
<1> QED
  BY <1>0, <1>1, <1>2, <1>3, FateDoc, FateSweep
     DEF Step, Start, Work, Trouble, stores, GraphReady, ClaimNothing, LoopCallFails,
         CheckContent, Analyse, InsertIntel, UpsertGraph, UpsertFails, ReadWaits,
         InsertAlert, Broadcast, BroadcastFails, WriteSnapshot, CallFails,
         MarkFailedFails, Crash, Stop

\* So is every step from outside.
LEMMA FateOutside ==
    ASSUME SoloBefore, Surroundings
    PROVE  [Lifecycle!Next]_(Lifecycle!vars)
<1>0. raw \in [Records -> RawType] /\ evaluated' = evaluated
  BY DEF SoloBefore, TypeOK, Surroundings, Publish, RetryDeadLetter, LeaseExpires,
         TtlDelete, GraphFails, GraphRecovers, AlertExpires, stores
<1>1. ASSUME NEW q \in Records,
             Publish(q) \/ RetryDeadLetter(q) \/ LeaseExpires(q) \/ TtlDelete(q)
      PROVE  [Lifecycle!Next]_(Lifecycle!vars)
  <2>1. \A r \in Records \ {q} : raw'[r] = raw[r]
    BY <1>0, <1>1 DEF Publish, RetryDeadLetter, LeaseExpires, TtlDelete
  <2>2. raw[q] \in RawType /\ RecordOK(q)
    BY <1>0 DEF SoloBefore, SoloInv
  <2>3. CASE Publish(q)
    <3>1. raw[q].status = "absent" /\ raw'[q].status = "pending"
      BY <1>0, <2>3 DEF Publish, RawType
    <3> QED
      BY <1>0, <2>1, <3>1, FateWrite
  <2>4. CASE RetryDeadLetter(q)
    <3>1. raw[q].status = "exhausted" /\ raw'[q].status = "pending"
      BY <1>0, <2>4 DEF RetryDeadLetter, RawType
    <3> QED
      BY <1>0, <2>1, <3>1, FateWrite
  <2>5. CASE LeaseExpires(q)
    <3>1. raw'[q].status = raw[q].status
      BY <1>0, <2>5 DEF LeaseExpires, RawType
    <3> QED
      BY <1>0, <2>1, <3>1, FateWrite
  <2>6. CASE TtlDelete(q)
    <3>1. raw[q].status \in {"completed", "dropped"} /\ raw'[q].status = "deleted"
      BY <1>0, <2>2, <2>6 DEF TtlDelete, RawType, RecordOK, Resolved
    <3> QED
      BY <1>0, <2>1, <3>1, FateWrite
  <2> QED
    BY <1>1, <2>3, <2>4, <2>5, <2>6
<1>2. CASE GraphFails \/ GraphRecovers \/ \E a \in Alerts : AlertExpires(a)
  BY <1>0, <1>2, FateKept DEF GraphFails, GraphRecovers, AlertExpires
<1> QED
  BY <1>1, <1>2 DEF Surroundings

\* A queue served by one instance whose final writes are acknowledged implements
\* IngestLifecycle: every record is resolved once, completed only when it is
\* indexed, and comes back to life only when an operator retries a dead letter.
THEOREM SoleImplementsLifecycle == ASSUME Sole PROVE Spec => ImplementsLifecycle
<1>1. Init => Lifecycle!Init
  BY DEF Init, Lifecycle!Init, Outcome, Open
<1>2. SoloBefore /\ [Next]_vars => [Lifecycle!Next]_(Lifecycle!vars)
  <2>1. ASSUME UNCHANGED vars PROVE [Lifecycle!Next]_(Lifecycle!vars)
    BY <2>1, FateKept DEF vars, stores
  <2> QED
    BY <2>1, NextCases, FateStep, FateOutside
<1> QED
  BY <1>1, <1>2, SoloAlways, PTL DEF Spec, ImplementsLifecycle, Lifecycle!Spec
=============================================================================
