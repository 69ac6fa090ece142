-------------------------- MODULE ProcessorProofs --------------------------
(***************************************************************************)
(* Proofs about the raw-ingest queue, for every set of records, instances, *)
(* contents and rules, every max_attempts and every disturbance.           *)
(***************************************************************************)
EXTENDS ProcessorProperties, FiniteSetTheorems, TLAPS

(* The shapes of the writes to a processing sub-document. *)

LEMMA Names ==
    /\ Statuses = {"absent", "pending", "processing", "failed", "waiting_dependency",
                   "completed", "dropped", "exhausted", "deleted"}
    /\ \A s \in {"pending", "processing", "failed", "waiting_dependency",
                 "completed", "dropped", "exhausted", "deleted"} : s \in Statuses
    /\ "none" \in Leases /\ "live" \in Leases /\ "expired" \in Leases
    /\ "none" \in Phases /\ "intel_saved" \in Phases /\ "completed" \in Phases
BY DEF Statuses, Leases, Phases

LEMMA StatusWrite ==
    ASSUME NEW d \in RawType, NEW s \in Statuses, NEW l \in Leases
    PROVE  [d EXCEPT !.status = s, !.lease = l] \in RawType
BY DEF RawType

LEMMA ClaimWrite ==
    ASSUME NEW d \in RawType, NEW s \in Statuses, NEW l \in Leases, NEW n \in Int
    PROVE  [d EXCEPT !.status = s, !.lease = l, !.attempts = n] \in RawType
BY DEF RawType

LEMMA FinalWrite ==
    ASSUME NEW d \in RawType, NEW s \in Statuses, NEW l \in Leases, NEW p \in Phases
    PROVE  [d EXCEPT !.status = s, !.done = TRUE, !.lease = l, !.phase = p] \in RawType
BY DEF RawType

LEMMA WaitingWrite ==
    ASSUME NEW d \in RawType, NEW s \in Statuses, NEW l \in Leases, NEW p \in Phases
    PROVE  [d EXCEPT !.status = s, !.phase = p, !.lease = l,
                     !.attempts = d.attempts - 1, !.waits = d.waits + 1] \in RawType
<1>1. d.attempts - 1 \in Int /\ d.waits + 1 \in Nat
  BY DEF RawType
<1> QED
  BY <1>1 DEF RawType

LEMMA UpdateType ==
    ASSUME raw \in [Records -> RawType], NEW r \in Records, NEW doc \in RawType,
           Update(r, doc)
    PROVE  raw' \in [Records -> RawType]
BY DEF Update

LEMMA NoJobType == NoJob \in JobType
BY ConstantsOK DEF NoJob, JobType, Phases

LEMMA JobWrite ==
    ASSUME NEW d \in JobType, NEW c \in Contents \cup {None}, NEW t \in SUBSET Rules,
           NEW k \in Rules \cup {None}, NEW n \in Nat
    PROVE  /\ [d EXCEPT !.content = c] \in JobType
           /\ [d EXCEPT !.todo = t] \in JobType
           /\ [d EXCEPT !.cast = k] \in JobType
           /\ [d EXCEPT !.todo = t, !.cast = k] \in JobType
           /\ [d EXCEPT !.waits = n] \in JobType
BY DEF JobType
LEMMA TodoWrite ==
    ASSUME NEW d \in JobType, NEW t \in SUBSET Rules
    PROVE  [d EXCEPT !.todo = t] \in JobType
BY DEF JobType
-----------------------------------------------------------------------------
(* Type correctness. *)

LEMMA TypeInit == Init => TypeOK
BY ConstantsOK, NoJobType, SMTT(30)
   DEF Init, TypeOK, LocalsOK, HoldsContent, RawType, Statuses, Leases, Phases, Alerts,
       LoopSteps, DocSteps

LEMMA TypeLoop ==
    ASSUME TypeOK, NEW w \in Workers,
           \/ Start(w) \/ ExhaustStaleLeases(w) \/ GraphReady(w) \/ ClaimNothing(w)
           \/ LoopCallFails(w) \/ ReleaseOpenLeases(w) \/ Crash(w) \/ Stop(w)
    PROVE  TypeOK'
<1> USE DEF TypeOK, LocalsOK, HoldsContent, LoopSteps, DocSteps, Goto, Proceed, Leave,
            Disturb, stores, local, outside
<1>1. CASE Start(w)
  BY <1>1 DEF Start
<1>2. CASE ExhaustStaleLeases(w)
  <2>1. \A r \in Records :
           [raw[r] EXCEPT !.status = "exhausted", !.lease = "none"] \in RawType
    BY StatusWrite, Names
  <2>2. raw' \in [Records -> RawType]
    BY <1>2, <2>1 DEF ExhaustStaleLeases
  <2> QED
    BY <1>2, <2>2 DEF ExhaustStaleLeases
<1>3. CASE GraphReady(w)
  BY <1>3 DEF GraphReady
<1>4. CASE ClaimNothing(w)
  BY <1>4 DEF ClaimNothing
<1>5. CASE LoopCallFails(w)
  BY <1>5, ConstantsOK DEF LoopCallFails
<1>6. CASE ReleaseOpenLeases(w)
  <2>1. \A r \in Records : raw[r].attempts - 1 \in Int
    BY DEF RawType
  <2>2. \A r \in Records :
           [raw[r] EXCEPT !.status = "pending", !.lease = "none",
                          !.attempts = raw[r].attempts - 1] \in RawType
    BY <2>1, ClaimWrite, Names
  <2>3. raw' \in [Records -> RawType]
    BY <1>6, <2>2 DEF ReleaseOpenLeases
  <2> QED
    BY <1>6, <2>3 DEF ReleaseOpenLeases
<1>7. CASE Crash(w)
  BY <1>7, NoJobType, ConstantsOK DEF Crash
<1>8. CASE Stop(w)
  BY <1>8, NoJobType, ConstantsOK DEF Stop
<1> QED
  BY <1>1, <1>2, <1>3, <1>4, <1>5, <1>6, <1>7, <1>8

LEMMA TypeClaim ==
    ASSUME TypeOK, NEW w \in Workers, NEW r \in Records, Claim(w, r)
    PROVE  TypeOK'
<1> USE DEF TypeOK, LocalsOK, HoldsContent, LoopSteps, DocSteps, Goto, stores, outside
<1>1. raw[r].attempts + 1 \in Int /\ raw[r].phase \in Phases
  BY DEF RawType
<1>2. raw' \in [Records -> RawType]
  BY <1>1, ClaimWrite, Names DEF Claim
<1>3. [NoJob EXCEPT !.rec = r, !.attempts = raw[r].attempts + 1, !.phase = raw[r].phase]
         \in JobType
  BY <1>1, NoJobType DEF JobType
<1>4. job' \in [Workers -> JobType] /\ job'[w].rec = r
  BY <1>3, NoJobType DEF Claim, JobType
<1>5. \A v \in Workers : v # w => job'[v] = job[v] /\ pc'[v] = pc[v]
  BY DEF Claim
<1>6. LocalsOK'
  BY <1>4, <1>5 DEF Claim
<1> QED
  BY <1>2, <1>4, <1>6 DEF Claim

LEMMA TypeDoc ==
    ASSUME TypeOK, NEW w \in Workers,
           \/ CheckContent(w) \/ MarkOversized(w) \/ Analyse(w) \/ InsertIntel(w)
           \/ UpsertGraph(w) \/ UpsertFails(w) \/ ReadWaits(w) \/ MarkWaiting(w)
    PROVE  TypeOK'
<1> USE DEF TypeOK, LocalsOK, HoldsContent, LoopSteps, DocSteps, Goto, Proceed, Leave,
            Disturb, stores, local, outside, Rec
<1>1. CASE CheckContent(w)
  <2>1. CASE UNCHANGED job /\ pc'[w] \in {"drop", "oversized", "nlp"}
    BY <1>1, <2>1 DEF CheckContent
  <2>2. CASE pc'[w] = "insert"
    <3>1. intel[Rec(w)] \in Contents /\ job' = [job EXCEPT ![w].content = intel[Rec(w)]]
      BY <1>1, <2>2 DEF CheckContent, Resumable
    <3>2. [job[w] EXCEPT !.content = intel[Rec(w)]] \in JobType
      BY <3>1, JobWrite
    <3>3. /\ job' \in [Workers -> JobType] /\ job'[w].rec = job[w].rec
          /\ job'[w].content \in Contents
      BY <3>1, <3>2 DEF JobType
    <3> QED
      BY <1>1, <2>2, <3>1, <3>3 DEF CheckContent
  <2> QED
    BY <1>1, <2>1, <2>2 DEF CheckContent
<1>2. CASE MarkOversized(w)
  <2>1. [raw[Rec(w)] EXCEPT !.status = "failed", !.lease = "none"] \in RawType
    BY <1>2, StatusWrite, Names DEF MarkOversized
  <2>2. raw' \in [Records -> RawType]
    BY <1>2, <2>1, UpdateType DEF MarkOversized
  <2> QED
    BY <1>2, <2>2 DEF MarkOversized
<1>3. CASE Analyse(w)
  <2>1. CASE UNCHANGED job /\ pc'[w] = "drop"
    BY <1>3, <2>1 DEF Analyse
  <2>2. ASSUME NEW c \in Contents, job' = [job EXCEPT ![w].content = c]
        PROVE  TypeOK'
    <3>1. [job[w] EXCEPT !.content = c] \in JobType
      BY JobWrite
    <3>2. /\ job' \in [Workers -> JobType] /\ job'[w].rec = job[w].rec
          /\ job'[w].content \in Contents
      BY <2>2, <3>1 DEF JobType
    <3> QED
      BY <1>3, <2>2, <3>2 DEF Analyse
  <2> QED
    BY <1>3, <2>1, <2>2 DEF Analyse
<1>4. CASE InsertIntel(w)
  BY <1>4 DEF InsertIntel
<1>5. CASE UpsertGraph(w)
  <2>1. CASE ~graphUp
    BY <1>5, <2>1 DEF UpsertGraph
  <2>2. CASE graphUp
    <3>0. job[w] \in JobType /\ Matches[job[w].content] \in SUBSET Rules
      BY <1>5, ConstantsOK DEF UpsertGraph
    <3>1. [job[w] EXCEPT !.todo = Matches[job[w].content]] \in JobType
      BY <3>0, TodoWrite
    <3>2. /\ job' \in [Workers -> JobType] /\ job'[w].rec = job[w].rec
          /\ job'[w].content = job[w].content
      BY <1>5, <2>2, <3>1, SMTT(60) DEF UpsertGraph, JobType
    <3> QED
      BY <1>5, <2>2, <3>2 DEF UpsertGraph
  <2> QED
    BY <2>1, <2>2
<1>6. CASE UpsertFails(w)
  BY <1>6, ConstantsOK DEF UpsertFails
<1>7. CASE ReadWaits(w)
  <2>1. raw[Rec(w)].waits \in Nat
    BY <1>7 DEF ReadWaits, RawType
  <2>2. \E n \in Nat : job' = [job EXCEPT ![w].waits = n]
    BY <1>7, <2>1 DEF ReadWaits
  <2>3. PICK n \in Nat : job' = [job EXCEPT ![w].waits = n]
    BY <2>2
  <2>4. [job[w] EXCEPT !.waits = n] \in JobType
    BY JobWrite
  <2>5. /\ job' \in [Workers -> JobType] /\ job'[w].rec = job[w].rec
        /\ job'[w].content = job[w].content
    BY <2>3, <2>4 DEF JobType
  <2> QED
    BY <1>7, <2>5 DEF ReadWaits
<1>8. CASE MarkWaiting(w)
  <2>1. Rec(w) \in Records
    BY <1>8 DEF MarkWaiting
  <2> DEFINE st == IF job[w].waits + 1 >= MaxWaits THEN "exhausted" ELSE "waiting_dependency"
             ls == IF job[w].waits + 1 >= MaxWaits THEN "none" ELSE "live"
  <2>2. [raw[Rec(w)] EXCEPT !.status = st, !.phase = "intel_saved", !.lease = ls,
                  !.attempts = raw[Rec(w)].attempts - 1,
                  !.waits = raw[Rec(w)].waits + 1] \in RawType
    BY <2>1, WaitingWrite, Names
  <2>3. raw' \in [Records -> RawType]
    BY <1>8, <2>1, <2>2, UpdateType DEF MarkWaiting
  <2> QED
    BY <1>8, <2>3, NoJobType DEF MarkWaiting
<1> QED
  BY <1>1, <1>2, <1>3, <1>4, <1>5, <1>6, <1>7, <1>8

LEMMA TypeFinish ==
    ASSUME TypeOK, NEW w \in Workers,
           \/ (\E k \in Rules : InsertAlert(w, k)) \/ Broadcast(w) \/ BroadcastFails(w)
           \/ AlertsDone(w) \/ WriteSnapshot(w) \/ FinishRaw(w) \/ FinishAckLost(w)
           \/ CallFails(w) \/ MarkFailed(w) \/ MarkFailedFails(w)
    PROVE  TypeOK'
<1> USE DEF TypeOK, LocalsOK, HoldsContent, LoopSteps, DocSteps, Goto, Proceed, Leave,
            Disturb, stores, local, outside, Rec
<1>1. ASSUME NEW k \in Rules, InsertAlert(w, k) PROVE TypeOK'
  <2>1. \E t \in SUBSET Rules, c \in Rules \cup {None} :
           job' = [job EXCEPT ![w].todo = t, ![w].cast = c]
    <3>1. job[w] \in JobType
      OBVIOUS
    <3>2. job[w].todo \ {k} \in SUBSET Rules
      BY <3>1 DEF JobType
    <3>3. (IF <<Rec(w), k>> \in alerts THEN None ELSE k) \in Rules \cup {None}
      OBVIOUS
    <3> QED
      BY <1>1, <3>2, <3>3 DEF InsertAlert
  <2>2. PICK t \in SUBSET Rules, c \in Rules \cup {None} :
           job' = [job EXCEPT ![w].todo = t, ![w].cast = c]
    BY <2>1
  <2>3. [job[w] EXCEPT !.todo = t, !.cast = c] \in JobType
    BY JobWrite
  <2>4. /\ job' \in [Workers -> JobType] /\ job'[w].rec = job[w].rec
        /\ job'[w].content = job[w].content
    BY <2>2, <2>3, SMTT(60) DEF JobType
  <2> QED
    BY <1>1, <2>4 DEF InsertAlert, Alerts
<1>2. CASE Broadcast(w)
  <2>1. <<Rec(w), job[w].cast>> \in Alerts
    BY <1>2 DEF Broadcast, Alerts, JobType
  <2>2. sent' \in [Alerts -> Nat]
    BY <1>2, <2>1 DEF Broadcast
  <2>3. [job[w] EXCEPT !.cast = None] \in JobType
    BY JobWrite
  <2>4. /\ job' \in [Workers -> JobType] /\ job'[w].rec = job[w].rec
        /\ job'[w].content = job[w].content
    BY <1>2, <2>3 DEF Broadcast, JobType
  <2> QED
    BY <1>2, <2>2, <2>4 DEF Broadcast
<1>3. CASE BroadcastFails(w)
  <2>1. [job[w] EXCEPT !.cast = None] \in JobType
    BY JobWrite
  <2>2. /\ job' \in [Workers -> JobType] /\ job'[w].rec = job[w].rec
        /\ job'[w].content = job[w].content
    BY <1>3, <2>1 DEF BroadcastFails, JobType
  <2> QED
    BY <1>3, <2>2, ConstantsOK DEF BroadcastFails
<1>4. CASE AlertsDone(w)
  BY <1>4 DEF AlertsDone
<1>5. CASE WriteSnapshot(w)
  BY <1>5 DEF WriteSnapshot
<1>6. pc[w] \in {"finish", "drop"} => Finished(w) \in RawType
  <2> DEFINE st == IF pc[w] = "drop" THEN "dropped" ELSE "completed"
  <2>1. pc[w] \in {"finish", "drop"} => raw[Rec(w)] \in RawType
    OBVIOUS
  <2>2. st \in Statuses
    BY Names
  <2> QED
    BY <2>1, <2>2, FinalWrite, Names DEF Finished
<1>7. CASE FinishRaw(w)
  <2>1. raw' \in [Records -> RawType]
    BY <1>7, <1>6, UpdateType DEF FinishRaw
  <2> QED
    BY <1>7, <2>1, NoJobType DEF FinishRaw
<1>8. CASE FinishAckLost(w)
  <2>1. raw' \in [Records -> RawType]
    BY <1>8, <1>6, UpdateType DEF FinishAckLost
  <2> QED
    BY <1>8, <2>1, ConstantsOK DEF FinishAckLost
<1>9. CASE CallFails(w)
  BY <1>9, ConstantsOK DEF CallFails
<1>10. CASE MarkFailed(w)
  <2>1. Rec(w) \in Records
    BY <1>10 DEF MarkFailed
  <2> DEFINE st == IF job[w].attempts >= MaxAttempts THEN "exhausted" ELSE "failed"
  <2>2. [raw[Rec(w)] EXCEPT !.status = st, !.lease = "none"] \in RawType
    BY <2>1, StatusWrite, Names
  <2>3. raw' \in [Records -> RawType]
    BY <1>10, <2>1, <2>2, UpdateType DEF MarkFailed
  <2> QED
    BY <1>10, <2>3, NoJobType DEF MarkFailed
<1>11. CASE MarkFailedFails(w)
  BY <1>11, NoJobType, ConstantsOK DEF MarkFailedFails
<1> QED
  BY <1>1, <1>2, <1>3, <1>4, <1>5, <1>7, <1>8, <1>9, <1>10, <1>11

LEMMA TypeOutside ==
    ASSUME TypeOK,
           \/ \E r \in Records : \/ Publish(r) \/ RetryDeadLetter(r) \/ LeaseExpires(r)
                                \/ TtlDelete(r)
           \/ \E a \in Alerts : AlertExpires(a)
           \/ GraphFails \/ GraphRecovers
    PROVE  TypeOK'
<1> USE DEF TypeOK, LocalsOK, Disturb, stores, local, outside
<1>1. ASSUME NEW r \in Records,
             Publish(r) \/ RetryDeadLetter(r) \/ LeaseExpires(r) \/ TtlDelete(r)
      PROVE  TypeOK'
  <2>1. raw'[r] \in RawType /\ raw' = [raw EXCEPT ![r] = raw'[r]]
    BY <1>1 DEF Publish, RetryDeadLetter, LeaseExpires, TtlDelete, RawType, Statuses, Leases
  <2>2. raw' \in [Records -> RawType]
    BY <2>1
  <2>3. CASE Publish(r)
    BY <2>2, <2>3 DEF Publish
  <2>4. CASE RetryDeadLetter(r)
    BY <2>2, <2>4, ConstantsOK DEF RetryDeadLetter
  <2>5. CASE LeaseExpires(r)
    BY <2>2, <2>5 DEF LeaseExpires
  <2>6. CASE TtlDelete(r)
    BY <2>2, <2>6 DEF TtlDelete
  <2> QED
    BY <1>1, <2>3, <2>4, <2>5, <2>6
<1>2. CASE GraphFails
  <2>1. disturbed' \in 0..MaxDisturbed
    BY <1>2, ConstantsOK DEF GraphFails
  <2> QED
    BY <1>2, <2>1 DEF GraphFails
<1>3. CASE GraphRecovers
  BY <1>3 DEF GraphRecovers
<1>4. ASSUME NEW a \in Alerts, AlertExpires(a) PROVE TypeOK'
  <2>1. disturbed' \in 0..MaxDisturbed
    BY <1>4, ConstantsOK DEF AlertExpires
  <2>2. expired' \in [Alerts -> Nat]
    BY <1>4 DEF AlertExpires
  <2> QED
    BY <1>4, <2>1, <2>2 DEF AlertExpires
<1> QED
  BY <1>1, <1>2, <1>3, <1>4

LEMMA TypeNext == TypeOK /\ [Next]_vars => TypeOK'
<1> SUFFICES ASSUME TypeOK, [Next]_vars PROVE TypeOK'
  OBVIOUS
<1>1. CASE UNCHANGED vars
  BY <1>1 DEF vars, stores, local, outside, TypeOK, LocalsOK
<1>2. CASE Next
  BY <1>2, TypeLoop, TypeClaim, TypeDoc, TypeFinish, TypeOutside
     DEF Next, Work, Trouble
<1> QED
  BY <1>1, <1>2

\* Every variable keeps its type in every reachable state, for any number of
\* records and instances.
THEOREM TypeCorrect == Spec => []TypeOK
BY TypeInit, TypeNext, PTL DEF Spec
-----------------------------------------------------------------------------
(* max_attempts.  A record that a claim takes without looking at its       *)
(* attempts (pending, waiting_dependency) must have one left; a release    *)
(* and a wait give one back and the rest never adds one.                   *)

Rested == {"absent", "pending", "waiting_dependency"}

AttemptLeft(r) ==
    /\ raw[r].attempts <= MaxAttempts
    /\ raw[r].status \in Rested => raw[r].attempts < MaxAttempts

AttemptsInv == \A r \in Records : AttemptLeft(r)

\* What one step may do to the status and the attempts of a record.
AttemptsMove(r) ==
    \/ /\ raw'[r].attempts = raw[r].attempts
       /\ \/ raw'[r].status \notin Rested
          \/ raw[r].status \in Rested
    \/ raw'[r].attempts = raw[r].attempts - 1
    \/ raw'[r].attempts = 0
    \/ /\ Claimable(r)
       /\ raw'[r].attempts = raw[r].attempts + 1
       /\ raw'[r].status = "processing"

LEMMA StutterMoves ==
    ASSUME NEW r \in Records, raw'[r] = raw[r]
    PROVE  AttemptsMove(r)
BY DEF AttemptsMove

LEMMA UpdateMoves ==
    ASSUME TypeOK, NEW q \in Records, NEW doc \in RawType, Update(q, doc),
           \/ doc.attempts = raw[q].attempts /\ doc.status \notin Rested
           \/ doc.attempts = raw[q].attempts - 1
    PROVE  \A r \in Records : AttemptsMove(r)
BY DEF TypeOK, Update, AttemptsMove

LEMMA WorkMoves ==
    ASSUME TypeOK, NEW w \in Workers,
           Start(w) \/ Work(w) \/ Trouble(w) \/ ReleaseOpenLeases(w)
    PROVE  \A r \in Records : AttemptsMove(r)
<1>1. CASE UNCHANGED raw
  BY <1>1, StutterMoves
<1>2. CASE ExhaustStaleLeases(w)
  BY <1>2 DEF ExhaustStaleLeases, TypeOK, RawType, AttemptsMove, Rested
<1>3. ASSUME NEW q \in Records, Claim(w, q) PROVE \A r \in Records : AttemptsMove(r)
  BY <1>3 DEF Claim, TypeOK, RawType, AttemptsMove
<1>4. CASE MarkOversized(w)
  <2>1. Rec(w) \in Records
    BY <1>4 DEF MarkOversized, Proceed, TypeOK, LocalsOK, DocSteps, Rec
  <2> DEFINE doc == [raw[Rec(w)] EXCEPT !.status = "failed", !.lease = "none"]
  <2>2. doc \in RawType
    BY <2>1, StatusWrite, Names DEF TypeOK
  <2>3. doc.attempts = raw[Rec(w)].attempts /\ doc.status \notin Rested
    BY <2>1 DEF TypeOK, RawType, Rested
  <2> QED
    BY <1>4, <2>1, <2>2, <2>3, UpdateMoves DEF MarkOversized
<1>5. CASE MarkWaiting(w)
  <2>1. Rec(w) \in Records
    BY <1>5 DEF MarkWaiting, TypeOK, LocalsOK, DocSteps, Rec
  <2> DEFINE st  == IF job[w].waits + 1 >= MaxWaits THEN "exhausted" ELSE "waiting_dependency"
             ls  == IF job[w].waits + 1 >= MaxWaits THEN "none" ELSE "live"
             doc == [raw[Rec(w)] EXCEPT !.status = st, !.phase = "intel_saved", !.lease = ls,
                       !.attempts = raw[Rec(w)].attempts - 1,
                       !.waits = raw[Rec(w)].waits + 1]
  <2>2. st \in Statuses /\ ls \in Leases
    BY Names
  <2>3. Update(Rec(w), doc)
    BY <1>5 DEF MarkWaiting
  <2> HIDE DEF st, ls
  <2>4. doc \in RawType
    BY <2>1, <2>2, WaitingWrite, Names DEF TypeOK
  <2>5. doc.attempts = raw[Rec(w)].attempts - 1
    BY <2>1 DEF TypeOK, RawType
  <2> HIDE DEF doc
  <2> QED
    BY <2>1, <2>3, <2>4, <2>5, UpdateMoves
<1>6. CASE FinishRaw(w) \/ FinishAckLost(w)
  <2>1. Rec(w) \in Records /\ pc[w] \in {"finish", "drop"} /\ Update(Rec(w), Finished(w))
    BY <1>6 DEF FinishRaw, FinishAckLost, TypeOK, LocalsOK, DocSteps, Rec
  <2> DEFINE st == IF pc[w] = "drop" THEN "dropped" ELSE "completed"
  <2> DEFINE doc == [raw[Rec(w)] EXCEPT !.status = st, !.done = TRUE, !.lease = "none",
                                        !.phase = "completed"]
  <2>2. st \in Statuses /\ st \notin Rested
    BY Names DEF Rested
  <2>3. Update(Rec(w), doc)
    BY <2>1 DEF Finished
  <2> HIDE DEF st
  <2>4. doc \in RawType
    BY <2>1, <2>2, FinalWrite, Names DEF TypeOK
  <2>5. doc.attempts = raw[Rec(w)].attempts /\ doc.status \notin Rested
    BY <2>1, <2>2 DEF TypeOK, RawType
  <2> HIDE DEF doc
  <2> QED
    BY <2>1, <2>3, <2>4, <2>5, UpdateMoves
<1>7. CASE MarkFailed(w)
  <2>1. Rec(w) \in Records
    BY <1>7 DEF MarkFailed, TypeOK, LocalsOK, DocSteps, Rec
  <2> DEFINE st  == IF job[w].attempts >= MaxAttempts THEN "exhausted" ELSE "failed"
             doc == [raw[Rec(w)] EXCEPT !.status = st, !.lease = "none"]
  <2>2. st \in Statuses /\ st \notin Rested
    BY Names DEF Rested
  <2>3. Update(Rec(w), doc)
    BY <1>7 DEF MarkFailed
  <2> HIDE DEF st
  <2>4. doc \in RawType
    BY <2>1, <2>2, StatusWrite, Names DEF TypeOK
  <2>5. doc.attempts = raw[Rec(w)].attempts /\ doc.status \notin Rested
    BY <2>1, <2>2 DEF TypeOK, RawType
  <2> HIDE DEF doc
  <2> QED
    BY <2>1, <2>3, <2>4, <2>5, UpdateMoves
<1>8. CASE ReleaseOpenLeases(w)
  <2>1. \A r \in Records : raw[r] \in RawType
    BY DEF TypeOK
  <2>2. ASSUME NEW r \in Records PROVE AttemptsMove(r)
    <3>1. CASE raw[r].status = "processing"
      BY <1>8, <2>1, <3>1 DEF ReleaseOpenLeases, RawType, AttemptsMove
    <3>2. CASE raw[r].status # "processing"
      BY <1>8, <3>2, StutterMoves DEF ReleaseOpenLeases
    <3> QED
      BY <3>1, <3>2
  <2> QED
    BY <2>2
<1> QED
  BY <1>1, <1>2, <1>3, <1>4, <1>5, <1>6, <1>7, <1>8
     DEF Start, Work, Trouble, GraphReady, ClaimNothing, LoopCallFails, CheckContent,
         Analyse, InsertIntel, UpsertGraph, UpsertFails, ReadWaits, InsertAlert, Broadcast,
         BroadcastFails, AlertsDone, WriteSnapshot, CallFails, MarkFailedFails, Crash, Stop

LEMMA OutsideMoves ==
    ASSUME TypeOK, NEW q \in Records,
           Publish(q) \/ RetryDeadLetter(q) \/ LeaseExpires(q) \/ TtlDelete(q)
    PROVE  \A r \in Records : AttemptsMove(r)
<1> SUFFICES ASSUME NEW r \in Records PROVE AttemptsMove(r)
  OBVIOUS
<1>0. raw \in [Records -> RawType] /\ raw[q] \in RawType
  BY DEF TypeOK
<1>1. CASE r # q
  <2>1. raw'[r] = raw[r]
    BY <1>0, <1>1 DEF Publish, RetryDeadLetter, LeaseExpires, TtlDelete
  <2> QED
    BY <2>1, StutterMoves
<1>2. CASE r = q /\ Publish(q)
  <2>1. raw'[q] = [raw[q] EXCEPT !.status = "pending"] /\ raw[q].status = "absent"
    BY <1>0, <1>2 DEF Publish
  <2> QED
    BY <1>0, <1>2, <2>1 DEF RawType, AttemptsMove, Rested
<1>3. CASE r = q /\ RetryDeadLetter(q)
  <2>1. raw'[q].attempts = 0
    BY <1>0, <1>3 DEF RetryDeadLetter, RawType
  <2> QED
    BY <1>3, <2>1 DEF AttemptsMove
<1>4. CASE r = q /\ LeaseExpires(q)
  <2>1. raw'[q] = [raw[q] EXCEPT !.lease = "expired"]
    BY <1>0, <1>4 DEF LeaseExpires
  <2> QED
    BY <1>0, <1>4, <2>1 DEF RawType, AttemptsMove
<1>5. CASE r = q /\ TtlDelete(q)
  <2>1. raw'[q].attempts = raw[q].attempts /\ raw'[q].status = "deleted"
    BY <1>0, <1>5 DEF TtlDelete, RawType
  <2> QED
    BY <1>5, <2>1 DEF AttemptsMove, Rested
<1> QED
  BY <1>1, <1>2, <1>3, <1>4, <1>5

LEMMA AttemptsNext == TypeOK /\ AttemptsInv /\ [Next]_vars => AttemptsInv'
<1> SUFFICES ASSUME TypeOK, AttemptsInv, [Next]_vars, NEW r \in Records
             PROVE  AttemptLeft(r)'
  BY DEF AttemptsInv
<1>1. AttemptsMove(r)
  BY WorkMoves, OutsideMoves, StutterMoves DEF Next, vars, GraphFails, GraphRecovers, AlertExpires
<1>2. /\ raw[r].attempts \in Int /\ raw'[r].attempts \in Int
      /\ MaxAttempts \in Nat \ {0}
  BY TypeNext, ConstantsOK DEF TypeOK, RawType
<1>3. AttemptLeft(r)
  BY DEF AttemptsInv
<1>4. Claimable(r) => raw[r].attempts < MaxAttempts
  BY <1>3 DEF Claimable, AttemptLeft, Rested
<1> QED
  BY <1>1, <1>2, <1>3, <1>4 DEF AttemptsMove, AttemptLeft, Rested

\* No record is claimed more than max_attempts times in a row, however many
\* instances share the queue and whichever of them release, wait or fail.
THEOREM AttemptsNeverExceed == Spec => []AttemptsBounded
<1>1. Init => AttemptsInv
  BY ConstantsOK DEF Init, AttemptsInv, AttemptLeft
<1>2. AttemptsInv => AttemptsBounded
  BY DEF AttemptsInv, AttemptLeft, AttemptsBounded
<1> QED
  BY <1>1, <1>2, AttemptsNext, TypeCorrect, PTL DEF Spec
-----------------------------------------------------------------------------
(* Completion.  What a step of _process_doc has behind it stays true until *)
(* the instance reaches the final write, because the stores only grow.     *)

Progress(w) ==
    /\ pc[w] \in {"graph", "waits", "wait", "alerts", "snapshot", "finish"}
          => intel[Rec(w)] # None
    /\ pc[w] \in {"alerts", "snapshot", "finish"} => graph[Rec(w)] # {}
    /\ pc[w] \in {"snapshot", "finish"} => Rec(w) \in evaluated
    /\ pc[w] = "finish" => Rec(w) \in snapshot

IndexInv ==
    /\ \A w \in Workers : Progress(w)
    /\ CompletedIsIndexed
    /\ NoDanglingReference

StoresGrow ==
    /\ \A r \in Records : /\ intel[r] # None => intel'[r] # None
                          /\ graph[r] \subseteq graph'[r]
    /\ evaluated \subseteq evaluated'
    /\ snapshot \subseteq snapshot'

Step(w) == Start(w) \/ Work(w) \/ Trouble(w) \/ ReleaseOpenLeases(w)

Surroundings ==
    \/ \E r \in Records :
          Publish(r) \/ RetryDeadLetter(r) \/ LeaseExpires(r) \/ TtlDelete(r)
    \/ \E a \in Alerts : AlertExpires(a)
    \/ GraphFails \/ GraphRecovers

LEMMA NextCases == Next <=> (\E w \in Workers : Step(w)) \/ Surroundings
BY DEF Next, Step, Surroundings

LEMMA InsertGrows ==
    ASSUME TypeOK, NEW w \in Workers, InsertIntel(w)
    PROVE  StoresGrow /\ intel'[Rec(w)] # None
<1>1. Rec(w) \in Records /\ job[w].content \in Contents
  BY DEF InsertIntel, Proceed, TypeOK, LocalsOK, HoldsContent, DocSteps, Rec
<1> QED
  BY <1>1, ConstantsOK DEF InsertIntel, TypeOK, StoresGrow

LEMMA UpsertGrows ==
    ASSUME TypeOK, NEW w \in Workers, UpsertGraph(w) \/ UpsertFails(w)
    PROVE  /\ StoresGrow
           /\ pc'[w] = "alerts" => graph'[Rec(w)] # {}
           /\ \A r \in Records : r # Rec(w) => graph'[r] = graph[r]
<1>1. Rec(w) \in Records /\ job[w].content \in Contents /\ pc[w] = "graph"
  BY DEF UpsertGraph, UpsertFails, Proceed, TypeOK, LocalsOK, HoldsContent, DocSteps, Rec
<1>2. CASE UpsertGraph(w)
  <2>1. CASE graphUp
    <3>1. /\ UNCHANGED <<intel, snapshot, evaluated>>
          /\ pc' = [pc EXCEPT ![w] = "alerts"]
          /\ graph' = [graph EXCEPT ![Rec(w)] = @ \cup {job[w].content}]
      BY <1>2, <2>1 DEF UpsertGraph, Proceed, Goto
    <3> QED
      BY <1>1, <3>1 DEF TypeOK, StoresGrow
  <2>2. CASE ~graphUp
    BY <1>1, <1>2, <2>2 DEF UpsertGraph, Proceed, Goto, TypeOK, StoresGrow
  <2> QED
    BY <2>1, <2>2
<1>3. CASE UpsertFails(w)
  BY <1>1, <1>3 DEF UpsertFails, Proceed, Goto, TypeOK, StoresGrow
<1> QED
  BY <1>2, <1>3

LEMMA StepGrows == ASSUME TypeOK, NEW w \in Workers, Step(w) PROVE StoresGrow
<1>1. CASE UNCHANGED <<intel, graph, evaluated, snapshot>>
  BY <1>1 DEF StoresGrow
<1>2. CASE AlertsDone(w)
  BY <1>2 DEF AlertsDone, StoresGrow
<1>3. CASE WriteSnapshot(w)
  BY <1>3 DEF WriteSnapshot, StoresGrow
<1> QED
  BY <1>1, <1>2, <1>3, InsertGrows, UpsertGrows
     DEF Step, Start, Work, Trouble, stores, ExhaustStaleLeases, GraphReady, Claim,
         ClaimNothing, LoopCallFails, CheckContent, MarkOversized, Analyse, ReadWaits,
         MarkWaiting, InsertAlert, Broadcast, BroadcastFails, FinishRaw, FinishAckLost,
         CallFails, MarkFailed, MarkFailedFails, Crash, Stop, ReleaseOpenLeases

LEMMA OthersKeep ==
    ASSUME TypeOK, NEW w \in Workers, Step(w), NEW v \in Workers, v # w
    PROVE  pc'[v] = pc[v] /\ job'[v] = job[v]
BY DEF TypeOK, Step, Start, Work, Trouble, Proceed, Goto, Leave, local, ExhaustStaleLeases,
       GraphReady, Claim, ClaimNothing, LoopCallFails, CheckContent, MarkOversized, Analyse,
       InsertIntel, UpsertGraph, UpsertFails, ReadWaits, MarkWaiting, InsertAlert, Broadcast,
       BroadcastFails, AlertsDone, WriteSnapshot, FinishRaw, FinishAckLost, CallFails,
       MarkFailed, MarkFailedFails, Crash, Stop, ReleaseOpenLeases

\* The only steps that enter a state Progress speaks of, one by one.
LEMMA OwnProgress ==
    ASSUME TypeOK, IndexInv, NEW w \in Workers, Step(w)
    PROVE  Progress(w)'
<1> USE DEF Progress, Goto, Proceed, Rec
<1>1. Progress(w) /\ StoresGrow
  BY StepGrows DEF IndexInv
<1>2. pc \in [Workers -> LoopSteps \cup DocSteps] /\ job \in [Workers -> JobType]
  BY DEF TypeOK
<1>3. pc[w] \in DocSteps => Rec(w) \in Records
  BY DEF TypeOK, LocalsOK
<1>4. CASE pc'[w] \notin {"graph", "waits", "wait", "alerts", "snapshot", "finish"}
  BY <1>4
<1>5. CASE InsertIntel(w)
  BY <1>2, <1>5, InsertGrows DEF InsertIntel
<1>6. CASE UpsertGraph(w)
  <2>1. /\ pc[w] = "graph" /\ pc'[w] \in {"alerts", "waits"}
        /\ job'[w].rec = job[w].rec
    BY <1>2, <1>6 DEF UpsertGraph, JobType
  <2> QED
    BY <1>1, <1>3, <1>6, <2>1, UpsertGrows DEF StoresGrow, DocSteps
<1>7. CASE UpsertFails(w)
  BY <1>1, <1>2, <1>3, <1>7 DEF UpsertFails, StoresGrow, DocSteps
<1>8. CASE ReadWaits(w)
  <2>1. pc[w] = "waits" /\ pc'[w] = "wait" /\ job'[w].rec = job[w].rec /\ intel' = intel
    BY <1>2, <1>8 DEF ReadWaits, JobType, stores
  <2> QED
    BY <1>1, <2>1
<1>9. ASSUME NEW k \in Rules, InsertAlert(w, k) PROVE Progress(w)'
  <2>1. /\ pc[w] = "alerts" /\ pc' = pc /\ job'[w].rec = job[w].rec
        /\ UNCHANGED <<intel, graph>>
    BY <1>2, <1>9 DEF InsertAlert, JobType
  <2> QED
    BY <1>1, <2>1
<1>10. CASE Broadcast(w) \/ BroadcastFails(w)
  <2>1. /\ pc[w] = "alerts" /\ pc' = pc /\ job'[w].rec = job[w].rec
        /\ UNCHANGED <<intel, graph>>
    BY <1>2, <1>10 DEF Broadcast, BroadcastFails, JobType, stores
  <2> QED
    BY <1>1, <2>1
<1>11. CASE AlertsDone(w)
  BY <1>1, <1>2, <1>3, <1>11 DEF AlertsDone, DocSteps
<1>12. CASE WriteSnapshot(w)
  <2>1. /\ pc[w] = "snapshot" /\ pc'[w] = "finish" /\ job' = job
        /\ UNCHANGED <<intel, graph, evaluated>>
        /\ snapshot' = IF intel[Rec(w)] = None THEN snapshot ELSE snapshot \cup {Rec(w)}
    BY <1>2, <1>12 DEF WriteSnapshot
  <2> QED
    BY <1>1, <2>1
<1>13. CASE UNCHANGED <<pc, job>>
  BY <1>1, <1>3, <1>13 DEF StoresGrow, DocSteps
<1> QED
  BY <1>2, <1>4, <1>5, <1>6, <1>7, <1>8, <1>9, <1>10, <1>11, <1>12, <1>13
     DEF Step, Start, Work, Trouble, Leave, ExhaustStaleLeases, GraphReady, Claim,
         ClaimNothing, LoopCallFails, CheckContent, MarkOversized, Analyse, MarkWaiting,
         FinishRaw, FinishAckLost, CallFails, MarkFailed, MarkFailedFails, Crash, Stop,
         ReleaseOpenLeases

LEMMA CompletedBy ==
    ASSUME TypeOK, NEW w \in Workers, Step(w), NEW r \in Records,
           raw'[r].status = "completed"
    PROVE  \/ raw[r].status = "completed"
           \/ pc[w] = "finish" /\ Rec(w) = r
<1> USE DEF TypeOK, RawType, Update
<1>1. CASE UNCHANGED raw
  BY <1>1
<1>2. CASE ExhaustStaleLeases(w)
  <2>1. raw'[r].status \in {raw[r].status, "exhausted"}
    BY <1>2 DEF ExhaustStaleLeases
  <2> QED
    BY <2>1
<1>3. ASSUME NEW q \in Records, Claim(w, q)
      PROVE  raw[r].status = "completed"
  BY <1>3 DEF Claim
<1>4. CASE MarkOversized(w)
  BY <1>4 DEF MarkOversized
<1>5. CASE MarkWaiting(w)
  BY <1>5 DEF MarkWaiting
<1>6. CASE MarkFailed(w)
  BY <1>6 DEF MarkFailed
<1>7. CASE FinishRaw(w) \/ FinishAckLost(w)
  <2>1. CASE FinishRaw(w)
    <3>1. raw' = raw \/ \E d : raw' = [raw EXCEPT ![Rec(w)] = d]
      BY <2>1 DEF FinishRaw
    <3>2. pc[w] \in {"finish", "drop"}
      BY <2>1 DEF FinishRaw
    <3> QED
      BY <2>1, <3>1, <3>2 DEF FinishRaw, Finished
  <2>2. CASE FinishAckLost(w)
    BY <2>2 DEF FinishAckLost, Finished
  <2> QED
    BY <1>7, <2>1, <2>2
<1>8. CASE ReleaseOpenLeases(w)
  <2>1. raw'[r].status \in {raw[r].status, "pending"}
    BY <1>8 DEF ReleaseOpenLeases
  <2> QED
    BY <2>1
<1> QED
  BY <1>1, <1>2, <1>3, <1>4, <1>5, <1>6, <1>7, <1>8
     DEF Step, Start, Work, Trouble, GraphReady, ClaimNothing, LoopCallFails, CheckContent,
         Analyse, InsertIntel, UpsertGraph, UpsertFails, ReadWaits, InsertAlert, Broadcast,
         BroadcastFails, AlertsDone, WriteSnapshot, CallFails, MarkFailedFails, Crash, Stop

LEMMA IndexStep ==
    ASSUME TypeOK, IndexInv, NEW w \in Workers, Step(w)
    PROVE  IndexInv'
<1>1. StoresGrow
  BY StepGrows
<1>2. ASSUME NEW v \in Workers PROVE Progress(v)'
  <2>1. CASE v = w
    BY <2>1, OwnProgress
  <2>2. CASE v # w
    <3>1. pc'[v] = pc[v] /\ job'[v] = job[v] /\ Progress(v)
      BY <2>2, OthersKeep DEF IndexInv
    <3>2. pc[v] \in DocSteps => job[v].rec \in Records
      BY DEF TypeOK, LocalsOK
    <3> QED
      BY <1>1, <3>1, <3>2 DEF Progress, StoresGrow, Rec, DocSteps
  <2> QED
    BY <2>1, <2>2
<1>3. CompletedIsIndexed'
  <2> SUFFICES ASSUME NEW r \in Records, raw'[r].status = "completed"
               PROVE  /\ intel'[r] # None /\ graph'[r] # {}
                      /\ r \in snapshot' /\ r \in evaluated'
    BY DEF CompletedIsIndexed
  <2>1. intel[r] # None /\ graph[r] # {} /\ r \in snapshot /\ r \in evaluated
    BY CompletedBy DEF IndexInv, CompletedIsIndexed, Progress
  <2> QED
    BY <1>1, <2>1 DEF StoresGrow
<1>4. \A r \in Records : graph'[r] # {} => intel'[r] # None
  <2>1. CASE UpsertGraph(w) \/ UpsertFails(w)
    BY <1>1, <2>1, UpsertGrows
       DEF StoresGrow, UpsertGraph, UpsertFails, Proceed, IndexInv, Progress,
           NoDanglingReference
  <2>2. CASE graph' = graph
    BY <1>1, <2>2 DEF StoresGrow, IndexInv, NoDanglingReference
  <2> QED
    BY <2>1, <2>2
       DEF Step, Start, Work, Trouble, stores, ExhaustStaleLeases, GraphReady, Claim,
           ClaimNothing, LoopCallFails, CheckContent, MarkOversized, Analyse, InsertIntel,
           ReadWaits, MarkWaiting, InsertAlert, Broadcast, BroadcastFails, AlertsDone,
           WriteSnapshot, FinishRaw, FinishAckLost, CallFails, MarkFailed, MarkFailedFails,
           Crash, Stop, ReleaseOpenLeases
<1>5. \A a \in alerts' : graph'[a[1]] # {}
  <2>1. \A a \in alerts : graph'[a[1]] # {}
    BY <1>1 DEF StoresGrow, IndexInv, NoDanglingReference, TypeOK, Alerts
  <2>2. ASSUME NEW k \in Rules, InsertAlert(w, k) PROVE \A a \in alerts' : graph'[a[1]] # {}
    BY <2>1, <2>2 DEF InsertAlert, IndexInv, Progress
  <2>3. CASE alerts' = alerts
    BY <2>1, <2>3
  <2> QED
    BY <2>2, <2>3
       DEF Step, Start, Work, Trouble, stores, ExhaustStaleLeases, GraphReady, Claim,
           ClaimNothing, LoopCallFails, CheckContent, MarkOversized, Analyse, InsertIntel,
           UpsertGraph, UpsertFails, ReadWaits, MarkWaiting, Broadcast, BroadcastFails,
           AlertsDone, WriteSnapshot, FinishRaw, FinishAckLost, CallFails, MarkFailed,
           MarkFailedFails, Crash, Stop, ReleaseOpenLeases
<1> QED
  BY <1>2, <1>3, <1>4, <1>5 DEF IndexInv, NoDanglingReference

LEMMA IndexSurroundings ==
    ASSUME TypeOK, IndexInv, Surroundings
    PROVE  IndexInv'
<1>1. UNCHANGED <<pc, job, intel, graph, snapshot, evaluated>> /\ alerts' \subseteq alerts
  BY DEF Surroundings, Publish, RetryDeadLetter, LeaseExpires, TtlDelete, GraphFails,
         GraphRecovers, AlertExpires, stores, local
<1>2. ASSUME NEW r \in Records
      PROVE  raw'[r].status = "completed" => raw[r].status = "completed"
  <2>1. ASSUME NEW q \in Records, Publish(q) \/ RetryDeadLetter(q)
        PROVE  raw'[r].status \in {raw[r].status, "pending"}
    BY <2>1 DEF Publish, RetryDeadLetter, TypeOK, RawType
  <2>2. ASSUME NEW q \in Records, LeaseExpires(q)
        PROVE  raw'[r].status = raw[r].status
    BY <2>2 DEF LeaseExpires, TypeOK, RawType
  <2>3. ASSUME NEW q \in Records, TtlDelete(q)
        PROVE  raw'[r].status \in {raw[r].status, "deleted"}
    BY <2>3 DEF TtlDelete, TypeOK, RawType
  <2>4. CASE UNCHANGED raw
    BY <2>4
  <2> QED
    BY <2>1, <2>2, <2>3, <2>4 DEF Surroundings, GraphFails, GraphRecovers, AlertExpires
<1> QED
  BY <1>1, <1>2 DEF IndexInv, Progress, Rec, CompletedIsIndexed, NoDanglingReference

LEMMA IndexNext == TypeOK /\ IndexInv /\ [Next]_vars => IndexInv'
<1>1. ASSUME IndexInv, UNCHANGED vars PROVE IndexInv'
  BY <1>1 DEF vars, stores, local, IndexInv, Progress, Rec, CompletedIsIndexed,
              NoDanglingReference
<1> QED
  BY <1>1, NextCases, IndexStep, IndexSurroundings

LEMMA IndexInit == Init => IndexInv
BY DEF Init, IndexInv, Progress, CompletedIsIndexed, NoDanglingReference

\* A completed record is in MongoDB with its snapshot, in the graph and through
\* its alerts, whichever instances did the work and wherever they crashed.
THEOREM CompletionIsTruthful == Spec => []CompletedIsIndexed
<1>1. IndexInv => CompletedIsIndexed
  BY DEF IndexInv
<1> QED
  BY <1>1, IndexInit, IndexNext, TypeCorrect, PTL DEF Spec

\* The graph and the alerts refer only to intelligence MongoDB holds.
THEOREM ReferencesResolve == Spec => []NoDanglingReference
<1>1. IndexInv => NoDanglingReference
  BY DEF IndexInv
<1> QED
  BY <1>1, IndexInit, IndexNext, TypeCorrect, PTL DEF Spec
-----------------------------------------------------------------------------
(* Broadcasts.  An instance that inserted an alert owes its broadcast.  The   *)
(* broadcasts made of an alert and those still owed are together at most as   *)
(* many as the times the alert entered the history.                           *)

Owed(w) == <<Rec(w), job[w].cast>>

Debtors(a) == {w \in Workers : job[w].cast # None /\ Owed(w) = a}

Paid(a) ==
    /\ IsFiniteSet(Debtors(a))
    /\ sent[a] + Cardinality(Debtors(a)) <= Entered(a)

CastInv ==
    /\ \A w \in Workers : job[w].cast # None => pc[w] = "alerts"
    /\ \A a \in Alerts : Paid(a)

\* The numbers of CastInv are natural.
LEMMA CastNumbers ==
    ASSUME TypeOK, NEW a \in Alerts
    PROVE  /\ sent[a] \in Nat /\ expired[a] \in Nat /\ Entered(a) \in Nat
           /\ IsFiniteSet(Debtors(a)) => Cardinality(Debtors(a)) \in Nat
<1>1. sent[a] \in Nat /\ expired[a] \in Nat
  BY DEF TypeOK
<1>2. Entered(a) \in Nat
  BY <1>1 DEF Entered
<1> QED
  BY <1>1, <1>2, FS_CardinalityType

\* An alert that neither entered nor was broadcast and that nobody new owes.
LEMMA PaidKept ==
    ASSUME TypeOK, NEW a \in Alerts, Paid(a), Debtors(a)' \subseteq Debtors(a),
           sent'[a] = sent[a], Entered(a)' = Entered(a)
    PROVE  Paid(a)'
<1>1. /\ IsFiniteSet(Debtors(a)')
      /\ Cardinality(Debtors(a)') <= Cardinality(Debtors(a))
  BY FS_Subset DEF Paid
<1>2. Cardinality(Debtors(a)') \in Nat
  BY <1>1, FS_CardinalityType
<1>3. sent'[a] + Cardinality(Debtors(a)') <= Entered(a)'
  BY <1>1, <1>2, CastNumbers DEF Paid
<1> QED
  BY <1>1, <1>3 DEF Paid

\* Steps after which every instance owes what it owed or nothing.
LEMMA CastKept ==
    ASSUME TypeOK, CastInv, sent' = sent, \A a \in Alerts : Entered(a)' = Entered(a),
           \A v \in Workers :
              \/ job'[v].cast = None
              \/ pc'[v] = pc[v] /\ job'[v].cast = job[v].cast /\ job'[v].rec = job[v].rec
    PROVE  CastInv'
<1>1. \A v \in Workers : job'[v].cast # None => pc'[v] = "alerts"
  BY DEF CastInv
<1>2. ASSUME NEW a \in Alerts PROVE Paid(a)'
  <2>1. Debtors(a)' \subseteq Debtors(a)
    BY DEF Debtors, Owed, Rec
  <2> QED
    BY <2>1, PaidKept DEF CastInv
<1> QED
  BY <1>1, <1>2 DEF CastInv

LEMMA CastInsert ==
    ASSUME TypeOK, CastInv, NEW w \in Workers, NEW k \in Rules, InsertAlert(w, k)
    PROVE  CastInv'
<1>0. pc[w] = "alerts" /\ <<Rec(w), k>> \in Alerts
  BY DEF InsertAlert, Alerts, TypeOK, LocalsOK, DocSteps, Rec
<1> PICK a \in Alerts : a = <<Rec(w), k>>
  BY <1>0
<1>1. /\ pc[w] = "alerts" /\ UNCHANGED <<pc, sent, expired>> /\ alerts' = alerts \cup {a}
      /\ \A v \in Workers : v # w => job'[v] = job[v]
      /\ job[w].cast = None /\ job'[w].rec = job[w].rec
      /\ job'[w].cast = IF a \in alerts THEN None ELSE k
  BY DEF InsertAlert, TypeOK, JobType
<1>2. a \in Alerts
  OBVIOUS
<1>3. Owed(w)' = a \/ job'[w].cast = None
  BY <1>1 DEF Owed, Rec
<1>4. CASE a \in alerts
  <2>1. alerts' = alerts /\ job'[w].cast = None
    BY <1>1, <1>4
  <2>2. \A b \in Alerts : Entered(b)' = Entered(b)
    BY <1>1, <2>1 DEF Entered
  <2> QED
    BY <1>1, <2>1, <2>2, CastKept
<1>5. CASE a \notin alerts
  <2>1. \A v \in Workers : job'[v].cast # None => pc'[v] = "alerts"
    BY <1>1 DEF CastInv
  <2>2. ASSUME NEW b \in Alerts, b # a PROVE Paid(b)'
    <3>1. Debtors(b)' \subseteq Debtors(b)
      BY <1>1, <1>3, <2>2 DEF Debtors, Owed, Rec
    <3>2. Entered(b)' = Entered(b)
      BY <1>1, <2>2 DEF Entered
    <3> QED
      BY <1>1, <3>1, <3>2, PaidKept DEF CastInv
  <2>3. Paid(a)'
    <3>1. Debtors(a)' \subseteq Debtors(a) \cup {w}
      BY <1>1 DEF Debtors, Owed, Rec
    <3>2. IsFiniteSet(Debtors(a)) /\ w \notin Debtors(a)
      BY <1>1, <1>2 DEF CastInv, Paid, Debtors
    <3>3. /\ IsFiniteSet(Debtors(a) \cup {w})
          /\ Cardinality(Debtors(a) \cup {w}) = Cardinality(Debtors(a)) + 1
      BY <3>2, FS_AddElement
    <3>4. /\ IsFiniteSet(Debtors(a)')
          /\ Cardinality(Debtors(a)') <= Cardinality(Debtors(a)) + 1
      BY <3>1, <3>3, FS_Subset
    <3>5. Cardinality(Debtors(a)') \in Nat
      BY <3>4, FS_CardinalityType
    <3>6. Entered(a)' = Entered(a) + 1
      BY <1>1, <1>2, <1>5, CastNumbers DEF Entered
    <3>7. sent[a] + Cardinality(Debtors(a)) <= Entered(a) /\ sent'[a] = sent[a]
      BY <1>1, <1>2 DEF CastInv, Paid
    <3>8. sent'[a] + Cardinality(Debtors(a)') <= Entered(a)'
      BY <1>2, <3>2, <3>4, <3>5, <3>6, <3>7, CastNumbers
    <3> QED
      BY <3>4, <3>8 DEF Paid
  <2> QED
    BY <2>1, <2>2, <2>3 DEF CastInv
<1> QED
  BY <1>4, <1>5

LEMMA CastBroadcast ==
    ASSUME TypeOK, CastInv, NEW w \in Workers, Broadcast(w)
    PROVE  CastInv'
<1>0. job[w].cast # None /\ pc[w] = "alerts" /\ Owed(w) \in Alerts
  BY DEF Broadcast, Alerts, TypeOK, LocalsOK, JobType, DocSteps, Owed, Rec
<1> PICK a \in Alerts : a = Owed(w)
  BY <1>0
<1>1. /\ job[w].cast # None /\ pc[w] = "alerts" /\ UNCHANGED <<pc, alerts, expired>>
      /\ sent' = [sent EXCEPT ![a] = @ + 1]
      /\ \A v \in Workers : v # w => job'[v] = job[v]
      /\ job'[w].cast = None
  BY DEF Broadcast, TypeOK, JobType, Owed
<1>2. a \in Alerts
  OBVIOUS
<1>3. \A b \in Alerts : /\ Entered(b)' = Entered(b)
                        /\ Debtors(b)' = Debtors(b) \ {w}
  BY <1>1 DEF Entered, Debtors, Owed, Rec
<1>4. w \in Debtors(a)
  BY <1>1 DEF Debtors
<1>5. sent'[a] = sent[a] + 1 /\ \A b \in Alerts : b # a => sent'[b] = sent[b]
  BY <1>1, <1>2 DEF TypeOK
<1>6. \A v \in Workers : job'[v].cast # None => pc'[v] = "alerts"
  BY <1>1 DEF CastInv
<1>7. ASSUME NEW b \in Alerts, b # a PROVE Paid(b)'
  BY <1>3, <1>5, <1>7, PaidKept DEF CastInv
<1>8. Paid(a)'
  <2>1. IsFiniteSet(Debtors(a)) /\ sent[a] + Cardinality(Debtors(a)) <= Entered(a)
    BY <1>2 DEF CastInv, Paid
  <2>2. /\ IsFiniteSet(Debtors(a) \ {w})
        /\ Cardinality(Debtors(a) \ {w}) = Cardinality(Debtors(a)) - 1
    BY <1>4, <2>1, FS_RemoveElement
  <2>3. sent'[a] + Cardinality(Debtors(a)') <= Entered(a)'
    <3>1. Debtors(a)' = Debtors(a) \ {w} /\ Entered(a)' = Entered(a)
      BY <1>3
    <3>2. sent[a] \in Nat /\ Entered(a) \in Nat /\ Cardinality(Debtors(a)) \in Nat
      BY <2>1, CastNumbers
    <3> QED
      BY <1>5, <2>1, <2>2, <3>1, <3>2
  <2> QED
    BY <1>2, <1>3, <2>2, <2>3 DEF Paid
<1> QED
  BY <1>6, <1>7, <1>8 DEF CastInv

\* In every other step of w the broadcast it owes is dropped or stays owed.
LEMMA CastOther ==
    ASSUME TypeOK, CastInv, NEW w \in Workers, Step(w), ~Broadcast(w),
           \A k \in Rules : ~InsertAlert(w, k)
    PROVE  CastInv'
<1>1. UNCHANGED <<alerts, expired, sent>>
  BY DEF Step, Start, Work, Trouble, stores, ExhaustStaleLeases, GraphReady, Claim,
         ClaimNothing, LoopCallFails, CheckContent, MarkOversized, Analyse, InsertIntel,
         UpsertGraph, UpsertFails, ReadWaits, MarkWaiting, BroadcastFails, AlertsDone,
         WriteSnapshot, FinishRaw, FinishAckLost, CallFails, MarkFailed, MarkFailedFails,
         Crash, Stop, ReleaseOpenLeases
<1>2. pc[w] # "alerts" => job[w].cast = None
  BY DEF CastInv
<1>3. job \in [Workers -> JobType]
  BY DEF TypeOK
<1>4. \/ job'[w].cast = None
      \/ pc'[w] = pc[w] /\ job'[w].cast = job[w].cast /\ job'[w].rec = job[w].rec
  <2>1. CASE job' = job
    <3>1. CASE pc[w] # "alerts"
      BY <1>2, <2>1, <3>1
    <3>2. CASE pc[w] = "alerts" /\ (Crash(w) \/ Stop(w))
      BY <1>3, <3>2 DEF Crash, Stop, Leave, NoJob
    <3>3. CASE pc[w] = "alerts" /\ BroadcastFails(w)
      BY <1>3, <3>3 DEF BroadcastFails, JobType
    <3>4. CASE pc[w] = "alerts" /\ (AlertsDone(w) \/ CallFails(w))
      BY <2>1, <3>4 DEF AlertsDone, CallFails
    <3>5. pc[w] = "alerts" =>
             Crash(w) \/ Stop(w) \/ BroadcastFails(w) \/ AlertsDone(w) \/ CallFails(w)
      BY DEF Step, Start, Work, Trouble, Proceed, ExhaustStaleLeases,
             GraphReady, Claim, ClaimNothing, LoopCallFails, CheckContent, MarkOversized,
             Analyse, InsertIntel, UpsertGraph, UpsertFails, ReadWaits, MarkWaiting,
             WriteSnapshot, FinishRaw, FinishAckLost, MarkFailed, MarkFailedFails,
             ReleaseOpenLeases
    <3> QED
      BY <3>1, <3>2, <3>3, <3>4, <3>5
  <2>2. CASE job' = [job EXCEPT ![w] = NoJob]
    BY <1>3, <2>2 DEF NoJob
  <2>3. ASSUME NEW r \in Records, Claim(w, r) PROVE job'[w].cast = None
    BY <1>3, <2>3 DEF Claim, NoJob
  <2>4. CASE CheckContent(w)
    BY <1>2, <1>3, <2>4 DEF CheckContent, Proceed, JobType
  <2>5. CASE Analyse(w)
    BY <1>2, <1>3, <2>5 DEF Analyse, Proceed, JobType
  <2>6. CASE UpsertGraph(w)
    BY <1>2, <1>3, <2>6 DEF UpsertGraph, Proceed, JobType
  <2>7. CASE ReadWaits(w)
    BY <1>2, <1>3, <2>7 DEF ReadWaits, Proceed, JobType
  <2>8. CASE BroadcastFails(w)
    BY <1>3, <2>8 DEF BroadcastFails, JobType
  <2> QED
    BY <2>1, <2>2, <2>3, <2>4, <2>5, <2>6, <2>7, <2>8
       DEF Step, Start, Work, Trouble, Leave, ExhaustStaleLeases, GraphReady, ClaimNothing,
           LoopCallFails, MarkOversized, InsertIntel, UpsertFails, MarkWaiting, AlertsDone,
           WriteSnapshot, FinishRaw, FinishAckLost, CallFails, MarkFailed, MarkFailedFails,
           Crash, Stop, ReleaseOpenLeases
<1>5. \A a \in Alerts : Entered(a)' = Entered(a)
  BY <1>1 DEF Entered
<1> QED
  BY <1>1, <1>4, <1>5, OthersKeep, CastKept

LEMMA CastNext == TypeOK /\ CastInv /\ [Next]_vars => CastInv'
<1>1. ASSUME TypeOK, CastInv, UNCHANGED <<pc, job, sent>>,
             \A a \in Alerts : Entered(a)' = Entered(a)
      PROVE  CastInv'
  BY <1>1, CastKept
<1>2. ASSUME TypeOK, NEW e \in Alerts, AlertExpires(e)
      PROVE  UNCHANGED <<pc, job, sent>> /\ \A a \in Alerts : Entered(a)' = Entered(a)
  <2>1. UNCHANGED <<pc, job, sent>>
    BY <1>2 DEF AlertExpires, local
  <2>2. e \in alerts /\ alerts' = alerts \ {e} /\ expired' = [expired EXCEPT ![e] = @ + 1]
    BY <1>2 DEF AlertExpires
  <2> QED
    BY <1>2, <2>1, <2>2 DEF Entered, TypeOK
<1>3. Surroundings => \/ UNCHANGED <<pc, job, alerts, expired, sent>>
                      \/ \E e \in Alerts : AlertExpires(e)
  BY DEF Surroundings, Publish, RetryDeadLetter, LeaseExpires, TtlDelete, GraphFails,
         GraphRecovers, stores, local
<1>4. UNCHANGED vars => UNCHANGED <<pc, job, alerts, expired, sent>>
  BY DEF vars, stores, local
<1>5. UNCHANGED <<alerts, expired>> => \A a \in Alerts : Entered(a)' = Entered(a)
  BY DEF Entered
<1> QED
  BY <1>1, <1>2, <1>3, <1>4, <1>5, NextCases, CastInsert, CastBroadcast, CastOther

LEMMA CastInit == Init => CastInv
<1> SUFFICES ASSUME Init PROVE CastInv
  OBVIOUS
<1>1. \A a \in Alerts : Debtors(a) = {} /\ sent[a] = 0 /\ Entered(a) = 0
  BY DEF Init, Debtors, Entered, NoJob
<1>2. \A a \in Alerts : Paid(a)
  BY <1>1, FS_EmptySet DEF Paid
<1> QED
  BY <1>2 DEF Init, CastInv, NoJob

\* No alert is broadcast more often than it entered the history, for any number
\* of instances and replays, before and after the TTL index removed it.
THEOREM NoRepeatedBroadcast == Spec => []BroadcastAtMostOnce
<1>1. TypeOK /\ CastInv => BroadcastAtMostOnce
  <2> SUFFICES ASSUME TypeOK, CastInv, NEW a \in Alerts PROVE sent[a] <= Entered(a)
    BY DEF BroadcastAtMostOnce
  <2>1. IsFiniteSet(Debtors(a)) /\ sent[a] + Cardinality(Debtors(a)) <= Entered(a)
    BY DEF CastInv, Paid
  <2> QED
    BY <2>1, CastNumbers
<1> QED
  BY <1>1, CastInit, CastNext, TypeCorrect, PTL DEF Spec
============================================================================
