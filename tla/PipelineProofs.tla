--------------------------- MODULE PipelineProofs ---------------------------
(***************************************************************************)
(* Proofs about Pipeline, for any number of records, processes, retries    *)
(* and disturbances.                                                       *)
(***************************************************************************)
EXTENDS Pipeline, FiniteSetTheorems, TLAPS

LEMMA DisturbType ==
    ASSUME PipeTypeOK, NEW kind, Disturb(kind)
    PROVE  disturbed' \in 0..MaxDisturbed /\ worst' \in {"mild", "severe"}
BY ConstantsOK DEF PipeTypeOK, Disturb

LEMMA TypeStep ==
    ASSUME PipeTypeOK, NEW p \in Procs,
           (\E i \in Items : Submit(p, i)) \/ PipeStep(p)
    PROVE  PipeTypeOK'
<1> USE DEF PipeTypeOK, keys, calls, trouble, Proceed, Return, Steps, Outcomes
<1>1. CASE \E i \in Items : Submit(p, i)
  BY <1>1 DEF Submit
<1>2. CASE Reserve(p)
  BY <1>2, ConstantsOK DEF Reserve
<1>3. CASE Publish(p)
  <2>1. item[p] \in Items
    BY <1>3 DEF Publish
  <2>2. inserts' \in [Items -> Nat] /\ stored' \in SUBSET Items
    BY <1>3, <2>1 DEF Publish, Insert
  <2> QED
    BY <1>3, <2>2 DEF Publish
<1>4. CASE Release(p)
  BY <1>4, ConstantsOK DEF Release
<1>5. CASE Settle(p)
  BY <1>5, ConstantsOK DEF Settle, Settled
<1>6. CASE Commit(p)
  <2>1. key' \in [Items -> {"free", "pending", "done"}] /\ published' \in [Items -> Nat]
    BY <1>6 DEF Commit, Settled
  <2> QED
    BY <1>6, <2>1, ConstantsOK DEF Commit
<1> QED
  BY <1>1, <1>2, <1>3, <1>4, <1>5, <1>6 DEF PipeStep

LEMMA TypeTrouble ==
    ASSUME PipeTypeOK, NEW p \in Procs, PipeTrouble(p) \/ Die(p)
    PROVE  PipeTypeOK'
<1> USE DEF PipeTypeOK, keys, calls, Proceed, Return, Steps, Outcomes
<1>1. disturbed' \in 0..MaxDisturbed /\ worst' \in {"mild", "severe"}
  BY DisturbType DEF PipeTrouble, Die, ReserveFails, PublishFails, ReleaseFails,
                     SettleFails, CommitFails
<1>2. CASE ReserveFails(p)
  BY <1>1, <1>2, ConstantsOK DEF ReserveFails
<1>3. CASE PublishFails(p)
  <2>1. item[p] \in Items
    BY <1>3 DEF PublishFails
  <2>2. inserts' \in [Items -> Nat] /\ stored' \in SUBSET Items
    BY <1>3, <2>1 DEF PublishFails, Insert
  <2> QED
    BY <1>1, <1>3, <2>2 DEF PublishFails
<1>4. CASE ReleaseFails(p)
  BY <1>1, <1>4, ConstantsOK DEF ReleaseFails
<1>5. CASE SettleFails(p)
  BY <1>1, <1>5, ConstantsOK DEF SettleFails
<1>6. CASE CommitFails(p)
  <2>1. key' \in [Items -> {"free", "pending", "done"}]
    BY <1>6 DEF CommitFails, Settled
  <2>2. tries' \in [Procs -> 0..Retries]
    BY <1>6, ConstantsOK DEF CommitFails
  <2> QED
    BY <1>1, <1>6, <2>1, <2>2, ConstantsOK DEF CommitFails
<1>7. CASE Die(p)
  BY <1>1, <1>7, ConstantsOK DEF Die
<1> QED
  BY <1>2, <1>3, <1>4, <1>5, <1>6, <1>7 DEF PipeTrouble

LEMMA TypeSurroundings ==
    ASSUME PipeTypeOK, Elsewhere \/ \E i \in Items : PipeSurroundings(i)
    PROVE  PipeTypeOK'
<1> USE DEF PipeTypeOK, keys, calls, trouble, Steps, Outcomes
<1>1. CASE Elsewhere
  BY <1>1, DisturbType DEF Elsewhere
<1>2. ASSUME NEW i \in Items, PipeSurroundings(i)
      PROVE  PipeTypeOK'
  <2>1. CASE KeyExpires(i)
    BY <2>1 DEF KeyExpires
  <2>2. CASE RawExpires(i)
    BY <2>2, DisturbType DEF RawExpires
  <2>3. CASE Forget(i)
    BY <2>3, DisturbType DEF Forget
  <2> QED
    BY <1>2, <2>1, <2>2, <2>3 DEF PipeSurroundings
<1> QED
  BY <1>1, <1>2

LEMMA TypeNext == PipeTypeOK /\ [PipeNext]_pipeVars => PipeTypeOK'
<1> SUFFICES ASSUME PipeTypeOK, [PipeNext]_pipeVars PROVE PipeTypeOK'
  OBVIOUS
<1>1. CASE UNCHANGED pipeVars
  BY <1>1 DEF pipeVars, keys, calls, trouble, PipeTypeOK
<1>2. CASE PipeNext
  BY <1>2, TypeStep, TypeTrouble, TypeSurroundings DEF PipeNext
<1> QED
  BY <1>1, <1>2

\* Every reachable state is type correct: a call of process() always has its
\* record at hand, and commits are tried again at most Retries times.
THEOREM PipelineTypeCorrect == PipeSpec => []PipeTypeOK
<1>1. PipeInit => PipeTypeOK
  BY ConstantsOK DEF PipeInit, PipeTypeOK, Steps, Outcomes
<1> QED
  BY <1>1, TypeNext, PTL DEF PipeSpec
-----------------------------------------------------------------------------
(* The done mark. *)

Done(p) == step[p] \in {"settle", "commit"}

\* Why DoneMeansInserted holds: MongoDB holds only what was inserted, and a
\* process that is about to commit has seen its record inserted or matched.
InsertedInv ==
    /\ \A i \in Items : key[i] = "done" => inserts[i] > 0
    /\ \A i \in stored : inserts[i] > 0
    /\ \A p \in Procs : Done(p) => inserts[item[p]] > 0

LEMMA InsertGrows ==
    ASSUME PipeTypeOK, NEW i \in Items, Insert(i)
    PROVE  /\ inserts' \in [Items -> Nat]
           /\ \A j \in Items : inserts'[j] >= inserts[j]
           /\ (\A j \in stored : inserts[j] > 0) =>
                 inserts'[i] > 0 /\ \A j \in stored' : inserts'[j] > 0
BY DEF PipeTypeOK, Insert

LEMMA InsertedPublish ==
    ASSUME PipeTypeOK, InsertedInv, NEW p \in Procs, NEW to,
           Proceed(p, "publish", to), Insert(item[p]), key' = key
    PROVE  InsertedInv'
<1>1. item[p] \in Items /\ item' = item
  BY DEF Proceed, PipeTypeOK
<1>2. /\ inserts' \in [Items -> Nat]
      /\ \A j \in Items : inserts'[j] >= inserts[j]
      /\ inserts'[item[p]] > 0 /\ \A j \in stored' : inserts'[j] > 0
  BY <1>1, InsertGrows DEF InsertedInv
<1>3. \A i \in Items : inserts[i] > 0 => inserts'[i] > 0
  BY <1>2 DEF PipeTypeOK
<1>4. \A q \in Procs : Done(q)' => q = p \/ (Done(q) /\ item[q] \in Items)
  BY DEF Proceed, Done, PipeTypeOK
<1> QED
  BY <1>1, <1>2, <1>3, <1>4 DEF InsertedInv

LEMMA InsertedStep ==
    ASSUME PipeTypeOK, InsertedInv, NEW p \in Procs,
           (\E i \in Items : Submit(p, i)) \/ PipeStep(p) \/ PipeTrouble(p) \/ Die(p)
    PROVE  InsertedInv'
<1> USE DEF InsertedInv, Done, keys, Proceed, Return
<1>1. CASE \E i \in Items : Submit(p, i)
  BY <1>1 DEF Submit, PipeTypeOK
<1>2. CASE Reserve(p) \/ ReserveFails(p)
  <2>1. \A i \in Items : key'[i] = "done" => key[i] = "done"
    BY <1>2 DEF Reserve, ReserveFails, PipeTypeOK
  <2>2. UNCHANGED <<stored, inserts>>
    BY <1>2 DEF Reserve, ReserveFails
  <2>3. \A q \in Procs : Done(q)' => Done(q) /\ item'[q] = item[q]
    BY <1>2 DEF Reserve, ReserveFails, PipeTypeOK
  <2> QED
    BY <2>1, <2>2, <2>3
<1>3. CASE Publish(p)
  BY <1>3, InsertedPublish DEF Publish
<1>4. CASE PublishFails(p)
  <2>1. CASE Insert(item[p])
    BY <1>4, <2>1, InsertedPublish DEF PublishFails
  <2>2. CASE UNCHANGED <<stored, inserts>>
    BY <1>4, <2>2 DEF PublishFails, PipeTypeOK
  <2> QED
    BY <1>4, <2>1, <2>2 DEF PublishFails
<1>5. CASE Release(p) \/ ReleaseFails(p) \/ SettleFails(p) \/ Die(p)
  <2>1. \A i \in Items : key'[i] = "done" => key[i] = "done"
    BY <1>5 DEF Release, ReleaseFails, SettleFails, Die, PipeTypeOK
  <2>2. UNCHANGED <<stored, inserts>>
    BY <1>5 DEF Release, ReleaseFails, SettleFails, Die
  <2>3. \A q \in Procs : Done(q)' => Done(q) /\ item'[q] = item[q]
    BY <1>5 DEF Release, ReleaseFails, SettleFails, Die, PipeTypeOK
  <2> QED
    BY <2>1, <2>2, <2>3
<1>6. CASE Settle(p) \/ Commit(p) \/ CommitFails(p)
  <2>1. item[p] \in Items /\ Done(p)
    BY <1>6 DEF Settle, Commit, CommitFails, PipeTypeOK
  <2>2. \A i \in Items : key'[i] = "done" => key[i] = "done" \/ i = item[p]
    BY <1>6 DEF Settle, Commit, CommitFails, Settled, PipeTypeOK
  <2>3. UNCHANGED <<stored, inserts>>
    BY <1>6 DEF Settle, Commit, CommitFails
  <2>4. \A q \in Procs : Done(q)' => Done(q) /\ item'[q] = item[q]
    BY <1>6 DEF Settle, Commit, CommitFails, PipeTypeOK
  <2> QED
    BY <2>1, <2>2, <2>3, <2>4
<1> HIDE DEF InsertedInv, Done, keys, Proceed, Return
<1> QED
  BY <1>1, <1>2, <1>3, <1>4, <1>5, <1>6 DEF PipeStep, PipeTrouble

LEMMA InsertedNext ==
    ASSUME PipeTypeOK, InsertedInv, [PipeNext]_pipeVars
    PROVE  InsertedInv'
<1> USE DEF InsertedInv, Done
<1>1. CASE UNCHANGED pipeVars \/ Elsewhere
  BY <1>1 DEF pipeVars, keys, calls, Elsewhere
<1>2. ASSUME NEW i \in Items, PipeSurroundings(i)
      PROVE  InsertedInv'
  <2>1. \A j \in Items : key'[j] = "done" => key[j] = "done"
    BY <1>2 DEF PipeSurroundings, KeyExpires, RawExpires, Forget, PipeTypeOK
  <2>2. stored' \subseteq stored /\ UNCHANGED <<inserts, step, item>>
    BY <1>2 DEF PipeSurroundings, KeyExpires, RawExpires, Forget, calls
  <2> QED
    BY <2>1, <2>2
<1> QED
  BY <1>1, <1>2, InsertedStep DEF PipeNext

LEMMA AlwaysInserted == PipeSpec => []InsertedInv
<1>1. PipeInit => InsertedInv
  BY DEF PipeInit, InsertedInv, Done
<1>2. PipeTypeOK /\ InsertedInv /\ [PipeNext]_pipeVars => InsertedInv'
  BY InsertedNext
<1> QED
  BY <1>1, <1>2, PipelineTypeCorrect, PTL DEF PipeSpec

\* Whatever fails, expires or crashes, the mark that hides a record for 90 days
\* is set only for a record that raw_ingest received.
THEOREM MarkedIsInserted == PipeSpec => []DoneMeansInserted
<1>1. InsertedInv => DoneMeansInserted
  BY DEF InsertedInv, DoneMeansInserted, Ever
<1> QED
  BY <1>1, AlwaysInserted, PTL
-----------------------------------------------------------------------------
(* Reservations. *)

Owns(p, i) == item[p] = i /\ step[p] \in {"publish", "release", "settle", "commit"}

\* As PendingHasOwner says it, which is inductive by itself.
Owned == \A i \in Items : key[i] = "pending" => \E p \in Procs : Owns(p, i)

\* A step that makes no key pending but one its process owns, and by which a
\* process gives up no record whose key stays pending, keeps every owner.
LEMMA OwnersStay ==
    ASSUME Owned,
           \A i \in Items : key'[i] = "pending" =>
              \/ \E p \in Procs : Owns(p, i)'
              \/ key[i] = "pending" /\ \A p \in Procs : Owns(p, i) => Owns(p, i)'
    PROVE  Owned'
BY DEF Owned

LEMMA OwnedStep ==
    ASSUME PipeTypeOK, Owned, NEW p \in Procs, worst' = "mild",
           (\E i \in Items : Submit(p, i)) \/ PipeStep(p) \/ PipeTrouble(p) \/ Die(p)
    PROVE  Owned'
<1> USE DEF Owns, keys, Proceed, Return, PipeTypeOK
<1>1. CASE \E i \in Items : Submit(p, i)
  BY <1>1, OwnersStay DEF Submit
<1>2. CASE Reserve(p)
  BY <1>2, OwnersStay DEF Reserve
<1>3. CASE Publish(p)
  BY <1>3, OwnersStay DEF Publish
<1>4. CASE PublishFails(p)
  BY <1>4, OwnersStay DEF PublishFails
<1>5. CASE Release(p)
  BY <1>5, OwnersStay DEF Release
<1>6. CASE Settle(p)
  BY <1>6, OwnersStay DEF Settle, Settled
<1>7. CASE Commit(p)
  BY <1>7, OwnersStay DEF Commit, Settled
<1>8. CASE ReserveFails(p) \/ ReleaseFails(p) \/ SettleFails(p) \/ CommitFails(p) \/ Die(p)
  <2>1. \E kind \in {"redis", "lost_ack", "crash"} : Disturb(kind)
    BY <1>8 DEF ReserveFails, ReleaseFails, SettleFails, CommitFails, Die
  <2> QED
    BY <2>1 DEF Disturb, MildKinds
<1> HIDE DEF Owns, keys, Proceed, Return, PipeTypeOK
<1> QED
  BY <1>1, <1>2, <1>3, <1>4, <1>5, <1>6, <1>7, <1>8 DEF PipeStep, PipeTrouble

LEMMA WorstStays ==
    ASSUME PipeTypeOK, [PipeNext]_pipeVars, worst' = "mild"
    PROVE  worst = "mild"
<1> USE DEF PipeTypeOK
<1>1. ASSUME NEW kind, Disturb(kind) PROVE worst = "mild"
  BY <1>1 DEF Disturb
<1>2. ASSUME NEW p \in Procs, Die(p) \/ PipeTrouble(p) PROVE worst = "mild"
  BY <1>1, <1>2 DEF Die, PipeTrouble, ReserveFails, PublishFails, ReleaseFails,
                    SettleFails, CommitFails
<1>3. ASSUME NEW p \in Procs, (\E i \in Items : Submit(p, i)) \/ PipeStep(p)
      PROVE  worst = "mild"
  BY <1>3 DEF Submit, PipeStep, Reserve, Publish, Release, Settle, Commit, trouble
<1>4. ASSUME NEW i \in Items, PipeSurroundings(i) PROVE worst = "mild"
  BY <1>1, <1>4 DEF PipeSurroundings, KeyExpires, RawExpires, Forget, trouble
<1>5. CASE UNCHANGED pipeVars \/ Elsewhere
  BY <1>1, <1>5 DEF pipeVars, trouble, Elsewhere
<1> QED
  BY <1>2, <1>3, <1>4, <1>5 DEF PipeNext

LEMMA OwnedNext ==
    ASSUME PipeTypeOK, PendingHasOwner, [PipeNext]_pipeVars
    PROVE  PendingHasOwner'
<1> SUFFICES ASSUME worst' = "mild" PROVE Owned'
  BY DEF PendingHasOwner, Owned, Owns
<1>1. Owned
  BY WorstStays DEF PendingHasOwner, Owned, Owns
<1>2. CASE UNCHANGED pipeVars \/ Elsewhere
  BY <1>1, <1>2 DEF Owned, Owns, pipeVars, keys, calls, Elsewhere
<1>3. ASSUME NEW i \in Items, PipeSurroundings(i)
      PROVE  Owned'
  <2>1. /\ UNCHANGED <<step, item>>
        /\ \A j \in Items : key'[j] = "pending" => key[j] = "pending"
    BY <1>3 DEF PipeSurroundings, KeyExpires, RawExpires, Forget, calls, PipeTypeOK
  <2> QED
    BY <1>1, <2>1 DEF Owned, Owns
<1> QED
  BY <1>1, <1>2, <1>3, OwnedStep DEF PipeNext

\* As long as Redis answered and no process died, a pending key always has a
\* process that will commit or release it, although keys expire under slow
\* processes and any process may delete the pending key of another.
THEOREM ReservationsHaveOwners == PipeSpec => []PendingHasOwner
<1>1. PipeInit => PendingHasOwner
  BY DEF PipeInit, PendingHasOwner
<1>2. PipeTypeOK /\ PendingHasOwner /\ [PipeNext]_pipeVars => PendingHasOwner'
  BY OwnedNext
<1> QED
  BY <1>1, <1>2, PipelineTypeCorrect, PTL DEF PipeSpec
-----------------------------------------------------------------------------
(* The counts. *)

Committers(i) == {p \in Procs : step[p] = "commit" /\ item[p] = i}

\* An insert is owed one PUBLISHED outcome at most, by the process that made it.
CountInv ==
    \A i \in Items : published[i] + Cardinality(Committers(i)) <= inserts[i]

LEMMA CommittersFinite ==
    \A i : IsFiniteSet(Committers(i)) /\ Cardinality(Committers(i)) \in Nat
<1>1. \A i : Committers(i) \in SUBSET Procs
  BY DEF Committers
<1> QED
  BY <1>1, FS_Subset, FS_CardinalityType, ConstantsOK

LEMMA FewerCommitters ==
    ASSUME PipeTypeOK, PipeTypeOK', CountInv,
           \A i \in Items : /\ Committers(i)' \subseteq Committers(i)
                            /\ published'[i] = published[i] /\ inserts'[i] >= inserts[i]
    PROVE  CountInv'
<1>1. \A i \in Items : /\ Cardinality(Committers(i)') <= Cardinality(Committers(i))
                       /\ Cardinality(Committers(i)') \in Nat
                       /\ Cardinality(Committers(i)) \in Nat
  BY CommittersFinite, FS_Subset, FS_CardinalityType
<1> QED
  BY <1>1 DEF CountInv, PipeTypeOK

LEMMA CountPublish ==
    ASSUME PipeTypeOK, PipeTypeOK', CountInv, NEW p \in Procs, Publish(p)
    PROVE  CountInv'
<1> DEFINE j == item[p]
<1>1. j \in Items /\ item' = item /\ published' = published
  BY DEF Publish, Proceed, PipeTypeOK
<1>2. CASE j \in stored
  <2>1. \A i \in Items : Committers(i)' \subseteq Committers(i) /\ inserts'[i] = inserts[i]
    BY <1>1, <1>2 DEF Publish, Insert, Proceed, Committers, PipeTypeOK
  <2> QED
    BY <1>1, <2>1, FewerCommitters DEF PipeTypeOK
<1>3. CASE j \notin stored
  <2>1. Committers(j)' = Committers(j) \cup {p} /\ p \notin Committers(j)
    BY <1>1, <1>3 DEF Publish, Proceed, Committers, PipeTypeOK
  <2>2. inserts'[j] = inserts[j] + 1
    BY <1>1, <1>3 DEF Publish, Insert, PipeTypeOK
  <2>3. Cardinality(Committers(j)') = Cardinality(Committers(j)) + 1
    BY <2>1, CommittersFinite, FS_AddElement
  <2>4. \A i \in Items \ {j} :
           Committers(i)' = Committers(i) /\ inserts'[i] = inserts[i]
    BY <1>1 DEF Publish, Insert, Proceed, Committers, PipeTypeOK
  <2>5. ASSUME NEW i \in Items
        PROVE  published'[i] + Cardinality(Committers(i)') <= inserts'[i]
    <3>1. /\ published[i] \in Nat /\ inserts[i] \in Nat
          /\ Cardinality(Committers(i)) \in Nat
          /\ published[i] + Cardinality(Committers(i)) <= inserts[i]
      BY CommittersFinite DEF PipeTypeOK, CountInv
    <3>2. CASE i = j
      BY <1>1, <2>2, <2>3, <3>1, <3>2
    <3>3. CASE i # j
      BY <1>1, <2>4, <3>1, <3>3
    <3> QED
      BY <3>2, <3>3
  <2> QED
    BY <2>5 DEF CountInv
<1> QED
  BY <1>2, <1>3

LEMMA CountCommit ==
    ASSUME PipeTypeOK, PipeTypeOK', CountInv, NEW p \in Procs, Commit(p)
    PROVE  CountInv'
<1>0. PICK j \in Items : j = item[p]
  BY DEF Commit, Return, PipeTypeOK
<1>1. inserts' = inserts
  BY DEF Commit
<1>2. Committers(j)' = Committers(j) \ {p} /\ p \in Committers(j)
  <2>1. step[p] = "commit" /\ step'[p] = "idle"
    BY DEF Commit, Return, PipeTypeOK
  <2>2. \A q \in Procs \ {p} : step'[q] = step[q] /\ item'[q] = item[q]
    BY DEF Commit, Return, PipeTypeOK
  <2> QED
    BY <1>0, <2>1, <2>2 DEF Committers
<1>3. published'[j] = published[j] + 1
  BY <1>0 DEF Commit, PipeTypeOK
<1>4. Cardinality(Committers(j)') = Cardinality(Committers(j)) - 1
  BY <1>2, CommittersFinite, FS_RemoveElement
<1>5. \A i \in Items \ {j} : Committers(i)' = Committers(i) /\ published'[i] = published[i]
  BY <1>0, ConstantsOK DEF Commit, Return, Committers, PipeTypeOK
<1>6. ASSUME NEW i \in Items
      PROVE  published'[i] + Cardinality(Committers(i)') <= inserts'[i]
  <2>1. /\ published[i] \in Nat /\ inserts[i] \in Nat
        /\ Cardinality(Committers(i)) \in Nat
        /\ published[i] + Cardinality(Committers(i)) <= inserts[i]
    BY CommittersFinite DEF PipeTypeOK, CountInv
  <2>2. CASE i = j
    <3>1. /\ published'[i] = published[i] + 1 /\ inserts'[i] = inserts[i]
          /\ Cardinality(Committers(i)') = Cardinality(Committers(i)) - 1
      BY <1>1, <1>3, <1>4, <2>2
    <3> QED
      BY <2>1, <3>1
  <2>3. CASE i # j
    BY <1>1, <1>5, <2>1, <2>3
  <2> QED
    BY <2>2, <2>3
<1> QED
  BY <1>6 DEF CountInv

LEMMA CountOther ==
    ASSUME PipeTypeOK, PipeTypeOK', CountInv, NEW p \in Procs,
           \/ (\E i \in Items : Submit(p, i)) \/ Reserve(p) \/ Release(p) \/ Settle(p)
           \/ PipeTrouble(p) \/ Die(p)
    PROVE  CountInv'
<1> USE DEF Committers, keys, Proceed, Return, PipeTypeOK
<1>1. CASE \E i \in Items : Submit(p, i)
  BY <1>1, FewerCommitters DEF Submit
<1>2. CASE Reserve(p) \/ ReserveFails(p)
  BY <1>2, FewerCommitters DEF Reserve, ReserveFails
<1>3. CASE PublishFails(p)
  BY <1>3, FewerCommitters DEF PublishFails, Insert
<1>4. CASE Release(p) \/ ReleaseFails(p) \/ Settle(p) \/ SettleFails(p)
  BY <1>4, FewerCommitters DEF Release, ReleaseFails, Settle, SettleFails
<1>5. CASE CommitFails(p)
  BY <1>5, FewerCommitters DEF CommitFails
<1>6. CASE Die(p)
  BY <1>6, FewerCommitters DEF Die
<1> HIDE DEF Committers, keys, Proceed, Return, PipeTypeOK
<1> QED
  BY <1>1, <1>2, <1>3, <1>4, <1>5, <1>6 DEF PipeTrouble

LEMMA CountNext ==
    ASSUME PipeTypeOK, PipeTypeOK', CountInv, [PipeNext]_pipeVars
    PROVE  CountInv'
<1>1. CASE UNCHANGED pipeVars \/ Elsewhere \/ \E i \in Items : PipeSurroundings(i)
  <2>1. UNCHANGED <<inserts, published, step, item>>
    BY <1>1 DEF pipeVars, keys, calls, Elsewhere, PipeSurroundings, KeyExpires,
                RawExpires, Forget
  <2>2. \A i \in Items : Committers(i)' \subseteq Committers(i) /\ inserts'[i] >= inserts[i]
    BY <2>1 DEF Committers, PipeTypeOK
  <2> QED
    BY <2>1, <2>2, FewerCommitters
<1> QED
  BY <1>1, CountPublish, CountCommit, CountOther DEF PipeNext, PipeStep

\* For any number of processes that submit a record again and again, lose
\* acknowledgements and crash, it is reported as published at most once for
\* each time raw_ingest inserted it.
THEOREM NoInsertReportedTwice == PipeSpec => []PublishedOncePerInsert
<1>1. PipeInit => CountInv
  <2> SUFFICES ASSUME PipeInit, NEW i \in Items
               PROVE  published[i] + Cardinality(Committers(i)) <= inserts[i]
    BY DEF CountInv
  <2>1. Committers(i) = {}
    BY DEF PipeInit, Committers
  <2> QED
    BY <2>1, FS_EmptySet DEF PipeInit
<1>2. PipeTypeOK /\ PipeTypeOK' /\ CountInv /\ [PipeNext]_pipeVars => CountInv'
  BY CountNext
<1>3. PipeTypeOK /\ CountInv => PublishedOncePerInsert
  BY CommittersFinite DEF CountInv, PublishedOncePerInsert, PipeTypeOK
<1> QED
  BY <1>1, <1>2, <1>3, PipelineTypeCorrect, PTL DEF PipeSpec
-----------------------------------------------------------------------------
(* The answers a caller gets, and what it may conclude from them. *)

\* One process collects.
Lone == \A p, q \in Procs : p = q

\* What was inserted once stays so.
LEMMA EverGrows ==
    ASSUME PipeTypeOK, [PipeNext]_pipeVars
    PROVE  Ever \subseteq Ever'
<1>1. ASSUME NEW i \in Items, Insert(i) PROVE \A j \in Items : inserts'[j] >= inserts[j]
  BY <1>1, InsertGrows
<1>2. UNCHANGED inserts \/ \E p \in Procs : item[p] \in Items /\ Insert(item[p])
  <2>1. ASSUME NEW p \in Procs, Publish(p) \/ PublishFails(p)
        PROVE  UNCHANGED inserts \/ (item[p] \in Items /\ Insert(item[p]))
    BY <2>1 DEF Publish, PublishFails, Proceed, PipeTypeOK
  <2>2. ASSUME NEW p \in Procs,
               \/ (\E i \in Items : Submit(p, i)) \/ PipeStep(p) \/ PipeTrouble(p) \/ Die(p),
               ~Publish(p), ~PublishFails(p)
        PROVE  UNCHANGED inserts
    BY <2>2 DEF Submit, PipeStep, PipeTrouble, Reserve, Release, Settle, Commit, ReserveFails,
                ReleaseFails, SettleFails, CommitFails, Die, keys
  <2>3. CASE UNCHANGED pipeVars \/ Elsewhere \/ \E i \in Items : PipeSurroundings(i)
    BY <2>3 DEF pipeVars, keys, Elsewhere, PipeSurroundings, KeyExpires, RawExpires, Forget
  <2> QED
    BY <2>1, <2>2, <2>3 DEF PipeNext
<1>3. \A j \in Items : inserts[j] \in Nat /\ (inserts'[j] = inserts[j] \/ inserts'[j] >= inserts[j])
  BY <1>1, <1>2 DEF PipeTypeOK
<1>4. \A j \in Items : inserts'[j] \in Nat
  BY TypeNext DEF PipeTypeOK
<1> QED
  BY <1>3, <1>4 DEF Ever

\* A lone process that is told its record is published or a duplicate may take
\* it for inserted: the key was not pending, as it would be its own.
LEMMA LoneCallEnds ==
    ASSUME PipeTypeOK, InsertedInv, PendingHasOwner, Lone, NEW p \in Procs,
           PipeStep(p) \/ PipeTrouble(p), worst = "mild"
    PROVE  /\ item[p] \in Items /\ step[p] # "idle"
           /\ \/ step'[p] # "idle" /\ item'[p] = item[p]
              \/ step'[p] = "idle" /\ outcome'[p] = "raised"
              \/ step'[p] = "idle" /\ item[p] \in Ever
<1> USE DEF Proceed, Return, PipeTypeOK
<1>1. item[p] \in Items /\ step[p] # "idle"
  BY DEF PipeStep, PipeTrouble, Reserve, Publish, Release, Settle, Commit, ReserveFails,
         PublishFails, ReleaseFails, SettleFails, CommitFails
<1>2. CASE Reserve(p)
  <2>1. CASE key[item[p]] = "free"
    BY <1>2, <2>1 DEF Reserve
  <2>2. CASE key[item[p]] = "pending"
    BY <1>1, <1>2, <2>2 DEF Reserve, PendingHasOwner, Lone
  <2>3. CASE key[item[p]] = "done"
    <3>1. item[p] \in Ever
      BY <1>1, <2>3 DEF InsertedInv, Ever
    <3> QED
      BY <1>1, <1>2, <2>3, <3>1 DEF Reserve
  <2> QED
    BY <1>1, <2>1, <2>2, <2>3
<1>3. CASE Settle(p) \/ Commit(p)
  <2>1. item[p] \in Ever
    BY <1>1, <1>3 DEF Settle, Commit, InsertedInv, Done, Ever
  <2> QED
    BY <1>1, <1>3, <2>1 DEF Settle, Commit
<1>4. CASE Publish(p) \/ PublishFails(p)
  BY <1>1, <1>4 DEF Publish, PublishFails
<1>5. CASE Release(p) \/ ReserveFails(p) \/ ReleaseFails(p) \/ SettleFails(p)
  BY <1>1, <1>5 DEF Release, ReserveFails, ReleaseFails, SettleFails
<1>6. CASE CommitFails(p)
  BY <1>1, <1>6 DEF CommitFails
<1> QED
  BY <1>2, <1>3, <1>4, <1>5, <1>6 DEF PipeStep, PipeTrouble
=============================================================================
