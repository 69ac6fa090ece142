------------------------ MODULE EvidenceLedgerProofs ------------------------
(***************************************************************************)
(* Proofs about EvidenceLedger, for any number of requests, payloads,      *)
(* rounds and disturbances.                                                *)
(***************************************************************************)
EXTENDS EvidenceLedger, FiniteSetTheorems, SequenceTheorems, TLAPS

LEMMA DisturbType ==
    ASSUME TypeOK, NEW kind, Disturb(kind)
    PROVE  disturbed' \in 0..MaxDisturbed
BY ConstantsOK DEF TypeOK, Disturb

\* A request has used up its rounds only when it ended in conflict.
Typed ==
    /\ TypeOK
    /\ IsFiniteSet(ledger)
    /\ \A q \in Requests : pc[q] # "conflict" => round[q] < Tries

LEMMA TypeCalls ==
    ASSUME Typed, NEW q \in Requests,
           (\E h \in Hashes : Receive(q, h)) \/ Audit(q) \/ Look(q) \/ ReadLast(q)
    PROVE  Typed'
<1> USE DEF Typed, TypeOK, Goto, stores, locals, Steps
<1>1. CASE \E h \in Hashes : Receive(q, h)
  BY <1>1 DEF Receive
<1>2. CASE Audit(q)
  <2>1. Cardinality(ledger) \in Nat
    BY FS_CardinalityType
  <2> QED
    BY <1>2, <2>1 DEF Audit
<1>3. CASE Look(q)
  BY <1>3 DEF Look, Sealed
<1>4. CASE ReadLast(q)
  <2>1. prev' \in [Requests -> Hashes \cup {None}]
    BY <1>4 DEF ReadLast, IsLast, Entry
  <2> QED
    BY <1>4, <2>1 DEF ReadLast
<1> QED
  BY <1>1, <1>2, <1>3, <1>4

LEMMA TypeInsert ==
    ASSUME Typed, NEW q \in Requests,
           Stamp(q) \/ Insert(q) \/ Refused(q) \/ WriteManifest(q) \/ InsertAckLost(q)
    PROVE  Typed'
<1> USE DEF Typed, TypeOK, Goto, stores, locals, Steps
<1>1. CASE Stamp(q)
  BY <1>1 DEF Stamp
<1>2. ASSUME pc[q] = "insert", ledger' = ledger \cup {NewEntry(q)}
      PROVE  ledger' \in SUBSET Entry /\ IsFiniteSet(ledger')
  <2>1. NewEntry(q) \in Entry
    BY <1>2 DEF NewEntry, Entry
  <2> QED
    BY <1>2, <2>1, FS_AddElement
<1>3. CASE Insert(q)
  BY <1>2, <1>3 DEF Insert, Sealed
<1>4. CASE Refused(q)
  <2>1. round' \in [Requests -> 0..Tries]
    <3>1. round[q] + 1 \in 0..Tries
      BY <1>4, ConstantsOK DEF Refused
    <3> QED
      BY <1>4, <3>1 DEF Refused
  <2>2. \A p \in Requests : pc'[p] # "conflict" => round'[p] < Tries
    BY <1>4, ConstantsOK DEF Refused
  <2> QED
    BY <1>4, <2>1, <2>2 DEF Refused
<1>5. CASE WriteManifest(q)
  BY <1>5 DEF WriteManifest
<1>6. CASE InsertAckLost(q)
  BY <1>2, <1>6, DisturbType DEF InsertAckLost
<1> QED
  BY <1>1, <1>3, <1>4, <1>5, <1>6

LEMMA TypeOutside ==
    ASSUME Typed, Crash \/ \E q \in Requests : CallFails(q) \/ Resend(q)
    PROVE  Typed'
<1> USE DEF Typed, TypeOK, stores, locals, Steps
<1>1. CASE Crash
  <2>1. pc' \in [Requests -> Steps]
    BY <1>1 DEF Crash
  <2>2. \A q \in Requests : pc'[q] # "conflict" => pc[q] # "conflict"
    BY <1>1 DEF Crash, InFlight
  <2>3. disturbed' \in 0..MaxDisturbed
    BY <1>1, DisturbType DEF Crash
  <2>4. \A q \in Requests : pc'[q] # "new" => pc[q] # "new"
    BY <1>1 DEF Crash, InFlight
  <2> QED
    BY <1>1, <2>1, <2>2, <2>3, <2>4 DEF Crash
<1>2. ASSUME NEW q \in Requests, CallFails(q) PROVE Typed'
  BY <1>2, DisturbType DEF CallFails
<1>3. ASSUME NEW q \in Requests, Resend(q) PROVE Typed'
  BY <1>3, ConstantsOK DEF Resend
<1> QED
  BY <1>1, <1>2, <1>3

LEMMA TypeNext == Typed /\ [Next]_vars => Typed'
<1> SUFFICES ASSUME Typed, [Next]_vars PROVE Typed'
  OBVIOUS
<1>1. CASE UNCHANGED vars
  BY <1>1 DEF vars, stores, locals, Typed, TypeOK
<1>2. CASE Next
  BY <1>1, <1>2, TypeCalls, TypeInsert, TypeOutside DEF Next, Work
<1> QED
  BY <1>1, <1>2

LEMMA TypeInit == Init => Typed
<1> SUFFICES ASSUME Init PROVE Typed
  OBVIOUS
<1>1. IsFiniteSet(ledger)
  BY FS_EmptySet, FS_Singleton DEF Init
<1> QED
  BY <1>1, ConstantsOK DEF Init, Typed, TypeOK, Steps, Entry

LEMMA AlwaysTyped == Spec => []Typed
BY TypeInit, TypeNext, PTL DEF Spec

\* Every reachable state is type correct: a request has its payload at hand and
\* never more than Tries lost rounds.
THEOREM LedgerTypeCorrect == Spec => []TypeOK
<1>1. Typed => TypeOK
  BY DEF Typed
<1> QED
  BY <1>1, AlwaysTyped, PTL
-----------------------------------------------------------------------------
(* Deliveries. *)

Known == {"look", "last", "stamp", "insert", "manifest", "ok", "conflict"}
InLedger(h) == \E e \in ledger : e.hash = h

\* Each call of a request is made only after the one before it took effect.
DeliveryInv ==
    /\ \A q \in Requests :
          /\ pc[q] \in Known => hash[q] \in audited
          /\ pc[q] \in {"manifest", "ok"} => InLedger(hash[q])
          /\ pc[q] = "ok" /\ q \in Exports => hash[q] \in manifest
    /\ \A h \in manifest : InLedger(h)
    /\ \A e \in ledger : e.hash \in audited

LEMMA DeliveryCalls ==
    ASSUME TypeOK, DeliveryInv, NEW q \in Requests,
           (\E h \in Hashes : Receive(q, h)) \/ Audit(q) \/ Look(q) \/ ReadLast(q)
           \/ Stamp(q) \/ Refused(q) \/ WriteManifest(q)
    PROVE  DeliveryInv'
<1> USE DEF TypeOK, DeliveryInv, Known, InLedger, Goto, stores, locals
<1>1. CASE \E h \in Hashes : Receive(q, h)
  BY <1>1 DEF Receive
<1>2. CASE Audit(q)
  BY <1>2 DEF Audit
<1>3. CASE Look(q)
  BY <1>3 DEF Look, Sealed
<1>4. CASE ReadLast(q)
  BY <1>4 DEF ReadLast
<1>5. CASE Stamp(q)
  BY <1>5 DEF Stamp
<1>6. CASE Refused(q)
  BY <1>6 DEF Refused
<1>7. CASE WriteManifest(q)
  BY <1>7 DEF WriteManifest
<1> QED
  BY <1>1, <1>2, <1>3, <1>4, <1>5, <1>6, <1>7

LEMMA DeliveryInsert ==
    ASSUME TypeOK, DeliveryInv, NEW q \in Requests, Insert(q) \/ InsertAckLost(q)
    PROVE  DeliveryInv'
<1> USE DEF TypeOK, DeliveryInv, Known, Goto, locals
<1>1. /\ pc[q] = "insert" /\ ledger' = ledger \cup {NewEntry(q)}
      /\ UNCHANGED <<manifest, audited, hash>>
  BY DEF Insert, InsertAckLost
<1>2. \A h \in Hashes : InLedger(h)' <=> InLedger(h) \/ h = hash[q]
  <2>1. NewEntry(q).hash = hash[q]
    BY DEF NewEntry
  <2>2. \A e : e \in ledger' <=> e \in ledger \/ e = NewEntry(q)
    BY <1>1
  <2> QED
    BY <2>1, <2>2 DEF InLedger
<1>3. \A e \in ledger' : e.hash \in audited'
  BY <1>1 DEF NewEntry
<1>4. /\ pc'[q] = "error" \/ pc'[q] = Sealed(q)
      /\ \A p \in Requests \ {q} : pc'[p] = pc[p]
  BY DEF Insert, InsertAckLost
<1>5. \A p \in Requests :
         /\ pc'[p] \in Known => hash[p] \in audited
         /\ pc'[p] \in {"manifest", "ok"} => InLedger(hash[p])'
         /\ pc'[p] = "ok" /\ p \in Exports => hash[p] \in manifest
  <2>1. \A p \in Requests : pc[p] # "new" => hash[p] \in Hashes
    OBVIOUS
  <2> QED
    BY <1>1, <1>2, <1>4, <2>1 DEF Sealed
<1>6. \A h \in manifest : InLedger(h)'
  BY <1>2
<1> QED
  BY <1>1, <1>3, <1>5, <1>6

LEMMA DeliveryNext ==
    ASSUME TypeOK, DeliveryInv, [Next]_vars
    PROVE  DeliveryInv'
<1>1. CASE UNCHANGED vars
  BY <1>1 DEF vars, stores, locals, DeliveryInv, InLedger
<1>2. CASE Crash
  BY <1>2 DEF Crash, DeliveryInv, InLedger, Known, stores, locals, TypeOK
<1>3. ASSUME NEW q \in Requests, CallFails(q) \/ Resend(q)
      PROVE  DeliveryInv'
  BY <1>3 DEF CallFails, Resend, DeliveryInv, InLedger, Known, stores, locals, TypeOK
<1> QED
  BY <1>1, <1>2, <1>3, DeliveryCalls, DeliveryInsert DEF Next, Work

\* An export that was delivered is sealed and listed, every manifest is sealed
\* and every seal has its audit event, whatever fails between the four calls.
THEOREM DeliveryIsSealed == Spec => []DeliveredIsSealed
<1>1. Init => DeliveryInv
  BY ConstantsOK DEF Init, DeliveryInv, InLedger, Known
<1>2. TypeOK /\ DeliveryInv /\ [Next]_vars => DeliveryInv'
  BY DeliveryNext
<1>3. DeliveryInv => DeliveredIsSealed
  BY DEF DeliveryInv, DeliveredIsSealed, InLedger
<1> QED
  BY <1>1, <1>2, <1>3, LedgerTypeCorrect, PTL DEF Spec
-----------------------------------------------------------------------------
(* The chain, once the ledger has its first entry. *)

Names(e, q) == e \in ledger /\ e.hash = prev[q]

\* Only the last entry has no successor, so the unique index on previous_hash
\* admits an entry that names the last one and no other; and the ObjectId of
\* that entry was made after the last one was read.
ChainInv ==
    /\ ledger # {}
    /\ \A e \in ledger : e.id <= clock
    /\ \A d, e \in ledger : d.id = e.id => d = e
    /\ \A e \in ledger : IsLast(e) \/ \E d \in ledger : d.prev = e.hash
    /\ \A q \in Requests : pc[q] \in {"stamp", "insert"} => \E e : Names(e, q)
    /\ \A q \in Requests : pc[q] = "insert" =>
          prev[q] # None /\ \E e : Names(e, q) /\ e.id < stamp[q] /\ stamp[q] <= clock
    /\ \A q \in Requests : pc[q] = "stamp" => prev[q] # None
    /\ ChainVerifies

\* A step that leaves the ledger alone and brings no request to a later point
\* of its round.
LEMMA ChainStays ==
    ASSUME TypeOK, ChainInv, ledger' = ledger, clock' = clock,
           \A q \in Requests : pc'[q] \in {"stamp", "insert"} =>
               pc'[q] = pc[q] /\ prev'[q] = prev[q] /\ stamp'[q] = stamp[q]
    PROVE  ChainInv'
BY DEF ChainInv, ChainVerifies, IsLast, Names

LEMMA ChainReadLast ==
    ASSUME TypeOK, ChainInv, NEW q \in Requests, ReadLast(q)
    PROVE  ChainInv'
<1> USE DEF TypeOK, Goto
<1>1. ledger' = ledger /\ clock' = clock /\ stamp' = stamp
  BY DEF ReadLast, stores
<1>2. PICK e \in ledger : IsLast(e) /\ prev' = [prev EXCEPT ![q] = e.hash]
  BY DEF ReadLast, ChainInv
<1>3. e.hash \in Hashes
  BY DEF Entry
<1>4. pc'[q] = "stamp" /\ prev'[q] = e.hash /\ prev'[q] # None
  BY <1>2, <1>3, ConstantsOK DEF ReadLast
<1>5. \A p \in Requests \ {q} : pc'[p] = pc[p] /\ prev'[p] = prev[p]
  BY <1>2 DEF ReadLast
<1>6. \A p \in Requests : pc'[p] \in {"stamp", "insert"} => \E d : Names(d, p)'
  BY <1>1, <1>4, <1>5 DEF ChainInv, Names
<1>7. \A p \in Requests : pc'[p] = "insert" =>
         prev'[p] # None /\ \E d : Names(d, p)' /\ d.id < stamp'[p] /\ stamp'[p] <= clock'
  BY <1>1, <1>4, <1>5 DEF ChainInv, Names
<1>8. \A p \in Requests : pc'[p] = "stamp" => prev'[p] # None
  BY <1>4, <1>5 DEF ChainInv
<1> QED
  BY <1>1, <1>6, <1>7, <1>8 DEF ChainInv, ChainVerifies, IsLast

LEMMA ChainStamp ==
    ASSUME TypeOK, ChainInv, NEW q \in Requests, Stamp(q)
    PROVE  ChainInv'
<1> USE DEF TypeOK, Goto
<1>1. ledger' = ledger /\ prev' = prev /\ clock' = clock + 1 /\ stamp'[q] = clock + 1
  BY DEF Stamp, stores
<1>2. pc[q] = "stamp"
  BY DEF Stamp
<1>3. \A p \in Requests \ {q} : pc'[p] = pc[p] /\ stamp'[p] = stamp[p]
  BY DEF Stamp
<1>4. PICK e : Names(e, q)
  BY <1>2 DEF ChainInv
<1>5. e \in ledger /\ e.id \in Nat /\ e.id <= clock
  BY <1>4 DEF Names, ChainInv, Entry
<1>6. Names(e, q)' /\ e.id < stamp'[q] /\ stamp'[q] <= clock'
  BY <1>1, <1>4, <1>5 DEF Names
<1>7. \A p \in Requests : pc'[p] = "insert" =>
         prev'[p] # None /\ \E d : Names(d, p)' /\ d.id < stamp'[p] /\ stamp'[p] <= clock'
  <2>1. ASSUME NEW p \in Requests \ {q}, pc[p] = "insert"
        PROVE  \E d : Names(d, p)' /\ d.id < stamp'[p] /\ stamp'[p] <= clock'
    <3>1. PICK d : Names(d, p) /\ d.id < stamp[p] /\ stamp[p] <= clock
      BY <2>1 DEF ChainInv
    <3> QED
      BY <1>1, <1>3, <3>1 DEF Names
  <2> QED
    BY <1>1, <1>2, <1>3, <1>6, <2>1 DEF ChainInv
<1>8. \A p \in Requests : pc'[p] \in {"stamp", "insert"} =>
         pc[p] \in {"stamp", "insert"}
  BY <1>2, <1>3
<1>9. \A d \in ledger : d.id \in Nat /\ d.id <= clock'
  BY <1>1 DEF ChainInv, Entry
<1>10. \A p \in Requests : pc'[p] = "stamp" => prev'[p] # None
  BY <1>1, <1>2, <1>3 DEF ChainInv, Stamp
<1> QED
  BY <1>1, <1>7, <1>8, <1>9, <1>10 DEF ChainInv, ChainVerifies, IsLast, Names

LEMMA ChainInsert ==
    ASSUME TypeOK, ChainInv, NEW q \in Requests, Insert(q) \/ InsertAckLost(q)
    PROVE  ChainInv'
<1>0. PICK n : n = NewEntry(q)
  OBVIOUS
<1>1. /\ pc[q] = "insert" /\ Accepts(q) /\ ledger' = ledger \cup {n}
      /\ UNCHANGED <<clock, prev, stamp>>
  BY <1>0 DEF Insert, InsertAckLost, Goto, locals
<1>2. n.id = stamp[q] /\ n.prev = prev[q] /\ n.hash = hash[q] /\ n.id \in Nat
  BY <1>0 DEF NewEntry, TypeOK
<1>3. PICK e : Names(e, q) /\ e.id < stamp[q] /\ stamp[q] <= clock
  BY <1>1 DEF ChainInv
<1>4. e \in ledger /\ n.prev = e.hash /\ n.id <= clock
  BY <1>2, <1>3 DEF Names
<1>5. \A d \in ledger : d.prev # e.hash
  BY <1>1, <1>3, <1>4 DEF Accepts, ChainInv, Names
<1>6. IsLast(e)
  BY <1>4, <1>5 DEF ChainInv
<1>7. \A d \in ledger : d.id \in Nat
  BY DEF TypeOK, Entry
<1>8. \A d \in ledger : d.id <= e.id /\ d.id < n.id
  BY <1>2, <1>3, <1>4, <1>6, <1>7 DEF IsLast
<1>9. \A d, f \in ledger' : d.id = f.id => d = f
  BY <1>1, <1>2, <1>7, <1>8 DEF ChainInv
<1>10. \A d \in ledger' : IsLast(d)' \/ \E f \in ledger' : f.prev = d.hash
  <2>1. IsLast(n)'
    BY <1>1, <1>2, <1>7, <1>8 DEF IsLast
  <2>2. ASSUME NEW d \in ledger
        PROVE  \E f \in ledger' : f.prev = d.hash
    <3>1. CASE d = e
      BY <1>1, <1>4, <3>1
    <3>2. CASE d # e
      <4>1. ~IsLast(d)
        BY <1>4, <1>7, <1>8, <3>2 DEF IsLast, ChainInv
      <4> QED
        BY <1>1, <4>1 DEF ChainInv
    <3> QED
      BY <3>1, <3>2
  <2> QED
    BY <1>1, <2>1, <2>2
<1>11. ChainVerifies'
  <2> SUFFICES ASSUME NEW d \in ledger'
               PROVE  \/ \A f \in ledger' : d.id <= f.id
                      \/ \E g \in ledger' :
                            /\ g.id < d.id /\ d.prev = g.hash
                            /\ \A f \in ledger' : ~(g.id < f.id /\ f.id < d.id)
    BY DEF ChainVerifies
  <2>1. CASE d = n
    <3>1. \A f \in ledger' : ~(e.id < f.id /\ f.id < n.id)
      BY <1>1, <1>2, <1>7, <1>8, <1>4
    <3> QED
      BY <1>1, <1>4, <1>8, <2>1, <3>1
  <2>2. CASE d \in ledger /\ \A f \in ledger : d.id <= f.id
    BY <1>1, <1>2, <1>7, <1>8, <2>2
  <2>3. CASE /\ d \in ledger
             /\ \E g \in ledger : /\ g.id < d.id /\ d.prev = g.hash
                                  /\ \A f \in ledger : ~(g.id < f.id /\ f.id < d.id)
    BY <1>1, <1>2, <1>7, <1>8, <2>3
  <2> QED
    BY <1>1, <2>1, <2>2, <2>3 DEF ChainInv, ChainVerifies
<1>12. \A p \in Requests : pc'[p] \in {"stamp", "insert"} => pc'[p] = pc[p]
  BY <1>1 DEF Insert, InsertAckLost, Goto, Sealed, TypeOK
<1>13. \A p \in Requests : \A d : Names(d, p) => Names(d, p)'
  BY <1>1 DEF Names
<1>14. \A d \in ledger' : d.id <= clock
  BY <1>1, <1>4 DEF ChainInv
<1> QED
  BY <1>1, <1>9, <1>10, <1>11, <1>12, <1>13, <1>14 DEF ChainInv

LEMMA ChainNext ==
    ASSUME TypeOK, ChainInv, [Next]_vars
    PROVE  ChainInv'
<1> USE DEF stores, locals, Goto, TypeOK
<1>1. CASE UNCHANGED vars
  BY <1>1, ChainStays DEF vars
<1>2. CASE Crash
  BY <1>2, ChainStays DEF Crash, InFlight
<1>3. ASSUME NEW q \in Requests, CallFails(q) \/ Resend(q)
      PROVE  ChainInv'
  BY <1>3, ChainStays DEF CallFails, Resend
<1>4. ASSUME NEW q \in Requests,
             (\E h \in Hashes : Receive(q, h)) \/ Audit(q) \/ Look(q)
      PROVE  ChainInv'
  BY <1>4, ChainStays DEF Receive, Audit, Look, Sealed
<1>5. ASSUME NEW q \in Requests, Refused(q) \/ WriteManifest(q)
      PROVE  ChainInv'
  BY <1>5, ChainStays DEF Refused, WriteManifest
<1> HIDE DEF stores, locals, Goto, TypeOK
<1> QED
  BY <1>1, <1>2, <1>3, <1>4, <1>5, ChainReadLast, ChainStamp, ChainInsert DEF Next, Work

LEMMA ChainInit ==
    ASSUME First \in Hashes
    PROVE  Init => ChainInv
<1> SUFFICES ASSUME Init PROVE ChainInv
  OBVIOUS
<1> DEFINE e == [id |-> 1, hash |-> First, prev |-> None]
<1>1. ledger = {e} /\ e.id = 1 /\ clock = 1
  BY ConstantsOK DEF Init
<1>2. \A q \in Requests : pc[q] = "new"
  BY DEF Init
<1> HIDE DEF e
<1> QED
  BY <1>1, <1>2 DEF ChainInv, ChainVerifies, IsLast

\* On a ledger that has its first entry, no interleaving of seals and exports,
\* failing calls, lost acknowledgements and crashes makes verify_chain find a
\* break.
THEOREM ChainAlwaysVerifies ==
    ASSUME First \in Hashes
    PROVE  Spec => []ChainVerifies
<1>1. Init => ChainInv
  BY ChainInit
<1>2. TypeOK /\ ChainInv /\ [Next]_vars => ChainInv'
  BY ChainNext
<1>3. ChainInv => ChainVerifies
  BY DEF ChainInv
<1> QED
  BY <1>1, <1>2, <1>3, LedgerTypeCorrect, PTL DEF Spec
-----------------------------------------------------------------------------
(* Contention.  The last entry has no successor, because the ObjectId of an   *)
(* entry is stamped after the entry it names was read: so an insert that is   *)
(* refused was overtaken by an entry made in the same round.                  *)

\* What the ObjectIds and the unique index on hash_sha256 give, on an empty
\* ledger too, where the chain may break.
OrderInv ==
    /\ \A e \in ledger : e.id <= clock
    /\ \A d, e \in ledger : d.hash = e.hash => d = e
    /\ \A d \in ledger : d.prev # None =>
          \E e \in ledger : e.hash = d.prev /\ e.id < d.id
    /\ \A q \in Requests : pc[q] \in {"stamp", "insert"} /\ prev[q] # None =>
          \E e : Names(e, q) /\ (pc[q] = "insert" => e.id < stamp[q])
    /\ \A q \in Requests : pc[q] = "insert" => stamp[q] <= clock

Overtaken(q) == Cardinality(ledger) >= since[q] + round[q] + 1

\* Each round that was lost is paid for by an entry made since the request began.
RoundInv ==
    /\ \A q \in Requests : pc[q] \in {"new", "audit"} => round[q] = 0
    /\ \A q \in Requests : pc[q] \in {"look", "last", "stamp", "insert", "conflict"} =>
          Cardinality(ledger) >= since[q] + round[q]
    /\ \A q \in Requests : pc[q] = "last" =>
          Overtaken(q) \/ \A e \in ledger : e.hash # hash[q]
    /\ \A q \in Requests : pc[q] \in {"stamp", "insert"} => Overtaken(q) \/ Accepts(q)
    /\ \A q \in Requests : pc[q] = "conflict" => round[q] = Tries

LEMMA OrderStays ==
    ASSUME TypeOK, OrderInv, ledger' = ledger, clock' = clock,
           \A q \in Requests : pc'[q] \in {"stamp", "insert"} =>
               pc'[q] = pc[q] /\ prev'[q] = prev[q] /\ stamp'[q] = stamp[q]
    PROVE  OrderInv'
BY DEF OrderInv, Names

LEMMA OrderReadLast ==
    ASSUME TypeOK, OrderInv, NEW q \in Requests, ReadLast(q)
    PROVE  OrderInv'
<1> USE DEF TypeOK, Goto
<1>1. /\ ledger' = ledger /\ clock' = clock /\ stamp' = stamp
      /\ pc'[q] = "stamp" /\ \A p \in Requests \ {q} : pc'[p] = pc[p]
  BY DEF ReadLast, stores
<1>2. /\ \A p \in Requests \ {q} : prev'[p] = prev[p]
      /\ prev'[q] = None \/ \E e : Names(e, q)'
  BY <1>1 DEF ReadLast, IsLast, Names
<1>3. \A p \in Requests : pc'[p] \in {"stamp", "insert"} /\ prev'[p] # None =>
         \E e : Names(e, p)' /\ (pc'[p] = "insert" => e.id < stamp'[p])
  BY <1>1, <1>2 DEF OrderInv, Names
<1>4. \A p \in Requests : pc'[p] = "insert" => stamp'[p] <= clock'
  BY <1>1 DEF OrderInv
<1> QED
  BY <1>1, <1>3, <1>4 DEF OrderInv

LEMMA OrderStamp ==
    ASSUME TypeOK, OrderInv, NEW q \in Requests, Stamp(q)
    PROVE  OrderInv'
<1> USE DEF TypeOK, Goto
<1>1. /\ ledger' = ledger /\ clock' = clock + 1 /\ prev' = prev /\ clock \in Nat
      /\ pc[q] = "stamp" /\ pc'[q] = "insert" /\ stamp'[q] = clock + 1
      /\ \A p \in Requests \ {q} : pc'[p] = pc[p] /\ stamp'[p] = stamp[p]
  BY DEF Stamp, stores
<1>2. \A e \in ledger : e.id \in Nat /\ e.id <= clock
  BY DEF OrderInv, Entry
<1>3. \A p \in Requests : pc'[p] \in {"stamp", "insert"} /\ prev'[p] # None =>
         \E e : Names(e, p)' /\ (pc'[p] = "insert" => e.id < stamp'[p])
  <2>1. ASSUME prev[q] # None PROVE \E e : Names(e, q)' /\ e.id < stamp'[q]
    BY <1>1, <1>2, <2>1 DEF OrderInv, Names
  <2>2. ASSUME NEW p \in Requests \ {q}, pc[p] \in {"stamp", "insert"}, prev[p] # None
        PROVE  \E e : Names(e, p)' /\ (pc'[p] = "insert" => e.id < stamp'[p])
    BY <1>1, <2>2 DEF OrderInv, Names
  <2> QED
    BY <1>1, <2>1, <2>2
<1>4. \A p \in Requests : pc'[p] = "insert" => stamp'[p] <= clock'
  BY <1>1 DEF OrderInv
<1>5. \A e \in ledger' : e.id <= clock'
  BY <1>1, <1>2
<1> QED
  BY <1>1, <1>3, <1>4, <1>5 DEF OrderInv

LEMMA OrderInsert ==
    ASSUME TypeOK, OrderInv, NEW q \in Requests, Insert(q) \/ InsertAckLost(q)
    PROVE  OrderInv'
<1>0. PICK n : n = NewEntry(q)
  OBVIOUS
<1>1. /\ pc[q] = "insert" /\ Accepts(q) /\ ledger' = ledger \cup {n}
      /\ UNCHANGED <<clock, prev, stamp>>
  BY <1>0 DEF Insert, InsertAckLost, Goto, locals
<1>2. /\ n.id = stamp[q] /\ n.prev = prev[q] /\ n.hash = hash[q] /\ n.id <= clock
      /\ \A e \in ledger : e.hash # n.hash
  BY <1>0, <1>1 DEF NewEntry, OrderInv, Accepts
<1>3. \A d \in ledger' : d.prev # None => \E e \in ledger' : e.hash = d.prev /\ e.id < d.id
  <2>1. n.prev # None => \E e \in ledger : e.hash = n.prev /\ e.id < n.id
    BY <1>1, <1>2 DEF OrderInv, Names
  <2> QED
    BY <1>1, <2>1 DEF OrderInv
<1>4. \A p \in Requests : pc'[p] \in {"stamp", "insert"} => pc'[p] = pc[p]
  BY <1>1 DEF Insert, InsertAckLost, Goto, Sealed, TypeOK
<1>5. \A p \in Requests : \A d : Names(d, p) => Names(d, p)'
  BY <1>1 DEF Names
<1>6. \A p \in Requests : pc'[p] \in {"stamp", "insert"} /\ prev'[p] # None =>
         \E e : Names(e, p)' /\ (pc'[p] = "insert" => e.id < stamp'[p])
  BY <1>1, <1>4, <1>5 DEF OrderInv
<1>7. \A d, e \in ledger' : d.hash = e.hash => d = e
  BY <1>1, <1>2 DEF OrderInv
<1>8. \A e \in ledger' : e.id <= clock'
  BY <1>1, <1>2 DEF OrderInv
<1>9. \A p \in Requests : pc'[p] = "insert" => stamp'[p] <= clock'
  BY <1>1, <1>4 DEF OrderInv
<1> QED
  BY <1>3, <1>6, <1>7, <1>8, <1>9 DEF OrderInv

LEMMA OrderNext ==
    ASSUME TypeOK, OrderInv, [Next]_vars
    PROVE  OrderInv'
<1> USE DEF stores, locals, Goto, TypeOK
<1>1. CASE UNCHANGED vars
  BY <1>1, OrderStays DEF vars
<1>2. CASE Crash
  BY <1>2, OrderStays DEF Crash, InFlight
<1>3. ASSUME NEW q \in Requests, CallFails(q) \/ Resend(q)
      PROVE  OrderInv'
  BY <1>3, OrderStays DEF CallFails, Resend
<1>4. ASSUME NEW q \in Requests,
             (\E h \in Hashes : Receive(q, h)) \/ Audit(q) \/ Look(q)
      PROVE  OrderInv'
  BY <1>4, OrderStays DEF Receive, Audit, Look, Sealed
<1>5. ASSUME NEW q \in Requests, Refused(q) \/ WriteManifest(q)
      PROVE  OrderInv'
  BY <1>5, OrderStays DEF Refused, WriteManifest
<1> HIDE DEF stores, locals, Goto, TypeOK
<1> QED
  BY <1>1, <1>2, <1>3, <1>4, <1>5, OrderReadLast, OrderStamp, OrderInsert DEF Next, Work

\* The entry a round reads last has no successor yet.
LEMMA LastIsFree ==
    ASSUME TypeOK, OrderInv, NEW e \in ledger, IsLast(e), NEW d \in ledger
    PROVE  d.prev # e.hash
<1> SUFFICES ASSUME d.prev = e.hash PROVE FALSE
  OBVIOUS
<1>1. e.hash \in Hashes /\ d.id \in Nat /\ e.id \in Nat
  BY DEF TypeOK, Entry
<1>2. \E f \in ledger : f.hash = d.prev /\ f.id < d.id
  BY <1>1, ConstantsOK DEF OrderInv
<1>3. e.id < d.id
  BY <1>2 DEF OrderInv
<1> QED
  BY <1>1, <1>3 DEF IsLast

LEMMA RoundInsert ==
    ASSUME Typed, RoundInv, NEW q \in Requests, Insert(q) \/ InsertAckLost(q)
    PROVE  RoundInv'
<1>0. PICK n : n = NewEntry(q)
  OBVIOUS
<1>1. /\ Accepts(q) /\ ledger' = ledger \cup {n} /\ pc[q] = "insert"
      /\ UNCHANGED <<round, since, hash, prev>>
  BY <1>0 DEF Insert, InsertAckLost, Goto, locals
<1>2. n \notin ledger
  BY <1>0, <1>1 DEF Accepts, NewEntry
<1>3. Cardinality(ledger') = Cardinality(ledger) + 1 /\ Cardinality(ledger) \in Nat
  BY <1>1, <1>2, FS_AddElement, FS_CardinalityType DEF Typed
<1>4. \A p \in Requests : p # q => pc'[p] = pc[p]
  BY DEF Insert, InsertAckLost, Goto, Typed, TypeOK
<1>5. pc'[q] \in {"ok", "manifest", "error"}
  BY DEF Insert, InsertAckLost, Goto, Sealed, Typed, TypeOK
<1>6. \A p \in Requests : round[p] \in Nat /\ since[p] \in Nat
  BY ConstantsOK DEF Typed, TypeOK
<1>7. ASSUME NEW p \in Requests, pc'[p] \in {"last", "stamp", "insert"} PROVE Overtaken(p)'
  BY <1>1, <1>3, <1>4, <1>5, <1>6, <1>7 DEF RoundInv, Overtaken
<1>8. \A p \in Requests : pc'[p] \in {"look", "last", "stamp", "insert", "conflict"} =>
         Cardinality(ledger') >= since'[p] + round'[p]
  BY <1>1, <1>3, <1>4, <1>5, <1>6 DEF RoundInv
<1>9. \A p \in Requests : /\ pc'[p] \in {"new", "audit"} => round'[p] = 0
                          /\ pc'[p] = "conflict" => round'[p] = Tries
  BY <1>1, <1>4, <1>5 DEF RoundInv
<1> QED
  BY <1>7, <1>8, <1>9 DEF RoundInv

\* A step of q that leaves the ledger alone: only q's part can change.
RoundOf(q) ==
    /\ pc[q] \in {"new", "audit"} => round[q] = 0
    /\ pc[q] \in {"look", "last", "stamp", "insert", "conflict"} =>
          Cardinality(ledger) >= since[q] + round[q]
    /\ pc[q] = "last" => Overtaken(q) \/ \A e \in ledger : e.hash # hash[q]
    /\ pc[q] \in {"stamp", "insert"} => Overtaken(q) \/ Accepts(q)
    /\ pc[q] = "conflict" => round[q] = Tries

LEMMA RoundParts == RoundInv <=> \A q \in Requests : RoundOf(q)
BY DEF RoundInv, RoundOf

LEMMA RoundKept ==
    ASSUME NEW q \in Requests, RoundOf(q), ledger' = ledger, pc'[q] = pc[q],
           round'[q] = round[q], since'[q] = since[q], hash'[q] = hash[q], prev'[q] = prev[q]
    PROVE  RoundOf(q)'
BY DEF RoundOf, Overtaken, Accepts

LEMMA RoundOwn ==
    ASSUME Typed, OrderInv, NEW q \in Requests, RoundOf(q),
           \/ (\E h \in Hashes : Receive(q, h)) \/ Audit(q) \/ Look(q) \/ ReadLast(q)
           \/ Stamp(q) \/ Refused(q) \/ WriteManifest(q) \/ CallFails(q) \/ Resend(q)
    PROVE  /\ RoundOf(q)' /\ ledger' = ledger
           /\ \A p \in Requests \ {q} :
                 /\ pc'[p] = pc[p] /\ round'[p] = round[p] /\ since'[p] = since[p]
                 /\ hash'[p] = hash[p] /\ prev'[p] = prev[p]
<1> USE DEF Typed, TypeOK, Goto, stores, locals
<1>0. Cardinality(ledger) \in Nat /\ round[q] \in 0..Tries /\ since[q] \in Nat /\ Tries \in Nat
  BY FS_CardinalityType, ConstantsOK
<1>1. ledger' = ledger
  BY DEF Receive, Audit, Look, ReadLast, Stamp, Refused, WriteManifest, CallFails, Resend
<1>2. \A p \in Requests \ {q} :
                 /\ pc'[p] = pc[p] /\ round'[p] = round[p] /\ since'[p] = since[p]
                 /\ hash'[p] = hash[p] /\ prev'[p] = prev[p]
  BY DEF Receive, Audit, Look, ReadLast, Stamp, Refused, WriteManifest, CallFails, Resend
<1>3. RoundOf(q)'
  <2>1. CASE \E h \in Hashes : Receive(q, h)
    BY <1>0, <2>1 DEF Receive, RoundOf
  <2>2. CASE Audit(q)
    BY <1>0, <2>2 DEF Audit, RoundOf
  <2>3. CASE Look(q)
    BY <1>0, <1>1, <2>3 DEF Look, RoundOf, Sealed, Overtaken
  <2>4. CASE ReadLast(q)
    <3>1. /\ pc[q] = "last" /\ pc'[q] = "stamp"
          /\ UNCHANGED <<ledger, hash, round, since>>
      BY <2>4 DEF ReadLast
    <3>2. prev'[q] # None => \A d \in ledger : d.prev # prev'[q]
      BY <2>4, LastIsFree DEF ReadLast, IsLast
    <3>3. Overtaken(q)' \/ Accepts(q)'
      BY <3>1, <3>2 DEF RoundOf, Overtaken, Accepts
    <3> QED
      BY <1>0, <3>1, <3>3 DEF RoundOf
  <2>5. CASE Stamp(q)
    BY <1>0, <1>1, <2>5 DEF Stamp, RoundOf, Overtaken, Accepts
  <2>6. CASE Refused(q)
    <3>1. Overtaken(q)
      BY <2>6 DEF Refused, RoundOf
    <3>2. pc'[q] = "look" \/ (pc'[q] = "conflict" /\ round[q] + 1 >= Tries)
      BY <1>0, <2>6 DEF Refused
    <3>3. round[q] < Tries
      BY <2>6 DEF Refused
    <3>4. round'[q] = round[q] + 1 /\ since' = since
      BY <2>6 DEF Refused
    <3> QED
      BY <1>0, <1>1, <3>1, <3>2, <3>3, <3>4 DEF RoundOf, Overtaken
  <2>7. CASE WriteManifest(q)
    BY <2>7 DEF WriteManifest, RoundOf
  <2>8. CASE CallFails(q)
    BY <2>8 DEF CallFails, RoundOf
  <2>9. CASE Resend(q)
    BY <1>0, <2>9 DEF Resend, RoundOf
  <2> QED
    BY <2>1, <2>2, <2>3, <2>4, <2>5, <2>6, <2>7, <2>8, <2>9
<1> QED
  BY <1>1, <1>2, <1>3

LEMMA RoundNext ==
    ASSUME Typed, OrderInv, RoundInv, [Next]_vars
    PROVE  RoundInv'
<1>1. CASE UNCHANGED vars
  <2>1. \A q \in Requests : RoundOf(q)'
    BY <1>1, RoundParts, RoundKept DEF vars, stores, locals
  <2> QED
    BY <2>1 DEF RoundInv, RoundOf
<1>2. CASE Crash
  <2>1. UNCHANGED <<ledger, round, since, hash, prev>>
    BY <1>2 DEF Crash, stores, locals
  <2>2. \A q \in Requests : pc'[q] = pc[q] \/ pc'[q] = "error"
    BY <1>2 DEF Crash
  <2>3. \A q \in Requests : RoundOf(q)'
    BY <2>1, <2>2, RoundParts, RoundKept DEF RoundOf
  <2> QED
    BY <2>3, RoundParts DEF RoundInv, RoundOf
<1>3. ASSUME NEW q \in Requests,
             \/ (\E h \in Hashes : Receive(q, h)) \/ Audit(q) \/ Look(q) \/ ReadLast(q)
             \/ Stamp(q) \/ Refused(q) \/ WriteManifest(q) \/ CallFails(q) \/ Resend(q)
      PROVE  RoundInv'
  <2>1. \A p \in Requests : RoundOf(p)'
    BY <1>3, RoundParts, RoundOwn, RoundKept
  <2> QED
    BY <2>1 DEF RoundInv, RoundOf
<1> QED
  BY <1>1, <1>2, <1>3, RoundInsert DEF Next, Work

\* A request is answered with a conflict only if at least as many entries were
\* made since it began as it has rounds, on an empty ledger too, and whatever
\* calls fail or are sent again.
THEOREM ConflictIsContention == Spec => []ConflictMeansContention
<1>1. Init => OrderInv /\ RoundInv
  <2> SUFFICES ASSUME Init PROVE OrderInv /\ RoundInv
    OBVIOUS
  <2>1. \A e \in ledger : e = [id |-> 1, hash |-> First, prev |-> None]
    BY DEF Init
  <2>2. OrderInv
    BY <2>1 DEF Init, OrderInv
  <2>3. RoundInv
    BY DEF Init, RoundInv
  <2> QED
    BY <2>2, <2>3
<1>2. Typed /\ OrderInv /\ RoundInv /\ [Next]_vars => OrderInv' /\ RoundInv'
  BY OrderNext, RoundNext DEF Typed
<1>3. RoundInv => ConflictMeansContention
  BY DEF RoundInv, ConflictMeansContention
<1> QED
  BY <1>1, <1>2, <1>3, AlwaysTyped, PTL DEF Spec
-----------------------------------------------------------------------------
(* The refinement of AppendOnlyLog, once the ledger has its first entry.      *)

\* Rank numbers the entries from one to their number, the way verify_chain
\* walks them.
RankInv ==
    /\ \A d \in ledger : Rank(d) \in 1..Cardinality(ledger)
    /\ \A i \in 1..Cardinality(ledger) : \E d \in ledger : Rank(d) = i
    /\ \A d, e \in ledger : Rank(d) = Rank(e) => d = e

At(i) == CHOOSE e \in ledger : Rank(e) = i

LogOf == [i \in 1..Cardinality(ledger) |-> At(i).hash]

LogInv == Typed /\ ChainInv /\ RankInv

LEMMA AtIs ==
    ASSUME RankInv, NEW i \in 1..Cardinality(ledger)
    PROVE  At(i) \in ledger /\ Rank(At(i)) = i
BY DEF RankInv, At

LEMMA AtNext ==
    ASSUME RankInv', NEW i \in 1..Cardinality(ledger'), NEW d \in ledger', Rank(d)' = i
    PROVE  At(i)' = d
<1>1. \E a \in ledger' : a = At(i)' /\ Rank(a)' = i
  BY Zenon DEF RankInv, At
<1> QED
  BY <1>1 DEF RankInv

LEMMA LogType ==
    ASSUME Typed, RankInv
    PROVE  LogOf \in Seq(Hashes) /\ Len(LogOf) = Cardinality(ledger)
<1>1. Cardinality(ledger) \in Nat
  BY FS_CardinalityType DEF Typed
<1>2. \A i \in 1..Cardinality(ledger) : At(i).hash \in Hashes
  BY AtIs DEF Typed, TypeOK, Entry
<1> QED
  BY <1>1, <1>2 DEF LogOf

\* An entry is inserted behind all others.
LEMMA InsertsLast ==
    ASSUME TypeOK, ChainInv, NEW q \in Requests, Insert(q) \/ InsertAckLost(q)
    PROVE  \A d \in ledger : d.id < NewEntry(q).id
<1>1. pc[q] = "insert" /\ Accepts(q)
  BY DEF Insert, InsertAckLost, Goto
<1>2. NewEntry(q).id = stamp[q]
  BY DEF NewEntry
<1>3. PICK e : Names(e, q) /\ e.id < stamp[q] /\ stamp[q] <= clock
  BY <1>1 DEF ChainInv
<1>4. \A d \in ledger : d.prev # e.hash
  BY <1>1, <1>3 DEF Accepts, ChainInv, Names
<1>5. IsLast(e)
  BY <1>3, <1>4 DEF ChainInv, Names
<1>6. \A d \in ledger : d.id \in Nat
  BY DEF TypeOK, Entry
<1> QED
  BY <1>2, <1>3, <1>5, <1>6 DEF IsLast, TypeOK, Names

LEMMA RankInsert ==
    ASSUME LogInv, NEW q \in Requests, Insert(q) \/ InsertAckLost(q), NEW n, n = NewEntry(q)
    PROVE  /\ RankInv'
           /\ n \notin ledger /\ ledger' = ledger \cup {n}
           /\ Cardinality(ledger') = Cardinality(ledger) + 1
           /\ Cardinality(ledger) \in Nat
           /\ Rank(n)' = Cardinality(ledger')
           /\ \A d \in ledger : Rank(d)' = Rank(d)
<1>1. TypeOK /\ ChainInv /\ RankInv /\ IsFiniteSet(ledger)
  BY DEF LogInv, Typed
<1>2. ledger' = ledger \cup {n} /\ Accepts(q)
  BY DEF Insert, InsertAckLost
<1>3. /\ \A d \in ledger : d.id < n.id
      /\ \A d \in ledger : d.id \in Nat
      /\ n.id \in Nat
  BY <1>1, InsertsLast DEF TypeOK, Entry, NewEntry
<1>4. n \notin ledger
  BY <1>3
<1>5. Cardinality(ledger') = Cardinality(ledger) + 1 /\ Cardinality(ledger) \in Nat
  BY <1>1, <1>2, <1>4, FS_AddElement, FS_CardinalityType
<1>6. Rank(n)' = Cardinality(ledger')
  <2>1. {d \in ledger' : d.id <= n.id} = ledger'
    BY <1>2, <1>3
  <2> QED
    BY <2>1 DEF Rank
<1>7. ASSUME NEW d \in ledger PROVE Rank(d)' = Rank(d)
  <2>1. {e \in ledger' : e.id <= d.id} = {e \in ledger : e.id <= d.id}
    BY <1>2, <1>3
  <2> QED
    BY <2>1 DEF Rank
<1>8. \A d \in ledger' : Rank(d)' \in 1..Cardinality(ledger')
  BY <1>1, <1>2, <1>5, <1>6, <1>7 DEF RankInv
<1>9. \A i \in 1..Cardinality(ledger') : \E d \in ledger' : Rank(d)' = i
  <2> SUFFICES ASSUME NEW i \in 1..Cardinality(ledger')
               PROVE  \E d \in ledger' : Rank(d)' = i
    OBVIOUS
  <2>1. CASE i = Cardinality(ledger')
    BY <1>2, <1>6, <2>1
  <2>2. CASE i # Cardinality(ledger')
    <3>1. i \in 1..Cardinality(ledger)
      BY <1>5, <2>2
    <3>2. PICK d \in ledger : Rank(d) = i
      BY <1>1, <3>1 DEF RankInv
    <3> QED
      BY <1>2, <1>7, <3>2
  <2> QED
    BY <2>1, <2>2
<1>10. \A d, e \in ledger' : Rank(d)' = Rank(e)' => d = e
  <2>1. \A d \in ledger : Rank(d)' # Cardinality(ledger')
    BY <1>1, <1>5, <1>7 DEF RankInv
  <2> QED
    BY <1>1, <1>2, <1>6, <1>7, <2>1 DEF RankInv
<1> QED
  BY <1>2, <1>4, <1>5, <1>6, <1>7, <1>8, <1>9, <1>10 DEF RankInv

\* At the start the log has the one value.
LEMMA LogInit ==
    ASSUME First \in Hashes, Init
    PROVE  RankInv /\ Chain!Init
<1> DEFINE e == [id |-> 1, hash |-> First, prev |-> None]
<1>1. ledger = {e} /\ e.hash = First
  BY ConstantsOK DEF Init
<1>2. Cardinality(ledger) = 1 /\ 1..Cardinality(ledger) = {1}
  <2>1. Cardinality(ledger) = 1
    BY <1>1, FS_Singleton
  <2> QED
    BY <2>1
<1>3. Rank(e) = 1
  <2>1. {d \in ledger : d.id <= e.id} = {e}
    BY <1>1
  <2> QED
    BY <2>1, FS_Singleton DEF Rank
<1> HIDE DEF e
<1>4. RankInv
  BY <1>1, <1>2, <1>3 DEF RankInv
<1>5. At(1) = e
  BY <1>1, <1>2, <1>4, AtIs
<1>6. LogOf = [i \in {1} |-> First]
  BY <1>1, <1>2, <1>5 DEF LogOf
<1>7. LogOf = <<First>>
  BY <1>6
<1> QED
  BY <1>4, <1>7 DEF Chain!Init, LogOf, At

\* A step that inserts an entry appends its hash to the log.
LEMMA LogInsert ==
    ASSUME LogInv, NEW q \in Requests, Insert(q) \/ InsertAckLost(q)
    PROVE  RankInv' /\ Chain!Next
<1>0. PICK n : n = NewEntry(q)
  OBVIOUS
<1>1. /\ RankInv' /\ n \notin ledger /\ ledger' = ledger \cup {n}
      /\ Cardinality(ledger') = Cardinality(ledger) + 1
      /\ Cardinality(ledger) \in Nat
      /\ Rank(n)' = Cardinality(ledger')
      /\ \A d \in ledger : Rank(d)' = Rank(d)
  BY <1>0, RankInsert
<1>2. Typed /\ Typed' /\ RankInv
  BY TypeInsert DEF LogInv
<1>3. pc[q] = "insert" /\ Accepts(q)
  BY DEF Insert, InsertAckLost, Goto
<1>4. n.hash = hash[q] /\ hash[q] \in Hashes
  BY <1>0, <1>2, <1>3 DEF NewEntry, Typed, TypeOK
<1>5. PICK size \in Nat : size = Cardinality(ledger') /\ size = Cardinality(ledger) + 1
  BY <1>1
<1>6. \A i \in 1..Cardinality(ledger) : At(i)' = At(i)
  <2> SUFFICES ASSUME NEW i \in 1..Cardinality(ledger) PROVE At(i)' = At(i)
    OBVIOUS
  <2>1. PICK a \in ledger : a = At(i) /\ Rank(a) = i
    BY <1>2, AtIs
  <2>2. i \in 1..Cardinality(ledger') /\ a \in ledger' /\ Rank(a)' = i
    BY <1>1, <1>5, <2>1
  <2> QED
    BY <1>1, <2>1, <2>2, AtNext
<1>7. At(size)' = n
  <2>1. size \in 1..Cardinality(ledger') /\ n \in ledger' /\ Rank(n)' = size
    BY <1>1, <1>5
  <2> QED
    BY <1>1, <2>1, AtNext
<1>8. /\ LogOf \in Seq(Hashes) /\ Len(LogOf) = Cardinality(ledger)
      /\ LogOf' \in Seq(Hashes) /\ Len(LogOf') = Cardinality(ledger')
  <2>1. \A i \in 1..size : At(i)' \in ledger'
    BY <1>1, <1>5, AtNext DEF RankInv
  <2>2. \A i \in 1..size : At(i)'.hash \in Hashes
    BY <1>2, <2>1 DEF Typed, TypeOK, Entry
  <2>3. LogOf' = [i \in 1..size |-> At(i)'.hash]
    BY <1>5 DEF LogOf
  <2> QED
    BY <1>2, <1>5, <2>2, <2>3, LogType
<1>9. LogOf' = Append(LogOf, hash[q])
  <2> DEFINE longer == Append(LogOf, hash[q])
  <2>1. /\ longer \in Seq(Hashes) /\ Len(longer) = Len(LogOf) + 1
        /\ \A i \in 1..Len(LogOf) : longer[i] = LogOf[i]
        /\ longer[Len(LogOf) + 1] = hash[q]
    BY <1>4, <1>8, AppendProperties
  <2>2. \A i \in 1..Cardinality(ledger) : LogOf[i] = At(i).hash
    BY DEF LogOf
  <2>3. \A i \in 1..Cardinality(ledger') : LogOf'[i] = At(i)'.hash
    BY DEF LogOf
  <2> HIDE DEF longer
  <2>4. ASSUME NEW i \in 1..Len(LogOf') PROVE LogOf'[i] = longer[i]
    <3>1. CASE i \in 1..Cardinality(ledger)
      BY <1>6, <1>8, <2>1, <2>2, <2>3, <3>1
    <3>2. CASE i = Cardinality(ledger) + 1
      <4>1. i = size /\ LogOf'[size] = n.hash
        <5>1. i = size /\ size \in 1..Cardinality(ledger')
          BY <1>5, <3>2
        <5>2. LogOf'[size] = At(size)'.hash
          BY <2>3, <5>1
        <5> QED
          BY <1>7, <5>1, <5>2
      <4> QED
        BY <1>4, <1>8, <2>1, <3>2, <4>1
    <3> QED
      BY <1>1, <1>8, <3>1, <3>2
  <2>5. Len(LogOf') = Len(longer)
    BY <1>1, <1>8, <2>1
  <2> QED
    BY <1>8, <2>1, <2>4, <2>5, SeqEqual DEF longer
<1>10. \A i \in DOMAIN LogOf : LogOf[i] # hash[q]
  <2>1. \A i \in 1..Cardinality(ledger) : LogOf[i] = At(i).hash /\ At(i) \in ledger
    BY <1>2, AtIs DEF LogOf
  <2> QED
    BY <1>3, <2>1 DEF Accepts, LogOf
<1>11. Chain!Add(hash[q])
  BY <1>9, <1>10 DEF Chain!Add, LogOf, At
<1> QED
  BY <1>1, <1>4, <1>11 DEF Chain!Next

LEMMA LedgerStays ==
    ASSUME [Next]_vars, \A q \in Requests : ~Insert(q) /\ ~InsertAckLost(q)
    PROVE  ledger' = ledger
BY DEF Next, Work, vars, stores, Crash, Receive, Audit, Look, ReadLast, Stamp, Refused,
       WriteManifest, CallFails, Resend

\* A ledger with its first entry implements an append-only log of distinct
\* hashes: verify_chain never walks past an entry that was slipped in between
\* two others, dropped or repeated.
THEOREM LedgerIsAppendOnly ==
    ASSUME First \in Hashes
    PROVE  Spec => ImplementsLog
<1>1. Init => RankInv /\ Chain!Init
  BY LogInit
<1>2. LogInv /\ [Next]_vars =>
         RankInv' /\ [Chain!Next]_LogOf
  <2> SUFFICES ASSUME LogInv, [Next]_vars
               PROVE  RankInv' /\ [Chain!Next]_LogOf
    OBVIOUS
  <2>1. ASSUME NEW q \in Requests, Insert(q) \/ InsertAckLost(q)
        PROVE  RankInv' /\ Chain!Next
    BY <2>1, LogInsert
  <2>2. ASSUME ledger' = ledger PROVE RankInv' /\ LogOf' = LogOf
    <3>1. RankInv /\ \A d : Rank(d)' = Rank(d)
      BY <2>2 DEF LogInv, Rank
    <3>2. RankInv'
      BY <2>2, <3>1 DEF RankInv
    <3>3. \A i \in 1..Cardinality(ledger) : At(i)' = At(i)
      BY <2>2, <3>1, <3>2, AtIs, AtNext
    <3> QED
      BY <2>2, <3>2, <3>3 DEF LogOf
  <2> QED
    BY <2>1, <2>2, LedgerStays
<1>3. Init => Typed /\ ChainInv
  BY TypeInit, ChainInit
<1>4. Typed /\ ChainInv /\ [Next]_vars => Typed' /\ ChainInv'
  BY TypeNext, ChainNext DEF Typed
<1> QED
  BY <1>1, <1>2, <1>3, <1>4, PTL
     DEF Spec, LogInv, ImplementsLog, Chain!Spec, LogOf, At
=============================================================================
