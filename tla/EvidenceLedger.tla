--------------------------- MODULE EvidenceLedger ---------------------------
(***************************************************************************)
(* The hash chain of evidence seals: generate_seal of                      *)
(* api/routes/evidence.py with EvidenceSealer.seal, as POST /evidence/seal *)
(* and POST /export run it, and the walk of verify_chain.                  *)
(*                                                                         *)
(* A request reads, computes and inserts in separate calls; what keeps two *)
(* of them apart are the unique indexes on hash_sha256 and, for strings    *)
(* only, on previous_hash.  "Last" is the greatest _id, an ObjectId the    *)
(* client stamps before it sends the insert.                               *)
(***************************************************************************)
EXTENDS Integers, FiniteSets

CONSTANTS
    Requests,     \* requests that seal a payload
    Hashes,       \* hashes of payloads
    Exports,      \* the requests that are exports
    Tries,        \* the 5 rounds of generate_seal
    First,        \* hash of an entry sealed before, or None: an empty ledger
    MaxId,        \* bound: ObjectIds
    Disturbances, \* kinds of disturbance a run admits
    MaxDisturbed, \* bound: disturbances in a behaviour
    None

ASSUME ConstantsOK ==
    /\ Exports \subseteq Requests
    /\ Tries \in Nat \ {0} /\ MaxId \in Nat /\ MaxDisturbed \in Nat
    /\ First \in Hashes \cup {None} /\ None \notin Hashes
    /\ Disturbances \subseteq {"audit", "error", "lost_ack", "crash"}

VARIABLES
    ledger,   \* evidence: entries [id, hash, prev]
    manifest, \* export_manifests: hashes of exports
    audited,  \* hashes with an audit event of their sealing
    clock,    \* ObjectIds stamped so far
    pc,       \* where each request stands
    hash,     \* the hash of its payload
    prev,     \* previous_hash it read
    stamp,    \* the ObjectId of its entry, 0 before it has one
    round,    \* rounds of generate_seal it lost
    since,    \* history: the size of the ledger when it began
    disturbed

stores == <<ledger, manifest, audited>>
locals == <<hash, prev, stamp, round, since>>
vars   == <<stores, clock, pc, locals, disturbed>>

Steps == {"new", "audit", "look", "last", "stamp", "insert", "manifest",
          "ok", "conflict", "error"}
Entry == [id : Nat, hash : Hashes, prev : Hashes \cup {None}]

TypeOK ==
    /\ ledger \in SUBSET Entry
    /\ manifest \in SUBSET Hashes /\ audited \in SUBSET Hashes
    /\ clock \in Nat
    /\ pc \in [Requests -> Steps]
    /\ hash \in [Requests -> Hashes \cup {None}]
    /\ \A q \in Requests : pc[q] # "new" => hash[q] \in Hashes
    /\ prev \in [Requests -> Hashes \cup {None}]
    /\ stamp \in [Requests -> Nat]
    /\ round \in [Requests -> 0..Tries]
    /\ since \in [Requests -> Nat]
    /\ disturbed \in 0..MaxDisturbed

Init ==
    /\ ledger = IF First = None THEN {} ELSE {[id |-> 1, hash |-> First, prev |-> None]}
    /\ audited = {First} \cap Hashes
    /\ manifest = {}
    /\ clock = 1
    /\ pc = [q \in Requests |-> "new"]
    /\ hash = [q \in Requests |-> None] /\ prev = [q \in Requests |-> None]
    /\ stamp = [q \in Requests |-> 0] /\ round = [q \in Requests |-> 0]
    /\ since = [q \in Requests |-> 0]
    /\ disturbed = 0

Disturb(kind) ==
    /\ kind \in Disturbances
    /\ disturbed < MaxDisturbed
    /\ disturbed' = disturbed + 1

Goto(q, from, to) ==
    /\ pc[q] = from
    /\ pc' = [pc EXCEPT ![q] = to]
-----------------------------------------------------------------------------
(* The handlers: audit first, which is required of a POST, then seal. *)

Receive(q, h) ==
    /\ Goto(q, "new", "audit")
    /\ hash' = [hash EXCEPT ![q] = h]
    /\ UNCHANGED <<stores, clock, prev, stamp, round, since, disturbed>>

Audit(q) ==
    /\ Goto(q, "audit", "look")
    /\ audited' = audited \cup {hash[q]}
    /\ since' = [since EXCEPT ![q] = Cardinality(ledger)]
    /\ UNCHANGED <<ledger, manifest, clock, hash, prev, stamp, round, disturbed>>

Sealed(q) == IF q \in Exports THEN "manifest" ELSE "ok"

\* A payload that was sealed before keeps its seal.
Look(q) ==
    /\ Goto(q, "look", IF \E e \in ledger : e.hash = hash[q] THEN Sealed(q) ELSE "last")
    /\ UNCHANGED <<stores, clock, locals, disturbed>>

IsLast(e) == e \in ledger /\ \A d \in ledger : d.id <= e.id

ReadLast(q) ==
    /\ Goto(q, "last", "stamp")
    /\ \/ \E e \in ledger : IsLast(e) /\ prev' = [prev EXCEPT ![q] = e.hash]
       \/ ledger = {} /\ prev' = [prev EXCEPT ![q] = None]
    /\ UNCHANGED <<stores, clock, hash, stamp, round, since, disturbed>>

\* insert_one makes the ObjectId before it sends the document: increasing, for
\* one process serves the API.
Stamp(q) ==
    /\ Goto(q, "stamp", "insert")
    /\ clock < MaxId
    /\ clock' = clock + 1
    /\ stamp' = [stamp EXCEPT ![q] = clock + 1]
    /\ UNCHANGED <<stores, hash, prev, round, since, disturbed>>

\* mutants: an index is missing
AcceptsAnyPrevious(q) == \A e \in ledger : e.hash # hash[q]
AcceptsAnyHash(q) == \A e \in ledger : prev[q] # None => e.prev # prev[q]

\* The two unique indexes; previous_hash is indexed for strings only.
Accepts(q) ==
    \A e \in ledger : e.hash # hash[q] /\ (prev[q] # None => e.prev # prev[q])

NewEntry(q) == [id |-> stamp[q], hash |-> hash[q], prev |-> prev[q]]

Insert(q) ==
    /\ Accepts(q)
    /\ Goto(q, "insert", Sealed(q))
    /\ ledger' = ledger \cup {NewEntry(q)}
    /\ UNCHANGED <<manifest, audited, clock, locals, disturbed>>

\* mutant: a round keeps the previous hash it read before
RefusedKeepsPrevious(q) ==
    /\ ~Accepts(q)
    /\ Goto(q, "insert", IF round[q] + 1 < Tries THEN "stamp" ELSE "conflict")
    /\ round' = [round EXCEPT ![q] = @ + 1]
    /\ stamp' = [stamp EXCEPT ![q] = 0]
    /\ UNCHANGED <<stores, clock, hash, prev, since, disturbed>>

\* DuplicateKeyError: another round, or 409 after the last one.
Refused(q) ==
    /\ ~Accepts(q)
    /\ Goto(q, "insert", IF round[q] + 1 < Tries THEN "look" ELSE "conflict")
    /\ round' = [round EXCEPT ![q] = @ + 1]
    /\ stamp' = [stamp EXCEPT ![q] = 0]
    /\ UNCHANGED <<stores, clock, hash, prev, since, disturbed>>

\* mutant: the manifest is keyed by the hash before its own
WriteManifestOfPrevious(q) ==
    /\ Goto(q, "manifest", "ok")
    /\ manifest' = manifest \cup {prev[q]}
    /\ UNCHANGED <<ledger, audited, clock, locals, disturbed>>

\* The manifest of an export is upserted after its seal; then it is delivered.
WriteManifest(q) ==
    /\ Goto(q, "manifest", "ok")
    /\ manifest' = manifest \cup {hash[q]}
    /\ UNCHANGED <<ledger, audited, clock, locals, disturbed>>
-----------------------------------------------------------------------------
(* A call raises, before or after it took effect, or the process dies. *)

InFlight == {"audit", "look", "last", "stamp", "insert", "manifest"}

\* mutant: the audit event is not required
CallFailsUnaudited(q) ==
    \/ /\ Goto(q, "audit", "look") /\ Disturb("audit")
       /\ UNCHANGED <<stores, clock, locals>>
    \/ /\ pc[q] \in {"look", "last", "insert", "manifest"} /\ Disturb("error")
       /\ pc' = [pc EXCEPT ![q] = "error"]
       /\ UNCHANGED <<stores, clock, locals>>

CallFails(q) ==
    /\ \/ pc[q] = "audit" /\ Disturb("audit")
       \/ pc[q] \in {"look", "last", "insert", "manifest"} /\ Disturb("error")
    /\ pc' = [pc EXCEPT ![q] = "error"]
    /\ UNCHANGED <<stores, clock, locals>>

InsertAckLost(q) ==
    /\ Accepts(q)
    /\ Goto(q, "insert", "error")
    /\ Disturb("lost_ack")
    /\ ledger' = ledger \cup {NewEntry(q)}
    /\ UNCHANGED <<manifest, audited, clock, locals>>

Crash ==
    /\ Disturb("crash")
    /\ pc' = [q \in Requests |-> IF pc[q] \in InFlight THEN "error" ELSE pc[q]]
    /\ UNCHANGED <<stores, clock, locals>>

\* The client sends a request that went wrong or conflicted once more.
Resend(q) ==
    /\ pc[q] \in {"conflict", "error"}
    /\ pc' = [pc EXCEPT ![q] = "audit"]
    /\ prev' = [prev EXCEPT ![q] = None]
    /\ stamp' = [stamp EXCEPT ![q] = 0]
    /\ round' = [round EXCEPT ![q] = 0]
    /\ UNCHANGED <<stores, clock, hash, since, disturbed>>

Work(q) ==
    \/ Audit(q) \/ Look(q) \/ ReadLast(q) \/ Stamp(q) \/ Insert(q) \/ Refused(q)
    \/ WriteManifest(q)

Done == \A q \in Requests : pc[q] = "ok"

Next ==
    \/ \E q \in Requests :
          \/ \E h \in Hashes : Receive(q, h)
          \/ Work(q) \/ CallFails(q) \/ InsertAckLost(q) \/ Resend(q)
    \/ Crash
    \/ Done /\ UNCHANGED vars

Spec == Init /\ [][Next]_vars
-----------------------------------------------------------------------------
\* verify_chain: each entry but the first, in the order of _id, names the hash
\* of the one before it.  Whatever seals run at once, fail or are sent again,
\* the walk finds no break.
ChainVerifies ==
    \A d \in ledger :
        \/ \A e \in ledger : d.id <= e.id
        \/ \E e \in ledger :
              /\ e.id < d.id /\ d.prev = e.hash
              /\ \A f \in ledger : ~(e.id < f.id /\ f.id < d.id)

\* A seal an export delivered is in the ledger, so is every manifest, and what
\* is in the ledger has an audit event: each is written before the next.
DeliveredIsSealed ==
    /\ \A q \in Requests : pc[q] = "ok" =>
          /\ \E e \in ledger : e.hash = hash[q]
          /\ q \in Exports => hash[q] \in manifest
    /\ \A h \in manifest : \E e \in ledger : e.hash = h
    /\ \A e \in ledger : e.hash \in audited

\* 409 "Evidence chain conflict" is the answer to contention only: each of its
\* rounds was lost to an entry another request inserted meanwhile.
ConflictMeansContention ==
    \A q \in Requests :
        pc[q] = "conflict" => Cardinality(ledger) >= since[q] + Tries

\* The ledger as verify_chain walks it is an append-only sequence of hashes.
Rank(e) == Cardinality({d \in ledger : d.id <= e.id})

Chain == INSTANCE AppendOnlyLog
            WITH Values <- Hashes,
                 log <- [i \in 1..Cardinality(ledger) |->
                            (CHOOSE e \in ledger : Rank(e) = i).hash]

ImplementsLog == Chain!Spec
============================================================================
