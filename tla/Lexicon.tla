------------------------------- MODULE Lexicon -------------------------------
(***************************************************************************)
(* The dictionary of coded words: the slang collection that analysts edit  *)
(* (api/routes/slang.py), seeded when the API boots, and the copy of it    *)
(* that the processor analyses with (processor._refresh_pipeline), which   *)
(* it rebuilds only when the ids and the times of the decided documents    *)
(* have changed.                                                           *)
(***************************************************************************)
EXTENDS TextAnalysis

CONSTANTS
    Terms,       \* the phrases analysts make entries for
    Meanings,    \* what an entry may say a term means
    Seed,        \* the seed file: the meaning of the terms it lists
    MaxWrites,   \* bound: writes to the collection in a behaviour
    MaxFailures  \* bound: reads and audit writes that fail

Statuses == {"pending", "approved", "rejected"}

ASSUME LexiconConstantsOK ==
    /\ IsFiniteSet(DOMAIN Seed)
    /\ DOMAIN Seed \subseteq Terms /\ Range(Seed) \subseteq Meanings
    /\ MaxWrites \in Nat /\ MaxFailures \in Nat

VARIABLES
    slang,      \* the documents in the order they were inserted
    creating,   \* the create request between its check and its insert, if any
    dictionary, \* what the processor decodes with
    version,    \* {} or {the <<id, updated_at>> of the documents it was built from}
    readAt,     \* history: the documents at its last successful read
    writes,     \* writes so far; the n-th sets updated_at to n
    lexFailures \* failures so far

lexVars == <<slang, creating, dictionary, version, readAt, writes, lexFailures>>

NoPipeline == {}  \* the version before the first pipeline is built

Doc(id, term, meaning, status, at) ==
    [id |-> id, term |-> term, meaning |-> meaning, status |-> status, at |-> at]
\* ensure_application_defaults: a seed entry has an id of its own and no updated_at.
SeedDoc(term) == Doc(term, term, Seed[term], "approved", 0)
Ids(docs) == {docs[i].id : i \in DOMAIN docs}
Reseeded(docs) ==
    docs \o SetToSeq({SeedDoc(t) : t \in DOMAIN Seed \ Ids(docs)})

LexInit ==
    /\ slang = Reseeded(<<>>)
    /\ creating = {}
    /\ dictionary = <<>> /\ version = NoPipeline /\ readAt = <<>>
    /\ writes = 0 /\ lexFailures = 0

-----------------------------------------------------------------------------
(* The routes; a failed audit write answers 500 but leaves the write *)

Write(docs) ==
    /\ writes < MaxWrites
    /\ writes' = writes + 1
    /\ slang' = docs
    /\ lexFailures' \in {n \in {lexFailures, lexFailures + 1} : n <= MaxFailures}
    /\ UNCHANGED <<dictionary, version, readAt>>

\* create_slang_entry: 409 if the term has a document, then the insert.
CheckTerm(term) ==
    /\ creating = {}
    /\ \A i \in DOMAIN slang : slang[i].term # term
    /\ creating' = {term}
    /\ UNCHANGED <<slang, dictionary, version, readAt, writes, lexFailures>>
InsertTerm(meaning, newlyDiscovered) ==
    \E term \in creating :
        /\ creating' = {}
        /\ Write(Append(slang, Doc(<<"uuid", writes>>, term, meaning,
                                   IF newlyDiscovered THEN "pending" ELSE "approved", writes + 1)))

\* update_slang_entry sets the fields given, the status too, "pending" included;
\* approve and reject set the status.
SetFields(i, term, meaning, status) ==
    Write([slang EXCEPT ![i] = Doc(slang[i].id, term, meaning, status, writes + 1)])
UpdateEntry(i, term, meaning, status) ==
    SetFields(i, term, meaning, status) /\ UNCHANGED creating
ReviewEntry(i, status) ==
    SetFields(i, slang[i].term, slang[i].meaning, status) /\ UNCHANGED creating
DeleteEntry(i) ==
    Write(RemoveAt(slang, i)) /\ UNCHANGED creating

\* A restart of the API inserts the seed entries that are gone.
Boot ==
    /\ Reseeded(slang) # slang
    /\ slang' = Reseeded(slang)
    /\ creating' = {}
    /\ UNCHANGED <<dictionary, version, readAt, writes, lexFailures>>

Analyst ==
    \/ \E t \in Terms : CheckTerm(t)
    \/ \E m \in Meanings, n \in BOOLEAN : InsertTerm(m, n)
    \/ \E i \in DOMAIN slang :
          \/ \E t \in Terms, m \in Meanings, s \in Statuses : UpdateEntry(i, t, m, s)
          \/ \E s \in Statuses \ {"pending"} : ReviewEntry(i, s)
          \/ DeleteEntry(i)
    \/ Boot

-----------------------------------------------------------------------------
(* The processor *)

\* build_runtime_dictionary: the seed, then what each decided document says of
\* its term, in order; a pending one says nothing.
Ruled(d, e) ==
    CASE e.status = "pending"  -> d
      [] e.status = "rejected" -> [t \in DOMAIN d \ {e.term} |-> d[t]]
      [] e.status = "approved" -> [t \in DOMAIN d \cup {e.term} |->
                                      IF t = e.term THEN e.meaning ELSE d[t]]
Build(docs) ==
    LET built[n \in 0..Len(docs)] ==
            IF n = 0 THEN Seed ELSE Ruled(built[n - 1], docs[n])
    IN built[Len(docs)]

Decided(docs) == {d \in ToSet(docs) : d.status # "pending"}
VersionByIds(docs) == {<<d.id>> : d \in Decided(docs)}
Version(docs) == {<<d.id, d.at>> : d \in Decided(docs)}

RefreshPipeline ==
    /\ IF version = {Version(slang)} THEN UNCHANGED <<dictionary, version>>
       ELSE /\ version' = {Version(slang)}
            /\ dictionary' = Build(slang)
    /\ readAt' = slang
    /\ UNCHANGED <<slang, creating, writes, lexFailures>>

\* The last good dictionary serves on; without one the record fails.
ReadFails ==
    /\ lexFailures < MaxFailures
    /\ lexFailures' = lexFailures + 1
    /\ UNCHANGED <<slang, creating, dictionary, version, readAt, writes>>

LexNext == Analyst \/ RefreshPipeline \/ ReadFails
LexSpec == LexInit /\ [][LexNext]_lexVars

-----------------------------------------------------------------------------
DocsOf(docs, term) == {d \in ToSet(docs) : d.term = term}
Decision(docs, term) ==
    LET undecided == IF term \in DOMAIN Seed THEN {Seed[term]} ELSE {}
    IN IF \A d \in DocsOf(docs, term) : d.status = "pending" THEN undecided
       ELSE {d.meaning : d \in {e \in DocsOf(docs, term) : e.status = "approved"}}

\* Once the processor has read the collection, a term decodes to what the
\* analysts had decided by then: its approved meaning, nothing once rejected,
\* the seed's meaning while nothing is decided.  The shortcut that skips the
\* rebuild never hides a decision, whatever was edited, withdrawn to "pending",
\* deleted or seeded again since.  Terms with two documents (a create racing a rename, or a
\* renamed entry) are excepted: the later document wins.
DecisionsTakeEffect ==
    version # NoPipeline =>
        \A t \in Terms :
            Cardinality(DocsOf(readAt, t)) <= 1 =>
                {dictionary[u] : u \in {t} \cap DOMAIN dictionary} = Decision(readAt, t)
=============================================================================
