------------------------------- MODULE Paging -------------------------------
(***************************************************************************)
(* A client walks through a list page by page while the processor stores   *)
(* more intelligence: the records, newest first (routes/intel.py), or the  *)
(* actors, those with most listings first (routes/actors.py).  A page is   *)
(* one query for what sorts behind the cursor; the cursor is where the     *)
(* page before ended.  Intelligence is never deleted, and its captured_at  *)
(* may be older than that of records stored before it.                     *)
(***************************************************************************)
EXTENDS Integers, SequencesExt, Ordering

CONSTANTS
    Catalogue, \* the records that may be stored: [id, at, aliases, whole]
    Limits     \* the page sizes a client may ask for

ASSUME PagingConstantsOK ==
    /\ Limits \subseteq Nat \ {0}
    /\ IsFiniteSet(Catalogue)
    /\ Catalogue \subseteq [id : Nat, at : Nat, aliases : SUBSET Nat, whole : BOOLEAN]
    /\ \A r \in Catalogue : IsFiniteSet(r.aliases)
    /\ \A r, s \in Catalogue : r.id = s.id => r = s

VARIABLES
    records, \* the stored intelligence
    walk,    \* the list the client walks through and where it stands
    listed,  \* what its pages listed, in order
    start    \* history: the records when it asked for the first page

pagingVars == <<records, walk, listed, start>>

NoWalk == [list |-> "none"]
First == {}  \* the cursor of the first page

PagingInit ==
    /\ records \in SUBSET Catalogue
    /\ walk = NoWalk /\ listed = <<>> /\ start = {}

\* insert_one of the processor
Insert(r) ==
    /\ r \notin records
    /\ records' = records \cup {r}
    /\ UNCHANGED <<walk, listed, start>>

\* list_intel may filter by the date of capture.
WalkIntel(limit, from) ==
    /\ walk = NoWalk
    /\ walk' = [list |-> "intel", limit |-> limit, from |-> from, cursor |-> First]
    /\ start' = records
    /\ UNCHANGED <<records, listed>>
WalkActors(limit) ==
    /\ walk = NoWalk
    /\ walk' = [list |-> "actors", limit |-> limit, cursor |-> First]
    /\ start' = records
    /\ UNCHANGED <<records, listed>>

\* One row more than the page shows whether there is a next one; the cursor
\* names the last row of the page, listed or not.
Page(rows) == SubSeq(rows, 1, Min({walk.limit, Len(rows)}))
ShowPage(rows, shown) ==
    /\ listed' = listed \o shown
    /\ walk' = IF Len(rows) > walk.limit
               THEN [walk EXCEPT !.cursor = {Last(Page(rows))}]
               ELSE [list |-> "done", of |-> walk]
    /\ UNCHANGED <<records, start>>

-----------------------------------------------------------------------------
(* list_intel *)

Newer(r, s) == r.at > s.at \/ (r.at = s.at /\ r.id > s.id)
BehindByTime(cursor) == {r \in records : \A c \in cursor : r.at < c.at}
Behind(cursor) == {r \in records : \A c \in cursor : r.at < c.at \/ (r.at <= c.at /\ r.id < c.id)}

\* A record without what a summary needs takes its row of the page, unlisted.
Complete(r) == r.whole
IntelPage ==
    /\ walk.list = "intel"
    /\ LET rows == Ordered({r \in Behind(walk.cursor) : r.at >= walk.from}, Newer)
       IN ShowPage(rows, Ordered({r \in Range(Page(rows)) : Complete(r)}, Newer))

-----------------------------------------------------------------------------
(* list_actors: the vendors of all records, grouped by alias *)

Listings(stored, alias) == Cardinality({r \in stored : alias \in r.aliases})
Actors(stored) ==
    {[alias |-> a, count |-> Listings(stored, a)] : a \in UNION {r.aliases : r \in stored}}
Busier(a, b) == a.count > b.count \/ (a.count = b.count /\ a.alias < b.alias)
ActorsBehind(cursor) ==
    {a \in Actors(records) :
        \A c \in cursor : a.count < c.count \/ (a.count = c.count /\ a.alias > c.alias)}

ActorsPage ==
    /\ walk.list = "actors"
    /\ LET rows == Ordered(ActorsBehind(walk.cursor), Busier)
       IN ShowPage(rows, Page(rows))

-----------------------------------------------------------------------------
PagingNext ==
    \/ \E r \in Catalogue : Insert(r)
    \/ \E l \in Limits :
          \/ WalkActors(l)
          \/ \E from \in {0} \cup {r.at : r \in Catalogue} : WalkIntel(l, from)
    \/ IntelPage \/ ActorsPage

PagingSpec == PagingInit /\ [][PagingNext]_pagingVars

-----------------------------------------------------------------------------
\* Walking through a list to its last page shows each entry once, whatever is
\* stored between two pages.  The records come strictly from newer to older and
\* every complete one that was stored at the start and passes the filter is
\* among them.  No actor is listed twice, and an actor of the start is left out
\* only if a new listing moved it up past the cursor.
WalkIsComplete ==
    LET over == walk.list = "done"
        of   == IF over THEN walk.of.list ELSE walk.list
    IN CASE of = "intel" ->
                /\ \A i, j \in DOMAIN listed : i < j => Newer(listed[i], listed[j])
                /\ over => \A r \in start : Complete(r) /\ r.at >= walk.of.from => Contains(listed, r)
         [] of = "actors" ->
                /\ \A i, j \in DOMAIN listed : i # j => listed[i].alias # listed[j].alias
                /\ over => \A a \in Actors(start) \cap Actors(records) :
                               \E i \in DOMAIN listed : listed[i].alias = a.alias
         [] OTHER -> TRUE
=============================================================================
