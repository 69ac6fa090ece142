----------------------------- MODULE Watchlists -----------------------------
(***************************************************************************)
(* Watchlists: the terms an analyst monitors.  An alert <<post, list>> is  *)
(* raised from two sides that do not coordinate: the worker evaluates the  *)
(* lists when it has stored the intelligence of a post, and a request that *)
(* writes a list goes through the stored posts (the backfill).  The worker *)
(* analyses with TextAnalysis and the dictionary of Lexicon, which its     *)
(* refresh and the analysts' requests change meanwhile.  Every call of the *)
(* database is a step of its own, and worker and requests may stop between *)
(* any two.                                                                *)
(***************************************************************************)
EXTENDS Lexicon, Ordering

CONSTANTS
    PostTexts,     \* the captured texts, oldest first
    ListIds,       \* the ids of the watchlists
    TermSets,      \* the sets of phrases a list may monitor
    BackfillLimit, \* the 2000 posts a backfill looks at
    MaxRequests,   \* bound: requests that write a watchlist
    MaxStops       \* bound: crashes and failures of worker and requests

Posts == DOMAIN PostTexts

ASSUME WatchConstantsOK ==
    /\ BackfillLimit \in Nat \ {0}
    /\ MaxRequests \in Nat /\ MaxStops \in Nat
    /\ PostTexts \in Seq(Seq(STRING)) /\ IsFiniteSet(ListIds)
    /\ \A ts \in TermSets : ts # {} /\ <<>> \notin ts

VARIABLES
    intel,     \* the stored intelligence: of each post, {} or {the text observed}
    finished,  \* the posts whose processing completed
    worker,    \* what the processor is doing
    lists,     \* of each list id, {} or {[terms, notify, enabled]}
    request,   \* the write request under way
    alerts,    \* the <<post, list>> alerts ever raised (a TTL index takes them after 30 days)
    sound,     \* history: lists whose last write a full backfill has followed
    evaluated, \* history: of each post, the text its last analysis made of it
    requests,  \* requests so far
    stops      \* crashes and failures so far

deskVars == <<intel, finished, worker, evaluated>>
listVars == <<lists, request, sound, requests>>
watchVars == <<deskVars, listVars, alerts, stops>>

Idle == [step |-> "idle"]

WatchInit ==
    /\ intel = [p \in Posts |-> {}] /\ finished = {} /\ worker = Idle
    /\ lists = [w \in ListIds |-> {}] /\ request = Idle
    /\ alerts = {} /\ sound = {} /\ evaluated = [p \in Posts |-> {}]
    /\ requests = 0 /\ stops = 0

\* What is searched for terms: the stored text, the products, the coded words.
Observed(result) ==
    result.text \o FlattenSeq([i \in DOMAIN result.products |-> result.products[i].canonical])
                \o FlattenSeq([i \in DOMAIN result.decoded |-> result.decoded[i].term])
Matches(terms, observed) == Hits(terms, observed)

Aids == [spacy |-> FALSE, ml |-> NoModel, guess |-> "en"]
Captured(text) == [raw |-> text, source |-> "telegram", age |-> "now", views |-> 0,
                   followers |-> 0, hint |-> <<>>]
Analysis(post) == Process(Captured(PostTexts[post]), dictionary, KnownActors({}), Aids)

-----------------------------------------------------------------------------
(* The worker *)

\* _process_record begins with the dictionary; a first read that fails fails the record.
Claim(p) ==
    /\ worker = Idle /\ p \notin finished
    /\ \/ RefreshPipeline /\ worker' = [step |-> "analyse", post |-> p]
       \/ ReadFails /\ worker' = IF version = NoPipeline THEN Idle
                                 ELSE [step |-> "analyse", post |-> p]
    /\ UNCHANGED <<intel, finished, evaluated, listVars, alerts, stops>>

\* The intelligence is inserted once; a replay goes on with its own analysis.
StoreIntel ==
    /\ worker.step = "analyse"
    /\ LET p == worker.post  result == Analysis(p)
       IN IF result.kept
          THEN /\ intel' = [intel EXCEPT ![p] = IF @ = {} THEN {Observed(result)} ELSE @]
               /\ worker' = [step |-> "evaluate", post |-> p, observed |-> Observed(result)]
               /\ UNCHANGED <<finished, evaluated>>
          ELSE /\ finished' = finished \cup {p}
               /\ evaluated' = [evaluated EXCEPT ![p] = {<<>>}]
               /\ worker' = Idle
               /\ UNCHANGED intel
    /\ UNCHANGED <<lexVars, listVars, alerts, stops>>

\* _evaluate_alerts: the enabled lists that notify, and which of them match.
ListsToAlert(observed) ==
    {w \in ListIds : \E l \in lists[w] : l.enabled /\ l.notify /\ Matches(l.terms, observed)}
EvaluateLists ==
    /\ worker.step = "evaluate"
    /\ worker' = [step |-> "alert", post |-> worker.post, observed |-> worker.observed,
                  todo |-> SetToSeq(ListsToAlert(worker.observed))]
    /\ UNCHANGED <<intel, finished, evaluated, lexVars, listVars, alerts, stops>>

\* One insert each; a duplicate is passed over.
RaiseAlert ==
    /\ worker.step = "alert"
    /\ IF worker.todo # <<>>
       THEN /\ alerts' = alerts \cup {<<worker.post, Head(worker.todo)>>}
            /\ worker' = [worker EXCEPT !.todo = Tail(@)]
            /\ UNCHANGED <<finished, evaluated>>
       ELSE /\ finished' = finished \cup {worker.post}
            /\ evaluated' = [evaluated EXCEPT ![worker.post] = {worker.observed}]
            /\ worker' = Idle
            /\ UNCHANGED alerts
    /\ UNCHANGED <<intel, lexVars, listVars, stops>>

WorkerGivesUp ==
    /\ worker # Idle /\ stops < MaxStops
    /\ stops' = stops + 1
    /\ finished' = finished \cup {worker.post}
    /\ worker' = Idle
    /\ UNCHANGED <<intel, evaluated, lexVars, listVars, alerts>>
\* The worker crashes or the database fails it: the record is processed again.
WorkerStops ==
    /\ worker # Idle /\ stops < MaxStops
    /\ stops' = stops + 1
    /\ worker' = Idle
    /\ UNCHANGED <<intel, finished, evaluated, lexVars, listVars, alerts>>

-----------------------------------------------------------------------------
(* The requests *)

\* The write itself; what the request still owes depends on its audit record.
WriteList(w, list, backfills) ==
    /\ request = Idle /\ requests < MaxRequests
    /\ requests' = requests + 1
    /\ lists' = [lists EXCEPT ![w] = {list}]
    /\ sound' = sound \ {w}
    /\ request' = [step |-> "audit", list |-> w, created |-> lists[w] = {},
                   then |-> backfills, terms |-> list.terms, notify |-> list.notify]
    /\ UNCHANGED <<deskVars, lexVars, alerts, stops>>

CreateWatchlist(w, terms, notify) ==
    lists[w] = {} /\ WriteList(w, [terms |-> terms, notify |-> notify, enabled |-> TRUE], TRUE)
\* update_watchlist backfills when the terms or notify are among the fields.
UpdateTerms(w, terms, notify) ==
    \E l \in lists[w] : WriteList(w, [l EXCEPT !.terms = terms, !.notify = notify], TRUE)
UpdateEnabled(w, enabled) ==
    \E l \in lists[w] : WriteList(w, [l EXCEPT !.enabled = enabled], FALSE)
DeleteWatchlist(w) ==
    /\ request = Idle /\ requests < MaxRequests /\ lists[w] # {}
    /\ requests' = requests + 1
    /\ lists' = [lists EXCEPT ![w] = {}]
    /\ sound' = sound \ {w}
    /\ UNCHANGED <<request, deskVars, lexVars, alerts, stops>>

\* audit_event: without its record a creation is undone, an update stays
\* without its backfill.
Audited ==
    /\ request.step = "audit"
    /\ request' = IF request.then THEN [request EXCEPT !.step = "sample"] ELSE Idle
    /\ UNCHANGED <<lists, sound, requests, deskVars, lexVars, alerts, stops>>
AuditFails ==
    /\ request.step = "audit" /\ stops < MaxStops
    /\ stops' = stops + 1
    /\ lists' = IF request.created THEN [lists EXCEPT ![request.list] = {}] ELSE lists
    /\ request' = Idle
    /\ UNCHANGED <<sound, requests, deskVars, lexVars, alerts>>

\* _load_intel_sample: the newest posts, up to the limit.
Sample ==
    LET stored == {p \in Posts : intel[p] # {}}
    IN {p \in stored : Cardinality({q \in stored : q > p}) < BackfillLimit}
LoadSample ==
    /\ request.step = "sample"
    /\ LET matching == {p \in Sample : \E t \in intel[p] : Matches(request.terms, t)}
       IN request' = [step |-> "backfill", list |-> request.list,
                      todo |-> IF request.notify THEN Ordered(matching, >) ELSE <<>>,
                      truncated |-> \E p \in Posts : intel[p] # {} /\ p \notin Sample]
    /\ UNCHANGED <<lists, sound, requests, deskVars, lexVars, alerts, stops>>
Backfill ==
    /\ request.step = "backfill"
    /\ IF request.todo # <<>>
       THEN /\ alerts' = alerts \cup {<<Head(request.todo), request.list>>}
            /\ request' = [request EXCEPT !.todo = Tail(@)]
            /\ UNCHANGED sound
       ELSE /\ request' = Idle
            /\ sound' = IF request.truncated THEN sound ELSE sound \cup {request.list}
            /\ UNCHANGED alerts
    /\ UNCHANGED <<lists, requests, deskVars, lexVars, stops>>

\* The API stops, or the database fails the request.
RequestStops ==
    /\ request # Idle /\ stops < MaxStops
    /\ stops' = stops + 1
    /\ request' = Idle
    /\ UNCHANGED <<lists, sound, requests, deskVars, lexVars, alerts>>

-----------------------------------------------------------------------------
Worker == (\E p \in Posts : Claim(p)) \/ StoreIntel \/ EvaluateLists \/ RaiseAlert \/ WorkerStops
Requests ==
    \/ \E w \in ListIds :
          \/ \E ts \in TermSets, n \in BOOLEAN : CreateWatchlist(w, ts, n) \/ UpdateTerms(w, ts, n)
          \/ \E e \in BOOLEAN : UpdateEnabled(w, e)
          \/ DeleteWatchlist(w)
    \/ Audited \/ AuditFails \/ LoadSample \/ Backfill \/ RequestStops

WatchNext == Worker \/ Requests \/ (Analyst /\ UNCHANGED watchVars)
WatchSpec == WatchInit /\ LexInit /\ [][WatchNext]_<<watchVars, lexVars>>

-----------------------------------------------------------------------------
\* No match is missed: a list that is enabled and notifies, and whose last
\* write was followed by a backfill that looked at every stored post, has had
\* its alert raised for every finished post whose stored text matches, whether
\* the post was stored before the write, during the backfill or after it, and
\* whatever was replayed.  Excepted is a post whose replay saw another dictionary than
\* the analysis that was stored.
NoMatchMissed ==
    \A w \in sound, p \in finished :
        \A l \in lists[w], t \in intel[p] :
            /\ l.enabled /\ l.notify /\ Matches(l.terms, t)
            /\ evaluated[p] \in {{}, intel[p]}
            => <<p, w>> \in alerts
=============================================================================
