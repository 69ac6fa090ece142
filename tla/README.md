# DarkPulse: a verification development

DarkPulse collects text from pages, Telegram channels and onion services,
stores it as raw records in MongoDB, analyses it, writes the resulting
intelligence to MongoDB and Neo4j, raises alerts, and lets analysts export
reports whose hashes form a chain of evidence. This directory holds TLA+ models
of the parts where calls, processes, failures and restarts can interleave, the
TLC configurations that check them on small instances, and proofs that TLAPS
checks for every value of the constants.

Paths below are relative to `src/src/darkpulse/` unless they begin with `src/`.

## 1. The system

```
 collectors ──► pipeline ──► raw_ingest ──► processor ──► intel (MongoDB)
 (collect-all)  (Redis key,   (MongoDB,     (leases)  ├─► graph (Neo4j)
      │          safety)       TTL index)             └─► alerts ──► websockets
 content state,                                                  (Redis relay)
 checkpoints (Redis)
                         API: seal / export ──► evidence ledger, manifests
```

Collectors run in a process of their own (`collect-all --loop`, restarted by
docker-compose); the API is one uvicorn process that also runs the processor as
a task. They share nothing but MongoDB, Redis and Neo4j.

### Components

**Raw-ingest processor** (`broker/processor.py`). State: the `processing`
sub-document of each raw record (status, lease, attempts, phase, waits,
`completed_at`), `intel`, the graph, `alerts_history`, the locals of
`_process_doc`. Operations: sweep stale leases, claim, check the content,
analyse, insert the intelligence, upsert the graph, wait for the graph, evaluate
alerts, write the snapshot, finish, fail; start, stop, crash; an operator's
retry. It reads from what the pipeline wrote and calls the graph and the alert
delivery. Hard: a lease that runs out under a live instance (no write names the
lease owner), calls that fail after they took effect, shutdown and crash between
any two calls, outages of the graph, replays of half-done records. Correct when
attempts stay bounded, completion is truthful, nothing dangles, no alert is
broadcast more often than it entered the history, and every record is resolved in the end.

**Ingestion pipeline** (`ingestion/pipeline.py`, `dedup.py`, `publisher.py`).
State: a Redis key per record (pending for 300 s, done for 90 days), the unique
`dedup_key` of `raw_ingest`. Operations: reserve, publish, release, commit with
three retries. Hard: two processes with one record, a process that outlives its
own reservation, lost acknowledgements. Correct when the long-lived key is set
only for what was inserted, no insert is reported twice and no reservation is
left behind.

**Surface and Telegram collection** (`ingestion/collectors/`,
`checkpoints.py`, `content_state.py`, the loop in `cli.py`). State: the hash
each page was last handled with, the checkpoint of each source, the position in
the run. The collector is a generator: the runner takes a record, sends it
through the pipeline and only then resumes it. Hard: an error or a crash in the
middle of a feed, the next cycle, a reservation left by a crash. Correct when
what the two stores call handled was stored, and what stays on a page is
collected.

**Evidence ledger** (`evidence/sealing.py`, `api/routes/evidence.py`,
`api/routes/export.py`, `api/audit.py`). State: the entries of the ledger, the
export manifests, the audit log. Operations: seal a payload (look for a seal,
read the last entry, insert; up to five rounds), export (audit, seal, manifest,
deliver), verify the chain. Hard: concurrent seals on the same last entry; only
two unique indexes separate them. Correct when the chain verifies, grows at its
end only, and nothing unsealed is delivered.

**Onion collection** (`ingestion/collectors/onion.py`, `discovery.py`,
`registry.py`, `http.py`). State: the queue and visited set of a breadth-first
crawl, page and depth limits, content state of each page, checkpoint of the
source. Each page that changed goes through the pipeline before the crawl goes
on. Hard: failing fetches, a run that ends in the middle of a crawl, pages that
several ways lead to, the next cycle. Correct when the depth limit cuts off
nothing that is near enough, a run exhausts the reviewed scope, and every page
in scope is collected in the end.

**Alerts and live delivery** (`api/routes/alerts.py`, and the client of it in
`src/frontend/src/pages/AlertsPage.tsx` and `hooks/index.ts`). State: the
registry of websockets, the relay task over Redis publish/subscribe, the
history of alerts; in the page the connection with its retries and the requests
under way. The processor publishes, or delivers itself when Redis fails; the
relay delivers what it hears; each frame makes a page load the history again.
Hard: two tasks deliver at once, a relay that died, a slow client, a connection
lost and made again, responses that overtake each other. Correct when no alert
is sent twice, the registry and the handlers agree, and a page that stays
connected lists every alert in the end.

**Sessions and access** (`api/security.py`, `api/routes/auth.py`,
`api/rate_limit.py`). State: sessions and websocket tickets in the memory of each
API process and in Redis, the client each process has of Redis, the counter of
writes of a client in Redis and its stand-in in memory. Operations: log in, log
out, refresh, authenticate a request, mint and consume a ticket, charge a write.
Hard: a call of Redis that fails is swallowed after the memory was changed, a
process gives Redis up for good when its first ping fails, restarts, a configured
token that expires and makes its process refuse every session, two calls
(`INCR`, `EXPIRE`) with a crash between them. Correct when the processes agree on
who is logged in, a ticket is used once and no client is locked out for good.

**Watchlists and slang administration** (`api/routes/watchlists.py`, `slang.py`,
`nlp/runtime_dictionary.py`). State: the lists an analyst monitors, the coded
words and the decisions about them, the dictionary the processor built from
those. Operations: create, change and delete a list, audit it, go through the
stored posts; propose, approve, reject, edit and delete a coded word, seed the
collection at boot, rebuild the dictionary. Hard: a post stored while a new list
goes through the stored ones, a replay with another dictionary, the shortcut
that skips the rebuild. Correct when no match is missed and every decision
takes effect.

**Analysis** (`nlp/`): a function of a post, the dictionary and the actors known
at the time. No state, but a long order of steps: safety check, normalisation,
redaction, detectors, scores. Hard: which step reads which form of the text, the
optional parts that may be missing, ties and limits of the scores. Correct when
a disguise hides nothing, nothing personal is stored in the open, and no word is
counted twice.

**Read routes** (`api/routes/intel.py`, `actors.py`, `search.py` and others). No
state of their own, but a walk through a list goes over several queries with a
cursor while records are stored. Correct when the walk neither skips nor repeats.

**Record hygiene** (`ingestion/safety.py`, `hashing.py`, `validation.py`,
`extraction.py`): functions of one record, whose verdicts `Pipeline` takes as
given. **Stores** (`storage/mongodb.py`, `neo4j.py`): indexes, upserts, reads.
**Configuration, the other pages of the frontend, scripts, deployment**: no
behaviour of their own that interleaves with anything.

`PROJECT.json` lists every component with its status, and every hazard with
the line where it bites and the properties that cover it.

## 2. The modules

| module | models | state ↔ code |
|---|---|---|
| `Processor` | `broker/processor.py` and what it writes | `raw[r]` is the `processing` sub-document, `intel`/`graph`/`snapshot`/`alerts` the stores, `keyHeld` the Redis dedup key, `pc`/`job` the place and locals of an instance |
| `ProcessorProperties` | its properties | |
| `IngestLifecycle` | the promise about one record | `outcome`, `indexed` |
| `Pipeline` | `ingestion/pipeline.py`, `dedup.py`, `publisher.py` | `key` is the Redis key, `stored` the documents of `raw_ingest`, `step`/`item`/`tries` a call of `process()` |
| `Collection` | collectors, runner, loop, on top of `Pipeline` | `state` is the content state (the version whose `Digest` is stored), `mark` the checkpoints, `at`/`pos`/`seen`/`todo` a run |
| `OnionCrawl` | the onion collector, runner, loop, on top of `Pipeline` | `queue`/`visited`/`here`/`seen` the locals of `_collect`, `state` the content state, `version` the source's checkpoint, `trail` a history of the run |
| `EvidenceLedger` | seal, export, verify | `ledger`, `manifest`, `audited` the collections; `prev`/`stamp`/`round` the locals of `generate_seal` |
| `LiveAlerts` | `api/routes/alerts.py`, `AlertsPage.tsx`, `useApi` | `registered` is `_connections`, `hand`/`link` the handlers and connections, `caster`/`relay` the two tasks, `carried`/`todo`/`gone` where each of them stands in `_deliver_local`, `channel` the messages in Redis; `conn`/`sock` the effect of the page, `pending`/`newest`/`shown` its `useApi` |
| `AppendOnlyLog` | the promise about the ledger | `log` |
| `TextAnalysis` | `nlp/` | none: `Process` is `NLPPipeline.process`, with one operator for each step of it |
| `PostAnalysis` | one call of it | `post`, `setting` its arguments, `outcome` its result |
| `Lexicon` | `api/routes/slang.py`, the seeding, `_refresh_pipeline` | `slang` is the collection, `creating` the requests between their check and their insert, `dictionary`/`version` the processor's copy, `readAt` a history of what it read |
| `Watchlists` | `api/routes/watchlists.py` and the worker, on top of `Lexicon` and `TextAnalysis` | `intel`, `lists`, `alerts` the collections, `worker` and `request` the place and locals of the two sides; `finished`, `sound` and `evaluated` histories |
| `Sessions` | `api/security.py`, `api/routes/auth.py` | `held`/`ticketsIn` the memory of each process, `shared`/`ticketsShared` Redis, `link` the client, `knows` and `tainted` the processes whose configuration lists the login token, and an expired one; `session`, `uses` and `clean` histories |
| `RateLimit` | `api/rate_limit.py` | `count`/`expires` the key in Redis, `charge` the requests under way, `hits` the window in memory |
| `Paging` | `list_intel`, `list_actors` | `records` the collection, `walk` the cursor the client holds, `listed` what it has seen |
| `Ordering` | the sort of a query, of mentions and of coded words | none: `Ordered` lists a finite set along a strict order |
| `ProcessorProofs`, `SoleInstanceProofs`, `PipelineProofs`, `CollectionProofs`, `OnionCrawlProofs`, `EvidenceLedgerProofs`, `LiveAlertsProofs`, `DeskProofs` | theorems; `DeskProofs` is about `Sessions`, `RateLimit`, `Lexicon`, `Watchlists`, `PostAnalysis` and `Paging` | |
| `MCProcessor`, `MCPipeline`, `MCCollection`, `MCOnionCrawl`, `MCEvidenceLedger`, `MCLiveAlerts`, `MCDesk` | values of the constants for TLC | |

`Collection` and `OnionCrawl` extend `Pipeline`, so each shares the Redis key and
`raw_ingest` with it; `CollectionProofs` and `OnionCrawlProofs` prove that their
behaviours are behaviours of `Pipeline`. `Processor` begins where `Pipeline` ends: its action `Publish` is
the insert into `raw_ingest`, and its insert of an intelligence that exists
already is the `Forget` of `Pipeline`. `LiveAlerts` begins where `Processor` ends:
its `Raise` is an alert inserted by `_evaluate_alerts`, its `Broadcast` the call
of `broadcast_alert`. `Watchlists` extends `Lexicon`, which extends `TextAnalysis`:
its worker analyses the very texts with the dictionary as it is, so a replay may
see another one. `MCDesk` runs these and the four modules without a partner
(`PostAnalysis`, `Sessions`, `RateLimit`, `Paging`) as scenarios of one
specification, each from its own initial states.

**Granularity.** Every awaited call of a store is one action; what the code does
between two awaits is part of the action before or after it. A call may fail
before it took effect (`error`, `mongo`, `redis`, `source`) or after
(`lost_ack`, at the calls where the difference matters: the graph upsert and
the final write of the processor, the insert, the reservation and the commit of
the pipeline, the insert of a seal). A crash may happen between any two actions.

**Disturbances.** `Disturb(kind)` is a conjunct of every action the environment
is responsible for. The constant `Disturbances` selects the kinds and
`MaxDisturbed` bounds how many happen in a behaviour; it is the only bound on
the counters of `Pipeline` and `Collection`. The history variable `worst` says how bad the
disturbances of a behaviour were, for properties that are claimed for the mild
ones only.

**Abstractions.** Time: a lease, a pending key, a TTL is live until an action
ends it, at any moment. Contents: the result of an analysis is one of two model
values, and two analyses of one record may differ, since the dictionary changes
while records wait. `Matches` says which rules a content triggers. Records are
numbered by `_id`, the order `_claim_next` sorts by. An item of `Pipeline` is a
deduplication key (source reference and content hash). A text of `TextAnalysis` is
a sequence of sample words, one for each way the code's patterns treat a string:
the tables (`Compat`, `LeetMap`, `Foldable`, `Cut`, ...) say what every step makes of
each sample, and the properties are about the order of the steps and what the
detectors make of their outcome. The scores are integers, scaled so that the
rounding of the code is kept.

## 3. The runs

| run | instance | shows |
|---|---|---|
| `processor_pair` | 1 record, 2 instances, 2 contents, 1 rule, 2 attempts, 2 waits, all disturbances, 3 of them | attempts bounded, completion truthful, no dangling reference, no alert broadcast more often than it entered the history |
| `processor_single` | 2 records (one oversized), 1 instance, 3 disturbances, fairness | lifecycle implemented, nothing stranded, everything resolved, waiting records agree with the graph, outages burn no attempt, the TTL spares unfinished records |
| `processor_ttl_race` | 1 record, 2 instances, 1 error | **violated**: the TTL may delete a failed record |
| `pipeline` | 2 items (one unsafe), 3 processes, 2 commit retries, 4 disturbances | done means inserted, one report per insert, a pending key has an owner |
| `collection` | 1 page with 3 versions of 1, 2 and 3 records, the last two with one digest, 1 channel with 2 messages (one blank), 1 process, 2 disturbances, fairness | the stores never run ahead, a page's version is collected unless it reads as unchanged |
| `collection_crash` | 1 page, 1 crash | **violated**: a crash makes a collector skip a record |
| `collection_telegram` | 1 channel, 3 messages, nothing fails | **violated**: the channel is never read past its second message |
| `onion` | 5 pages, one linked from two others, one blank, one that changes; depth 2, 5 pages, 1 process, 1 disturbance, fairness | the content state never runs ahead, the depth limit prunes rightly, the scope is exhausted and collected |
| `ledger` | 3 requests (1 export), 4 hashes, 2 rounds, 1 disturbance, one entry to begin with | chain verifies, log only appended to, delivered is sealed, 409 means contention |
| `live` | 1 page, 2 sockets of which 1 may be registered, 1 alert, 2 requests under way, 1 disturbance of 8 kinds, fairness | no alert twice, registry and handlers agree, no older list after a newer, every alert is received and listed, the page connects again |
| `desk` | one scenario for each behaviour, see below; no fairness, as its properties are all of safety | no match is missed, every decision about a coded word takes effect, the promise of the analysis, of sessions and tickets, no lock-out, walks over pages are complete |
| `ledger_genesis` | 2 requests, empty ledger | **violated**: the first two entries both have no predecessor |

**Why these bounds are enough.** Two instances or processes are the fewest that
race and three the fewest where one outlives its reservation while two more
contend. Two attempts and two waits reach the first, the last and the one past
the limit of the counters (`max_attempts` is 3 and the limit of waits 100 in the
code; no guard tells the values in between apart). Two versions of a page let it
change under a run, a third with the digest of the second is an edit that the
digest does not see, and a version with several records lets a run fail between
them. Three messages are needed to see a checkpoint refused, as the first save
always succeeds; `collection_telegram` has them, and what `collection` checks
needs two. Five pages are a seed, two ways to one page at different depths, a page
behind the shorter one and a blank one. Three requests with two rounds reach a 409. Two sockets let a page connect again
while the server has not noticed the loss of its first connection, one that may
be registered makes it meet the limit (4 in the code); with one alert and one
disturbance two tasks deliver already, when `publish` raises after Redis took
the message, and two requests under way can overtake each other. The theorems of section 5
remove the bounds from the properties they name.

**The scenarios of `desk`.** `watchlists`: 2 posts (one in leetspeak whose word is a
coded one, one in wide characters), 1 list over 2 sets of terms, 2 requests, 1
edit of the dictionary, 1 crash or failure, 1 failed read, a backfill that looks
at 1 post, so that it may be truncated. `dictionary`: 2 terms, one of them
seeded, 3 writes, 1 failed read. `analysis`: every text of up to 3 of 30 samples
under 2 settings, bare and with every optional part, with two plain coded words,
three terms of the kinds of the seed file that are not plain (a digit, an emoji, a place) and a
blocklist that names one text in plain words and one in a disguise. `sessions`: 2 processes, 2
sessions, 1 ticket, 1 failed call of Redis, 1 restart, tokens that expire at any time. `limit`: 3 requests, limit
2, a window of 2 ticks. `paging`: the subsets of 6 records with equal and older
times, equal counts and one incomplete record, pages of 1 and 2. Two posts are
the fewest of which one is stored before a list and one while it is backfilled;
three writes let a term be removed, seeded again and decided anew, or a decision be
withdrawn and taken again, between two reads;
three words hold a cue, a name and what stands between or behind them; a second
process meets what the first one's failed call left behind. The
last four share no state with each other or with the rest, so exploring them one
by one loses no behaviour; `dictionary` is the part of `watchlists` that has room for
more edits when worker and requests rest.

**Exceptions in `desk`.** `NoMatchMissed` is claimed for lists that are enabled and
notify and whose last write was followed by a backfill that saw every post: an
audit record that fails leaves an updated list without its backfill, and a list
enabled again is not backfilled at all (`watchlists.py:183-209`). A post whose
replay analysed it with another dictionary is excepted too, as the worker
alerts for its own analysis and keeps the stored one. `DecisionsTakeEffect`
excepts terms with two documents (a creation racing a rename), of which the later
one wins. `SessionPromise` is claimed for what was minted while every
process had its client and since when no call failed; after a failed call a
ticket may be honoured a second time, never a third. It speaks of the processes
that list the token of the session and hold no expired one: `_configured_principals`
raises when any token of the configuration has expired, and
`principal_from_session` lets that through (`security.py:207`, `272-283`), so such a process
refuses every session until it is restarted with another configuration, and the
property says that the sessions are as good as before then. A refreshed session is left
out: it is minted with the old session as its token (`auth.py:60`), which no
configuration lists, so the next request with it is refused. `SameAsPlain` excepts the
posts whose plain form the blocklist names, as hashes tell the two apart, and
`CodedWords` are the terms that can be found and count (`PlainTerm`): the seed also
has terms with digits, emoji and hyphens, which normalising rewrites or
punctuation splits, and places, whose meaning is no product. `ContactsKept` leaves out the
address that a full stop or a hyphen follows, which `sanitizer.py:26` does not match:
it is listed under a mask and stored in the open. It
claims the redaction of phone numbers that are words of their own: folding comes
before redaction, so `ph:9876543210` reads `ph:gbt6sae2io` when the pattern is
tried.

**Single instance in `processor_single`.** The writes of the processor name the
record but not the lease, so two instances overwrite each other's outcome when a
lease runs out under a live one (`processor_ttl_race`). The deployment runs one
instance, and the properties of this run are claimed, and proved in
`SoleInstanceProofs`, for one whose final write is acknowledged;
`processor_pair` keeps both possibilities in.

**Mild disturbances in `HandledIsStored`.** With a crash between reservation and
insert the successor sees its predecessor's reservation and takes the record for
a duplicate (`collection_crash`). A failing release in Redis leaves the same
key behind, and a second process that meets the pending key of a first one whose
insert then fails draws the same conclusion: with two processes TLC finds that
counterexample. So the runs have one process, the theorems assume it (`Lone`), and both claim
the property while Redis answers and the process lives; fetches and MongoDB may
fail, documents and keys may expire, the processor may forget keys.

**The oversized exception.** An oversized record is written `failed` by one call
and counted by the handler in another (`broker/processor.py:199-243`). When the
process dies between the two on the last attempt, no query finds the record
again: `CutOffOversized` names the exception to `NoRecordStranded` and
`EventuallyResolved`. Every other record is resolved.

**The digest of a feed.** The content state holds a hash. For a page it is that of
its text, for a feed that of the first 40 texts of the document with all titles
first (`surface.py:159-166`, `347-364`), while the records are whole items
(`314-344`). `Digest` leaves open which versions share one, and `PageCollected`
of `Collection` excepts a page that stays at a version with the digest of the one
handled before (`ReadsAsUnchanged`): the code skips it, and its new records are
collected only when another edit moves the digest or the state has expired
(`StateExpires`, 90 days).

**Entries of the alert history expire.** A TTL index takes an entry of
`alerts_history` 30 days after its alert was triggered (`AlertExpires`). An
attempt on the record after that, for example a retry by an operator, inserts
the alert anew and broadcasts it again, so `BroadcastAtMostOnce` counts the
broadcasts of an alert against its entries (`Entered`).

**The checkpoint.** `CollectorCheckpoint.now` always carries version 0 and the
Redis store refuses a version below the stored one, so every save but the first
raises. In a surface run this happens after the content state is committed and
costs nothing but the run's status; in a Telegram run it ends the run
(`collection_telegram`). In a crawl it ends each run at its second page that is new, before that page's
links are queued; the next cycle finds the page unchanged and follows them, so
the crawl advances by a page a cycle, and `PageCollected` of `OnionCrawl` holds
in spite of it. It also hides that the check and the write of `save` are not
atomic.

**The scope of a crawl.** `Scope` are the pages within the depth limit over
pages whose links are followed: a page without text is passed over with its
links (`onion.py:174`). `PageCollected` needs a scope of at most `MaxPages`
pages, since pages behind the limit are reached in no run.

**What keeps a page up to date.** A broadcast alone would not do: an alert between
the loading of the history and the registration of the socket is sent to nobody,
a send that times out takes a socket off the registry for good while its handler
goes on, and a relay that died stays dead (`_relay_client` remains, so nothing is
delivered directly either). `ConnectedCatchesUp` holds because the page takes
every frame for news, also a pong (`AlertsPage.tsx:62`); a page that reloaded on
alerts only would violate it. A page closed with 1008 does not try again, and it
is closed so when four connections of its subject are registered, dead ones the
server has not noticed included. The page lists the newest 50 alerts; `shown`
is the age of its list.

**The entry of `collection_runs`** is written outside any handler: when that
fails the loop ends between two sources and the process begins again with the
first (`Collection!PersistFails`).

## 4. Fairness and liveness

`Processor!Fairness`: an instance that can take its next step takes it (the loop
of `_run_loop` never ends by itself), one that is down is started again
(`restart: unless-stopped`), a stopping one releases its leases, a lease runs
out, the graph comes back. Nothing obliges a record to be published, an operator
to retry, the TTL monitor to delete, or a disturbance to happen.
`LiveAlerts!FairSpec`: tasks go on, the API is started again, each end hears of
what happens to its socket, a served socket gets a frame now and then - the page
pings every 25 s and the handler pings a silent page after 45 s. A request for
the history is answered before it is superseded for ever: strong fairness of the
newest request, since requests follow each other at the pace of these frames.
`Collection!FairSpec` and `OnionCrawl!FairSpec`: a process keeps running its
loop, a call in the pipeline goes on, a pending key runs out. Nowhere else is strong fairness assumed.

`EventuallyResolved`, both `PageCollected` and those of `LiveAlerts` are checked by TLC only: TLAPS has no
support for `ENABLED`, on which weak fairness rests.

## 5. What is proved

Every safety property of the passing runs, the two refinements that runs check, and
three more (`Collection` and `OnionCrawl` implement `Pipeline`, the worker of
`Watchlists` follows `Lexicon`): for any number of records, instances, processes,
requests, sessions, documents, texts and disturbances. What the theorems assume are the `ASSUME`s of
the modules - TLC evaluates each of them - and where a theorem says so,
hypotheses that are named below: `Sole`, `Lone`, `First \in Hashes`.

The `ASSUME`s say what the code or its stores give: limits are natural numbers,
sets of processes and documents are finite where they are counted, `Feed`,
`Links` and `Catalogue` have the types of the data they stand for, ids are
unique (`Paging`), session keys are no tickets (`Sessions`, the two have prefixes of
their own in Redis), the seed file is finite and its terms and meanings are among
those that analysts may write (`Lexicon`), and a list has a term and no term is
empty (`Watchlists`: the schema of the request, `models.py:346-374`, refuses others).

**Processor.**
* `ProcessorProofs`, for any number of instances: `TypeCorrect`;
  `AttemptsNeverExceed` from `AttemptsInv`, which adds to the bound that a record
  at rest (pending or waiting) has an attempt left; `CompletionIsTruthful` and
  `ReferencesResolve` from `IndexInv`, which says for each step of `_process_doc`
  what the steps before it must have stored; `NoRepeatedBroadcast` from
  `CastInv`: the broadcasts of an alert that were made, and those that
  instances still owe, each one, are never more than the entries it has had.
* `SoleInstanceProofs`, under `Sole` (one instance, and no final write is applied
  without its acknowledgement; `processor_ttl_race` shows why the first is needed,
  and the second is the case of a record failed over its written outcome):
  `SoleLeavesNoneStranded`, `SoleWaitedAgree`, `SoleOutageSparesAttempts`,
  `SoleTtlSparesUnfinished` and the refinement `SoleImplementsLifecycle`. All come from
  `SoloInv` on top of the invariants above. None of the properties is inductive:
  each speaks of a record at rest, and whether it ends well is decided by what the
  locals of `_process_doc` hold. `HeldOK` says that these still agree with the
  sub-document of the record in hand, `RecordOK` what a status implies, `OutageOK`
  that the one attempt of a record belongs to the instance that has it.

**Pipeline and collection.**
* `PipelineProofs`: `PipelineTypeCorrect`; `MarkedIsInserted` from
  `InsertedInv`, which follows an insert to the step that commits it;
  `ReservationsHaveOwners`, inductive together with the types and the fact that
  `worst` never recovers; `NoInsertReportedTwice` from `CountInv`: the reported
  outcomes plus the processes about to report never exceed the inserts.
* `CollectionProofs`: `CollectionTypeCorrect`, from the types together with
  `Sourced` (a run of a page stands in the steps of a page, a call in the
  pipeline belongs to a run that awaits it); `CollectionImplementsPipeline`, so
  that the four theorems about the pipeline hold of live collection;
  `LoneCollectorSkipsNothing`, under `Lone` (one process). The content state is
  written many steps after the records it covers went through, so `PastHandled`
  says of a run in progress: whatever it is past - the records of the fetched
  version it no longer has to yield, the messages up to the one it is at - was
  inserted or rejected, but for the record the pipeline has in hand. That this one
  is not lost needs `ReservationsHaveOwners`: a duplicate of a lone process was
  inserted before.
* `OnionCrawlProofs`: `OnionCrawlImplementsPipeline`; `CrawlGoesBreadthFirst` and
  `CrawlExhaustsScope` from `Breadth`: the deque is sorted by depth and spans two
  depths, nothing expanded is deeper than its head, and what an expanded page
  links to is visited or waits in the deque at most one deeper;
  `LoneCrawlSkipsNothing`, under `Lone`. The links may form any graph.

**Evidence ledger** (`EvidenceLedgerProofs`).
* `LedgerTypeCorrect`; `DeliveryIsSealed` from `DeliveryInv`, which says what each
  step of a request already has in the audit log and the ledger.
* `ChainAlwaysVerifies`, under `First \in Hashes` (the ledger has an entry;
  `ledger_genesis` shows why), from `ChainInv`: every entry but the last has a
  successor, so the unique index admits only an entry that names the last one, and
  the ObjectId of an entry is stamped after the entry it names was read, so it is
  greater.
* `ConflictIsContention`, on an empty ledger too, from `RoundInv`: each lost round
  is paid for by an entry made since the request began, and a request about to
  insert was overtaken or still holds the end of the chain.
* `LedgerIsAppendOnly`, the refinement of `AppendOnlyLog`, under the same hypothesis
  as the chain: `Rank` numbers the entries along the chain from one to their
  number, an insert takes the next number, so the log read along the chain is
  appended to.

**Alerts and live delivery** (`LiveAlertsProofs`): `LiveAlertsTypeCorrect`;
`PageNeverStepsBack` from `ListsInv`: an answered request lists no more than the
history holds, and the last one, while `useApi` waits for it, no less than the page
shows (every step is first reduced to one of six ways a page's requests may move);
`RegistryAlwaysMatches` from `HandlersInv`: a handler is admitted only after its
connection is open, and a delivery gives a socket up only when its connection is
gone or its send was slow, so taking it off the registry leaves no healthy socket
behind; `AlertsDeliveredOnce` from `OnceInv`: while `publish` tells the truth an
alert is in one place at a time (processor, channel or relay), and no socket still
to be served has it.

**The analysts' side** (`DeskProofs`).
* `SessionsKeepTheirPromise` from `SessionInv`: for what is clean, a live session is
  in Redis and an ended one is not, and an expired token, which has requests refused,
  changes neither; a ticket has one copy in Redis and one in the
  memory of the process that minted it, and each is worth one use at most.
* `ClientNeverLockedOut`, for any number of requests in flight and any limit.
  `NoLockout` alone is not inductive, as it says nothing while a charge is under
  way. The invariant names the charge that is about to call `EXPIRE`: while the key
  has none and the last charge was not broken off, one stands there.
* `MonitoredMatchesAreAlerted` from `WatchInv`, for any texts, lists and dictionaries.
  The alert that is due for a stored post and a list (`Due`) is there, or owed by the
  backfill that still goes through its sample, or owed by the worker that still
  evaluates the lists it read, or excepted; the proof shows that whoever reads last
  sees what the other wrote. What the analysis makes of a text is left open: the
  proof uses only that `Matches` is a function of stored text and terms.
* `WalksAreComplete` from `PagingInv`: all that was listed sorts before the cursor, in
  order and without repetition, and every record of the start that is not listed
  sorts behind it. It rests on lemmas about `Ordered`: the ranks of n rows are 0 to
  n - 1, so the list is sorted and no row is missing.
* `DecisionsReachTheProcessor` (`DecisionsTakeEffect`) from `LexInv`: every document the
  processor has ever read is known by its id and time, the version kept is that of the
  documents last read, and the dictionary says of each term what the decided ones
  among them do, although it may have been built from an older collection in another
  order. What `Build` makes of documents of any number (`BuildDecodes`) is proved
  by the least position at which the claim would fail: the library's induction
  theorems cannot be used, but its theorem on well-founded relations gives `LeastNat`.
  `WorkerFollowsDecisions`: a behaviour of `Watchlists` is one of `Lexicon`.
* `DisguisesChangeNothing` and `ContactsAreKept`, the clauses `SameAsPlain` and
  `ContactsKept` of `AnalysisPromise`, for texts of any length, any dictionary, any
  settings. They rest on facts about one word (`DisguiseUndone`, `PersonalRedacted`,
  `ClaimedWords`), which the tables decide, and on the order of the steps in
  `Process`: what reads the captured text sees nothing that a disguise
  changes, and everything else reads a text in which the disguise is undone.
* `AnalysisKeepsItsPromise`: the whole of `AnalysisPromise`, for texts of any length.
  To the two above it adds that no drug or coded phrase is missed, and
  `MentionsNeverOverlap` that mentions are disjoint.
  The argument follows a word through `Process`:
  - `AnalysedText`: the text that is analysed is, word by word, what is stored of
    what a person reads, so a phrase stands in it where it stands in the plain text.
  - `MentionsAre`, `ProductMentionsAre`: every span that reads as a phrase of a
    pattern is mentioned, and a mention of a product is exactly what the text reads;
    `VendorMentionsAre` and `SpacyMentionsAre`: the other mentions are spans too.
  - `GreedyIs`: the choice of mentions keeps disjoint ones, and gives one up only for
    one that stands before it in the list. As the patterns come first and products
    before vendors, the word of a drug can be lost only to a product that
    contains it; that is `ExtractIs`.
  - `TokensAre`, `DecodeIs`: splitting at punctuation leaves a phrase in one piece, and
    the list of the coded words holds each phrase at its first place.
  - `ProductsAre`: what is mentioned or decoded is listed, or an equal product is.

  `Greedy` and `Products` are recursive functions; `StepByStep` and `UpTo` (a set of
  lengths that holds 0 and with each the next is all of them, from `LeastNat`)
  stand in for induction. Sorted lists come from the lemmas on `Ordered`. There is
  no hypothesis about the dictionary or the blocklist: `PlainTerm` says which coded
  words the claim is about, and `SameAsPlain` which posts it excepts.

**Model-checked only.**
* The liveness properties `EventuallyResolved`, both `PageCollected` and those of
  `LiveAlerts`: TLAPS has no support for `ENABLED`, on which fairness rests.
* The properties of the four runs that TLC finds violated.

## 6. What is not modelled

* The limit of messages of a Telegram run: it bounds a run, the next one goes on.
* More than one API process: the order of the chain rests on ObjectIds stamped
  by one process.
* Onion pages and digests: the hash is that of the whole text, so `OnionCrawl` takes
  it for the version.
* Robots rules, conditional requests, rate limits of the HTTP fetcher: a fetch
  succeeds or fails.
* The dry-run stores, the file publisher, the loaders of historical data: they
  use the pipeline of one process without failures worth interleaving.
* The 30 days of `alerts_history` in `LiveAlerts` and `Watchlists`: `shown` is
  the age of a list of the newest alerts, and `alerts` of `Watchlists` are those ever
  raised.
* Watchlists: two write requests at a time, and the check of names that answers
  409 (check, then insert, with no unique index), lists past the 500 the worker
  reads.
* Dictionary: two writes of one document within one tick of the clock; their
  `updated_at` would be equal and the rebuild skipped.
* Analysis: training and loading of the intent model, the search for new coded
  words (`auto_discovery.py`, switched off by the processor), links by similar PGP
  keys and by vending, chains whose patterns work like the three modelled, a
  phone number written as two words, which is listed and not redacted, invisible
  characters in anything but a coded word and the name of a drug.
* Sessions: open mode, in which no token is configured; ranks of roles; the
  cap on keys of the limiter and the key it derives from the request.
* Read routes: full-text search lists at most `limit` hits and has no cursor;
  `captured_at` is compared as an ordered value; the
  worker knows the actors of the newest 500 posts only.
* The components marked `not_modelled` in `PROJECT.json`, with the reason there.

The tables of languages, scores and weights of `TextAnalysis` and the window of
`RateLimit` that stands in for Redis hold more detail than the properties tell apart:
`SameAsPlain` compares severities without saying what they should be, and
`NoLockout` speaks of the counter in Redis.

**Where the repository says otherwise.** The findings of `PROJECT.json` are the four
violated runs. Other places where a document and the code part, seen while
modelling and without a run of their own:
* `README.md:114` of the repository: "WebSocket tickets are single-use". When the
  call of Redis that should consume a ticket fails, the process takes its own copy
  and leaves the one in Redis, and another request may use that: the second use
  that `SessionPromise` allows after a failed call.
* `README.md:114`: "A login session lasts 8 hours". A token of the configuration
  that expires makes the process refuse every session, those of other tokens too,
  as long as it is listed (`TokenExpires`).

## 7. Plan

Done, in this order: `Processor` with `IngestLifecycle`; `Pipeline`;
`Collection` composed with it; `EvidenceLedger` with `AppendOnlyLog`; their
proofs; `OnionCrawl` on top of `Pipeline`; `LiveAlerts` and its proofs;
`TextAnalysis` with `Lexicon` and `Watchlists`; `Sessions`, `RateLimit`,
`Paging`; the proofs about one instance, about lone collectors and crawls, the
two refinements, and `DeskProofs`.

The theorems now state every safety property that a passing run checks. What is
left is more of the code: the search for new coded words (`auto_discovery.py`), the
training and loading of the intent model, and the loaders of historical data.
