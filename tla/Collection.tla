----------------------------- MODULE Collection -----------------------------
(***************************************************************************)
(* Live collection: processes of collect-all (or collect) that run one     *)
(* source after the other through a SurfaceCollector or TelegramCollector  *)
(* into the pipeline, and the two Redis stores that say what was handled   *)
(* already: the content state of a page and the checkpoint of a channel.   *)
(*                                                                         *)
(* A page has versions and a version offers a set of records (one, or the  *)
(* items of a feed); a channel has numbered messages.                      *)
(***************************************************************************)
EXTENDS Pipeline, Sequences

CONSTANTS
    Pages, Channels, \* the enabled sources, disjoint
    Sources,         \* the sequence in which a process runs them
    Versions,        \* bound: versions of a page
    Feed,            \* Feed[v]: the numbers of the records version v offers
    Digest,          \* Digest[v]: the hash of its text, which for a feed is made of
                     \* its first 40 texts, titles first (_feed_to_text)
    Messages,        \* bound: messages of a channel
    Blank            \* numbers of the messages without text

ASSUME CollectionOK ==
    /\ Versions \in Nat \ {0} /\ Messages \in Nat
    /\ Feed \in [1..Versions -> (SUBSET Nat) \ {{}}]
    /\ Digest \in [1..Versions -> Nat]
    /\ Pages \cap Channels = {}
    /\ Sources \in Seq(Pages \cup Channels) /\ Sources # <<>>
    /\ Items = ({<<s, n>> : s \in Pages, n \in UNION {Feed[v] : v \in 1..Versions}}
                \cup {<<s, n>> : s \in Channels, n \in (1..Messages) \ Blank})

VARIABLES
    current, \* the version each page is at
    posted,  \* messages posted so far in each channel
    state,   \* content state: the version whose digest was committed last, or 0
    mark,    \* checkpoint of each channel: [cursor, version], zeros when absent
    at,      \* where each process stands in its run
    pos,     \* the source it is at, an index of Sources
    seen,    \* the version it fetched, or the message it is at
    todo,    \* the records of that version still to be yielded
    expect   \* the checkpoint version its save found

runVars == <<at, pos, seen, todo, expect>>
vars    == <<pipeVars, current, posted, state, mark, runVars>>

RunSteps == {"rest", "fetch", "compare", "yield", "await", "remember", "load", "read",
             "save", "write"}

TypeOK ==
    /\ PipeTypeOK
    /\ current \in [Pages -> 1..Versions] /\ posted \in [Channels -> 0..Messages]
    /\ state \in [Pages -> 0..Versions]
    /\ mark \in [Channels \cup Pages -> [cursor : Nat, version : Nat]]
    /\ at \in [Procs -> RunSteps]
    /\ pos \in [Procs -> DOMAIN Sources]
    /\ seen \in [Procs -> Nat] /\ expect \in [Procs -> Nat]
    /\ todo \in [Procs -> SUBSET Nat]

Init ==
    /\ PipeInit
    /\ current = [s \in Pages |-> 1] /\ posted = [s \in Channels |-> 0]
    /\ state = [s \in Pages |-> 0]
    /\ mark = [s \in Channels \cup Pages |-> [cursor |-> 0, version |-> 0]]
    /\ at = [p \in Procs |-> "rest"] /\ pos = [p \in Procs |-> 1]
    /\ seen = [p \in Procs |-> 0] /\ todo = [p \in Procs |-> {}]
    /\ expect = [p \in Procs |-> 0]

Source(p) == Sources[pos[p]]

Goto(p, from, to) ==
    /\ at[p] = from
    /\ at' = [at EXCEPT ![p] = to]

\* Mutant of EndRun: the loop does not return to the first source.
EndRunNoWrap(p) ==
    /\ at' = [at EXCEPT ![p] = "rest"]
    /\ pos' = [pos EXCEPT ![p] = @ + 1]
    /\ seen' = [seen EXCEPT ![p] = 0]
    /\ todo' = [todo EXCEPT ![p] = {}]
    /\ expect' = [expect EXCEPT ![p] = 0]

\* The run of a source ends, well or not, and its locals are gone.
EndRun(p) ==
    /\ at' = [at EXCEPT ![p] = "rest"]
    /\ pos' = [pos EXCEPT ![p] = IF @ = Len(Sources) THEN 1 ELSE @ + 1]
    /\ seen' = [seen EXCEPT ![p] = 0]
    /\ todo' = [todo EXCEPT ![p] = {}]
    /\ expect' = [expect EXCEPT ![p] = 0]
-----------------------------------------------------------------------------
(* The loop of collect-all. *)

BeginRun(p) ==
    /\ Goto(p, "rest", IF Source(p) \in Pages THEN "fetch" ELSE "load")
    /\ UNCHANGED <<pipeVars, current, posted, state, mark, pos, seen, todo, expect>>

\* Mutant of Await: an error of the pipeline is logged and the run goes on.
AwaitIgnoringErrors(p) ==
    /\ at[p] = "await" /\ step[p] = "idle"
    /\ Goto(p, "await", IF Source(p) \in Pages THEN "yield" ELSE "save")
    /\ UNCHANGED <<pipeVars, current, posted, state, mark, pos, seen, todo, expect>>

\* The record just yielded went through the pipeline.  An error ends the run
\* before the collector goes on from its yield.
Await(p) ==
    /\ at[p] = "await" /\ step[p] = "idle"
    /\ IF outcome[p] = "raised"
       THEN EndRun(p)
       ELSE /\ Goto(p, "await", IF Source(p) \in Pages THEN "yield" ELSE "save")
            /\ UNCHANGED <<pos, seen, todo, expect>>
    /\ UNCHANGED <<pipeVars, current, posted, state, mark>>

\* The source or, in a call that is not the pipeline's, Redis fails.
RunFails(p) ==
    /\ \/ at[p] \in {"fetch", "read"} /\ Disturb("source")
       \/ at[p] \in {"compare", "remember", "load", "save", "write"} /\ Disturb("redis")
    /\ EndRun(p)
    /\ UNCHANGED <<keys, published, calls, outcome, current, posted, state, mark>>

\* The entry of collection_runs cannot be written: the process ends between two
\* runs and the restarted one begins with the first source.
PersistFails(p) ==
    /\ at[p] = "rest"
    /\ Disturb("mongo")
    /\ pos' = [pos EXCEPT ![p] = 1]
    /\ UNCHANGED <<keys, published, calls, outcome, current, posted, state, mark, at, seen,
                   todo, expect>>

\* A restarted process begins with the first source.
Crash(p) ==
    /\ at[p] # "rest"
    /\ Die(p)
    /\ at' = [at EXCEPT ![p] = "rest"] /\ pos' = [pos EXCEPT ![p] = 1]
    /\ seen' = [seen EXCEPT ![p] = 0] /\ todo' = [todo EXCEPT ![p] = {}]
    /\ expect' = [expect EXCEPT ![p] = 0]
    /\ UNCHANGED <<current, posted, state, mark>>
-----------------------------------------------------------------------------
(* SurfaceCollector._collect. *)

Fetch(p) ==
    /\ Goto(p, "fetch", "compare")
    /\ seen' = [seen EXCEPT ![p] = current[Source(p)]]
    /\ UNCHANGED <<pipeVars, current, posted, state, mark, pos, todo, expect>>

\* is_unchanged: a digest is stored and is that of version v.
Unchanged(s, v) == state[s] # 0 /\ Digest[state[s]] = Digest[v]

Compare(p) ==
    /\ at[p] = "compare"
    /\ IF Unchanged(Source(p), seen[p])
       THEN EndRun(p)
       ELSE /\ Goto(p, "compare", "yield")
            /\ todo' = [todo EXCEPT ![p] = Feed[seen[p]]]
            /\ UNCHANGED <<pos, seen, expect>>
    /\ UNCHANGED <<pipeVars, current, posted, state, mark>>

Yield(p) ==
    /\ \E n \in todo[p] :
          /\ Goto(p, "yield", "await")
          /\ Submit(p, <<Source(p), n>>)
          /\ todo' = [todo EXCEPT ![p] = @ \ {n}]
    /\ UNCHANGED <<current, posted, state, mark, pos, seen, expect>>

Exhausted(p) ==
    /\ todo[p] = {}
    /\ Goto(p, "yield", "remember")
    /\ UNCHANGED <<pipeVars, current, posted, state, mark, pos, seen, todo, expect>>

\* content_state.commit, when every record of the version was handled.
Remember(p) ==
    /\ Goto(p, "remember", "save")
    /\ state' = [state EXCEPT ![Source(p)] = seen[p]]
    /\ UNCHANGED <<pipeVars, current, posted, mark, pos, seen, todo, expect>>
-----------------------------------------------------------------------------
(* TelegramCollector._collect. *)

Load(p) ==
    /\ Goto(p, "load", "read")
    /\ seen' = [seen EXCEPT ![p] = mark[Source(p)].cursor]
    /\ UNCHANGED <<pipeVars, current, posted, state, mark, pos, todo, expect>>

\* Mutant of Read: the checkpoint is saved before the message is yielded.
ReadCheckpointFirst(p) ==
    /\ at[p] = "read"
    /\ seen[p] < posted[Source(p)]
    /\ seen' = [seen EXCEPT ![p] = @ + 1]
    /\ mark' = [mark EXCEPT ![Source(p)].cursor = seen[p] + 1]
    /\ IF seen[p] + 1 \in Blank
       THEN Goto(p, "read", "save") /\ UNCHANGED pipeVars
       ELSE Goto(p, "read", "await") /\ Submit(p, <<Source(p), seen[p] + 1>>)
    /\ UNCHANGED <<current, posted, state, pos, todo, expect>>

\* The next message above the last one; a blank one is only checkpointed.
Read(p) ==
    /\ at[p] = "read"
    /\ seen[p] < posted[Source(p)]
    /\ seen' = [seen EXCEPT ![p] = @ + 1]
    /\ IF seen[p] + 1 \in Blank
       THEN Goto(p, "read", "save") /\ UNCHANGED pipeVars
       ELSE Goto(p, "read", "await") /\ Submit(p, <<Source(p), seen[p] + 1>>)
    /\ UNCHANGED <<current, posted, state, mark, pos, todo, expect>>

ReadAll(p) ==
    /\ at[p] = "read" /\ seen[p] >= posted[Source(p)]
    /\ EndRun(p)
    /\ UNCHANGED <<pipeVars, current, posted, state, mark>>
-----------------------------------------------------------------------------
(* RedisCheckpointStore.save: one call reads the version ... *)

Save(p) ==
    /\ Goto(p, "save", "write")
    /\ expect' = [expect EXCEPT ![p] = mark[Source(p)].version]
    /\ UNCHANGED <<pipeVars, current, posted, state, mark, pos, seen, todo>>

\* ... and another writes the next one.  CollectorCheckpoint.now always carries
\* version 0, which is stale as soon as a version was ever written.
Write(p) ==
    /\ at[p] = "write"
    /\ IF expect[p] > 0
       THEN EndRun(p) /\ UNCHANGED mark
       ELSE /\ mark' = [mark EXCEPT ![Source(p)] =
                          [cursor |-> seen[p], version |-> expect[p] + 1]]
            /\ IF Source(p) \in Pages
               THEN EndRun(p)
               ELSE Goto(p, "write", "read") /\ UNCHANGED <<pos, seen, todo, expect>>
    /\ UNCHANGED <<pipeVars, current, posted, state>>
-----------------------------------------------------------------------------
(* The sources. *)

Change(s) ==
    /\ current[s] < Versions
    /\ current' = [current EXCEPT ![s] = @ + 1]
    /\ UNCHANGED <<pipeVars, posted, state, mark, runVars>>

\* A content state expires 90 days after its commit.
StateExpires(s) ==
    /\ state[s] # 0
    /\ Disturb("ttl")
    /\ state' = [state EXCEPT ![s] = 0]
    /\ UNCHANGED <<keys, published, calls, outcome, current, posted, mark, runVars>>

Post(s) ==
    /\ posted[s] < Messages
    /\ posted' = [posted EXCEPT ![s] = @ + 1]
    /\ UNCHANGED <<pipeVars, current, state, mark, runVars>>

RunStep(p) ==
    \/ BeginRun(p) \/ Await(p) \/ Fetch(p) \/ Compare(p) \/ Yield(p) \/ Exhausted(p)
    \/ Remember(p) \/ Load(p) \/ Read(p) \/ ReadAll(p) \/ Save(p) \/ Write(p)

InPipeline(p) ==
    /\ PipeStep(p) \/ PipeTrouble(p)
    /\ UNCHANGED <<current, posted, state, mark, runVars>>

StoreEvent(i) ==
    /\ PipeSurroundings(i)
    /\ UNCHANGED <<current, posted, state, mark, runVars>>

Next ==
    \/ \E p \in Procs : RunStep(p) \/ InPipeline(p) \/ RunFails(p) \/ PersistFails(p) \/ Crash(p)
    \/ \E i \in Items : StoreEvent(i)
    \/ (\E s \in Pages : Change(s) \/ StateExpires(s)) \/ (\E s \in Channels : Post(s))

Spec == Init /\ [][Next]_vars

\* A process keeps running its loop (collect-all --loop, restarted when it
\* dies) and a reservation runs out.  Sources and disturbances are free.
FairSpec ==
    /\ Spec
    /\ \A p \in Procs : WF_vars(RunStep(p)) /\ WF_vars(InPipeline(p))
    /\ \A i \in Items : WF_vars(key[i] = "pending" /\ StoreEvent(i))
-----------------------------------------------------------------------------
Handled(s, n) == <<s, n>> \in Ever \cup Unsafe

\* The content state of a page covers every record of that version, the
\* checkpoint of a channel every message up to its cursor.
NothingSkipped ==
    /\ \A s \in Pages : \A v \in 1..Versions :
          state[s] = v => \A n \in Feed[v] : Handled(s, n)
    /\ \A s \in Channels : \A n \in (1..Messages) \ Blank :
          n <= mark[s].cursor => Handled(s, n)

\* What the two stores say was handled was inserted or rejected, whichever
\* fetches and MongoDB calls fail and whatever expires meanwhile, as long as
\* Redis answers and the process lives.
HandledIsStored == worst = "mild" => NothingSkipped

\* An edit behind the texts the digest is made of: version v differs from the
\* one handled last and reads as unchanged (surface.py:163).
ReadsAsUnchanged(s, v) == state[s] # v /\ Unchanged(s, v)

\* A version a page stays at is eventually collected, in spite of failing
\* fetches and MongoDB errors that abort a run between two of its records,
\* unless it reads as unchanged.
PageCollected ==
    \A s \in Pages : \A v \in 1..Versions :
        current[s] = v ~> \/ current[s] # v \/ worst = "severe"
                           \/ \A n \in Feed[v] : Handled(s, n)
                           \/ ReadsAsUnchanged(s, v)
-----------------------------------------------------------------------------
(* What the repository says and the code does not always do. *)

\* docs/evidence.md:25, 32-34: a crashed publisher's key frees itself and a
\* partial write heals, so a crash makes the collectors skip nothing.
CrashSkipsNothing == NothingSkipped

\* Each message of a channel is eventually read: the collector resumes after
\* its checkpoint (tests/test_telegram_collector.py:62).
MessageCollected ==
    \A s \in Channels : \A n \in (1..Messages) \ Blank :
        posted[s] >= n ~> Handled(s, n)
============================================================================
