----------------------------- MODULE OnionCrawl -----------------------------
(***************************************************************************)
(* OnionCollector._collect of ingestion/collectors/onion.py: a process     *)
(* crawls one reviewed onion service breadth first, within a depth and a   *)
(* number of pages, and sends each page that changed through the pipeline; *)
(* then it commits the page's content state and saves the checkpoint of    *)
(* the source.  It does so again in each cycle of collect-all.             *)
(*                                                                         *)
(* Pages are numbered in the order of their URLs.  The content of a page   *)
(* changes, its links stay.                                                *)
(***************************************************************************)
EXTENDS Pipeline, Sequences

CONSTANTS
    Urls, Seed, \* the pages of the service, and the reviewed one
    Links,      \* Links[u]: the links of u to the same host, sorted
    Plain,      \* pages of text/plain, whose links are not followed
    Blank,      \* pages without text
    MaxDepth, MaxPages,
    Versions,   \* bound: contents of a page
    Changing    \* bound: the pages whose content changes

ASSUME CrawlOK ==
    /\ Urls \subseteq Nat /\ Seed \in Urls
    /\ Links \in [Urls -> Seq(Urls)]
    /\ Plain \subseteq Urls /\ Blank \subseteq Urls
    /\ MaxDepth \in Nat /\ MaxPages \in Nat \ {0}
    /\ Versions \in Nat \ {0} /\ Changing \subseteq Urls
    /\ Items = {i \in Urls \X (1..Versions) : i[2] = 1 \/ i[1] \in Changing}

VARIABLES
    current, \* the content each page has
    state,   \* content state: the content of each page last handled, or 0
    version, \* version of the source's checkpoint, 0 when there is none
    at,      \* where each process stands
    queue,   \* the deque of <<url, depth>>
    visited,
    here,    \* the <<url, depth>> it is at
    seen,    \* the content it fetched
    expect,  \* the checkpoint version its save found
    trail    \* history: the <<url, depth>> expanded in this run

runVars == <<at, queue, visited, here, seen, expect, trail>>
vars    == <<pipeVars, current, state, version, runVars>>

Start == <<Seed, 0>>

Init ==
    /\ PipeInit
    /\ current = [u \in Urls |-> 1] /\ state = [u \in Urls |-> 0]
    /\ version = 0
    /\ at = [p \in Procs |-> "rest"]
    /\ queue = [p \in Procs |-> <<>>] /\ visited = [p \in Procs |-> {}]
    /\ here = [p \in Procs |-> Start] /\ seen = [p \in Procs |-> 0]
    /\ expect = [p \in Procs |-> 0] /\ trail = [p \in Procs |-> {}]

Url(p)   == here[p][1]
Depth(p) == here[p][2]
Page(p)  == <<Url(p), seen[p]>>

Goto(p, from, to) ==
    /\ at[p] = from
    /\ at' = [at EXCEPT ![p] = to]

\* The run ends, well or not, and its locals are gone.
EndRun(p) ==
    /\ at' = [at EXCEPT ![p] = "rest"]
    /\ queue' = [queue EXCEPT ![p] = <<>>] /\ visited' = [visited EXCEPT ![p] = {}]
    /\ here' = [here EXCEPT ![p] = Start] /\ seen' = [seen EXCEPT ![p] = 0]
    /\ expect' = [expect EXCEPT ![p] = 0] /\ trail' = [trail EXCEPT ![p] = {}]
-----------------------------------------------------------------------------
(* The loop of _collect. *)

BeginRun(p) ==
    /\ Goto(p, "rest", "pop")
    /\ queue' = [queue EXCEPT ![p] = <<Start>>]
    /\ UNCHANGED <<pipeVars, current, state, version, visited, here, seen, expect, trail>>

MayVisit(p) == queue[p] # <<>> /\ Cardinality(visited[p]) < MaxPages

\* Mutant of Pop: the deque is used as a stack.
PopLast(p) ==
    /\ at[p] = "pop" /\ MayVisit(p)
    /\ LET spot == queue[p][Len(queue[p])]
       IN /\ queue' = [queue EXCEPT ![p] = SubSeq(@, 1, Len(@) - 1)]
          /\ IF spot[1] \in visited[p]
             THEN UNCHANGED <<at, visited, here>>
             ELSE /\ Goto(p, "pop", "fetch")
                  /\ visited' = [visited EXCEPT ![p] = @ \cup {spot[1]}]
                  /\ here' = [here EXCEPT ![p] = spot]
    /\ UNCHANGED <<pipeVars, current, state, version, seen, expect, trail>>

\* The next page, unless this run visited it already.
Pop(p) ==
    /\ at[p] = "pop" /\ MayVisit(p)
    /\ LET spot == Head(queue[p])
       IN /\ queue' = [queue EXCEPT ![p] = Tail(@)]
          /\ IF spot[1] \in visited[p]
             THEN UNCHANGED <<at, visited, here>>
             ELSE /\ Goto(p, "pop", "fetch")
                  /\ visited' = [visited EXCEPT ![p] = @ \cup {spot[1]}]
                  /\ here' = [here EXCEPT ![p] = spot]
    /\ UNCHANGED <<pipeVars, current, state, version, seen, expect, trail>>

Finish(p) ==
    /\ at[p] = "pop" /\ ~MayVisit(p)
    /\ EndRun(p)
    /\ UNCHANGED <<pipeVars, current, state, version>>

\* A page without text is passed over, its links with it.
Fetch(p) ==
    /\ Goto(p, "fetch", IF Url(p) \in Blank THEN "pop" ELSE "compare")
    /\ seen' = [seen EXCEPT ![p] = current[Url(p)]]
    /\ UNCHANGED <<pipeVars, current, state, version, queue, visited, here, expect, trail>>

\* The last retry of a fetch failed, or the response is refused: the end of
\* the run only when the page is the seed.
FetchFails(p) ==
    /\ at[p] = "fetch"
    /\ Disturb("source")
    /\ IF Url(p) = Seed
       THEN EndRun(p)
       ELSE /\ Goto(p, "fetch", "pop")
            /\ UNCHANGED <<queue, visited, here, seen, expect, trail>>
    /\ UNCHANGED <<keys, published, calls, outcome, current, state, version>>

\* Mutant of Children: the depth is compared after it was increased.
ChildrenTooFew(p) ==
    IF Depth(p) + 1 < MaxDepth /\ Url(p) \notin Plain
    THEN [i \in DOMAIN Links[Url(p)] |-> <<Links[Url(p)][i], Depth(p) + 1>>]
    ELSE <<>>

Children(p) ==
    IF Depth(p) < MaxDepth /\ Url(p) \notin Plain
    THEN [i \in DOMAIN Links[Url(p)] |-> <<Links[Url(p)][i], Depth(p) + 1>>]
    ELSE <<>>

\* The end of the body of the loop.
Expand(p, from) ==
    /\ Goto(p, from, "pop")
    /\ queue' = [queue EXCEPT ![p] = @ \o Children(p)]
    /\ trail' = [trail EXCEPT ![p] = @ \cup {here[p]}]
    /\ UNCHANGED <<visited, here, seen, expect>>

\* Mutant of Compare: the links of an unchanged page are not followed.
CompareOnly(p) ==
    /\ at[p] = "compare"
    /\ IF state[Url(p)] = seen[p]
       THEN /\ Goto(p, "compare", "pop")
            /\ UNCHANGED <<pipeVars, queue, visited, here, seen, expect, trail>>
       ELSE /\ Goto(p, "compare", "await")
            /\ Submit(p, Page(p))
            /\ UNCHANGED <<queue, visited, here, seen, expect, trail>>
    /\ UNCHANGED <<current, state, version>>

\* is_unchanged; a page that changed is yielded to the runner.
Compare(p) ==
    /\ at[p] = "compare"
    /\ IF state[Url(p)] = seen[p]
       THEN Expand(p, "compare") /\ UNCHANGED pipeVars
       ELSE /\ Goto(p, "compare", "await")
            /\ Submit(p, Page(p))
            /\ UNCHANGED <<queue, visited, here, seen, expect, trail>>
    /\ UNCHANGED <<current, state, version>>

\* Mutant of Await: an error of the pipeline is logged and the run goes on.
AwaitIgnoringErrors(p) ==
    /\ step[p] = "idle"
    /\ Goto(p, "await", "remember")
    /\ UNCHANGED <<pipeVars, current, state, version, queue, visited, here, seen, expect,
                   trail>>

\* The pipeline is done with the page: an error ends the run.
Await(p) ==
    /\ at[p] = "await" /\ step[p] = "idle"
    /\ IF outcome[p] = "raised"
       THEN EndRun(p)
       ELSE /\ Goto(p, "await", "remember")
            /\ UNCHANGED <<queue, visited, here, seen, expect, trail>>
    /\ UNCHANGED <<pipeVars, current, state, version>>

Remember(p) ==
    /\ Goto(p, "remember", "save")
    /\ state' = [state EXCEPT ![Url(p)] = seen[p]]
    /\ UNCHANGED <<pipeVars, current, version, queue, visited, here, seen, expect, trail>>

Save(p) ==
    /\ Goto(p, "save", "write")
    /\ expect' = [expect EXCEPT ![p] = version]
    /\ UNCHANGED <<pipeVars, current, state, version, queue, visited, here, seen, trail>>

\* A checkpoint always carries version 0: the second save of the source is
\* refused as stale, in this run or a later one, and ends the run.
Write(p) ==
    /\ at[p] = "write"
    /\ IF expect[p] > 0
       THEN EndRun(p) /\ UNCHANGED version
       ELSE Expand(p, "write") /\ version' = expect[p] + 1
    /\ UNCHANGED <<pipeVars, current, state>>

\* A call of Redis that is not the pipeline's raises.
RunFails(p) ==
    /\ at[p] \in {"compare", "remember", "save", "write"}
    /\ Disturb("redis")
    /\ EndRun(p)
    /\ UNCHANGED <<keys, published, calls, outcome, current, state, version>>

Crash(p) ==
    /\ at[p] # "rest"
    /\ Die(p)
    /\ EndRun(p)
    /\ UNCHANGED <<current, state, version>>
-----------------------------------------------------------------------------
(* The service, and the TTL of the content state. *)

Change(u) ==
    /\ u \in Changing /\ current[u] < Versions
    /\ current' = [current EXCEPT ![u] = @ + 1]
    /\ UNCHANGED <<pipeVars, state, version, runVars>>

StateExpires(u) ==
    /\ state[u] # 0
    /\ Disturb("ttl")
    /\ state' = [state EXCEPT ![u] = 0]
    /\ UNCHANGED <<keys, published, calls, outcome, current, version, runVars>>

RunStep(p) ==
    \/ BeginRun(p) \/ Pop(p) \/ Finish(p) \/ Fetch(p) \/ Compare(p) \/ Await(p)
    \/ Remember(p) \/ Save(p) \/ Write(p)

InPipeline(p) ==
    /\ PipeStep(p) \/ PipeTrouble(p)
    /\ UNCHANGED <<current, state, version, runVars>>

StoreEvent(i) ==
    /\ PipeSurroundings(i)
    /\ UNCHANGED <<current, state, version, runVars>>

Next ==
    \/ \E p \in Procs :
          RunStep(p) \/ InPipeline(p) \/ FetchFails(p) \/ RunFails(p) \/ Crash(p)
    \/ \E i \in Items : StoreEvent(i)
    \/ \E u \in Urls : Change(u) \/ StateExpires(u)

Spec == Init /\ [][Next]_vars

\* The loop of collect-all goes on, so does a call in the pipeline, and a
\* reservation runs out.  The service and the disturbances are free.
FairSpec ==
    /\ Spec
    /\ \A p \in Procs : WF_vars(RunStep(p)) /\ WF_vars(InPipeline(p))
    /\ \A i \in Items : WF_vars(key[i] = "pending" /\ StoreEvent(i))
-----------------------------------------------------------------------------
Handled(i) == i \in Ever \cup Unsafe

\* What the content state of a page says was handled was inserted or rejected,
\* as long as Redis answers and the process lives.
HandledIsStored ==
    worst = "mild" => \A u \in Urls : state[u] # 0 => Handled(<<u, state[u]>>)

Linked(u, v) == u \notin Plain /\ \E i \in DOMAIN Links[u] : Links[u][i] = v

\* A run never prunes a page it could expand: each is crawled at the least
\* depth at which an expanded page links to it, whatever fetches failed, so the
\* depth limit cuts off nothing that is near enough by another way.
NearestFirst ==
    \A p \in Procs : \A s, t \in trail[p] :
        Linked(s[1], t[1]) => t[2] <= s[2] + 1

\* A run that ends with pages to spare has visited every page within the depth
\* that the pages it expanded link to: the reviewed scope is exhausted
\* (docs/onion-review.md:14-15).
ScopeExhausted ==
    \A p \in Procs :
        at[p] = "pop" /\ queue[p] = <<>> /\ Cardinality(visited[p]) < MaxPages =>
            \A s \in trail[p] : s[2] < MaxDepth =>
                \A v \in Urls : Linked(s[1], v) => v \in visited[p]

\* The pages at distance d from the seed, over pages whose links are followed.
Layer[d \in Nat] ==
    IF d = 0 THEN {Seed}
    ELSE {v \in Urls : \E u \in Layer[d - 1] \ Blank : Linked(u, v)}

Scope == UNION {Layer[d] : d \in 0..MaxDepth}

\* A content at which a page in scope stays is collected in the end, although a
\* run ends at its second new page (Write), fetches fail, and changes of other
\* pages end runs early - when the scope has no more than MaxPages pages.
PageCollected ==
    \A u \in Scope \ Blank : \A v \in 1..Versions :
        current[u] = v ~> current[u] # v \/ worst = "severe" \/ Handled(<<u, v>>)
============================================================================
