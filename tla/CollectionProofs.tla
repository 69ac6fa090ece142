-------------------------- MODULE CollectionProofs --------------------------
(***************************************************************************)
(* Proofs about Collection: its processes use the pipeline as Pipeline     *)
(* says, so what is proved of that holds here, and a process that collects *)
(* alone never marks as handled what was not.                              *)
(***************************************************************************)
EXTENDS Collection, PipelineProofs

\* Where a process stands in which kind of source, and what it has at hand.
Sourced ==
    \A p \in Procs :
        /\ at[p] \in {"fetch", "compare", "yield", "remember"} => Source(p) \in Pages
        /\ at[p] \in {"load", "read"} => Source(p) \in Channels
        /\ at[p] \in {"compare", "yield", "remember"} => seen[p] \in 1..Versions
        /\ at[p] \in {"await", "save", "write"} /\ Source(p) \in Pages
              => seen[p] \in 1..Versions
        /\ at[p] \in {"yield", "await"} /\ Source(p) \in Pages
              => todo[p] \subseteq Feed[seen[p]]
        /\ step[p] # "idle" => at[p] = "await"

Typed == TypeOK /\ Sourced

\* The position of a process is a source.
LEMMA SourceType ==
    ASSUME TypeOK, NEW p \in Procs
    PROVE  Source(p) \in Pages \cup Channels
BY CollectionOK DEF TypeOK, Source

\* A run that ends leaves the locals in their types.
LEMMA EndRunType ==
    ASSUME TypeOK, NEW p \in Procs, EndRun(p)
    PROVE  /\ at' \in [Procs -> RunSteps] /\ pos' \in [Procs -> DOMAIN Sources]
           /\ seen' \in [Procs -> Nat] /\ expect' \in [Procs -> Nat]
           /\ todo' \in [Procs -> SUBSET Nat]
           /\ at'[p] = "rest"
           /\ \A q \in Procs \ {p} : /\ at'[q] = at[q] /\ pos'[q] = pos[q]
                                     /\ seen'[q] = seen[q] /\ todo'[q] = todo[q]
<1>1. Len(Sources) \in Nat \ {0} /\ DOMAIN Sources = 1..Len(Sources)
  BY CollectionOK
<1> QED
  BY <1>1 DEF TypeOK, EndRun, RunSteps

\* A step of a process that leaves its neighbours alone keeps Sourced when it
\* keeps it for itself.
SourcedOf(p) ==
    /\ at[p] \in {"fetch", "compare", "yield", "remember"} => Source(p) \in Pages
    /\ at[p] \in {"load", "read"} => Source(p) \in Channels
    /\ at[p] \in {"compare", "yield", "remember"} => seen[p] \in 1..Versions
    /\ at[p] \in {"await", "save", "write"} /\ Source(p) \in Pages
          => seen[p] \in 1..Versions
    /\ at[p] \in {"yield", "await"} /\ Source(p) \in Pages
          => todo[p] \subseteq Feed[seen[p]]
    /\ step[p] # "idle" => at[p] = "await"

\* What holds of the process that moved is all there is to show of Sourced.
LEMMA SourcedByOne ==
    ASSUME Sourced, NEW p \in Procs, SourcedOf(p)',
           \A q \in Procs \ {p} : /\ at'[q] = at[q] /\ pos'[q] = pos[q]
                                  /\ seen'[q] = seen[q] /\ todo'[q] = todo[q]
                                  /\ step'[q] = step[q]
    PROVE  Sourced'
BY DEF Sourced, SourcedOf, Source

\* The sources, the content state, the checkpoints and the pipeline are typed.
StoresTyped ==
    /\ PipeTypeOK
    /\ current \in [Pages -> 1..Versions] /\ posted \in [Channels -> 0..Messages]
    /\ state \in [Pages -> 0..Versions]
    /\ mark \in [Channels \cup Pages -> [cursor : Nat, version : Nat]]

RunTyped ==
    /\ at \in [Procs -> RunSteps]
    /\ pos \in [Procs -> DOMAIN Sources]
    /\ seen \in [Procs -> Nat] /\ expect \in [Procs -> Nat]
    /\ todo \in [Procs -> SUBSET Nat]

\* The types of the stores and those of the runs.
LEMMA TypeParts == TypeOK <=> StoresTyped /\ RunTyped
BY DEF TypeOK, StoresTyped, RunTyped

\* Each action leaves the other processes alone.
Alone(p) ==
    \A q \in Procs \ {p} : /\ at'[q] = at[q] /\ pos'[q] = pos[q]
                           /\ seen'[q] = seen[q] /\ todo'[q] = todo[q]
                           /\ step'[q] = step[q]

\* So a step of p keeps Typed if the types and the place of p are right.
LEMMA TypedByOne ==
    ASSUME Sourced, NEW p \in Procs, StoresTyped', RunTyped', SourcedOf(p)', Alone(p)
    PROVE  Typed'
<1>1. Sourced'
  BY SourcedByOne DEF Alone
<1> QED
  BY <1>1 DEF Typed, TypeOK, StoresTyped, RunTyped

\* A run may end wherever no call is under way.
LEMMA TypedEnd ==
    ASSUME Typed, NEW p \in Procs, EndRun(p), StoresTyped', step' = step,
           at[p] # "await" \/ step[p] = "idle"
    PROVE  Typed'
<1>1. RunTyped' /\ Alone(p) /\ at'[p] = "rest"
  BY EndRunType DEF Typed, RunTyped, Alone
<1>2. step[p] = "idle"
  BY DEF Typed, Sourced
<1>3. SourcedOf(p)'
  BY <1>1, <1>2 DEF SourcedOf
<1> QED
  BY <1>1, <1>3, TypedByOne DEF Typed

\* The steps of a run of a page.
LEMMA TypedPage ==
    ASSUME Typed, NEW p \in Procs,
           Fetch(p) \/ Compare(p) \/ Yield(p) \/ Exhausted(p) \/ Remember(p)
    PROVE  Typed'
<1> USE DEF Goto, RunTyped, RunSteps, Source
<1>1. TypeOK /\ StoresTyped /\ RunTyped /\ Sourced
  BY TypeParts DEF Typed
<1>2. CASE Fetch(p)
  <2>1. Source(p) \in Pages /\ step[p] = "idle"
    BY <1>1, <1>2 DEF Sourced, Fetch
  <2>2. current[Source(p)] \in 1..Versions /\ Versions \in Nat
    BY <1>1, <2>1, CollectionOK DEF StoresTyped
  <2>3. StoresTyped'
    BY <1>1, <1>2 DEF Fetch, StoresTyped, PipeTypeOK, pipeVars, keys, calls, trouble
  <2>4. RunTyped' /\ Alone(p)
    BY <1>1, <1>2, <2>2 DEF Fetch, Alone, pipeVars, calls
  <2>5. SourcedOf(p)'
    BY <1>1, <1>2, <2>1, <2>2 DEF Fetch, SourcedOf, pipeVars, calls
  <2> QED
    BY <1>1, <2>3, <2>4, <2>5, TypedByOne
<1>3. CASE Compare(p)
  <2>1. Source(p) \in Pages /\ step[p] = "idle" /\ seen[p] \in 1..Versions
    BY <1>1, <1>3 DEF Sourced, Compare
  <2>2. StoresTyped' /\ step' = step
    BY <1>1, <1>3 DEF Compare, StoresTyped, PipeTypeOK, pipeVars, keys, calls, trouble
  <2>3. CASE EndRun(p)
    BY <1>3, <2>1, <2>2, <2>3, TypedEnd DEF Compare
  <2>4. CASE ~EndRun(p)
    <3>1. /\ at' = [at EXCEPT ![p] = "yield"] /\ todo' = [todo EXCEPT ![p] = Feed[seen[p]]]
          /\ UNCHANGED <<pos, seen, expect>>
      BY <1>3, <2>4 DEF Compare
    <3>2. Feed[seen[p]] \in SUBSET Nat
      BY <2>1, CollectionOK
    <3>3. RunTyped' /\ Alone(p)
      BY <1>1, <2>2, <3>1, <3>2 DEF Alone
    <3>4. SourcedOf(p)'
      BY <1>1, <2>1, <2>2, <3>1 DEF SourcedOf
    <3> QED
      BY <1>1, <2>2, <3>3, <3>4, TypedByOne
  <2> QED
    BY <2>3, <2>4
<1>4. CASE Yield(p)
  <2>1. PICK n \in todo[p] :
           /\ at[p] = "yield" /\ at' = [at EXCEPT ![p] = "await"]
           /\ Submit(p, <<Source(p), n>>)
           /\ todo' = [todo EXCEPT ![p] = @ \ {n}]
    BY <1>4 DEF Yield
  <2>2. UNCHANGED <<current, posted, state, mark, pos, seen, expect>>
    BY <1>4 DEF Yield
  <2>3. Source(p) \in Pages /\ seen[p] \in 1..Versions /\ todo[p] \subseteq Feed[seen[p]]
    BY <1>1, <2>1 DEF Sourced
  <2>4. <<Source(p), n>> \in Items
    BY <2>1, <2>3, CollectionOK
  <2>5. PipeTypeOK'
    BY <1>1, <2>1, <2>4, TypeStep DEF StoresTyped
  <2>6. StoresTyped' /\ RunTyped'
    BY <1>1, <2>1, <2>2, <2>5 DEF StoresTyped
  <2>7. \A q \in Procs \ {p} : step'[q] = step[q]
    BY <1>1, <2>1 DEF Submit, StoresTyped, PipeTypeOK
  <2>8. SourcedOf(p)' /\ Alone(p)
    BY <1>1, <2>1, <2>2, <2>3, <2>7 DEF SourcedOf, Alone
  <2> QED
    BY <1>1, <2>6, <2>8, TypedByOne
<1>5. CASE Exhausted(p)
  <2>1. Source(p) \in Pages /\ step[p] = "idle" /\ seen[p] \in 1..Versions
    BY <1>1, <1>5 DEF Sourced, Exhausted
  <2>2. StoresTyped' /\ step' = step
    BY <1>1, <1>5 DEF Exhausted, StoresTyped, PipeTypeOK, pipeVars, keys, calls, trouble
  <2>3. RunTyped' /\ Alone(p)
    BY <1>1, <1>5, <2>2 DEF Exhausted, Alone
  <2>4. SourcedOf(p)'
    BY <1>1, <1>5, <2>1, <2>2 DEF Exhausted, SourcedOf
  <2> QED
    BY <1>1, <2>2, <2>3, <2>4, TypedByOne
<1>6. CASE Remember(p)
  <2>1. Source(p) \in Pages /\ step[p] = "idle" /\ seen[p] \in 1..Versions
    BY <1>1, <1>6 DEF Sourced, Remember
  <2>2. PipeTypeOK' /\ step' = step
    BY <1>1, <1>6 DEF Remember, StoresTyped, PipeTypeOK, pipeVars, keys, calls, trouble
  <2>3. StoresTyped'
    BY <1>1, <1>6, <2>1, <2>2, CollectionOK DEF Remember, StoresTyped
  <2>4. RunTyped' /\ Alone(p)
    BY <1>1, <1>6, <2>2 DEF Remember, Alone
  <2>5. SourcedOf(p)'
    BY <1>1, <1>6, <2>1, <2>2 DEF Remember, SourcedOf
  <2> QED
    BY <1>1, <2>3, <2>4, <2>5, TypedByOne
<1> QED
  BY <1>2, <1>3, <1>4, <1>5, <1>6

\* The steps of a run of a channel.
LEMMA TypedChannel ==
    ASSUME Typed, NEW p \in Procs, Load(p) \/ Read(p) \/ ReadAll(p)
    PROVE  Typed'
<1> USE DEF Goto, RunTyped, RunSteps, Source
<1>1. TypeOK /\ StoresTyped /\ RunTyped /\ Sourced
  BY TypeParts DEF Typed
<1>2. CASE Load(p)
  <2>1. Source(p) \in Channels /\ step[p] = "idle" /\ Source(p) \notin Pages
    BY <1>1, <1>2, CollectionOK DEF Sourced, Load
  <2>2. mark[Source(p)].cursor \in Nat
    BY <1>1, <2>1 DEF StoresTyped
  <2>3. StoresTyped' /\ step' = step
    BY <1>1, <1>2 DEF Load, StoresTyped, PipeTypeOK, pipeVars, keys, calls, trouble
  <2>4. RunTyped' /\ Alone(p)
    BY <1>1, <1>2, <2>2, <2>3 DEF Load, Alone
  <2>5. SourcedOf(p)'
    BY <1>1, <1>2, <2>1, <2>3 DEF Load, SourcedOf
  <2> QED
    BY <1>1, <2>3, <2>4, <2>5, TypedByOne
<1>3. CASE Read(p)
  <2>1. Source(p) \in Channels /\ step[p] = "idle" /\ Source(p) \notin Pages
    BY <1>1, <1>3, CollectionOK DEF Sourced, Read
  <2>2. posted[Source(p)] \in 0..Messages /\ seen[p] \in Nat /\ Messages \in Nat
    BY <1>1, <2>1, CollectionOK DEF StoresTyped
  <2>3. seen[p] + 1 \in 1..Messages
    BY <1>3, <2>2 DEF Read
  <2>4. UNCHANGED <<current, posted, state, mark, pos, todo, expect>>
        /\ seen' = [seen EXCEPT ![p] = seen[p] + 1]
    BY <1>3 DEF Read
  <2>5. CASE seen[p] + 1 \in Blank
    <3>1. at' = [at EXCEPT ![p] = "save"] /\ UNCHANGED pipeVars
      BY <1>3, <2>5 DEF Read
    <3>2. StoresTyped' /\ step' = step
      BY <1>1, <2>4, <3>1 DEF StoresTyped, PipeTypeOK, pipeVars, keys, calls, trouble
    <3>3. RunTyped' /\ Alone(p)
      BY <1>1, <2>2, <2>4, <3>1, <3>2 DEF Alone
    <3>4. SourcedOf(p)'
      BY <1>1, <2>1, <2>4, <3>1, <3>2 DEF SourcedOf
    <3> QED
      BY <1>1, <3>2, <3>3, <3>4, TypedByOne
  <2>6. CASE seen[p] + 1 \notin Blank
    <3>1. at' = [at EXCEPT ![p] = "await"] /\ Submit(p, <<Source(p), seen[p] + 1>>)
      BY <1>3, <2>6 DEF Read
    <3>2. <<Source(p), seen[p] + 1>> \in Items
      BY <2>1, <2>3, <2>6, CollectionOK
    <3>3. PipeTypeOK'
      BY <1>1, <3>1, <3>2, TypeStep DEF StoresTyped
    <3>4. StoresTyped'
      BY <1>1, <2>4, <3>3 DEF StoresTyped
    <3>5. \A q \in Procs \ {p} : step'[q] = step[q]
      BY <1>1, <3>1 DEF Submit, StoresTyped, PipeTypeOK
    <3>6. RunTyped' /\ Alone(p)
      BY <1>1, <2>2, <2>4, <3>1, <3>5 DEF Alone
    <3>7. SourcedOf(p)'
      BY <1>1, <2>1, <2>4, <3>1 DEF SourcedOf
    <3> QED
      BY <1>1, <3>4, <3>6, <3>7, TypedByOne
  <2> QED
    BY <2>5, <2>6
<1>4. CASE ReadAll(p)
  <2>1. EndRun(p) /\ at[p] = "read"
    BY <1>4 DEF ReadAll
  <2>2. StoresTyped' /\ step' = step
    BY <1>1, <1>4 DEF ReadAll, StoresTyped, PipeTypeOK, pipeVars, keys, calls, trouble
  <2> QED
    BY <2>1, <2>2, TypedEnd
<1> QED
  BY <1>2, <1>3, <1>4

\* The steps both have, and the next source.
LEMMA TypedLoop ==
    ASSUME Typed, NEW p \in Procs, BeginRun(p) \/ Await(p) \/ Save(p) \/ Write(p)
    PROVE  Typed'
<1> USE DEF Goto, RunTyped, RunSteps, Source
<1>1. TypeOK /\ StoresTyped /\ RunTyped /\ Sourced
  BY TypeParts DEF Typed
<1>2. Source(p) \in Pages \cup Channels
  BY <1>1, SourceType
<1>3. CASE BeginRun(p)
  <2>1. StoresTyped' /\ step' = step /\ step[p] = "idle"
    BY <1>1, <1>3 DEF BeginRun, Sourced, StoresTyped, PipeTypeOK, pipeVars, keys, calls,
                      trouble
  <2>2. RunTyped' /\ Alone(p)
    BY <1>1, <1>3, <2>1 DEF BeginRun, Alone
  <2>3. SourcedOf(p)'
    BY <1>1, <1>2, <1>3, <2>1, CollectionOK DEF BeginRun, SourcedOf
  <2> QED
    BY <1>1, <2>1, <2>2, <2>3, TypedByOne
<1>4. CASE Await(p)
  <2>1. StoresTyped' /\ step' = step /\ step[p] = "idle"
    BY <1>1, <1>4 DEF Await, StoresTyped, PipeTypeOK, pipeVars, keys, calls, trouble
  <2>2. CASE outcome[p] = "raised"
    BY <1>4, <2>1, <2>2, TypedEnd DEF Await
  <2>3. CASE outcome[p] # "raised"
    <3>1. /\ at' = [at EXCEPT ![p] = IF Source(p) \in Pages THEN "yield" ELSE "save"]
          /\ UNCHANGED <<pos, seen, todo, expect>> /\ at[p] = "await"
      BY <1>4, <2>3 DEF Await
    <3>2. RunTyped' /\ Alone(p)
      BY <1>1, <2>1, <3>1 DEF Alone
    <3>3. SourcedOf(p)'
      BY <1>1, <1>2, <2>1, <3>1, CollectionOK DEF Sourced, SourcedOf
    <3> QED
      BY <1>1, <2>1, <3>2, <3>3, TypedByOne
  <2> QED
    BY <2>2, <2>3
<1>5. CASE Save(p)
  <2>1. StoresTyped' /\ step' = step /\ step[p] = "idle"
    BY <1>1, <1>5 DEF Save, Sourced, StoresTyped, PipeTypeOK, pipeVars, keys, calls, trouble
  <2>2. mark[Source(p)].version \in Nat
    BY <1>1, <1>2 DEF StoresTyped
  <2>3. RunTyped' /\ Alone(p)
    BY <1>1, <1>5, <2>1, <2>2 DEF Save, Alone
  <2>4. SourcedOf(p)'
    BY <1>1, <1>2, <1>5, <2>1 DEF Save, Sourced, SourcedOf
  <2> QED
    BY <1>1, <2>1, <2>3, <2>4, TypedByOne
<1>6. CASE Write(p)
  <2>1. PipeTypeOK' /\ step' = step /\ step[p] = "idle" /\ at[p] = "write"
        /\ UNCHANGED <<current, posted, state>>
    BY <1>1, <1>6 DEF Write, Sourced, StoresTyped, PipeTypeOK, pipeVars, keys, calls, trouble
  <2>2. mark' \in [Channels \cup Pages -> [cursor : Nat, version : Nat]]
    BY <1>1, <1>6 DEF Write, StoresTyped
  <2>3. StoresTyped'
    BY <1>1, <2>1, <2>2 DEF StoresTyped
  <2>4. CASE EndRun(p)
    BY <2>1, <2>3, <2>4, TypedEnd
  <2>5. CASE ~EndRun(p)
    <3>1. /\ at' = [at EXCEPT ![p] = "read"] /\ Source(p) \notin Pages
          /\ UNCHANGED <<pos, seen, todo, expect>>
      BY <1>6, <2>5 DEF Write
    <3>2. RunTyped' /\ Alone(p)
      BY <1>1, <2>1, <3>1 DEF Alone
    <3>3. SourcedOf(p)'
      BY <1>1, <1>2, <2>1, <3>1 DEF SourcedOf
    <3> QED
      BY <1>1, <2>3, <3>2, <3>3, TypedByOne
  <2> QED
    BY <2>4, <2>5
<1> QED
  BY <1>3, <1>4, <1>5, <1>6
-----------------------------------------------------------------------------
(* The collectors use the pipeline as Pipeline says. *)

\* A call begins with a record of the page or channel; the rest is as there.
LEMMA UsesPipeline ==
    ASSUME Typed, [Next]_vars
    PROVE  [PipeNext]_pipeVars
<1>1. TypeOK /\ Sourced
  BY DEF Typed
<1>2. CASE UNCHANGED vars
  BY <1>2 DEF vars
<1>3. ASSUME NEW p \in Procs, Yield(p)
      PROVE  \E i \in Items : Submit(p, i)
  <2>1. PICK n \in todo[p] : at[p] = "yield" /\ Submit(p, <<Source(p), n>>)
    BY <1>3 DEF Yield, Goto
  <2>2. Source(p) \in Pages /\ seen[p] \in 1..Versions /\ todo[p] \subseteq Feed[seen[p]]
    BY <1>1, <2>1 DEF Sourced
  <2>3. <<Source(p), n>> \in Items
    BY <2>1, <2>2, CollectionOK
  <2> QED
    BY <2>1, <2>3
<1>4. ASSUME NEW p \in Procs, Read(p)
      PROVE  UNCHANGED pipeVars \/ \E i \in Items : Submit(p, i)
  <2>1. Source(p) \in Channels /\ seen[p] \in Nat /\ seen[p] < posted[Source(p)]
    BY <1>1, <1>4 DEF Read, Goto, Sourced, TypeOK
  <2>2. posted[Source(p)] \in 0..Messages /\ Messages \in Nat
    BY <1>1, <2>1, CollectionOK DEF TypeOK
  <2>3. seen[p] + 1 \in 1..Messages
    BY <2>1, <2>2
  <2>4. CASE seen[p] + 1 \in Blank
    BY <1>4, <2>4 DEF Read
  <2>5. CASE seen[p] + 1 \notin Blank
    <3>1. <<Source(p), seen[p] + 1>> \in Items
      BY <2>1, <2>3, <2>5, CollectionOK
    <3> QED
      BY <1>4, <2>5, <3>1 DEF Read
  <2> QED
    BY <2>4, <2>5
<1>5. ASSUME NEW p \in Procs, RunStep(p)
      PROVE  UNCHANGED pipeVars \/ \E i \in Items : Submit(p, i)
  BY <1>3, <1>4, <1>5 DEF RunStep, BeginRun, Await, Fetch, Compare, Exhausted, Remember, Load,
                          ReadAll, Save, Write
<1>6. ASSUME NEW p \in Procs, RunFails(p) \/ PersistFails(p)
      PROVE  Elsewhere
  BY <1>6 DEF RunFails, PersistFails, Elsewhere
<1>7. ASSUME NEW p \in Procs, InPipeline(p) \/ Crash(p)
      PROVE  PipeStep(p) \/ PipeTrouble(p) \/ Die(p)
  BY <1>7 DEF InPipeline, Crash
<1>8. ASSUME NEW i \in Items, StoreEvent(i)
      PROVE  PipeSurroundings(i)
  BY <1>8 DEF StoreEvent
<1>9. ASSUME (\E s \in Pages : Change(s)) \/ (\E s \in Channels : Post(s))
      PROVE  UNCHANGED pipeVars
  BY <1>9 DEF Change, Post
<1>10. ASSUME NEW s \in Pages, StateExpires(s)
       PROVE  Elsewhere
  BY <1>10 DEF StateExpires, Elsewhere
<1> QED
  BY <1>2, <1>5, <1>6, <1>7, <1>8, <1>9, <1>10 DEF Next, PipeNext

\* What is neither a step of a run nor of the pipeline for it.
LEMMA TypedRest ==
    ASSUME Typed, PipeTypeOK',
           \/ \E p \in Procs : InPipeline(p) \/ RunFails(p) \/ PersistFails(p) \/ Crash(p)
           \/ \E i \in Items : StoreEvent(i)
           \/ (\E s \in Pages : Change(s) \/ StateExpires(s)) \/ (\E s \in Channels : Post(s))
    PROVE  Typed'
<1> USE DEF RunTyped
<1>1. TypeOK /\ StoresTyped /\ RunTyped /\ Sourced /\ PipeTypeOK
  BY TypeParts DEF Typed, TypeOK
<1>2. ASSUME NEW p \in Procs, InPipeline(p) PROVE Typed'
  <2>1. StoresTyped' /\ RunTyped' /\ UNCHANGED <<at, pos, seen, todo>>
    BY <1>1, <1>2 DEF InPipeline, runVars, StoresTyped
  <2>2. step[p] # "idle" /\ \A q \in Procs \ {p} : step'[q] = step[q]
    BY <1>1, <1>2 DEF InPipeline, PipeStep, PipeTrouble, Reserve, Publish, Release, Settle,
                      Commit, ReserveFails, PublishFails, ReleaseFails, SettleFails,
                      CommitFails, Proceed, Return, PipeTypeOK
  <2>3. SourcedOf(p)' /\ Alone(p)
    BY <1>1, <2>1, <2>2 DEF Sourced, SourcedOf, Alone, Source
  <2> QED
    BY <1>1, <2>1, <2>3, TypedByOne
<1>3. ASSUME NEW p \in Procs, RunFails(p) PROVE Typed'
  <2>1. EndRun(p) /\ StoresTyped' /\ step' = step /\ at[p] # "await"
    BY <1>1, <1>3 DEF RunFails, StoresTyped, calls
  <2> QED
    BY <2>1, TypedEnd
<1>4. ASSUME NEW p \in Procs, Crash(p) PROVE Typed'
  <2>1. 1 \in DOMAIN Sources
    BY CollectionOK
  <2>2. StoresTyped' /\ RunTyped' /\ at'[p] = "rest"
    BY <1>1, <1>4, <2>1 DEF Crash, StoresTyped, RunSteps
  <2>3. step' = [step EXCEPT ![p] = "idle"]
    BY <1>4 DEF Crash, Die
  <2>4. Alone(p) /\ step'[p] = "idle"
    BY <1>1, <1>4, <2>3 DEF Crash, Alone, PipeTypeOK
  <2>5. SourcedOf(p)'
    BY <2>2, <2>4 DEF SourcedOf
  <2> QED
    BY <1>1, <2>2, <2>4, <2>5, TypedByOne
<1>5. ASSUME \/ \E i \in Items : StoreEvent(i)
             \/ (\E s \in Pages : Change(s) \/ StateExpires(s)) \/ (\E s \in Channels : Post(s))
      PROVE  Typed'
  <2>1. UNCHANGED <<mark, runVars>> /\ step' = step
    BY <1>5 DEF StoreEvent, Change, StateExpires, Post, PipeSurroundings, KeyExpires,
                RawExpires, Forget, calls, pipeVars
  <2>2. current' \in [Pages -> 1..Versions] /\ posted' \in [Channels -> 0..Messages]
    <3>1. /\ current \in [Pages -> 1..Versions] /\ posted \in [Channels -> 0..Messages]
          /\ Versions \in Nat /\ Messages \in Nat
      BY <1>1, CollectionOK DEF StoresTyped
    <3>2. CASE \E i \in Items : StoreEvent(i)
      BY <3>1, <3>2 DEF StoreEvent
    <3>3. CASE \E s \in Pages : Change(s)
      BY <3>1, <3>3 DEF Change
    <3>4. CASE \E s \in Channels : Post(s)
      BY <3>1, <3>4 DEF Post
    <3>5. CASE \E s \in Pages : StateExpires(s)
      BY <3>1, <3>5 DEF StateExpires
    <3> QED
      BY <1>5, <3>2, <3>3, <3>4, <3>5
  <2>3. StoresTyped' /\ RunTyped'
    <3>1. UNCHANGED mark /\ UNCHANGED <<at, pos, seen, todo, expect>>
      BY <2>1 DEF runVars
    <3>2. RunTyped'
      BY <1>1, <3>1
    <3>3. state \in [Pages -> 0..Versions] /\ Versions \in Nat
      BY <1>1, CollectionOK DEF StoresTyped
    <3>4. state' \in [Pages -> 0..Versions]
      BY <1>5, <3>3 DEF StoreEvent, Change, StateExpires, Post
    <3> QED
      BY <1>1, <2>2, <3>1, <3>2, <3>4 DEF StoresTyped
  <2>4. Sourced'
    BY <1>1, <2>1 DEF Sourced, Source, runVars
  <2> QED
    BY <2>3, <2>4 DEF Typed, TypeOK, StoresTyped
<1>6. ASSUME NEW p \in Procs, PersistFails(p) PROVE Typed'
  <2>1. 1 \in DOMAIN Sources
    BY CollectionOK
  <2>2. StoresTyped' /\ RunTyped' /\ UNCHANGED <<at, seen, todo, step>> /\ at[p] = "rest"
    BY <1>1, <1>6, <2>1 DEF PersistFails, StoresTyped, calls
  <2>3. Alone(p) /\ step[p] = "idle"
    BY <1>1, <1>6, <2>2 DEF PersistFails, Alone, Sourced
  <2>4. SourcedOf(p)'
    BY <2>2, <2>3 DEF SourcedOf
  <2> QED
    BY <1>1, <2>2, <2>3, <2>4, TypedByOne
<1> QED
  BY <1>2, <1>3, <1>4, <1>5, <1>6

\* Typed is inductive.
LEMMA TypedNext ==
    ASSUME Typed, [Next]_vars
    PROVE  Typed'
<1>1. PipeTypeOK /\ [PipeNext]_pipeVars
  BY UsesPipeline DEF Typed, TypeOK
<1>2. PipeTypeOK'
  BY <1>1, TypeNext
<1>3. CASE UNCHANGED vars
  BY <1>3 DEF vars, runVars, pipeVars, keys, calls, trouble, Typed, TypeOK, PipeTypeOK,
              Sourced, Source
<1>4. ASSUME NEW p \in Procs, RunStep(p)
      PROVE  Typed'
  BY <1>4, TypedPage, TypedChannel, TypedLoop DEF RunStep
<1> QED
  BY <1>2, <1>3, <1>4, TypedRest DEF Next

\* It holds at the start, of a process at rest.
LEMMA AlwaysTyped == Spec => []Typed
<1>1. Init => Typed
  <2> SUFFICES ASSUME Init PROVE Typed
    OBVIOUS
  <2>1. PipeTypeOK
    BY ConstantsOK DEF Init, PipeInit, PipeTypeOK, Steps, Outcomes
  <2>2. 1 \in DOMAIN Sources
    BY CollectionOK
  <2>3. Sourced
    BY DEF Init, PipeInit, Sourced
  <2> QED
    BY <2>1, <2>2, <2>3, CollectionOK DEF Init, Typed, TypeOK, RunSteps
<1> QED
  BY <1>1, TypedNext, PTL DEF Spec

\* The types hold of every behaviour of the collectors.
THEOREM CollectionTypeCorrect == Spec => []TypeOK
<1>1. Typed => TypeOK
  BY DEF Typed
<1> QED
  BY <1>1, AlwaysTyped, PTL

\* Each collector step is a step of the pipeline, or leaves it alone, so what
\* PipelineProofs shows of ingestion/pipeline.py holds of live collection.
THEOREM CollectionImplementsPipeline == Spec => PipeSpec
<1>1. Init => PipeInit
  BY DEF Init
<1> QED
  BY <1>1, AlwaysTyped, UsesPipeline, PTL DEF Spec, PipeSpec
-----------------------------------------------------------------------------
(* A process that collects alone. *)

\* The records a run is past: those of the version it fetched that it no longer
\* has to yield, or the messages up to the one it is at.
Past(p, n) ==
    \/ at[p] \in {"yield", "await"} /\ Source(p) \in Pages /\ n \in Feed[seen[p]] \ todo[p]
    \/ at[p] = "remember" /\ Source(p) \in Pages /\ n \in Feed[seen[p]]
    \/ /\ at[p] \in {"read", "await", "save", "write"} /\ Source(p) \in Channels
       /\ n \in (1..Messages) \ Blank /\ n <= seen[p]

\* The one that is in the pipeline; or an error came back, which ends the run.
Waits(p, n) ==
    /\ at[p] = "await"
    /\ IF step[p] = "idle" THEN outcome[p] = "raised" ELSE item[p] = <<Source(p), n>>

PastHandled ==
    \A p \in Procs : \A n \in Nat : Past(p, n) => Handled(Source(p), n) \/ Waits(p, n)

\* Why HandledIsStored holds: the content state and the checkpoints are written
\* when the run is past the records they cover.
LoneInv == worst = "mild" => NothingSkipped /\ PastHandled

\* What was handled stays so; a content state that expires claims nothing.
LEMMA SkippedStays ==
    ASSUME NothingSkipped, Ever \subseteq Ever', mark' = mark,
           \A s \in Pages : state'[s] \in {0, state[s]}
    PROVE  NothingSkipped'
<1>1. \A s \in Pages : \A v \in 1..Versions : state'[s] = v => state[s] = v
  BY CollectionOK
<1> QED
  BY <1>1 DEF NothingSkipped, Handled

\* A run that ended is past nothing.
LEMMA AtRest ==
    ASSUME Lone, NEW p \in Procs, at'[p] = "rest"
    PROVE  PastHandled'
BY DEF Lone, PastHandled, Past

\* So the end of a run is a step to rest.
LEMMA EndsAtRest ==
    ASSUME TypeOK, Lone, NEW p \in Procs, EndRun(p)
    PROVE  PastHandled'
<1>1. at'[p] = "rest"
  BY DEF TypeOK, EndRun
<1> QED
  BY <1>1, AtRest

\* A page: every record of its version is past when the content state is
\* written.
LEMMA LonePage ==
    ASSUME Typed, Lone, NothingSkipped, PastHandled, Ever \subseteq Ever', NEW p \in Procs,
           Fetch(p) \/ Compare(p) \/ Yield(p) \/ Exhausted(p) \/ Remember(p)
    PROVE  NothingSkipped' /\ PastHandled'
<1>1. /\ TypeOK /\ Sourced /\ \A q \in Procs : q = p
      /\ at \in [Procs -> RunSteps] /\ seen \in [Procs -> Nat] /\ todo \in [Procs -> SUBSET Nat]
      /\ step \in [Procs -> Steps] /\ item \in [Procs -> Items \cup {None}]
  BY DEF Typed, TypeOK, PipeTypeOK, Lone
<1>2. \A n \in Nat : Past(p, n) => Handled(Source(p), n) \/ Waits(p, n)
  BY DEF PastHandled
<1>3. \A s, n : Handled(s, n) => Handled(s, n)'
  BY DEF Handled
<1>4. CASE Fetch(p)
  <2>1. at'[p] = "compare" /\ UNCHANGED <<state, mark>>
    BY <1>1, <1>4 DEF Fetch, Goto
  <2>2. PastHandled'
    BY <1>1, <2>1 DEF PastHandled, Past
  <2> QED
    BY <2>1, <2>2, SkippedStays
<1>5. CASE Compare(p)
  <2>1. UNCHANGED <<state, mark>>
    BY <1>5 DEF Compare
  <2>2. CASE EndRun(p)
    BY <1>1, <2>1, <2>2, SkippedStays, EndsAtRest
  <2>3. CASE ~EndRun(p)
    <3>1. at'[p] = "yield" /\ todo'[p] = Feed[seen[p]] /\ UNCHANGED <<pos, seen>>
      BY <1>1, <1>5, <2>3 DEF Compare, Goto
    <3>2. PastHandled'
      BY <1>1, <3>1 DEF PastHandled, Past
    <3> QED
      BY <2>1, <3>2, SkippedStays
  <2> QED
    BY <2>2, <2>3
<1>6. CASE Yield(p)
  <2>1. PICK m \in todo[p] :
           /\ at[p] = "yield" /\ at'[p] = "await"
           /\ Submit(p, <<Source(p), m>>)
           /\ todo'[p] = todo[p] \ {m}
           /\ UNCHANGED <<state, mark, pos, seen>>
    BY <1>1, <1>6 DEF Yield, Goto
  <2>2. Source(p)' = Source(p) /\ Source(p) \in Pages
    BY <1>1, <2>1 DEF Source, Sourced
  <2>3. Handled(Source(p), m) \/ Waits(p, m)'
    <3>1. CASE <<Source(p), m>> \in Unsafe
      BY <3>1 DEF Handled
    <3>2. CASE <<Source(p), m>> \notin Unsafe
      <4>1. step'[p] = "reserve" /\ item'[p] = <<Source(p), m>>
        BY <1>1, <2>1, <3>2 DEF Submit
      <4> QED
        BY <2>1, <2>2, <4>1 DEF Waits
    <3> QED
      BY <3>1, <3>2
  <2>4. ASSUME NEW n \in Nat, Past(p, n)', n # m
        PROVE  Handled(Source(p), n)
    <3>1. Past(p, n)
      BY <2>1, <2>2, <2>4, CollectionOK DEF Past
    <3> QED
      BY <1>2, <2>1, <3>1 DEF Waits
  <2>5. PastHandled'
    BY <1>1, <1>3, <2>2, <2>3, <2>4 DEF PastHandled
  <2> QED
    BY <2>1, <2>5, SkippedStays
<1>7. CASE Exhausted(p)
  <2>1. /\ at[p] = "yield" /\ at'[p] = "remember" /\ todo[p] = {}
        /\ UNCHANGED <<state, mark, pos, seen, todo>>
    BY <1>1, <1>7 DEF Exhausted, Goto
  <2>2. Source(p)' = Source(p)
    BY <2>1 DEF Source
  <2>3. ASSUME NEW n \in Nat, Past(p, n)' PROVE Handled(Source(p), n)
    <3>1. Past(p, n)
      BY <2>1, <2>2, <2>3 DEF Past
    <3> QED
      BY <1>2, <2>1, <3>1 DEF Waits
  <2>4. PastHandled'
    BY <1>1, <1>3, <2>2, <2>3 DEF PastHandled
  <2> QED
    BY <2>1, <2>4, SkippedStays
<1>8. CASE Remember(p)
  <2>1. /\ at[p] = "remember" /\ at'[p] = "save" /\ Source(p) \in Pages
        /\ state' = [state EXCEPT ![Source(p)] = seen[p]]
        /\ UNCHANGED <<mark, pos>>
    BY <1>1, <1>8 DEF Remember, Goto, Sourced
  <2>2. Source(p)' = Source(p) /\ Source(p) \notin Channels
    BY <2>1, CollectionOK DEF Source
  <2>3. PastHandled'
    BY <1>1, <2>1, <2>2 DEF PastHandled, Past
  <2>4. seen[p] \in 1..Versions /\ Feed[seen[p]] \subseteq Nat
    BY <1>1, <2>1, CollectionOK DEF Sourced
  <2>5. \A n \in Feed[seen[p]] : Handled(Source(p), n)
    BY <1>2, <2>1, <2>4 DEF Past, Waits
  <2>6. \A s \in Pages : state'[s] = state[s] \/ (s = Source(p) /\ state'[s] = seen[p])
    BY <1>1, <2>1 DEF TypeOK
  <2>7. NothingSkipped'
    BY <1>3, <2>1, <2>5, <2>6 DEF NothingSkipped
  <2> QED
    BY <2>3, <2>7
<1> QED
  BY <1>4, <1>5, <1>6, <1>7, <1>8

\* A channel: every message up to the cursor is past when the checkpoint is
\* written.
LEMMA LoneChannel ==
    ASSUME Typed, Lone, NothingSkipped, PastHandled, Ever \subseteq Ever', NEW p \in Procs,
           Load(p) \/ Read(p) \/ ReadAll(p)
    PROVE  NothingSkipped' /\ PastHandled'
<1>1. /\ TypeOK /\ Sourced /\ \A q \in Procs : q = p
      /\ at \in [Procs -> RunSteps] /\ seen \in [Procs -> Nat]
      /\ step \in [Procs -> Steps] /\ item \in [Procs -> Items \cup {None}]
  BY DEF Typed, TypeOK, PipeTypeOK, Lone
<1>2. \A n \in Nat : Past(p, n) => Handled(Source(p), n) \/ Waits(p, n)
  BY DEF PastHandled
<1>3. \A s, n : Handled(s, n) => Handled(s, n)'
  BY DEF Handled
<1>4. UNCHANGED <<state, mark>>
  BY DEF Load, Read, ReadAll
<1>5. NothingSkipped'
  BY <1>4, SkippedStays
<1>6. CASE Load(p)
  <2>1. /\ at'[p] = "read" /\ seen'[p] = mark[Source(p)].cursor /\ Source(p)' = Source(p)
        /\ Source(p) \in Channels /\ Source(p) \notin Pages
    BY <1>1, <1>6, CollectionOK DEF Load, Goto, Source, Sourced
  <2>2. ASSUME NEW n \in Nat, Past(p, n)' PROVE Handled(Source(p), n)
    BY <2>1, <2>2 DEF Past, NothingSkipped
  <2>3. PastHandled'
    BY <1>1, <1>3, <2>1, <2>2 DEF PastHandled
  <2> QED
    BY <1>5, <2>3
<1>7. CASE Read(p)
  <2>1. PICK m \in Nat :
        /\ m = seen[p] + 1
        /\ at[p] = "read" /\ seen'[p] = m /\ Source(p)' = Source(p)
        /\ Source(p) \in Channels /\ Source(p) \notin Pages
    BY <1>1, <1>7, CollectionOK DEF Read, Goto, Source, Sourced
  <2>2. \/ m \in Blank /\ at'[p] = "save"
        \/ m \notin Blank /\ at'[p] = "await" /\ Submit(p, <<Source(p), m>>)
    BY <1>1, <1>7, <2>1 DEF Read, Goto
  <2>3. m \in Blank \/ Handled(Source(p), m) \/ Waits(p, m)'
    <3>1. CASE m \notin Blank /\ <<Source(p), m>> \notin Unsafe
      <4>1. step'[p] = "reserve" /\ item'[p] = <<Source(p), m>> /\ at'[p] = "await"
        BY <1>1, <2>2, <3>1 DEF Submit
      <4> QED
        BY <2>1, <4>1 DEF Waits
    <3> QED
      BY <3>1 DEF Handled
  <2>4. ASSUME NEW n \in Nat, Past(p, n)'
        PROVE  n \notin Blank /\ (n = m \/ Handled(Source(p), n))
    <3>1. n \in (1..Messages) \ Blank /\ n <= m
      BY <2>1, <2>4 DEF Past
    <3>2. n = m \/ n <= seen[p]
      BY <1>1, <2>1, <3>1
    <3>3. n <= seen[p] => Past(p, n)
      BY <2>1, <3>1 DEF Past
    <3> QED
      BY <1>2, <2>1, <3>1, <3>2, <3>3 DEF Waits
  <2>5. PastHandled'
    BY <1>1, <1>3, <2>1, <2>3, <2>4 DEF PastHandled
  <2> QED
    BY <1>5, <2>5
<1>8. CASE ReadAll(p)
  BY <1>1, <1>5, <1>8, EndsAtRest DEF ReadAll
<1> QED
  BY <1>6, <1>7, <1>8

\* The loop of collect-all, and the two calls that save a checkpoint.
LEMMA LoneLoop ==
    ASSUME Typed, Lone, NothingSkipped, PastHandled, Ever \subseteq Ever', NEW p \in Procs,
           BeginRun(p) \/ Await(p) \/ Save(p) \/ Write(p)
    PROVE  NothingSkipped' /\ PastHandled'
<1>1. /\ TypeOK /\ Sourced /\ \A q \in Procs : q = p
      /\ at \in [Procs -> RunSteps]
  BY DEF Typed, TypeOK, Lone
<1>2. \A n \in Nat : Past(p, n) => Handled(Source(p), n) \/ Waits(p, n)
  BY DEF PastHandled
<1>3. \A s, n : Handled(s, n) => Handled(s, n)'
  BY DEF Handled
<1>4. CASE BeginRun(p)
  <2>1. at'[p] \in {"fetch", "load"} /\ UNCHANGED <<state, mark>>
    BY <1>1, <1>4 DEF BeginRun, Goto
  <2>2. PastHandled'
    BY <1>1, <2>1 DEF PastHandled, Past
  <2> QED
    BY <2>1, <2>2, SkippedStays
<1>5. CASE Await(p) \/ Save(p)
  <2>1. UNCHANGED <<state, mark>>
    BY <1>5 DEF Await, Save
  <2>2. CASE EndRun(p)
    BY <1>1, <2>1, <2>2, SkippedStays, EndsAtRest
  <2>3. CASE ~EndRun(p)
    <3>1. /\ \/ /\ at[p] = "await" /\ step[p] = "idle" /\ outcome[p] # "raised"
                /\ at'[p] = IF Source(p) \in Pages THEN "yield" ELSE "save"
             \/ at[p] = "save" /\ at'[p] = "write"
          /\ UNCHANGED <<pos, seen, todo>>
      BY <1>1, <1>5, <2>3 DEF Await, Save, Goto
    <3>2. Source(p)' = Source(p) /\ ~\E n : Waits(p, n)
      BY <3>1 DEF Source, Waits
    <3>3. ASSUME NEW n \in Nat, Past(p, n)' PROVE Past(p, n)
      BY <3>1, <3>2, <3>3, CollectionOK DEF Past
    <3>4. PastHandled'
      BY <1>1, <1>2, <1>3, <3>2, <3>3 DEF PastHandled
    <3> QED
      BY <2>1, <3>4, SkippedStays
  <2> QED
    BY <2>2, <2>3
<1>6. CASE Write(p)
  <2>1. at[p] = "write" /\ UNCHANGED state /\ ~\E n : Waits(p, n)
    BY <1>6 DEF Write, Waits
  <2>2. \/ UNCHANGED mark
        \/ mark' = [mark EXCEPT ![Source(p)] = [cursor |-> seen[p], version |-> expect[p] + 1]]
    BY <1>6 DEF Write
  <2>3. \A s \in Channels : mark'[s] = mark[s] \/ (s = Source(p) /\ mark'[s].cursor = seen[p])
    BY <1>1, <2>2 DEF TypeOK
  <2>4. Source(p) \in Channels =>
          \A n \in (1..Messages) \ Blank : n <= seen[p] => Handled(Source(p), n)
    BY <1>2, <2>1 DEF Past
  <2>5. NothingSkipped'
    BY <1>3, <2>1, <2>3, <2>4 DEF NothingSkipped
  <2>6. CASE EndRun(p)
    BY <1>1, <2>5, <2>6, EndsAtRest
  <2>7. CASE ~EndRun(p)
    <3>1. at'[p] = "read" /\ UNCHANGED <<pos, seen>> /\ Source(p)' = Source(p)
      BY <1>1, <1>6, <2>7 DEF Write, Goto, Source
    <3>2. ASSUME NEW n \in Nat, Past(p, n)' PROVE Handled(Source(p), n)
      BY <2>4, <3>1, <3>2 DEF Past
    <3>3. PastHandled'
      BY <1>1, <1>3, <3>1, <3>2 DEF PastHandled
    <3> QED
      BY <2>5, <3>3
  <2> QED
    BY <2>6, <2>7
<1> QED
  BY <1>4, <1>5, <1>6

\* A step of the pipeline: the record it is about is still there, or the answer
\* is an error, or it was inserted.
LEMMA LoneCall ==
    ASSUME Typed, InsertedInv, PendingHasOwner, Lone, worst = "mild",
           NothingSkipped, PastHandled, Ever \subseteq Ever', NEW p \in Procs, InPipeline(p)
    PROVE  NothingSkipped' /\ PastHandled'
<1>1. /\ PipeTypeOK /\ Sourced /\ \A q \in Procs : q = p
      /\ UNCHANGED <<state, mark, runVars>> /\ (PipeStep(p) \/ PipeTrouble(p))
  BY DEF Typed, TypeOK, Lone, InPipeline
<1>2. /\ item[p] \in Items /\ step[p] # "idle" /\ at[p] = "await"
      /\ \/ step'[p] # "idle" /\ item'[p] = item[p]
         \/ step'[p] = "idle" /\ outcome'[p] = "raised"
         \/ step'[p] = "idle" /\ item[p] \in Ever
  BY <1>1, LoneCallEnds DEF Sourced
<1>3. Source(p)' = Source(p) /\ \A n : Past(p, n)' <=> Past(p, n)
  BY <1>1 DEF Source, Past, runVars
<1>4. \A s, n : Handled(s, n) => Handled(s, n)'
  BY DEF Handled
<1>5. ASSUME NEW n \in Nat, Past(p, n)' PROVE Handled(Source(p), n)' \/ Waits(p, n)'
  <2>1. CASE Handled(Source(p), n)
    BY <1>3, <1>4, <2>1
  <2>2. CASE item[p] = <<Source(p), n>>
    <3>1. item[p] \in Ever => Handled(Source(p), n)
      BY <2>2 DEF Handled
    <3> QED
      BY <1>1, <1>2, <1>3, <1>4, <2>2, <3>1 DEF Waits, runVars
  <2> QED
    BY <1>2, <1>3, <1>5, <2>1, <2>2 DEF PastHandled, Waits
<1>6. PastHandled'
  BY <1>1, <1>5 DEF PastHandled
<1> QED
  BY <1>1, <1>6, SkippedStays

\* What happens to a run and around it.
LEMMA LoneRest ==
    ASSUME Typed, Lone, NothingSkipped, PastHandled, Ever \subseteq Ever',
           \/ \E p \in Procs : RunFails(p) \/ PersistFails(p) \/ Crash(p)
           \/ \E i \in Items : StoreEvent(i)
           \/ (\E s \in Pages : Change(s) \/ StateExpires(s)) \/ (\E s \in Channels : Post(s))
           \/ UNCHANGED vars
    PROVE  NothingSkipped' /\ PastHandled'
<1>0. state \in [Pages -> 0..Versions]
  BY DEF Typed, TypeOK
<1>1. mark' = mark /\ \A s \in Pages : state'[s] \in {0, state[s]}
  BY <1>0 DEF RunFails, PersistFails, Crash, StoreEvent, Change, StateExpires, Post, vars
<1>2. ASSUME NEW p \in Procs, RunFails(p) \/ PersistFails(p) \/ Crash(p) PROVE PastHandled'
  <2>1. at \in [Procs -> RunSteps] /\ TypeOK
    BY DEF Typed, TypeOK
  <2>2. CASE RunFails(p)
    BY <2>1, <2>2, EndsAtRest DEF RunFails
  <2>3. CASE PersistFails(p) \/ Crash(p)
    <3>1. at'[p] = "rest"
      BY <2>1, <2>3 DEF PersistFails, Crash
    <3> QED
      BY <3>1, AtRest
  <2> QED
    BY <1>2, <2>2, <2>3
<1>3. ASSUME \/ \E i \in Items : StoreEvent(i)
             \/ (\E s \in Pages : Change(s) \/ StateExpires(s)) \/ (\E s \in Channels : Post(s))
             \/ UNCHANGED vars
      PROVE  PastHandled'
  <2>1. UNCHANGED <<at, pos, seen, todo, step, item, outcome>>
    BY <1>3 DEF StoreEvent, Change, StateExpires, Post, vars, runVars, pipeVars, calls,
                PipeSurroundings, KeyExpires, RawExpires, Forget
  <2> QED
    BY <2>1 DEF PastHandled, Past, Waits, Handled, Source
<1> QED
  BY <1>1, <1>2, <1>3, SkippedStays

\* With the invariants of Pipeline, LoneInv is inductive.
LEMMA LoneNext ==
    ASSUME Typed, InsertedInv, PendingHasOwner, Lone, LoneInv, [Next]_vars
    PROVE  LoneInv'
<1> SUFFICES ASSUME worst' = "mild" PROVE NothingSkipped' /\ PastHandled'
  BY DEF LoneInv
<1>1. PipeTypeOK /\ [PipeNext]_pipeVars
  BY UsesPipeline DEF Typed, TypeOK
<1>2. worst = "mild" /\ Ever \subseteq Ever'
  BY <1>1, WorstStays, EverGrows
<1>3. NothingSkipped /\ PastHandled
  BY <1>2 DEF LoneInv
<1>4. ASSUME NEW p \in Procs, RunStep(p) PROVE NothingSkipped' /\ PastHandled'
  BY <1>2, <1>3, <1>4, LonePage, LoneChannel, LoneLoop DEF RunStep
<1>5. ASSUME NEW p \in Procs, InPipeline(p) PROVE NothingSkipped' /\ PastHandled'
  BY <1>2, <1>3, <1>5, LoneCall
<1> QED
  BY <1>2, <1>3, <1>4, <1>5, LoneRest DEF Next

\* A process that collects alone never marks as handled what was neither
\* inserted nor rejected, whatever the sources, the feeds and the number of
\* MongoDB errors, failed fetches and expiries, while Redis answers and the
\* process lives.  With a second process this fails: a record that the other
\* has reserved is a duplicate, and the other may still give it up.
THEOREM LoneCollectorSkipsNothing ==
    ASSUME Lone
    PROVE  Spec => []HandledIsStored
<1>1. Init => LoneInv
  <2> SUFFICES ASSUME Init PROVE NothingSkipped /\ PastHandled
    BY DEF LoneInv
  <2>1. NothingSkipped
    BY CollectionOK DEF Init, NothingSkipped
  <2>2. PastHandled
    BY DEF Init, PastHandled, Past
  <2> QED
    BY <2>1, <2>2
<1>2. Typed /\ InsertedInv /\ PendingHasOwner /\ LoneInv /\ [Next]_vars => LoneInv'
  BY LoneNext
<1>3. LoneInv => HandledIsStored
  BY DEF LoneInv, HandledIsStored
<1> QED
  BY <1>1, <1>2, <1>3, AlwaysTyped, CollectionImplementsPipeline, AlwaysInserted,
     ReservationsHaveOwners, PTL DEF Spec
=============================================================================
