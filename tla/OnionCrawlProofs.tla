-------------------------- MODULE OnionCrawlProofs --------------------------
(***************************************************************************)
(* Proofs about OnionCrawl, for any service, depth and number of pages,    *)
(* any processes and disturbances: the order in which a run goes through   *)
(* the pages, what it has visited when it runs out of them, and what the   *)
(* content state says of them.                                             *)
(***************************************************************************)
EXTENDS OnionCrawl, PipelineProofs

RunSteps == {"rest", "pop", "fetch", "compare", "await", "remember", "save", "write"}
Spots == Urls \X (0..MaxDepth)

CrawlTypes ==
    /\ current \in [Urls -> 1..Versions] /\ \A u \in Urls \ Changing : current[u] = 1
    /\ state \in [Urls -> 0..Versions] /\ version \in Nat
    /\ at \in [Procs -> RunSteps]
    /\ queue \in [Procs -> Seq(Spots)] /\ visited \in [Procs -> SUBSET Urls]
    /\ here \in [Procs -> Spots] /\ seen \in [Procs -> 0..Versions]
    /\ expect \in [Procs -> Nat] /\ trail \in [Procs -> SUBSET Spots]

\* The deque q of a run at h, which visited v and expanded t, is sorted by depth
\* and spans no more than the depth of h and the next.  Nothing expanded is
\* deeper than h.  What an expanded page links to is visited or in the deque, at
\* one more than the depth of that page.
Breadth(q, v, h, t) ==
    /\ \A i, j \in 1..Len(q) : i < j => q[i][2] <= q[j][2]
    /\ \A i \in 1..Len(q) : h[2] <= q[i][2] /\ q[i][2] <= h[2] + 1
    /\ \A s \in t : s[2] <= h[2]
    /\ \A s \in t, u \in Urls : Linked(s[1], u) /\ s[2] < MaxDepth =>
          u \in v \/ \E i \in 1..Len(q) : q[i][1] = u /\ q[i][2] <= s[2] + 1
    /\ \A s, r \in t : Linked(s[1], r[1]) => r[2] <= s[2] + 1

\* The page a run is at is as near as every expanded page that links to it says.
Near(h, t) == \A s \in t : Linked(s[1], h[1]) => h[2] <= s[2] + 1

OfRun(p) ==
    /\ Breadth(queue[p], visited[p], here[p], trail[p])
    /\ at[p] = "rest" =>
          queue[p] = <<>> /\ visited[p] = {} /\ here[p] = Start /\ trail[p] = {}
    /\ at[p] \notin {"rest", "pop"} => Near(here[p], trail[p])
    /\ at[p] = "compare" => Page(p) \in Items
    /\ step[p] # "idle" => at[p] = "await"

CrawlInv == PipeTypeOK /\ CrawlTypes /\ \A p \in Procs : OfRun(p)
-----------------------------------------------------------------------------
(* The deque. *)

\* A run begins with the seed, and with nothing before that.
LEMMA BreadthBegins ==
    /\ Start \in Spots
    /\ Breadth(<<>>, {}, Start, {}) /\ Breadth(<<Start>>, {}, Start, {})
<1>1. Start \in Spots /\ Start[2] = 0
  BY CrawlOK DEF Start, Spots
<1>2. Breadth(<<>>, {}, Start, {})
  BY DEF Breadth
<1>3. Breadth(<<Start>>, {}, Start, {})
  BY <1>1 DEF Breadth
<1> QED
  BY <1>1, <1>2, <1>3

\* Its head is taken off when it was visited before ...
LEMMA PopSkips ==
    ASSUME NEW q \in Seq(Spots), NEW v, NEW h \in Spots, NEW t \in SUBSET Spots,
           Breadth(q, v, h, t), q # <<>>, Head(q)[1] \in v
    PROVE  Breadth(Tail(q), v, h, t)
<1>1. /\ Len(Tail(q)) = Len(q) - 1 /\ Len(q) \in Nat \ {0}
      /\ \A i \in 1..Len(Tail(q)) : i + 1 \in 1..Len(q) /\ Tail(q)[i] = q[i + 1]
      /\ Head(q) = q[1]
  OBVIOUS
<1>2. ASSUME NEW s \in t, NEW u \in Urls, Linked(s[1], u), s[2] < MaxDepth, u \notin v
      PROVE  \E i \in 1..Len(Tail(q)) : Tail(q)[i][1] = u /\ Tail(q)[i][2] <= s[2] + 1
  <2>1. PICK i \in 1..Len(q) : q[i][1] = u /\ q[i][2] <= s[2] + 1
    BY <1>2 DEF Breadth
  <2>2. i # 1
    BY <1>1, <1>2, <2>1
  <2>3. i - 1 \in 1..Len(Tail(q)) /\ Tail(q)[i - 1] = q[i]
    BY <1>1, <2>2
  <2> QED
    BY <2>1, <2>3
<1>3. /\ \A i, j \in 1..Len(Tail(q)) : i < j => Tail(q)[i][2] <= Tail(q)[j][2]
      /\ \A i \in 1..Len(Tail(q)) : h[2] <= Tail(q)[i][2] /\ Tail(q)[i][2] <= h[2] + 1
  <2>1. ASSUME NEW i \in 1..Len(Tail(q)), NEW j \in 1..Len(Tail(q)), i < j
        PROVE  Tail(q)[i][2] <= Tail(q)[j][2]
    <3>1. i + 1 < j + 1
      BY <2>1
    <3> QED
      BY <1>1, <3>1 DEF Breadth
  <2>2. ASSUME NEW i \in 1..Len(Tail(q))
        PROVE  h[2] <= Tail(q)[i][2] /\ Tail(q)[i][2] <= h[2] + 1
    BY <1>1 DEF Breadth
  <2> QED
    BY <2>1, <2>2
<1> QED
  BY <1>2, <1>3 DEF Breadth

\* ... and otherwise it is where the run goes.
LEMMA PopTakes ==
    ASSUME NEW q \in Seq(Spots), NEW v \in SUBSET Urls, NEW h \in Spots, NEW t \in SUBSET Spots,
           Breadth(q, v, h, t), q # <<>>, Head(q)[1] \notin v
    PROVE  /\ Head(q) \in Spots
           /\ Breadth(Tail(q), v \cup {Head(q)[1]}, Head(q), t) /\ Near(Head(q), t)
<1>1. /\ Len(Tail(q)) = Len(q) - 1 /\ Len(q) \in Nat \ {0}
      /\ \A i \in 1..Len(Tail(q)) : i + 1 \in 1..Len(q) /\ Tail(q)[i] = q[i + 1]
      /\ Head(q) = q[1] /\ q[1] \in Spots
  OBVIOUS
<1>2. /\ \A s \in Spots : s[1] \in Urls /\ s[2] \in Nat /\ s[2] <= MaxDepth
      /\ \A i \in 1..Len(q) : q[i] \in Spots
      /\ MaxDepth \in Nat
  BY CrawlOK DEF Spots
<1>3. \A i \in 1..Len(q) : q[1][2] <= q[i][2]
  BY <1>1, <1>2 DEF Breadth
<1>4. Near(Head(q), t)
  <2> SUFFICES ASSUME NEW s \in t, Linked(s[1], q[1][1]) PROVE q[1][2] <= s[2] + 1
    BY <1>1 DEF Near
  <2>1. CASE s[2] < MaxDepth
    <3>1. PICK i \in 1..Len(q) : q[i][2] <= s[2] + 1
      BY <1>1, <1>2, <2>1 DEF Breadth
    <3> QED
      BY <1>1, <1>2, <1>3, <3>1
  <2>2. CASE ~(s[2] < MaxDepth)
    BY <1>1, <1>2, <2>2
  <2> QED
    BY <2>1, <2>2
<1>5. ASSUME NEW s \in t, NEW u \in Urls, Linked(s[1], u), s[2] < MaxDepth,
             u \notin v \cup {q[1][1]}
      PROVE  \E i \in 1..Len(Tail(q)) : Tail(q)[i][1] = u /\ Tail(q)[i][2] <= s[2] + 1
  <2>1. PICK i \in 1..Len(q) : q[i][1] = u /\ q[i][2] <= s[2] + 1
    BY <1>5 DEF Breadth
  <2>2. i # 1
    BY <1>5, <2>1
  <2>3. i - 1 \in 1..Len(Tail(q)) /\ Tail(q)[i - 1] = q[i]
    BY <1>1, <2>2
  <2> QED
    BY <2>1, <2>3
<1>6. ASSUME NEW i \in 1..Len(Tail(q)), NEW j \in 1..Len(Tail(q)), i < j
      PROVE  Tail(q)[i][2] <= Tail(q)[j][2]
  <2>1. i + 1 < j + 1
    BY <1>6
  <2> QED
    BY <1>1, <2>1 DEF Breadth
<1>7. ASSUME NEW i \in 1..Len(Tail(q))
      PROVE  q[1][2] <= Tail(q)[i][2] /\ Tail(q)[i][2] <= q[1][2] + 1
  <2>1. Tail(q)[i][2] <= h[2] + 1 /\ h[2] <= q[1][2]
    BY <1>1 DEF Breadth
  <2> QED
    BY <1>1, <1>2, <1>3, <2>1
<1>8. \A s \in t : s[2] <= q[1][2]
  <2>1. h[2] <= q[1][2] /\ \A s \in t : s[2] <= h[2]
    BY <1>1 DEF Breadth
  <2> QED
    BY <1>1, <1>2, <2>1
<1>9. Breadth(Tail(q), v \cup {q[1][1]}, q[1], t)
  BY <1>5, <1>6, <1>7, <1>8 DEF Breadth
<1> QED
  BY <1>1, <1>4, <1>9

\* The links of the page are appended, unless it is as deep as a run goes.
LEMMA ExpandKeeps ==
    ASSUME NEW p \in Procs, queue[p] \in Seq(Spots), here[p] \in Spots,
           trail[p] \in SUBSET Spots,
           Breadth(queue[p], visited[p], here[p], trail[p]), Near(here[p], trail[p])
    PROVE  /\ queue[p] \o Children(p) \in Seq(Spots)
           /\ Breadth(queue[p] \o Children(p), visited[p], here[p], trail[p] \cup {here[p]})
<1> DEFINE q == queue[p]
           h == here[p]
           t == trail[p]
           c == Children(p)
           w == q \o c
<1>1. /\ h[1] \in Urls /\ h[2] \in 0..MaxDepth /\ MaxDepth \in Nat
      /\ \A s \in t : s[1] \in Urls /\ s[2] \in 0..MaxDepth
  BY CrawlOK DEF Spots
<1>2. /\ c \in Seq(Spots)
      /\ \A i \in 1..Len(c) : c[i][2] = h[2] + 1
      /\ \A u \in Urls : Linked(h[1], u) /\ h[2] < MaxDepth => \E i \in 1..Len(c) : c[i][1] = u
  <2>1. CASE h[2] < MaxDepth /\ h[1] \notin Plain
    <3>1. c = [i \in DOMAIN Links[h[1]] |-> <<Links[h[1]][i], h[2] + 1>>]
      BY <2>1 DEF Children, Url, Depth
    <3>2. /\ DOMAIN Links[h[1]] = 1..Len(Links[h[1]]) /\ Len(Links[h[1]]) \in Nat
          /\ \A i \in 1..Len(Links[h[1]]) : Links[h[1]][i] \in Urls
      <4>1. Links[h[1]] \in Seq(Urls)
        BY <1>1, CrawlOK
      <4> QED
        BY <4>1
    <3>3. h[2] + 1 \in 0..MaxDepth
      BY <1>1, <2>1
    <3> HIDE DEF c
    <3>4. c \in [1..Len(Links[h[1]]) -> Spots]
      BY <3>1, <3>2, <3>3 DEF Spots
    <3>5. c \in Seq(Spots) /\ Len(c) = Len(Links[h[1]])
      BY <3>2, <3>4
    <3>6. \A i \in 1..Len(c) : c[i] = <<Links[h[1]][i], h[2] + 1>>
      BY <3>1, <3>2, <3>5
    <3> QED
      BY <3>2, <3>5, <3>6 DEF Linked
  <2>2. CASE ~(h[2] < MaxDepth /\ h[1] \notin Plain)
    <3>1. c = <<>>
      BY <2>2 DEF Children, Url, Depth
    <3> HIDE DEF c
    <3> QED
      BY <2>2, <3>1 DEF Linked
  <2> QED
    BY <2>1, <2>2
<1> HIDE DEF c
<1>3. /\ w \in Seq(Spots) /\ Len(w) = Len(q) + Len(c) /\ Len(q) \in Nat /\ Len(c) \in Nat
      /\ \A i \in 1..Len(q) : i \in 1..Len(w) /\ w[i] = q[i]
      /\ \A i \in 1..Len(w) : i > Len(q) => i - Len(q) \in 1..Len(c) /\ w[i] = c[i - Len(q)]
      /\ \A i \in 1..Len(c) : Len(q) + i \in 1..Len(w) /\ w[Len(q) + i] = c[i]
  BY <1>2
<1> HIDE DEF w
<1>4. /\ \A i, j \in 1..Len(q) : i < j => q[i][2] <= q[j][2]
      /\ \A i \in 1..Len(q) : h[2] <= q[i][2] /\ q[i][2] <= h[2] + 1
      /\ \A s \in t : s[2] <= h[2]
      /\ \A s \in t, u \in Urls : Linked(s[1], u) /\ s[2] < MaxDepth =>
            u \in visited[p] \/ \E i \in 1..Len(q) : q[i][1] = u /\ q[i][2] <= s[2] + 1
      /\ \A s, r \in t : Linked(s[1], r[1]) => r[2] <= s[2] + 1
  BY DEF Breadth
<1>5. \A i \in 1..Len(w) : h[2] <= w[i][2] /\ w[i][2] <= h[2] + 1
  <2> SUFFICES ASSUME NEW i \in 1..Len(w) PROVE h[2] <= w[i][2] /\ w[i][2] <= h[2] + 1
    OBVIOUS
  <2>1. CASE i <= Len(q)
    <3>1. i \in 1..Len(q) /\ w[i] = q[i]
      BY <1>3, <2>1
    <3>2. h[2] <= q[i][2] /\ q[i][2] <= h[2] + 1
      BY <1>4, <3>1
    <3> QED
      BY <3>1, <3>2
  <2>2. CASE i > Len(q)
    <3>1. PICK k \in 1..Len(c) : w[i] = c[k]
      BY <1>3, <2>2
    <3>2. w[i][2] = h[2] + 1
      BY <1>2, <3>1
    <3> QED
      BY <1>1, <3>2
  <2> QED
    BY <1>3, <2>1, <2>2
<1>6. \A i, j \in 1..Len(w) : i < j => w[i][2] <= w[j][2]
  <2> SUFFICES ASSUME NEW i \in 1..Len(w), NEW j \in 1..Len(w), i < j
               PROVE  w[i][2] <= w[j][2]
    OBVIOUS
  <2>1. CASE j <= Len(q)
    <3>1. i \in 1..Len(q) /\ j \in 1..Len(q) /\ w[i] = q[i] /\ w[j] = q[j]
      BY <1>3, <2>1
    <3>2. q[i][2] <= q[j][2]
      BY <1>4, <3>1
    <3> QED
      BY <3>1, <3>2
  <2>2. CASE j > Len(q)
    <3>1. w[j][2] = h[2] + 1
      <4>1. PICK k \in 1..Len(c) : w[j] = c[k]
        BY <1>3, <2>2
      <4> QED
        BY <1>2, <4>1
    <3> QED
      BY <1>5, <3>1
  <2> QED
    BY <1>3, <2>1, <2>2
<1>7. \A s \in t \cup {h} : s[2] <= h[2]
  BY <1>1, <1>4
<1>8. ASSUME NEW s \in t \cup {h}, NEW u \in Urls, Linked(s[1], u), s[2] < MaxDepth,
             u \notin visited[p]
      PROVE  \E i \in 1..Len(w) : w[i][1] = u /\ w[i][2] <= s[2] + 1
  <2>1. CASE s \in t
    <3>1. PICK i \in 1..Len(q) : q[i][1] = u /\ q[i][2] <= s[2] + 1
      BY <1>4, <1>8, <2>1
    <3> QED
      BY <1>3, <3>1
  <2>2. CASE s = h
    <3>1. PICK i \in 1..Len(c) : c[i][1] = u /\ c[i][2] = h[2] + 1
      BY <1>2, <1>8, <2>2
    <3>2. Len(q) + i \in 1..Len(w) /\ w[Len(q) + i] = c[i]
      BY <1>3
    <3> QED
      BY <1>1, <2>2, <3>1, <3>2
  <2> QED
    BY <2>1, <2>2
<1>9. \A s, r \in t \cup {h} : Linked(s[1], r[1]) => r[2] <= s[2] + 1
  <2> SUFFICES ASSUME NEW s \in t \cup {h}, NEW r \in t \cup {h}, Linked(s[1], r[1])
               PROVE  r[2] <= s[2] + 1
    OBVIOUS
  <2>1. CASE s = h
    BY <1>1, <1>7, <2>1
  <2>2. CASE s \in t /\ r = h
    BY <2>2 DEF Near
  <2>3. CASE s \in t /\ r \in t
    BY <1>4, <2>3
  <2> QED
    BY <2>1, <2>2, <2>3
<1> HIDE DEF q, h, t
<1>10. Breadth(w, visited[p], h, t \cup {h})
  BY <1>5, <1>6, <1>7, <1>8, <1>9 DEF Breadth
<1> QED
  BY <1>3, <1>10 DEF w, q, h, t, c
-----------------------------------------------------------------------------
(* The runs. *)

\* A step leaves the other runs alone.
Alone(p) ==
    \A r \in Procs \ {p} :
        /\ at'[r] = at[r] /\ queue'[r] = queue[r] /\ visited'[r] = visited[r]
        /\ here'[r] = here[r] /\ seen'[r] = seen[r] /\ trail'[r] = trail[r]
        /\ step'[r] = step[r]

\* So what holds of the process that moved is all there is to show.
LEMMA CrawledByOne ==
    ASSUME CrawlInv, NEW p \in Procs, PipeTypeOK', CrawlTypes', OfRun(p)', Alone(p)
    PROVE  CrawlInv'
<1> SUFFICES ASSUME NEW r \in Procs \ {p} PROVE OfRun(r)'
  BY DEF CrawlInv
<1>1. OfRun(r)
  BY DEF CrawlInv
<1> QED
  BY <1>1 DEF Alone, OfRun, Page, Url

\* A run that ends is as one that has not begun.
LEMMA CrawlEnds ==
    ASSUME CrawlInv, NEW p \in Procs, EndRun(p), PipeTypeOK', step' = step, step[p] = "idle",
           UNCHANGED <<current, version>>, state' \in [Urls -> 0..Versions]
    PROVE  CrawlInv'
<1>1. /\ at' = [at EXCEPT ![p] = "rest"] /\ queue' = [queue EXCEPT ![p] = <<>>]
      /\ visited' = [visited EXCEPT ![p] = {}] /\ here' = [here EXCEPT ![p] = Start]
      /\ seen' = [seen EXCEPT ![p] = 0] /\ expect' = [expect EXCEPT ![p] = 0]
      /\ trail' = [trail EXCEPT ![p] = {}]
  BY DEF EndRun
<1>2. /\ Start \in Spots /\ Breadth(<<>>, {}, Start, {}) /\ <<>> \in Seq(Spots)
      /\ 0 \in 0..Versions /\ "rest" \in RunSteps
  BY BreadthBegins, CrawlOK DEF RunSteps
<1>3. CrawlTypes'
  BY <1>1, <1>2 DEF CrawlInv, CrawlTypes
<1>4. Alone(p)
  BY <1>1 DEF Alone, CrawlInv, CrawlTypes
<1>5. /\ at'[p] = "rest" /\ queue'[p] = <<>> /\ visited'[p] = {} /\ here'[p] = Start
      /\ trail'[p] = {} /\ step'[p] = "idle"
  BY <1>1 DEF CrawlInv, CrawlTypes
<1>6. OfRun(p)'
  BY <1>2, <1>5 DEF OfRun
<1> QED
  BY <1>3, <1>4, <1>6, CrawledByOne

\* A run that expands the page it is at.
LEMMA CrawlExpands ==
    ASSUME CrawlInv, NEW p \in Procs, NEW from \in RunSteps \ {"rest", "pop"}, Expand(p, from),
           PipeTypeOK', step' = step, step[p] = "idle",
           UNCHANGED <<current, state>>, version' \in Nat
    PROVE  CrawlInv'
<1>1. /\ at[p] = from /\ at' = [at EXCEPT ![p] = "pop"]
      /\ queue' = [queue EXCEPT ![p] = queue[p] \o Children(p)]
      /\ trail' = [trail EXCEPT ![p] = trail[p] \cup {here[p]}]
      /\ UNCHANGED <<visited, here, seen, expect>>
  BY DEF Expand, Goto
<1>2. /\ queue[p] \in Seq(Spots) /\ here[p] \in Spots /\ trail[p] \in SUBSET Spots
      /\ Breadth(queue[p], visited[p], here[p], trail[p]) /\ Near(here[p], trail[p])
  BY <1>1 DEF CrawlInv, CrawlTypes, OfRun
<1>3. /\ queue[p] \o Children(p) \in Seq(Spots)
      /\ Breadth(queue[p] \o Children(p), visited[p], here[p], trail[p] \cup {here[p]})
  BY <1>2, ExpandKeeps
<1>4. CrawlTypes'
  BY <1>1, <1>2, <1>3 DEF CrawlInv, CrawlTypes, RunSteps
<1>5. Alone(p)
  BY <1>1 DEF Alone, CrawlInv, CrawlTypes
<1>6. /\ at'[p] = "pop" /\ queue'[p] = queue[p] \o Children(p)
      /\ trail'[p] = trail[p] \cup {here[p]} /\ step'[p] = "idle"
  BY <1>1 DEF CrawlInv, CrawlTypes
<1>7. OfRun(p)'
  BY <1>1, <1>3, <1>6 DEF OfRun
<1> QED
  BY <1>4, <1>5, <1>7, CrawledByOne

\* A step that moves a run on without touching its deque.
LEMMA CrawlMoves ==
    ASSUME CrawlInv, NEW p \in Procs, NEW to \in RunSteps \ {"rest"},
           at' = [at EXCEPT ![p] = to], at[p] \in RunSteps \ {"rest", "pop"},
           UNCHANGED <<queue, visited, here, trail>>, PipeTypeOK',
           CrawlTypes', to = "compare" => Page(p)' \in Items,
           \A r \in Procs \ {p} : seen'[r] = seen[r] /\ step'[r] = step[r],
           step'[p] = "idle" \/ to = "await"
    PROVE  CrawlInv'
<1>1. Alone(p) /\ at'[p] = to
  BY DEF Alone, CrawlInv, CrawlTypes
<1>2. OfRun(p)'
  BY <1>1 DEF CrawlInv, OfRun
<1> QED
  BY <1>1, <1>2, CrawledByOne

\* The steps of _collect.
LEMMA CrawlRunStep ==
    ASSUME CrawlInv, NEW p \in Procs, RunStep(p)
    PROVE  CrawlInv'
<1>1. /\ PipeTypeOK /\ CrawlTypes /\ OfRun(p)
      /\ at[p] \in RunSteps /\ queue[p] \in Seq(Spots) /\ here[p] \in Spots
      /\ visited[p] \in SUBSET Urls /\ trail[p] \in SUBSET Spots
  BY DEF CrawlInv, CrawlTypes
<1>2. UNCHANGED pipeVars => PipeTypeOK' /\ step' = step
  BY <1>1 DEF pipeVars, keys, calls, trouble, PipeTypeOK
<1>3. at[p] # "await" => step[p] = "idle"
  BY <1>1 DEF OfRun
<1>4. CASE BeginRun(p)
  <2>1. /\ at[p] = "rest" /\ at' = [at EXCEPT ![p] = "pop"]
        /\ queue' = [queue EXCEPT ![p] = <<Start>>]
        /\ UNCHANGED <<pipeVars, current, state, version, visited, here, seen, expect, trail>>
    BY <1>4 DEF BeginRun, Goto
  <2>2. Start \in Spots /\ Breadth(<<Start>>, {}, Start, {}) /\ <<Start>> \in Seq(Spots)
    BY BreadthBegins
  <2>3. CrawlTypes' /\ Alone(p)
    BY <1>1, <1>2, <2>1, <2>2 DEF CrawlTypes, Alone, RunSteps
  <2>4. at'[p] = "pop" /\ queue'[p] = <<Start>>
    BY <1>1, <2>1 DEF CrawlTypes
  <2>5. OfRun(p)'
    BY <1>1, <1>2, <1>3, <2>1, <2>2, <2>4 DEF OfRun
  <2> QED
    BY <1>2, <2>1, <2>3, <2>5, CrawledByOne
<1>5. CASE Pop(p)
  <2>1. /\ at[p] = "pop" /\ queue[p] # <<>> /\ queue' = [queue EXCEPT ![p] = Tail(queue[p])]
        /\ UNCHANGED <<pipeVars, current, state, version, seen, expect, trail>>
    BY <1>5 DEF Pop, MayVisit
  <2>2. Tail(queue[p]) \in Seq(Spots) /\ queue'[p] = Tail(queue[p])
    BY <1>1, <2>1 DEF CrawlTypes
  <2>3. Breadth(queue[p], visited[p], here[p], trail[p])
    BY <1>1 DEF OfRun
  <2>4. CASE Head(queue[p])[1] \in visited[p]
    <3>1. UNCHANGED <<at, visited, here>>
      BY <1>5, <2>4 DEF Pop
    <3>2. Breadth(Tail(queue[p]), visited[p], here[p], trail[p])
      BY <1>1, <2>1, <2>3, <2>4, PopSkips
    <3>3. CrawlTypes' /\ Alone(p)
      BY <1>1, <1>2, <2>1, <2>2, <3>1 DEF CrawlTypes, Alone
    <3>4. OfRun(p)'
      BY <1>2, <1>3, <2>1, <2>2, <3>1, <3>2 DEF OfRun
    <3> QED
      BY <1>2, <2>1, <3>3, <3>4, CrawledByOne
  <2>5. CASE Head(queue[p])[1] \notin visited[p]
    <3>1. PICK spot : spot = Head(queue[p])
      OBVIOUS
    <3>2. /\ at' = [at EXCEPT ![p] = "fetch"] /\ here' = [here EXCEPT ![p] = spot]
          /\ visited' = [visited EXCEPT ![p] = visited[p] \cup {spot[1]}]
      BY <1>5, <2>5, <3>1 DEF Pop, Goto
    <3>3. /\ spot \in Spots /\ Near(spot, trail[p])
          /\ Breadth(Tail(queue[p]), visited[p] \cup {spot[1]}, spot, trail[p])
      BY <1>1, <2>1, <2>3, <2>5, <3>1, PopTakes
    <3>4. spot[1] \in Urls
      BY <3>3 DEF Spots
    <3>5. CrawlTypes' /\ Alone(p)
      BY <1>1, <1>2, <2>1, <2>2, <3>2, <3>3, <3>4 DEF CrawlTypes, Alone, RunSteps
    <3>6. at'[p] = "fetch" /\ here'[p] = spot /\ visited'[p] = visited[p] \cup {spot[1]}
      BY <1>1, <3>2 DEF CrawlTypes
    <3>7. OfRun(p)'
      BY <1>2, <1>3, <2>1, <2>2, <3>3, <3>6 DEF OfRun
    <3> QED
      BY <1>2, <2>1, <3>5, <3>7, CrawledByOne
  <2> QED
    BY <2>4, <2>5
<1>6. CASE Finish(p)
  BY <1>1, <1>2, <1>3, <1>6, CrawlEnds DEF Finish, CrawlTypes
<1>7. CASE Fetch(p)
  <2>1. PICK to \in {"pop", "compare"} : at[p] = "fetch" /\ at' = [at EXCEPT ![p] = to]
    BY <1>7 DEF Fetch, Goto
  <2>2. /\ seen' = [seen EXCEPT ![p] = current[Url(p)]]
        /\ UNCHANGED <<pipeVars, current, state, version, queue, visited, here, expect, trail>>
    BY <1>7 DEF Fetch
  <2>3. /\ Url(p) \in Urls /\ current[Url(p)] \in 1..Versions /\ Versions \in Nat
        /\ current[Url(p)] = 1 \/ Url(p) \in Changing
    BY <1>1, CrawlOK DEF Url, Spots, CrawlTypes
  <2>4. CrawlTypes' /\ \A r \in Procs \ {p} : seen'[r] = seen[r]
    BY <1>1, <2>1, <2>2, <2>3 DEF CrawlTypes, RunSteps
  <2>5. Page(p)' = <<Url(p), current[Url(p)]>>
    BY <1>1, <2>2 DEF Page, Url, CrawlTypes
  <2>6. Page(p)' \in Items
    BY <2>3, <2>5, CrawlOK
  <2>7. to \in RunSteps \ {"rest"} /\ at[p] \in RunSteps \ {"rest", "pop"}
    BY <2>1 DEF RunSteps
  <2> QED
    BY <1>2, <1>3, <2>1, <2>2, <2>4, <2>6, <2>7, CrawlMoves
<1>8. CASE Compare(p)
  <2>1. at[p] = "compare" /\ UNCHANGED <<current, state, version>>
    BY <1>8 DEF Compare
  <2>2. CASE state[Url(p)] = seen[p]
    <3>1. Expand(p, "compare") /\ UNCHANGED pipeVars /\ "compare" \in RunSteps \ {"rest", "pop"}
      BY <1>8, <2>2 DEF Compare, RunSteps
    <3>2. version' \in Nat
      BY <1>1, <2>1 DEF CrawlTypes
    <3> QED
      BY <1>2, <1>3, <2>1, <3>1, <3>2, CrawlExpands
  <2>3. CASE state[Url(p)] # seen[p]
    <3>1. /\ at' = [at EXCEPT ![p] = "await"] /\ Submit(p, Page(p))
          /\ UNCHANGED <<queue, visited, here, seen, expect, trail>>
      BY <1>8, <2>3 DEF Compare, Goto
    <3>2. Page(p) \in Items
      BY <1>1, <2>1 DEF OfRun
    <3>3. PipeTypeOK' /\ \A r \in Procs \ {p} : step'[r] = step[r]
      <4>1. PipeTypeOK'
        BY <1>1, <3>1, <3>2, TypeStep
      <4>2. \A r \in Procs \ {p} : step'[r] = step[r]
        BY <1>1, <3>1 DEF Submit, PipeTypeOK
      <4> QED
        BY <4>1, <4>2
    <3>4. CrawlTypes' /\ "await" \in RunSteps \ {"rest"} /\ at[p] \in RunSteps \ {"rest", "pop"}
      BY <1>1, <2>1, <3>1 DEF CrawlTypes, RunSteps
    <3> QED
      BY <3>1, <3>3, <3>4, CrawlMoves
  <2> QED
    BY <2>2, <2>3
<1>9. CASE Await(p)
  <2>1. /\ at[p] = "await" /\ step[p] = "idle" /\ UNCHANGED <<pipeVars, current, state, version>>
    BY <1>9 DEF Await
  <2>2. CASE outcome[p] = "raised"
    BY <1>1, <1>2, <1>9, <2>1, <2>2, CrawlEnds DEF Await, CrawlTypes
  <2>3. CASE outcome[p] # "raised"
    <3>1. /\ at' = [at EXCEPT ![p] = "remember"]
          /\ UNCHANGED <<queue, visited, here, seen, expect, trail>>
      BY <1>9, <2>3 DEF Await, Goto
    <3>2. /\ CrawlTypes' /\ "remember" \in RunSteps \ {"rest"}
          /\ at[p] \in RunSteps \ {"rest", "pop"}
      BY <1>1, <2>1, <3>1 DEF CrawlTypes, RunSteps
    <3> QED
      BY <1>2, <2>1, <3>1, <3>2, CrawlMoves
  <2> QED
    BY <2>2, <2>3
<1>10. CASE Remember(p)
  <2>1. /\ at[p] = "remember" /\ at' = [at EXCEPT ![p] = "save"]
        /\ state' = [state EXCEPT ![Url(p)] = seen[p]]
        /\ UNCHANGED <<pipeVars, current, version, queue, visited, here, seen, expect, trail>>
    BY <1>10 DEF Remember, Goto
  <2>2. /\ CrawlTypes' /\ "save" \in RunSteps \ {"rest"} /\ at[p] \in RunSteps \ {"rest", "pop"}
    BY <1>1, <2>1 DEF CrawlTypes, RunSteps
  <2> QED
    BY <1>2, <1>3, <2>1, <2>2, CrawlMoves
<1>11. CASE Save(p)
  <2>1. /\ at[p] = "save" /\ at' = [at EXCEPT ![p] = "write"]
        /\ expect' = [expect EXCEPT ![p] = version]
        /\ UNCHANGED <<pipeVars, current, state, version, queue, visited, here, seen, trail>>
    BY <1>11 DEF Save, Goto
  <2>2. CrawlTypes' /\ "write" \in RunSteps \ {"rest"} /\ at[p] \in RunSteps \ {"rest", "pop"}
    BY <1>1, <2>1 DEF CrawlTypes, RunSteps
  <2> QED
    BY <1>2, <1>3, <2>1, <2>2, CrawlMoves
<1>12. CASE Write(p)
  <2>1. at[p] = "write" /\ UNCHANGED <<pipeVars, current, state>> /\ expect[p] \in Nat
    BY <1>1, <1>12 DEF Write, CrawlTypes
  <2>2. CASE expect[p] > 0
    BY <1>1, <1>2, <1>3, <1>12, <2>1, <2>2, CrawlEnds DEF Write, CrawlTypes
  <2>3. CASE ~(expect[p] > 0)
    <3>1. Expand(p, "write") /\ version' \in Nat /\ "write" \in RunSteps \ {"rest", "pop"}
      BY <1>12, <2>1, <2>3 DEF Write, RunSteps
    <3> QED
      BY <1>2, <1>3, <2>1, <3>1, CrawlExpands
  <2> QED
    BY <2>2, <2>3
<1> QED
  BY <1>4, <1>5, <1>6, <1>7, <1>8, <1>9, <1>10, <1>11, <1>12 DEF RunStep

\* What else happens: to a run, to the stores and to the service.
LEMMA CrawlRest ==
    ASSUME CrawlInv, PipeTypeOK',
           \/ \E p \in Procs : InPipeline(p) \/ FetchFails(p) \/ RunFails(p) \/ Crash(p)
           \/ \E i \in Items : StoreEvent(i)
           \/ \E u \in Urls : Change(u) \/ StateExpires(u)
           \/ UNCHANGED vars
    PROVE  CrawlInv'
<1>1. PipeTypeOK /\ CrawlTypes /\ \A p \in Procs : OfRun(p)
  BY DEF CrawlInv
<1>2. ASSUME NEW p \in Procs, InPipeline(p) PROVE CrawlInv'
  <2>1. CrawlTypes' /\ UNCHANGED runVars
    BY <1>1, <1>2 DEF InPipeline, runVars, CrawlTypes
  <2>2. step[p] # "idle" /\ \A r \in Procs \ {p} : step'[r] = step[r]
    BY <1>1, <1>2 DEF InPipeline, PipeStep, PipeTrouble, Reserve, Publish, Release, Settle,
                      Commit, ReserveFails, PublishFails, ReleaseFails, SettleFails,
                      CommitFails, Proceed, Return, PipeTypeOK
  <2>3. OfRun(p)' /\ Alone(p)
    BY <1>1, <2>1, <2>2 DEF OfRun, Alone, runVars, Page, Url
  <2> QED
    BY <2>1, <2>3, CrawledByOne
<1>3. ASSUME NEW p \in Procs, FetchFails(p) \/ RunFails(p) PROVE CrawlInv'
  <2>1. /\ step' = step /\ step[p] = "idle" /\ UNCHANGED <<current, state, version>>
    BY <1>1, <1>3 DEF FetchFails, RunFails, calls, OfRun
  <2>2. CASE EndRun(p)
    BY <1>1, <2>1, <2>2, CrawlEnds DEF CrawlTypes
  <2>3. CASE ~EndRun(p)
    <3>1. /\ at[p] = "fetch" /\ at' = [at EXCEPT ![p] = "pop"]
          /\ UNCHANGED <<queue, visited, here, seen, expect, trail>>
      BY <1>3, <2>3 DEF FetchFails, RunFails, Goto
    <3>2. CrawlTypes' /\ "pop" \in RunSteps \ {"rest"} /\ at[p] \in RunSteps \ {"rest", "pop"}
      BY <1>1, <2>1, <3>1 DEF CrawlTypes, RunSteps
    <3> QED
      BY <2>1, <3>1, <3>2, CrawlMoves
  <2> QED
    BY <2>2, <2>3
<1>4. ASSUME NEW p \in Procs, Crash(p) PROVE CrawlInv'
  <2>1. /\ at' = [at EXCEPT ![p] = "rest"] /\ queue' = [queue EXCEPT ![p] = <<>>]
        /\ visited' = [visited EXCEPT ![p] = {}] /\ here' = [here EXCEPT ![p] = Start]
        /\ seen' = [seen EXCEPT ![p] = 0] /\ expect' = [expect EXCEPT ![p] = 0]
        /\ trail' = [trail EXCEPT ![p] = {}] /\ step' = [step EXCEPT ![p] = "idle"]
        /\ UNCHANGED <<current, state, version>>
    BY <1>4 DEF Crash, EndRun, Die
  <2>2. /\ Start \in Spots /\ Breadth(<<>>, {}, Start, {}) /\ <<>> \in Seq(Spots)
        /\ 0 \in 0..Versions /\ "rest" \in RunSteps
    BY BreadthBegins, CrawlOK DEF RunSteps
  <2>3. CrawlTypes'
    BY <1>1, <2>1, <2>2 DEF CrawlTypes
  <2>4. Alone(p)
    BY <1>1, <2>1 DEF Alone, CrawlTypes, PipeTypeOK
  <2>5. /\ at'[p] = "rest" /\ queue'[p] = <<>> /\ visited'[p] = {} /\ here'[p] = Start
        /\ trail'[p] = {} /\ step'[p] = "idle"
    BY <1>1, <2>1 DEF CrawlTypes, PipeTypeOK
  <2>6. OfRun(p)'
    BY <2>2, <2>5 DEF OfRun
  <2> QED
    BY <2>3, <2>4, <2>6, CrawledByOne
<1>5. ASSUME \/ \E i \in Items : StoreEvent(i)
             \/ \E u \in Urls : Change(u) \/ StateExpires(u)
             \/ UNCHANGED vars
      PROVE  CrawlInv'
  <2>1. UNCHANGED <<version, at, queue, visited, here, seen, expect, trail, step>>
    BY <1>5 DEF StoreEvent, Change, StateExpires, PipeSurroundings, KeyExpires, RawExpires,
                Forget, calls, pipeVars, runVars, vars
  <2>2. /\ current' \in [Urls -> 1..Versions] /\ \A u \in Urls \ Changing : current'[u] = 1
        /\ state' \in [Urls -> 0..Versions]
    <3>1. /\ current \in [Urls -> 1..Versions] /\ \A u \in Urls \ Changing : current[u] = 1
          /\ state \in [Urls -> 0..Versions]
      BY <1>1 DEF CrawlTypes
    <3>2. CASE UNCHANGED <<current, state>>
      BY <3>1, <3>2
    <3>3. ASSUME NEW u \in Urls, Change(u)
           PROVE  /\ current' \in [Urls -> 1..Versions]
                  /\ \A w \in Urls \ Changing : current'[w] = 1
                  /\ state' \in [Urls -> 0..Versions]
      <4>1. current[u] + 1 \in 1..Versions
        BY <3>1, <3>3, CrawlOK DEF Change
      <4> QED
        BY <3>1, <3>3, <4>1 DEF Change
    <3>4. ASSUME NEW u \in Urls, StateExpires(u)
           PROVE  /\ current' \in [Urls -> 1..Versions]
                  /\ \A w \in Urls \ Changing : current'[w] = 1
                  /\ state' \in [Urls -> 0..Versions]
      BY <3>1, <3>4, CrawlOK DEF StateExpires
    <3> QED
      BY <1>5, <3>2, <3>3, <3>4 DEF StoreEvent, vars
  <2>3. CrawlTypes'
    BY <1>1, <2>1, <2>2 DEF CrawlTypes
  <2>4. \A p \in Procs : OfRun(p)'
    BY <1>1, <2>1 DEF OfRun, Page, Url
  <2> QED
    BY <2>3, <2>4 DEF CrawlInv
<1> QED
  BY <1>2, <1>3, <1>4, <1>5

\* A crawl submits pages it has, the rest of the pipeline is as in Pipeline.
LEMMA CrawlUsesPipeline ==
    ASSUME CrawlInv, [Next]_vars
    PROVE  [PipeNext]_pipeVars
<1>1. CASE UNCHANGED vars
  BY <1>1 DEF vars
<1>2. ASSUME NEW p \in Procs, Compare(p)
      PROVE  UNCHANGED pipeVars \/ \E i \in Items : Submit(p, i)
  <2>1. Page(p) \in Items
    BY <1>2 DEF Compare, CrawlInv, OfRun
  <2> QED
    BY <1>2, <2>1 DEF Compare
<1>3. ASSUME NEW p \in Procs, RunStep(p)
      PROVE  UNCHANGED pipeVars \/ \E i \in Items : Submit(p, i)
  BY <1>2, <1>3 DEF RunStep, BeginRun, Pop, Finish, Fetch, Await, Remember, Save, Write
<1>4. ASSUME \/ \E p \in Procs : FetchFails(p) \/ RunFails(p)
             \/ \E u \in Urls : StateExpires(u)
      PROVE  Elsewhere
  BY <1>4 DEF FetchFails, RunFails, StateExpires, Elsewhere
<1>5. ASSUME NEW p \in Procs, InPipeline(p) \/ Crash(p)
      PROVE  PipeStep(p) \/ PipeTrouble(p) \/ Die(p)
  BY <1>5 DEF InPipeline, Crash
<1>6. ASSUME NEW i \in Items, StoreEvent(i)
      PROVE  PipeSurroundings(i)
  BY <1>6 DEF StoreEvent
<1>7. ASSUME NEW u \in Urls, Change(u)
      PROVE  UNCHANGED pipeVars
  BY <1>7 DEF Change
<1> QED
  BY <1>1, <1>3, <1>4, <1>5, <1>6, <1>7 DEF Next, PipeNext

\* CrawlInv is inductive.
LEMMA CrawlNext ==
    ASSUME CrawlInv, [Next]_vars
    PROVE  CrawlInv'
<1>1. PipeTypeOK'
  BY CrawlUsesPipeline, TypeNext DEF CrawlInv
<1> QED
  BY <1>1, CrawlRunStep, CrawlRest DEF Next

\* It holds at the start, of a process at rest.
LEMMA AlwaysCrawl == Spec => []CrawlInv
<1>1. Init => CrawlInv
  <2> SUFFICES ASSUME Init PROVE CrawlInv
    OBVIOUS
  <2>1. PipeTypeOK /\ \A p \in Procs : step[p] = "idle"
    BY ConstantsOK DEF Init, PipeInit, PipeTypeOK, Steps, Outcomes
  <2>2. Start \in Spots /\ Breadth(<<>>, {}, Start, {})
    BY BreadthBegins
  <2>3. CrawlTypes
    BY <2>2, CrawlOK DEF Init, CrawlTypes, RunSteps
  <2>4. \A p \in Procs : OfRun(p)
    BY <2>1, <2>2 DEF Init, OfRun
  <2> QED
    BY <2>1, <2>3, <2>4 DEF CrawlInv
<1> QED
  BY <1>1, CrawlNext, PTL DEF Spec

\* Each step of a crawl is a step of the pipeline, or leaves it alone, so what
\* PipelineProofs shows of ingestion/pipeline.py holds of onion collection.
THEOREM OnionCrawlImplementsPipeline == Spec => PipeSpec
<1>1. Init => PipeInit
  BY DEF Init
<1> QED
  BY <1>1, AlwaysCrawl, CrawlUsesPipeline, PTL DEF Spec, PipeSpec

\* Whatever fetches fail and however often the run ends early: no page is
\* expanded deeper than one below an expanded page that links to it
\* (collectors/onion.py, the deque of _collect).
THEOREM CrawlGoesBreadthFirst == Spec => []NearestFirst
<1>1. CrawlInv => NearestFirst
  BY DEF CrawlInv, OfRun, Breadth, NearestFirst
<1> QED
  BY <1>1, AlwaysCrawl, PTL

\* A run that stops for want of pages, not for MaxPages, has visited all that
\* the pages it expanded link to within the depth: the reviewed scope.
THEOREM CrawlExhaustsScope == Spec => []ScopeExhausted
<1>1. CrawlInv => ScopeExhausted
  <2> SUFFICES ASSUME CrawlInv, NEW p \in Procs, queue[p] = <<>>,
                      NEW s \in trail[p], s[2] < MaxDepth, NEW v \in Urls, Linked(s[1], v)
               PROVE  v \in visited[p]
    BY DEF ScopeExhausted
  <2>1. v \in visited[p] \/ \E i \in 1..Len(queue[p]) : TRUE
    BY DEF CrawlInv, OfRun, Breadth
  <2> QED
    BY <2>1
<1> QED
  BY <1>1, AlwaysCrawl, PTL
-----------------------------------------------------------------------------
(* A process that crawls alone. *)

\* The page is in the pipeline, or an error came back, which ends the run.
Waits(p) == IF step[p] = "idle" THEN outcome[p] = "raised" ELSE item[p] = Page(p)

Remembered == \A u \in Urls : state[u] # 0 => Handled(<<u, state[u]>>)
Submitted ==
    \A p \in Procs :
        /\ at[p] = "await" => Handled(Page(p)) \/ Waits(p)
        /\ at[p] = "remember" => Handled(Page(p))

\* Why HandledIsStored holds: the content state is written when the pipeline has
\* answered for the page.
LoneInv == worst = "mild" => Remembered /\ Submitted

\* What is handled stays so, and content states are only forgotten.
LEMMA RememberedStays ==
    ASSUME Remembered, Ever \subseteq Ever', \A u \in Urls : state'[u] \in {0, state[u]}
    PROVE  Remembered'
BY DEF Remembered, Handled

\* The steps of _collect.
LEMMA LoneRunStep ==
    ASSUME CrawlInv, Lone, Remembered, Submitted, Ever \subseteq Ever', NEW p \in Procs,
           RunStep(p)
    PROVE  Remembered' /\ Submitted'
<1>1. /\ \A r \in Procs : r = p
      /\ at \in [Procs -> RunSteps] /\ state \in [Urls -> 0..Versions]
      /\ here \in [Procs -> Spots]
      /\ step \in [Procs -> Steps] /\ item \in [Procs -> Items \cup {None}]
  BY DEF CrawlInv, CrawlTypes, PipeTypeOK, Lone
<1>2. \A i : Handled(i) => Handled(i)'
  BY DEF Handled
<1>3. CASE at'[p] \notin {"await", "remember"} /\ UNCHANGED state
  BY <1>1, <1>3, RememberedStays DEF Submitted
<1>4. CASE Compare(p) /\ at'[p] = "await"
  <2>1. Submit(p, Page(p)) /\ UNCHANGED <<state, here, seen>>
    BY <1>1, <1>4 DEF Compare, Expand, Goto
  <2>2. Page(p)' = Page(p)
    BY <2>1 DEF Page, Url
  <2>3. Handled(Page(p)) \/ Waits(p)'
    <3>1. CASE Page(p) \in Unsafe
      BY <3>1 DEF Handled
    <3>2. CASE Page(p) \notin Unsafe
      <4>1. step'[p] = "reserve" /\ item'[p] = Page(p)
        BY <1>1, <2>1, <3>2 DEF Submit
      <4> QED
        BY <2>2, <4>1 DEF Waits
    <3> QED
      BY <3>1, <3>2
  <2>4. Submitted'
    BY <1>1, <1>2, <1>4, <2>2, <2>3 DEF Submitted
  <2> QED
    BY <2>1, <2>4, RememberedStays
<1>5. CASE Await(p) /\ at'[p] = "remember"
  <2>1. /\ at[p] = "await" /\ step[p] = "idle" /\ outcome[p] # "raised"
        /\ UNCHANGED <<state, here, seen>>
    BY <1>1, <1>5 DEF Await, EndRun
  <2>2. Page(p)' = Page(p)
    BY <2>1 DEF Page, Url
  <2>3. Handled(Page(p))
    BY <2>1 DEF Submitted, Waits
  <2>4. Submitted'
    BY <1>1, <1>2, <1>5, <2>2, <2>3 DEF Submitted
  <2> QED
    BY <2>1, <2>4, RememberedStays
<1>6. CASE Remember(p)
  <2>1. /\ at[p] = "remember" /\ at'[p] = "save"
        /\ state' = [state EXCEPT ![Url(p)] = seen[p]]
    BY <1>1, <1>6 DEF Remember, Goto
  <2>2. Handled(<<Url(p), seen[p]>>)
    BY <2>1 DEF Submitted, Page
  <2>3. \A u \in Urls : state'[u] = state[u] \/ (u = Url(p) /\ state'[u] = seen[p])
    BY <1>1, <2>1
  <2>4. Remembered'
    BY <1>2, <2>2, <2>3 DEF Remembered
  <2>5. Submitted'
    BY <1>1, <2>1 DEF Submitted
  <2> QED
    BY <2>4, <2>5
<1>7. \/ at'[p] \notin {"await", "remember"} /\ UNCHANGED state
      \/ Compare(p) /\ at'[p] = "await"
      \/ Await(p) /\ at'[p] = "remember"
      \/ Remember(p)
  <2>1. CASE BeginRun(p) \/ Finish(p) \/ Fetch(p) \/ Save(p) \/ Write(p)
    BY <1>1, <2>1 DEF BeginRun, Finish, Fetch, Save, Write, Goto, EndRun, Expand
  <2>2. CASE Pop(p)
    BY <1>1, <2>2 DEF Pop, Goto
  <2>3. CASE Compare(p)
    BY <1>1, <2>3 DEF Compare, Goto, Expand
  <2>4. CASE Await(p)
    BY <1>1, <2>4 DEF Await, Goto, EndRun
  <2> QED
    BY <2>1, <2>2, <2>3, <2>4 DEF RunStep
<1> QED
  BY <1>3, <1>4, <1>5, <1>6, <1>7

\* A step of the pipeline.
LEMMA LoneCall ==
    ASSUME CrawlInv, InsertedInv, PendingHasOwner, Lone, worst = "mild",
           Remembered, Submitted, Ever \subseteq Ever', NEW p \in Procs, InPipeline(p)
    PROVE  Remembered' /\ Submitted'
<1>1. /\ PipeTypeOK /\ \A r \in Procs : r = p
      /\ UNCHANGED <<state, runVars>> /\ (PipeStep(p) \/ PipeTrouble(p))
  BY DEF CrawlInv, Lone, InPipeline
<1>2. /\ item[p] \in Items /\ step[p] # "idle" /\ at[p] = "await"
      /\ \/ step'[p] # "idle" /\ item'[p] = item[p]
         \/ step'[p] = "idle" /\ outcome'[p] = "raised"
         \/ step'[p] = "idle" /\ item[p] \in Ever
  BY <1>1, LoneCallEnds DEF CrawlInv, OfRun
<1>3. Page(p)' = Page(p) /\ at'[p] = "await"
  BY <1>1, <1>2 DEF Page, Url, runVars
<1>4. \A i : Handled(i) => Handled(i)'
  BY DEF Handled
<1>5. Handled(Page(p)) \/ item[p] = Page(p)
  BY <1>2 DEF Submitted, Waits
<1>6. Handled(Page(p))' \/ Waits(p)'
  <2>1. item[p] = Page(p) /\ item[p] \in Ever => Handled(Page(p))
    BY DEF Handled
  <2> QED
    BY <1>2, <1>3, <1>4, <1>5, <2>1 DEF Waits
<1>7. Submitted'
  BY <1>1, <1>3, <1>6 DEF Submitted
<1> QED
  BY <1>1, <1>7, RememberedStays

\* What happens to a run and around it.
LEMMA LoneRest ==
    ASSUME CrawlInv, Lone, Remembered, Submitted, Ever \subseteq Ever',
           \/ \E p \in Procs : FetchFails(p) \/ RunFails(p) \/ Crash(p)
           \/ \E i \in Items : StoreEvent(i)
           \/ \E u \in Urls : Change(u) \/ StateExpires(u)
           \/ UNCHANGED vars
    PROVE  Remembered' /\ Submitted'
<1>1. at \in [Procs -> RunSteps] /\ state \in [Urls -> 0..Versions]
  BY DEF CrawlInv, CrawlTypes
<1>2. \A u \in Urls : state'[u] \in {0, state[u]}
  BY <1>1 DEF FetchFails, RunFails, Crash, StoreEvent, Change, StateExpires, vars
<1>3. ASSUME NEW p \in Procs, FetchFails(p) \/ RunFails(p) \/ Crash(p) PROVE Submitted'
  <2>1. at'[p] \in {"rest", "pop"} /\ \A r \in Procs : r = p
    BY <1>1, <1>3 DEF FetchFails, RunFails, Crash, EndRun, Goto, Lone
  <2> QED
    BY <2>1 DEF Submitted
<1>4. ASSUME \/ \E i \in Items : StoreEvent(i)
             \/ \E u \in Urls : Change(u) \/ StateExpires(u)
             \/ UNCHANGED vars
      PROVE  Submitted'
  <2>1. UNCHANGED <<at, here, seen, step, item, outcome>>
    BY <1>4 DEF StoreEvent, Change, StateExpires, vars, runVars, pipeVars, calls,
                PipeSurroundings, KeyExpires, RawExpires, Forget
  <2> QED
    BY <2>1 DEF Submitted, Waits, Handled, Page, Url
<1> QED
  BY <1>2, <1>3, <1>4, RememberedStays

\* With the invariants of Pipeline, LoneInv is inductive.
LEMMA LoneNext ==
    ASSUME CrawlInv, InsertedInv, PendingHasOwner, Lone, LoneInv, [Next]_vars
    PROVE  LoneInv'
<1> SUFFICES ASSUME worst' = "mild" PROVE Remembered' /\ Submitted'
  BY DEF LoneInv
<1>1. PipeTypeOK /\ [PipeNext]_pipeVars
  BY CrawlUsesPipeline DEF CrawlInv
<1>2. worst = "mild" /\ Ever \subseteq Ever'
  BY <1>1, WorstStays, EverGrows
<1>3. Remembered /\ Submitted
  BY <1>2 DEF LoneInv
<1>4. ASSUME NEW p \in Procs, RunStep(p) PROVE Remembered' /\ Submitted'
  BY <1>2, <1>3, <1>4, LoneRunStep
<1>5. ASSUME NEW p \in Procs, InPipeline(p) PROVE Remembered' /\ Submitted'
  BY <1>2, <1>3, <1>5, LoneCall
<1> QED
  BY <1>2, <1>3, <1>4, <1>5, LoneRest DEF Next

\* A process that crawls alone remembers the content of a page only when it was
\* inserted or rejected, as long as Redis answers and the process lives.  As for
\* the other collectors, a second process breaks this.
THEOREM LoneCrawlSkipsNothing ==
    ASSUME Lone
    PROVE  Spec => []HandledIsStored
<1>1. Init => LoneInv
  BY DEF Init, LoneInv, Remembered, Submitted
<1>2. CrawlInv /\ InsertedInv /\ PendingHasOwner /\ LoneInv /\ [Next]_vars => LoneInv'
  BY LoneNext
<1>3. LoneInv => HandledIsStored
  BY DEF LoneInv, Remembered, HandledIsStored
<1> QED
  BY <1>1, <1>2, <1>3, AlwaysCrawl, OnionCrawlImplementsPipeline, AlwaysInserted,
     ReservationsHaveOwners, PTL DEF Spec
=============================================================================
