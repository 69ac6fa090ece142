----------------------------- MODULE DeskProofs -----------------------------
(***************************************************************************)
(* What the analysts' side of the system keeps for every value of its      *)
(* constants: the promise of sessions and tickets, the rate limit that     *)
(* locks nobody out, the alert for every match of a watchlist, the walk    *)
(* through a list that misses nothing, the dictionary that follows every   *)
(* decision, and what the analysis owes disguises and contacts.  Each part *)
(* has its inductive invariant, one lemma per action, its theorem.         *)
(***************************************************************************)
EXTENDS Watchlists, PostAnalysis, Sessions, RateLimit, Paging, FiniteSetTheorems,
        SequenceTheorems, WellFoundedInduction, TLAPS

\* x is an element of the sequence s.
In(x, s) == \E i \in 1 .. Len(s) : s[i] = x

-----------------------------------------------------------------------------
(* Ordered *)

\* The pairs R are a strict total order of S.
Orders(R, S) ==
    /\ \A x \in S : <<x, x>> \notin R
    /\ \A x, y \in S : x # y => <<x, y>> \in R \/ <<y, x>> \in R
    /\ \A x, y, z \in S : <<x, y>> \in R /\ <<y, z>> \in R => <<x, z>> \in R

Rank(S, R, x) == Cardinality({y \in S : <<y, x>> \in R})

\* The rank of a row of S is how many come before it; it grows along the order.
LEMMA RankGrows ==
    ASSUME NEW S, IsFiniteSet(S), NEW R, Orders(R, S),
           NEW x \in S, NEW y \in S, <<x, y>> \in R
    PROVE  Rank(S, R, x) < Rank(S, R, y)
<1> DEFINE A == {z \in S : <<z, x>> \in R}
           B == {z \in S : <<z, y>> \in R}
<1>1. A \in SUBSET B /\ x \in B /\ x \notin A
  BY DEF Orders
<1>2. IsFiniteSet(B) /\ IsFiniteSet(A) /\ Cardinality(A) \in Nat /\ Cardinality(B) \in Nat
  BY FS_Subset, FS_CardinalityType
<1>3. Cardinality(A) <= Cardinality(B) /\ (Cardinality(B) = Cardinality(A) => B = A)
  BY <1>1, <1>2, FS_Subset
<1>4. Cardinality(A) # Cardinality(B)
  BY <1>1, <1>3
<1>5. Cardinality(A) < Cardinality(B)
  BY <1>2, <1>3, <1>4
<1> QED
  BY <1>5 DEF Rank

\* A row has at most all the others before it.
LEMMA RankBelow ==
    ASSUME NEW S, IsFiniteSet(S), NEW R, Orders(R, S), NEW x \in S
    PROVE  Rank(S, R, x) \in 0 .. Cardinality(S) - 1
<1> DEFINE A == {z \in S : <<z, x>> \in R}
<1>1. A \in SUBSET (S \ {x})
  BY DEF Orders
<1>2. IsFiniteSet(S \ {x}) /\ Cardinality(S \ {x}) = Cardinality(S) - 1
  BY FS_RemoveElement
<1>3. Cardinality(A) <= Cardinality(S) - 1 /\ IsFiniteSet(A)
  BY <1>1, <1>2, FS_Subset
<1>4. Cardinality(A) \in Nat /\ Cardinality(S) \in Nat
  BY <1>3, FS_CardinalityType
<1> QED
  BY <1>3, <1>4 DEF Rank

\* So the ranks of n rows are 0 to n - 1: there is an i-th row, whatever i.
LEMMA RankTaken ==
    ASSUME NEW S, IsFiniteSet(S), NEW R, Orders(R, S), NEW i \in 1 .. Cardinality(S)
    PROVE  \E x \in S : Rank(S, R, x) = i - 1
<1> DEFINE n == Cardinality(S)
           f == [x \in S |-> Rank(S, R, x) + 1]
<1>1. n \in Nat
  BY FS_CardinalityType
<1>2. \A x \in S : Rank(S, R, x) \in 0 .. n - 1
  BY RankBelow
<1>3. f \in [S -> 1 .. n]
  BY <1>1, <1>2
<1>4. \A x, y \in S : f[x] = f[y] => x = y
  <2> SUFFICES ASSUME NEW x \in S, NEW y \in S, x # y PROVE f[x] # f[y]
    OBVIOUS
  <2>1. Rank(S, R, x) < Rank(S, R, y) \/ Rank(S, R, y) < Rank(S, R, x)
    BY RankGrows DEF Orders
  <2> QED
    BY <1>1, <1>2, <2>1
<1>5. f \in Injection(S, 1 .. n)
  BY <1>3, <1>4 DEF Injection, IsInjective
<1>6. IsFiniteSet(1 .. n) /\ Cardinality(1 .. n) = n
  BY <1>1, FS_Interval
<1>7. f \in Surjection(S, 1 .. n)
  BY <1>5, <1>6, FS_Injection
<1>8. PICK x \in S : f[x] = i
  BY <1>7 DEF Surjection
<1> QED
  BY <1>1, <1>2, <1>8

\* A sequence whose i-th row has rank i - 1 is sorted.
LEMMA RankedIsSorted ==
    ASSUME NEW S, IsFiniteSet(S), NEW R, Orders(R, S),
           NEW s \in [1 .. Cardinality(S) -> S],
           \A i \in 1 .. Cardinality(S) : Rank(S, R, s[i]) = i - 1,
           NEW i \in 1 .. Cardinality(S), NEW j \in 1 .. Cardinality(S), i < j
    PROVE  <<s[i], s[j]>> \in R
<1>1. Cardinality(S) \in Nat
  BY FS_CardinalityType
<1>2. /\ s[i] \in S /\ s[j] \in S
      /\ Rank(S, R, s[i]) = i - 1 /\ Rank(S, R, s[j]) = j - 1
  OBVIOUS
<1>3. ~(Rank(S, R, s[j]) < Rank(S, R, s[i])) /\ s[i] # s[j]
  BY <1>1, <1>2
<1>4. <<s[j], s[i]>> \notin R
  BY <1>2, <1>3, RankGrows
<1> QED
  BY <1>2, <1>3, <1>4 DEF Orders

\* And no row of S is missing in it.
LEMMA RankedCovers ==
    ASSUME NEW S, IsFiniteSet(S), NEW R, Orders(R, S),
           NEW s \in [1 .. Cardinality(S) -> S],
           \A i \in 1 .. Cardinality(S) : Rank(S, R, s[i]) = i - 1,
           NEW x \in S
    PROVE  \E i \in 1 .. Cardinality(S) : s[i] = x
<1>1. Cardinality(S) \in Nat /\ Rank(S, R, x) \in 0 .. Cardinality(S) - 1
  BY RankBelow, FS_CardinalityType
<1>2. PICK i \in 1 .. Cardinality(S) : i - 1 = Rank(S, R, x)
  <2>1. Rank(S, R, x) + 1 \in 1 .. Cardinality(S) /\ (Rank(S, R, x) + 1) - 1 = Rank(S, R, x)
    BY <1>1
  <2> QED
    BY <2>1
<1>3. s[i] \in S /\ Rank(S, R, s[i]) = Rank(S, R, x)
  BY <1>2
<1>4. ~(Rank(S, R, x) < Rank(S, R, s[i])) /\ ~(Rank(S, R, s[i]) < Rank(S, R, x))
  BY <1>1, <1>3
<1>5. <<x, s[i]>> \notin R /\ <<s[i], x>> \notin R
  BY <1>3, <1>4, RankGrows
<1> QED
  BY <1>3, <1>5 DEF Orders

-----------------------------------------------------------------------------
(* Sessions and tickets *)

Outcomes == {"none", "live", "ended"}
SessionTypes ==
    /\ session \in [SessionKeys -> Outcomes]
    /\ source \in [SessionKeys -> {"token", "session"}]
    /\ held \in [Servers -> SUBSET SessionKeys] /\ shared \subseteq SessionKeys
    /\ ticketsIn \in [Servers -> SUBSET Tickets] /\ ticketsShared \subseteq Tickets
    /\ uses \in [Tickets -> Nat]
    /\ link \in [Servers -> {"new", "up", "off"}]
    /\ knows \subseteq Servers

\* A session or ticket counts as clean only while no process has given Redis up.
InOrder == clean # {} => \A n \in Servers : link[n] # "off"

\* The shared copy of a clean session is there exactly while it is live.  A key
\* that was never minted, or whose time is over, does not come back.
SessionOK(k) ==
    /\ session[k] = "none" => k \notin shared
    /\ k \in lapsed => session[k] = "ended"
    /\ k \in clean => (k \in shared <=> session[k] = "live")

\* Some process holds the ticket in its memory.
HeldAnywhere(t) == \E n \in Servers : t \in ticketsIn[n]

\* A ticket has one copy in Redis and one in the memory of the process that
\* minted it.  Each may still be honoured once, and a clean one, once honoured,
\* has left Redis.
TicketOK(t) ==
    /\ \A m, n \in Servers : t \in ticketsIn[m] /\ t \in ticketsIn[n] => m = n
    /\ uses[t] <= 2
    /\ t \in ticketsShared => uses[t] <= 1
    /\ HeldAnywhere(t) => uses[t] <= 1
    /\ t \in ticketsShared /\ HeldAnywhere(t) => uses[t] = 0
    /\ t \in clean => uses[t] <= 1 /\ (t \in ticketsShared => uses[t] = 0)

SessionInv ==
    /\ SessionTypes /\ InOrder
    /\ \A k \in SessionKeys : SessionOK(k)
    /\ \A t \in Tickets : TicketOK(t)

\* At the start there is no session and no ticket.
LEMMA SessionInitInv == SessionInit => SessionInv
BY DEF SessionInit, SessionInv, SessionTypes, InOrder, SessionOK, TicketOK, HeldAnywhere, Outcomes

\* However the call of a request ends, clients stay in order; one that is not
\* served leaves nothing clean.
LEMMA CallEnds ==
    ASSUME SessionTypes, InOrder, NEW n \in Servers, NEW call \in Calls(n), NEW minted,
           Called(n, call, minted)
    PROVE  /\ InOrder'
           /\ link' \in [Servers -> {"new", "up", "off"}] /\ knows' = knows
           /\ clean' # {} => call = "served"
           /\ clean' \subseteq clean \cup minted
<1>1. call \in {"off", "served", "ping", "failed"}
  BY DEF Calls
<1>2. CASE call = "off"
  <2>1. link[n] = "off"
    BY <1>2 DEF Calls, SessionTypes
  <2> QED
    BY <1>2, <2>1 DEF Called, InOrder, SessionTypes
<1>3. CASE call = "served"
  <2>1. link' = [link EXCEPT ![n] = "up"]
    BY <1>3 DEF Called
  <2>2. clean' = IF \E m \in Servers : link[m] = "off" THEN clean ELSE clean \cup minted
    BY <1>3 DEF Called
  <2> QED
    BY <1>3, <2>1, <2>2 DEF Called, InOrder, SessionTypes
<1>4. CASE call = "ping" \/ call = "failed"
  BY <1>4 DEF Called, InOrder, SessionTypes
<1> QED
  BY <1>1, <1>2, <1>3, <1>4

\* A step that changes no session keeps what is true of the sessions.
LEMMA SessionsKept ==
    ASSUME SessionInv, UNCHANGED <<session, source, held, shared>>,
           lapsed' \cap SessionKeys = lapsed \cap SessionKeys,
           clean' \cap SessionKeys \subseteq clean
    PROVE  \A k \in SessionKeys : SessionOK(k)'
BY DEF SessionInv, SessionOK

\* Likewise of the tickets.
LEMMA TicketsKept ==
    ASSUME SessionInv, UNCHANGED ticketVars,
           clean' \cap Tickets \subseteq clean
    PROVE  \A t \in Tickets : TicketOK(t)'
BY DEF SessionInv, TicketOK, HeldAnywhere, ticketVars

\* Login, authentication and logout keep the invariant.
LEMMA SessionStep ==
    ASSUME SessionInv, NEW n \in Servers, NEW k \in SessionKeys,
           Login(n, k) \/ Authenticate(n, k) \/ Logout(n, k)
    PROVE  SessionInv'
<1>1. CASE Login(n, k)
  <2>1. PICK call \in Calls(n) :
          /\ session[k] = "none"
          /\ session' = [session EXCEPT ![k] = "live"]
          /\ source' = [source EXCEPT ![k] = "token"]
          /\ held' = [held EXCEPT ![n] = (@ \ lapsed) \cup {k}]
          /\ shared' = IF call = "served" THEN shared \cup {k} ELSE shared
          /\ Called(n, call, {k})
          /\ UNCHANGED <<ticketVars, lapsed>>
    BY <1>1 DEF Login, MintInto, Shared
  <2>2. SessionTypes'
    BY <2>1, CallEnds DEF SessionInv, SessionTypes, Outcomes, ticketVars
  <2>3. ASSUME NEW q \in SessionKeys PROVE SessionOK(q)'
    BY <2>1, CallEnds DEF SessionInv, SessionTypes, SessionOK
  <2>4. \A t \in Tickets : TicketOK(t)'
    BY <2>1, CallEnds, TicketsKept, SessionConstantsOK DEF SessionInv
  <2> QED
    BY <2>1, <2>2, <2>3, <2>4, CallEnds DEF SessionInv
<1>2. CASE Authenticate(n, k)
  <2>1. PICK call \in Calls(n) :
          /\ session[k] # "none"
          /\ held' \in [Servers -> SUBSET SessionKeys]
          /\ \/ shared' = shared
                /\ \/ session' = session
                   \/ call # "served" /\ session' = [session EXCEPT ![k] = "ended"]
             \/ shared' = shared \ {k} /\ session' = [session EXCEPT ![k] = "ended"]
          /\ Called(n, call, {})
          /\ UNCHANGED <<source, ticketVars, lapsed>>
    <3>1. PICK call \in Calls(n) :
            /\ session[k] # "none"
            /\ LET found == Finds(n, k, call)  bad == found /\ n \notin tainted /\ ~Valid(n, k)
               IN /\ held' = [held EXCEPT ![n] = IF found /\ ~bad THEN @ \cup {k} ELSE @ \ {k}]
                  /\ shared' = Shared(call, shared, IF bad THEN shared \ {k} ELSE shared)
                  /\ session' = IF bad THEN [session EXCEPT ![k] = "ended"] ELSE session
            /\ Called(n, call, {})
            /\ UNCHANGED <<source, ticketVars, lapsed>>
      BY <1>2 DEF Authenticate
    <3>2. held' \in [Servers -> SUBSET SessionKeys]
      BY <3>1 DEF SessionInv, SessionTypes
    <3>3. CASE Finds(n, k, call) /\ n \notin tainted /\ ~Valid(n, k)
      BY <3>1, <3>2, <3>3 DEF Shared
    <3>4. CASE ~(Finds(n, k, call) /\ n \notin tainted /\ ~Valid(n, k))
      BY <3>1, <3>2, <3>4 DEF Shared
    <3> QED
      BY <3>3, <3>4
  <2>2. SessionTypes'
    BY <2>1, CallEnds DEF SessionInv, SessionTypes, Outcomes, ticketVars
  <2>3. ASSUME NEW q \in SessionKeys PROVE SessionOK(q)'
    BY <2>1, CallEnds DEF SessionInv, SessionTypes, SessionOK
  <2>4. \A t \in Tickets : TicketOK(t)'
    BY <2>1, CallEnds, TicketsKept DEF SessionInv
  <2> QED
    BY <2>1, <2>2, <2>3, <2>4, CallEnds DEF SessionInv
<1>3. CASE Logout(n, k)
  <2>1. PICK call \in Calls(n) :
          /\ Accepts(n, k, call)
          /\ held' = [held EXCEPT ![n] = @ \ {k}]
          /\ shared' = IF call = "served" THEN shared \ {k} ELSE shared
          /\ session' = [session EXCEPT ![k] = "ended"]
          /\ Called(n, call, {})
          /\ UNCHANGED <<source, ticketVars, lapsed>>
    BY <1>3 DEF Logout, RevokeFrom, Shared
  <2>2. SessionTypes'
    BY <2>1, CallEnds DEF SessionInv, SessionTypes, Outcomes, ticketVars
  <2>3. ASSUME NEW q \in SessionKeys PROVE SessionOK(q)'
    BY <2>1, CallEnds DEF SessionInv, SessionTypes, SessionOK
  <2>4. \A t \in Tickets : TicketOK(t)'
    BY <2>1, CallEnds, TicketsKept DEF SessionInv
  <2> QED
    BY <2>1, <2>2, <2>3, <2>4, CallEnds DEF SessionInv
<1> QED
  BY <1>1, <1>2, <1>3

\* So does refresh, which ends one session and mints another.
LEMMA RefreshStep ==
    ASSUME SessionInv, NEW n \in Servers, NEW k \in SessionKeys, NEW new \in SessionKeys,
           Refresh(n, k, new)
    PROVE  SessionInv'
<1>1. PICK call \in Calls(n) :
        /\ Finds(n, k, call) /\ session[new] = "none"
        /\ held' = [held EXCEPT ![n] = ((@ \ {k}) \ lapsed) \cup {new}]
        /\ shared' = IF call = "served" THEN (shared \ {k}) \cup {new} ELSE shared
        /\ session' = [session EXCEPT ![k] = "ended", ![new] = "live"]
        /\ source' = [source EXCEPT ![new] = "session"]
        /\ Called(n, call, {new})
        /\ UNCHANGED <<ticketVars, lapsed>>
  BY DEF Refresh, Accepts, Shared
<1>2. SessionTypes'
  BY <1>1, CallEnds DEF SessionInv, SessionTypes, Outcomes, ticketVars
<1>3. ASSUME NEW q \in SessionKeys PROVE SessionOK(q)'
  BY <1>1, CallEnds DEF SessionInv, SessionTypes, SessionOK
<1>4. \A t \in Tickets : TicketOK(t)'
  BY <1>1, CallEnds, TicketsKept, SessionConstantsOK DEF SessionInv
<1> QED
  BY <1>1, <1>2, <1>3, <1>4, CallEnds DEF SessionInv

\* So do the minting and the consumption of a ticket.
LEMMA TicketStep ==
    ASSUME SessionInv, NEW n \in Servers, NEW t \in Tickets,
           MintTicket(n, t) \/ ConsumeTicket(n, t)
    PROVE  SessionInv'
<1>1. CASE MintTicket(n, t)
  <2>1. PICK call \in Calls(n) :
          /\ \A m \in Servers : t \notin ticketsIn[m]
          /\ t \notin ticketsShared /\ uses[t] = 0
          /\ ticketsIn' = [ticketsIn EXCEPT ![n] = (@ \ lapsed) \cup {t}]
          /\ ticketsShared' = IF call = "served" THEN ticketsShared \cup {t} ELSE ticketsShared
          /\ Called(n, call, {t})
          /\ UNCHANGED <<session, source, held, shared, lapsed, uses>>
    BY <1>1 DEF MintTicket, Shared
  <2>2. SessionTypes'
    BY <2>1, CallEnds DEF SessionInv, SessionTypes
  <2>3. \A k \in SessionKeys : SessionOK(k)'
    BY <2>1, CallEnds, SessionsKept, SessionConstantsOK
       DEF SessionInv
  <2>4. ASSUME NEW q \in Tickets PROVE TicketOK(q)'
    <3>1. \A m \in Servers : q # t /\ q \in ticketsIn'[m] => q \in ticketsIn[m]
      BY <2>1 DEF SessionInv, SessionTypes
    <3>2. \A m \in Servers : t \in ticketsIn'[m] => m = n
      BY <2>1 DEF SessionInv, SessionTypes
    <3>3. TicketOK(q) /\ clean' \subseteq clean \cup {t} /\ uses \in [Tickets -> Nat]
      BY <2>1, CallEnds DEF SessionInv, SessionTypes
    <3>4. CASE q = t
      BY <2>1, <3>2, <3>3, <3>4 DEF TicketOK, HeldAnywhere
    <3>5. CASE q # t
      BY <2>1, <3>1, <3>3, <3>5 DEF TicketOK, HeldAnywhere
    <3> QED
      BY <3>4, <3>5
  <2> QED
    BY <2>1, <2>2, <2>3, <2>4, CallEnds DEF SessionInv
<1>2. CASE ConsumeTicket(n, t)
  <2>1. PICK call \in Calls(n) :
          /\ IF call = "served" THEN t \in ticketsShared ELSE t \in ticketsIn[n]
          /\ ticketsIn' = [ticketsIn EXCEPT ![n] = @ \ {t}]
          /\ ticketsShared' = IF call = "served" THEN ticketsShared \ {t} ELSE ticketsShared
          /\ uses' = IF t \in lapsed THEN uses ELSE [uses EXCEPT ![t] = @ + 1]
          /\ Called(n, call, {})
          /\ UNCHANGED <<session, source, held, shared, lapsed>>
    BY <1>2 DEF ConsumeTicket, Shared
  <2>2. SessionTypes'
    BY <2>1, CallEnds DEF SessionInv, SessionTypes
  <2>3. \A k \in SessionKeys : SessionOK(k)'
    BY <2>1, CallEnds, SessionsKept DEF SessionInv
  <2>4. ASSUME NEW q \in Tickets PROVE TicketOK(q)'
    <3>1. \A m \in Servers : q \in ticketsIn'[m] <=> q \in ticketsIn[m] /\ (q # t \/ m # n)
      BY <2>1 DEF SessionInv, SessionTypes
    <3>2. /\ TicketOK(q) /\ clean' \subseteq clean /\ uses[q] \in Nat
          /\ clean' # {} => call = "served"
          /\ q # t => uses'[q] = uses[q]
          /\ uses'[t] = uses[t] \/ uses'[t] = uses[t] + 1
      BY <2>1, CallEnds DEF SessionInv, SessionTypes
    <3>4. CASE q = t
      BY <2>1, <3>1, <3>2, <3>4 DEF TicketOK, HeldAnywhere
    <3>5. CASE q # t
      BY <2>1, <3>1, <3>2, <3>5 DEF TicketOK, HeldAnywhere
    <3> QED
      BY <3>4, <3>5
  <2> QED
    BY <2>1, <2>2, <2>3, <2>4, CallEnds DEF SessionInv
<1> QED
  BY <1>1, <1>2

\* So do the time that passes, for a session, a ticket or a token, and a restart.
LEMMA TimeStep ==
    ASSUME SessionInv,
           \/ \E k \in SessionKeys : SessionLapses(k)
           \/ \E t \in Tickets : TicketLapses(t)
           \/ \E n \in Servers : Restart(n) \/ TokenExpires(n)
    PROVE  SessionInv'
<1>1. ASSUME NEW k \in SessionKeys, SessionLapses(k) PROVE SessionInv'
  <2>1. SessionTypes' /\ InOrder'
    BY <1>1 DEF SessionLapses, SessionInv, SessionTypes, Outcomes, InOrder, settled, ticketVars
  <2>2. ASSUME NEW q \in SessionKeys PROVE SessionOK(q)'
    BY <1>1 DEF SessionLapses, SessionInv, SessionTypes, SessionOK, settled
  <2>3. \A t \in Tickets : TicketOK(t)'
    BY <1>1, TicketsKept DEF SessionLapses, settled
  <2> QED
    BY <2>1, <2>2, <2>3 DEF SessionInv
<1>2. ASSUME NEW t \in Tickets, TicketLapses(t) PROVE SessionInv'
  <2>1. SessionTypes' /\ InOrder'
    BY <1>2 DEF TicketLapses, SessionInv, SessionTypes, InOrder, settled
  <2>2. \A k \in SessionKeys : SessionOK(k)'
    BY <1>2, SessionsKept, SessionConstantsOK DEF TicketLapses, settled
  <2>3. ASSUME NEW q \in Tickets PROVE TicketOK(q)'
    BY <1>2 DEF TicketLapses, SessionInv, TicketOK, HeldAnywhere, settled
  <2> QED
    BY <2>1, <2>2, <2>3 DEF SessionInv
<1>3. ASSUME NEW n \in Servers, Restart(n) PROVE SessionInv'
  <2>1. SessionTypes' /\ InOrder'
    BY <1>3 DEF Restart, SessionInv, SessionTypes, InOrder
  <2>2. \A k \in SessionKeys : SessionOK(k)'
    BY <1>3 DEF Restart, SessionInv, SessionOK
  <2>3. ASSUME NEW q \in Tickets PROVE TicketOK(q)'
    <3>1. \A m \in Servers : q \in ticketsIn'[m] => q \in ticketsIn[m]
      BY <1>3 DEF Restart, SessionInv, SessionTypes
    <3> QED
      BY <1>3, <3>1 DEF Restart, SessionInv, TicketOK, HeldAnywhere
  <2> QED
    BY <2>1, <2>2, <2>3 DEF SessionInv
<1>4. ASSUME NEW n \in Servers, TokenExpires(n) PROVE SessionInv'
  BY <1>4 DEF TokenExpires, ticketVars, SessionInv, SessionTypes, InOrder, SessionOK,
              TicketOK, HeldAnywhere
<1> QED
  BY <1>1, <1>2, <1>3, <1>4

\* Every step keeps the invariant.
LEMMA SessionNextInv == SessionInv /\ [SessionNext]_sessionVars => SessionInv'
<1>1. ASSUME SessionInv, UNCHANGED sessionVars PROVE SessionInv'
  BY <1>1 DEF sessionVars, SessionInv, SessionTypes, InOrder, SessionOK, TicketOK, HeldAnywhere
<1> QED
  BY <1>1, SessionStep, RefreshStep, TicketStep, TimeStep DEF SessionNext

\* Whatever the processes, sessions and tickets, the calls of Redis that fail and
\* the restarts: a session minted while Redis answered is accepted by every
\* process that lists its token, and none that has expired, exactly while it is
\* live, and a ticket is honoured once, or twice if a call failed
\* (api/security.py).
THEOREM SessionsKeepTheirPromise == SessionSpec => []SessionPromise
<1>1. SessionInv => SessionPromise
  <2> SUFFICES ASSUME SessionInv PROVE SessionPromise
    OBVIOUS
  <2>1. ASSUME NEW n \in knows \ tainted, NEW k \in SessionKeys \cap clean,
               source[k] = "token"
        PROVE  Accepts(n, k, "served") <=> session[k] = "live"
    BY <2>1 DEF SessionInv, SessionOK, Accepts, Finds, Valid
  <2>2. ASSUME NEW t \in Tickets PROVE uses[t] <= IF t \in clean THEN 1 ELSE 2
    BY DEF SessionInv, TicketOK
  <2> QED
    BY <2>1, <2>2 DEF SessionPromise
<1> QED
  BY <1>1, SessionInitInv, SessionNextInv, PTL DEF SessionSpec

-----------------------------------------------------------------------------
(* The rate limit *)

Unbounded  == count > 0 /\ ~expires
Repairing  == \E c \in Charges : charge[c] = "expire"
LimitTypes == count \in Nat /\ charge \in [Charges -> {"idle", "ttl", "expire"}]
LimitInv   == LimitTypes /\ (Unbounded => broken \/ Repairing)

\* At the start there is no counter.
LEMMA LimitInitInv == LimitInit => LimitInv
  BY DEF LimitInit, LimitInv, LimitTypes, Unbounded

\* A request's step: only Expire with a counter, or Ttl of one that expires,
\* ends in order; whoever else ends was broken off.
LEMMA ChargeKeepsInv ==
    ASSUME LimitInv, NEW c \in Charges, Incr(c) \/ Ttl(c) \/ Expire(c) \/ FallBack(c) \/ CutOff(c)
    PROVE  LimitInv'
  <1>1. CASE Incr(c)
    <2>1. /\ count' = count + 1 /\ expires' = expires /\ broken' = broken
          /\ charge' = [charge EXCEPT ![c] = IF count = 0 THEN "expire" ELSE "ttl"]
          /\ charge[c] = "idle"
      BY <1>1 DEF Incr, Move
    <2>2. LimitTypes'
      BY <2>1 DEF LimitInv, LimitTypes
    <2>3. CASE count = 0
      <3>1. charge'[c] = "expire"
        BY <2>1, <2>3 DEF LimitInv, LimitTypes
      <3>2. QED  BY <2>2, <3>1 DEF LimitInv, Repairing
    <2>4. CASE count # 0
      <3>1. Unbounded' => Unbounded
        BY <2>1, <2>4 DEF LimitInv, LimitTypes, Unbounded
      <3>2. Repairing => Repairing'
        BY <2>1 DEF LimitInv, LimitTypes, Repairing
      <3>3. QED  BY <2>1, <2>2, <3>1, <3>2 DEF LimitInv
    <2>5. QED  BY <2>3, <2>4
  <1>2. CASE Ttl(c)
    <2>1. count' = count /\ expires' = expires /\ charge[c] = "ttl"
      BY <1>2 DEF Ttl
    <2>2. CASE count > 0 /\ expires
      <3>1. charge' = [charge EXCEPT ![c] = "idle"]
        BY <1>2, <2>2 DEF Ttl, Ends, Move
      <3>2. LimitTypes' /\ ~Unbounded'
        BY <2>1, <2>2, <3>1 DEF LimitInv, LimitTypes, Unbounded
      <3>3. QED  BY <3>2 DEF LimitInv
    <2>3. CASE ~(count > 0 /\ expires)
      <3>1. charge' = [charge EXCEPT ![c] = "expire"]
        BY <1>2, <2>3 DEF Ttl, Move
      <3>2. LimitTypes' /\ charge'[c] = "expire"
        BY <2>1, <3>1 DEF LimitInv, LimitTypes
      <3>3. QED  BY <3>2 DEF LimitInv, Repairing
    <2>4. QED  BY <2>2, <2>3
  <1>3. CASE Expire(c)
    <2>1. /\ count' = count /\ expires' = (count > 0)
          /\ charge' = [charge EXCEPT ![c] = "idle"]
      BY <1>3 DEF Expire, Ends, Move
    <2>2. LimitTypes'
      BY <2>1 DEF LimitInv, LimitTypes
    <2>3. ~Unbounded'
      BY <2>1 DEF Unbounded
    <2>4. QED  BY <2>2, <2>3 DEF LimitInv
  <1>4. CASE FallBack(c) \/ CutOff(c)
    <2>1. count' = count /\ broken' = TRUE /\ charge' = [charge EXCEPT ![c] = "idle"]
      BY <1>4 DEF FallBack, CutOff, Ends, Move
    <2>2. LimitTypes'
      BY <2>1 DEF LimitInv, LimitTypes
    <2>3. QED  BY <2>1, <2>2 DEF LimitInv
  <1>5. QED  BY <1>1, <1>2, <1>3, <1>4

\* Every step keeps the invariant.
LEMMA LimitStep == LimitInv /\ [LimitNext]_limitVars => LimitInv'
  <1> SUFFICES ASSUME LimitInv, [LimitNext]_limitVars  PROVE LimitInv'
    OBVIOUS
  <1>1. CASE \E c \in Charges : Incr(c) \/ Ttl(c) \/ Expire(c) \/ FallBack(c) \/ CutOff(c)
    BY <1>1, ChargeKeepsInv
  <1>2. CASE KeyExpires
    BY <1>2 DEF KeyExpires, LimitInv, LimitTypes, Unbounded
  <1>3. CASE Tick
    BY <1>3 DEF Tick, LimitInv, LimitTypes, Unbounded, Repairing
  <1>4. CASE UNCHANGED limitVars
    BY <1>4 DEF limitVars, LimitInv, LimitTypes, Unbounded, Repairing
  <1>5. QED  BY <1>1, <1>2, <1>3, <1>4 DEF LimitNext

\* When every request rests, no charge is about to repair the counter, so one
\* without an expiry means that the last charge was broken off.
THEOREM ClientNeverLockedOut == LimitSpec => []NoLockout
  <1>1. LimitInv => NoLockout
    BY DEF LimitInv, NoLockout, Unbounded, Repairing
  <1>2. QED
    BY <1>1, LimitInitInv, LimitStep, PTL DEF LimitSpec

-----------------------------------------------------------------------------
(* Watchlists *)

\* A stored watchlist.
Entry == [terms : TermSets, notify : BOOLEAN, enabled : BOOLEAN]

\* The worker is about an unfinished post, and what it still has to alert is lists.
WorkerOK ==
    /\ worker # Idle => worker.step \in {"analyse", "evaluate", "alert"}
    /\ worker.step \in {"analyse", "evaluate", "alert"} => worker.post \in Posts \ finished
    /\ worker.step = "alert" =>
          /\ worker = [step |-> "alert", post |-> worker.post, observed |-> worker.observed,
                       todo |-> worker.todo]
          /\ worker.todo \in Seq(ListIds)

\* The list of the request under way is not promised yet, and what the request
\* remembers of it is what is stored.
RequestOK ==
    /\ request # Idle => request.step \in {"audit", "sample", "backfill"}
    /\ request.step \in {"audit", "sample", "backfill"} => request.list \in ListIds \ sound
    /\ request.step = "audit" =>
          request = [step |-> "audit", list |-> request.list, created |-> request.created,
                     then |-> request.then, terms |-> request.terms, notify |-> request.notify]
    /\ request.step \in {"audit", "sample"} =>
          \A l \in lists[request.list] : l.terms = request.terms /\ l.notify = request.notify
    /\ request.step = "backfill" =>
          /\ request = [step |-> "backfill", list |-> request.list, todo |-> request.todo,
                        truncated |-> request.truncated]
          /\ request.todo \in Seq(Posts)

WatchTypes ==
    /\ DOMAIN intel = Posts /\ DOMAIN evaluated = Posts /\ finished \subseteq Posts
    /\ \A p \in Posts : \A x, y \in intel[p] : x = y
    /\ lists \in [ListIds -> SUBSET Entry] /\ sound \subseteq ListIds
    /\ WorkerOK /\ RequestOK

\* The stored text of p matches w, which is enabled and notifies.
Due(p, w) ==
    \E l \in lists[w], t \in intel[p] : l.enabled /\ l.notify /\ Matches(l.terms, t)
\* The lists that the promise is about, and the one a full backfill makes so.
Covered(w) ==
    w \in sound \/ (request.step = "backfill" /\ request.list = w /\ ~request.truncated)
\* A match without its alert is still to come: from the request,
OwedByBackfill(p, w) ==
    request.step = "backfill" /\ request.list = w /\ In(p, request.todo)
\* from the worker, which has not finished the post and, if it is raising alerts
\* for the stored text, has the list before it;
OwedByWorker(p, w) ==
    /\ p \notin finished
    /\ worker.step = "alert" /\ worker.post = p /\ worker.observed \in intel[p]
          => In(w, worker.todo)
\* or the last analysis of the post was of another text, the exception.
Otherwise(p) == p \in finished /\ evaluated[p] # {} /\ evaluated[p] # intel[p]
Settled(p, w) ==
    \/ <<p, w>> \in alerts \/ OwedByBackfill(p, w) \/ OwedByWorker(p, w) \/ Otherwise(p)
MatchInv == \A w \in ListIds, p \in Posts : Covered(w) /\ Due(p, w) => Settled(p, w)
WatchInv == WatchTypes /\ MatchInv

\* Who is idle is at no step.
LEMMA IdleSteps == Idle.step = "idle"
BY DEF Idle

\* SetToSeq leaves out no element.
LEMMA SetToSeqCovers ==
    ASSUME NEW S, IsFiniteSet(S)
    PROVE  /\ SetToSeq(S) \in Seq(S)
           /\ \A x \in S : In(x, SetToSeq(S))
<1> DEFINE n == Cardinality(S)
           s == SetToSeq(S)
<1>1. n \in Nat /\ ExistsBijection(1 .. n, S)
  BY FS_CardinalityType
<1>2. \E f \in [1 .. n -> S] : IsInjective(f)
  BY <1>1 DEF ExistsBijection, Bijection, Injection
<1>3. s \in [1 .. n -> S] /\ IsInjective(s)
  BY <1>2 DEF SetToSeq
<1>4. s \in Injection(1 .. n, S) /\ IsFiniteSet(1 .. n) /\ Cardinality(1 .. n) = n
  BY <1>1, <1>3, FS_Interval DEF Injection
<1>5. s \in Surjection(1 .. n, S)
  BY <1>4, FS_Injection
<1>6. Len(s) = n
  BY <1>1, <1>3
<1> QED
  BY <1>1, <1>3, <1>5, <1>6 DEF Surjection, In

\* No phrase occurs in an empty text.
LEMMA EmptyTextMatchesNothing ==
    ASSUME NEW ts \in TermSets PROVE ~Matches(ts, <<>>)
<1>1. \A x \in SubSeqs(<<>>) : x = <<>>
  BY DEF SubSeqs
<1> QED
  BY <1>1, WatchConstantsOK DEF Matches, Hits

\* What is in a queue is its head or in its tail.
LEMMA InTail ==
    ASSUME NEW T, NEW s \in Seq(T), s # <<>>, NEW x, In(x, s)
    PROVE  x = Head(s) \/ In(x, Tail(s))
<1>1. PICK i \in 1 .. Len(s) : s[i] = x
  BY DEF In
<1>2. CASE i = 1
  BY <1>1, <1>2
<1>3. CASE i # 1
  <2>1. i - 1 \in 1 .. Len(Tail(s)) /\ Tail(s)[i - 1] = x
    BY <1>1, <1>3
  <2> QED
    BY <2>1 DEF In
<1> QED
  BY <1>2, <1>3

\* At the start no list is written and no post stored.
LEMMA WatchInitInv == WatchInit => WatchInv
BY DEF WatchInit, WatchInv, WatchTypes, WorkerOK, RequestOK, MatchInv, Covered, Due, Idle, Entry

\* A step that leaves the requests alone: it keeps what it neither finishes nor
\* stores anew.
LEMMA WorkerKeepsMatches ==
    ASSUME WatchInv, UNCHANGED <<lists, request, sound>>, alerts \subseteq alerts',
           \A p \in Posts : intel'[p] = intel[p]
               \/ \A w \in ListIds : Due(p, w)' => OwedByWorker(p, w)',
           \A p \in Posts, w \in ListIds :
               intel'[p] = intel[p] /\ Due(p, w) /\ (OwedByWorker(p, w) \/ Otherwise(p))
                   => \/ <<p, w>> \in alerts' \/ OwedByWorker(p, w)' \/ Otherwise(p)'
    PROVE  MatchInv'
<1> SUFFICES ASSUME NEW w \in ListIds, NEW p \in Posts, Covered(w)', Due(p, w)'
             PROVE  Settled(p, w)'
  BY DEF MatchInv
<1>1. CASE intel'[p] # intel[p]
  BY <1>1 DEF Settled
<1>2. CASE intel'[p] = intel[p]
  <2>1. Covered(w) /\ Due(p, w)
    BY <1>2 DEF Covered, Due
  <2>2. Settled(p, w)
    BY <2>1 DEF WatchInv, MatchInv
  <2> QED
    BY <1>2, <2>1, <2>2 DEF Settled, OwedByBackfill
<1> QED
  BY <1>1, <1>2

\* The worker takes a post: what it finished before stays as it was.
LEMMA ClaimInv ==
    ASSUME WatchInv, NEW p \in Posts, Claim(p)
    PROVE  WatchInv'
<1>1. /\ worker = Idle /\ p \notin finished
      /\ worker' = Idle \/ worker' = [step |-> "analyse", post |-> p]
      /\ UNCHANGED <<intel, finished, evaluated, lists, request, sound, alerts>>
  BY DEF Claim, listVars
<1>2. WatchTypes'
  BY <1>1, IdleSteps DEF WatchInv, WatchTypes, WorkerOK, RequestOK
<1>3. MatchInv'
  <2>1. worker'.step # "alert"
    BY <1>1, IdleSteps
  <2> QED
    BY <1>1, <2>1, WorkerKeepsMatches DEF OwedByWorker, Otherwise
<1> QED
  BY <1>2, <1>3 DEF WatchInv

\* It stores the analysis, unless a replay finds one; a text without terms is over.
LEMMA StoreIntelInv ==
    ASSUME WatchInv, StoreIntel
    PROVE  WatchInv'
<1> DEFINE r == Analysis(worker.post)
<1>1. /\ worker.step = "analyse" /\ UNCHANGED <<lists, request, sound, alerts>>
      /\ worker.post \in Posts \ finished
  BY DEF StoreIntel, listVars, WatchInv, WatchTypes, WorkerOK
<1>2. CASE r.kept
  <2>1. PICK p, o :
          /\ p \in Posts
          /\ p = worker.post /\ o = Observed(r)
          /\ intel' = [intel EXCEPT ![p] = IF @ = {} THEN {o} ELSE @]
          /\ worker' = [step |-> "evaluate", post |-> p, observed |-> o]
          /\ UNCHANGED <<finished, evaluated>>
    BY <1>1, <1>2 DEF StoreIntel
  <2>2. WatchTypes'
    BY <1>1, <2>1 DEF WatchInv, WatchTypes, WorkerOK, RequestOK, Idle
  <2>3. MatchInv'
    BY <1>1, <2>1, WorkerKeepsMatches DEF OwedByWorker, Otherwise, WatchInv, WatchTypes
  <2> QED
    BY <2>2, <2>3 DEF WatchInv
<1>3. CASE ~r.kept
  <2>1. PICK p \in Posts :
          /\ p = worker.post
          /\ finished' = finished \cup {p}
          /\ evaluated' = [evaluated EXCEPT ![p] = {<<>>}]
          /\ worker' = Idle /\ UNCHANGED intel
    BY <1>1, <1>3 DEF StoreIntel
  <2>2. WatchTypes'
    BY <1>1, <2>1, IdleSteps DEF WatchInv, WatchTypes, WorkerOK, RequestOK
  <2>3. ASSUME NEW q \in Posts, NEW w \in ListIds, Due(q, w),
               OwedByWorker(q, w) \/ Otherwise(q)
        PROVE  OwedByWorker(q, w)' \/ Otherwise(q)'
    <3>1. CASE q = p
      <4>1. intel[q] # {<<>>}
        <5>1. PICK l \in lists[w], t \in intel[q] : Matches(l.terms, t)
          BY <2>3 DEF Due
        <5>2. l.terms \in TermSets
          BY <5>1 DEF WatchInv, WatchTypes, Entry
        <5> QED
          BY <5>1, <5>2, EmptyTextMatchesNothing
      <4> QED
        BY <2>1, <3>1, <4>1 DEF Otherwise, WatchInv, WatchTypes
    <3>2. CASE q # p
      BY <2>1, <2>3, <3>2, IdleSteps DEF OwedByWorker, Otherwise, WatchInv, WatchTypes
    <3> QED
      BY <3>1, <3>2
  <2>4. MatchInv'
    BY <1>1, <2>1, <2>3, WorkerKeepsMatches
  <2> QED
    BY <2>2, <2>4 DEF WatchInv
<1> QED
  BY <1>2, <1>3

\* It reads the lists: all that match what it observed are before it.
LEMMA EvaluateListsInv ==
    ASSUME WatchInv, EvaluateLists
    PROVE  WatchInv'
<1>1. PICK p, o :
        /\ p \in Posts
        /\ p = worker.post /\ o = worker.observed /\ p \notin finished
        /\ worker' = [step |-> "alert", post |-> p, observed |-> o,
                      todo |-> SetToSeq(ListsToAlert(o))]
        /\ UNCHANGED <<intel, finished, evaluated, lists, request, sound, alerts>>
  BY DEF EvaluateLists, listVars, WatchInv, WatchTypes, WorkerOK
<1>2. ListsToAlert(o) \subseteq ListIds /\ IsFiniteSet(ListsToAlert(o))
  BY FS_Subset, WatchConstantsOK DEF ListsToAlert
<1>3. PICK todo :
        /\ todo = SetToSeq(ListsToAlert(o)) /\ todo \in Seq(ListIds)
        /\ \A w \in ListsToAlert(o) : In(w, todo)
  BY <1>2, SetToSeqCovers
<1>4. worker' = [step |-> "alert", post |-> p, observed |-> o, todo |-> todo]
  BY <1>1, <1>3
<1>5. WatchTypes'
  BY <1>1, <1>3, <1>4 DEF WatchInv, WatchTypes, WorkerOK, RequestOK, Idle
<1>6. ASSUME NEW q \in Posts, NEW w \in ListIds, Due(q, w), OwedByWorker(q, w)
      PROVE  OwedByWorker(q, w)'
  <2>1. CASE q = p /\ o \in intel[q]
    <3>1. w \in ListsToAlert(o)
      BY <1>6, <2>1 DEF Due, ListsToAlert, WatchInv, WatchTypes
    <3> QED
      BY <1>1, <1>3, <1>4, <1>6, <3>1 DEF OwedByWorker
  <2>2. CASE ~(q = p /\ o \in intel[q])
    BY <1>1, <1>4, <1>6, <2>2 DEF OwedByWorker
  <2> QED
    BY <2>1, <2>2
<1>7. MatchInv'
  BY <1>1, <1>6, WorkerKeepsMatches DEF Otherwise
<1> QED
  BY <1>5, <1>7 DEF WatchInv

\* It raises one alert, or has raised all and finishes the post.
LEMMA RaiseAlertInv ==
    ASSUME WatchInv, RaiseAlert
    PROVE  WatchInv'
<1>1. PICK p, todo, o :
        /\ p \in Posts /\ todo \in Seq(ListIds)
        /\ p = worker.post /\ o = worker.observed /\ p \notin finished
        /\ worker = [step |-> "alert", post |-> p, observed |-> o, todo |-> todo]
        /\ UNCHANGED <<intel, lists, request, sound>>
  <2>1. /\ worker.step = "alert" /\ worker.post \in Posts \ finished
        /\ worker = [step |-> "alert", post |-> worker.post, observed |-> worker.observed,
                     todo |-> worker.todo]
        /\ worker.todo \in Seq(ListIds)
    BY DEF RaiseAlert, WatchInv, WatchTypes, WorkerOK
  <2>2. UNCHANGED <<intel, lists, request, sound>>
    BY DEF RaiseAlert, listVars
  <2>3. PICK p \in Posts, todo \in Seq(ListIds) : p = worker.post /\ todo = worker.todo
    BY <2>1
  <2> QED
    BY <2>1, <2>2, <2>3, Zenon
<1>2. CASE todo # <<>>
  <2>1. /\ alerts' = alerts \cup {<<p, Head(todo)>>}
        /\ worker' = [step |-> "alert", post |-> p, observed |-> o, todo |-> Tail(todo)]
        /\ UNCHANGED <<finished, evaluated>>
    BY <1>1, <1>2 DEF RaiseAlert
  <2>2. Tail(todo) \in Seq(ListIds)
    BY <1>1, <1>2
  <2>3. WatchTypes'
    BY <1>1, <2>1, <2>2 DEF WatchInv, WatchTypes, WorkerOK, RequestOK, Idle
  <2>4. ASSUME NEW q \in Posts, NEW w \in ListIds, OwedByWorker(q, w)
        PROVE  <<q, w>> \in alerts' \/ OwedByWorker(q, w)'
    <3>1. CASE q = p /\ o \in intel[q]
      <4>1. In(w, todo)
        BY <1>1, <2>4, <3>1 DEF OwedByWorker
      <4>2. w = Head(todo) \/ In(w, Tail(todo))
        BY <1>1, <1>2, <4>1, InTail
      <4> QED
        BY <1>1, <2>1, <2>4, <3>1, <4>2 DEF OwedByWorker
    <3>2. CASE ~(q = p /\ o \in intel[q])
      BY <1>1, <2>1, <2>4, <3>2 DEF OwedByWorker
    <3> QED
      BY <3>1, <3>2
  <2>5. MatchInv'
    BY <1>1, <2>1, <2>4, WorkerKeepsMatches DEF Otherwise
  <2> QED
    BY <2>3, <2>5 DEF WatchInv
<1>3. CASE todo = <<>>
  <2>1. /\ finished' = finished \cup {p}
        /\ evaluated' = [evaluated EXCEPT ![p] = {o}]
        /\ worker' = Idle /\ UNCHANGED alerts
    BY <1>1, <1>3 DEF RaiseAlert
  <2>2. WatchTypes'
    BY <1>1, <2>1, IdleSteps DEF WatchInv, WatchTypes, WorkerOK, RequestOK
  <2>3. ASSUME NEW q \in Posts, NEW w \in ListIds, OwedByWorker(q, w) \/ Otherwise(q)
        PROVE  OwedByWorker(q, w)' \/ Otherwise(q)'
    <3>1. CASE q = p
      <4>1. ~In(w, todo)
        BY <1>3 DEF In
      <4>2. o \notin intel[q]
        BY <1>1, <2>3, <3>1, <4>1 DEF OwedByWorker, Otherwise
      <4>3. evaluated'[q] = {o} /\ q \in finished' /\ intel'[q] = intel[q]
        BY <1>1, <2>1, <3>1 DEF WatchInv, WatchTypes
      <4> QED
        BY <4>2, <4>3 DEF Otherwise
    <3>2. CASE q # p
      BY <1>1, <2>1, <2>3, <3>2, IdleSteps DEF OwedByWorker, Otherwise, WatchInv, WatchTypes
    <3> QED
      BY <3>1, <3>2
  <2>4. MatchInv'
    BY <1>1, <2>1, <2>3, WorkerKeepsMatches
  <2> QED
    BY <2>2, <2>4 DEF WatchInv
<1> QED
  BY <1>2, <1>3

\* It stops: the post is as unfinished as before, and owed in full.
LEMMA WorkerStopsInv ==
    ASSUME WatchInv, WorkerStops
    PROVE  WatchInv'
<1>1. worker' = Idle /\ UNCHANGED <<intel, finished, evaluated, lists, request, sound, alerts>>
  BY DEF WorkerStops, listVars
<1>2. WatchTypes'
  BY <1>1, IdleSteps DEF WatchInv, WatchTypes, WorkerOK, RequestOK
<1>3. MatchInv'
  BY <1>1, IdleSteps, WorkerKeepsMatches DEF OwedByWorker, Otherwise
<1> QED
  BY <1>2, <1>3 DEF WatchInv

\* A request that writes list q takes it out of the promise.
LEMMA ListWritten ==
    ASSUME WatchInv, NEW q \in ListIds,
           UNCHANGED <<intel, finished, worker, evaluated, alerts>>,
           \A w \in ListIds \ {q} : lists'[w] = lists[w],
           sound' = sound \ {q}, request = Idle, request'.step # "backfill"
    PROVE  MatchInv'
<1> SUFFICES ASSUME NEW w \in ListIds, NEW p \in Posts, Covered(w)', Due(p, w)'
             PROVE  Settled(p, w)'
  BY DEF MatchInv
<1>1. w # q /\ Covered(w) /\ Due(p, w)
  BY DEF Covered, Due
<1>2. Settled(p, w) /\ ~OwedByBackfill(p, w)
  BY <1>1, IdleSteps DEF WatchInv, MatchInv, OwedByBackfill
<1> QED
  BY <1>2 DEF Settled, OwedByWorker, Otherwise

\* A list is written; the promise waits for its backfill.
LEMMA WriteListInv ==
    ASSUME WatchInv, NEW w \in ListIds, NEW list \in Entry, NEW backfills,
           WriteList(w, list, backfills)
    PROVE  WatchInv'
<1>1. /\ request = Idle /\ sound' = sound \ {w}
      /\ lists' = [lists EXCEPT ![w] = {list}]
      /\ UNCHANGED <<intel, finished, worker, evaluated, alerts>>
  BY DEF WriteList, deskVars
<1>2. PICK created :
        request' = [step |-> "audit", list |-> w, created |-> created,
                    then |-> backfills, terms |-> list.terms, notify |-> list.notify]
  BY DEF WriteList
<1>3. WatchTypes'
  BY <1>1, <1>2 DEF WatchInv, WatchTypes, WorkerOK, RequestOK, Idle
<1>4. MatchInv'
  BY <1>1, <1>2, ListWritten DEF WatchInv, WatchTypes
<1> QED
  BY <1>3, <1>4 DEF WatchInv

\* This is how a request creates or updates one.
LEMMA WriteRequestInv ==
    ASSUME WatchInv, NEW w \in ListIds,
           \/ \E ts \in TermSets, n \in BOOLEAN : CreateWatchlist(w, ts, n) \/ UpdateTerms(w, ts, n)
           \/ \E e \in BOOLEAN : UpdateEnabled(w, e)
    PROVE  WatchInv'
<1>1. lists[w] \subseteq Entry
  BY DEF WatchInv, WatchTypes
<1>2. \A ts \in TermSets, n \in BOOLEAN :
         /\ [terms |-> ts, notify |-> n, enabled |-> TRUE] \in Entry
         /\ \A l \in Entry : [l EXCEPT !.terms = ts, !.notify = n] \in Entry
  BY DEF Entry
<1>3. \A e \in BOOLEAN, l \in Entry : [l EXCEPT !.enabled = e] \in Entry
  BY DEF Entry
<1> QED
  BY <1>1, <1>2, <1>3, WriteListInv DEF CreateWatchlist, UpdateTerms, UpdateEnabled

\* A request deletes a list.
LEMMA DeleteInv ==
    ASSUME WatchInv, NEW w \in ListIds, DeleteWatchlist(w)
    PROVE  WatchInv'
<1>1. /\ request = Idle /\ request' = Idle /\ sound' = sound \ {w}
      /\ lists' = [lists EXCEPT ![w] = {}]
      /\ UNCHANGED <<intel, finished, worker, evaluated, alerts>>
  BY DEF DeleteWatchlist, deskVars
<1>2. WatchTypes'
  BY <1>1, IdleSteps DEF WatchInv, WatchTypes, WorkerOK, RequestOK
<1>3. MatchInv'
  BY <1>1, IdleSteps, ListWritten DEF WatchInv, WatchTypes
<1> QED
  BY <1>2, <1>3 DEF WatchInv

\* A request that writes no list, and no alert, and covers nothing new.
LEMMA NothingNewCovered ==
    ASSUME WatchInv, UNCHANGED <<intel, finished, worker, evaluated, alerts, sound>>,
           \A w \in sound : lists'[w] = lists[w],
           request'.step # "backfill"
    PROVE  MatchInv'
<1> SUFFICES ASSUME NEW w \in ListIds, NEW p \in Posts, Covered(w)', Due(p, w)'
             PROVE  Settled(p, w)'
  BY DEF MatchInv
<1>1. w \in sound /\ Due(p, w)
  BY DEF Covered, Due
<1>2. Settled(p, w)
  BY <1>1 DEF WatchInv, MatchInv, Covered
<1>3. ~OwedByBackfill(p, w)
  BY <1>1 DEF OwedByBackfill, WatchInv, WatchTypes, RequestOK
<1> QED
  BY <1>2, <1>3 DEF Settled, OwedByWorker, Otherwise

\* The steps between the write and the backfill.
LEMMA AuditedInv ==
    ASSUME WatchInv, Audited \/ AuditFails \/ RequestStops
    PROVE  WatchInv'
<1>0. UNCHANGED <<intel, finished, worker, evaluated, alerts, sound>>
  BY DEF Audited, AuditFails, RequestStops, deskVars
<1>1. CASE Audited
  <2>1. /\ request.step = "audit" /\ UNCHANGED lists
        /\ \/ request' = [request EXCEPT !.step = "sample"]
           \/ request' = Idle
    BY <1>1 DEF Audited
  <2>2. CASE request' = Idle
    <3>1. WatchTypes'
      BY <1>0, <2>1, <2>2, IdleSteps DEF WatchInv, WatchTypes, WorkerOK, RequestOK
    <3> QED
      BY <1>0, <2>1, <2>2, <3>1, IdleSteps, NothingNewCovered DEF WatchInv
  <2>3. CASE request' = [request EXCEPT !.step = "sample"]
    <3>1. /\ request'.step = "sample" /\ request'.list = request.list
          /\ request'.terms = request.terms /\ request'.notify = request.notify
      BY <2>1, <2>3 DEF WatchInv, WatchTypes, RequestOK
    <3>2. WatchTypes'
      BY <1>0, <2>1, <3>1 DEF WatchInv, WatchTypes, WorkerOK, RequestOK
    <3> QED
      BY <1>0, <2>1, <3>1, <3>2, NothingNewCovered DEF WatchInv
  <2> QED
    BY <2>1, <2>2, <2>3
<1>2. CASE AuditFails \/ RequestStops
  <2>1. /\ request' = Idle /\ (lists' = lists \/ lists' = [lists EXCEPT ![request.list] = {}])
        /\ lists' = lists \/ request.list \in ListIds \ sound
    BY <1>2 DEF AuditFails, RequestStops, WatchInv, WatchTypes, RequestOK
  <2>2. WatchTypes'
    BY <1>0, <2>1, IdleSteps DEF WatchInv, WatchTypes, WorkerOK, RequestOK
  <2> QED
    BY <1>0, <2>1, <2>2, IdleSteps, NothingNewCovered DEF WatchInv, WatchTypes
<1> QED
  BY <1>1, <1>2

\* The posts a backfill goes through, newest first.
LEMMA NewestPostFirst ==
    ASSUME NEW S, S \subseteq Posts
    PROVE  /\ Ordered(S, >) \in Seq(Posts)
           /\ \A p \in S : In(p, Ordered(S, >))
<1> DEFINE R == {c \in S \X S : c[1] > c[2]}
           s == Ordered(S, >)
           n == Cardinality(S)
<1>1. Posts \subseteq Int /\ IsFiniteSet(Posts)
  BY WatchConstantsOK, FS_Interval DEF Posts
<1>2. IsFiniteSet(S) /\ n \in Nat
  BY <1>1, FS_Subset, FS_CardinalityType
<1>3. \A x, y \in S : <<x, y>> \in R <=> x > y
  OBVIOUS
<1>4. Orders(R, S)
  BY <1>1, <1>3 DEF Orders
<1>5. \A x \in S : {y \in S : y > x} = {y \in S : <<y, x>> \in R}
  BY <1>3
<1>6. \A i \in 1 .. n : \E x \in S : Cardinality({y \in S : y > x}) = i - 1
  <2> SUFFICES ASSUME NEW i \in 1 .. n
               PROVE  \E x \in S : Cardinality({y \in S : y > x}) = i - 1
    OBVIOUS
  <2>1. PICK x \in S : Rank(S, R, x) = i - 1
    BY <1>2, <1>4, RankTaken
  <2> QED
    BY <1>5, <2>1 DEF Rank
<1>7. s \in [1 .. n -> S] /\ \A i \in 1 .. n : Cardinality({y \in S : y > s[i]}) = i - 1
  BY <1>6 DEF Ordered
<1> HIDE DEF s, R
<1>8. \A i \in 1 .. n : Rank(S, R, s[i]) = i - 1
  BY <1>5, <1>7 DEF Rank
<1>9. \A x \in S : \E i \in 1 .. n : s[i] = x
  BY <1>2, <1>4, <1>7, <1>8, RankedCovers
<1>10. Len(s) = n /\ s \in Seq(Posts)
  BY <1>2, <1>7
<1> QED
  BY <1>9, <1>10 DEF In, s

\* The backfill owes every match in its sample, which is all posts unless truncated.
LEMMA LoadSampleInv ==
    ASSUME WatchInv, LoadSample
    PROVE  WatchInv'
<1> DEFINE matching == {p \in Sample : \E t \in intel[p] : Matches(request.terms, t)}
<1>1. /\ request.step = "sample" /\ request.list \in ListIds \ sound
      /\ UNCHANGED <<intel, finished, worker, evaluated, alerts, lists, sound>>
      /\ \A l \in lists[request.list] : l.terms = request.terms /\ l.notify = request.notify
  BY DEF LoadSample, deskVars, WatchInv, WatchTypes, RequestOK
<1>2. matching \subseteq Posts
  BY DEF Sample
<1>3. PICK todo, truncated :
        /\ todo \in Seq(Posts)
        /\ request' = [step |-> "backfill", list |-> request.list, todo |-> todo,
                       truncated |-> truncated]
        /\ request.notify => \A p \in matching : In(p, todo)
        /\ ~truncated => \A p \in Posts : intel[p] # {} => p \in Sample
  <2>1. request' = [step |-> "backfill", list |-> request.list,
                    todo |-> IF request.notify THEN Ordered(matching, >) ELSE <<>>,
                    truncated |-> \E p \in Posts : intel[p] # {} /\ p \notin Sample]
    BY DEF LoadSample
  <2>2. Ordered(matching, >) \in Seq(Posts) /\ \A p \in matching : In(p, Ordered(matching, >))
    BY <1>2, NewestPostFirst
  <2> HIDE DEF matching
  <2>3. CASE request.notify
    BY <2>1, <2>2, <2>3
  <2>4. CASE ~request.notify
    <3>1. <<>> \in Seq(Posts)
      OBVIOUS
    <3>2. PICK truncated :
            /\ request' = [step |-> "backfill", list |-> request.list, todo |-> <<>>,
                           truncated |-> truncated]
            /\ ~truncated => \A p \in Posts : intel[p] # {} => p \in Sample
      BY <2>1, <2>4
    <3> QED
      BY <2>4, <3>1, <3>2
  <2> QED
    BY <2>3, <2>4
<1>4. WatchTypes'
  BY <1>1, <1>3 DEF WatchInv, WatchTypes, WorkerOK, RequestOK, Idle
<1>5. MatchInv'
  <2> SUFFICES ASSUME NEW w \in ListIds, NEW p \in Posts, Covered(w)', Due(p, w)'
               PROVE  Settled(p, w)'
    BY DEF MatchInv
  <2>1. CASE w \in sound
    <3>1. Settled(p, w)
      BY <1>1, <2>1 DEF WatchInv, MatchInv, Covered, Due
    <3> QED
      BY <1>1, <3>1 DEF Settled, OwedByBackfill, OwedByWorker, Otherwise
  <2>2. CASE w \notin sound
    <3>1. request.list = w /\ ~request'.truncated
      BY <1>1, <1>3, <2>2 DEF Covered
    <3>2. p \in Sample
      BY <1>1, <1>3, <3>1 DEF Due
    <3>3. request.notify /\ p \in matching
      BY <1>1, <3>1, <3>2 DEF Due
    <3>4. In(p, request'.todo) /\ request'.step = "backfill" /\ request'.list = w
      BY <1>3, <3>1, <3>3
    <3> QED
      BY <3>4 DEF Settled, OwedByBackfill
  <2> QED
    BY <2>1, <2>2
<1> QED
  BY <1>4, <1>5 DEF WatchInv

\* It raises one alert, or has raised all and makes the list promised.
LEMMA BackfillInv ==
    ASSUME WatchInv, Backfill
    PROVE  WatchInv'
<1>1. PICK q, todo, truncated :
        /\ q \in ListIds \ sound /\ todo \in Seq(Posts)
        /\ request = [step |-> "backfill", list |-> q, todo |-> todo, truncated |-> truncated]
        /\ UNCHANGED <<intel, finished, worker, evaluated, lists>>
  <2>1. /\ request.step = "backfill" /\ request.list \in ListIds \ sound
        /\ request = [step |-> "backfill", list |-> request.list, todo |-> request.todo,
                      truncated |-> request.truncated]
        /\ request.todo \in Seq(Posts)
    BY DEF Backfill, WatchInv, WatchTypes, RequestOK
  <2>2. UNCHANGED <<intel, finished, worker, evaluated, lists>>
    BY DEF Backfill, deskVars
  <2> QED
    BY <2>1, <2>2
<1>2. CASE todo # <<>>
  <2>1. /\ alerts' = alerts \cup {<<Head(todo), q>>} /\ UNCHANGED sound
        /\ request' = [step |-> "backfill", list |-> q, todo |-> Tail(todo),
                       truncated |-> truncated]
    BY <1>1, <1>2 DEF Backfill
  <2>2. Tail(todo) \in Seq(Posts)
    BY <1>1, <1>2
  <2>3. WatchTypes'
    BY <1>1, <2>1, <2>2 DEF WatchInv, WatchTypes, WorkerOK, RequestOK, Idle
  <2>4. ASSUME NEW w \in ListIds, NEW p \in Posts, Covered(w)', Due(p, w)'
        PROVE  Settled(p, w)'
    <3>1. Settled(p, w)
      BY <1>1, <2>1, <2>4 DEF WatchInv, MatchInv, Covered, Due
    <3>2. OwedByBackfill(p, w) => <<p, w>> \in alerts' \/ OwedByBackfill(p, w)'
      BY <1>1, <1>2, <2>1, InTail DEF OwedByBackfill
    <3> QED
      BY <1>1, <2>1, <3>1, <3>2 DEF Settled, OwedByWorker, Otherwise
  <2> QED
    BY <2>3, <2>4 DEF WatchInv, MatchInv
<1>3. CASE todo = <<>>
  <2>1. /\ request' = Idle /\ UNCHANGED alerts
        /\ sound' = IF truncated THEN sound ELSE sound \cup {q}
    BY <1>1, <1>3 DEF Backfill
  <2>2. WatchTypes'
    BY <1>1, <2>1, IdleSteps DEF WatchInv, WatchTypes, WorkerOK, RequestOK
  <2>3. ASSUME NEW w \in ListIds, NEW p \in Posts, Covered(w)', Due(p, w)'
        PROVE  Settled(p, w)'
    <3>1. Covered(w)
      BY <1>1, <2>1, <2>3, IdleSteps DEF Covered
    <3>2. Settled(p, w)
      BY <1>1, <2>3, <3>1 DEF WatchInv, MatchInv, Due
    <3>3. ~OwedByBackfill(p, w)
      BY <1>1, <1>3 DEF OwedByBackfill, In
    <3> QED
      BY <1>1, <2>1, <3>2, <3>3 DEF Settled, OwedByWorker, Otherwise
  <2> QED
    BY <2>2, <2>3 DEF WatchInv, MatchInv
<1> QED
  BY <1>2, <1>3

\* Every step keeps the invariant.
LEMMA WatchNextInv == WatchInv /\ [WatchNext]_<<watchVars, lexVars>> => WatchInv'
<1>1. ASSUME WatchInv, UNCHANGED watchVars PROVE WatchInv'
  BY <1>1 DEF watchVars, deskVars, listVars, WatchInv, WatchTypes, WorkerOK, RequestOK, MatchInv,
              Covered, Due, Settled, OwedByBackfill, OwedByWorker, Otherwise
<1> QED
  BY <1>1, ClaimInv, StoreIntelInv, EvaluateListsInv, RaiseAlertInv, WorkerStopsInv,
     WriteRequestInv, DeleteInv, AuditedInv, LoadSampleInv, BackfillInv
     DEF WatchNext, Worker, Requests

\* Whatever the texts, lists, dictionaries and interleavings: a finished post
\* whose stored text matches a list that a full backfill followed has its alert
\* (watchlists.py, _evaluate_alerts of the processor).
THEOREM MonitoredMatchesAreAlerted == WatchSpec => []NoMatchMissed
<1>1. WatchInv => NoMatchMissed
  <2> SUFFICES ASSUME WatchInv, NEW w \in sound, NEW p \in finished,
                      NEW l \in lists[w], NEW t \in intel[p],
                      l.enabled, l.notify, Matches(l.terms, t),
                      evaluated[p] \in {{}, intel[p]}
               PROVE  <<p, w>> \in alerts
    BY DEF NoMatchMissed
  <2>1. w \in ListIds /\ p \in Posts
    BY DEF WatchInv, WatchTypes
  <2>2. Covered(w) /\ Due(p, w)
    BY DEF Covered, Due
  <2>3. Settled(p, w)
    BY <2>1, <2>2 DEF WatchInv, MatchInv
  <2>4. ~OwedByBackfill(p, w)
    BY DEF OwedByBackfill, WatchInv, WatchTypes, RequestOK
  <2> QED
    BY <2>3, <2>4 DEF Settled, OwedByWorker, Otherwise
<1> QED
  BY <1>1, WatchInitInv, WatchNextInv, PTL DEF WatchSpec

-----------------------------------------------------------------------------
(* Paging *)

\* Where a walk stands: the cursor is a row of the catalogue, or none on the first page.
IntelWalk == [list : {"intel"}, limit : Limits, from : Nat,
              cursor : {First} \cup {{r} : r \in Catalogue}]
Actor == [alias : Nat, count : Nat]
ActorsWalk == [list : {"actors"}, limit : Limits, cursor : {First} \cup {{a} : a \in Actor}]

PagingTypes ==
    /\ records \subseteq Catalogue /\ start \subseteq records
    /\ walk.list \in {"none", "intel", "actors", "done"}
    /\ walk.list = "none" => listed = <<>>
    /\ walk.list = "intel" => walk \in IntelWalk
    /\ walk.list = "actors" => walk \in ActorsWalk
    /\ walk.list = "done" =>
          walk = [list |-> "done", of |-> walk.of] /\ walk.of \in IntelWalk \cup ActorsWalk

\* The records come from newer to older.
NewestFirst(s) ==
    /\ s \in Seq(Catalogue)
    /\ \A i, j \in 1 .. Len(s) : i < j => Newer(s[i], s[j])

\* The records the walk w owes its client.
Wanted(r, w) == Complete(r) /\ r.at >= w.from

\* Of a walk through the intelligence: what is listed comes before the cursor or
\* is its row, and what is owed of the start is listed or comes after it.
IntelInv ==
    /\ walk.list = "intel" =>
          /\ NewestFirst(listed) /\ (walk.cursor = First => listed = <<>>)
          /\ \A c \in walk.cursor, i \in 1 .. Len(listed) : listed[i] = c \/ Newer(listed[i], c)
          /\ \A r \in start : Wanted(r, walk) =>
                In(r, listed) \/ \A c \in walk.cursor : Newer(c, r)
    /\ walk.list = "done" /\ walk.of.list = "intel" =>
          /\ NewestFirst(listed)
          /\ \A r \in start : Wanted(r, walk.of) => In(r, listed)

\* No actor is listed twice.
OneEach(s) ==
    /\ s \in Seq(Actor)
    /\ \A i, j \in 1 .. Len(s) : i # j => s[i].alias # s[j].alias
\* The actor is listed, maybe with the count it had then.
Named(a, s) == \E i \in 1 .. Len(s) : s[i].alias = a.alias
\* No listing of the actor was stored since it was counted.
Unmoved(a) == Listings(records, a.alias) = a.count

\* Of a walk through the actors the same, as they are counted now: an actor that
\* is listed never falls behind its count, so it cannot come after the cursor
\* again; one that was not moved up is listed or comes after it.
ActorsInv ==
    /\ walk.list = "actors" =>
          /\ OneEach(listed) /\ (walk.cursor = First => listed = <<>>)
          /\ \A i \in 1 .. Len(listed) : listed[i].count <= Listings(records, listed[i].alias)
          /\ \A c \in walk.cursor, i \in 1 .. Len(listed) : listed[i] = c \/ Busier(listed[i], c)
          /\ \A a \in Actors(start) : Unmoved(a) =>
                Named(a, listed) \/ \A c \in walk.cursor : Busier(c, a)
    /\ walk.list = "done" /\ walk.of.list = "actors" =>
          /\ OneEach(listed)
          /\ \A a \in Actors(start) : Unmoved(a) => Named(a, listed)

PagingInv == PagingTypes /\ IntelInv /\ ActorsInv

\* Newest first is a strict total order, as no two records have one id.
LEMMA NewerOrders ==
    ASSUME NEW S, S \subseteq Catalogue
    PROVE  Orders({c \in S \X S : Newer(c[1], c[2])}, S)
BY PagingConstantsOK DEF Orders, Newer

\* So the query lists all it finds, newest first.
LEMMA SortedByTime ==
    ASSUME NEW S, S \subseteq Catalogue
    PROVE  /\ NewestFirst(Ordered(S, Newer))
           /\ \A i \in 1 .. Len(Ordered(S, Newer)) : Ordered(S, Newer)[i] \in S
           /\ \A r \in S : In(r, Ordered(S, Newer))
<1> DEFINE R == {c \in S \X S : Newer(c[1], c[2])}
           s == Ordered(S, Newer)
           n == Cardinality(S)
<1>1. IsFiniteSet(S) /\ n \in Nat /\ Orders(R, S)
  BY NewerOrders, PagingConstantsOK, FS_Subset, FS_CardinalityType
<1>2. \A x, y \in S : <<x, y>> \in R <=> Newer(x, y)
  OBVIOUS
<1>3. \A x \in S : {y \in S : Newer(y, x)} = {y \in S : <<y, x>> \in R}
  BY <1>2
<1>4. \A i \in 1 .. n : \E x \in S : Cardinality({y \in S : Newer(y, x)}) = i - 1
  <2> SUFFICES ASSUME NEW i \in 1 .. n
               PROVE  \E x \in S : Cardinality({y \in S : Newer(y, x)}) = i - 1
    OBVIOUS
  <2>1. PICK x \in S : Rank(S, R, x) = i - 1
    BY <1>1, RankTaken
  <2> QED
    BY <1>3, <2>1 DEF Rank
<1>5. s \in [1 .. n -> S] /\ \A i \in 1 .. n : Cardinality({y \in S : Newer(y, s[i])}) = i - 1
  BY <1>4 DEF Ordered
<1> HIDE DEF s, R
<1>6. \A i \in 1 .. n : Rank(S, R, s[i]) = i - 1
  BY <1>3, <1>5 DEF Rank
<1>7. /\ \A i, j \in 1 .. n : i < j => <<s[i], s[j]>> \in R
      /\ \A x \in S : \E i \in 1 .. n : s[i] = x
  <2>1. /\ IsFiniteSet(S) /\ Orders(R, S) /\ s \in [1 .. Cardinality(S) -> S]
        /\ \A i \in 1 .. Cardinality(S) : Rank(S, R, s[i]) = i - 1
    BY <1>1, <1>5, <1>6
  <2>2. ASSUME NEW x \in S PROVE \E i \in 1 .. n : s[i] = x
    BY <1>1, <1>5, <1>6, <2>2, RankedCovers
  <2>3. \A i, j \in 1 .. n : i < j => <<s[i], s[j]>> \in R
    BY <2>1, RankedIsSorted
  <2> QED
    BY <2>2, <2>3
<1>8. Len(s) = n /\ s \in Seq(Catalogue)
  BY <1>1, <1>5
<1> QED
  BY <1>2, <1>5, <1>7, <1>8 DEF NewestFirst, In, s

\* The lesser of two numbers.
LEMMA OneOfTwo ==
    ASSUME NEW l \in Nat, NEW n \in Nat
    PROVE  Min({l, n}) = IF l <= n THEN l ELSE n
<1>1. \E x \in {l, n} : \A y \in {l, n} : x <= y
  OBVIOUS
<1>2. Min({l, n}) \in {l, n} /\ \A y \in {l, n} : Min({l, n}) <= y
  BY <1>1 DEF Min
<1> QED
  BY <1>2

\* The rows of a page are the first of the query.
LEMMA FirstRows ==
    ASSUME NEW T, NEW rows \in Seq(T), walk.limit \in Nat \ {0}
    PROVE  /\ Page(rows) \in Seq(T)
           /\ Len(Page(rows)) = IF walk.limit <= Len(rows) THEN walk.limit ELSE Len(rows)
           /\ \A i \in 1 .. Len(Page(rows)) : Page(rows)[i] = rows[i]
<1> DEFINE m == IF walk.limit <= Len(rows) THEN walk.limit ELSE Len(rows)
<1>1. m \in Nat /\ m <= Len(rows)
  OBVIOUS
<1>2. Page(rows) = SubSeq(rows, 1, m)
  BY OneOfTwo DEF Page
<1> QED
  BY <1>1, <1>2

\* A page of the intelligence keeps the invariant, and the last one ends with all listed.
LEMMA IntelPageInv ==
    ASSUME PagingInv, IntelPage
    PROVE  PagingInv'
<1> DEFINE S == {r \in Behind(walk.cursor) : r.at >= walk.from}
           T(rows) == {r \in Range(Page(rows)) : Complete(r)}
<1>0. /\ walk.list = "intel" /\ walk \in IntelWalk /\ S \subseteq records
      /\ records \subseteq Catalogue /\ start \subseteq records
      /\ walk.limit \in Nat \ {0}
  BY PagingConstantsOK DEF IntelPage, PagingInv, PagingTypes, Behind, IntelWalk
<1>1. PICK rows :
        /\ rows = Ordered(S, Newer) /\ NewestFirst(rows)
        /\ \A i \in 1 .. Len(rows) : rows[i] \in S
        /\ \A r \in S : In(r, rows)
  BY <1>0, SortedByTime
<1>2. rows \in Seq(Catalogue) /\ Len(rows) \in Nat
  BY <1>1 DEF NewestFirst
<1>3. PICK m \in Nat :
        /\ m = IF walk.limit <= Len(rows) THEN walk.limit ELSE Len(rows)
        /\ Page(rows) \in Seq(Catalogue) /\ Len(Page(rows)) = m
        /\ \A i \in 1 .. m : Page(rows)[i] = rows[i]
  BY <1>0, <1>2, FirstRows
<1>4. \A r : r \in Range(Page(rows)) <=> \E i \in 1 .. m : r = rows[i]
  BY <1>3 DEF Range
<1>5. PICK shown :
        /\ shown = Ordered(T(rows), Newer) /\ NewestFirst(shown)
        /\ \A i \in 1 .. Len(shown) : shown[i] \in T(rows)
        /\ \A r \in T(rows) : In(r, shown)
  <2>1. T(rows) \subseteq Catalogue
    BY <1>2, <1>3, <1>4
  <2> QED
    BY <2>1, SortedByTime
<1>6. /\ listed' = listed \o shown /\ UNCHANGED <<records, start>>
      /\ walk' = IF Len(rows) > walk.limit
                 THEN [walk EXCEPT !.cursor = {Last(Page(rows))}]
                 ELSE [list |-> "done", of |-> walk]
  BY <1>1, <1>5 DEF IntelPage, ShowPage
<1>7. /\ \A r \in S : r \in Catalogue /\ r.at >= walk.from /\ \A c \in walk.cursor : Newer(c, r)
      /\ \A r \in T(rows) : Complete(r) /\ \E k \in 1 .. m : r = rows[k]
      /\ \A k \in 1 .. m : Complete(rows[k]) => rows[k] \in T(rows)
      /\ \A r \in start : Wanted(r, walk) /\ (\A c \in walk.cursor : Newer(c, r)) => r \in S
  <2>1. \A c \in walk.cursor : c \in Catalogue
    BY <1>0 DEF IntelWalk, First
  <2>2. \A r \in records, c \in walk.cursor :
           Newer(c, r) <=> r.at < c.at \/ (r.at <= c.at /\ r.id < c.id)
    BY <1>0, <2>1, PagingConstantsOK DEF Newer
  <2>3. \A r \in S : r \in Catalogue /\ r.at >= walk.from /\ \A c \in walk.cursor : Newer(c, r)
    BY <1>0, <2>2 DEF Behind
  <2>4. \A r \in start : Wanted(r, walk) /\ (\A c \in walk.cursor : Newer(c, r)) => r \in S
    BY <1>0, <2>2 DEF Behind, Wanted
  <2> HIDE DEF S
  <2>5. \A r \in T(rows) : Complete(r) /\ \E k \in 1 .. m : r = rows[k]
    BY <1>4
  <2>6. \A k \in 1 .. m : Complete(rows[k]) => rows[k] \in T(rows)
    BY <1>4
  <2> QED
    BY <2>3, <2>4, <2>5, <2>6
<1> HIDE DEF S, T
<1>8. /\ NewestFirst(listed) /\ (walk.cursor = First => listed = <<>>)
      /\ \A c \in walk.cursor, i \in 1 .. Len(listed) : listed[i] = c \/ Newer(listed[i], c)
      /\ \A r \in start : Wanted(r, walk) =>
            In(r, listed) \/ \A c \in walk.cursor : Newer(c, r)
  BY <1>0 DEF PagingInv, IntelInv
<1>9. /\ listed \in Seq(Catalogue) /\ shown \in Seq(Catalogue)
      /\ Len(listed) \in Nat /\ Len(shown) \in Nat
      /\ listed' \in Seq(Catalogue) /\ Len(listed') = Len(listed) + Len(shown)
      /\ \A i \in 1 .. Len(listed) : listed'[i] = listed[i]
      /\ \A i \in 1 .. Len(listed') : i > Len(listed) =>
            /\ i - Len(listed) \in 1 .. Len(shown)
            /\ listed'[i] = shown[i - Len(listed)]
  BY <1>5, <1>6, <1>8 DEF NewestFirst
\* What is listed now comes before what the page adds.
<1>10. \A i \in 1 .. Len(listed), r \in S : Newer(listed[i], r)
  <2> SUFFICES ASSUME NEW i \in 1 .. Len(listed), NEW r \in S PROVE Newer(listed[i], r)
    OBVIOUS
  <2>1. PICK c : c \in walk.cursor /\ c \in Catalogue
    BY <1>0, <1>8 DEF IntelWalk, First
  <2>2. (listed[i] = c \/ Newer(listed[i], c)) /\ Newer(c, r) /\ listed[i] \in Catalogue /\ r \in Catalogue
    BY <1>7, <1>8, <1>9, <2>1
  <2> QED
    BY <2>1, <2>2, PagingConstantsOK DEF Newer
<1>11. NewestFirst(listed')
  <2>1. ASSUME NEW i \in 1 .. Len(listed'), NEW j \in 1 .. Len(listed'), i < j
        PROVE  Newer(listed'[i], listed'[j])
    <3>1. CASE j <= Len(listed)
      BY <1>8, <1>9, <2>1, <3>1 DEF NewestFirst
    <3>2. CASE i <= Len(listed) /\ j > Len(listed)
      <4>1. listed'[j] \in T(rows)
        BY <1>5, <1>9, <3>2
      <4>2. listed'[j] \in S
        BY <1>1, <1>3, <1>7, <4>1
      <4> QED
        BY <1>9, <1>10, <3>2, <4>2
    <3>3. CASE i > Len(listed)
      <4> DEFINE a == i - Len(listed)
                 b == j - Len(listed)
      <4>1. /\ a \in 1 .. Len(shown) /\ b \in 1 .. Len(shown) /\ a < b
            /\ listed'[i] = shown[a] /\ listed'[j] = shown[b]
        BY <1>9, <2>1, <3>3
      <4> HIDE DEF a, b
      <4> QED
        BY <1>5, <4>1 DEF NewestFirst
    <3> QED
      BY <1>9, <3>1, <3>2, <3>3
  <2> QED
    BY <1>9, <2>1 DEF NewestFirst
\* What the page owes is on it, if it is among its rows.
<1>12. \A r \in start : Wanted(r, walk) => In(r, listed') \/ \E k \in 1 .. Len(rows) : k > m /\ r = rows[k]
  <2> SUFFICES ASSUME NEW r \in start, Wanted(r, walk), ~(\E k \in 1 .. Len(rows) : k > m /\ r = rows[k])
               PROVE  In(r, listed')
    OBVIOUS
  <2>1. CASE In(r, listed)
    BY <1>9, <2>1 DEF In
  <2>2. CASE ~In(r, listed)
    <3>1. r \in S
      BY <1>7, <1>8, <2>2
    <3>2. PICK k \in 1 .. Len(rows) : rows[k] = r
      BY <1>1, <3>1 DEF In
    <3>3. r \in T(rows)
      BY <1>2, <1>7, <3>2 DEF Wanted
    <3>4. PICK i \in 1 .. Len(shown) : shown[i] = r
      BY <1>5, <3>3 DEF In
    <3>5. Len(listed) + i \in 1 .. Len(listed') /\ listed'[Len(listed) + i] = shown[i]
      <4>1. Len(listed) + i \in 1 .. Len(listed') /\ Len(listed) + i > Len(listed)
        BY <1>9
      <4> QED
        BY <1>9, <4>1
    <3> QED
      BY <3>4, <3>5 DEF In
  <2> QED
    BY <2>1, <2>2
<1>13. CASE Len(rows) > walk.limit
  <2>1. m = walk.limit /\ m \in 1 .. Len(rows)
    BY <1>0, <1>2, <1>3, <1>13
  <2>2. PICK c : c = rows[m] /\ c \in S /\ c \in Catalogue
    BY <1>1, <1>7, <2>1
  <2>3. Last(Page(rows)) = c
    BY <1>3, <2>1, <2>2 DEF Last
  <2>4. walk' = [list |-> "intel", limit |-> walk.limit, from |-> walk.from, cursor |-> {c}]
    BY <1>0, <1>6, <1>13, <2>3 DEF IntelWalk
  <2>5. PagingTypes'
    <3>1. walk' \in IntelWalk
      BY <1>0, <2>2, <2>4 DEF IntelWalk
    <3>2. walk'.list = "intel"
      BY <2>4
    <3> QED
      BY <1>0, <1>6, <3>1, <3>2 DEF PagingTypes
  <2>6. ASSUME NEW i \in 1 .. Len(listed')
        PROVE  listed'[i] = c \/ Newer(listed'[i], c)
    <3>1. CASE i <= Len(listed)
      BY <1>9, <1>10, <2>2, <3>1
    <3>2. CASE i > Len(listed)
      <4>1. listed'[i] \in T(rows)
        BY <1>5, <1>9, <3>2
      <4>2. PICK k \in 1 .. m : listed'[i] = rows[k]
        BY <1>7, <4>1
      <4>3. k = m \/ (k < m /\ k \in 1 .. Len(rows) /\ m \in 1 .. Len(rows))
        BY <1>2, <2>1
      <4> QED
        BY <1>1, <2>2, <4>2, <4>3 DEF NewestFirst
    <3> QED
      BY <1>9, <3>1, <3>2
  <2>7. ASSUME NEW r \in start, Wanted(r, walk) PROVE In(r, listed') \/ Newer(c, r)
    <3>1. CASE In(r, listed')
      BY <3>1
    <3>2. CASE ~In(r, listed')
      <4>1. PICK k \in 1 .. Len(rows) : k > m /\ r = rows[k]
        BY <1>12, <2>7, <3>2
      <4> QED
        BY <1>1, <2>1, <2>2, <4>1 DEF NewestFirst
    <3> QED
      BY <3>1, <3>2
  <2>8. IntelInv'
    <3>1. walk'.list = "intel" /\ walk'.cursor = {c} /\ walk'.from = walk.from /\ {c} # {}
      BY <2>4
    <3>2. \A r \in start : Wanted(r, walk)' <=> Wanted(r, walk)
      BY <3>1 DEF Wanted, Complete
    <3> QED
      BY <1>6, <1>11, <2>6, <2>7, <3>1, <3>2 DEF IntelInv, First
  <2>9. ActorsInv'
    BY <2>4 DEF ActorsInv
  <2> QED
    BY <2>5, <2>8, <2>9 DEF PagingInv
<1>14. CASE ~(Len(rows) > walk.limit)
  <2>1. walk' = [list |-> "done", of |-> walk] /\ m = Len(rows)
    BY <1>0, <1>2, <1>3, <1>6, <1>14
  <2>2. PagingTypes'
    BY <1>0, <1>6, <2>1 DEF PagingTypes
  <2>3. \A r \in start : Wanted(r, walk) => In(r, listed')
    BY <1>12, <2>1
  <2>4. IntelInv'
    BY <1>6, <1>11, <2>1, <2>3 DEF IntelInv, Wanted
  <2>5. ActorsInv'
    BY <1>0, <2>1 DEF ActorsInv
  <2> QED
    BY <2>2, <2>4, <2>5 DEF PagingInv
<1> QED
  BY <1>13, <1>14

\* An actor's listings only grow.
LEMMA ListingsGrow ==
    ASSUME NEW stored, NEW more, stored \subseteq more, more \subseteq Catalogue, NEW alias
    PROVE  /\ Listings(stored, alias) \in Nat /\ Listings(more, alias) \in Nat
           /\ Listings(stored, alias) <= Listings(more, alias)
<1> DEFINE A == {r \in stored : alias \in r.aliases}
           B == {r \in more : alias \in r.aliases}
<1>1. IsFiniteSet(B) /\ A \in SUBSET B
  BY PagingConstantsOK, FS_Subset
<1>2. IsFiniteSet(A) /\ Cardinality(A) <= Cardinality(B)
  BY <1>1, FS_Subset
<1>3. Cardinality(A) \in Nat /\ Cardinality(B) \in Nat
  BY <1>1, <1>2, FS_CardinalityType
<1> QED
  BY <1>2, <1>3 DEF Listings

\* The actors are finitely many, each with its listings.
LEMMA ActorsAre ==
    ASSUME NEW stored, stored \subseteq Catalogue
    PROVE  /\ IsFiniteSet(Actors(stored)) /\ Actors(stored) \subseteq Actor
           /\ \A a \in Actors(stored) : a.count = Listings(stored, a.alias)
<1> DEFINE f == [r \in stored |-> r.aliases]
           F == {r.aliases : r \in stored}
           U == UNION F
           g == [a \in U |-> [alias |-> a, count |-> Listings(stored, a)]]
<1>1. IsFiniteSet(stored)
  BY PagingConstantsOK, FS_Subset
<1>2. f \in Surjection(stored, F)
  BY DEF Surjection
<1>3. IsFiniteSet(F)
  BY <1>1, <1>2, FS_Surjection
<1>4. \A T \in F : IsFiniteSet(T) /\ T \subseteq Nat
  BY PagingConstantsOK
<1>5. IsFiniteSet(U) /\ U \subseteq Nat
  BY <1>3, <1>4, FS_UNION
<1>6. Actors(stored) = {[alias |-> a, count |-> Listings(stored, a)] : a \in U}
  BY DEF Actors
<1> HIDE DEF U
<1>7. g \in Surjection(U, Actors(stored))
  BY <1>6 DEF Surjection
<1>8. IsFiniteSet(Actors(stored))
  BY <1>5, <1>7, FS_Surjection
<1>9. \A a \in U : Listings(stored, a) \in Nat
  BY ListingsGrow
<1>10. ASSUME NEW a \in Actors(stored)
       PROVE  a \in Actor /\ a.count = Listings(stored, a.alias)
  <2>1. PICK alias \in U : a = [alias |-> alias, count |-> Listings(stored, alias)]
    BY <1>6
  <2>2. a.alias = alias /\ a.count = Listings(stored, alias)
    BY <2>1
  <2>3. alias \in Nat /\ Listings(stored, alias) \in Nat
    BY <1>5, <1>9
  <2> QED
    BY <2>1, <2>2, <2>3 DEF Actor
<1> QED
  BY <1>8, <1>10

\* The query lists all actors it finds, the busiest first.
LEMMA SortedByListings ==
    ASSUME NEW stored, stored \subseteq Catalogue, NEW S, S \subseteq Actors(stored)
    PROVE  /\ Ordered(S, Busier) \in Seq(Actor)
           /\ \A i \in 1 .. Len(Ordered(S, Busier)) : Ordered(S, Busier)[i] \in S
           /\ \A i, j \in 1 .. Len(Ordered(S, Busier)) :
                 i < j => Busier(Ordered(S, Busier)[i], Ordered(S, Busier)[j])
           /\ \A a \in S : In(a, Ordered(S, Busier))
<1> DEFINE R == {c \in S \X S : Busier(c[1], c[2])}
           s == Ordered(S, Busier)
           n == Cardinality(S)
<1>1. /\ IsFiniteSet(S) /\ n \in Nat /\ S \subseteq Actor
      /\ \A a \in S : a.count = Listings(stored, a.alias)
  BY ActorsAre, FS_Subset, FS_CardinalityType
<1>2. \A x, y \in S : <<x, y>> \in R <=> Busier(x, y)
  OBVIOUS
<1>3. Orders(R, S)
  <2>1. \A x, y \in S : x # y => x.alias # y.alias
    BY <1>1 DEF Actor
  <2>2. \A x, y \in S : x # y => Busier(x, y) \/ Busier(y, x)
    BY <1>1, <2>1 DEF Busier, Actor
  <2>3. /\ \A x \in S : ~Busier(x, x)
        /\ \A x, y, z \in S : Busier(x, y) /\ Busier(y, z) => Busier(x, z)
    BY <1>1 DEF Busier, Actor
  <2> HIDE DEF R
  <2> QED
    BY <1>2, <2>2, <2>3 DEF Orders
<1>4. \A x \in S : {y \in S : Busier(y, x)} = {y \in S : <<y, x>> \in R}
  BY <1>2
<1>5. \A i \in 1 .. n : \E x \in S : Cardinality({y \in S : Busier(y, x)}) = i - 1
  <2> SUFFICES ASSUME NEW i \in 1 .. n
               PROVE  \E x \in S : Cardinality({y \in S : Busier(y, x)}) = i - 1
    OBVIOUS
  <2>1. PICK x \in S : Rank(S, R, x) = i - 1
    BY <1>1, <1>3, RankTaken
  <2> QED
    BY <1>4, <2>1 DEF Rank
<1>6. s \in [1 .. n -> S] /\ \A i \in 1 .. n : Cardinality({y \in S : Busier(y, s[i])}) = i - 1
  BY <1>5 DEF Ordered
<1> HIDE DEF s, R
<1>7. \A i \in 1 .. n : Rank(S, R, s[i]) = i - 1
  BY <1>4, <1>6 DEF Rank
<1>8. ASSUME NEW x \in S PROVE \E i \in 1 .. n : s[i] = x
  BY <1>1, <1>3, <1>6, <1>7, <1>8, RankedCovers
<1>9. \A i, j \in 1 .. n : i < j => <<s[i], s[j]>> \in R
  BY <1>1, <1>3, <1>6, <1>7, RankedIsSorted
<1>10. Len(s) = n /\ s \in Seq(Actor)
  BY <1>1, <1>6
<1> QED
  BY <1>2, <1>6, <1>8, <1>9, <1>10 DEF In, s

\* A page of the actors keeps the invariant.
LEMMA ActorsPageInv ==
    ASSUME PagingInv, ActorsPage
    PROVE  PagingInv'
<1> DEFINE S == ActorsBehind(walk.cursor)
<1>0. /\ walk.list = "actors" /\ walk \in ActorsWalk /\ S \subseteq Actors(records)
      /\ records \subseteq Catalogue /\ start \subseteq records
      /\ walk.limit \in Nat \ {0}
      /\ \A a \in S, c \in walk.cursor : Busier(c, a)
  <2>1. walk.list = "actors" /\ walk \in ActorsWalk /\ records \subseteq Catalogue /\ start \subseteq records
    BY DEF ActorsPage, PagingInv, PagingTypes
  <2>2. walk.limit \in Nat \ {0}
    BY <2>1, PagingConstantsOK DEF ActorsWalk
  <2>3. ASSUME NEW c \in walk.cursor PROVE c \in Actor
    <3>1. walk.cursor \in {First} \cup {{a} : a \in Actor}
      BY <2>1 DEF ActorsWalk
    <3> HIDE DEF Actor
    <3> QED
      BY <3>1 DEF First
  <2>4. S \subseteq Actors(records) /\ Actors(records) \subseteq Actor
    BY <2>1, ActorsAre DEF ActorsBehind
  <2>5. ASSUME NEW a \in S, NEW c \in walk.cursor PROVE Busier(c, a)
    <3>1. a \in Actor /\ c \in Actor
      BY <2>3, <2>4
    <3>2. a.count < c.count \/ (a.count = c.count /\ a.alias > c.alias)
      BY DEF ActorsBehind
    <3> QED
      BY <3>1, <3>2 DEF Busier, Actor
  <2> QED
    BY <2>1, <2>2, <2>4, <2>5
<1>1. PICK rows :
        /\ rows = Ordered(S, Busier) /\ rows \in Seq(Actor)
        /\ \A i \in 1 .. Len(rows) : rows[i] \in S
        /\ \A i, j \in 1 .. Len(rows) : i < j => Busier(rows[i], rows[j])
        /\ \A a \in S : In(a, rows)
  BY <1>0, SortedByListings
<1>2. PICK m \in Nat, shown \in Seq(Actor) :
        /\ m = IF walk.limit <= Len(rows) THEN walk.limit ELSE Len(rows)
        /\ shown = Page(rows) /\ Len(shown) = m
        /\ \A i \in 1 .. m : shown[i] = rows[i]
  BY <1>0, <1>1, FirstRows
<1>3. /\ listed' = listed \o shown /\ UNCHANGED <<records, start>>
      /\ walk' = IF Len(rows) > walk.limit
                 THEN [walk EXCEPT !.cursor = {Last(shown)}]
                 ELSE [list |-> "done", of |-> walk]
  BY <1>1, <1>2 DEF ActorsPage, ShowPage
<1>4. /\ \A a \in S : a \in Actor /\ a.count = Listings(records, a.alias)
      /\ \A a \in Actors(start) : a \in Actor
      /\ \A alias \in Nat : Listings(records, alias) \in Nat
  BY <1>0, ActorsAre, ListingsGrow
<1>5. \A a \in Actors(start) : Unmoved(a) => a \in Actors(records)
  BY <1>0 DEF Actors, Unmoved
<1>6. \A a \in Actors(start) : Unmoved(a) /\ (\A c \in walk.cursor : Busier(c, a)) => a \in S
  <2>1. \A c \in walk.cursor : c \in Actor
    BY <1>0 DEF ActorsWalk, First
  <2> QED
    BY <1>4, <1>5, <2>1 DEF ActorsBehind, Busier, Actor
<1> HIDE DEF S
<1>8. /\ OneEach(listed) /\ (walk.cursor = First => listed = <<>>)
      /\ \A i \in 1 .. Len(listed) : listed[i].count <= Listings(records, listed[i].alias)
      /\ \A c \in walk.cursor, i \in 1 .. Len(listed) : listed[i] = c \/ Busier(listed[i], c)
      /\ \A a \in Actors(start) : Unmoved(a) =>
            Named(a, listed) \/ \A c \in walk.cursor : Busier(c, a)
  BY <1>0 DEF PagingInv, ActorsInv
<1>9. /\ listed \in Seq(Actor) /\ Len(listed) \in Nat /\ Len(rows) \in Nat /\ m <= Len(rows)
      /\ listed' \in Seq(Actor) /\ Len(listed') = Len(listed) + m
      /\ \A i \in 1 .. Len(listed) : listed'[i] = listed[i]
      /\ \A i \in 1 .. Len(listed') : i > Len(listed) =>
            /\ i - Len(listed) \in 1 .. m
            /\ listed'[i] = rows[i - Len(listed)]
  <2>1. /\ listed \in Seq(Actor) /\ Len(listed) \in Nat /\ Len(rows) \in Nat /\ m <= Len(rows)
        /\ shown \in Seq(Actor) /\ Len(shown) = m
    BY <1>0, <1>1, <1>2, <1>8 DEF OneEach
  <2> HIDE DEF Actor
  <2>2. /\ listed' \in Seq(Actor) /\ Len(listed') = Len(listed) + m
        /\ \A i \in 1 .. Len(listed) : listed'[i] = listed[i]
        /\ \A i \in 1 .. Len(listed') : i > Len(listed) =>
              /\ i - Len(listed) \in 1 .. m
              /\ listed'[i] = shown[i - Len(listed)]
    BY <1>3, <2>1
  <2>3. \A i \in 1 .. m : shown[i] = rows[i]
    BY <1>2
  <2> QED
    BY <2>1, <2>2, <2>3
<1>10. \A i \in 1 .. Len(listed), a \in S : Busier(listed[i], a) /\ listed[i].alias # a.alias
  <2> SUFFICES ASSUME NEW i \in 1 .. Len(listed), NEW a \in S
               PROVE  Busier(listed[i], a) /\ listed[i].alias # a.alias
    OBVIOUS
  <2>1. PICK c : c \in walk.cursor /\ c \in Actor
    BY <1>0, <1>8 DEF ActorsWalk, First
  <2>2. /\ listed[i] = c \/ Busier(listed[i], c)
        /\ Busier(c, a) /\ listed[i] \in Actor /\ a \in Actor
    <3>1. listed[i] = c \/ Busier(listed[i], c)
      BY <1>8, <2>1
    <3>2. Busier(c, a) /\ a \in Actor
      BY <1>0, <1>4, <2>1
    <3>3. listed[i] \in Actor
      <4> HIDE DEF Actor
      <4> QED
        BY <1>9
    <3> QED
      BY <3>1, <3>2, <3>3
  <2>3. Busier(listed[i], a)
    BY <2>1, <2>2 DEF Busier, Actor
  <2>4. listed[i].count <= Listings(records, listed[i].alias) /\ a.count = Listings(records, a.alias)
    BY <1>4, <1>8
  <2> QED
    BY <2>2, <2>3, <2>4 DEF Busier, Actor
<1>11. OneEach(listed')
  <2>1. ASSUME NEW i \in 1 .. Len(listed'), NEW j \in 1 .. Len(listed'), i < j
        PROVE  listed'[i].alias # listed'[j].alias
    <3>1. CASE j <= Len(listed)
      <4>1. i \in 1 .. Len(listed) /\ j \in 1 .. Len(listed) /\ i # j
        BY <1>9, <2>1, <3>1
      <4>2. listed'[i] = listed[i] /\ listed'[j] = listed[j]
        BY <1>9, <4>1
      <4>3. listed[i].alias # listed[j].alias
        BY <1>8, <4>1 DEF OneEach
      <4> QED
        BY <4>2, <4>3
    <3>2. CASE i <= Len(listed) /\ j > Len(listed)
      <4> DEFINE k == j - Len(listed)
      <4>1. k \in 1 .. Len(rows) /\ listed'[j] = rows[k]
        BY <1>9, <2>1, <3>2
      <4>2. i \in 1 .. Len(listed) /\ listed'[i] = listed[i]
        BY <1>9, <2>1, <3>2
      <4> HIDE DEF k
      <4>3. rows[k] \in S
        BY <1>1, <4>1
      <4>4. listed[i].alias # rows[k].alias
        BY <1>10, <4>2, <4>3
      <4> QED
        BY <4>1, <4>2, <4>4
    <3>3. CASE i > Len(listed)
      <4> DEFINE a == i - Len(listed)
                 b == j - Len(listed)
      <4>1. /\ a \in 1 .. Len(rows) /\ b \in 1 .. Len(rows) /\ a < b
            /\ listed'[i] = rows[a] /\ listed'[j] = rows[b]
        BY <1>9, <2>1, <3>3
      <4> HIDE DEF a, b
      <4>2. Busier(rows[a], rows[b]) /\ rows[a] \in S /\ rows[b] \in S
        BY <1>1, <4>1
      <4>3. /\ rows[a].alias \in Nat /\ rows[a].count = Listings(records, rows[a].alias)
            /\ rows[b].alias \in Nat /\ rows[b].count = Listings(records, rows[b].alias)
            /\ rows[a].count \in Nat /\ rows[b].count \in Nat
        BY <1>4, <4>2 DEF Actor
      <4>4. rows[a].alias # rows[b].alias
        BY <4>2, <4>3 DEF Busier
      <4> QED
        BY <4>1, <4>4
    <3> QED
      BY <1>9, <3>1, <3>2, <3>3
  <2>2. \A i, j \in 1 .. Len(listed') : i # j => i < j \/ j < i
    BY <1>9
  <2> QED
    BY <1>9, <2>1, <2>2 DEF OneEach
<1>12. \A i \in 1 .. Len(listed') : listed'[i].count <= Listings(records, listed'[i].alias)
  <2> SUFFICES ASSUME NEW i \in 1 .. Len(listed')
               PROVE  listed'[i].count <= Listings(records, listed'[i].alias)
    OBVIOUS
  <2>1. CASE i <= Len(listed)
    BY <1>8, <1>9, <2>1
  <2>2. CASE i > Len(listed)
    <3>1. listed'[i] \in S
      BY <1>1, <1>9, <2>2
    <3>2. listed'[i].alias \in Nat /\ listed'[i].count = Listings(records, listed'[i].alias)
      BY <1>4, <3>1 DEF Actor
    <3>3. Listings(records, listed'[i].alias) \in Nat
      BY <1>4, <3>2
    <3> QED
      BY <3>2, <3>3
  <2> QED
    BY <1>9, <2>1, <2>2
<1>13. \A a \in Actors(start) : Unmoved(a) =>
          Named(a, listed') \/ \E k \in 1 .. Len(rows) : k > m /\ a = rows[k]
  <2> SUFFICES ASSUME NEW a \in Actors(start), Unmoved(a),
                      ~(\E k \in 1 .. Len(rows) : k > m /\ a = rows[k])
               PROVE  Named(a, listed')
    OBVIOUS
  <2>1. CASE Named(a, listed)
    BY <1>9, <2>1 DEF Named
  <2>2. CASE ~Named(a, listed)
    <3>1. a \in S
      BY <1>6, <1>8, <2>2
    <3>2. PICK k \in 1 .. Len(rows) : rows[k] = a
      BY <1>1, <3>1 DEF In
    <3>3. k \in 1 .. m
      BY <1>9, <3>2
    <3>4. Len(listed) + k \in 1 .. Len(listed') /\ Len(listed) + k > Len(listed)
      BY <1>9, <3>3
    <3>5. listed'[Len(listed) + k] = a
      BY <1>9, <3>2, <3>4
    <3> QED
      BY <3>4, <3>5 DEF Named
  <2> QED
    BY <2>1, <2>2
<1>14. CASE Len(rows) > walk.limit
  <2>1. m = walk.limit /\ m \in 1 .. Len(rows)
    BY <1>0, <1>2, <1>9, <1>14
  <2>2. PICK c : c = rows[m] /\ c \in S /\ c \in Actor
    BY <1>1, <1>4, <2>1
  <2>3. Last(shown) = c
    BY <1>2, <2>1, <2>2 DEF Last
  <2>4. walk' = [list |-> "actors", limit |-> walk.limit, cursor |-> {c}]
    BY <1>0, <1>3, <1>14, <2>3 DEF ActorsWalk
  <2>5. PagingTypes'
    <3>1. walk' \in ActorsWalk
      BY <1>0, <2>2, <2>4 DEF ActorsWalk
    <3>2. walk'.list = "actors"
      BY <2>4
    <3> QED
      BY <1>0, <1>3, <3>1, <3>2 DEF PagingTypes
  <2>6. ASSUME NEW i \in 1 .. Len(listed')
        PROVE  listed'[i] = c \/ Busier(listed'[i], c)
    <3>1. CASE i <= Len(listed)
      BY <1>9, <1>10, <2>2, <3>1
    <3>2. CASE i > Len(listed)
      <4>1. PICK k \in 1 .. m : listed'[i] = rows[k]
        BY <1>9, <3>2
      <4>2. k = m \/ (k < m /\ k \in 1 .. Len(rows) /\ m \in 1 .. Len(rows))
        BY <1>9, <2>1
      <4> QED
        BY <1>1, <2>2, <4>1, <4>2
    <3> QED
      BY <1>9, <3>1, <3>2
  <2>7. ASSUME NEW a \in Actors(start), Unmoved(a) PROVE Named(a, listed') \/ Busier(c, a)
    <3>1. CASE ~Named(a, listed')
      <4>1. PICK k \in 1 .. Len(rows) : k > m /\ a = rows[k]
        BY <1>13, <2>7, <3>1
      <4> QED
        BY <1>1, <2>1, <2>2, <4>1
    <3> QED
      BY <3>1
  <2>8. ActorsInv'
    <3>1. walk'.list = "actors" /\ walk'.cursor = {c} /\ {c} # {}
      BY <2>4
    <3>2. \A a \in Actors(start) : Unmoved(a)' <=> Unmoved(a)
      BY <1>3 DEF Unmoved
    <3>3. /\ Actors(start)' = Actors(start)
          /\ \A i \in 1 .. Len(listed') :
                listed'[i].count <= Listings(records', listed'[i].alias)
      BY <1>3, <1>12
    <3> QED
      BY <1>11, <2>6, <2>7, <3>1, <3>2, <3>3 DEF ActorsInv, First, Named
  <2>9. IntelInv'
    BY <2>4 DEF IntelInv
  <2> QED
    BY <2>5, <2>8, <2>9 DEF PagingInv
<1>15. CASE ~(Len(rows) > walk.limit)
  <2>1. walk' = [list |-> "done", of |-> walk] /\ m = Len(rows)
    BY <1>0, <1>2, <1>3, <1>9, <1>15
  <2>2. PagingTypes'
    BY <1>0, <1>3, <2>1 DEF PagingTypes
  <2>3. \A a \in Actors(start) : Unmoved(a) => Named(a, listed')
    BY <1>9, <1>13, <2>1
  <2>4. ActorsInv'
    <3>1. Actors(start)' = Actors(start) /\ \A a \in Actors(start) : Unmoved(a)' <=> Unmoved(a)
      BY <1>3 DEF Unmoved
    <3> QED
      BY <1>11, <2>1, <2>3, <3>1 DEF ActorsInv, Named
  <2>5. IntelInv'
    BY <1>0, <2>1 DEF IntelInv
  <2> QED
    BY <2>2, <2>4, <2>5 DEF PagingInv
<1> QED
  BY <1>14, <1>15

\* A record stored between two pages leaves the walk's debt as it is, or moves actors up.
LEMMA InsertInv ==
    ASSUME PagingInv, NEW r \in Catalogue, Insert(r)
    PROVE  PagingInv'
<1>1. /\ records' = records \cup {r} /\ UNCHANGED <<walk, listed, start>>
      /\ records \subseteq Catalogue /\ start \subseteq records /\ records' \subseteq Catalogue
  BY DEF Insert, PagingInv, PagingTypes
<1>2. PagingTypes' /\ IntelInv'
  BY <1>1 DEF PagingInv, PagingTypes, IntelInv, Wanted
<1>3. \A alias : /\ Listings(records, alias) \in Nat /\ Listings(records', alias) \in Nat
                 /\ Listings(start, alias) \in Nat
                 /\ Listings(start, alias) <= Listings(records, alias)
                 /\ Listings(records, alias) <= Listings(records', alias)
  BY <1>1, ListingsGrow
<1>4. ASSUME NEW a \in Actors(start), Unmoved(a)' PROVE Unmoved(a)
  <2>1. a.count = Listings(start, a.alias)
    BY <1>1, ActorsAre
  <2>2. Listings(records', a.alias) = a.count
    BY <1>4 DEF Unmoved
  <2> QED
    BY <1>3, <2>1, <2>2 DEF Unmoved
<1>5. OneEach(listed) =>
        \A i \in 1 .. Len(listed) : listed[i].count <= Listings(records, listed[i].alias)
            => listed[i].count <= Listings(records', listed[i].alias)
  <2> SUFFICES ASSUME OneEach(listed), NEW i \in 1 .. Len(listed),
                      listed[i].count <= Listings(records, listed[i].alias)
               PROVE  listed[i].count <= Listings(records', listed[i].alias)
    OBVIOUS
  <2>1. listed[i].count \in Nat
    <3>1. listed[i] \in Actor
      BY DEF OneEach
    <3> QED
      BY <3>1 DEF Actor
  <2> DEFINE l == Listings(records, listed[i].alias)
             l2 == Listings(records', listed[i].alias)
  <2>2. l \in Nat /\ l2 \in Nat /\ l <= l2
    BY <1>3
  <2> HIDE DEF l, l2
  <2>3. listed[i].count <= l => listed[i].count <= l2
    BY <2>1, <2>2
  <2> QED
    BY <2>3 DEF l, l2
<1>6. Actors(start)' = Actors(start)
  BY <1>1
<1>7. ActorsInv'
  BY <1>1, <1>4, <1>5, <1>6 DEF PagingInv, ActorsInv, Named
<1> QED
  BY <1>2, <1>7 DEF PagingInv

\* On the first page all is still to come.
LEMMA BeginWalk ==
    ASSUME PagingInv,
           \/ \E l \in Limits, from \in {0} \cup {r.at : r \in Catalogue} : WalkIntel(l, from)
           \/ \E l \in Limits : WalkActors(l)
    PROVE  PagingInv'
<1>1. /\ start' = records /\ UNCHANGED <<records, listed>> /\ listed = <<>>
      /\ records \subseteq Catalogue
  BY DEF WalkIntel, WalkActors, PagingInv, PagingTypes, NoWalk
<1>2. ASSUME NEW l \in Limits, NEW from \in {0} \cup {r.at : r \in Catalogue}, WalkIntel(l, from)
      PROVE  PagingInv'
  <2>1. walk' = [list |-> "intel", limit |-> l, from |-> from, cursor |-> First] /\ from \in Nat
    BY <1>2, PagingConstantsOK DEF WalkIntel
  <2>2. PagingTypes'
    BY <1>1, <2>1 DEF PagingTypes, IntelWalk
  <2> QED
    BY <1>1, <2>1, <2>2 DEF PagingInv, IntelInv, ActorsInv, NewestFirst, First
<1>3. ASSUME NEW l \in Limits, WalkActors(l)
      PROVE  PagingInv'
  <2>1. walk' = [list |-> "actors", limit |-> l, cursor |-> First]
    BY <1>3 DEF WalkActors
  <2>2. PagingTypes'
    BY <1>1, <2>1 DEF PagingTypes, ActorsWalk
  <2> QED
    BY <1>1, <2>1, <2>2 DEF PagingInv, IntelInv, ActorsInv, OneEach, First
<1> QED
  BY <1>2, <1>3

\* At the start nobody walks.
LEMMA PagingInitInv == PagingInit => PagingInv
BY DEF PagingInit, NoWalk, PagingInv, PagingTypes, IntelInv, ActorsInv

\* Every step keeps the invariant.
LEMMA PagingNextInv == PagingInv /\ [PagingNext]_pagingVars => PagingInv'
<1>1. ASSUME PagingInv, UNCHANGED pagingVars PROVE PagingInv'
  BY <1>1 DEF pagingVars, PagingInv, PagingTypes, IntelInv, ActorsInv, Wanted, Unmoved
<1> QED
  BY <1>1, InsertInv, BeginWalk, IntelPageInv, ActorsPageInv DEF PagingNext

\* Whatever the catalogue, the page size and the filter, and whatever is stored
\* between two pages: a walk to the last page shows every complete record of its
\* start once and in order, and every actor whose listings stayed as they were
\* (routes/intel.py, routes/actors.py).
THEOREM WalksAreComplete == PagingSpec => []WalkIsComplete
<1>1. PagingInv => WalkIsComplete
  <2> SUFFICES ASSUME PagingInv PROVE WalkIsComplete
    OBVIOUS
  <2> DEFINE over == walk.list = "done"
             of   == IF over THEN walk.of.list ELSE walk.list
  <2>1. \A s, T : s \in Seq(T) => DOMAIN s = 1 .. Len(s)
    OBVIOUS
  <2>2. CASE of = "intel"
    <3>1. NewestFirst(listed) /\ DOMAIN listed = 1 .. Len(listed)
      BY <2>2 DEF PagingInv, IntelInv, NewestFirst
    <3>2. over => \A r \in start : Complete(r) /\ r.at >= walk.of.from => Contains(listed, r)
      BY <2>2 DEF PagingInv, IntelInv, Wanted, Contains, In
    <3> QED
      BY <2>2, <3>1, <3>2 DEF WalkIsComplete, NewestFirst
  <2>3. CASE of = "actors"
    <3>1. OneEach(listed) /\ DOMAIN listed = 1 .. Len(listed)
      BY <2>3 DEF PagingInv, ActorsInv, OneEach
    <3>2. over => \A a \in Actors(start) \cap Actors(records) :
                     \E i \in DOMAIN listed : listed[i].alias = a.alias
      BY <2>3, <3>1, ActorsAre DEF PagingInv, PagingTypes, ActorsInv, Named, Unmoved
    <3> QED
      BY <2>3, <3>1, <3>2 DEF WalkIsComplete, OneEach
  <2>4. CASE of \notin {"intel", "actors"}
    BY <2>4 DEF WalkIsComplete
  <2> QED
    BY <2>2, <2>3, <2>4
<1> QED
  BY <1>1, PagingInitInv, PagingNextInv, PTL DEF PagingSpec

-----------------------------------------------------------------------------
(* The dictionary *)

\* A set of numbers has a least one, so a claim about every length can be shown
\* for the least length that would violate it.
LEMMA LeastNat ==
    ASSUME NEW T \in SUBSET Nat, T # {}
    PROVE  \E x \in T : \A y \in T : x <= y
<1> DEFINE R == {c \in Nat \X Nat : c[1] < c[2]}
<1>1. IsWellFoundedOn(R, Nat)
  BY NatLessThanWellFounded, Zenon DEF OpToRel
<1>2. \A x, y \in Nat : y < x => <<y, x>> \in R
  OBVIOUS
<1> HIDE DEF R
<1>3. PICK x \in T : \A y \in T : <<y, x>> \notin R
  BY <1>1, WFMin
<1>4. \A y \in T : ~(y < x)
  BY <1>2, <1>3
<1> QED
  BY <1>4

\* Build goes through the documents one by one.
LEMMA BuildIs ==
    ASSUME NEW S, NEW docs \in Seq(S)
    PROVE  \E g : /\ g = [n \in 0 .. Len(docs) |->
                             IF n = 0 THEN Seed ELSE Ruled(g[n - 1], docs[n])]
                  /\ Build(docs) = g[Len(docs)]
<1> DEFINE Until(g, m) ==
             g = [n \in 0 .. m |-> IF n = 0 THEN Seed ELSE Ruled(g[n - 1], docs[n])]
           Bad == {m \in Nat : ~ \E g : Until(g, m)}
<1>1. Bad = {}
  <2> SUFFICES ASSUME Bad # {} PROVE FALSE
    OBVIOUS
  <2>1. PICK m \in Bad : \A k \in Bad : m <= k
    BY LeastNat
  <2>2. CASE m = 0
    <3>1. Until([n \in {0} |-> Seed], 0)
      <4>1. 0 .. 0 = {0}
        OBVIOUS
      <4> QED
        BY <4>1
    <3> QED
      BY <2>1, <2>2, <3>1
  <2>3. CASE m # 0
    <3>1. m - 1 \in Nat /\ m \in Nat /\ m - 1 \in 0 .. (m - 1)
      BY <2>3
    <3>2. m - 1 \notin Bad
      <4> HIDE DEF Until
      <4>1. ~(m <= m - 1)
        BY <3>1
      <4> QED
        BY <2>1, <4>1
    <3>3. PICK g : Until(g, m - 1)
      BY <3>1, <3>2
    <3> DEFINE h == [n \in 0 .. m |-> IF n = m THEN Ruled(g[m - 1], docs[m]) ELSE g[n]]
    <3>4. ASSUME NEW n \in 0 .. m
          PROVE  h[n] = IF n = 0 THEN Seed ELSE Ruled(h[n - 1], docs[n])
      <4>1. CASE n = m
        <5>1. h[n] = Ruled(g[m - 1], docs[m])
          BY <4>1
        <5>2. h[m - 1] = g[m - 1]
          BY <3>1, <2>3
        <5> QED
          BY <4>1, <5>1, <5>2, <2>3
      <4>2. CASE n # m
        <5>1. /\ n \in 0 .. (m - 1) /\ h[n] = g[n]
              /\ n # 0 => n - 1 \in 0 .. (m - 1) /\ h[n - 1] = g[n - 1]
          BY <4>2, <3>1
        <5>2. g[n] = IF n = 0 THEN Seed ELSE Ruled(g[n - 1], docs[n])
          BY <3>3, <5>1
        <5> QED
          BY <5>1, <5>2
      <4> QED
        BY <4>1, <4>2
    <3>5. Until(h, m)
      BY <3>4
    <3> QED
      BY <2>1, <3>5
  <2> QED
    BY <2>2, <2>3
<1>2. \E g : Until(g, Len(docs))
  BY <1>1
<1> DEFINE built == CHOOSE g : Until(g, Len(docs))
<1>3. Until(built, Len(docs))
  <2> HIDE DEF Until
  <2> QED
    BY <1>2
<1>4. Build(docs) = built[Len(docs)]
  BY DEF Build
<1> HIDE DEF built
<1> QED
  BY <1>3, <1>4

\* What a dictionary says of a term, and what the decided documents D say of it
\* if no two of them do.
Meant(d, t) == {d[u] : u \in {t} \cap DOMAIN d}
Mine(D, t) == {d \in D : d.term = t}
Says(D, t) ==
    IF Mine(D, t) = {} THEN Meant(Seed, t)
    ELSE {d.meaning : d \in {e \in Mine(D, t) : e.status = "approved"}}
Single(D, t) == \A d, e \in Mine(D, t) : d = e

DocIds == DOMAIN Seed \cup ({"uuid"} \X Nat)
Docs == [id : DocIds, term : Terms, meaning : Meanings, status : Statuses, at : Nat]

\* A document changes what the dictionary says of its own term only.
LEMMA RuledDecodes ==
    ASSUME NEW d, NEW e \in Docs, NEW t
    PROVE  /\ e.term # t \/ e.status = "pending" => Meant(Ruled(d, e), t) = Meant(d, t)
           /\ e.term = t /\ e.status = "rejected" => Meant(Ruled(d, e), t) = {}
           /\ e.term = t /\ e.status = "approved" => Meant(Ruled(d, e), t) = {e.meaning}
<1>1. e.status \in Statuses
  BY DEF Docs
<1>2. CASE e.status = "pending"
  BY <1>2 DEF Ruled
<1>3. CASE e.status = "rejected"
  <2>1. Ruled(d, e) = [u \in DOMAIN d \ {e.term} |-> d[u]]
    BY <1>3 DEF Ruled
  <2> QED
    BY <1>3, <2>1 DEF Meant
<1>4. CASE e.status = "approved"
  <2>1. Ruled(d, e) = [u \in DOMAIN d \cup {e.term} |-> IF u = e.term THEN e.meaning ELSE d[u]]
    BY <1>4 DEF Ruled
  <2> QED
    BY <1>4, <2>1 DEF Meant
<1> QED
  BY <1>1, <1>2, <1>3, <1>4 DEF Statuses

\* So the dictionary says of a term what its one decided document does, and what
\* the seed does if it has none.
LEMMA BuildDecodes ==
    ASSUME NEW docs \in Seq(Docs), NEW t, Single(Decided(docs), t)
    PROVE  Meant(Build(docs), t) = Says(Decided(docs), t)
<1>1. PICK g : /\ g = [n \in 0 .. Len(docs) |->
                          IF n = 0 THEN Seed ELSE Ruled(g[n - 1], docs[n])]
               /\ Build(docs) = g[Len(docs)]
  BY BuildIs
<1> DEFINE Of(n) == {docs[i] : i \in 1 .. n} \cap Mine(Decided(docs), t)
           Right(n) == Meant(g[n], t) =
                         IF Of(n) = {} THEN Meant(Seed, t)
                         ELSE {d.meaning : d \in {e \in Of(n) : e.status = "approved"}}
           Bad == {n \in 0 .. Len(docs) : ~Right(n)}
<1>2. Len(docs) \in Nat /\ \A i \in 1 .. Len(docs) : docs[i] \in Docs
  OBVIOUS
<1>3. Right(0)
  <2>1. g[0] = Seed /\ Of(0) = {}
    BY <1>1, <1>2
  <2> QED
    BY <2>1
<1>4. ASSUME NEW n \in 1 .. Len(docs), Right(n - 1) PROVE Right(n)
  <2>1. g[n] = Ruled(g[n - 1], docs[n]) /\ docs[n] \in Docs
    BY <1>1, <1>2
  <2>2. docs[n] \in ToSet(docs)
    BY <1>2 DEF ToSet
  <2>3. CASE docs[n].term # t \/ docs[n].status = "pending"
    <3>1. docs[n] \notin Mine(Decided(docs), t)
      BY <2>3 DEF Mine, Decided
    <3>2. Of(n) = Of(n - 1)
      BY <3>1, <1>2
    <3>3. Meant(g[n], t) = Meant(g[n - 1], t)
      BY <2>1, <2>3, RuledDecodes
    <3> HIDE DEF Of
    <3> QED
      BY <1>4, <3>2, <3>3
  <2>4. CASE docs[n].term = t /\ docs[n].status # "pending"
    <3>1. docs[n] \in Mine(Decided(docs), t)
      BY <2>2, <2>4 DEF Mine, Decided
    <3>2. Of(n) = {docs[n]}
      BY <3>1 DEF Single
    <3>3. docs[n].status \in {"approved", "rejected"}
      BY <2>1, <2>4 DEF Docs, Statuses
    <3>4. Meant(g[n], t) = IF docs[n].status = "rejected" THEN {} ELSE {docs[n].meaning}
      <4>1. CASE docs[n].status = "rejected"
        BY <2>1, <2>4, <4>1, RuledDecodes
      <4>2. CASE docs[n].status = "approved"
        <5>1. Meant(g[n], t) = {docs[n].meaning}
          <6>1. Meant(Ruled(g[n - 1], docs[n]), t) = {docs[n].meaning}
            BY <2>1, <2>4, <4>2, RuledDecodes, Zenon
          <6> QED
            BY <2>1, <6>1
        <5> QED
          BY <4>2, <5>1
      <4> QED
        BY <3>3, <4>1, <4>2
    <3> HIDE DEF Of
    <3> QED
      BY <3>2, <3>3, <3>4
  <2> QED
    BY <2>3, <2>4
<1>5. Bad = {}
  <2> HIDE DEF Right
  <2> SUFFICES ASSUME Bad # {} PROVE FALSE
    OBVIOUS
  <2>9. Bad \in SUBSET Nat
    BY <1>2
  <2>1. PICK n \in Bad : \A k \in Bad : n <= k
    BY <2>9, LeastNat
  <2>2. n \in 1 .. Len(docs)
    BY <1>2, <1>3
  <2>3. n - 1 \in 0 .. Len(docs) /\ ~(n <= n - 1)
    BY <2>2, <1>2
  <2>4. Right(n - 1)
    BY <2>1, <2>3
  <2> QED
    BY <1>4, <2>2, <2>4
<1>6. Right(Len(docs))
  <2> HIDE DEF Right
  <2> QED
    BY <1>2, <1>5
<1>7. Of(Len(docs)) = Mine(Decided(docs), t)
  <2>1. Mine(Decided(docs), t) \subseteq {docs[i] : i \in 1 .. Len(docs)}
    BY <1>2 DEF Mine, Decided, ToSet
  <2> QED
    BY <2>1
<1> HIDE DEF Of
<1> QED
  BY <1>1, <1>6, <1>7 DEF Says

\* A document is known by its id and the time of its last write, the pair the
\* processor compares; a seed entry nobody wrote to is at time 0.
Known == ToSet(slang) \cup ToSet(readAt)
LexTypes ==
    /\ slang \in Seq(Docs) /\ readAt \in Seq(Docs)
    /\ creating \in SUBSET Terms /\ writes \in Nat
KnownInv ==
    /\ \A d, e \in Known : d.id = e.id /\ d.at = e.at => d = e
    /\ \A d \in Known : d.at <= writes
    /\ \A d \in Known : d.at = 0 => d.id \in DOMAIN Seed /\ d = SeedDoc(d.id)

\* The version is that of the documents read last, though the dictionary may be
\* older: it says what their decided ones do.
DictInv ==
    version # NoPipeline =>
        /\ version = {Version(readAt)}
        /\ \A t \in Terms : Single(Decided(readAt), t) =>
              Meant(dictionary, t) = Says(Decided(readAt), t)
LexInv == LexTypes /\ KnownInv /\ DictInv

\* A seed entry is a document.
LEMMA SeedDocs == \A t \in DOMAIN Seed : SeedDoc(t) \in Docs /\ SeedDoc(t).at = 0 /\ SeedDoc(t).id = t
BY LexiconConstantsOK DEF SeedDoc, Doc, Docs, DocIds, Statuses, Range

\* The values of a function on a finite set are finitely many.
LEMMA FiniteValues ==
    ASSUME NEW S, IsFiniteSet(S), NEW f
    PROVE  IsFiniteSet({f[x] : x \in S})
<1> DEFINE T == {f[x] : x \in S}
           g == [x \in S |-> f[x]]
<1>1. g \in Surjection(S, T)
  BY DEF Surjection
<1> QED
  BY <1>1, FS_Surjection

\* A finite set of at most one element has no two.
LEMMA AtMostOne ==
    ASSUME NEW S, IsFiniteSet(S), Cardinality(S) <= 1, NEW d \in S, NEW e \in S
    PROVE  d = e
<1> SUFFICES ASSUME d # e PROVE FALSE
  OBVIOUS
<1>2. IsFiniteSet({d}) /\ Cardinality({d}) = 1
  BY FS_Singleton
<1>3. IsFiniteSet({d, e}) /\ Cardinality({d, e}) = 2
  <2>1. {d} \cup {e} = {d, e} /\ e \notin {d}
    OBVIOUS
  <2> QED
    BY <1>2, <2>1, FS_AddElement
<1>4. {d, e} \in SUBSET S
  OBVIOUS
<1>5. Cardinality({d, e}) <= Cardinality(S) /\ Cardinality(S) \in Nat
  BY <1>4, FS_Subset, FS_CardinalityType
<1> QED
  BY <1>3, <1>5

\* Reseeding keeps the documents and adds seed entries only.
LEMMA ReseededIs ==
    ASSUME NEW docs \in Seq(Docs)
    PROVE  /\ Reseeded(docs) \in Seq(Docs)
           /\ \A d \in ToSet(Reseeded(docs)) :
                 d \in ToSet(docs) \/ \E t \in DOMAIN Seed : d = SeedDoc(t)
<1> DEFINE S == {SeedDoc(t) : t \in DOMAIN Seed \ Ids(docs)}
           s == SetToSeq(S)
<1>1. IsFiniteSet(S)
  <2> DEFINE U == DOMAIN Seed \ Ids(docs)
             f == [t \in U |-> SeedDoc(t)]
  <2>1. IsFiniteSet(U)
    BY LexiconConstantsOK, FS_Subset
  <2>2. S = {f[t] : t \in U}
    OBVIOUS
  <2> HIDE DEF S, U, f
  <2> QED
    BY <2>1, <2>2, FiniteValues
<1>2. s \in Seq(S) /\ S \subseteq Docs
  BY <1>1, SetToSeqCovers, SeedDocs
<1>3. s \in Seq(Docs) /\ Reseeded(docs) = docs \o s
  BY <1>2 DEF Reseeded
<1>6. \A t \in S : \E u \in DOMAIN Seed : t = SeedDoc(u)
  OBVIOUS
<1> HIDE DEF S, s
<1>4. \A i \in 1 .. Len(s) : s[i] \in S
  BY <1>2
<1>5. ASSUME NEW d \in ToSet(docs \o s)
      PROVE  d \in ToSet(docs) \/ \E t \in DOMAIN Seed : d = SeedDoc(t)
  <2>1. PICK i \in 1 .. Len(docs) + Len(s) : d = (docs \o s)[i]
    <3>1. DOMAIN (docs \o s) = 1 .. Len(docs) + Len(s)
      BY <1>3
    <3> QED
      BY <1>5, <3>1 DEF ToSet
  <2>2. CASE i <= Len(docs)
    BY <2>1, <2>2, <1>3 DEF ToSet
  <2>3. CASE i > Len(docs)
    <3>1. i - Len(docs) \in 1 .. Len(s) /\ d = s[i - Len(docs)]
      BY <2>1, <2>3, <1>3
    <3>2. d \in S
      BY <3>1, <1>4
    <3> QED
      BY <3>2, <1>6
  <2>4. i \in Nat /\ Len(docs) \in Nat
    BY <2>1, <1>3
  <2> QED
    BY <2>2, <2>3, <2>4
<1> QED
  BY <1>3, <1>5

\* What was known and seed entries stay in order when the documents change.
LEMMA KnownStays ==
    ASSUME LexTypes, KnownInv, writes' = writes,
           \A d \in Known' : d \in Known \/ \E t \in DOMAIN Seed : d = SeedDoc(t)
    PROVE  KnownInv'
<1>1. \A d \in Known' : d.at <= writes' /\ (d.at = 0 => d.id \in DOMAIN Seed /\ d = SeedDoc(d.id))
  BY SeedDocs DEF KnownInv, LexTypes
<1>2. ASSUME NEW d \in Known', NEW e \in Known', d.id = e.id, d.at = e.at
      PROVE  d = e
  <2>1. CASE d \in Known /\ e \in Known
    BY <1>2, <2>1 DEF KnownInv
  <2>2. CASE d.at = 0
    BY <1>1, <1>2, <2>2
  <2>3. CASE d.at # 0
    BY <1>2, <2>1, <2>3, SeedDocs
  <2> QED
    BY <2>2, <2>3
<1> QED
  BY <1>1, <1>2 DEF KnownInv

\* A write makes one document of a time of its own.
LEMMA KnownWritten ==
    ASSUME LexTypes, KnownInv, writes' = writes + 1,
           \A d \in Known' : d \in Known \/ d.at = writes + 1,
           \A d, e \in Known' : d.at = writes + 1 /\ e.at = writes + 1 => d = e
    PROVE  KnownInv'
<1>1. writes \in Nat /\ \A d \in Known : d.at <= writes
  BY DEF LexTypes, KnownInv
<1>2. \A d \in Known : d.at \in Nat
  <2>1. \A d \in Known : d \in Docs
    BY DEF LexTypes, Known, ToSet
  <2> QED
    BY <2>1 DEF Docs
<1>3. \A d \in Known' : d.at <= writes + 1
  BY <1>1, <1>2
<1>4. \A d \in Known' : d.at = 0 => d.id \in DOMAIN Seed /\ d = SeedDoc(d.id)
  BY <1>1 DEF KnownInv
<1>5. ASSUME NEW d \in Known', NEW e \in Known', d.id = e.id, d.at = e.at
      PROVE  d = e
  <2>1. CASE d.at = writes + 1
    BY <1>5, <2>1
  <2>2. CASE d.at # writes + 1
    BY <1>5, <2>2 DEF KnownInv
  <2> QED
    BY <2>1, <2>2
<1> QED
  BY <1>3, <1>4, <1>5 DEF KnownInv

\* Every route but the seeding goes through Write.
LEMMA WriteInv ==
    ASSUME LexInv, NEW docs \in Seq(Docs), Write(docs), creating' \in SUBSET Terms,
           \A d \in ToSet(docs) : d \in ToSet(slang) \/ d.at = writes + 1,
           \A d, e \in ToSet(docs) : d.at = writes + 1 /\ e.at = writes + 1 => d = e
    PROVE  LexInv'
<1>1. /\ writes' = writes + 1 /\ slang' = docs
      /\ UNCHANGED <<dictionary, version, readAt>>
  BY DEF Write
<1>2. LexTypes' /\ DictInv'
  BY <1>1 DEF LexInv, LexTypes, DictInv
<1>3. Known' = ToSet(docs) \cup ToSet(readAt)
  BY <1>1 DEF Known
<1>4. \A d \in ToSet(readAt) : d.at # writes + 1
  <2>1. writes \in Nat /\ \A d \in Known : d.at <= writes
    BY DEF LexInv, LexTypes, KnownInv
  <2>2. ToSet(readAt) \subseteq Known /\ \A d \in Known : d.at \in Nat
    <3>1. slang \in Seq(Docs) /\ readAt \in Seq(Docs)
      BY DEF LexInv, LexTypes
    <3>2. ToSet(slang) \subseteq Docs /\ ToSet(readAt) \subseteq Docs
      BY <3>1 DEF ToSet
    <3>3. \A d \in Docs : d.at \in Nat
      BY DEF Docs
    <3> QED
      BY <3>2, <3>3 DEF Known
  <2> QED
    BY <2>1, <2>2
<1>5. KnownInv'
  BY <1>1, <1>3, <1>4, KnownWritten DEF LexInv, Known
<1> QED
  BY <1>2, <1>5 DEF LexInv

\* A request begins, or inserts its document.
LEMMA CreateInv ==
    ASSUME LexInv,
           \/ \E t \in Terms : CheckTerm(t)
           \/ \E m \in Meanings, n \in BOOLEAN : InsertTerm(m, n)
    PROVE  LexInv'
<1>1. ASSUME NEW t \in Terms, CheckTerm(t) PROVE LexInv'
  BY <1>1 DEF CheckTerm, LexInv, LexTypes, KnownInv, Known, DictInv
<1>2. ASSUME NEW m \in Meanings, NEW n \in BOOLEAN, InsertTerm(m, n) PROVE LexInv'
  <2>1. PICK t \in creating, s \in {"pending", "approved"} :
           /\ creating' = {}
           /\ Write(Append(slang, Doc(<<"uuid", writes>>, t, m, s, writes + 1)))
    BY <1>2 DEF InsertTerm
  <2> DEFINE new == Doc(<<"uuid", writes>>, t, m, s, writes + 1)
             docs == Append(slang, new)
  <2>2. new \in Docs /\ new.at = writes + 1
    BY <2>1 DEF Doc, Docs, DocIds, Statuses, LexInv, LexTypes
  <2>3. slang \in Seq(Docs) /\ writes \in Nat
    BY DEF LexInv, LexTypes
  <2> HIDE DEF new
  <2>4. docs \in Seq(Docs) /\ \A d \in ToSet(docs) : d \in ToSet(slang) \/ d = new
    BY <2>2, <2>3 DEF ToSet
  <2>5. \A d \in ToSet(slang) : d.at # writes + 1
    BY <2>3 DEF LexInv, LexTypes, KnownInv, Known, ToSet, Docs
  <2>6. Write(docs)
    BY <2>1 DEF new
  <2> HIDE DEF docs
  <2> QED
    BY <2>1, <2>2, <2>4, <2>5, <2>6, WriteInv
<1> QED
  BY <1>1, <1>2

\* What is left of a sequence when an element is removed was in it.
LEMMA RemovedFrom ==
    ASSUME NEW S, NEW s \in Seq(S), NEW i \in 1 .. Len(s)
    PROVE  RemoveAt(s, i) \in Seq(ToSet(s))
<1>1. \A k \in 1 .. Len(s) : s[k] \in ToSet(s)
  BY DEF ToSet
<1>2. Len(s) \in Nat /\ i \in Int /\ i - 1 \in Int /\ i + 1 \in Int
  OBVIOUS
<1>3. SubSeq(s, 1, i - 1) \in Seq(ToSet(s))
  BY <1>1, <1>2, SubSeqProperties
<1>4. SubSeq(s, i + 1, Len(s)) \in Seq(ToSet(s))
  BY <1>1, <1>2, SubSeqProperties
<1> QED
  BY <1>3, <1>4, ConcatProperties DEF RemoveAt

\* An analyst sets fields of a document or deletes it.
LEMMA EditInv ==
    ASSUME LexInv, NEW i \in DOMAIN slang,
           \/ \E t \in Terms, m \in Meanings, s \in Statuses : UpdateEntry(i, t, m, s)
           \/ \E s \in Statuses \ {"pending"} : ReviewEntry(i, s)
           \/ DeleteEntry(i)
    PROVE  LexInv'
<1>1. /\ slang \in Seq(Docs) /\ writes \in Nat /\ slang[i] \in Docs
      /\ creating \in SUBSET Terms
  BY DEF LexInv, LexTypes
<1>2. \A d \in ToSet(slang) : d.at # writes + 1
  BY <1>1 DEF LexInv, LexTypes, KnownInv, Known, ToSet, Docs
<1>3. ASSUME NEW t \in Terms, NEW m \in Meanings, NEW s \in Statuses,
             SetFields(i, t, m, s), creating' = creating
      PROVE  LexInv'
  <2> DEFINE new == Doc(slang[i].id, t, m, s, writes + 1)
             docs == [slang EXCEPT ![i] = new]
  <2>1. new \in Docs /\ new.at = writes + 1
    BY <1>1 DEF Doc, Docs
  <2>2. Write(docs)
    BY <1>3 DEF SetFields
  <2> HIDE DEF new
  <2>3. docs \in Seq(Docs) /\ \A d \in ToSet(docs) : d \in ToSet(slang) \/ d = new
    BY <1>1, <2>1 DEF ToSet
  <2> HIDE DEF docs
  <2> QED
    BY <1>1, <1>2, <1>3, <2>1, <2>2, <2>3, WriteInv
<1>4. ASSUME DeleteEntry(i) PROVE LexInv'
  <2> DEFINE docs == RemoveAt(slang, i)
  <2>1. i \in 1 .. Len(slang)
    BY <1>1
  <2>2. docs \in Seq(ToSet(slang))
    BY <1>1, <2>1, RemovedFrom
  <2>3. docs \in Seq(Docs) /\ \A d \in ToSet(docs) : d \in ToSet(slang)
    <3>1. ToSet(slang) \subseteq Docs
      BY <1>1 DEF ToSet
    <3> HIDE DEF docs
    <3> QED
      BY <2>2, <3>1 DEF ToSet
  <2>5. Write(docs) /\ creating' = creating
    BY <1>4 DEF DeleteEntry, docs
  <2> QED
    BY <1>1, <1>2, <2>3, <2>5, WriteInv
<1>5. ASSUME NEW t \in Terms, NEW m \in Meanings, NEW s \in Statuses,
             UpdateEntry(i, t, m, s)
      PROVE  LexInv'
  BY <1>1, <1>3, <1>5 DEF UpdateEntry
<1>6. ASSUME NEW s \in Statuses \ {"pending"}, ReviewEntry(i, s) PROVE LexInv'
  BY <1>1, <1>3, <1>6 DEF ReviewEntry, Docs
<1> QED
  BY <1>4, <1>5, <1>6

\* A restart seeds again, the documents themselves stay.
LEMMA BootInv ==
    ASSUME LexInv, Boot
    PROVE  LexInv'
<1>1. /\ slang' = Reseeded(slang) /\ creating' = {}
      /\ UNCHANGED <<dictionary, version, readAt, writes>>
  BY DEF Boot
<1>2. LexTypes' /\ DictInv'
  BY <1>1, ReseededIs DEF LexInv, LexTypes, DictInv
<1>3. \A d \in Known' : d \in Known \/ \E t \in DOMAIN Seed : d = SeedDoc(t)
  BY <1>1, ReseededIs DEF LexInv, LexTypes, Known
<1> QED
  BY <1>1, <1>2, <1>3, KnownStays DEF LexInv

\* The processor reads the collection.  When the version is the same so are the
\* decided documents, in whatever order, and the dictionary still fits.
LEMMA RefreshInv ==
    ASSUME LexInv, RefreshPipeline
    PROVE  LexInv'
<1>1. /\ readAt' = slang /\ UNCHANGED <<slang, creating, writes>>
      /\ LexTypes /\ KnownInv /\ DictInv
  BY DEF RefreshPipeline, LexInv
<1>2. LexTypes' /\ KnownInv'
  BY <1>1, KnownStays DEF LexTypes, Known
<1>3. CASE version = {Version(slang)}
  <2>1. UNCHANGED <<dictionary, version>> /\ Version(slang) = Version(readAt)
    BY <1>1, <1>3 DEF RefreshPipeline, DictInv, NoPipeline
  <2>2. Decided(slang) \subseteq Known /\ Decided(readAt) \subseteq Known
    BY DEF Decided, Known
  <2>3. \A d \in Decided(slang) : <<d.id, d.at>> \in Version(readAt)
    BY <2>1 DEF Version
  <2>4. \A d \in Decided(readAt) : <<d.id, d.at>> \in Version(slang)
    BY <2>1 DEF Version
  <2>5. Decided(slang) = Decided(readAt)
    BY <1>1, <2>2, <2>3, <2>4 DEF Version, KnownInv
  <2> QED
    BY <1>1, <1>2, <1>3, <2>1, <2>5 DEF LexInv, DictInv, NoPipeline
<1>4. CASE version # {Version(slang)}
  <2>1. version' = {Version(slang)} /\ dictionary' = Build(slang)
    BY <1>4 DEF RefreshPipeline
  <2> QED
    BY <1>1, <1>2, <2>1, BuildDecodes DEF LexInv, DictInv, LexTypes
<1> QED
  BY <1>3, <1>4

\* At the start the seed is in the collection and nothing read.
LEMMA LexInitInv == LexInit => LexInv
<1> SUFFICES ASSUME LexInit PROVE LexInv
  OBVIOUS
<1>1. /\ slang = Reseeded(<<>>) /\ readAt = <<>> /\ creating = {} /\ writes = 0
      /\ version = NoPipeline /\ <<>> \in Seq(Docs) /\ ToSet(<<>>) = {}
  BY DEF LexInit, ToSet
<1>2. LexTypes /\ DictInv
  BY <1>1, ReseededIs DEF LexTypes, DictInv
<1>3. \A d \in Known : \E t \in DOMAIN Seed : d = SeedDoc(t)
  BY <1>1, ReseededIs DEF Known
<1> QED
  BY <1>1, <1>2, <1>3, SeedDocs DEF LexInv, KnownInv

\* LexInv is inductive.
LEMMA LexStep == LexInv /\ [LexNext]_lexVars => LexInv'
<1> SUFFICES ASSUME LexInv, [LexNext]_lexVars PROVE LexInv'
  OBVIOUS
<1>1. CASE ReadFails
  BY <1>1 DEF ReadFails, LexInv, LexTypes, KnownInv, Known, DictInv
<1>2. CASE UNCHANGED lexVars
  BY <1>2 DEF lexVars, LexInv, LexTypes, KnownInv, Known, DictInv
<1> QED
  BY <1>1, <1>2, CreateInv, EditInv, BootInv, RefreshInv DEF LexNext, Analyst

\* Whatever analysts write, in whatever order, and however often the API starts
\* again: once the processor has read the collection, a term decodes to what was
\* decided by then, though the dictionary is rebuilt only when ids and times have
\* changed (processor._refresh_pipeline, build_runtime_dictionary).
THEOREM DecisionsReachTheProcessor == LexSpec => []DecisionsTakeEffect
<1>1. LexInv => DecisionsTakeEffect
  <2> SUFFICES ASSUME LexInv, version # NoPipeline, NEW t \in Terms,
                      Cardinality(DocsOf(readAt, t)) <= 1
               PROVE  {dictionary[u] : u \in {t} \cap DOMAIN dictionary} = Decision(readAt, t)
    BY DEF DecisionsTakeEffect
  <2> DEFINE D == DocsOf(readAt, t)
             M == Mine(Decided(readAt), t)
  <2>1. M = {d \in D : d.status # "pending"}
    BY DEF Mine, Decided, DocsOf
  <2>2. IsFiniteSet(D)
    <3>1. readAt \in Seq(Docs)
      BY DEF LexInv, LexTypes
    <3>2. IsFiniteSet(1 .. Len(readAt)) /\ DOMAIN readAt = 1 .. Len(readAt)
      BY <3>1, FS_Interval
    <3>3. IsFiniteSet(ToSet(readAt))
      BY <3>2, FiniteValues DEF ToSet
    <3> QED
      BY <3>3, FS_Subset DEF DocsOf
  <2>3. \A d, e \in D : d = e
    BY <2>2, AtMostOne
  <2>4. Meant(dictionary, t) = Says(Decided(readAt), t)
    BY <2>1, <2>3 DEF LexInv, DictInv, Single
  <2>5. CASE M = {}
    BY <2>1, <2>4, <2>5 DEF Says, Meant, Decision
  <2>6. CASE M # {}
    <3>1. {d.meaning : d \in {e \in M : e.status = "approved"}}
             = {d.meaning : d \in {e \in D : e.status = "approved"}}
      BY <2>1
    <3> QED
      BY <2>1, <2>4, <2>6, <3>1 DEF Says, Meant, Decision
  <2> QED
    BY <2>5, <2>6
<1> QED
  BY <1>1, LexInitInv, LexStep, PTL DEF LexSpec

\* The worker and the requests about watchlists move the dictionary as Lexicon says:
\* the refresh with which _process_record begins is the one step of theirs that
\* touches it (processor.py, watchlists.py).  So the analysis that decides what
\* alerts are due reads the decisions of the analysts.
THEOREM WorkerFollowsDecisions == WatchSpec => LexSpec /\ []DecisionsTakeEffect
<1>1. [WatchNext]_<<watchVars, lexVars>> => [LexNext]_lexVars
  <2> SUFFICES ASSUME [WatchNext]_<<watchVars, lexVars>> PROVE [LexNext]_lexVars
    OBVIOUS
  <2>1. CASE Worker
    <3>1. CASE \E p \in Posts : Claim(p)
      BY <3>1 DEF Claim, LexNext
    <3>2. CASE StoreIntel \/ EvaluateLists \/ RaiseAlert \/ WorkerStops
      BY <3>2 DEF StoreIntel, EvaluateLists, RaiseAlert, WorkerStops
    <3> QED
      BY <2>1, <3>1, <3>2 DEF Worker
  <2>2. CASE Requests
    <3>1. ASSUME NEW w, NEW list, NEW backfills, WriteList(w, list, backfills)
          PROVE  UNCHANGED lexVars
      BY <3>1 DEF WriteList
    <3>2. ASSUME NEW w, NEW ts, NEW n, CreateWatchlist(w, ts, n) \/ UpdateTerms(w, ts, n)
          PROVE  UNCHANGED lexVars
      BY <3>1, <3>2 DEF CreateWatchlist, UpdateTerms
    <3>3. ASSUME NEW w, NEW e, UpdateEnabled(w, e)
          PROVE  UNCHANGED lexVars
      BY <3>1, <3>3 DEF UpdateEnabled
    <3>4. ASSUME NEW w, DeleteWatchlist(w)
          PROVE  UNCHANGED lexVars
      BY <3>4 DEF DeleteWatchlist
    <3>5. CASE Audited \/ AuditFails \/ LoadSample \/ Backfill \/ RequestStops
      BY <3>5 DEF Audited, AuditFails, LoadSample, Backfill, RequestStops
    <3> QED
      BY <2>2, <3>2, <3>3, <3>4, <3>5 DEF Requests
  <2>3. CASE Analyst /\ UNCHANGED watchVars
    BY <2>3 DEF LexNext
  <2>4. CASE UNCHANGED <<watchVars, lexVars>>
    BY <2>4
  <2> QED
    BY <2>1, <2>2, <2>3, <2>4 DEF WatchNext
<1>2. WatchSpec => LexSpec
  BY <1>1, PTL DEF WatchSpec, LexSpec
<1> QED
  BY <1>2, DecisionsReachTheProcessor, PTL

-----------------------------------------------------------------------------
(* The analysis.  What folds over the mentions and the dictionary compute is  *)
(* left open: the proofs use that the same words give the same results.       *)

\* What normalising makes of one word.
Undone(w) == FoldLeet(Lookup(EmojiMap, Lookup(Compat, w)))

\* The tables, entry by entry.
LEMMA LeetEntries ==
    /\ DOMAIN LeetMap = {"m3th", "m44l", "m1lo", "ph:9876543210", "buyer@proton.me", "buyer@proton.me.",
                         "@milo99", "1BitcoinAddress", "0xEtherAddress", "$50", "5g"}
    /\ LeetMap["m3th"] = "meth" /\ LeetMap["m44l"] = "maal" /\ LeetMap["m1lo"] = "milo"
    /\ LeetMap["ph:9876543210"] = "ph:gbt6sae2io"
BY DEF LeetMap

LEMMA PlainEntries ==
    /\ DOMAIN Plain = {"wide-mdma", "m3th", "leaf-emoji", "plug-emoji", "m44l", "m1lo"}
    /\ Plain["wide-mdma"] = "mdma" /\ Plain["m3th"] = "meth"
    /\ Plain["leaf-emoji"] = "cannabis" /\ Plain["plug-emoji"] = "dealer"
    /\ Plain["m44l"] = "maal" /\ Plain["m1lo"] = "milo"
BY DEF Plain

LEMMA TableEntries ==
    /\ DOMAIN Compat = {"wide-mdma", "wide-buyer@proton.me"}
    /\ Compat["wide-mdma"] = "mdma" /\ Compat["wide-buyer@proton.me"] = "buyer@proton.me"
    /\ DOMAIN EmojiMap = {"leaf-emoji", "plug-emoji"}
    /\ EmojiMap["leaf-emoji"] = "cannabis" /\ EmojiMap["plug-emoji"] = "dealer"
BY DEF Compat, EmojiMap

\* A disguised word and what it stands for are no address, amount or rule word.
Telling == {"1BitcoinAddress", "0xEtherAddress", "SolanaAddress", "$50", "5g", "forbidden"}
LEMMA PlainLeavesTelling ==
    \A w : /\ w \in Telling => Lookup(Plain, w) = w
           /\ Lookup(Plain, w) \in Telling => Lookup(Plain, w) = w
<1> SUFFICES ASSUME NEW w
             PROVE  /\ w \in Telling => Lookup(Plain, w) = w
                    /\ Lookup(Plain, w) \in Telling => Lookup(Plain, w) = w
  OBVIOUS
<1>1. CASE w \notin DOMAIN Plain
  BY <1>1 DEF Lookup
<1>2. CASE w \in DOMAIN Plain
  <2>1. Lookup(Plain, w) = Plain[w]
    BY <1>2 DEF Lookup
  <2>2. w \in {"wide-mdma", "m3th", "leaf-emoji", "plug-emoji", "m44l", "m1lo"}
    BY <1>2, PlainEntries
  <2>3. Plain[w] \in {"mdma", "meth", "cannabis", "dealer", "maal", "milo"}
    BY <2>2, PlainEntries
  <2> QED
    BY <2>1, <2>2, <2>3 DEF Telling
<1> QED
  BY <1>1, <1>2

\* A disguise is undone to the word it stands for.
LEMMA DisguiseUndone == \A w : Undone(Lookup(Plain, w)) = Undone(w)
<1> SUFFICES ASSUME NEW w PROVE Undone(Lookup(Plain, w)) = Undone(w)
  OBVIOUS
<1> USE LeetEntries, PlainEntries, TableEntries
    DEF Undone, FoldLeet, Foldable, Lookup, EmailWords, UncaughtEmails
<1>1. CASE w \notin DOMAIN Plain
  BY <1>1
<1>2. CASE w = "wide-mdma"
  BY <1>2
<1>3. CASE w = "m3th"
  BY <1>3
<1>4. CASE w = "leaf-emoji"
  BY <1>4
<1>5. CASE w = "plug-emoji"
  BY <1>5
<1>6. CASE w = "m44l"
  BY <1>6
<1>7. CASE w = "m1lo"
  BY <1>7
<1> QED
  BY <1>1, <1>2, <1>3, <1>4, <1>5, <1>6, <1>7

\* What is left of a word shows no address and no number of its own.
LEMMA PersonalRedacted == \A v : RedactWord(v) \notin Personal
<1> SUFFICES ASSUME NEW v PROVE RedactWord(v) \notin Personal
  OBVIOUS
<1>1. CASE v \in EmailWords
  BY <1>1 DEF RedactWord, Personal, EmailWords, PhoneWords
<1>2. CASE v \notin EmailWords /\ v \in PhoneWords
  BY <1>2 DEF RedactWord, Personal, EmailWords, PhoneWords
<1>3. CASE v \notin EmailWords /\ v \notin PhoneWords
  <2>1. RedactWord(v) = v
    BY <1>3 DEF RedactWord
  <2> QED
    BY <1>3, <2>1 DEF Personal, EmailWords, PhoneWords
<1> QED
  BY <1>1, <1>2, <1>3

\* The text a person reads.
PlainText(text) == [i \in DOMAIN text |-> Lookup(Plain, text[i])]

LEMMA NormalizedAlike ==
    ASSUME NEW text PROVE Normalize(PlainText(text)) = Normalize(text)
<1>1. Normalize(text) = [i \in DOMAIN text |-> Undone(text[i])]
  BY DEF Normalize, Undone
<1>2. Normalize(PlainText(text)) = [i \in DOMAIN text |-> Undone(Lookup(Plain, text[i]))]
  BY DEF Normalize, Undone, PlainText
<1> QED
  BY <1>1, <1>2, DisguiseUndone

\* The telling words of a text are those of the plain one.
LEMMA TellingAlike ==
    ASSUME NEW text, NEW w \in Telling
    PROVE  w \in ToSet(PlainText(text)) <=> w \in ToSet(text)
BY PlainLeavesTelling DEF ToSet, PlainText

LEMMA AmountsAlike ==
    ASSUME NEW text
    PROVE  Prices(PlainText(text)) = Prices(text) /\ Quantities(PlainText(text)) = Quantities(text)
<1>1. "$50" \in Telling /\ "5g" \in Telling
  BY DEF Telling
<1> QED
  BY <1>1, TellingAlike DEF Prices, Quantities

\* The chains that claim a word.
Claims(w) == {i \in DOMAIN Chains : w \in ChainWords[Chains[i]]}
LEMMA ClaimedWords == \A w : Claims(w) # {} <=> w \in Addresses
<1>1. DOMAIN Chains = {1, 2, 3} /\ Chains[1] = "BTC" /\ Chains[2] = "ETH" /\ Chains[3] = "SOL"
  BY DEF Chains
<1>2. /\ ChainWords["BTC"] = {"1BitcoinAddress"} /\ ChainWords["ETH"] = {"0xEtherAddress"}
      /\ ChainWords["SOL"] = {"1BitcoinAddress", "SolanaAddress"}
  BY DEF ChainWords
<1> QED
  BY <1>1, <1>2 DEF Claims, Addresses

LEMMA WalletsAre ==
    ASSUME NEW text
    PROVE  Wallets(text) = {[chain |-> Chains[Min(Claims(w))], address |-> w] :
                               w \in ToSet(text) \cap Addresses}
<1>1. Wallets(text) = {[chain |-> Chains[Min(Claims(w))], address |-> w] :
                          w \in {v \in ToSet(text) : Claims(v) # {}}}
  BY DEF Wallets, Claims
<1>2. {v \in ToSet(text) : Claims(v) # {}} = ToSet(text) \cap Addresses
  BY ClaimedWords
<1> QED
  BY <1>1, <1>2

LEMMA WalletsAlike == ASSUME NEW text PROVE Wallets(PlainText(text)) = Wallets(text)
<1>1. Addresses \subseteq Telling
  BY DEF Addresses, Telling
<1>2. ToSet(PlainText(text)) \cap Addresses = ToSet(text) \cap Addresses
  BY <1>1, TellingAlike
<1> QED
  BY <1>2, WalletsAre

\* The rule that drops a post reads the same in both texts.
LEMMA ForbiddenAlike ==
    ASSUME NEW text \in Seq(Words), Hits(Forbidden, PlainText(text))
    PROVE  Hits(Forbidden, text)
<1> DEFINE plain == PlainText(text)
           Read  == {Lookup(Plain, w) : w \in Words}
           word  == <<"forbidden">>
<1>1. plain \in Seq(Read) /\ Len(plain) = Len(text) /\ DOMAIN text = 1..Len(text)
      /\ \A i \in 1..Len(text) : plain[i] = Lookup(Plain, text[i])
  BY DEF PlainText
<1> HIDE DEF plain
<1>2. word \in SubSeqs(plain)
  BY DEF Hits, Forbidden, plain
<1> HIDE DEF Read
<1>3. PICK i, j \in 0..Len(plain) : word = SubSeq(plain, i + 1, j)
  BY <1>2 DEF SubSeqs
<1>4. i + 1 \in 1..Len(plain) /\ j = i + 1 /\ plain[i + 1] = "forbidden"
  <2>1. Len(plain) \in Nat /\ i \in Nat /\ j \in Nat
    BY <1>1, <1>3
  <2>2. Len(SubSeq(plain, i + 1, j)) = 1 /\ SubSeq(plain, i + 1, j)[1] = "forbidden"
    BY <1>3
  <2> QED
    BY <1>1, <1>3, <2>1, <2>2
<1>5. text[i + 1] = "forbidden"
  BY <1>1, <1>4, PlainLeavesTelling DEF Telling
<1>6. SubSeq(text, i + 1, j) = word
  <2>1. /\ i + 1 \in 1..Len(text) /\ j = i + 1
        /\ text[i + 1] = "forbidden"
    BY <1>1, <1>4, <1>5
  <2> DEFINE part == SubSeq(text, i + 1, j)
  <2>2. part \in Seq(Words) /\ Len(part) = 1 /\ part[1] = "forbidden"
    BY <2>1, SubSeqProperties
  <2> HIDE DEF part
  <2>3. part = <<part[1]>>
    BY <2>2
  <2> QED
    BY <2>2, <2>3 DEF part
<1>7. word \in SubSeqs(text)
  <2>1. i \in 0..Len(text) /\ j \in 0..Len(text)
    BY <1>1, <1>3
  <2>2. \A k, l \in 0..Len(text) : SubSeq(text, k + 1, l) \in SubSeqs(text)
    BY DEF SubSeqs
  <2>3. SubSeq(text, i + 1, j) \in SubSeqs(text)
    BY <2>1, <2>2
  <2> QED
    BY <2>3, <1>6
<1> QED
  BY <1>7 DEF Hits, Forbidden

\* What the severity takes from a post is not its text.
LEMMA SeverityAlike ==
    ASSUME NEW p, NEW q, NEW intent, NEW products, NEW geo,
           p.source = q.source, p.age = q.age, p.views = q.views, p.followers = q.followers
    PROVE  Severity(p, intent, products, geo) = Severity(q, intent, products, geo)
BY DEF Severity, Exposure

\* Two posts that normalise alike, and whose captured texts show the same wallets
\* and amounts, are analysed alike.
LEMMA AnalysedAlike ==
    ASSUME NEW p, NEW q, NEW words, NEW known, NEW aids,
           Normalize(p.raw) = Normalize(q.raw),
           Wallets(p.raw) = Wallets(q.raw),
           Prices(p.raw) = Prices(q.raw), Quantities(p.raw) = Quantities(q.raw),
           p.hint = q.hint, p.source = q.source, p.age = q.age,
           p.views = q.views, p.followers = q.followers,
           Process(p, words, known, aids).kept,
           ~Sanitize(q.raw).dropped
    PROVE  LET o == Process(p, words, known, aids)
               u == Process(q, words, known, aids)
           IN /\ u.kept
              /\ <<o.text, o.products, o.decoded, o.intent, o.geo, o.severity, o.entities.vendors>>
                 = <<u.text, u.products, u.decoded, u.intent, u.geo, u.severity, u.entities.vendors>>
<1> DEFINE text     == Redact(Normalize(q.raw)).text
           mentions == Extract(text, aids.spacy)
           decoded  == Decode(words, text)
           vendors  == Vendors(mentions)
           intent   == Classify(text, aids.ml)
           geo      == MatchGeo(text, q.hint)
           products == Products(mentions, decoded, Prices(q.raw), Quantities(q.raw))
           signal   == products # <<>> \/ decoded # <<>> \/ vendors # <<>> \/ Wallets(q.raw) # {}
           Fields(o, r) ==
               /\ o.kept /\ o.text = text /\ o.products = products /\ o.decoded = decoded
               /\ o.intent = intent /\ o.geo = geo /\ o.entities.vendors = vendors
               /\ o.severity = Severity(r, intent, products, geo)
<1>1. Fields(Process(p, words, known, aids), p) /\ ~(intent.label = "UNRELATED" /\ ~signal)
  BY DEF Process, Dropped, Deterministic
<1>2. Fields(Process(q, words, known, aids), q)
  BY <1>1 DEF Process, Deterministic
<1>3. Severity(p, intent, products, geo) = Severity(q, intent, products, geo)
  BY SeverityAlike
<1> HIDE DEF text, mentions, decoded, vendors, intent, geo, products
<1> QED
  BY <1>1, <1>2, <1>3

-----------------------------------------------------------------------------
\* The outcome is what the pipeline makes of the captured post.
AnalysisInv ==
    /\ \E text \in Seq(Words) : post = Post(text, setting.origin)
    /\ \A i \in DOMAIN outcome :
          outcome[i] = Process(post, Dictionary, KnownActors(setting.earlier), setting.aids)

LEMMA AnalysisInvariant == AnalysisSpec => []AnalysisInv
<1>1. AnalysisInit => AnalysisInv
  <2> SUFFICES ASSUME AnalysisInit PROVE AnalysisInv
    OBVIOUS
  <2>1. PICK n \in 0..MaxWords : \E text \in [1..n -> Words] : post = Post(text, setting.origin)
    BY DEF AnalysisInit
  <2>2. [1..n -> Words] \subseteq Seq(Words)
    BY AnalysisConstantsOK
  <2> QED
    BY <2>1, <2>2 DEF AnalysisInit, AnalysisInv
<1>2. AnalysisInv /\ [Analyse]_analysisVars => AnalysisInv'
  BY DEF AnalysisInv, Analyse, analysisVars
<1> QED
  BY <1>1, <1>2, PTL DEF AnalysisSpec

\* The disguises that normalising undoes - wide characters, digits for letters,
\* emoji - change nothing that the analysis of a post of any length finds, with any
\* dictionary and any of the optional parts (nlp/pipeline.py, language.py): the post
\* in plain words is kept too, with the same text, products, coded words, intent,
\* place, severity and vendors, unless the operator's blocklist names that post.
THEOREM DisguisesChangeNothing ==
    AnalysisSpec => [](\A i \in DOMAIN outcome : outcome[i].kept => SameAsPlain(outcome[i]))
<1> DEFINE Owed == \A i \in DOMAIN outcome : outcome[i].kept => SameAsPlain(outcome[i])
<1>1. AnalysisInv => Owed
  <2> SUFFICES ASSUME AnalysisInv, NEW i \in DOMAIN outcome, outcome[i].kept,
                      PlainPost.raw \notin Blocklist
               PROVE  SameAsPlain(outcome[i])
    BY DEF SameAsPlain
  <2> DEFINE known == KnownActors(setting.earlier)
  <2>1. PICK text \in Seq(Words) : post = Post(text, setting.origin)
    BY DEF AnalysisInv
  <2>2. outcome[i] = Process(post, Dictionary, known, setting.aids)
    BY DEF AnalysisInv
  <2>3. /\ post.raw = text /\ PlainPost.raw = PlainText(text)
        /\ PlainPost.hint = post.hint /\ PlainPost.source = post.source
        /\ PlainPost.age = post.age /\ PlainPost.views = post.views
        /\ PlainPost.followers = post.followers
    BY <2>1 DEF Post, PlainPost, PlainText
  <2> HIDE DEF known
  <2>4. ~Sanitize(post.raw).dropped
    BY <2>2 DEF Process, Dropped
  <2>5. ~Sanitize(PlainPost.raw).dropped
    BY <2>3, <2>4, ForbiddenAlike DEF Sanitize
  <2>6. Process(post, Dictionary, known, setting.aids).kept
    BY <2>2
  <2>7. /\ Normalize(post.raw) = Normalize(PlainPost.raw)
        /\ Wallets(post.raw) = Wallets(PlainPost.raw)
        /\ Prices(post.raw) = Prices(PlainPost.raw)
        /\ Quantities(post.raw) = Quantities(PlainPost.raw)
    BY <2>3, NormalizedAlike, WalletsAlike, AmountsAlike
  <2> QED
    BY <2>2, <2>3, <2>5, <2>6, <2>7, AnalysedAlike DEF SameAsPlain, known
<1> QED
  BY <1>1, AnalysisInvariant, PTL

\* What is stored of a text shows no address and no number of its own.
LEMMA StoredTextIsRedacted ==
    ASSUME NEW raw PROVE ToSet(Redact(raw).text) \cap Personal = {}
<1>1. Redact(raw).text = [i \in DOMAIN raw |-> RedactWord(raw[i])]
  BY DEF Redact
<1> QED
  BY <1>1, PersonalRedacted DEF ToSet

\* A number and an address that are words of the captured text are listed, the
\* address before a full stop too.
LEMMA ContactsListed ==
    ASSUME NEW text
    PROVE  /\ "9876543210" \in ToSet(text) => \E c \in Contacts(text) : c.type = "phone"
           /\ ToSet(text) \cap {"buyer@proton.me", "buyer@proton.me."} # {} =>
                 \E c \in Contacts(text) : c.type = "email"
<1> DEFINE Listed(t) == {[type |-> t, value |-> ContactMasks[t][w]] :
                            w \in ToSet(text) \cap DOMAIN ContactMasks[t]}
<1>1. /\ "phone" \in DOMAIN ContactMasks /\ "email" \in DOMAIN ContactMasks
      /\ DOMAIN ContactMasks["phone"] = PhoneWords
      /\ DOMAIN ContactMasks["email"] = EmailWords \cup UncaughtEmails
  BY DEF ContactMasks
<1>2. Contacts(text) = UNION {Listed(t) : t \in DOMAIN ContactMasks}
  BY DEF Contacts
<1>3. ASSUME NEW t \in DOMAIN ContactMasks, NEW w \in ToSet(text) \cap DOMAIN ContactMasks[t]
      PROVE  \E c \in Contacts(text) : c.type = t
  <2>1. [type |-> t, value |-> ContactMasks[t][w]] \in Listed(t)
    OBVIOUS
  <2> HIDE DEF Listed
  <2> QED
    BY <1>2, <2>1
<1>4. /\ "9876543210" \in PhoneWords
      /\ {"buyer@proton.me", "buyer@proton.me."} \subseteq EmailWords \cup UncaughtEmails
  BY DEF PhoneWords, EmailWords, UncaughtEmails
<1> HIDE DEF Listed
<1> QED
  BY <1>1, <1>2, <1>3, <1>4

\* The wallet that a text shares with an earlier post leads to the actor of that.
LEMMA SharedWalletLinks ==
    ASSUME NEW earlier, NEW e \in earlier, NEW entities, NEW w \in entities.wallets,
           w \in e.wallets
    PROVE  \E l \in ActorLinks(entities, KnownActors(earlier)) :
              l.relation = "uses_wallet" /\ l.from = w.address
<1> DEFINE actor(x) == IF x.vendors = <<>> THEN <<"intel", x.id>> ELSE Head(x.vendors)
           known    == KnownActors(earlier)
           pair     == <<w.address, actor(e)>>
           shown     == {v.address : v \in entities.wallets}
           Shared3  == {q \in known.wallets : q[1] \in shown}
           Uses     == {Link(p[1], p[2], "uses_wallet", 900) : p \in Shared3}
<1>1. known.wallets = UNION {{<<v.address, actor(x)>> : v \in x.wallets} : x \in earlier}
  BY DEF KnownActors
<1> HIDE DEF actor, known
<1>2. pair \in known.wallets
  BY <1>1
<1>3. pair \in Shared3
  BY <1>2
<1>4. Link(pair[1], pair[2], "uses_wallet", 900) \in Uses
  BY <1>3
<1>5. Uses \subseteq ActorLinks(entities, known)
  BY DEF ActorLinks
<1>6. Link(pair[1], pair[2], "uses_wallet", 900).relation = "uses_wallet"
      /\ Link(pair[1], pair[2], "uses_wallet", 900).from = w.address
  BY DEF Link
<1> HIDE DEF Uses
<1> QED
  BY <1>4, <1>5, <1>6 DEF known

\* What is personal in a captured post of any length and whatever the actors known
\* (sanitizer.py, ner/deterministic.py, actors.py): the stored text shows no e-mail
\* address, in wide characters or not, that neither a full stop nor a hyphen
\* follows, and no number that is a word of its own; a number and an address, one
\* before a full stop too, are listed under a mask; every wallet is listed once and
\* leads to whoever showed it before; and a post that is dropped without being
\* prohibited shows none.
THEOREM ContactsAreKept ==
    AnalysisSpec => [](\A i \in DOMAIN outcome :
                          /\ outcome[i].kept => ContactsKept(outcome[i])
                          /\ \/ outcome[i].kept
                             \/ Sanitize(post.raw).dropped
                             \/ ToSet(post.raw) \cap Addresses = {})
<1> DEFINE Owed == \A i \in DOMAIN outcome :
                       /\ outcome[i].kept => ContactsKept(outcome[i])
                       /\ \/ outcome[i].kept
                          \/ Sanitize(post.raw).dropped
                          \/ ToSet(post.raw) \cap Addresses = {}
<1>1. AnalysisInv => Owed
  <2> SUFFICES ASSUME AnalysisInv, NEW i \in DOMAIN outcome
               PROVE  /\ outcome[i].kept => ContactsKept(outcome[i])
                      /\ \/ outcome[i].kept
                         \/ Sanitize(post.raw).dropped
                         \/ ToSet(post.raw) \cap Addresses = {}
    OBVIOUS
  <2> DEFINE o     == outcome[i]
             known == KnownActors(setting.earlier)
             raw   == post.raw
  <2>1. o = Process(post, Dictionary, known, setting.aids)
    BY DEF AnalysisInv
  <2> HIDE DEF o, known
  <2>2. CASE o.kept
    <3>1. /\ o.text = Redact(Normalize(raw)).text
          /\ o.entities.wallets = Wallets(raw) /\ o.entities.contacts = Contacts(raw)
          /\ o.links = ActorLinks(o.entities, known)
      BY <2>1, <2>2 DEF Process, Dropped, Deterministic
    <3>2. ToSet(o.text) \cap Personal = {}
      BY <3>1, StoredTextIsRedacted
    <3>3. /\ "9876543210" \in ToSet(raw) => \E c \in o.entities.contacts : c.type = "phone"
          /\ ToSet(raw) \cap {"buyer@proton.me", "buyer@proton.me."} # {} =>
                \E c \in o.entities.contacts : c.type = "email"
      BY <3>1, ContactsListed
    <3>4. /\ {w.address : w \in o.entities.wallets} = ToSet(raw) \cap Addresses
          /\ \A v, w \in o.entities.wallets : v.address = w.address => v = w
      <4> DEFINE shown == ToSet(raw) \cap Addresses
                 f(w) == [chain |-> Chains[Min(Claims(w))], address |-> w]
      <4>1. o.entities.wallets = {f(w) : w \in shown}
        BY <3>1, WalletsAre
      <4>2. \A w : f(w).address = w
        OBVIOUS
      <4> HIDE DEF f, shown
      <4>3. /\ {w.address : w \in {f(v) : v \in shown}} = shown
            /\ \A v, w \in {f(u) : u \in shown} : v.address = w.address => v = w
        BY <4>2
      <4> QED
        BY <4>1, <4>3 DEF shown
    <3>5. \A e \in setting.earlier, w \in o.entities.wallets :
             w \in e.wallets => \E l \in o.links : l.relation = "uses_wallet" /\ l.from = w.address
      BY <3>1, SharedWalletLinks DEF known
    <3> QED
      BY <2>2, <3>2, <3>3, <3>4, <3>5 DEF ContactsKept, o
  <2>3. CASE ~o.kept
    <3>1. Sanitize(raw).dropped \/ Wallets(raw) = {}
      BY <2>1, <2>3 DEF Process, Deterministic
    <3>2. Wallets(raw) = {} => ToSet(raw) \cap Addresses = {}
      BY WalletsAre
    <3> QED
      BY <2>3, <3>1, <3>2 DEF o
  <2> QED
    BY <2>2, <2>3
<1> QED
  BY <1>1, AnalysisInvariant, PTL

-----------------------------------------------------------------------------
(* Recursion along a sequence *)

\* A claim that holds at first and passes from one length to the next holds of all.
LEMMA UpTo ==
    ASSUME NEW N \in Nat, NEW P \in SUBSET (0 .. N), 0 \in P,
           \A n \in 1 .. N : n - 1 \in P => n \in P
    PROVE  P = 0 .. N
<1> DEFINE Bad == (0 .. N) \ P
<1>1. Bad = {}
  <2> SUFFICES ASSUME Bad # {} PROVE FALSE
    OBVIOUS
  <2>1. PICK n \in Bad : \A k \in Bad : n <= k
    <3>1. Bad \in SUBSET Nat
      OBVIOUS
    <3> HIDE DEF Bad
    <3> QED
      BY <3>1, LeastNat
  <2>2. n \in 1 .. N /\ n - 1 \in 0 .. N /\ ~(n <= n - 1)
    BY <2>1
  <2> QED
    BY <2>1, <2>2
<1> QED
  BY <1>1

\* What each step makes of the value before it defines a function.
Steps(f, N, V, base, G) ==
    /\ f \in [0 .. N -> V] /\ f[0] = base
    /\ \A n \in 1 .. N : f[n] = G[<<n, f[n - 1]>>]

\* Such a function exists, and a recursive definition that says the same is it.
LEMMA StepByStep ==
    ASSUME NEW N \in Nat, NEW V, NEW base \in V, NEW G \in [(1 .. N) \X V -> V]
    PROVE  \E f : Steps(f, N, V, base, G)
<1> DEFINE Until(f, m) == f[0] = base /\ \A n \in 1 .. m : f[n] = G[<<n, f[n - 1]>>]
           P == {m \in 0 .. N : \E f \in [0 .. m -> V] : Until(f, m)}
<1>1. 0 \in P
  <2> DEFINE z == [n \in 0 .. 0 |-> base]
  <2>1. z \in [0 .. 0 -> V] /\ Until(z, 0)
    OBVIOUS
  <2> HIDE DEF z, Until
  <2> QED
    BY <2>1
<1>2. ASSUME NEW m \in 1 .. N, m - 1 \in P PROVE m \in P
  <2>1. PICK g \in [0 .. m - 1 -> V] : Until(g, m - 1)
    BY <1>2
  <2> DEFINE h == [n \in 0 .. m |-> IF n = m THEN G[<<m, g[m - 1]>>] ELSE g[n]]
  <2>2. m - 1 \in 0 .. m - 1 /\ 0 \in 0 .. m - 1 /\ g[m - 1] \in V
    OBVIOUS
  <2>3. G[<<m, g[m - 1]>>] \in V
    BY <2>2
  <2>4. h \in [0 .. m -> V]
    BY <2>3
  <2>5. ASSUME NEW n \in 1 .. m PROVE h[n] = G[<<n, h[n - 1]>>]
    <3>1. CASE n = m
      <4>1. h[m] = G[<<m, g[m - 1]>>] /\ h[m - 1] = g[m - 1]
        OBVIOUS
      <4> QED
        BY <3>1, <4>1
    <3>2. CASE n # m
      <4>1. n \in 1 .. m - 1 /\ n - 1 \in 0 .. m - 1 /\ n - 1 # m
        BY <3>2
      <4>2. h[n] = g[n] /\ h[n - 1] = g[n - 1]
        BY <4>1, <3>2
      <4> QED
        BY <2>1, <4>1, <4>2
    <3> QED
      BY <3>1, <3>2
  <2>6. h[0] = base
    BY <2>1, <2>2
  <2> HIDE DEF h
  <2> QED
    BY <2>4, <2>5, <2>6
<1>3. P = 0 .. N
  <2> HIDE DEF P
  <2>1. P \in SUBSET (0 .. N)
    BY DEF P
  <2> QED
    BY <1>1, <1>2, <2>1, UpTo
<1>4. \E f \in [0 .. N -> V] : Until(f, N)
  <2>1. N \in P
    BY <1>3
  <2> HIDE DEF Until
  <2> QED
    BY <2>1
<1>5. PICK f \in [0 .. N -> V] : Until(f, N)
  BY <1>4
<1>6. Steps(f, N, V, base, G)
  BY <1>5 DEF Steps
<1> QED
  BY <1>6

\* The rows of a set, the i-th with i - 1 before it: all of them, in order, once.
Covers(s, S) == \A x \in S : \E i \in 1 .. Len(s) : s[i] = x
Sorted(s, R) == \A i, j \in 1 .. Len(s) : i < j => <<s[i], s[j]>> \in R
LEMMA RowsAre ==
    ASSUME NEW S, IsFiniteSet(S), NEW R, Orders(R, S),
           NEW s \in [1 .. Cardinality(S) -> S],
           \A i \in 1 .. Cardinality(S) : Rank(S, R, s[i]) = i - 1
    PROVE  /\ s \in Seq(S) /\ Len(s) = Cardinality(S)
           /\ Covers(s, S) /\ Sorted(s, R)
<1>1. Cardinality(S) \in Nat
  BY FS_CardinalityType
<1>2. s \in Seq(S) /\ Len(s) = Cardinality(S)
  BY <1>1
<1>3. \A x \in S : \E i \in 1 .. Len(s) : s[i] = x
  BY <1>2, RankedCovers
<1>4. \A i, j \in 1 .. Len(s) : i < j => <<s[i], s[j]>> \in R
  BY <1>2, RankedIsSorted
<1>5. Sorted(s, R)
  BY <1>4 DEF Sorted
<1>6. Covers(s, S)
  BY <1>3 DEF Covers
<1> QED
  BY <1>2, <1>5, <1>6

-----------------------------------------------------------------------------
(* Mentions *)

PhrasesIn(text) ==
    {SubSeq(text, i, j) : i, j \in 1 .. Len(text)} \cup {<<"milo99">>}
    \cup {<<Lookup(Cut, text[i])>> : i \in 1 .. Len(text)}
\* The mentions a text can have: spans, of a product exactly what it reads there.
Readings(text) ==
    {m \in [label : {"PRODUCT", "VENDOR"}, phrase : PhrasesIn(text),
            from : 1 .. Len(text), to : 1 .. Len(text)] :
        /\ m.from <= m.to
        /\ m.label = "PRODUCT" => m.phrase = SubSeq(text, m.from, m.to)}

\* The spans that read as a phrase, in a sequence without repetition.
SpanSet(phrases, text) ==
    {s \in (1 .. Len(text)) \X (1 .. Len(text)) :
        s[1] <= s[2] /\ SubSeq(text, s[1], s[2]) \in phrases}
LEMMA SpansAre ==
    ASSUME NEW W, NEW text \in Seq(W), NEW phrases
    PROVE  /\ Spans(phrases, text) \in Seq(SpanSet(phrases, text))
           /\ \A s \in SpanSet(phrases, text) :
                 \E i \in 1 .. Len(Spans(phrases, text)) : Spans(phrases, text)[i] = s
<1> DEFINE B == (1 .. Len(text)) \X (1 .. Len(text))
           S == SpanSet(phrases, text)
           before(s, t) == s[1] < t[1] \/ (s[1] = t[1] /\ s[2] < t[2])
           R == {c \in S \X S : before(c[1], c[2])}
           rows == Spans(phrases, text)
           n == Cardinality(S)
<1>1. Len(text) \in Nat
  OBVIOUS
<1>2. IsFiniteSet(B) /\ S \in SUBSET B
  <2>1. IsFiniteSet(1 .. Len(text))
    BY <1>1, FS_Interval
  <2>2. IsFiniteSet(B)
    BY <2>1, FS_Product
  <2> QED
    BY <2>2 DEF SpanSet
<1>3. IsFiniteSet(S) /\ n \in Nat
  BY <1>2, FS_Subset, FS_CardinalityType
<1>4. \A s \in S : s[1] \in Nat /\ s[2] \in Nat /\ s = <<s[1], s[2]>>
  BY <1>1, <1>2
<1>5. \A s, t \in S : <<s, t>> \in R <=> before(s, t)
  OBVIOUS
<1>6. rows = [i \in 1 .. n |-> CHOOSE s \in S : Cardinality({t \in S : before(t, s)}) = i - 1]
  BY DEF Spans, Ordered, SpanSet
<1> HIDE DEF S, R, rows
<1>7. Orders(R, S)
  BY <1>4, <1>5 DEF Orders
<1> HIDE DEF before
<1>8. \A s \in S : {t \in S : before(t, s)} = {t \in S : <<t, s>> \in R}
  BY <1>5
<1>9. \A i \in 1 .. n : \E s \in S : Cardinality({t \in S : before(t, s)}) = i - 1
  <2> SUFFICES ASSUME NEW i \in 1 .. n
               PROVE  \E s \in S : Cardinality({t \in S : before(t, s)}) = i - 1
    OBVIOUS
  <2>1. PICK s \in S : Rank(S, R, s) = i - 1
    BY <1>3, <1>7, RankTaken
  <2> QED
    BY <1>8, <2>1 DEF Rank
<1>10. rows \in [1 .. n -> S] /\ \A i \in 1 .. n : Cardinality({t \in S : before(t, rows[i])}) = i - 1
  BY <1>6, <1>9
<1>11. \A i \in 1 .. n : Rank(S, R, rows[i]) = i - 1
  BY <1>8, <1>10 DEF Rank
<1>12. rows \in Seq(S) /\ \A s \in S : \E i \in 1 .. Len(rows) : rows[i] = s
  BY <1>3, <1>7, <1>10, <1>11, RowsAre DEF Covers
<1> QED
  BY <1>12 DEF rows, S

\* So the mentions of a label are readings, and every span that reads as one of
\* its phrases is mentioned.
AllMentioned(label, phrases, text) ==
    \A i, j \in 1 .. Len(text) :
        i <= j /\ SubSeq(text, i, j) \in phrases =>
            \E k \in 1 .. Len(MentionsOf(label, phrases, text)) :
                MentionsOf(label, phrases, text)[k] = Mention(label, SubSeq(text, i, j), i, j)
LEMMA MentionsAre ==
    ASSUME NEW W, NEW text \in Seq(W), NEW label \in {"PRODUCT", "VENDOR"}, NEW phrases
    PROVE  /\ MentionsOf(label, phrases, text) \in Seq({m \in Readings(text) : m.label = label})
           /\ AllMentioned(label, phrases, text)
           /\ \A k \in 1 .. Len(MentionsOf(label, phrases, text)) :
                 LET m == MentionsOf(label, phrases, text)[k]
                 IN m.phrase = SubSeq(text, m.from, m.to) /\ m.phrase \in phrases
<1> DEFINE S == SpanSet(phrases, text)
           spans == Spans(phrases, text)
           made(s) == Mention(label, SubSeq(text, s[1], s[2]), s[1], s[2])
           M == {m \in Readings(text) : m.label = label}
           ms == MentionsOf(label, phrases, text)
<1>1. spans \in Seq(S) /\ \A s \in S : \E i \in 1 .. Len(spans) : spans[i] = s
  BY SpansAre
<1>2. ms = [i \in DOMAIN spans |-> made(spans[i])]
  BY DEF MentionsOf
<1> HIDE DEF ms, spans
<1>3. \A s \in S : made(s) \in M /\ made(s).phrase = SubSeq(text, made(s).from, made(s).to)
                   /\ made(s).phrase \in phrases
  <2> SUFFICES ASSUME NEW s \in S
               PROVE  made(s) \in M /\ made(s).phrase = SubSeq(text, made(s).from, made(s).to)
                      /\ made(s).phrase \in phrases
    OBVIOUS
  <2>1. /\ s[1] \in 1 .. Len(text) /\ s[2] \in 1 .. Len(text) /\ s[1] <= s[2]
        /\ SubSeq(text, s[1], s[2]) \in phrases
    BY DEF SpanSet
  <2>2. SubSeq(text, s[1], s[2]) \in PhrasesIn(text)
    <3> DEFINE A == {SubSeq(text, i, j) : i, j \in 1 .. Len(text)}
               B == {<<Lookup(Cut, text[i])>> : i \in 1 .. Len(text)}
    <3>1. SubSeq(text, s[1], s[2]) \in A
      BY <2>1
    <3>2. PhrasesIn(text) = A \cup {<<"milo99">>} \cup B
      BY DEF PhrasesIn
    <3> HIDE DEF A, B
    <3> QED
      BY <3>1, <3>2
  <2>3. /\ made(s) = [label |-> label, phrase |-> SubSeq(text, s[1], s[2]),
                      from |-> s[1], to |-> s[2]]
    BY DEF Mention
  <2> HIDE DEF made, S
  <2>4. made(s) \in Readings(text)
    BY <2>1, <2>2, <2>3 DEF Readings
  <2> QED
    BY <2>1, <2>3, <2>4
<1>4. \A i, j \in 1 .. Len(text) :
         i <= j /\ SubSeq(text, i, j) \in phrases =>
             <<i, j>> \in S /\ made(<<i, j>>) = Mention(label, SubSeq(text, i, j), i, j)
  BY DEF SpanSet
<1> HIDE DEF S, made, M
<1>5. Len(spans) \in Nat /\ DOMAIN spans = 1 .. Len(spans) /\ \A k \in 1 .. Len(spans) : spans[k] \in S
  BY <1>1
<1>6. /\ ms \in Seq(M) /\ Len(ms) = Len(spans)
      /\ \A k \in 1 .. Len(ms) : spans[k] \in S /\ ms[k] = made(spans[k])
  BY <1>2, <1>3, <1>5
<1>7. \A s \in S : \E k \in 1 .. Len(ms) : ms[k] = made(s)
  BY <1>1, <1>6
<1>8. \A i, j \in 1 .. Len(text) :
         i <= j /\ SubSeq(text, i, j) \in phrases =>
             \E k \in 1 .. Len(ms) : ms[k] = Mention(label, SubSeq(text, i, j), i, j)
  <2> SUFFICES ASSUME NEW i \in 1 .. Len(text), NEW j \in 1 .. Len(text),
                      i <= j /\ SubSeq(text, i, j) \in phrases
               PROVE  \E k \in 1 .. Len(ms) : ms[k] = Mention(label, SubSeq(text, i, j), i, j)
    OBVIOUS
  <2>1. <<i, j>> \in S /\ made(<<i, j>>) = Mention(label, SubSeq(text, i, j), i, j)
    BY <1>4
  <2> QED
    BY <1>7, <2>1
<1>9. \A k \in 1 .. Len(ms) :
         ms[k].phrase = SubSeq(text, ms[k].from, ms[k].to) /\ ms[k].phrase \in phrases
  BY <1>3, <1>6
<1> QED
  BY <1>6, <1>8, <1>9 DEF ms, M, AllMentioned

\* Lists one behind the other: the elements of the first come first, and none is lost.
LEMMA FlattenAre ==
    ASSUME NEW S, NEW seqs \in Seq(Seq(S)), Len(seqs) # 0
    PROVE  \E f \in [1 .. Len(seqs) -> Seq(S)] :
              /\ f[1] = seqs[1]
              /\ \A i \in 2 .. Len(seqs) : f[i] = f[i - 1] \o seqs[i]
              /\ FlattenSeq(seqs) = f[Len(seqs)]
<1> DEFINE n == Len(seqs)
           V == Seq(S)
           G == [c \in (1 .. n) \X V |-> IF c[1] = 1 THEN seqs[1] ELSE c[2] \o seqs[c[1]]]
           Flat(f) == f = [i \in 1 .. n |-> IF i = 1 THEN seqs[i] ELSE f[i - 1] \o seqs[i]]
           made == CHOOSE f : Flat(f)
<1>1. n \in Nat /\ n >= 1 /\ <<>> \in V /\ \A i \in 1 .. n : seqs[i] \in V
  OBVIOUS
<1>2. G \in [(1 .. n) \X V -> V]
  <2>1. \A v, w \in V : v \o w \in V
    OBVIOUS
  <2> HIDE DEF V
  <2> QED
    BY <1>1, <2>1
<1>12. \A i \in 1 .. n : \A v \in V :
         G[<<i, v>>] = IF i = 1 THEN seqs[1] ELSE v \o seqs[i]
  OBVIOUS
<1> HIDE DEF V, G, n
<1>3. PICK g \in [0 .. n -> V] : g[0] = <<>> /\ \A i \in 1 .. n : g[i] = G[<<i, g[i - 1]>>]
  <2>1. n \in Nat /\ <<>> \in V
    BY <1>1
  <2>2. PICK g : Steps(g, n, V, <<>>, G)
    BY <1>2, <2>1, StepByStep
  <2> QED
    BY <2>2 DEF Steps
<1>4. \A i \in 1 .. n : i - 1 \in 0 .. n /\ g[i - 1] \in V
  BY <1>1
<1>5. \A i \in 1 .. n : g[i] = IF i = 1 THEN seqs[i] ELSE g[i - 1] \o seqs[i]
  BY <1>3, <1>4, <1>12
<1>6. Flat([i \in 1 .. n |-> g[i]])
  <2> DEFINE f == [i \in 1 .. n |-> g[i]]
  <2>1. \A i \in 1 .. n : i # 1 => i - 1 \in 1 .. n /\ f[i - 1] = g[i - 1]
    BY <1>1
  <2>2. \A i \in 1 .. n : f[i] = IF i = 1 THEN seqs[i] ELSE f[i - 1] \o seqs[i]
    BY <1>5, <2>1
  <2>3. f = [i \in 1 .. n |-> f[i]]
    OBVIOUS
  <2> HIDE DEF f
  <2> QED
    BY <2>2, <2>3 DEF f
<1>7. Flat(made)
  <2> HIDE DEF Flat
  <2> QED
    BY <1>6
<1>8. FlattenSeq(seqs) = made[n]
  BY <1>1 DEF FlattenSeq, n
<1> HIDE DEF made
<1>9. made[1] = seqs[1] /\ \A i \in 2 .. n : made[i] = made[i - 1] \o seqs[i]
  <2>1. \A i \in 1 .. n : made[i] = IF i = 1 THEN seqs[i] ELSE made[i - 1] \o seqs[i]
    BY <1>7
  <2>2. 1 \in 1 .. n /\ \A i \in 2 .. n : i \in 1 .. n /\ i # 1
    BY <1>1
  <2> QED
    BY <2>1, <2>2
<1>10. \A i \in 1 .. n : made[i] \in V
  <2> DEFINE P == {0} \cup {i \in 1 .. n : made[i] \in V}
  <2>1. \A v, w \in V : v \o w \in V
    BY DEF V
  <2>2. \A i \in 1 .. n : i - 1 \in P => i \in P
    <3> SUFFICES ASSUME NEW i \in 1 .. n, i - 1 \in P PROVE made[i] \in V
      OBVIOUS
    <3>1. CASE i = 1
      BY <1>1, <1>9, <3>1
    <3>2. CASE i # 1
      <4>1. i \in 2 .. n /\ made[i - 1] \in V
        BY <1>1, <3>2
      <4> QED
        BY <1>1, <1>9, <2>1, <4>1
    <3> QED
      BY <3>1, <3>2
  <2>3. P \in SUBSET (0 .. n) /\ 0 \in P
    BY <1>1
  <2>4. P = 0 .. n
    <3> HIDE DEF P, n
    <3> QED
      BY <1>1, <2>2, <2>3, UpTo
  <2> QED
    BY <1>1, <2>4
<1>11. made \in [1 .. n -> V]
  BY <1>7, <1>10
<1> QED
  BY <1>8, <1>9, <1>11 DEF V, n

-----------------------------------------------------------------------------
(* The greedy choice *)

\* What has been chosen of the first n mentions: mentions that do not overlap, such
\* that each of the n is chosen or overlaps one chosen no later.
Chosen(kept, ms, n) ==
    /\ \A i, j \in 1 .. Len(kept) : i # j => ~Overlap(kept[i], kept[j])
    /\ \A i \in 1 .. Len(kept) : \E e \in 1 .. n : kept[i] = ms[e]
    /\ \A j \in 1 .. n : \E i \in 1 .. Len(kept), e \in 1 .. j :
          kept[i] = ms[e] /\ (e = j \/ Overlap(ms[j], ms[e]))

\* One more mention is looked at: admitted, or it overlaps one that was.
LEMMA AdmitKeeps ==
    ASSUME NEW M, NEW ms \in Seq(M), NEW n \in 1 .. Len(ms), NEW kept \in Seq(M),
           Chosen(kept, ms, n - 1)
    PROVE  Admit(kept, ms[n]) \in Seq(M) /\ Chosen(Admit(kept, ms[n]), ms, n)
<1> DEFINE m == ms[n]
<1>1. m \in M /\ Len(kept) \in Nat /\ DOMAIN kept = 1 .. Len(kept)
  OBVIOUS
<1>2. CASE \E i \in 1 .. Len(kept) : Overlap(m, kept[i])
  <2>1. Admit(kept, m) = kept
    BY <1>1, <1>2 DEF Admit
  <2>2. PICK i \in 1 .. Len(kept) : Overlap(m, kept[i])
    BY <1>2
  <2>3. PICK e \in 1 .. n - 1 : kept[i] = ms[e]
    BY DEF Chosen
  <2>4. e \in 1 .. n /\ kept[i] = ms[e] /\ Overlap(ms[n], ms[e])
    BY <2>2, <2>3
  <2>5. \A k \in 1 .. Len(kept) : \E c \in 1 .. n : kept[k] = ms[c]
    BY DEF Chosen
  <2>6. \A j \in 1 .. n : \E k \in 1 .. Len(kept), c \in 1 .. j :
           kept[k] = ms[c] /\ (c = j \/ Overlap(ms[j], ms[c]))
    <3> SUFFICES ASSUME NEW j \in 1 .. n
                 PROVE  \E k \in 1 .. Len(kept), c \in 1 .. j :
                           kept[k] = ms[c] /\ (c = j \/ Overlap(ms[j], ms[c]))
      OBVIOUS
    <3>1. CASE j = n
      BY <2>4, <3>1
    <3>2. CASE j # n
      <4>1. j \in 1 .. n - 1
        BY <3>2
      <4> QED
        BY <4>1 DEF Chosen
    <3> QED
      BY <3>1, <3>2
  <2>7. Chosen(kept, ms, n)
    BY <2>5, <2>6 DEF Chosen
  <2> QED
    BY <2>1, <2>7
<1>3. CASE ~\E i \in 1 .. Len(kept) : Overlap(m, kept[i])
  <2> DEFINE more == Append(kept, m)
  <2>1. Admit(kept, m) = more
    BY <1>1, <1>3 DEF Admit
  <2>2. /\ more \in Seq(M) /\ Len(more) = Len(kept) + 1 /\ more[Len(kept) + 1] = m
        /\ \A i \in 1 .. Len(kept) : more[i] = kept[i]
    BY <1>1
  <2> HIDE DEF more
  <2>3. \A i \in 1 .. Len(more) : i \in 1 .. Len(kept) \/ i = Len(kept) + 1
    BY <1>1, <2>2
  <2>4. \A i \in 1 .. Len(kept) : i \in 1 .. Len(more) /\ ~Overlap(kept[i], m) /\ ~Overlap(m, kept[i])
    BY <1>1, <1>3, <2>2 DEF Overlap
  <2>5. \A i, j \in 1 .. Len(more) : i # j => ~Overlap(more[i], more[j])
    <3> SUFFICES ASSUME NEW i \in 1 .. Len(more), NEW j \in 1 .. Len(more), i # j
                 PROVE  ~Overlap(more[i], more[j])
      OBVIOUS
    <3>1. CASE i \in 1 .. Len(kept) /\ j \in 1 .. Len(kept)
      BY <2>2, <3>1 DEF Chosen
    <3>2. CASE i = Len(kept) + 1 /\ j \in 1 .. Len(kept)
      BY <2>2, <2>4, <3>2
    <3>3. CASE i \in 1 .. Len(kept) /\ j = Len(kept) + 1
      BY <2>2, <2>4, <3>3
    <3> QED
      BY <2>3, <3>1, <3>2, <3>3
  <2>6. n \in 1 .. n /\ \A e \in 1 .. n - 1 : e \in 1 .. n
    OBVIOUS
  <2>7. \A i \in 1 .. Len(more) : \E e \in 1 .. n : more[i] = ms[e]
    <3> SUFFICES ASSUME NEW i \in 1 .. Len(more) PROVE \E e \in 1 .. n : more[i] = ms[e]
      OBVIOUS
    <3>1. CASE i \in 1 .. Len(kept)
      <4>1. PICK e \in 1 .. n - 1 : kept[i] = ms[e]
        BY <3>1 DEF Chosen
      <4> QED
        BY <2>2, <2>6, <3>1, <4>1
    <3>2. CASE i = Len(kept) + 1
      BY <2>2, <2>6, <3>2
    <3> QED
      BY <2>3, <3>1, <3>2
  <2>8. \A j \in 1 .. n : \E k \in 1 .. Len(more), c \in 1 .. j :
           more[k] = ms[c] /\ (c = j \/ Overlap(ms[j], ms[c]))
    <3> SUFFICES ASSUME NEW j \in 1 .. n
                 PROVE  \E k \in 1 .. Len(more), c \in 1 .. j :
                           more[k] = ms[c] /\ (c = j \/ Overlap(ms[j], ms[c]))
      OBVIOUS
    <3>1. CASE j = n
      <4>1. Len(kept) + 1 \in 1 .. Len(more) /\ j \in 1 .. j
        BY <1>1, <2>2
      <4> QED
        BY <2>2, <3>1, <4>1
    <3>2. CASE j # n
      <4>1. j \in 1 .. n - 1
        BY <3>2
      <4>2. PICK k \in 1 .. Len(kept), c \in 1 .. j :
               kept[k] = ms[c] /\ (c = j \/ Overlap(ms[j], ms[c]))
        BY <4>1 DEF Chosen
      <4> QED
        BY <2>2, <2>4, <4>2
    <3> QED
      BY <3>1, <3>2
  <2>9. Chosen(more, ms, n)
    BY <2>5, <2>7, <2>8 DEF Chosen
  <2> QED
    BY <2>1, <2>2, <2>9
<1> QED
  BY <1>2, <1>3

\* So the choice keeps mentions that do not overlap, and gives up a mention only
\* for one that precedes it in the list.
LEMMA GreedyIs ==
    ASSUME NEW M, NEW ms \in Seq(M)
    PROVE  Greedy(ms) \in Seq(M) /\ Chosen(Greedy(ms), ms, Len(ms))
<1> DEFINE N == Len(ms)
           V == Seq(M)
           G == [c \in (1 .. N) \X V |-> Admit(c[2], ms[c[1]])]
           Rec(f) == f = [n \in 0 .. N |-> IF n = 0 THEN <<>> ELSE Admit(f[n - 1], ms[n])]
           kept == CHOOSE f : Rec(f)
<1>1. N \in Nat /\ <<>> \in V /\ \A n \in 1 .. N : ms[n] \in M
  OBVIOUS
<1>2. G \in [(1 .. N) \X V -> V]
  <2>1. \A v \in V : \A m \in M : Admit(v, m) \in V
    BY DEF Admit
  <2> HIDE DEF V
  <2> QED
    BY <1>1, <2>1
<1>3. \A n \in 1 .. N : \A v \in V : G[<<n, v>>] = Admit(v, ms[n])
  OBVIOUS
<1>4. Greedy(ms) = kept[N]
  BY DEF Greedy
<1> HIDE DEF V, G, N
<1>5. PICK g : Steps(g, N, V, <<>>, G)
  BY <1>1, <1>2, StepByStep
<1>6. g \in [0 .. N -> V] /\ g[0] = <<>> /\ \A n \in 1 .. N : g[n] = G[<<n, g[n - 1]>>]
  BY <1>5 DEF Steps
<1>7. \A n \in 1 .. N : n - 1 \in 0 .. N /\ g[n - 1] \in V
  BY <1>1, <1>6
<1>8. \A n \in 0 .. N : g[n] = IF n = 0 THEN <<>> ELSE Admit(g[n - 1], ms[n])
  <2>1. \A n \in 1 .. N : n # 0 /\ g[n] = Admit(g[n - 1], ms[n])
    BY <1>1, <1>3, <1>6, <1>7
  <2>2. \A n \in 0 .. N : n = 0 \/ n \in 1 .. N
    BY <1>1
  <2> QED
    BY <1>6, <2>1, <2>2
<1>9. g = [n \in 0 .. N |-> g[n]]
  BY <1>6
<1>10. Rec(g)
  BY <1>8, <1>9
<1>11. Rec(kept)
  <2> HIDE DEF Rec
  <2> QED
    BY <1>10
<1> HIDE DEF kept
<1>12. kept[0] = <<>> /\ \A n \in 1 .. N : kept[n] = Admit(kept[n - 1], ms[n])
  <2>1. \A n \in 0 .. N : kept[n] = IF n = 0 THEN <<>> ELSE Admit(kept[n - 1], ms[n])
    BY <1>11
  <2>2. 0 \in 0 .. N /\ \A n \in 1 .. N : n \in 0 .. N /\ n # 0
    BY <1>1
  <2> QED
    BY <2>1, <2>2
<1> DEFINE P == {n \in 0 .. N : kept[n] \in V /\ Chosen(kept[n], ms, n)}
<1>13. P \in SUBSET (0 .. N) /\ 0 \in P
  <2>1. Chosen(<<>>, ms, 0)
    BY DEF Chosen
  <2> QED
    BY <1>1, <1>12, <2>1
<1>14. ASSUME NEW n \in 1 .. N, n - 1 \in P PROVE n \in P
  <2>1. n - 1 \in 0 .. N /\ n \in 0 .. N /\ kept[n - 1] \in Seq(M) /\ Chosen(kept[n - 1], ms, n - 1)
    BY <1>1, <1>14 DEF V
  <2>2. Admit(kept[n - 1], ms[n]) \in Seq(M) /\ Chosen(Admit(kept[n - 1], ms[n]), ms, n)
    BY <2>1, AdmitKeeps DEF N
  <2> QED
    BY <1>12, <2>1, <2>2 DEF V
<1>15. N \in P
  <2> HIDE DEF P
  <2>1. P = 0 .. N
    BY <1>1, <1>13, <1>14, UpTo
  <2> QED
    BY <1>1, <2>1
<1> QED
  BY <1>4, <1>15 DEF V, N

\* So the lists stand in a row: each after what the ones before it join to.
Joined(f, seqs, S) ==
    /\ f \in [0 .. Len(seqs) -> Seq(S)]
    /\ f[0] = <<>> /\ f[Len(seqs)] = FlattenSeq(seqs)
    /\ \A i \in 1 .. Len(seqs) :
          /\ Len(f[i]) = Len(f[i - 1]) + Len(seqs[i])
          /\ \A x \in 1 .. Len(seqs[i]) : f[i][Len(f[i - 1]) + x] = seqs[i][x]
    /\ \A i \in 0 .. Len(seqs) :
          /\ Len(f[i]) <= Len(FlattenSeq(seqs))
          /\ \A x \in 1 .. Len(f[i]) : FlattenSeq(seqs)[x] = f[i][x]

\* A sequence of sequences joined: such a row of joins exists for any number of them.
LEMMA FlattenIs ==
    ASSUME NEW S, NEW seqs \in Seq(Seq(S))
    PROVE  \E f : Joined(f, seqs, S)
<1>1. Len(seqs) \in Nat /\ \A i \in 1 .. Len(seqs) : seqs[i] \in Seq(S)
  OBVIOUS
<1>2. CASE Len(seqs) = 0
  <2> DEFINE f == [i \in 0 .. 0 |-> <<>>]
  <2>1. seqs = <<>> /\ FlattenSeq(seqs) = <<>>
    BY <1>2 DEF FlattenSeq
  <2>2. Joined(f, seqs, S)
    BY <1>2, <2>1 DEF Joined
  <2> HIDE DEF f
  <2> QED
    BY <2>2
<1>3. CASE Len(seqs) # 0
  <2> DEFINE n == Len(seqs)
  <2>1. PICK g \in [1 .. n -> Seq(S)] :
           /\ g[1] = seqs[1]
           /\ \A i \in 2 .. n : g[i] = g[i - 1] \o seqs[i]
           /\ FlattenSeq(seqs) = g[n]
    BY <1>3, FlattenAre
  <2> DEFINE f == [i \in 0 .. n |-> IF i = 0 THEN <<>> ELSE g[i]]
  <2>2. n \in Nat /\ n >= 1 /\ 0 \in 0 .. n /\ n \in 0 .. n /\ n \in 1 .. n
    BY <1>1, <1>3
  <2>3. f \in [0 .. n -> Seq(S)] /\ f[0] = <<>> /\ \A i \in 1 .. n : f[i] = g[i]
    BY <2>1, <2>2
  <2> HIDE DEF f, n
  <2>4. \A i \in 1 .. n : i - 1 \in 0 .. n /\ i \in 0 .. n /\ f[i - 1] \in Seq(S) /\ f[i] = f[i - 1] \o seqs[i]
    <3> SUFFICES ASSUME NEW i \in 1 .. n
                 PROVE  i - 1 \in 0 .. n /\ i \in 0 .. n /\ f[i - 1] \in Seq(S) /\ f[i] = f[i - 1] \o seqs[i]
      OBVIOUS
    <3>0. i - 1 \in 0 .. n /\ i \in 0 .. n
      BY <2>2
    <3>1. i - 1 \in 0 .. n /\ i \in 0 .. n /\ f[i - 1] \in Seq(S) /\ seqs[i] \in Seq(S)
      <4>1. seqs[i] \in Seq(S)
        BY <1>1 DEF n
      <4> QED
        BY <2>3, <3>0, <4>1
    <3>2. CASE i = 1
      <4>1. f[0] \o seqs[i] = seqs[i]
        BY <2>3, <3>1
      <4> QED
        BY <2>1, <2>3, <3>1, <3>2, <4>1
    <3>3. CASE i # 1
      <4>1. i \in 2 .. n /\ i - 1 \in 1 .. n
        BY <2>2, <3>3
      <4> QED
        BY <2>1, <2>3, <3>1, <4>1
    <3> QED
      BY <3>2, <3>3, <3>1
  <2>5. \A i \in 1 .. n : /\ Len(f[i - 1]) \in Nat /\ Len(f[i]) \in Nat /\ Len(seqs[i]) \in Nat
                          /\ Len(f[i]) = Len(f[i - 1]) + Len(seqs[i])
                          /\ \A x \in 1 .. Len(seqs[i]) : f[i][Len(f[i - 1]) + x] = seqs[i][x]
                          /\ \A x \in 1 .. Len(f[i - 1]) : f[i][x] = f[i - 1][x]
    <3> SUFFICES ASSUME NEW i \in 1 .. n
                 PROVE  /\ Len(f[i - 1]) \in Nat /\ Len(f[i]) \in Nat /\ Len(seqs[i]) \in Nat
                        /\ Len(f[i]) = Len(f[i - 1]) + Len(seqs[i])
                        /\ \A x \in 1 .. Len(seqs[i]) : f[i][Len(f[i - 1]) + x] = seqs[i][x]
                        /\ \A x \in 1 .. Len(f[i - 1]) : f[i][x] = f[i - 1][x]
      OBVIOUS
    <3> DEFINE a == f[i - 1]
               b == seqs[i]
    <3>1. a \in Seq(S) /\ b \in Seq(S) /\ f[i] = a \o b
      BY <1>1, <2>4 DEF n
    <3> HIDE DEF a, b
    <3>2. /\ Len(a) \in Nat /\ Len(b) \in Nat /\ a \o b \in Seq(S) /\ Len(a \o b) = Len(a) + Len(b)
          /\ \A x \in 1 .. Len(b) : (a \o b)[Len(a) + x] = b[x]
          /\ \A x \in 1 .. Len(a) : (a \o b)[x] = a[x]
      BY <3>1
    <3>3. Len(a \o b) \in Nat
      BY <3>2
    <3> QED
      BY <3>1, <3>2, <3>3 DEF a, b
  <2> DEFINE Row(m) == \A i \in 0 .. m : Len(f[i]) <= Len(f[m]) /\ \A x \in 1 .. Len(f[i]) : f[m][x] = f[i][x]
             P == {m \in 0 .. n : Row(m)}
  <2>6. 0 \in P
    <3>1. Len(f[0]) = 0 /\ 0 .. 0 = {0}
      BY <2>3
    <3> QED
      BY <2>2, <3>1
  <2>7. ASSUME NEW m \in 1 .. n, m - 1 \in P PROVE m \in P
    <3>1. m \in 0 .. n /\ Row(m - 1)
      BY <2>7, <2>4
    <3>2. ASSUME NEW i \in 0 .. m
          PROVE  Len(f[i]) <= Len(f[m]) /\ \A x \in 1 .. Len(f[i]) : f[m][x] = f[i][x]
      <4>0. Len(f[m]) \in Nat
        BY <2>5
      <4>1. CASE i = m
        BY <4>0, <4>1
      <4>2. CASE i # m
        <5>1. i \in 0 .. m - 1 /\ i \in 0 .. n
          BY <2>2, <4>2
        <5>2. f[i] \in Seq(S) /\ Len(f[i]) \in Nat
          BY <2>3, <5>1
        <5>3. Len(f[i]) <= Len(f[m - 1]) /\ \A x \in 1 .. Len(f[i]) : f[m - 1][x] = f[i][x]
          BY <3>1, <5>1
        <5>4. /\ Len(f[m - 1]) \in Nat /\ Len(seqs[m]) \in Nat /\ Len(f[m]) = Len(f[m - 1]) + Len(seqs[m])
              /\ \A x \in 1 .. Len(f[m - 1]) : f[m][x] = f[m - 1][x]
          BY <2>5
        <5>5. \A x \in 1 .. Len(f[i]) : x \in 1 .. Len(f[m - 1])
          BY <5>2, <5>3, <5>4
        <5> QED
          <6>1. Len(f[i]) <= Len(f[m])
            <7> DEFINE a == Len(f[i])
                       b == Len(f[m - 1])
                       c == Len(f[m])
                       d == Len(seqs[m])
            <7>1. a \in Nat /\ b \in Nat /\ c \in Nat /\ d \in Nat /\ a <= b /\ c = b + d
              BY <5>2, <5>3, <5>4, <4>0
            <7> HIDE DEF a, b, c, d
            <7>2. a <= c
              BY <7>1
            <7> QED
              BY <7>2 DEF a, c
          <6>2. \A x \in 1 .. Len(f[i]) : f[m][x] = f[i][x]
            BY <5>3, <5>4, <5>5
          <6> QED
            BY <6>1, <6>2
      <4> QED
        BY <4>1, <4>2
    <3> QED
      BY <3>1, <3>2
  <2>8. Row(n)
    <3>1. P \in SUBSET (0 .. n)
      OBVIOUS
    <3> HIDE DEF Row
    <3>2. P = 0 .. n
      <4> HIDE DEF P
      <4> QED
        BY <2>2, <2>6, <2>7, <3>1, UpTo
    <3> QED
      BY <2>2, <3>2
  <2>9. f[n] = FlattenSeq(seqs)
    BY <2>1, <2>2, <2>3
  <2>10. Joined(f, seqs, S)
    <3>1. \A i \in 0 .. n : /\ Len(f[i]) <= Len(FlattenSeq(seqs))
                            /\ \A x \in 1 .. Len(f[i]) : FlattenSeq(seqs)[x] = f[i][x]
      BY <2>8, <2>9
    <3> QED
      BY <2>3, <2>5, <2>9, <3>1 DEF Joined, n
  <2> QED
    BY <2>10
<1> QED
  BY <1>1, <1>2, <1>3

\* The joined list is one of the same elements, none is lost, and the first list
\* stays where it was.
LEMMA FlattenHas ==
    ASSUME NEW S, NEW seqs \in Seq(Seq(S))
    PROVE  /\ FlattenSeq(seqs) \in Seq(S)
           /\ \A i \in 1 .. Len(seqs) : \A k \in 1 .. Len(seqs[i]) :
                 \E j \in 1 .. Len(FlattenSeq(seqs)) : FlattenSeq(seqs)[j] = seqs[i][k]
           /\ Len(seqs) # 0 =>
                 /\ Len(seqs[1]) <= Len(FlattenSeq(seqs))
                 /\ \A k \in 1 .. Len(seqs[1]) : FlattenSeq(seqs)[k] = seqs[1][k]
<1> DEFINE n == Len(seqs)
           all == FlattenSeq(seqs)
<1>1. PICK f : Joined(f, seqs, S)
  BY FlattenIs
<1>2. n \in Nat /\ f \in [0 .. n -> Seq(S)] /\ f[0] = <<>> /\ f[n] = all
  BY <1>1 DEF Joined
<1>9. \A i \in 1 .. n : i - 1 \in 0 .. n /\ i \in 0 .. n
  BY <1>2
<1>10. \A i \in 1 .. n : /\ Len(f[i]) = Len(f[i - 1]) + Len(seqs[i])
                        /\ \A x \in 1 .. Len(seqs[i]) : f[i][Len(f[i - 1]) + x] = seqs[i][x]
  BY <1>1 DEF Joined
<1>11. \A i \in 0 .. n : /\ Len(f[i]) <= Len(all)
                        /\ \A x \in 1 .. Len(f[i]) : all[x] = f[i][x]
  BY <1>1 DEF Joined
<1>12. \A i \in 0 .. n : f[i] \in Seq(S) /\ Len(f[i]) \in Nat
  <2> HIDE DEF n, all
  <2> QED
    BY <1>2
<1>3. \A i \in 1 .. n : /\ i - 1 \in 0 .. n /\ i \in 0 .. n
                        /\ Len(f[i]) = Len(f[i - 1]) + Len(seqs[i])
                        /\ \A x \in 1 .. Len(seqs[i]) : f[i][Len(f[i - 1]) + x] = seqs[i][x]
  BY <1>9, <1>10
<1>4. \A i \in 0 .. n : f[i] \in Seq(S) /\ Len(f[i]) \in Nat /\ Len(f[i]) <= Len(all)
                        /\ \A x \in 1 .. Len(f[i]) : all[x] = f[i][x]
  BY <1>11, <1>12
<1>5. all \in Seq(S) /\ Len(all) \in Nat
  BY <1>2, <1>4
<1>6. \A i \in 1 .. n : seqs[i] \in Seq(S) /\ Len(seqs[i]) \in Nat
  OBVIOUS
<1> HIDE DEF n, all
<1>7. ASSUME NEW i \in 1 .. n, NEW k \in 1 .. Len(seqs[i])
      PROVE  /\ Len(f[i - 1]) + k \in 1 .. Len(all)
             /\ all[Len(f[i - 1]) + k] = seqs[i][k]
  <2>1. /\ i - 1 \in 0 .. n /\ i \in 0 .. n /\ Len(f[i - 1]) \in Nat /\ Len(f[i]) \in Nat
        /\ Len(f[i]) <= Len(all) /\ Len(f[i]) = Len(f[i - 1]) + Len(seqs[i])
        /\ Len(seqs[i]) \in Nat
    BY <1>3, <1>4, <1>6
  <2>2. Len(f[i - 1]) + k \in 1 .. Len(f[i]) /\ Len(f[i - 1]) + k \in 1 .. Len(all)
    <3>1. k \in Nat /\ 1 <= k /\ k <= Len(seqs[i])
      BY <2>1
    <3> DEFINE a == Len(f[i - 1])
               b == Len(f[i])
               c == Len(seqs[i])
               d == Len(all)
    <3>2. a \in Nat /\ b \in Nat /\ c \in Nat /\ d \in Nat /\ b <= d /\ b = a + c /\ k <= c
      BY <1>5, <2>1, <3>1
    <3> HIDE DEF a, b, c, d
    <3>3. a + k \in 1 .. b /\ a + k \in 1 .. d
      BY <3>1, <3>2
    <3> QED
      BY <3>3 DEF a, b, d
  <2> QED
    BY <1>3, <1>4, <2>1, <2>2
<1>8. n # 0 => /\ Len(seqs[1]) <= Len(all)
               /\ \A k \in 1 .. Len(seqs[1]) : all[k] = seqs[1][k]
  <2> SUFFICES ASSUME n # 0 PROVE /\ Len(seqs[1]) <= Len(all)
                                  /\ \A k \in 1 .. Len(seqs[1]) : all[k] = seqs[1][k]
    OBVIOUS
  <2>1. 1 \in 1 .. n /\ 1 - 1 = 0 /\ Len(f[0]) = 0 /\ 1 \in 0 .. n
    BY <1>2
  <2>2. Len(seqs[1]) \in Nat /\ Len(f[1]) = Len(f[0]) + Len(seqs[1]) /\ Len(f[1]) <= Len(all)
    BY <1>3, <1>4, <1>6, <2>1
  <2> DEFINE a == Len(seqs[1])
             b == Len(f[1])
             d == Len(all)
  <2>3. a \in Nat /\ b \in Nat /\ d \in Nat /\ b = 0 + a /\ b <= d
    BY <1>5, <2>1, <2>2
  <2> HIDE DEF a, b, d
  <2>4. a <= d
    BY <2>3
  <2>5. ASSUME NEW k \in 1 .. Len(seqs[1]) PROVE all[k] = seqs[1][k]
    <3>1. all[Len(f[1 - 1]) + k] = seqs[1][k]
      BY <1>7, <2>1
    <3>2. k \in Int /\ Len(f[1 - 1]) = 0
      BY <2>1, <2>2
    <3>3. Len(f[1 - 1]) + k = k
      BY <3>2
    <3> QED
      BY <3>1, <3>3
  <2> QED
    BY <2>4, <2>5 DEF a, d
<1> QED
  BY <1>5, <1>7, <1>8 DEF n, all

-----------------------------------------------------------------------------
(* The mentions of each kind *)

\* One word of a text, read as a phrase.
LEMMA WordAt ==
    ASSUME NEW W, NEW text \in Seq(W), NEW i \in 1 .. Len(text)
    PROVE  SubSeq(text, i, i) = <<text[i]>>
<1> DEFINE s == SubSeq(text, i, i)
<1>1. i \in Int /\ \A k \in i .. i : text[k] \in W
  OBVIOUS
<1>2. s \in Seq(W) /\ Len(s) = 1 /\ s[1] = text[i]
  <2>1. /\ SubSeq(text, i, i) \in Seq(W)
        /\ Len(SubSeq(text, i, i)) = IF i <= i THEN i - i + 1 ELSE 0
        /\ \A k \in 1 .. i - i + 1 : SubSeq(text, i, i)[k] = text[i + k - 1]
    BY <1>1, SubSeqProperties
  <2> QED
    BY <2>1
<1>3. <<text[i]>> \in Seq(W) /\ Len(<<text[i]>>) = 1
  OBVIOUS
<1> HIDE DEF s
<1>4. s = <<text[i]>>
  BY <1>2, <1>3
<1> QED
  BY <1>4 DEF s

Labelled(label, text) == {m \in Readings(text) : m.label = label}

\* The patterns mention each drug word at its place.
LEMMA ProductMentionsAre ==
    ASSUME NEW W, NEW text \in Seq(W)
    PROVE  /\ ProductMentions(text) \in Seq(Labelled("PRODUCT", text))
           /\ \A i \in 1 .. Len(text) :
                 text[i] \in Drugs =>
                     \E k \in 1 .. Len(ProductMentions(text)) :
                         ProductMentions(text)[k] = Mention("PRODUCT", SubSeq(text, i, i), i, i)
<1> DEFINE M == Labelled("PRODUCT", text)
           of(k) == MentionsOf("PRODUCT", ProductPatterns[k], text)
           seqs == [k \in DOMAIN ProductPatterns |-> of(k)]
<1>1. DOMAIN ProductPatterns = 1 .. 6
  BY DEF ProductPatterns
<1>2. /\ {<<"mdma">>, <<"ecstasy">>} = ProductPatterns[1] /\ {<<"cocaine">>} = ProductPatterns[2]
      /\ {<<"meth">>} = ProductPatterns[3] /\ {<<"cannabis">>} = ProductPatterns[4]
  BY DEF ProductPatterns
<1>3. \A k \in 1 .. 6 :
         /\ of(k) \in Seq(M)
         /\ \A i \in 1 .. Len(text) :
               SubSeq(text, i, i) \in ProductPatterns[k] =>
                   \E n \in 1 .. Len(of(k)) : of(k)[n] = Mention("PRODUCT", SubSeq(text, i, i), i, i)
  <2> SUFFICES ASSUME NEW k \in 1 .. 6
               PROVE  /\ of(k) \in Seq(M)
                      /\ \A i \in 1 .. Len(text) :
                            SubSeq(text, i, i) \in ProductPatterns[k] =>
                                \E n \in 1 .. Len(of(k)) :
                                    of(k)[n] = Mention("PRODUCT", SubSeq(text, i, i), i, i)
    OBVIOUS
  <2>1. "PRODUCT" \in {"PRODUCT", "VENDOR"}
    OBVIOUS
  <2>2. of(k) \in Seq({m \in Readings(text) : m.label = "PRODUCT"})
    BY <2>1, MentionsAre
  <2>3. \A i, j \in 1 .. Len(text) :
           i <= j /\ SubSeq(text, i, j) \in ProductPatterns[k] =>
               \E n \in 1 .. Len(of(k)) : of(k)[n] = Mention("PRODUCT", SubSeq(text, i, j), i, j)
    <3>1. AllMentioned("PRODUCT", ProductPatterns[k], text)
      BY <2>1, MentionsAre
    <3> QED
      BY <3>1 DEF AllMentioned
  <2>4. \A i \in 1 .. Len(text) : i <= i
    OBVIOUS
  <2> HIDE DEF of
  <2> QED
    BY <2>2, <2>3, <2>4 DEF Labelled
<1> HIDE DEF of, M
<1>4. seqs \in Seq(Seq(M)) /\ Len(seqs) = 6 /\ \A k \in 1 .. 6 : seqs[k] = of(k)
  BY <1>1, <1>3
<1>5. ProductMentions(text) = FlattenSeq(seqs)
  BY DEF ProductMentions, of
<1> HIDE DEF seqs
<1> DEFINE all == FlattenSeq(seqs)
<1>6. all \in Seq(M) /\ \A k \in 1 .. 6 : \A n \in 1 .. Len(of(k)) : \E j \in 1 .. Len(all) : all[j] = of(k)[n]
  <2>1. /\ all \in Seq(M)
        /\ \A i \in 1 .. Len(seqs) : \A n \in 1 .. Len(seqs[i]) : \E j \in 1 .. Len(all) : all[j] = seqs[i][n]
    BY <1>4, FlattenHas
  <2> HIDE DEF all
  <2>2. ASSUME NEW k \in 1 .. 6, NEW n \in 1 .. Len(of(k))
        PROVE  \E j \in 1 .. Len(all) : all[j] = of(k)[n]
    <3>1. k \in 1 .. Len(seqs) /\ seqs[k] = of(k) /\ n \in 1 .. Len(seqs[k])
      BY <1>4
    <3>2. \E j \in 1 .. Len(all) : all[j] = seqs[k][n]
      BY <2>1, <3>1
    <3> QED
      BY <3>1, <3>2
  <2> QED
    BY <2>1, <2>2
<1> HIDE DEF all
<1>7. ASSUME NEW i \in 1 .. Len(text), text[i] \in Drugs
      PROVE  \E j \in 1 .. Len(all) : all[j] = Mention("PRODUCT", SubSeq(text, i, i), i, i)
  <2>1. SubSeq(text, i, i) = <<text[i]>>
    BY WordAt
  <2>2. \E k \in 1 .. 6 : <<text[i]>> \in ProductPatterns[k]
    BY <1>2, <1>7 DEF Drugs
  <2>3. PICK k \in 1 .. 6 : SubSeq(text, i, i) \in ProductPatterns[k]
    BY <2>1, <2>2
  <2>4. PICK n \in 1 .. Len(of(k)) : of(k)[n] = Mention("PRODUCT", SubSeq(text, i, i), i, i)
    BY <1>3, <2>3
  <2>5. PICK j \in 1 .. Len(all) : all[j] = of(k)[n]
    BY <1>6
  <2> QED
    BY <2>4, <2>5
<1> QED
  BY <1>5, <1>6, <1>7 DEF all, M

\* A set of positions of a text, in order.
LEMMA PositionsAre ==
    ASSUME NEW n \in Nat, NEW S \in SUBSET (1 .. n)
    PROVE  Ordered(S, <) \in Seq(S)
<1> DEFINE c == Cardinality(S)
           rows == Ordered(S, <)
           R == {p \in S \X S : p[1] < p[2]}
<1>1. IsFiniteSet(S) /\ c \in Nat
  <2>1. IsFiniteSet(1 .. n)
    BY FS_Interval
  <2> QED
    BY <2>1, FS_Subset, FS_CardinalityType
<1>2. rows = [i \in 1 .. c |-> CHOOSE x \in S : Cardinality({y \in S : y < x}) = i - 1]
  BY DEF Ordered
<1>3. \A x, y \in S : <<x, y>> \in R <=> x < y
  OBVIOUS
<1> HIDE DEF R, rows
<1>4. Orders(R, S)
  BY <1>3 DEF Orders
<1>5. \A x \in S : {y \in S : y < x} = {y \in S : <<y, x>> \in R}
  BY <1>3
<1>6. \A i \in 1 .. c : \E x \in S : Cardinality({y \in S : y < x}) = i - 1
  <2> SUFFICES ASSUME NEW i \in 1 .. c PROVE \E x \in S : Cardinality({y \in S : y < x}) = i - 1
    OBVIOUS
  <2>1. PICK x \in S : Rank(S, R, x) = i - 1
    BY <1>1, <1>4, RankTaken
  <2> QED
    BY <1>5, <2>1 DEF Rank
<1>7. rows \in [1 .. c -> S]
  BY <1>2, <1>6
<1>8. rows \in Seq(S)
  BY <1>1, <1>7
<1> QED
  BY <1>8 DEF rows

\* The members of a sequence are finitely many, each at some place of it.
LEMMA ListIsFinite ==
    ASSUME NEW S, NEW s \in Seq(S)
    PROVE  IsFiniteSet(ToSet(s)) /\ \A x \in ToSet(s) : x \in S /\ \E i \in 1 .. Len(s) : s[i] = x
<1>1. IsFiniteSet(1 .. Len(s)) /\ DOMAIN s = 1 .. Len(s)
  BY FS_Interval
<1>2. s \in Surjection(1 .. Len(s), ToSet(s))
  BY <1>1 DEF Surjection, ToSet
<1>3. \A x \in ToSet(s) : x \in S /\ \E i \in 1 .. Len(s) : s[i] = x
  BY <1>1 DEF ToSet
<1> QED
  BY <1>1, <1>2, <1>3, FS_Surjection

\* A vendor's name is one word, or what is kept of it.
LEMMA NamesAre ==
    ASSUME NEW W, NEW text \in Seq(W), NEW S \in SUBSET (1 .. Len(text)),
           NEW at \in Seq(S)
    PROVE  [k \in DOMAIN at |->
               Mention("VENDOR", <<IF text[at[k]] = "@milo99" THEN "milo99"
                                   ELSE Lookup(Cut, text[at[k]])>>, at[k], at[k])]
           \in Seq(Labelled("VENDOR", text))
<1> DEFINE name(i) == <<IF text[i] = "@milo99" THEN "milo99" ELSE Lookup(Cut, text[i])>>
           made(i) == Mention("VENDOR", name(i), i, i)
           M == Labelled("VENDOR", text)
<1>1. \A i \in 1 .. Len(text) : made(i) \in M
  <2> SUFFICES ASSUME NEW i \in 1 .. Len(text) PROVE made(i) \in M
    OBVIOUS
  <2> DEFINE A == {SubSeq(text, c, d) : c, d \in 1 .. Len(text)}
             B == {<<Lookup(Cut, text[c])>> : c \in 1 .. Len(text)}
  <2>1. PhrasesIn(text) = A \cup {<<"milo99">>} \cup B
    BY DEF PhrasesIn
  <2>2. <<Lookup(Cut, text[i])>> \in B
    OBVIOUS
  <2>3. name(i) = <<"milo99">> \/ name(i) = <<Lookup(Cut, text[i])>>
    OBVIOUS
  <2> HIDE DEF A, B, name
  <2>4. name(i) \in PhrasesIn(text)
    BY <2>1, <2>2, <2>3
  <2>5. Mention("VENDOR", name(i), i, i) = [label |-> "VENDOR", phrase |-> name(i), from |-> i, to |-> i]
    BY DEF Mention
  <2>6. Mention("VENDOR", name(i), i, i) \in Readings(text)
    BY <2>4, <2>5 DEF Readings
  <2> QED
    BY <2>5, <2>6 DEF Labelled
<1> HIDE DEF M, made
<1>2. DOMAIN at = 1 .. Len(at) /\ Len(at) \in Nat /\ \A k \in 1 .. Len(at) : at[k] \in 1 .. Len(text)
  <2>1. \A x \in S : x \in 1 .. Len(text)
    OBVIOUS
  <2>2. DOMAIN at = 1 .. Len(at) /\ Len(at) \in Nat /\ \A k \in 1 .. Len(at) : at[k] \in S
    OBVIOUS
  <2> QED
    BY <2>1, <2>2
<1>3. [k \in DOMAIN at |-> made(at[k])] \in Seq(M)
  BY <1>1, <1>2
<1> QED
  BY <1>3 DEF made, M

\* What is mentioned as a vendor is one word of the text, after a cue.
LEMMA VendorMentionsAre ==
    ASSUME NEW W, NEW text \in Seq(W)
    PROVE  VendorMentions(text) \in Seq(Labelled("VENDOR", text))
<1> DEFINE after(cue) == {i \in 2 .. Len(text) : text[i - 1] = cue}
           handles == {i \in after("dealer") : text[i] = "@milo99"}
           cued == {i \in after("vendor:") \cup after("by") : text[i] \notin NotNames \cup StopWords}
           first == Unconsumed(handles \cup (cued \cap after("vendor:")))
           then == cued \cap after("by")
           name(i) == IF text[i] = "@milo99" THEN "milo99" ELSE Lookup(Cut, text[i])
           named(at) == [k \in DOMAIN at |-> Mention("VENDOR", <<name(at[k])>>, at[k], at[k])]
           M == Labelled("VENDOR", text)
<1>1. Len(text) \in Nat /\ first \in SUBSET (1 .. Len(text)) /\ then \in SUBSET (1 .. Len(text))
  BY DEF Unconsumed
<1>2. VendorMentions(text) = named(Ordered(first, <)) \o named(Ordered(then, <))
  BY DEF VendorMentions
<1> HIDE DEF first, then
<1> DEFINE p == Ordered(first, <)
           q == Ordered(then, <)
<1>3. p \in Seq(first) /\ q \in Seq(then)
  BY <1>1, PositionsAre
<1> HIDE DEF p, q
<1>4. named(p) \in Seq(M)
  BY <1>1, <1>3, NamesAre
<1>5. named(q) \in Seq(M)
  BY <1>1, <1>3, NamesAre
<1> HIDE DEF named, M
<1>6. named(p) \o named(q) \in Seq(M)
  BY <1>4, <1>5, ConcatProperties
<1> QED
  BY <1>2, <1>6 DEF p, q, M

\* The longest phrase first: an order of the mentions that spaCy's rules make.
LEMMA SpacyMentionsAre ==
    ASSUME NEW W, NEW text \in Seq(W)
    PROVE  SpacyMentions(text) \in Seq(Readings(text))
<1> DEFINE names == (ToSet(text) \ NotNames) \ (DOMAIN Cut \ {"vendor:"})
           vendors == {<<"dealer", w>> : w \in names}
           longer(m, n) == \/ (m.to - m.from) - (n.to - n.from) > 0
                           \/ (m.to - m.from) - (n.to - n.from) = 0 /\ m.from < n.from
           ps == MentionsOf("PRODUCT", SpacyProducts, text)
           vs == MentionsOf("VENDOR", vendors, text)
           S == ToSet(ps) \cup ToSet(vs)
           R == {p \in S \X S : longer(p[1], p[2])}
           c == Cardinality(S)
           rows == Ordered(S, longer)
<1>1. SpacyMentions(text) = Greedy(rows)
  BY DEF SpacyMentions
<1>2. /\ ps \in Seq(Labelled("PRODUCT", text))
      /\ \A k \in 1 .. Len(ps) : /\ ps[k].phrase = SubSeq(text, ps[k].from, ps[k].to)
                                 /\ ps[k].phrase \in SpacyProducts
  BY MentionsAre DEF Labelled
<1>3. /\ vs \in Seq(Labelled("VENDOR", text))
      /\ \A k \in 1 .. Len(vs) : /\ vs[k].phrase = SubSeq(text, vs[k].from, vs[k].to)
                                 /\ vs[k].phrase \in vendors
  BY MentionsAre DEF Labelled
<1>4. \A p \in vendors : p \notin SpacyProducts
  BY DEF SpacyProducts
<1> HIDE DEF ps, vs, vendors
<1>5. /\ DOMAIN ps = 1 .. Len(ps) /\ Len(ps) \in Nat /\ \A k \in 1 .. Len(ps) : ps[k] \in Labelled("PRODUCT", text)
      /\ DOMAIN vs = 1 .. Len(vs) /\ Len(vs) \in Nat /\ \A k \in 1 .. Len(vs) : vs[k] \in Labelled("VENDOR", text)
  BY <1>2, <1>3
<1>6. \A m \in S : /\ m \in Readings(text) /\ m.phrase = SubSeq(text, m.from, m.to)
                   /\ \/ m.label = "PRODUCT" /\ m.phrase \in SpacyProducts
                      \/ m.label = "VENDOR" /\ m.phrase \in vendors
  BY <1>2, <1>3, <1>5 DEF ToSet, Labelled
<1>7. \A m \in Readings(text) : /\ m.from \in Nat /\ m.to \in Nat
                                /\ m = [label |-> m.label, phrase |-> m.phrase, from |-> m.from, to |-> m.to]
  BY DEF Readings
<1>8. \A m, n \in S : m.from = n.from /\ m.to = n.to => m = n
  <2> SUFFICES ASSUME NEW m \in S, NEW n \in S, m.from = n.from, m.to = n.to PROVE m = n
    OBVIOUS
  <2> HIDE DEF S
  <2>1. m.phrase = n.phrase
    BY <1>6
  <2>2. m.label = n.label
    BY <1>4, <1>6, <2>1
  <2> QED
    BY <1>6, <1>7, <2>1, <2>2
<1>9. IsFiniteSet(S) /\ c \in Nat
  <2>1. IsFiniteSet(ToSet(ps)) /\ IsFiniteSet(ToSet(vs))
    BY <1>2, <1>3, ListIsFinite
  <2> QED
    BY <2>1, FS_Union, FS_CardinalityType
<1>10. \A m, n \in S : <<m, n>> \in R <=> longer(m, n)
  OBVIOUS
<1>11. rows = [i \in 1 .. c |-> CHOOSE m \in S : Cardinality({n \in S : longer(n, m)}) = i - 1]
  BY DEF Ordered
<1> HIDE DEF S, R, rows
<1>12. \A m \in S : m.from \in Nat /\ m.to \in Nat
  BY <1>6, <1>7
<1> DEFINE extent(m) == m.to - m.from
<1>13. \A m \in S : extent(m) \in Int
  BY <1>12
<1>14. \A m, n \in S :
          longer(m, n) <=> \/ extent(m) - extent(n) > 0
                           \/ (extent(m) - extent(n) = 0 /\ m.from < n.from)
  OBVIOUS
<1>15. Orders(R, S)
  <2>1. \A m \in S : <<m, m>> \notin R
    BY <1>10, <1>12
  <2>2. \A l, m, n \in S : longer(l, m) /\ longer(m, n) => longer(l, n)
    <3> SUFFICES ASSUME NEW l \in S, NEW m \in S, NEW n \in S, longer(l, m), longer(m, n)
                 PROVE  longer(l, n)
      OBVIOUS
    <3> DEFINE u == extent(l)
               v == extent(m)
               w == extent(n)
    <3>1. l.from \in Nat /\ m.from \in Nat /\ n.from \in Nat
      BY <1>12
    <3>2. u \in Int /\ v \in Int /\ w \in Int
      BY <1>13
    <3>3. /\ u - v > 0 \/ (u - v = 0 /\ l.from < m.from)
          /\ v - w > 0 \/ (v - w = 0 /\ m.from < n.from)
      BY <1>14
    <3>4. longer(l, n) <=> u - w > 0 \/ (u - w = 0 /\ l.from < n.from)
      BY <1>14
    <3> HIDE DEF u, v, w, longer
    <3>5. u - w > 0 \/ (u - w = 0 /\ l.from < n.from)
      BY <3>1, <3>2, <3>3
    <3> QED
      BY <3>4, <3>5
  <2>3. \A m, n \in S : m # n => longer(m, n) \/ longer(n, m)
    <3> SUFFICES ASSUME NEW m \in S, NEW n \in S, m # n PROVE longer(m, n) \/ longer(n, m)
      OBVIOUS
    <3>1. m.from \in Nat /\ m.to \in Nat /\ n.from \in Nat /\ n.to \in Nat
      BY <1>12
    <3>2. m.from # n.from \/ m.to # n.to
      BY <1>8
    <3> QED
      BY <3>1, <3>2
  <2> HIDE DEF longer
  <2> QED
    BY <1>10, <2>1, <2>2, <2>3 DEF Orders
<1> HIDE DEF longer
<1>16. \A m \in S : {n \in S : longer(n, m)} = {n \in S : <<n, m>> \in R}
  BY <1>10
<1>17. \A i \in 1 .. c : \E m \in S : Cardinality({n \in S : longer(n, m)}) = i - 1
  <2> SUFFICES ASSUME NEW i \in 1 .. c PROVE \E m \in S : Cardinality({n \in S : longer(n, m)}) = i - 1
    OBVIOUS
  <2>1. PICK m \in S : Rank(S, R, m) = i - 1
    BY <1>9, <1>15, RankTaken
  <2> QED
    BY <1>16, <2>1 DEF Rank
<1>18. rows \in [1 .. c -> S]
  BY <1>11, <1>17
<1>19. rows \in Seq(Readings(text))
  BY <1>6, <1>9, <1>18
<1> QED
  BY <1>1, <1>19, GreedyIs

\* The mentions of a text, whatever its words: disjoint readings of it, and every
\* drug word is part of one of a product.
LEMMA ExtractIs ==
    ASSUME NEW W, NEW text \in Seq(W), NEW spacy
    PROVE  /\ Extract(text, spacy) \in Seq(Readings(text))
           /\ \A i, j \in 1 .. Len(Extract(text, spacy)) :
                 i # j => ~Overlap(Extract(text, spacy)[i], Extract(text, spacy)[j])
           /\ \A i \in 1 .. Len(text) :
                 text[i] \in Drugs =>
                     \E k \in 1 .. Len(Extract(text, spacy)) :
                         /\ Extract(text, spacy)[k].label = "PRODUCT"
                         /\ Extract(text, spacy)[k].from <= i /\ i <= Extract(text, spacy)[k].to
<1> DEFINE M == Readings(text)
           ps == ProductMentions(text)
           vs == VendorMentions(text)
           ss == IF spacy THEN SpacyMentions(text) ELSE <<>>
           triple == <<ps, vs, ss>>
           all == FlattenSeq(triple)
           kept == Greedy(all)
           K == ToSet(kept)
           before(m, n) == m.from < n.from
           R == {p \in K \X K : before(p[1], p[2])}
           c == Cardinality(K)
           rows == Ordered(K, before)
<1>1. Extract(text, spacy) = rows
  BY DEF Extract, MergeEntities
<1>2. ps \in Seq(Labelled("PRODUCT", text))
  BY ProductMentionsAre
<1>3. ASSUME NEW i \in 1 .. Len(text), text[i] \in Drugs
      PROVE  \E k \in 1 .. Len(ps) : ps[k] = Mention("PRODUCT", SubSeq(text, i, i), i, i)
  BY <1>3, ProductMentionsAre
<1>4. vs \in Seq(Labelled("VENDOR", text))
  BY VendorMentionsAre
<1>5. ss \in Seq(M)
  BY SpacyMentionsAre
<1> HIDE DEF ps, vs, ss
<1>6. \A label : Labelled(label, text) \subseteq M /\ \A m \in Labelled(label, text) : m.label = label
  BY DEF Labelled
<1> HIDE DEF M
<1>7. ps \in Seq(M) /\ vs \in Seq(M)
  BY <1>2, <1>4, <1>6, SeqMonotonic
<1>8. triple \in Seq(Seq(M)) /\ Len(triple) = 3 /\ triple[1] = ps
  BY <1>5, <1>7
<1> HIDE DEF triple
<1>9. all \in Seq(M)
  BY <1>8, FlattenHas
<1>10. Len(ps) <= Len(all) /\ \A k \in 1 .. Len(ps) : all[k] = ps[k]
  <2>1. Len(triple) # 0 => /\ Len(triple[1]) <= Len(all)
                          /\ \A k \in 1 .. Len(triple[1]) : all[k] = triple[1][k]
    BY <1>8, FlattenHas
  <2> QED
    BY <1>8, <2>1
<1> HIDE DEF all
<1>11. kept \in Seq(M) /\ Chosen(kept, all, Len(all))
  BY <1>9, GreedyIs
<1> HIDE DEF kept
<1>12. \A i, j \in 1 .. Len(kept) : i # j => ~Overlap(kept[i], kept[j])
  BY <1>11 DEF Chosen
<1>13. IsFiniteSet(K) /\ c \in Nat /\ \A m \in K : m \in M /\ \E i \in 1 .. Len(kept) : kept[i] = m
  BY <1>11, ListIsFinite, FS_CardinalityType
<1>14. \A i \in 1 .. Len(kept) : kept[i] \in K
  BY <1>11 DEF ToSet
<1>15. \A m \in M : m.from \in Nat /\ m.to \in Nat /\ m.from <= m.to
  BY DEF M, Readings
<1> HIDE DEF K
<1>16. \A m, n \in K : m # n => ~Overlap(m, n)
  <2> SUFFICES ASSUME NEW m \in K, NEW n \in K, m # n PROVE ~Overlap(m, n)
    OBVIOUS
  <2>1. PICK i \in 1 .. Len(kept) : kept[i] = m
    BY <1>13
  <2>2. PICK j \in 1 .. Len(kept) : kept[j] = n
    BY <1>13
  <2> QED
    BY <1>12, <2>1, <2>2
<1>17. \A m, n \in K : m.from = n.from => m = n
  <2> SUFFICES ASSUME NEW m \in K, NEW n \in K, m.from = n.from PROVE m = n
    OBVIOUS
  <2>1. m \in M /\ n \in M
    BY <1>13
  <2>2. Overlap(m, n)
    BY <1>15, <2>1 DEF Overlap
  <2> QED
    BY <1>16, <2>2
<1>18. \A m, n \in K : <<m, n>> \in R <=> before(m, n)
  OBVIOUS
<1>19. rows = [i \in 1 .. c |-> CHOOSE m \in K : Cardinality({n \in K : before(n, m)}) = i - 1]
  BY DEF Ordered
<1> HIDE DEF R, rows
<1>20. \A m \in K : m.from \in Nat
  BY <1>13, <1>15
<1>21. Orders(R, K)
  BY <1>17, <1>18, <1>20 DEF Orders
<1> HIDE DEF before
<1>22. \A m \in K : {n \in K : before(n, m)} = {n \in K : <<n, m>> \in R}
  BY <1>18
<1>23. \A i \in 1 .. c : \E m \in K : Cardinality({n \in K : before(n, m)}) = i - 1
  <2> SUFFICES ASSUME NEW i \in 1 .. c PROVE \E m \in K : Cardinality({n \in K : before(n, m)}) = i - 1
    OBVIOUS
  <2>1. PICK m \in K : Rank(K, R, m) = i - 1
    BY <1>13, <1>21, RankTaken
  <2> QED
    BY <1>22, <2>1 DEF Rank
<1>24. rows \in [1 .. c -> K] /\ \A i \in 1 .. c : Cardinality({n \in K : before(n, rows[i])}) = i - 1
  BY <1>19, <1>23
<1>25. \A i \in 1 .. c : Rank(K, R, rows[i]) = i - 1
  BY <1>22, <1>24 DEF Rank
<1>26. /\ rows \in Seq(K)
       /\ \A m \in K : \E i \in 1 .. Len(rows) : rows[i] = m
       /\ \A i, j \in 1 .. Len(rows) : i < j => <<rows[i], rows[j]>> \in R
  <2>1. rows \in [1 .. Cardinality(K) -> K] /\ \A i \in 1 .. Cardinality(K) : Rank(K, R, rows[i]) = i - 1
    BY <1>24, <1>25
  <2>2. IsFiniteSet(K)
    BY <1>13
  <2>3. rows \in [1 .. Cardinality(K) -> K]
    BY <2>1
  <2>4. \A i \in 1 .. Cardinality(K) : Rank(K, R, rows[i]) = i - 1
    BY <2>1
  <2>5. Sorted(rows, R)
    BY <1>21, <2>2, <2>3, <2>4, RowsAre
  <2>6. rows \in Seq(K)
    BY <1>21, <2>2, <2>3, <2>4, RowsAre
  <2>7. Covers(rows, K)
    BY <1>21, <2>2, <2>3, <2>4, RowsAre
  <2> QED
    BY <2>5, <2>6, <2>7 DEF Sorted, Covers
<1>27. rows \in Seq(M)
  BY <1>13, <1>26
<1>28. ASSUME NEW i \in 1 .. Len(rows), NEW j \in 1 .. Len(rows), i # j
       PROVE  ~Overlap(rows[i], rows[j])
  <2>1. rows[i] \in K /\ rows[j] \in K /\ Len(rows) \in Nat
    BY <1>26
  <2>2. <<rows[i], rows[j]>> \in R \/ <<rows[j], rows[i]>> \in R
    BY <1>26, <1>28, <2>1
  <2>3. rows[i] # rows[j]
    BY <1>21, <2>1, <2>2 DEF Orders
  <2> QED
    BY <1>16, <2>1, <2>3
<1>29. ASSUME NEW i \in 1 .. Len(text), text[i] \in Drugs
       PROVE  \E k \in 1 .. Len(rows) :
                 rows[k].label = "PRODUCT" /\ rows[k].from <= i /\ i <= rows[k].to
  <2>1. PICK k \in 1 .. Len(ps) : ps[k] = Mention("PRODUCT", SubSeq(text, i, i), i, i)
    BY <1>3, <1>29
  <2>2. k \in 1 .. Len(all) /\ all[k] = ps[k]
    <3>1. Len(ps) \in Nat /\ Len(all) \in Nat
      BY <1>7, <1>9
    <3> QED
      BY <1>10, <3>1
  <2>3. PICK n \in 1 .. Len(kept), e \in 1 .. k : kept[n] = all[e] /\ (e = k \/ Overlap(all[k], all[e]))
    BY <1>11, <2>2 DEF Chosen
  <2>4. e \in 1 .. Len(ps) /\ all[e] = ps[e] /\ ps[e] \in Labelled("PRODUCT", text)
    <3>1. Len(ps) \in Nat /\ e \in 1 .. Len(ps)
      BY <1>7
    <3> QED
      BY <1>2, <1>10, <3>1
  <2>5. all[e].label = "PRODUCT" /\ all[e] \in M
    BY <1>6, <2>4
  <2>6. all[k].from = i /\ all[k].to = i
    BY <2>1, <2>2 DEF Mention
  <2>7. all[e].from <= i /\ i <= all[e].to
    BY <2>3, <2>6 DEF Overlap
  <2>8. kept[n] \in K
    BY <1>14
  <2>9. PICK r \in 1 .. Len(rows) : rows[r] = kept[n]
    BY <1>26, <2>8
  <2> QED
    BY <2>3, <2>5, <2>7, <2>9
<1>30. /\ rows \in Seq(M)
       /\ \A i, j \in 1 .. Len(rows) : i # j => ~Overlap(rows[i], rows[j])
       /\ \A i \in 1 .. Len(text) :
             text[i] \in Drugs =>
                 \E k \in 1 .. Len(rows) :
                     rows[k].label = "PRODUCT" /\ rows[k].from <= i /\ i <= rows[k].to
  BY <1>27, <1>28, <1>29
<1> HIDE DEF Overlap
<1> QED
  BY <1>1, <1>30 DEF M

-----------------------------------------------------------------------------
(* The list of products *)

\* Each of the first n candidates that is a product is listed, itself or an equal one.
Listed(kept, all, n) ==
    \A j \in 1 .. n : \/ all[j].canonical \in NonProducts
                      \/ \E i \in 1 .. Len(kept) : kept[i].canonical = all[j].canonical

\* One more candidate is looked at: listed, listed before, or no product.
LEMMA AddKeepsListed ==
    ASSUME NEW S, NEW all \in Seq(S), NEW n \in 1 .. Len(all), NEW kept \in Seq(S),
           Listed(kept, all, n - 1)
    PROVE  AddProduct(kept, all[n]) \in Seq(S) /\ Listed(AddProduct(kept, all[n]), all, n)
<1> DEFINE p == all[n]
           more == AddProduct(kept, p)
           Found(s, j) == \E i \in 1 .. Len(s) : s[i].canonical = all[j].canonical
<1>1. p \in S /\ Len(kept) \in Nat /\ DOMAIN kept = 1 .. Len(kept)
  OBVIOUS
<1>2. more = kept \/ more = Append(kept, p)
  BY DEF AddProduct
<1>3. more \in Seq(S)
  BY <1>1, <1>2
<1>4. /\ Len(kept) <= Len(more) /\ Len(more) \in Nat
      /\ \A i \in 1 .. Len(kept) : more[i] = kept[i]
  BY <1>1, <1>2
<1>5. p.canonical \in NonProducts \/ Found(more, n)
  <2>1. CASE p.canonical \in NonProducts \/ \E i \in 1 .. Len(kept) : kept[i].canonical = p.canonical
    <3>1. more = kept
      BY <1>1, <2>1 DEF AddProduct
    <3> QED
      BY <2>1, <3>1
  <2>2. CASE ~(p.canonical \in NonProducts \/ \E i \in 1 .. Len(kept) : kept[i].canonical = p.canonical)
    <3>1. more = Append(kept, p)
      BY <1>1, <2>2 DEF AddProduct
    <3>2. Len(more) = Len(kept) + 1 /\ more[Len(kept) + 1] = p /\ Len(kept) + 1 \in 1 .. Len(more)
      BY <1>1, <3>1
    <3> QED
      BY <3>2
  <2> QED
    BY <2>1, <2>2
<1> HIDE DEF more
<1>6. ASSUME NEW j \in 1 .. n PROVE all[j].canonical \in NonProducts \/ Found(more, j)
  <2>1. CASE j = n
    BY <1>5, <2>1
  <2>2. CASE j # n
    <3>1. j \in 1 .. n - 1
      BY <2>2
    <3>2. all[j].canonical \in NonProducts \/ Found(kept, j)
      BY <3>1 DEF Listed
    <3>3. Found(kept, j) => Found(more, j)
      <4> SUFFICES ASSUME NEW i \in 1 .. Len(kept), kept[i].canonical = all[j].canonical
                   PROVE  Found(more, j)
        OBVIOUS
      <4>1. i \in 1 .. Len(more) /\ more[i] = kept[i]
        BY <1>1, <1>4
      <4> QED
        BY <4>1
    <3> QED
      BY <3>2, <3>3
  <2> QED
    BY <2>1, <2>2
<1>7. Listed(more, all, n)
  BY <1>6 DEF Listed
<1> QED
  BY <1>3, <1>7 DEF more

NamedListed(products, mentions) ==
    \A i \in 1 .. Len(mentions) :
        mentions[i].label = "PRODUCT" /\ mentions[i].phrase \notin NonProducts =>
            \E k \in DOMAIN products : products[k].canonical = mentions[i].phrase
MeaningsListed(products, decoded) ==
    \A i \in 1 .. Len(decoded) :
        decoded[i].meaning \notin NonProducts =>
            \E k \in DOMAIN products : products[k].canonical = decoded[i].meaning

\* So every mentioned product and every meaning of a coded word is listed.
LEMMA ProductsAre ==
    ASSUME NEW M, NEW mentions \in Seq(M), NEW D, NEW decoded \in Seq(D),
           NEW prices, NEW quantities
    PROVE  /\ NamedListed(Products(mentions, decoded, prices, quantities), mentions)
           /\ MeaningsListed(Products(mentions, decoded, prices, quantities), decoded)
<1> DEFINE product(canonical, raw, coded) ==
               [canonical |-> canonical, raw |-> raw, slang |-> coded,
                price |-> prices, quantity |-> quantities]
           named(m) == IF m.label = "PRODUCT" THEN <<product(m.phrase, m.phrase, FALSE)>> ELSE <<>>
           A == {product(m.phrase, m.phrase, FALSE) : m \in M}
           B == {product(d.meaning, d.term, TRUE) : d \in D}
           S == A \cup B
           firsts == [i \in DOMAIN mentions |-> named(mentions[i])]
           flat == FlattenSeq(firsts)
           slangs == [i \in DOMAIN decoded |-> product(decoded[i].meaning, decoded[i].term, TRUE)]
           all == flat \o slangs
           N == Len(all)
           Rec(f) == f = [n \in 0 .. N |-> IF n = 0 THEN <<>> ELSE AddProduct(f[n - 1], all[n])]
           kept == CHOOSE f : Rec(f)
           G == [c \in (1 .. N) \X Seq(S) |-> AddProduct(c[2], all[c[1]])]
           ps == Products(mentions, decoded, prices, quantities)
<1>1. ps = kept[N]
  BY DEF Products
<1>2. /\ DOMAIN mentions = 1 .. Len(mentions) /\ Len(mentions) \in Nat
      /\ \A i \in 1 .. Len(mentions) : mentions[i] \in M
      /\ DOMAIN decoded = 1 .. Len(decoded) /\ Len(decoded) \in Nat
      /\ \A i \in 1 .. Len(decoded) : decoded[i] \in D
  OBVIOUS
<1>3. \A c, r, s : product(c, r, s).canonical = c
  OBVIOUS
<1>4. /\ \A m \in M : product(m.phrase, m.phrase, FALSE) \in S
      /\ \A d \in D : product(d.meaning, d.term, TRUE) \in S
  OBVIOUS
<1> HIDE DEF ps, kept, G, product, S
<1>5. /\ firsts \in Seq(Seq(S)) /\ Len(firsts) = Len(mentions)
      /\ \A i \in 1 .. Len(mentions) :
            firsts[i] = IF mentions[i].label = "PRODUCT"
                        THEN <<product(mentions[i].phrase, mentions[i].phrase, FALSE)>> ELSE <<>>
  <2>1. \A m \in M : named(m) \in Seq(S)
    <3> SUFFICES ASSUME NEW m \in M PROVE named(m) \in Seq(S)
      OBVIOUS
    <3>1. <<product(m.phrase, m.phrase, FALSE)>> \in Seq(S)
      <4>1. \A x \in S : <<x>> \in Seq(S)
        OBVIOUS
      <4> QED
        BY <1>4, <4>1
    <3>2. <<>> \in Seq(S)
      OBVIOUS
    <3> QED
      BY <3>1, <3>2
  <2>2. \A i \in 1 .. Len(mentions) : firsts[i] = named(mentions[i]) /\ firsts[i] \in Seq(S)
    BY <1>2, <2>1
  <2>3. DOMAIN firsts = 1 .. Len(mentions)
    BY <1>2
  <2>4. firsts = [i \in 1 .. Len(mentions) |-> firsts[i]]
    BY <1>2
  <2> DEFINE V == Seq(S)
             n == Len(mentions)
  <2>5. n \in Nat /\ \A i \in 1 .. n : firsts[i] \in V
    BY <1>2, <2>2
  <2>6. firsts = [i \in 1 .. n |-> firsts[i]]
    BY <2>4
  <2> HIDE DEF firsts, V, n
  <2>7. firsts \in Seq(V) /\ Len(firsts) = n
    BY <2>5, <2>6
  <2> QED
    BY <2>2, <2>7 DEF V, n
<1>6. /\ slangs \in Seq(S) /\ Len(slangs) = Len(decoded)
      /\ \A i \in 1 .. Len(decoded) : slangs[i] = product(decoded[i].meaning, decoded[i].term, TRUE)
  <2> DEFINE n == Len(decoded)
             p(i) == product(decoded[i].meaning, decoded[i].term, TRUE)
  <2>1. n \in Nat /\ \A i \in 1 .. n : p(i) \in S
    BY <1>2, <1>4
  <2>2. slangs = [i \in 1 .. n |-> p(i)]
    BY <1>2
  <2> HIDE DEF n, p, slangs
  <2>3. slangs \in Seq(S) /\ Len(slangs) = n /\ \A i \in 1 .. n : slangs[i] = p(i)
    BY <2>1, <2>2
  <2> QED
    BY <2>3 DEF n, p
<1> HIDE DEF firsts, slangs
<1>7. flat \in Seq(S) /\ \A i \in 1 .. Len(firsts) : \A k \in 1 .. Len(firsts[i]) :
                            \E j \in 1 .. Len(flat) : flat[j] = firsts[i][k]
  BY <1>5, FlattenHas
<1> HIDE DEF flat
<1>8. /\ all \in Seq(S) /\ Len(all) = Len(flat) + Len(slangs)
      /\ Len(flat) \in Nat /\ Len(slangs) \in Nat
      /\ \A j \in 1 .. Len(flat) : all[j] = flat[j]
      /\ \A j \in 1 .. Len(slangs) : Len(flat) + j \in 1 .. Len(all) /\ all[Len(flat) + j] = slangs[j]
  <2>1. flat \in Seq(S) /\ slangs \in Seq(S) /\ Len(flat) \in Nat /\ Len(slangs) \in Nat
    BY <1>6, <1>7
  <2>2. /\ all \in Seq(S) /\ Len(all) = Len(flat) + Len(slangs)
        /\ \A i \in 1 .. Len(flat) + Len(slangs) :
              all[i] = IF i <= Len(flat) THEN flat[i] ELSE slangs[i - Len(flat)]
    BY <2>1, ConcatProperties
  <2> DEFINE a == Len(flat)
             b == Len(slangs)
  <2> HIDE DEF all, a, b
  <2>3. \A j \in 1 .. a : j \in 1 .. a + b /\ j <= a
    BY <2>1 DEF a, b
  <2>4. \A j \in 1 .. b : a + j \in 1 .. a + b /\ ~(a + j <= a) /\ (a + j) - a = j
    BY <2>1 DEF a, b
  <2>5. \A i \in 1 .. a + b : all[i] = IF i <= a THEN flat[i] ELSE slangs[i - a]
    BY <2>2 DEF a, b
  <2>6. \A j \in 1 .. a : all[j] = flat[j]
    BY <2>3, <2>5
  <2>7. \A j \in 1 .. b : a + j \in 1 .. a + b /\ all[a + j] = slangs[j]
    BY <2>4, <2>5
  <2> QED
    BY <2>1, <2>2, <2>6, <2>7 DEF a, b
<1> HIDE DEF all
<1>9. N \in Nat /\ <<>> \in Seq(S) /\ \A n \in 1 .. N : all[n] \in S
  BY <1>8
<1>10. G \in [(1 .. N) \X Seq(S) -> Seq(S)]
       /\ \A n \in 1 .. N : \A v \in Seq(S) : G[<<n, v>>] = AddProduct(v, all[n])
  <2>1. \A v \in Seq(S) : \A p \in S : AddProduct(v, p) \in Seq(S)
    BY DEF AddProduct
  <2> DEFINE V == Seq(S)
  <2>2. \A v \in V : \A p \in S : AddProduct(v, p) \in V
    BY <2>1
  <2>3. \A n \in 1 .. N : all[n] \in S
    BY <1>9
  <2>4. G = [c \in (1 .. N) \X V |-> AddProduct(c[2], all[c[1]])]
    BY DEF G
  <2> HIDE DEF V, N
  <2>5. G \in [(1 .. N) \X V -> V] /\ \A n \in 1 .. N : \A v \in V : G[<<n, v>>] = AddProduct(v, all[n])
    BY <2>2, <2>3, <2>4
  <2> QED
    BY <2>5 DEF V
<1> HIDE DEF N
<1>11. PICK g : Steps(g, N, Seq(S), <<>>, G)
  BY <1>9, <1>10, StepByStep
<1>12. g \in [0 .. N -> Seq(S)] /\ g[0] = <<>> /\ \A n \in 1 .. N : g[n] = G[<<n, g[n - 1]>>]
  BY <1>11 DEF Steps
<1>13. \A n \in 1 .. N : n - 1 \in 0 .. N /\ g[n - 1] \in Seq(S)
  <2>1. \A n \in 1 .. N : n - 1 \in 0 .. N
    BY <1>9
  <2> QED
    BY <1>12, <2>1
<1>14. \A n \in 0 .. N : g[n] = IF n = 0 THEN <<>> ELSE AddProduct(g[n - 1], all[n])
  <2>1. \A n \in 1 .. N : n # 0 /\ g[n] = AddProduct(g[n - 1], all[n])
    <3> SUFFICES ASSUME NEW n \in 1 .. N PROVE n # 0 /\ g[n] = AddProduct(g[n - 1], all[n])
      OBVIOUS
    <3>1. g[n - 1] \in Seq(S) /\ g[n] = G[<<n, g[n - 1]>>]
      BY <1>12, <1>13
    <3>2. G[<<n, g[n - 1]>>] = AddProduct(g[n - 1], all[n])
      BY <1>10, <3>1
    <3>3. n # 0
      BY <1>9
    <3> QED
      BY <3>1, <3>2, <3>3
  <2>2. \A n \in 0 .. N : n = 0 \/ n \in 1 .. N
    BY <1>9
  <2> QED
    BY <1>12, <2>1, <2>2
<1>15. g = [n \in 0 .. N |-> g[n]]
  BY <1>12
<1>16. Rec(g)
  BY <1>14, <1>15
<1>17. Rec(kept)
  <2> HIDE DEF Rec
  <2> QED
    BY <1>16 DEF kept
<1>18. kept[0] = <<>> /\ \A n \in 1 .. N : kept[n] = AddProduct(kept[n - 1], all[n])
  <2>1. \A n \in 0 .. N : kept[n] = IF n = 0 THEN <<>> ELSE AddProduct(kept[n - 1], all[n])
    BY <1>17
  <2>2. 0 \in 0 .. N /\ \A n \in 1 .. N : n \in 0 .. N /\ n # 0
    BY <1>9
  <2> QED
    BY <2>1, <2>2
<1> DEFINE P == {n \in 0 .. N : kept[n] \in Seq(S) /\ Listed(kept[n], all, n)}
<1>19. P \in SUBSET (0 .. N) /\ 0 \in P
  <2>1. Listed(<<>>, all, 0)
    BY DEF Listed
  <2>2. 0 \in 0 .. N
    BY <1>9
  <2>3. kept[0] \in Seq(S) /\ Listed(kept[0], all, 0)
    BY <1>18, <2>1
  <2> QED
    BY <2>2, <2>3
<1>20. ASSUME NEW n \in 1 .. N, n - 1 \in P PROVE n \in P
  <2>1. n - 1 \in 0 .. N /\ n \in 0 .. N /\ kept[n - 1] \in Seq(S) /\ Listed(kept[n - 1], all, n - 1)
    BY <1>9, <1>20
  <2>2. AddProduct(kept[n - 1], all[n]) \in Seq(S) /\ Listed(AddProduct(kept[n - 1], all[n]), all, n)
    BY <1>8, <2>1, AddKeepsListed DEF N
  <2> QED
    BY <1>18, <2>1, <2>2
<1>21. ps \in Seq(S) /\ Listed(ps, all, N)
  <2> HIDE DEF P
  <2>1. P = 0 .. N
    BY <1>9, <1>19, <1>20, UpTo
  <2>2. N \in P
    BY <1>9, <2>1
  <2> QED
    BY <1>1, <2>2 DEF P
<1>22. DOMAIN ps = 1 .. Len(ps)
  BY <1>21
<1>23. \A j \in 1 .. N : all[j].canonical \notin NonProducts =>
                             \E k \in DOMAIN ps : ps[k].canonical = all[j].canonical
  BY <1>21, <1>22 DEF Listed
<1>24. ASSUME NEW i \in 1 .. Len(mentions), mentions[i].label = "PRODUCT",
              mentions[i].phrase \notin NonProducts
       PROVE  \E k \in DOMAIN ps : ps[k].canonical = mentions[i].phrase
  <2>1. firsts[i] = <<product(mentions[i].phrase, mentions[i].phrase, FALSE)>>
    BY <1>5, <1>24
  <2>2. i \in 1 .. Len(firsts) /\ 1 \in 1 .. Len(firsts[i])
        /\ firsts[i][1] = product(mentions[i].phrase, mentions[i].phrase, FALSE)
    BY <1>5, <2>1
  <2>3. PICK j \in 1 .. Len(flat) : flat[j] = firsts[i][1]
    BY <1>7, <2>2
  <2>4. j \in 1 .. N /\ all[j] = flat[j]
    BY <1>8 DEF N
  <2>5. all[j].canonical = mentions[i].phrase
    BY <1>3, <2>2, <2>3, <2>4 DEF product
  <2> QED
    BY <1>23, <1>24, <2>4, <2>5
<1>25. ASSUME NEW i \in 1 .. Len(decoded), decoded[i].meaning \notin NonProducts
       PROVE  \E k \in DOMAIN ps : ps[k].canonical = decoded[i].meaning
  <2>1. i \in 1 .. Len(slangs) /\ slangs[i] = product(decoded[i].meaning, decoded[i].term, TRUE)
    BY <1>6
  <2>2. Len(flat) + i \in 1 .. N /\ all[Len(flat) + i] = slangs[i]
    <3>1. Len(flat) + i \in 1 .. Len(all) /\ all[Len(flat) + i] = slangs[i]
      BY <1>8, <2>1
    <3> QED
      BY <3>1 DEF N
  <2>3. all[Len(flat) + i].canonical = decoded[i].meaning
    BY <2>1, <2>2 DEF product
  <2> QED
    BY <1>23, <1>25, <2>2, <2>3
<1> QED
  BY <1>24, <1>25 DEF ps, NamedListed, MeaningsListed

-----------------------------------------------------------------------------
(* Where a phrase stands in a text *)

StandsAt(p, text, c) ==
    /\ c \in 1 .. Len(text) /\ c + Len(p) - 1 \in 1 .. Len(text)
    /\ \A k \in 1 .. Len(p) : text[c + k - 1] = p[k]

\* What stands somewhere in a text is one of its phrases, ...
LEMMA StandingPhrase ==
    ASSUME NEW W, NEW text \in Seq(W), NEW V, NEW p \in Seq(V), p # <<>>,
           NEW c, StandsAt(p, text, c)
    PROVE  /\ p = SubSeq(text, c, c + Len(p) - 1)
           /\ p \in SubSeqs(text)
<1> DEFINE e == c + Len(p) - 1
           s == SubSeq(text, c, e)
<1>1. /\ c \in 1 .. Len(text) /\ e \in 1 .. Len(text) /\ Len(p) \in Nat /\ Len(text) \in Nat
      /\ \A k \in 1 .. Len(p) : text[c + k - 1] = p[k]
  BY DEF StandsAt
<1>2. Len(p) >= 1
  BY EmptySeq
<1>3. c \in Int /\ e \in Int /\ c <= e /\ e - c + 1 = Len(p)
  BY <1>1, <1>2
<1>4. \A i \in c .. e : text[i] \in W
  BY <1>1
<1> HIDE DEF e
<1>5. /\ s \in Seq(W) /\ Len(s) = IF c <= e THEN e - c + 1 ELSE 0
      /\ \A i \in 1 .. e - c + 1 : s[i] = text[c + i - 1]
  BY <1>3, <1>4, SubSeqProperties
<1> HIDE DEF s
<1>6. Len(s) = Len(p) /\ \A i \in 1 .. Len(s) : s[i] = p[i]
  BY <1>1, <1>3, <1>5
<1>7. DOMAIN s = 1 .. Len(s) /\ DOMAIN p = 1 .. Len(p) /\ s = [i \in 1 .. Len(s) |-> s[i]]
      /\ p = [i \in 1 .. Len(p) |-> p[i]]
  BY <1>5
<1>8. s = p
  BY <1>6, <1>7
<1>9. c - 1 \in 0 .. Len(text) /\ e \in 0 .. Len(text) /\ (c - 1) + 1 = c
  BY <1>1
<1>10. SubSeq(text, (c - 1) + 1, e) \in SubSeqs(text)
  <2>1. \A k, l \in 0 .. Len(text) : SubSeq(text, k + 1, l) \in SubSeqs(text)
    BY DEF SubSeqs
  <2> QED
    BY <1>9, <2>1
<1> QED
  BY <1>8, <1>9, <1>10 DEF s, e

\* ... and each of its phrases stands somewhere in it.
LEMMA PhraseStands ==
    ASSUME NEW W, NEW text \in Seq(W), NEW p \in SubSeqs(text), p # <<>>
    PROVE  p \in Seq(W) /\ \E c : StandsAt(p, text, c)
<1>1. PICK i, j \in 0 .. Len(text) : p = SubSeq(text, i + 1, j)
  BY DEF SubSeqs
<1>2. Len(text) \in Nat /\ i + 1 \in Int /\ j \in Int
  OBVIOUS
<1>3. \A k \in i + 1 .. j : text[k] \in W
  BY <1>2
<1>4. /\ p \in Seq(W) /\ Len(p) = IF i + 1 <= j THEN j - (i + 1) + 1 ELSE 0
      /\ \A k \in 1 .. j - (i + 1) + 1 : p[k] = text[(i + 1) + k - 1]
  BY <1>1, <1>2, <1>3, SubSeqProperties
<1>5. Len(p) \in Nat /\ Len(p) >= 1
  BY <1>4, EmptySeq
<1>6. i + 1 <= j /\ Len(p) = j - (i + 1) + 1
  BY <1>2, <1>4, <1>5
<1>7. StandsAt(p, text, i + 1)
  BY <1>2, <1>4, <1>5, <1>6 DEF StandsAt
<1> QED
  BY <1>4, <1>7

\* The first place of a phrase is one where it stands.
LEMMA FirstStands ==
    ASSUME NEW W, NEW text \in Seq(W), NEW p \in SubSeqs(text), p # <<>>
    PROVE  StandsAt(p, text, IndexFirstSubSeq(p, text))
<1> DEFINE n == Len(text)
           InFirst(i) == p \in SubSeqs(SubSeq(text, 1, i))
           Least(i) == InFirst(i) /\ \A j \in 0 .. i - 1 : ~InFirst(j)
           last == CHOOSE i \in 0 .. n : Least(i)
           H == {i \in 0 .. n : InFirst(i)}
<1>1. n \in Nat /\ n \in 0 .. n
  OBVIOUS
<1>2. InFirst(n)
  BY SubSeqFull
<1>3. p \in Seq(W) /\ Len(p) \in Nat /\ Len(p) >= 1
  <2>1. p \in Seq(W)
    BY PhraseStands
  <2> QED
    BY <2>1, EmptySeq
<1>4. \A i \in 0 .. n : /\ SubSeq(text, 1, i) \in Seq(W) /\ Len(SubSeq(text, 1, i)) = i
                        /\ \A k \in 1 .. i : SubSeq(text, 1, i)[k] = text[k]
  <2> SUFFICES ASSUME NEW i \in 0 .. n
               PROVE  /\ SubSeq(text, 1, i) \in Seq(W) /\ Len(SubSeq(text, 1, i)) = i
                      /\ \A k \in 1 .. i : SubSeq(text, 1, i)[k] = text[k]
    OBVIOUS
  <2>1. 1 \in Int /\ i \in Int /\ \A k \in 1 .. i : text[k] \in W
    BY <1>1
  <2>2. /\ SubSeq(text, 1, i) \in Seq(W) /\ Len(SubSeq(text, 1, i)) = IF 1 <= i THEN i - 1 + 1 ELSE 0
        /\ \A k \in 1 .. i - 1 + 1 : SubSeq(text, 1, i)[k] = text[1 + k - 1]
    BY <2>1, SubSeqProperties
  <2>3. i \in Nat /\ i - 1 + 1 = i /\ \A k \in 1 .. i : 1 + k - 1 = k
    BY <1>1
  <2> QED
    BY <2>2, <2>3
<1>5. IndexFirstSubSeq(p, text) = last - (Len(p) - 1)
  BY DEF IndexFirstSubSeq
<1> HIDE DEF InFirst
<1>6. \E i \in 0 .. n : Least(i)
  <2>1. H \in SUBSET Nat /\ H # {}
    BY <1>1, <1>2
  <2>2. PICK i \in H : \A j \in H : i <= j
    <3> HIDE DEF H
    <3> QED
      BY <2>1, LeastNat
  <2>3. \A j \in 0 .. i - 1 : j \in 0 .. n /\ ~(i <= j)
    BY <1>1
  <2> QED
    BY <2>2, <2>3
<1>7. last \in 0 .. n /\ Least(last)
  <2> HIDE DEF Least
  <2> QED
    BY <1>6
<1> HIDE DEF last
<1> DEFINE t == SubSeq(text, 1, last)
<1>8. t \in Seq(W) /\ Len(t) = last /\ (\A k \in 1 .. last : t[k] = text[k]) /\ p \in SubSeqs(t)
  BY <1>4, <1>7 DEF InFirst
<1> HIDE DEF t
<1>9. PICK c : StandsAt(p, t, c)
  BY <1>8, PhraseStands
<1> DEFINE e == c + Len(p) - 1
<1>10. c \in 1 .. last /\ e \in 1 .. last /\ \A k \in 1 .. Len(p) : t[c + k - 1] = p[k]
  BY <1>8, <1>9 DEF StandsAt
<1>11. /\ c \in Nat /\ e \in Nat /\ last \in Nat /\ c >= 1 /\ e >= 1 /\ e <= last /\ last <= n
       /\ e = c + Len(p) - 1
  BY <1>1, <1>7, <1>10
<1> HIDE DEF e
<1>12. \A k \in 1 .. Len(p) : c + k - 1 \in 1 .. e
  BY <1>3, <1>11
<1>13. \A k \in 1 .. Len(p) : text[c + k - 1] = p[k]
  <2>1. \A x \in 1 .. e : x \in 1 .. last
    BY <1>11
  <2> QED
    BY <1>8, <1>10, <1>12, <2>1
<1>14. InFirst(e)
  <2> DEFINE u == SubSeq(text, 1, e)
  <2>1. u \in Seq(W) /\ Len(u) = e /\ \A k \in 1 .. e : u[k] = text[k]
    BY <1>4, <1>11
  <2> HIDE DEF u
  <2>2. c \in 1 .. Len(u) /\ c + Len(p) - 1 \in 1 .. Len(u)
    BY <1>3, <1>11, <2>1
  <2>3. StandsAt(p, u, c)
    BY <1>12, <1>13, <2>1, <2>2 DEF StandsAt
  <2>4. p \in SubSeqs(u)
    BY <1>3, <2>1, <2>3, StandingPhrase
  <2> QED
    BY <2>4 DEF InFirst, u
<1>15. e = last
  <2> SUFFICES ASSUME e # last PROVE FALSE
    OBVIOUS
  <2>1. e \in 0 .. last - 1
    BY <1>11
  <2> QED
    BY <1>7, <1>14, <2>1
<1>16. last - (Len(p) - 1) = c /\ c \in 1 .. n /\ c + Len(p) - 1 \in 1 .. n
  BY <1>3, <1>11, <1>15
<1>17. StandsAt(p, text, c)
  BY <1>13, <1>16 DEF StandsAt
<1> QED
  BY <1>5, <1>16, <1>17

\* The samples that count for other words when they are decoded, entry by entry.
Split == {"vendor:", "origin:", "@milo99", "$50", "wickr:milo", "ph:gbt6sae2io", "buyer@proton.me."}
Made == {"vendor", "origin", "milo99", "50", "wickr", "milo", "ph", "gbt6sae2io",
         "buyer", "proton", "me"}
LEMMA PartEntries == DOMAIN Parts = Split /\ \A w \in Split : Parts[w] \in Seq(Made)
<1>1. DOMAIN Parts = Split
  BY DEF Parts, Split
<1>2. /\ Parts["vendor:"] = <<"vendor">> /\ Parts["origin:"] = <<"origin">>
      /\ Parts["@milo99"] = <<"milo99">> /\ Parts["$50"] = <<"50">>
      /\ Parts["wickr:milo"] = <<"wickr", "milo">>
      /\ Parts["ph:gbt6sae2io"] = <<"ph", "gbt6sae2io">>
      /\ Parts["buyer@proton.me."] = <<"buyer", "proton", "me">>
  BY DEF Parts
<1>3. /\ <<"vendor">> \in Seq(Made) /\ <<"origin">> \in Seq(Made) /\ <<"milo99">> \in Seq(Made)
      /\ <<"50">> \in Seq(Made) /\ <<"wickr", "milo">> \in Seq(Made)
      /\ <<"ph", "gbt6sae2io">> \in Seq(Made) /\ <<"buyer", "proton", "me">> \in Seq(Made)
  BY DEF Made
<1> QED
  BY <1>1, <1>2, <1>3 DEF Split

\* A phrase of words that none of these change stands among the words decoded when
\* it stands in the text without its invisible characters.
LEMMA TokensAre ==
    ASSUME NEW W, NEW raw, NEW text \in Seq(W), text = Seen(raw)
    PROVE  /\ Tokens(raw) \in Seq(W \cup Made)
           /\ \A p, c : /\ p \in Seq(W) /\ p # <<>> /\ StandsAt(p, text, c)
                        /\ \A k \in 1 .. Len(p) : p[k] \notin Split
                        => \E d : StandsAt(p, Tokens(raw), d)
<1> DEFINE T == W \cup Made
           part(w) == IF w \in DOMAIN Parts THEN Parts[w] ELSE <<w>>
           seqs == [i \in DOMAIN text |-> part(text[i])]
           words == Tokens(raw)
           V == Seq(T)
<1>1. words = FlattenSeq(seqs)
  BY DEF Tokens
<1>2. \A w \in W : part(w) \in Seq(T) /\ (w \notin Split => part(w) = <<w>>)
  <2>1. \A w \in T : <<w>> \in Seq(T)
    OBVIOUS
  <2>2. Seq(Made) \subseteq Seq(T)
    OBVIOUS
  <2>3. \A w \in W : w \in T
    OBVIOUS
  <2> HIDE DEF T
  <2> QED
    BY <2>1, <2>2, <2>3, PartEntries
<1>3. DOMAIN text = 1 .. Len(text) /\ Len(text) \in Nat /\ \A i \in 1 .. Len(text) : text[i] \in W
  OBVIOUS
<1> HIDE DEF part, T, words
<1>4. /\ seqs \in Seq(V) /\ Len(seqs) = Len(text)
      /\ \A i \in 1 .. Len(text) : text[i] \notin Split => seqs[i] = <<text[i]>>
  <2>1. \A i \in 1 .. Len(text) : seqs[i] = part(text[i]) /\ seqs[i] \in V
    BY <1>2, <1>3
  <2>2. seqs = [i \in 1 .. Len(text) |-> seqs[i]]
    BY <1>3
  <2> HIDE DEF seqs, V
  <2>3. seqs \in Seq(V) /\ Len(seqs) = Len(text)
    BY <1>3, <2>1, <2>2
  <2> QED
    BY <1>2, <1>3, <2>1, <2>3
<1> HIDE DEF seqs
<1>5. words \in Seq(T)
  BY <1>1, <1>4, FlattenHas
<1>6. PICK f : Joined(f, seqs, T)
  BY <1>4, FlattenIs
<1> DEFINE n == Len(text)
           L(i) == Len(f[i])
<1>7. /\ f \in [0 .. n -> V]
      /\ \A i \in 1 .. n : /\ L(i) = L(i - 1) + Len(seqs[i])
                           /\ \A x \in 1 .. Len(seqs[i]) : f[i][L(i - 1) + x] = seqs[i][x]
      /\ \A i \in 0 .. n : /\ L(i) <= Len(words)
                           /\ \A x \in 1 .. L(i) : words[x] = f[i][x]
  BY <1>1, <1>4, <1>6 DEF Joined
<1>8. n \in Nat /\ \A i \in 0 .. n : L(i) \in Nat
  <2>1. \A v \in V : Len(v) \in Nat
    OBVIOUS
  <2> HIDE DEF V
  <2> QED
    BY <1>3, <1>7, <2>1
<1>9. Len(words) \in Nat
  BY <1>5
<1>10. ASSUME NEW i \in 1 .. n, text[i] \notin Split
       PROVE  /\ L(i) = L(i - 1) + 1 /\ L(i) <= Len(words) /\ words[L(i)] = text[i]
              /\ L(i) \in Nat /\ L(i - 1) \in Nat
  <2>1. seqs[i] = <<text[i]>> /\ Len(seqs[i]) = 1 /\ 1 \in 1 .. Len(seqs[i]) /\ seqs[i][1] = text[i]
    <3>1. seqs[i] = <<text[i]>>
      BY <1>4, <1>10
    <3>2. \A w : Len(<<w>>) = 1 /\ <<w>>[1] = w /\ 1 \in 1 .. 1
      OBVIOUS
    <3> QED
      BY <3>1, <3>2
  <2>2. i - 1 \in 0 .. n /\ i \in 0 .. n
    BY <1>8
  <2>3. L(i) = L(i - 1) + 1 /\ f[i][L(i - 1) + 1] = text[i]
    BY <1>7, <2>1
  <2>4. L(i) \in Nat /\ L(i - 1) \in Nat /\ L(i) <= Len(words)
    BY <1>7, <1>8, <2>2
  <2> HIDE DEF L
  <2>5. L(i) \in 1 .. L(i)
    BY <2>3, <2>4
  <2>6. words[L(i)] = f[i][L(i)]
    BY <1>7, <2>2, <2>5 DEF L
  <2> QED
    BY <2>3, <2>4, <2>6
<1> HIDE DEF L
<1>11. ASSUME NEW p, NEW c, p \in Seq(W), p # <<>>, StandsAt(p, text, c),
              \A k \in 1 .. Len(p) : p[k] \notin Split
       PROVE  \E d : StandsAt(p, words, d)
  <2> DEFINE m == Len(p)
             d == L(c - 1) + 1
             P == {k \in 0 .. m : L(c + k - 1) = L(c - 1) + k}
  <2>1. m \in Nat /\ m >= 1
    BY <1>11, EmptySeq
  <2>2. /\ c \in 1 .. n /\ c + m - 1 \in 1 .. n
        /\ \A k \in 1 .. m : text[c + k - 1] = p[k]
    BY <1>11 DEF StandsAt
  <2>3. \A k \in 1 .. m : /\ c + k - 1 \in 1 .. n /\ c + (k - 1) - 1 = (c + k - 1) - 1
                          /\ text[c + k - 1] \notin Split
    <3>1. \A k \in 1 .. m : c + k - 1 \in 1 .. n /\ c + (k - 1) - 1 = (c + k - 1) - 1
      BY <1>8, <2>1, <2>2
    <3> QED
      BY <1>11, <2>2, <3>1
  <2>4. L(c - 1) \in Nat
    <3>1. c - 1 \in 0 .. n
      BY <1>8, <2>2
    <3> QED
      BY <1>8, <3>1
  <2>5. P \in SUBSET (0 .. m) /\ 0 \in P
    <3>1. 0 \in 0 .. m /\ c + 0 - 1 = c - 1
      BY <2>1, <2>2
    <3> QED
      BY <2>4, <3>1
  <2>6. ASSUME NEW k \in 1 .. m, k - 1 \in P PROVE k \in P
    <3>1. L(c + (k - 1) - 1) = L(c - 1) + (k - 1)
      BY <2>6
    <3>2. L(c + k - 1) = L((c + k - 1) - 1) + 1
      BY <1>10, <2>3
    <3>3. L(c + k - 1) = (L(c - 1) + (k - 1)) + 1
      BY <2>3, <3>1, <3>2
    <3>4. (L(c - 1) + (k - 1)) + 1 = L(c - 1) + k /\ k \in 0 .. m
      BY <2>1, <2>4
    <3> QED
      BY <3>3, <3>4
  <2>7. \A k \in 0 .. m : L(c + k - 1) = L(c - 1) + k
    <3>1. P = 0 .. m
      <4> HIDE DEF P, m
      <4> QED
        BY <2>1, <2>5, <2>6, UpTo
    <3> QED
      BY <3>1
  <2>8. \A k \in 1 .. m : /\ d + k - 1 = L(c - 1) + k /\ k \in 0 .. m
    BY <2>1, <2>4
  <2>9. \A k \in 1 .. m : words[d + k - 1] = p[k] /\ d + k - 1 <= Len(words)
    <3> SUFFICES ASSUME NEW k \in 1 .. m
                 PROVE  words[d + k - 1] = p[k] /\ d + k - 1 <= Len(words)
      OBVIOUS
    <3>1. d + k - 1 = L(c + k - 1)
      BY <2>7, <2>8
    <3>2. words[L(c + k - 1)] = text[c + k - 1] /\ L(c + k - 1) <= Len(words)
      BY <1>10, <2>3
    <3> QED
      BY <2>2, <3>1, <3>2
  <2>10. d \in 1 .. Len(words) /\ d + m - 1 \in 1 .. Len(words)
    <3>1. 1 \in 1 .. m /\ m \in 1 .. m
      BY <2>1
    <3>2. d + 1 - 1 <= Len(words) /\ d + m - 1 <= Len(words)
      BY <2>9, <3>1
    <3>3. d \in Nat /\ d >= 1
      BY <2>4
    <3> HIDE DEF d
    <3> QED
      BY <1>9, <2>1, <3>2, <3>3
  <2>11. StandsAt(p, words, d)
    <3> HIDE DEF d
    <3> QED
      BY <2>9, <2>10 DEF StandsAt
  <2> QED
    BY <2>11
<1> QED
  BY <1>5, <1>11 DEF words, T

-----------------------------------------------------------------------------
(* The coded words *)

FirstAt(p, text) == IndexFirstSubSeq(p, Tokens(text))
Phrases(coded, text) ==
    {p \in DOMAIN coded : Len(p) \in 1 .. 4 /\ p \in SubSeqs(Tokens(text))}
Fuzzy(coded, text) ==
    {w \in ToSet(Tokens(text)) \cap DOMAIN Resembles :
        <<w>> \notin DOMAIN coded /\ Resembles[w] \in DOMAIN coded}
DecodedSet(coded, text) ==
    {[term |-> p, meaning |-> coded[p], at |-> FirstAt(p, text)] : p \in Phrases(coded, text)}
    \cup {[term |-> <<w>>, meaning |-> coded[Resembles[w]], at |-> FirstAt(<<w>>, text)] :
             w \in Fuzzy(coded, text)}

\* A decoded term stands where it says, and stands for one thing.
LEMMA DecodedAre ==
    ASSUME NEW T, NEW text, Tokens(text) \in Seq(T), NEW coded
    PROVE  /\ \A d \in DecodedSet(coded, text) :
                 d.term \in Seq(T) /\ d.term # <<>> /\ StandsAt(d.term, Tokens(text), d.at)
           /\ \A d, e \in DecodedSet(coded, text) : d.term = e.term => d = e
<1> DEFINE words == Tokens(text)
           S == DecodedSet(coded, text)
           entry(p) == [term |-> p, meaning |-> coded[p], at |-> FirstAt(p, text)]
           close(w) == [term |-> <<w>>, meaning |-> coded[Resembles[w]], at |-> FirstAt(<<w>>, text)]
           P == Phrases(coded, text)
           F == Fuzzy(coded, text)
<1>1. \A d \in S : (\E p \in P : d = entry(p)) \/ (\E w \in F : d = close(w))
  BY DEF DecodedSet
<1>2. \A p \in P : p \in DOMAIN coded /\ p # <<>> /\ p \in SubSeqs(words)
  <2>1. Len(<<>>) \notin 1 .. 4
    OBVIOUS
  <2> QED
    BY <2>1 DEF Phrases
<1>3. \A w \in F : <<w>> \notin DOMAIN coded /\ <<w>> # <<>> /\ <<w>> \in SubSeqs(words)
  <2> SUFFICES ASSUME NEW w \in F
               PROVE  <<w>> \notin DOMAIN coded /\ <<w>> # <<>> /\ <<w>> \in SubSeqs(words)
    OBVIOUS
  <2>1. <<w>> \notin DOMAIN coded /\ w \in ToSet(words)
    BY DEF Fuzzy
  <2>2. PICK i \in 1 .. Len(words) : w = words[i]
    <3>1. DOMAIN words = 1 .. Len(words)
      OBVIOUS
    <3> QED
      BY <2>1, <3>1 DEF ToSet
  <2> HIDE DEF words
  <2>3. words \in Seq(T) /\ Len(words) \in Nat
    BY DEF words
  <2>4. SubSeq(words, i, i) = <<w>>
    BY <2>2, <2>3, WordAt
  <2>5. i - 1 \in 0 .. Len(words) /\ i \in 0 .. Len(words) /\ (i - 1) + 1 = i
    BY <2>3
  <2>6. SubSeq(words, (i - 1) + 1, i) \in SubSeqs(words)
    <3>1. \A k, l \in 0 .. Len(words) : SubSeq(words, k + 1, l) \in SubSeqs(words)
      BY DEF SubSeqs
    <3> QED
      BY <2>5, <3>1
  <2> QED
    BY <2>1, <2>4, <2>5, <2>6
<1>4. \A p : p \in SubSeqs(words) /\ p # <<>> => p \in Seq(T) /\ StandsAt(p, words, FirstAt(p, text))
  BY PhraseStands, FirstStands DEF FirstAt
<1> HIDE DEF S, P, F
<1>5. /\ \A p : entry(p).term = p /\ entry(p).at = FirstAt(p, text)
      /\ \A w : close(w).term = <<w>> /\ close(w).at = FirstAt(<<w>>, text)
  OBVIOUS
<1>6. \A v, w : <<v>> = <<w>> => v = w
  OBVIOUS
<1> HIDE DEF entry, close, words
<1>7. ASSUME NEW d \in S PROVE d.term \in Seq(T) /\ d.term # <<>> /\ StandsAt(d.term, words, d.at)
  <2>1. CASE \E p \in P : d = entry(p)
    <3>1. PICK p \in P : d = entry(p)
      BY <2>1
    <3>2. p \in SubSeqs(words) /\ p # <<>> /\ d.term = p /\ d.at = FirstAt(p, text)
      BY <3>1, <1>2, <1>5
    <3> QED
      BY <3>2, <1>4
  <2>2. CASE \E w \in F : d = close(w)
    <3>1. PICK w \in F : d = close(w)
      BY <2>2
    <3>2. <<w>> \in SubSeqs(words) /\ <<w>> # <<>> /\ d.term = <<w>> /\ d.at = FirstAt(<<w>>, text)
      BY <3>1, <1>3, <1>5
    <3> QED
      BY <3>2, <1>4
  <2> QED
    BY <1>1, <2>1, <2>2
<1>8. ASSUME NEW d \in S, NEW e \in S, d.term = e.term PROVE d = e
  <2>1. CASE (\E p \in P : d = entry(p)) /\ (\E p \in P : e = entry(p))
    BY <1>5, <1>8, <2>1
  <2>2. CASE (\E w \in F : d = close(w)) /\ (\E w \in F : e = close(w))
    <3>1. PICK v \in F : d = close(v)
      BY <2>2
    <3>2. PICK w \in F : e = close(w)
      BY <2>2
    <3>3. <<v>> = <<w>>
      BY <1>5, <1>8, <3>1, <3>2
    <3>4. v = w
      BY <1>6, <3>3
    <3> QED
      BY <3>1, <3>2, <3>4
  <2>3. \A p \in P : \A w \in F : entry(p).term # close(w).term
    BY <1>2, <1>3, <1>5
  <2> QED
    BY <1>1, <1>8, <2>1, <2>2, <2>3
<1> QED
  BY <1>7, <1>8 DEF words, S

\* Decode lists exactly the coded phrases and the words close to one, by place.
LEMMA DecodeIs ==
    ASSUME NEW T, NEW text, Tokens(text) \in Seq(T), NEW coded
    PROVE  /\ Decode(coded, text) \in Seq(DecodedSet(coded, text))
           /\ Covers(Decode(coded, text), DecodedSet(coded, text))
<1> DEFINE words == Tokens(text)
           S == DecodedSet(coded, text)
           n == Len(words)
           B == (1 .. n) \X (1 .. n)
           before(d, e) == d.at < e.at \/ (d.at = e.at /\ Len(d.term) > Len(e.term))
           R == {p \in S \X S : before(p[1], p[2])}
           c == Cardinality(S)
           rows == Ordered(S, before)
           place == [d \in S |-> <<d.at, Len(d.term)>>]
<1>1. Decode(coded, text) = rows
  BY DEF Decode, DecodedSet, Phrases, Fuzzy, FirstAt
<1>2. \A d \in S : d.term \in Seq(T) /\ d.term # <<>> /\ StandsAt(d.term, words, d.at)
  BY DecodedAre
<1>3. \A d, e \in S : d.term = e.term => d = e
  BY DecodedAre
<1>4. n \in Nat
  OBVIOUS
<1> HIDE DEF S, words
<1>5. \A d \in S : /\ d.at \in 1 .. n /\ Len(d.term) \in 1 .. n
                   /\ d.term = SubSeq(words, d.at, d.at + Len(d.term) - 1)
  <2> SUFFICES ASSUME NEW d \in S
               PROVE  /\ d.at \in 1 .. n /\ Len(d.term) \in 1 .. n
                      /\ d.term = SubSeq(words, d.at, d.at + Len(d.term) - 1)
    OBVIOUS
  <2> DEFINE p == d.term
             a == d.at
  <2>1. p \in Seq(T) /\ p # <<>> /\ StandsAt(p, words, a)
    BY <1>2
  <2>2. words \in Seq(T)
    BY DEF words
  <2> HIDE DEF p, a
  <2>3. p = SubSeq(words, a, a + Len(p) - 1)
    BY <2>1, <2>2, StandingPhrase
  <2>4. Len(p) \in Nat /\ Len(p) >= 1
    BY <2>1, EmptySeq
  <2>5. a \in 1 .. n /\ a + Len(p) - 1 \in 1 .. n
    BY <2>1 DEF StandsAt
  <2>6. Len(p) \in 1 .. n
    BY <1>4, <2>4, <2>5
  <2> QED
    BY <2>3, <2>5, <2>6 DEF p, a
<1>6. \A d, e \in S : d.at = e.at /\ Len(d.term) = Len(e.term) => d = e
  BY <1>3, <1>5
<1>7. IsFiniteSet(S) /\ c \in Nat
  <2>1. IsFiniteSet(1 .. n)
    BY <1>4, FS_Interval
  <2>2. IsFiniteSet(B)
    BY <2>1, FS_Product
  <2>3. place \in Injection(S, B)
    BY <1>5, <1>6 DEF Injection, IsInjective
  <2> HIDE DEF place, B
  <2>4. IsFiniteSet(S)
    BY <2>2, <2>3, FS_Injection
  <2> QED
    BY <2>4, FS_CardinalityType
<1>8. \A d, e \in S : <<d, e>> \in R <=> before(d, e)
  OBVIOUS
<1>9. rows = [i \in 1 .. c |-> CHOOSE d \in S : Cardinality({e \in S : before(e, d)}) = i - 1]
  BY DEF Ordered
<1> HIDE DEF R, rows
<1>10. \A d \in S : d.at \in Nat /\ Len(d.term) \in Nat
  BY <1>5
<1>11. Orders(R, S)
  BY <1>6, <1>8, <1>10 DEF Orders
<1> HIDE DEF before
<1>12. \A d \in S : {e \in S : before(e, d)} = {e \in S : <<e, d>> \in R}
  BY <1>8
<1>13. \A i \in 1 .. c : \E d \in S : Cardinality({e \in S : before(e, d)}) = i - 1
  <2> SUFFICES ASSUME NEW i \in 1 .. c PROVE \E d \in S : Cardinality({e \in S : before(e, d)}) = i - 1
    OBVIOUS
  <2>1. PICK d \in S : Rank(S, R, d) = i - 1
    BY <1>7, <1>11, RankTaken
  <2> QED
    BY <1>12, <2>1 DEF Rank
<1>14. rows \in [1 .. c -> S] /\ \A i \in 1 .. c : Cardinality({e \in S : before(e, rows[i])}) = i - 1
  BY <1>9, <1>13
<1>15. \A i \in 1 .. c : Rank(S, R, rows[i]) = i - 1
  BY <1>12, <1>14 DEF Rank
<1>16. rows \in Seq(S) /\ Covers(rows, S)
  <2>1. rows \in [1 .. Cardinality(S) -> S]
    BY <1>14
  <2>2. \A i \in 1 .. Cardinality(S) : Rank(S, R, rows[i]) = i - 1
    BY <1>15
  <2>3. IsFiniteSet(S)
    BY <1>7
  <2>4. rows \in Seq(S)
    BY <1>11, <2>1, <2>2, <2>3, RowsAre
  <2>5. Covers(rows, S)
    BY <1>11, <2>1, <2>2, <2>3, RowsAre
  <2> QED
    BY <2>4, <2>5
<1> QED
  BY <1>1, <1>16 DEF S

-----------------------------------------------------------------------------
(* What can be read of a post is found *)

\* The text that is analysed: each word undone and redacted.
Analysed(raw) == Redact(Normalize(raw)).text
Stored(w) == RedactWord(Undone(w))
AnalysedWords == {Stored(w) : w \in Words}

\* Word by word the analysed text is what is stored of what a person reads.
LEMMA AnalysedText ==
    ASSUME NEW raw \in Seq(Words)
    PROVE  /\ Analysed(raw) \in Seq(AnalysedWords) /\ Len(Analysed(raw)) = Len(raw)
           /\ PlainText(raw) \in Seq({Lookup(Plain, w) : w \in Words})
           /\ Len(PlainText(raw)) = Len(raw)
           /\ \A i \in 1 .. Len(raw) : Analysed(raw)[i] = Stored(PlainText(raw)[i])
<1> DEFINE n == Len(raw)
           text == Analysed(raw)
           plain == PlainText(raw)
           Read == {Lookup(Plain, w) : w \in Words}
<1>1. n \in Nat /\ DOMAIN raw = 1 .. n /\ \A i \in 1 .. n : raw[i] \in Words
  OBVIOUS
<1>2. Normalize(raw) = [i \in DOMAIN raw |-> Undone(raw[i])]
  BY DEF Normalize, Undone
<1>3. text = [i \in 1 .. n |-> Stored(raw[i])]
  BY <1>1, <1>2 DEF Analysed, Redact, Stored
<1>4. plain = [i \in 1 .. n |-> Lookup(Plain, raw[i])]
  BY <1>1 DEF PlainText
<1>5. \A i \in 1 .. n : Stored(raw[i]) \in AnalysedWords /\ Lookup(Plain, raw[i]) \in Read
  BY <1>1 DEF AnalysedWords
<1>6. \A i \in 1 .. n : Stored(Lookup(Plain, raw[i])) = Stored(raw[i])
  BY DisguiseUndone DEF Stored
<1> HIDE DEF text, plain, Read, n
<1>7. text \in Seq(AnalysedWords) /\ Len(text) = n /\ plain \in Seq(Read) /\ Len(plain) = n
  BY <1>1, <1>3, <1>4, <1>5
<1>8. \A i \in 1 .. n : text[i] = Stored(plain[i])
  BY <1>3, <1>4, <1>6
<1> QED
  BY <1>7, <1>8 DEF text, plain, Read, n

\* Storing a word for a drug changes nothing of it.
LEMMA DrugsStored == \A w \in Drugs : Stored(w) = w
<1> SUFFICES ASSUME NEW w \in Drugs PROVE Stored(w) = w
  OBVIOUS
<1>1. w \notin {"wide-mdma", "wide-buyer@proton.me", "leaf-emoji", "plug-emoji"}
  BY DEF Drugs
<1>2. w \notin DOMAIN LeetMap
  BY LeetEntries DEF Drugs
<1>3. Undone(w) = w
  BY <1>1, <1>2, TableEntries DEF Undone, Lookup, FoldLeet, Foldable
<1>4. w \notin EmailWords /\ w \notin PhoneWords
  BY DEF Drugs, EmailWords, PhoneWords
<1> QED
  BY <1>3, <1>4 DEF Stored, RedactWord

\* Without its invisible characters a text is as long as before.
LEMMA SeenText ==
    ASSUME NEW W, NEW text \in Seq(W)
    PROVE  /\ Seen(text) \in Seq({Lookup(Visible, w) : w \in W}) /\ Len(Seen(text)) = Len(text)
           /\ \A i \in 1 .. Len(text) : Seen(text)[i] = Lookup(Visible, text[i])
<1> DEFINE n == Len(text)
           S == {Lookup(Visible, w) : w \in W}
           seen == Seen(text)
<1>1. n \in Nat /\ DOMAIN text = 1 .. n /\ \A i \in 1 .. n : text[i] \in W
  OBVIOUS
<1>2. seen = [i \in 1 .. n |-> Lookup(Visible, text[i])]
  BY <1>1 DEF Seen
<1>3. \A i \in 1 .. n : Lookup(Visible, text[i]) \in S
  BY <1>1
<1> HIDE DEF n, S, seen
<1>4. seen \in Seq(S) /\ Len(seen) = n
  BY <1>1, <1>2, <1>3
<1> QED
  BY <1>1, <1>2, <1>4 DEF n, S, seen

\* Storing a word leaves its invisible characters alone: what is stored of it reads
\* as it does itself, if storing leaves that alone too.
LEMMA SeenThrough ==
    ASSUME NEW w, NEW v, Lookup(Visible, w) = v, Stored(v) = v, v \notin DOMAIN Visible
    PROVE  Lookup(Visible, Stored(w)) = v
<1>1. DOMAIN Visible = {"zw-maal", "zw-mdma"}
  BY DEF Visible
<1>2. CASE w \notin DOMAIN Visible
  BY <1>2 DEF Lookup
<1>3. CASE w \in DOMAIN Visible
  <2>1. w \notin {"wide-mdma", "wide-buyer@proton.me", "leaf-emoji", "plug-emoji"}
    BY <1>1, <1>3
  <2>2. w \notin DOMAIN LeetMap
    BY <1>1, <1>3, LeetEntries
  <2>3. Undone(w) = w
    BY <2>1, <2>2, TableEntries DEF Undone, Lookup, FoldLeet, Foldable
  <2>4. w \notin EmailWords /\ w \notin PhoneWords
    BY <1>1, <1>3 DEF EmailWords, PhoneWords
  <2> QED
    BY <2>3, <2>4 DEF Stored, RedactWord
<1> QED
  BY <1>2, <1>3

\* What the analysis lists for a text.
FoundProducts(raw, aids, prices, quantities) ==
    Products(Extract(Analysed(raw), aids.spacy), Decode(Dictionary, Analysed(raw)), prices, quantities)

\* A drug that a person reads in a post is part of a listed product, under
\* whatever disguise it was written.
LEMMA DrugsAreFound ==
    ASSUME NEW raw \in Seq(Words), NEW aids, NEW prices, NEW quantities,
           NEW w \in ToSet(PlainText(raw)) \cap Drugs
    PROVE  \E k \in DOMAIN FoundProducts(raw, aids, prices, quantities) :
               Contains(FoundProducts(raw, aids, prices, quantities)[k].canonical, w)
<1> DEFINE text == Analysed(raw)
           plain == PlainText(raw)
           ms == Extract(text, aids.spacy)
           decoded == Decode(Dictionary, text)
           ps == Products(ms, decoded, prices, quantities)
           D == DecodedSet(Dictionary, text)
<1>1. text \in Seq(AnalysedWords) /\ Len(text) = Len(plain) /\ plain \in Seq({Lookup(Plain, v) : v \in Words})
      /\ \A i \in 1 .. Len(text) : text[i] = Stored(plain[i])
  BY AnalysedText
<1>2. PICK i \in 1 .. Len(text) : plain[i] = w
  <2> HIDE DEF plain, text
  <2>1. DOMAIN plain = 1 .. Len(text)
    BY <1>1
  <2> QED
    BY <2>1 DEF ToSet, plain
<1>3. text[i] = w /\ text[i] \in Drugs
  BY <1>1, <1>2, DrugsStored
<1>4. decoded \in Seq(D)
  <2>1. Tokens(text) \in Seq({Lookup(Visible, v) : v \in AnalysedWords} \cup Made)
    BY <1>1, SeenText, TokensAre
  <2> QED
    BY <2>1, DecodeIs
<1> HIDE DEF text, plain, decoded, D
<1>5. /\ ms \in Seq(Readings(text))
      /\ \A j \in 1 .. Len(text) :
            text[j] \in Drugs =>
                \E k \in 1 .. Len(ms) : ms[k].label = "PRODUCT" /\ ms[k].from <= j /\ j <= ms[k].to
  BY <1>1, ExtractIs
<1>6. PICK k \in 1 .. Len(ms) : ms[k].label = "PRODUCT" /\ ms[k].from <= i /\ i <= ms[k].to
  BY <1>3, <1>5
<1> HIDE DEF ms
<1> DEFINE m == ms[k]
<1>7. m \in Readings(text)
  BY <1>5
<1>8. /\ m.from \in 1 .. Len(text) /\ m.to \in 1 .. Len(text) /\ m.phrase = SubSeq(text, m.from, m.to)
  BY <1>6, <1>7 DEF Readings
<1> DEFINE a == m.from
           b == m.to
           phrase == m.phrase
<1>9. a \in 1 .. Len(text) /\ b \in 1 .. Len(text) /\ phrase = SubSeq(text, a, b) /\ a <= i /\ i <= b
  BY <1>6, <1>8
<1> HIDE DEF m, a, b, phrase
<1>10. Len(text) \in Nat /\ a \in Int /\ b \in Int /\ i \in Int /\ \A j \in a .. b : text[j] \in AnalysedWords
  BY <1>1, <1>9
<1>11. /\ Len(phrase) = IF a <= b THEN b - a + 1 ELSE 0
       /\ \A j \in 1 .. b - a + 1 : phrase[j] = text[a + j - 1]
  BY <1>9, <1>10, SubSeqProperties
<1>12. i - a + 1 \in 1 .. Len(phrase) /\ phrase[i - a + 1] = w
  <2>1. i - a + 1 \in 1 .. b - a + 1 /\ a + (i - a + 1) - 1 = i /\ a <= b
    BY <1>9, <1>10
  <2> QED
    BY <1>3, <1>11, <2>1
<1>13. Contains(phrase, w)
  BY <1>12 DEF Contains
<1>14. phrase \notin NonProducts
  <2>1. w \in {"mdma", "meth", "cannabis", "cocaine", "ecstasy"}
    BY DEF Drugs
  <2>2. ~Contains(<<>>, w)
    BY DEF Contains
  <2>3. ~Contains(<<"delivery">>, w) /\ ~Contains(<<"home delivery">>, w) /\ ~Contains(<<"surat">>, w)
    <3>1. \A x : Contains(<<x>>, w) => x = w
      BY DEF Contains
    <3> QED
      BY <2>1, <3>1
  <2> QED
    BY <1>13, <2>2, <2>3 DEF NonProducts
<1>15. ms[k].label = "PRODUCT" /\ ms[k].phrase = phrase
  BY <1>6 DEF phrase, m
<1>16. \E x \in DOMAIN ps : ps[x].canonical = phrase
  <2>1. NamedListed(ps, ms)
    BY <1>4, <1>5, ProductsAre
  <2> HIDE DEF ps
  <2> QED
    BY <1>14, <1>15, <2>1 DEF NamedListed
<1> HIDE DEF ps
<1>17. \E x \in DOMAIN ps : Contains(ps[x].canonical, w)
  BY <1>13, <1>16
<1> QED
  BY <1>17 DEF ps, ms, decoded, text, FoundProducts

Lists(products, meaning) == \E k \in DOMAIN products : products[k].canonical = meaning

\* A coded phrase that a person reads in a post is decoded, and what it means is listed.
LEMMA CodedWordsAreFound ==
    ASSUME NEW raw \in Seq(Words), NEW aids, NEW prices, NEW quantities,
           NEW p \in DOMAIN Dictionary, PlainTerm(p), p \in SubSeqs(Seen(PlainText(raw)))
    PROVE  /\ Decode(Dictionary, Analysed(raw)) # <<>>
           /\ Lists(FoundProducts(raw, aids, prices, quantities), Dictionary[p])
<1> DEFINE text == Analysed(raw)
           plain == PlainText(raw)
           Read == {Lookup(Plain, v) : v \in Words}
           shown == Seen(plain)
           seen == Seen(text)
           W == {Lookup(Visible, v) : v \in AnalysedWords}
           words == Tokens(text)
           T == W \cup Made
           ms == Extract(text, aids.spacy)
           decoded == Decode(Dictionary, text)
           ps == Products(ms, decoded, prices, quantities)
           D == DecodedSet(Dictionary, text)
<1>1. text \in Seq(AnalysedWords) /\ Len(text) = Len(plain) /\ plain \in Seq(Read)
      /\ \A i \in 1 .. Len(text) : text[i] = Stored(plain[i])
  BY AnalysedText
<1>2. /\ p # <<>> /\ Len(p) \in 1 .. 4 /\ Redact(Normalize(p)).text = p
      /\ ToSet(p) \cap (DOMAIN Parts \cup DOMAIN Visible) = {} /\ Dictionary[p] \notin NonProducts
  <2>1. Len(<<>>) \notin 1 .. 4
    OBVIOUS
  <2> QED
    BY <2>1 DEF PlainTerm
<1> HIDE DEF text, plain, Read
<1>20. /\ shown \in Seq({Lookup(Visible, v) : v \in Read}) /\ Len(shown) = Len(text)
       /\ \A i \in 1 .. Len(text) : shown[i] = Lookup(Visible, plain[i])
       /\ seen \in Seq(W) /\ Len(seen) = Len(text)
       /\ \A i \in 1 .. Len(text) : seen[i] = Lookup(Visible, text[i])
  BY <1>1, SeenText
<1>3. p \in Seq({Lookup(Visible, v) : v \in Read}) /\ \E c : StandsAt(p, shown, c)
  <2>1. p \in SubSeqs(shown)
    BY DEF plain
  <2> QED
    BY <1>2, <1>20, <2>1, PhraseStands
<1> HIDE DEF shown, seen, W
<1>4. PICK c : StandsAt(p, shown, c)
  BY <1>3
<1>5. DOMAIN p = 1 .. Len(p) /\ Len(p) \in Nat
  BY <1>3
<1>6. \A k \in 1 .. Len(p) : Stored(p[k]) = p[k] /\ p[k] \notin Split /\ p[k] \notin DOMAIN Visible
  <2>1. Normalize(p) = [k \in DOMAIN p |-> Undone(p[k])]
    BY DEF Normalize, Undone
  <2>2. Redact(Normalize(p)).text = [k \in DOMAIN p |-> Stored(p[k])]
    BY <2>1 DEF Redact, Stored
  <2>3. \A k \in DOMAIN p : p[k] \in ToSet(p)
    BY DEF ToSet
  <2> QED
    BY <1>2, <1>5, <2>2, <2>3, PartEntries
<1>7. /\ c \in 1 .. Len(text) /\ c + Len(p) - 1 \in 1 .. Len(text)
      /\ \A k \in 1 .. Len(p) : shown[c + k - 1] = p[k]
  BY <1>20, <1>4 DEF StandsAt
<1>8. \A k \in 1 .. Len(p) : seen[c + k - 1] = p[k]
  <2>1. \A k \in 1 .. Len(p) : c + k - 1 \in 1 .. Len(text)
    <3>1. Len(text) \in Nat
      BY <1>1
    <3> QED
      BY <1>5, <1>7, <3>1
  <2> SUFFICES ASSUME NEW k \in 1 .. Len(p) PROVE seen[c + k - 1] = p[k]
    OBVIOUS
  <2>2. PICK i \in 1 .. Len(text) : i = c + k - 1
    BY <2>1
  <2>3. Lookup(Visible, plain[i]) = p[k] /\ seen[i] = Lookup(Visible, Stored(plain[i]))
    BY <1>1, <1>20, <1>7, <2>2
  <2>4. Lookup(Visible, Stored(plain[i])) = p[k]
    BY <1>6, <2>3, SeenThrough
  <2> QED
    BY <2>2, <2>3, <2>4
<1>9. StandsAt(p, seen, c)
  BY <1>20, <1>7, <1>8 DEF StandsAt
<1>10. p \in Seq(W)
  <2>1. p \in SubSeqs(seen)
    BY <1>20, <1>2, <1>3, <1>9, StandingPhrase
  <2> QED
    BY <1>20, <1>2, <2>1, PhraseStands
<1>11. words \in Seq(T) /\ \E d : StandsAt(p, words, d)
  <2>1. seen = Seen(text)
    BY DEF seen
  <2> QED
    BY <1>20, <1>2, <1>6, <1>9, <1>10, <2>1, TokensAre
<1> HIDE DEF words, T
<1>12. p \in SubSeqs(words)
  BY <1>2, <1>10, <1>11, StandingPhrase
<1>13. decoded \in Seq(D) /\ Covers(decoded, D)
  BY <1>11, DecodeIs DEF words
<1>14. \E d \in D : d.meaning = Dictionary[p]
  <2>1. p \in Phrases(Dictionary, text)
    BY <1>2, <1>12 DEF Phrases, words
  <2> DEFINE d == [term |-> p, meaning |-> Dictionary[p], at |-> FirstAt(p, text)]
  <2>2. d \in D
    BY <2>1 DEF DecodedSet
  <2> QED
    BY <2>2
<1> HIDE DEF decoded, D
<1>15. PICK i \in 1 .. Len(decoded) : decoded[i].meaning = Dictionary[p]
  BY <1>13, <1>14 DEF Covers
<1>16. decoded # <<>>
  BY <1>15
<1>17. ms \in Seq(Readings(text))
  BY <1>1, ExtractIs
<1> HIDE DEF ms
<1>18. \E k \in DOMAIN ps : ps[k].canonical = Dictionary[p]
  <2>1. MeaningsListed(ps, decoded)
    BY <1>13, <1>17, ProductsAre
  <2> HIDE DEF ps
  <2> QED
    BY <1>2, <1>15, <2>1 DEF MeaningsListed
<1> HIDE DEF ps
<1> QED
  BY <1>16, <1>18 DEF ps, ms, decoded, text, FoundProducts, Lists

\* Whatever the post and the dictionary, no word of a kept post counts for two
\* entities: merge_entities (nlp/ner/__init__.py:206-227) admits a mention only
\* beside those it overlaps with none of.
THEOREM MentionsNeverOverlap ==
    AnalysisSpec => [](\A i \in DOMAIN outcome : outcome[i].kept => MentionsDisjoint(outcome[i]))
<1> DEFINE Apart == \A i \in DOMAIN outcome : outcome[i].kept => MentionsDisjoint(outcome[i])
<1>1. AnalysisInv => Apart
  <2> SUFFICES ASSUME AnalysisInv, NEW i \in DOMAIN outcome, outcome[i].kept
               PROVE  MentionsDisjoint(outcome[i])
    OBVIOUS
  <2> DEFINE o == outcome[i]
             text == Analysed(post.raw)
             ms == Extract(text, setting.aids.spacy)
  <2>1. PICK raw \in Seq(Words) : post = Post(raw, setting.origin)
    BY DEF AnalysisInv
  <2>2. post.raw = raw
    BY <2>1 DEF Post
  <2>3. o = Process(post, Dictionary, KnownActors(setting.earlier), setting.aids)
    BY DEF AnalysisInv
  <2>4. o.kept
    OBVIOUS
  <2>5. o.mentions = ms
    BY <2>2, <2>3, <2>4 DEF Process, Dropped, Analysed
  <2>6. text \in Seq(AnalysedWords)
    BY <2>2, AnalysedText
  <2>7. /\ ms \in Seq(Readings(text))
        /\ \A j, k \in 1 .. Len(ms) : j # k => ~Overlap(ms[j], ms[k])
    <3> HIDE DEF text
    <3> QED
      BY <2>6, ExtractIs
  <2> HIDE DEF ms, o
  <2>8. DOMAIN ms = 1 .. Len(ms)
    BY <2>7
  <2> QED
    BY <2>5, <2>7, <2>8 DEF MentionsDisjoint, o
<1> HIDE DEF Apart
<1>2. AnalysisInv => Apart
  BY <1>1
<1> QED
  BY <1>2, AnalysisInvariant, PTL DEF Apart

\* Whatever the text, its length, the dictionary, the blocklist, the optional parts
\* and the earlier actors: a post that NLPPipeline.process
\* (nlp/pipeline.py:101-226) keeps is analysed as its plain form would be, unless
\* the blocklist names that form; every drug, and every coded phrase of plain words
\* that means a product, that a person reads in it is among its products; its
\* mentions do not overlap and its contacts are masked and linked.  A post it drops
\* is prohibited or names no drug, no such phrase and no wallet.
THEOREM AnalysisKeepsItsPromise == AnalysisSpec => []AnalysisPromise
<1> DEFINE Alike == \A i \in DOMAIN outcome : outcome[i].kept => SameAsPlain(outcome[i])
           Owed == \A i \in DOMAIN outcome :
                       /\ outcome[i].kept => ContactsKept(outcome[i])
                       /\ \/ outcome[i].kept
                          \/ Sanitize(post.raw).dropped
                          \/ ToSet(post.raw) \cap Addresses = {}
<1>1. AnalysisInv /\ Alike /\ Owed => AnalysisPromise
  <2> SUFFICES ASSUME AnalysisInv, Alike, Owed, NEW i \in DOMAIN outcome
               PROVE  /\ ~outcome[i].kept => DroppedRightly
                      /\ outcome[i].kept => /\ SameAsPlain(outcome[i]) /\ ProductsFound(outcome[i])
                                            /\ ContactsKept(outcome[i]) /\ MentionsDisjoint(outcome[i])
    BY DEF AnalysisPromise
  <2> DEFINE o == outcome[i]
             known == KnownActors(setting.earlier)
             aids == setting.aids
             text == Analysed(post.raw)
             prices == Prices(post.raw)
             quantities == Quantities(post.raw)
             ms == Extract(text, aids.spacy)
             decoded == Decode(Dictionary, text)
             ps == FoundProducts(post.raw, aids, prices, quantities)
  <2>1. PICK raw \in Seq(Words) : post = Post(raw, setting.origin)
    BY DEF AnalysisInv
  <2>2. post.raw = raw /\ PlainPost.raw = PlainText(raw)
    BY <2>1 DEF Post, PlainPost, PlainText
  <2>3. o = Process(post, Dictionary, known, aids)
    BY DEF AnalysisInv
  <2>4. /\ o.kept => /\ ~Sanitize(raw).dropped /\ o.products = ps /\ o.mentions = ms
        /\ ~o.kept => Sanitize(raw).dropped \/ (ps = <<>> /\ decoded = <<>>)
    BY <2>2, <2>3 DEF Process, Dropped, Deterministic, FoundProducts, Analysed
  <2>5. ASSUME NEW w \in ToSet(PlainText(raw)) \cap Drugs
        PROVE  \E k \in DOMAIN ps : Contains(ps[k].canonical, w)
    BY <2>2, <2>5, DrugsAreFound
  <2>6. ASSUME NEW p \in CodedWords
        PROVE  decoded # <<>> /\ \E k \in DOMAIN ps : ps[k].canonical = Dictionary[p]
    <3>1. p \in DOMAIN Dictionary /\ PlainTerm(p) /\ p \in SubSeqs(Seen(PlainText(raw)))
      BY <2>2, <2>6 DEF CodedWords, Hits
    <3>2. decoded # <<>>
      BY <2>2, <3>1, CodedWordsAreFound
    <3>3. Lists(FoundProducts(raw, aids, prices, quantities), Dictionary[p])
      BY <3>1, CodedWordsAreFound
    <3> QED
      BY <2>2, <3>2, <3>3 DEF Lists
  <2>7. text \in Seq(AnalysedWords)
    BY <2>2, AnalysedText
  <2>8. /\ ms \in Seq(Readings(text))
        /\ \A j, k \in 1 .. Len(ms) : j # k => ~Overlap(ms[j], ms[k])
    <3> HIDE DEF text
    <3> QED
      BY <2>7, ExtractIs
  <2> HIDE DEF o, ps, decoded, ms
  <2>9. ASSUME o.kept
        PROVE  SameAsPlain(o) /\ ProductsFound(o) /\ ContactsKept(o) /\ MentionsDisjoint(o)
    <3>2. SameAsPlain(o) /\ ContactsKept(o)
      BY <2>9 DEF o
    <3>3. ProductsFound(o)
      <4>1. \A w \in ToSet(PlainPost.raw) \cap Drugs :
               \E k \in DOMAIN o.products : Contains(o.products[k].canonical, w)
        BY <2>2, <2>4, <2>5, <2>9
      <4>2. \A p \in CodedWords :
               \E k \in DOMAIN o.products : o.products[k].canonical = Dictionary[p]
        BY <2>2, <2>4, <2>6, <2>9
      <4> QED
        BY <4>1, <4>2 DEF ProductsFound
    <3>4. MentionsDisjoint(o)
      <4>1. DOMAIN ms = 1 .. Len(ms) /\ o.mentions = ms
        BY <2>4, <2>8, <2>9
      <4> QED
        BY <2>8, <4>1 DEF MentionsDisjoint
    <3> QED
      BY <3>2, <3>3, <3>4
  <2>10. ASSUME ~o.kept PROVE DroppedRightly
    <3>1. CASE Sanitize(raw).dropped
      BY <2>2, <3>1 DEF DroppedRightly
    <3>2. CASE ~Sanitize(raw).dropped
      <4>1. ps = <<>> /\ decoded = <<>>
        BY <2>4, <2>10, <3>2
      <4>2. ToSet(PlainPost.raw) \cap Drugs = {}
        BY <2>2, <2>5, <4>1
      <4>3. CodedWords = {}
        BY <2>6, <4>1
      <4>4. ToSet(post.raw) \cap Addresses = {}
        BY <2>2, <2>10, <3>2 DEF o
      <4> QED
        BY <4>2, <4>3, <4>4 DEF DroppedRightly
    <3> QED
      BY <3>1, <3>2
  <2> QED
    BY <2>9, <2>10 DEF o
<1>2. AnalysisSpec => []AnalysisInv
  BY AnalysisInvariant
<1>3. AnalysisSpec => []Alike
  BY DisguisesChangeNothing
<1>4. AnalysisSpec => []Owed
  BY ContactsAreKept
<1> HIDE DEF Alike, Owed
<1> QED
  BY <1>1, <1>2, <1>3, <1>4, PTL
=============================================================================
