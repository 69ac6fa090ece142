------------------------------ MODULE Sessions ------------------------------
(***************************************************************************)
(* Login sessions and WebSocket tickets (api/security.py, routes/auth.py). *)
(* Each API process keeps them in its memory and copies them to Redis; a   *)
(* call of Redis that fails is swallowed, and a process that cannot reach  *)
(* Redis when it first needs it never tries again.                         *)
(***************************************************************************)
EXTENDS Integers, FiniteSets

CONSTANTS
    Servers,     \* the API processes over one Redis
    SessionKeys, \* the sessions that may be minted
    Tickets,     \* the tickets that may be minted
    MaxFaults,   \* bound: failed calls of Redis
    MaxRestarts  \* bound: restarts of an API process

\* Sessions and tickets are kept apart: in memory in two dictionaries, in Redis
\* under two prefixes.
ASSUME SessionConstantsOK ==
    /\ SessionKeys \cap Tickets = {}
    /\ MaxFaults \in Nat /\ MaxRestarts \in Nat

VARIABLES
    session,   \* history: what became of each session
    source,    \* what it was minted from: a configured token, or a session
    held,      \* the sessions in each process's memory
    shared,    \* the sessions in Redis
    ticketsIn, \* the tickets in each process's memory
    ticketsShared, \* the tickets in Redis
    lapsed,    \* the sessions and tickets whose time is over
    uses,      \* history: how often each ticket was honoured
    link,      \* each process's client of Redis: not made, made, or given up
    clean,     \* history: sessions and tickets minted with every client in
               \* order, and no call of Redis failed since
    knows,     \* the processes whose configuration lists the login token
    tainted,   \* the processes with a configured token, any, that has expired
    faults,
    restarts

sessionVars == <<session, source, held, shared, ticketsIn, ticketsShared, lapsed,
                 uses, link, clean, knows, tainted, faults, restarts>>
settled == <<link, clean, knows, tainted, faults, restarts>>
ticketVars == <<ticketsIn, ticketsShared, uses>>

SessionInit ==
    /\ session = [k \in SessionKeys |-> "none"]
    /\ source = [k \in SessionKeys |-> "token"]
    /\ held = [n \in Servers |-> {}] /\ shared = {}
    /\ ticketsIn = [n \in Servers |-> {}] /\ ticketsShared = {}
    /\ lapsed = {} /\ uses = [t \in Tickets |-> 0]
    /\ link = [n \in Servers |-> "new"] /\ clean = {} /\ knows = Servers /\ tainted = {}
    /\ faults = 0 /\ restarts = 0

\* How the calls a request of server n makes to Redis end: served, failed and
\* swallowed, or never made once the ping of a first use failed (_client).
Calls(n) ==
    IF link[n] = "off" THEN {"off"}
    ELSE {"served"} \cup (IF faults = MaxFaults THEN {}
                          ELSE {IF link[n] = "new" THEN "ping" ELSE "failed"})
Called(n, call, minted) ==
    /\ link' = [link EXCEPT ![n] = CASE call = "served" -> "up"
                                     [] call = "ping"   -> "off"
                                     [] OTHER           -> @]
    /\ faults' = IF call \in {"failed", "ping"} THEN faults + 1 ELSE faults
    /\ clean' = IF call \in {"failed", "ping"} THEN {}
                ELSE IF \E m \in Servers : link[m] = "off" THEN clean
                ELSE clean \cup minted
    /\ UNCHANGED <<knows, tainted, restarts>>
Shared(call, store, changed) == IF call = "served" THEN changed ELSE store

-----------------------------------------------------------------------------
(* Sessions *)

\* _shared_session, then principal_from_session: the item the answer rests on
\* is found and is what the configuration says.  _configured_principals raises
\* when any token of the configuration has expired, so a tainted process refuses
\* every session it finds.
Finds(n, k, call) == IF call = "served" THEN k \in shared ELSE k \in held[n]
Valid(n, k) == k \notin lapsed /\ source[k] = "token" /\ n \in knows
Accepts(n, k, call) == Finds(n, k, call) /\ n \notin tainted /\ Valid(n, k)

\* mint_session sweeps, then writes both stores.
MintInto(n, k, call) ==
    /\ held' = [held EXCEPT ![n] = (@ \ lapsed) \cup {k}]
    /\ shared' = Shared(call, shared, shared \cup {k})
RevokeHere(n, k, call) ==
    /\ held' = [held EXCEPT ![n] = @ \ {k}]
    /\ UNCHANGED shared
\* revoke_session
RevokeFrom(n, k, call) ==
    /\ held' = [held EXCEPT ![n] = @ \ {k}]
    /\ shared' = Shared(call, shared, shared \ {k})

Login(n, k) ==
    \E call \in Calls(n) :
        /\ session[k] = "none" /\ n \in knows
        /\ session' = [session EXCEPT ![k] = "live"]
        /\ source' = [source EXCEPT ![k] = "token"]
        /\ MintInto(n, k, call)
        /\ Called(n, call, {k})
        /\ UNCHANGED <<ticketVars, lapsed>>

\* A request that carries the session: the copy in memory follows Redis, and
\* an item that is no longer valid is deleted from both, unless the check of the
\* configuration raised before.
Authenticate(n, k) ==
    \E call \in Calls(n) :
        /\ session[k] # "none"
        /\ LET found == Finds(n, k, call)  bad == found /\ n \notin tainted /\ ~Valid(n, k)
           IN /\ held' = [held EXCEPT ![n] = IF found /\ ~bad THEN @ \cup {k} ELSE @ \ {k}]
              /\ shared' = Shared(call, shared, IF bad THEN shared \ {k} ELSE shared)
              /\ session' = IF bad THEN [session EXCEPT ![k] = "ended"] ELSE session
        /\ Called(n, call, {})
        /\ UNCHANGED <<source, ticketVars, lapsed>>

\* logout; the request is authenticated first.
Logout(n, k) ==
    \E call \in Calls(n) :
        /\ Accepts(n, k, call)
        /\ RevokeFrom(n, k, call)
        /\ session' = [session EXCEPT ![k] = "ended"]
        /\ Called(n, call, {})
        /\ UNCHANGED <<source, ticketVars, lapsed>>

\* refresh ends the session and mints another whose source is the old session.
Refresh(n, k, new) ==
    \E call \in Calls(n) :
        /\ Accepts(n, k, call) /\ session[new] = "none"
        /\ held' = [held EXCEPT ![n] = ((@ \ {k}) \ lapsed) \cup {new}]
        /\ shared' = Shared(call, shared, (shared \ {k}) \cup {new})
        /\ session' = [session EXCEPT ![k] = "ended", ![new] = "live"]
        /\ source' = [source EXCEPT ![new] = "session"]
        /\ Called(n, call, {new})
        /\ UNCHANGED <<ticketVars, lapsed>>

\* Eight hours pass: Redis drops its copy.
SessionLapses(k) ==
    /\ session[k] = "live" /\ k \notin lapsed
    /\ lapsed' = lapsed \cup {k}
    /\ shared' = shared \ {k}
    /\ session' = [session EXCEPT ![k] = "ended"]
    /\ UNCHANGED <<source, held, ticketVars, settled>>

-----------------------------------------------------------------------------
(* Tickets *)

MintTicket(n, t) ==
    \E call \in Calls(n) :
        /\ n \notin tainted /\ \A m \in Servers : t \notin ticketsIn[m]
        /\ t \notin ticketsShared \cup lapsed /\ uses[t] = 0
        /\ ticketsIn' = [ticketsIn EXCEPT ![n] = (@ \ lapsed) \cup {t}]
        /\ ticketsShared' = Shared(call, ticketsShared, ticketsShared \cup {t})
        /\ Called(n, call, {t})
        /\ UNCHANGED <<session, source, held, shared, lapsed, uses>>

\* consume_ticket: Redis decides with one GETDEL, memory when it cannot.
ConsumeTicket(n, t) ==
    \E call \in Calls(n) :
        LET found == IF call = "served" THEN t \in ticketsShared ELSE t \in ticketsIn[n]
        IN /\ found
           /\ ticketsIn' = [ticketsIn EXCEPT ![n] = @ \ {t}]
           /\ ticketsShared' = Shared(call, ticketsShared, ticketsShared \ {t})
           /\ uses' = IF t \in lapsed THEN uses ELSE [uses EXCEPT ![t] = @ + 1]
           /\ Called(n, call, {})
           /\ UNCHANGED <<session, source, held, shared, lapsed>>

TicketLapses(t) ==
    /\ t \notin lapsed
    /\ t \in ticketsShared \cup UNION {ticketsIn[n] : n \in Servers}
    /\ lapsed' = lapsed \cup {t}
    /\ ticketsShared' = ticketsShared \ {t}
    /\ UNCHANGED <<session, source, held, shared, ticketsIn, uses, settled>>

\* A token of the configuration, the login token or another, reaches expires_at.
TokenExpires(n) ==
    /\ n \notin tainted
    /\ tainted' = tainted \cup {n}
    /\ UNCHANGED <<session, source, held, shared, ticketVars, lapsed, link, clean, knows,
                   faults, restarts>>

\* A process restarts with an empty memory, Redis tried anew, and a configuration
\* that lists the login token or no longer does, and an expired one or none.
Restart(n) ==
    /\ restarts < MaxRestarts
    /\ restarts' = restarts + 1
    /\ held' = [held EXCEPT ![n] = {}]
    /\ ticketsIn' = [ticketsIn EXCEPT ![n] = {}]
    /\ link' = [link EXCEPT ![n] = "new"]
    /\ knows' \in {knows \cup {n}, knows \ {n}}
    /\ tainted' \in {tainted \cup {n}, tainted \ {n}}
    /\ UNCHANGED <<session, source, shared, ticketsShared, lapsed, uses, clean, faults>>

SessionNext ==
    \/ \E n \in Servers :
          \/ \E k \in SessionKeys :
                \/ Login(n, k) \/ Authenticate(n, k) \/ Logout(n, k)
                \/ \E new \in SessionKeys : Refresh(n, k, new)
          \/ \E t \in Tickets : MintTicket(n, t) \/ ConsumeTicket(n, t)
          \/ TokenExpires(n) \/ Restart(n)
    \/ \E k \in SessionKeys : SessionLapses(k)
    \/ \E t \in Tickets : TicketLapses(t)

SessionSpec == SessionInit /\ [][SessionNext]_sessionVars

-----------------------------------------------------------------------------
\* While Redis answers, the processes answer as one, restarts included: a login
\* session is accepted by every process that lists its token from its minting
\* until it is logged out, refreshed or lapses, and by none afterwards; and a
\* ticket is honoured at most once.  A process with an expired token in its
\* configuration accepts none meanwhile, and nothing is lost by it: the session
\* is as good as before once the configuration is mended.  A failed call of Redis
\* can cost a session that was open at the time its agreement, and lets an open
\* ticket be honoured once more, never a third time.  A refreshed session is left
\* out: its source is no configured token, so no process accepts it.
SessionPromise ==
    /\ \A n \in knows \ tainted, k \in SessionKeys \cap clean :
          source[k] = "token" => (Accepts(n, k, "served") <=> session[k] = "live")
    /\ \A t \in Tickets : uses[t] <= IF t \in clean THEN 1 ELSE 2
=============================================================================
