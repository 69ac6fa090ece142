----------------------------- MODULE LiveAlerts -----------------------------
(***************************************************************************)
(* How an alert gets from the processor onto the desk: broadcast_alert and *)
(* the relay over Redis publish/subscribe, the registry of websockets and  *)
(* their handlers (api/routes/alerts.py), and the page that shows them     *)
(* (AlertsPage.tsx with useApi of hooks/index.ts): each frame makes it     *)
(* load the history of alerts again.                                       *)
(*                                                                         *)
(* The history only grows; a response is the number of alerts it lists.    *)
(* The pages belong to one subject and see every alert.  A socket stands   *)
(* for both ends of a connection and is used again once both are gone.     *)
(***************************************************************************)
EXTENDS Naturals, FiniteSets, SequencesExt

CONSTANTS
    Pages,        \* open desks
    Sockets,      \* bound: connections at a time, those half gone included
    MaxSockets,   \* _MAX_SOCKETS_PER_SUBJECT
    MaxAlerts,    \* bound: alerts
    MaxPending,   \* bound: requests of a page under way
    Disturbances, \* the kinds of disturbance a run admits
    MaxDisturbed, \* bound: disturbances in a behaviour
    None

DisturbanceKinds == {"redis", "lost_ack", "relay", "slow", "cut", "http", "ticket", "crash"}
HarmKinds == {"lost_ack", "relay", "slow", "crash"} \* those a property tells apart

ASSUME AlertsOK ==
    /\ MaxSockets \in Nat \ {0} /\ MaxAlerts \in Nat /\ MaxPending \in Nat \ {0}
    /\ Disturbances \subseteq DisturbanceKinds /\ MaxDisturbed \in Nat
    /\ IsFiniteSet(Sockets) /\ None \notin Sockets

VARIABLES
    history,    \* MongoDB: alerts in alerts_history
    api,        \* "up" or "down"
    caster,     \* the processor, in _evaluate_alerts
    relay,      \* the relay task; "off" when there is no _relay_client
    channel,    \* alerts published and not yet taken by the relay
    carried,    \* the alert the caster and the relay are busy with, or 0
    todo, gone, \* the sockets they have still to serve, and those that failed
    registered, \* the keys of _connections
    hand,       \* where the handler of each socket stands
    link,       \* the state of each connection
    got,        \* history: alerts sent down each socket
    doubled,    \* history: an alert was sent down a socket twice
    conn,       \* where the effect of each page stands
    sock,       \* its socket
    inbox,      \* frames a page has not handled yet
    pending,    \* its requests for the history, the oldest first
    newest,     \* the last of them is the one useApi waits for
    shown,      \* alerts on the page
    erred,      \* it shows an error instead
    disturbed,  \* disturbances so far
    harm        \* history: their kinds, of HarmKinds

job     == <<carried, todo, gone>>
server  == <<history, api, caster, relay, channel, job>>
sockets == <<registered, hand, link, got, doubled>>
loading == <<pending, newest, shown, erred>>
pages   == <<conn, sock, inbox, loading>>
trouble == <<disturbed, harm>>
vars    == <<server, sockets, pages, trouble>>

Alerts    == 1..MaxAlerts
Deliverer == {"caster", "relay"}
Sent      == MaxAlerts + 1 \* a request that was not answered yet
Lost      == MaxAlerts + 2 \* one that will not be

TypeOK ==
    /\ history \in 0..MaxAlerts /\ api \in {"up", "down"}
    /\ caster \in {"idle", "cast", "deliver"}
    /\ relay \in {"off", "starting", "listening", "deliver", "dead"}
    /\ channel \in Seq(Alerts)
    /\ carried \in [Deliverer -> 0..MaxAlerts]
    /\ todo \in [Deliverer -> SUBSET Sockets] /\ gone \in [Deliverer -> SUBSET Sockets]
    /\ \A d \in Deliverer : todo[d] # {} => carried[d] # 0
    /\ caster # "idle" => carried["caster"] # 0
    /\ registered \in SUBSET Sockets
    /\ hand \in [Sockets -> {"none", "handshake", "admit", "serve"}]
    /\ link \in [Sockets -> {"opening", "up", "down", "refused"}]
    /\ got \in [Sockets -> SUBSET Alerts] /\ doubled \in BOOLEAN
    /\ conn \in [Pages -> {"closed", "ticket", "opening", "open", "wait", "refused"}]
    /\ sock \in [Pages -> Sockets \cup {None}]
    /\ \A p \in Pages : sock[p] # None <=> conn[p] \in {"opening", "open"}
    /\ inbox \in [Pages -> SUBSET {"alert", "pong"}]
    /\ pending \in [Pages -> Seq(0..Lost)] /\ newest \in [Pages -> BOOLEAN]
    /\ shown \in [Pages -> 0..MaxAlerts] /\ erred \in [Pages -> BOOLEAN]
    /\ disturbed \in Nat /\ harm \in SUBSET HarmKinds

Init ==
    /\ history = 0 /\ api = "up" /\ caster = "idle" /\ relay = "starting"
    /\ channel = <<>> /\ carried = [d \in Deliverer |-> 0]
    /\ todo = [d \in Deliverer |-> {}] /\ gone = [d \in Deliverer |-> {}]
    /\ registered = {} /\ hand = [s \in Sockets |-> "none"]
    /\ link = [s \in Sockets |-> "down"]
    /\ got = [s \in Sockets |-> {}] /\ doubled = FALSE
    /\ conn = [p \in Pages |-> "closed"] /\ sock = [p \in Pages |-> None]
    /\ inbox = [p \in Pages |-> {}]
    /\ pending = [p \in Pages |-> <<>>] /\ newest = [p \in Pages |-> FALSE]
    /\ shown = [p \in Pages |-> 0] /\ erred = [p \in Pages |-> FALSE]
    /\ disturbed = 0 /\ harm = {}

Disturb(kind) ==
    /\ kind \in Disturbances /\ disturbed < MaxDisturbed
    /\ disturbed' = disturbed + 1 /\ harm' = harm \cup ({kind} \cap HarmKinds)
-----------------------------------------------------------------------------
(* The processor and the relay. *)

\* _deliver_local begins: it looks at the connections under the lock.
Deliver(d, a) ==
    /\ carried' = [carried EXCEPT ![d] = a]
    /\ todo' = [todo EXCEPT ![d] = registered] /\ gone' = [gone EXCEPT ![d] = {}]

\* The task is done with its alert.
Done(d) ==
    /\ carried' = [carried EXCEPT ![d] = 0]
    /\ todo' = [todo EXCEPT ![d] = {}] /\ gone' = [gone EXCEPT ![d] = {}]

\* The processor inserts an alert.
Raise ==
    /\ api = "up" /\ caster = "idle" /\ history < MaxAlerts
    /\ history' = history + 1
    /\ caster' = "cast"
    /\ carried' = [carried EXCEPT !["caster"] = history + 1]
    /\ UNCHANGED <<api, relay, channel, todo, gone, sockets, pages, trouble>>

\* The backfill of a watchlist inserts one and tells nobody.
Backfill ==
    /\ api = "up" /\ history < MaxAlerts
    /\ history' = history + 1
    /\ UNCHANGED <<api, caster, relay, channel, job, sockets, pages, trouble>>

\* Redis drops what no subscriber is there for.
Published(a) == channel' = IF relay \in {"listening", "deliver"} THEN Append(channel, a) ELSE channel

\* Mutant of Broadcast: it delivers locally after publishing, too.
BroadcastBoth ==
    /\ caster = "cast"
    /\ caster' = "deliver" /\ Deliver("caster", carried["caster"])
    /\ Published(carried["caster"])
    /\ UNCHANGED <<history, api, relay, sockets, pages, trouble>>

\* broadcast_alert: publish, or deliver locally when there is no client.
Broadcast ==
    /\ caster = "cast"
    /\ IF relay # "off"
       THEN /\ caster' = "idle" /\ Done("caster")
            /\ Published(carried["caster"])
       ELSE /\ caster' = "deliver" /\ Deliver("caster", carried["caster"])
            /\ UNCHANGED channel
    /\ UNCHANGED <<history, api, relay, sockets, pages, trouble>>

\* Mutant of PublishFails: the failure is logged and that is all.
PublishFailsOnly ==
    /\ caster = "cast" /\ relay # "off"
    /\ \/ Disturb("redis") /\ UNCHANGED channel
       \/ Disturb("lost_ack") /\ Published(carried["caster"])
    /\ caster' = "idle" /\ Done("caster")
    /\ UNCHANGED <<history, api, relay, sockets, pages>>

\* publish raises, before or after Redis took the message.
PublishFails ==
    /\ caster = "cast" /\ relay # "off"
    /\ \/ Disturb("redis") /\ UNCHANGED channel
       \/ Disturb("lost_ack") /\ Published(carried["caster"])
    /\ caster' = "deliver" /\ Deliver("caster", carried["caster"])
    /\ UNCHANGED <<history, api, relay, sockets, pages>>

Subscribe ==
    /\ relay = "starting"
    /\ relay' = "listening"
    /\ UNCHANGED <<history, api, caster, channel, job, sockets, pages, trouble>>

\* get_message.
Take ==
    /\ relay = "listening" /\ channel # <<>>
    /\ relay' = "deliver" /\ Deliver("relay", Head(channel))
    /\ channel' = Tail(channel)
    /\ UNCHANGED <<history, api, caster, sockets, pages, trouble>>

\* The subscriber's connection breaks: the client library connects again, or
\* get_message raises and the task is over, while _relay_client stays.
RelayBreaks ==
    /\ relay \in {"starting", "listening"}
    /\ Disturb("relay")
    /\ relay' \in {"starting", "dead"}
    /\ channel' = <<>>
    /\ UNCHANGED <<history, api, caster, job, sockets, pages>>

Arrives(s, frame) ==
    inbox' = [p \in Pages |-> IF sock[p] = s THEN inbox[p] \cup {frame} ELSE inbox[p]]

\* The alert goes down the socket, or send_json raises.
Send(d, s) ==
    /\ s \in todo[d]
    /\ IF link[s] = "up"
       THEN /\ todo' = [todo EXCEPT ![d] = @ \ {s}]
            /\ UNCHANGED gone
            /\ got' = [got EXCEPT ![s] = @ \cup {carried[d]}]
            /\ doubled' = (doubled \/ carried[d] \in got[s])
            /\ Arrives(s, "alert")
       ELSE /\ todo' = [todo EXCEPT ![d] = @ \ {s}] /\ gone' = [gone EXCEPT ![d] = @ \cup {s}]
            /\ UNCHANGED <<got, doubled, inbox>>
    /\ UNCHANGED <<history, api, caster, relay, channel, carried, registered, hand, link>>
    /\ UNCHANGED <<conn, sock, loading, trouble>>

\* The send takes longer than _SEND_TIMEOUT_SECONDS: the socket is given up,
\* whether or not the frame still arrives; its handler does not hear of it.
SendSlow(d, s) ==
    /\ s \in todo[d] /\ link[s] = "up"
    /\ Disturb("slow")
    /\ todo' = [todo EXCEPT ![d] = @ \ {s}] /\ gone' = [gone EXCEPT ![d] = @ \cup {s}]
    /\ Arrives(s, "alert") \/ UNCHANGED inbox
    /\ UNCHANGED <<history, api, caster, relay, channel, carried, sockets, conn, sock, loading>>

\* _deliver_local ends: the sockets that failed are taken off the registry.
Delivered(d) ==
    /\ IF d = "caster"
       THEN caster = "deliver" /\ caster' = "idle" /\ UNCHANGED relay
       ELSE relay = "deliver" /\ relay' = "listening" /\ UNCHANGED caster
    /\ todo[d] = {}
    /\ registered' = registered \ gone[d]
    /\ Done(d)
    /\ UNCHANGED <<history, api, channel, hand, link, got, doubled, pages, trouble>>
-----------------------------------------------------------------------------
(* The handler of a socket, websocket_alerts. *)

\* The ticket is consumed and the socket accepted.
Accept(s) ==
    /\ hand[s] = "handshake"
    /\ hand' = [hand EXCEPT ![s] = "admit"]
    /\ link' = [link EXCEPT ![s] = IF @ = "opening" THEN "up" ELSE @]
    /\ UNCHANGED <<server, registered, got, doubled, pages, trouble>>

\* The ticket has expired, or Redis or the process lost it.  A close before
\* accept refuses the handshake; no close code reaches the page.
Reject(s) ==
    /\ hand[s] = "handshake"
    /\ Disturb("ticket")
    /\ hand' = [hand EXCEPT ![s] = "none"]
    /\ link' = [link EXCEPT ![s] = "down"]
    /\ UNCHANGED <<server, registered, got, doubled, pages>>

\* Under the lock: the socket is registered unless the subject has enough.
Admit(s) ==
    /\ hand[s] = "admit"
    /\ IF Cardinality(registered) < MaxSockets
       THEN /\ hand' = [hand EXCEPT ![s] = "serve"]
            /\ registered' = registered \cup {s}
            /\ UNCHANGED link
       ELSE /\ hand' = [hand EXCEPT ![s] = "none"]
            /\ link' = [link EXCEPT ![s] = IF @ = "up" THEN "refused" ELSE @]
            /\ UNCHANGED registered
    /\ UNCHANGED <<server, got, doubled, pages, trouble>>

\* The page's ping is answered, or the handler pings a page that is silent.
KeepAlive(s) ==
    /\ hand[s] = "serve" /\ link[s] = "up"
    /\ \E p \in Pages : sock[p] = s /\ conn[p] = "open" /\ "pong" \notin inbox[p]
    /\ Arrives(s, "pong")
    /\ UNCHANGED <<server, sockets, conn, sock, loading, trouble>>

\* Mutant of Leave: the registry is left to the next delivery.
LeaveRegistered(s) ==
    /\ hand[s] = "serve" /\ link[s] # "up"
    /\ hand' = [hand EXCEPT ![s] = "none"]
    /\ got' = [got EXCEPT ![s] = {}]
    /\ UNCHANGED <<server, registered, link, doubled, pages, trouble>>

\* The handler finds its connection closed, or closed it itself.
Leave(s) ==
    /\ hand[s] = "serve" /\ link[s] # "up"
    /\ hand' = [hand EXCEPT ![s] = "none"]
    /\ registered' = registered \ {s}
    /\ got' = [got EXCEPT ![s] = {}]
    /\ UNCHANGED <<server, link, doubled, pages, trouble>>

\* The network fails, or the handler closes: two idle periods without a frame,
\* or a pong it could not send.
Cut(s) ==
    /\ link[s] \in {"opening", "up"}
    /\ Disturb("cut")
    /\ link' = [link EXCEPT ![s] = "down"]
    /\ UNCHANGED <<server, registered, hand, got, doubled, pages>>
-----------------------------------------------------------------------------
(* The history on the page, useApi. *)

\* reload: a request goes out, and what is under way is superseded.
Reload(p) ==
    /\ Len(pending[p]) < MaxPending
    /\ pending' = [pending EXCEPT ![p] = Append(@, Sent)]
    /\ newest' = [newest EXCEPT ![p] = TRUE]
    /\ erred' = [erred EXCEPT ![p] = FALSE]
    /\ UNCHANGED shown

Respond(p, i) ==
    /\ api = "up"
    /\ i \in DOMAIN pending[p] /\ pending[p][i] = Sent
    /\ pending' = [pending EXCEPT ![p][i] = history]
    /\ UNCHANGED <<server, sockets, conn, sock, inbox, newest, shown, erred, trouble>>

\* The request useApi waits for: those before it are superseded.
Current(p, i) == newest[p] /\ i = Len(pending[p])

\* Mutant of Arrive: the number of the request is not compared.
ArriveAny(p, i) ==
    /\ i \in DOMAIN pending[p] /\ pending[p][i] <= MaxAlerts
    /\ pending' = [pending EXCEPT ![p] = RemoveAt(@, i)]
    /\ shown' = [shown EXCEPT ![p] = pending[p][i]]
    /\ newest' = [newest EXCEPT ![p] = @ /\ ~Current(p, i)]
    /\ UNCHANGED <<server, sockets, conn, sock, inbox, erred, trouble>>

\* A response arrives; it counts if nothing was requested after it.
Arrive(p, i) ==
    /\ i \in DOMAIN pending[p] /\ pending[p][i] <= MaxAlerts
    /\ pending' = [pending EXCEPT ![p] = RemoveAt(@, i)]
    /\ shown' = [shown EXCEPT ![p] = IF Current(p, i) THEN pending[p][i] ELSE @]
    /\ newest' = [newest EXCEPT ![p] = @ /\ ~Current(p, i)]
    /\ UNCHANGED <<server, sockets, conn, sock, inbox, erred, trouble>>

Unanswerable(p, i) == api = "down" \/ pending[p][i] = Lost

RequestFails(p, i) ==
    /\ i \in DOMAIN pending[p] /\ pending[p][i] \in {Sent, Lost}
    /\ IF Unanswerable(p, i) THEN UNCHANGED trouble ELSE Disturb("http")
    /\ pending' = [pending EXCEPT ![p] = RemoveAt(@, i)]
    /\ erred' = [erred EXCEPT ![p] = @ \/ Current(p, i)]
    /\ newest' = [newest EXCEPT ![p] = @ /\ ~Current(p, i)]
    /\ UNCHANGED <<server, sockets, conn, sock, inbox, shown>>

\* The analyst asks for the history again, or acknowledges an alert.
UserReload(p) ==
    /\ conn[p] # "closed"
    /\ Reload(p)
    /\ UNCHANGED <<server, sockets, conn, sock, inbox, trouble>>
-----------------------------------------------------------------------------
(* The connection of the page, the effect of AlertsPage. *)

Mount(p) ==
    /\ conn[p] = "closed"
    /\ conn' = [conn EXCEPT ![p] = "ticket"]
    /\ Reload(p)
    /\ UNCHANGED <<server, sockets, sock, inbox, trouble>>

Free(s) ==
    /\ hand[s] = "none" /\ \A p \in Pages : sock[p] # s
    /\ \A d \in Deliverer : s \notin todo[d] \cup gone[d]

\* The ticket has arrived; the page opens a socket with it.
Open(p) ==
    /\ conn[p] = "ticket" /\ api = "up"
    /\ conn' = [conn EXCEPT ![p] = "opening"]
    /\ \E s \in Sockets :
          /\ Free(s)
          /\ sock' = [sock EXCEPT ![p] = s]
          /\ hand' = [hand EXCEPT ![s] = "handshake"]
          /\ link' = [link EXCEPT ![s] = "opening"]
    /\ UNCHANGED <<server, registered, got, doubled, inbox, loading, trouble>>

NoTicket(p) ==
    /\ conn[p] = "ticket"
    /\ IF api = "up" THEN Disturb("http") ELSE UNCHANGED trouble
    /\ conn' = [conn EXCEPT ![p] = "wait"]
    /\ UNCHANGED <<server, sockets, sock, inbox, loading>>

OnOpen(p) ==
    /\ conn[p] = "opening" /\ link[sock[p]] \in {"up", "refused"}
    /\ conn' = [conn EXCEPT ![p] = "open"]
    /\ UNCHANGED <<server, sockets, sock, inbox, loading, trouble>>

\* Mutant of OnMessage: a pong is not taken for news.
OnMessageAlert(p) ==
    /\ conn[p] = "open" /\ inbox[p] # {}
    /\ \E frame \in inbox[p] :
          /\ inbox' = [inbox EXCEPT ![p] = @ \ {frame}]
          /\ IF frame = "alert" THEN Reload(p) ELSE UNCHANGED loading
    /\ UNCHANGED <<server, sockets, conn, sock, trouble>>

\* Any frame, also a pong, makes the page load the history.
OnMessage(p) ==
    /\ conn[p] = "open"
    /\ \E frame \in inbox[p] : inbox' = [inbox EXCEPT ![p] = @ \ {frame}]
    /\ Reload(p)
    /\ UNCHANGED <<server, sockets, conn, sock, trouble>>

\* Mutant of OnClose: the closed socket stays the page's.
OnCloseKeeping(p) ==
    /\ conn[p] \in {"opening", "open"} /\ link[sock[p]] \in {"down", "refused"}
    /\ conn' = [conn EXCEPT ![p] = IF link[sock[p]] = "refused" THEN "refused" ELSE "wait"]
    /\ inbox' = [inbox EXCEPT ![p] = {}]
    /\ UNCHANGED <<server, sockets, sock, loading, trouble>>

\* Mutant of OnClose: the callback is set in onopen.
OnCloseLate(p) ==
    /\ conn[p] = "open" /\ link[sock[p]] \in {"down", "refused"}
    /\ conn' = [conn EXCEPT ![p] = IF link[sock[p]] = "refused" THEN "refused" ELSE "wait"]
    /\ link' = [link EXCEPT ![sock[p]] = "down"]
    /\ sock' = [sock EXCEPT ![p] = None] /\ inbox' = [inbox EXCEPT ![p] = {}]
    /\ UNCHANGED <<server, registered, hand, got, doubled, loading, trouble>>

\* onclose: code 1008 is final, anything else is tried again.
OnClose(p) ==
    /\ conn[p] \in {"opening", "open"} /\ link[sock[p]] \in {"down", "refused"}
    /\ conn' = [conn EXCEPT ![p] = IF link[sock[p]] = "refused" THEN "refused" ELSE "wait"]
    /\ link' = [link EXCEPT ![sock[p]] = "down"]
    /\ sock' = [sock EXCEPT ![p] = None] /\ inbox' = [inbox EXCEPT ![p] = {}]
    /\ UNCHANGED <<server, registered, hand, got, doubled, loading, trouble>>

Retry(p) ==
    /\ conn[p] = "wait"
    /\ conn' = [conn EXCEPT ![p] = "ticket"]
    /\ UNCHANGED <<server, sockets, sock, inbox, loading, trouble>>

\* The analyst leaves the page: its socket closes, and what arrives for it has
\* no effect any more.
Unmount(p) ==
    /\ conn[p] # "closed"
    /\ conn' = [conn EXCEPT ![p] = "closed"]
    /\ sock' = [sock EXCEPT ![p] = None] /\ inbox' = [inbox EXCEPT ![p] = {}]
    /\ link' = [s \in Sockets |-> IF s = sock[p] THEN "down" ELSE link[s]]
    /\ pending' = [pending EXCEPT ![p] = <<>>] /\ newest' = [newest EXCEPT ![p] = FALSE]
    /\ shown' = [shown EXCEPT ![p] = 0] /\ erred' = [erred EXCEPT ![p] = FALSE]
    /\ UNCHANGED <<server, registered, hand, got, doubled, trouble>>
-----------------------------------------------------------------------------
(* The API process ends and is started again. *)

\* What is under way fails: sockets, requests, a broadcast.
Crash ==
    /\ api = "up"
    /\ Disturb("crash")
    /\ api' = "down" /\ caster' = "idle" /\ relay' = "off" /\ channel' = <<>>
    /\ carried' = [d \in Deliverer |-> 0]
    /\ todo' = [d \in Deliverer |-> {}] /\ gone' = [d \in Deliverer |-> {}]
    /\ registered' = {} /\ hand' = [s \in Sockets |-> "none"]
    /\ link' = [s \in Sockets |-> IF link[s] = "refused" THEN "refused" ELSE "down"]
    /\ got' = [s \in Sockets |-> {}]
    /\ conn' = [p \in Pages |-> IF conn[p] = "ticket" THEN "wait" ELSE conn[p]]
    /\ pending' = [p \in Pages |-> [i \in DOMAIN pending[p] |->
                      IF pending[p][i] = Sent THEN Lost ELSE pending[p][i]]]
    /\ UNCHANGED <<history, doubled, sock, inbox, newest, shown, erred>>

\* start_alert_relay: without Redis there is neither client nor relay.
Restart ==
    /\ api = "down"
    /\ api' = "up"
    /\ \/ relay' = "starting" /\ UNCHANGED trouble
       \/ relay' = "off" /\ Disturb("redis")
    /\ UNCHANGED <<history, caster, channel, job, sockets, pages>>
-----------------------------------------------------------------------------
ServerStep ==
    \/ Broadcast \/ Subscribe \/ Take \/ Restart
    \/ \E d \in Deliverer : Delivered(d) \/ \E s \in Sockets : Send(d, s)

HandlerStep(s) == Accept(s) \/ Admit(s) \/ Leave(s)

PageStep(p) == Open(p) \/ OnOpen(p) \/ OnClose(p) \/ Retry(p) \/ (api = "down" /\ NoTicket(p))

RequestStep(p, i) ==
    \/ Respond(p, i) \/ Arrive(p, i)
    \/ (i \in DOMAIN pending[p] /\ Unanswerable(p, i) /\ RequestFails(p, i))

Next ==
    \/ ServerStep \/ Raise \/ Backfill \/ PublishFails \/ RelayBreaks \/ Crash
    \/ \E d \in Deliverer, s \in Sockets : SendSlow(d, s)
    \/ \E s \in Sockets : HandlerStep(s) \/ Reject(s) \/ KeepAlive(s) \/ Cut(s)
    \/ \E p \in Pages :
          \/ PageStep(p) \/ OnMessage(p) \/ NoTicket(p)
          \/ UserReload(p) \/ Mount(p) \/ Unmount(p)
          \/ \E i \in 1..MaxPending : RequestStep(p, i) \/ RequestFails(p, i)

Spec == Init /\ [][Next]_vars

\* Tasks of the event loop go on, the process is started again (restart:
\* unless-stopped), handlers and pages hear of what happens to their sockets, a
\* socket that is served gets a frame now and then.  A request is answered
\* within the 25 s between two pings, so it is not superseded for ever.  The
\* analysts and the disturbances are free.
FairSpec ==
    /\ Spec
    /\ WF_vars(ServerStep)
    /\ \A s \in Sockets : WF_vars(HandlerStep(s)) /\ WF_vars(KeepAlive(s))
    /\ \A p \in Pages :
          /\ WF_vars(PageStep(p)) /\ WF_vars(OnMessage(p))
          /\ \A i \in 1..MaxPending : WF_vars(RequestStep(p, i))
          /\ SF_vars(\E i \in 1..MaxPending : Current(p, i) /\ Respond(p, i))
          /\ SF_vars(\E i \in 1..MaxPending : Current(p, i) /\ Arrive(p, i))
-----------------------------------------------------------------------------
\* The registry holds no socket whose handler is gone and no more than the
\* subject may have; only a slow send leaves a handler with an open socket
\* outside of it (_deliver_local and the finally of websocket_alerts).
RegistryMatchesHandlers ==
    /\ \A s \in registered : hand[s] = "serve"
    /\ Cardinality(registered) <= MaxSockets
    /\ \A s \in Sockets :
          hand[s] = "serve" /\ link[s] = "up" /\ s \notin registered => "slow" \in harm

\* No socket gets an alert twice, though two tasks deliver, unless publish
\* raised after Redis had taken the message.
DeliveredOnce == doubled => "lost_ack" \in harm

\* A page never goes back to an older list: responses may overtake each other,
\* useApi drops those that were superseded.
NeverStepsBack ==
    [][\A p \in Pages : conn'[p] # "closed" => shown'[p] >= shown[p]]_vars

\* An alert reaches each socket registered when it is broadcast, by way of the
\* relay or, when Redis fails the processor, directly; only a broken relay, a
\* slow send, a lost connection or a crash keeps it back.
BroadcastIsReceived ==
    \A s \in Sockets, a \in Alerts :
        /\ caster = "cast" /\ carried["caster"] = a
        /\ s \in registered /\ relay \notin {"starting", "dead"}
        ~> a \in got[s] \/ link[s] # "up" \/ harm \cap {"relay", "slow", "crash"} # {}

\* A page that stays connected lists every alert in the end, also one raised
\* before its socket was registered, one of a backfill, and one the relay or a
\* slow send lost: the frames that keep the socket alive make it reload.
ConnectedCatchesUp ==
    \A p \in Pages, a \in Alerts :
        conn[p] = "open" /\ history >= a
        ~> conn[p] # "open" \/ (shown[p] >= a /\ ~erred[p])

\* A page in use is connected again in the end, or was refused for good.
Reconnects ==
    \A p \in Pages :
        conn[p] \in {"wait", "ticket", "opening"} ~> conn[p] \in {"open", "refused", "closed"}
=============================================================================
