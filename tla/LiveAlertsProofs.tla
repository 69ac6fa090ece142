-------------------------- MODULE LiveAlertsProofs --------------------------
(***************************************************************************)
(* Proofs about LiveAlerts, for any number of pages, sockets, alerts,      *)
(* requests and disturbances.                                              *)
(***************************************************************************)
EXTENDS LiveAlerts, SequenceTheorems, FiniteSetTheorems, TLAPS

LEMMA RemoveAtType ==
    ASSUME NEW S, NEW q \in Seq(S), NEW i \in 1..Len(q)
    PROVE  /\ RemoveAt(q, i) \in Seq(S)
           /\ Len(RemoveAt(q, i)) = Len(q) - 1
           /\ \A j \in 1..(Len(q) - 1) :
                 RemoveAt(q, i)[j] = IF j < i THEN q[j] ELSE q[j + 1]
<1> DEFINE l == SubSeq(q, 1, i - 1)
           r == SubSeq(q, i + 1, Len(q))
<1>0. /\ Len(q) \in Nat /\ i \in Nat /\ i - 1 \in Int /\ i + 1 \in Int
      /\ \A j \in 1..Len(q) : q[j] \in S
  BY ElementOfSeq
<1>1. /\ l \in Seq(S) /\ Len(l) = i - 1
      /\ \A j \in 1..(i - 1) : l[j] = q[j]
  BY <1>0, SubSeqProperties
<1>2. /\ r \in Seq(S) /\ Len(r) = Len(q) - i
      /\ \A j \in 1..(Len(q) - i) : r[j] = q[i + j]
  <2>1. /\ r \in Seq(S)
        /\ Len(r) = IF i + 1 <= Len(q) THEN Len(q) - (i + 1) + 1 ELSE 0
        /\ \A j \in 1..(Len(q) - (i + 1) + 1) : r[j] = q[(i + 1) + j - 1]
    BY <1>0, SubSeqProperties
  <2> QED
    BY <1>0, <2>1
<1>3. /\ l \o r \in Seq(S) /\ Len(l \o r) = Len(l) + Len(r)
      /\ \A j \in 1..(Len(l) + Len(r)) :
            (l \o r)[j] = IF j <= Len(l) THEN l[j] ELSE r[j - Len(l)]
  BY <1>1, <1>2, ConcatProperties
<1>4. RemoveAt(q, i) = l \o r
  BY DEF RemoveAt
<1> HIDE DEF l, r
<1>5. ASSUME NEW j \in 1..(Len(q) - 1)
      PROVE  (l \o r)[j] = IF j < i THEN q[j] ELSE q[j + 1]
  <2>1. CASE j < i
    BY <1>0, <1>1, <1>2, <1>3, <2>1
  <2>2. CASE ~(j < i)
    <3>1. (l \o r)[j] = r[j - (i - 1)]
      BY <1>0, <1>1, <1>2, <1>3, <2>2
    <3>2. j - (i - 1) \in 1..(Len(q) - i) /\ i + (j - (i - 1)) = j + 1
      BY <1>0, <2>2
    <3> QED
      BY <1>2, <2>2, <3>1, <3>2
  <2> QED
    BY <2>1, <2>2
<1>6. Len(l) + Len(r) = Len(q) - 1
  BY <1>0, <1>1, <1>2
<1>7. RemoveAt(q, i) \in Seq(S) /\ Len(RemoveAt(q, i)) = Len(q) - 1
  BY <1>3, <1>4, <1>6
<1> QED
  BY <1>4, <1>5, <1>7

LEMMA DisturbType ==
    ASSUME TypeOK, NEW kind, Disturb(kind)
    PROVE  disturbed' \in Nat /\ harm' \in SUBSET HarmKinds /\ harm \subseteq harm'
BY AlertsOK DEF TypeOK, Disturb

LEMMA DeliverType ==
    ASSUME TypeOK, NEW d \in Deliverer, NEW a \in Alerts, Deliver(d, a)
    PROVE  /\ carried' \in [Deliverer -> 0..MaxAlerts] /\ carried'[d] = a /\ a # 0
           /\ todo' \in [Deliverer -> SUBSET Sockets] /\ todo'[d] = registered
           /\ gone' \in [Deliverer -> SUBSET Sockets] /\ gone'[d] = {}
           /\ \A e \in Deliverer \ {d} :
                 carried'[e] = carried[e] /\ todo'[e] = todo[e] /\ gone'[e] = gone[e]
BY AlertsOK DEF TypeOK, Deliver, Alerts

LEMMA DoneType ==
    ASSUME TypeOK, NEW d \in Deliverer, Done(d)
    PROVE  /\ carried' \in [Deliverer -> 0..MaxAlerts] /\ carried'[d] = 0
           /\ todo' \in [Deliverer -> SUBSET Sockets] /\ todo'[d] = {}
           /\ gone' \in [Deliverer -> SUBSET Sockets] /\ gone'[d] = {}
           /\ \A e \in Deliverer \ {d} :
                 carried'[e] = carried[e] /\ todo'[e] = todo[e] /\ gone'[e] = gone[e]
BY AlertsOK DEF TypeOK, Done

LEMMA PublishedType ==
    ASSUME TypeOK, NEW a \in Alerts, Published(a)
    PROVE  channel' \in Seq(Alerts)
BY AppendProperties DEF TypeOK, Published

LEMMA ArrivesType ==
    ASSUME TypeOK, NEW s \in Sockets, NEW frame \in {"alert", "pong"}, Arrives(s, frame)
    PROVE  inbox' \in [Pages -> SUBSET {"alert", "pong"}]
BY DEF TypeOK, Arrives

LEMMA TypeServer ==
    ASSUME TypeOK,
           Raise \/ Backfill \/ Broadcast \/ PublishFails \/ Subscribe \/ Take \/ RelayBreaks
    PROVE  TypeOK'
<1> USE DEF server, job, sockets, loading, pages, trouble
<1>0. "caster" \in Deliverer /\ "relay" \in Deliverer
  BY DEF Deliverer
<1>1. CASE Raise
  <2>1. history + 1 \in Alerts /\ history' \in 0..MaxAlerts
    BY <1>1, AlertsOK DEF TypeOK, Raise, Alerts
  <2> QED
    BY <1>0, <1>1, <2>1, AlertsOK DEF TypeOK, Raise, Alerts
<1>2. CASE Backfill
  BY <1>2, AlertsOK DEF TypeOK, Backfill
<1>3. CASE Broadcast
  <2>1. carried["caster"] \in Alerts
    BY <1>0, <1>3, AlertsOK DEF TypeOK, Broadcast, Alerts
  <2>2. CASE relay # "off"
    <3>1. channel' \in Seq(Alerts)
      BY <1>3, <2>1, <2>2, PublishedType DEF Broadcast
    <3> QED
      BY <1>0, <1>3, <2>2, <3>1, DoneType DEF TypeOK, Broadcast, Deliverer
  <2>3. CASE relay = "off"
    BY <1>0, <1>3, <2>1, <2>3, DeliverType DEF TypeOK, Broadcast, Deliverer
  <2> QED
    BY <2>2, <2>3
<1>4. CASE PublishFails
  <2>1. carried["caster"] \in Alerts
    BY <1>0, <1>4, AlertsOK DEF TypeOK, PublishFails, Alerts
  <2>2. channel' \in Seq(Alerts)
    BY <1>4, <2>1, PublishedType DEF TypeOK, PublishFails
  <2>3. disturbed' \in Nat /\ harm' \in SUBSET HarmKinds
    BY <1>4, DisturbType DEF PublishFails
  <2> QED
    BY <1>0, <1>4, <2>1, <2>2, <2>3, DeliverType DEF TypeOK, PublishFails, Deliverer
<1>5. CASE Subscribe
  BY <1>5 DEF TypeOK, Subscribe
<1>6. CASE Take
  <2>1. channel # <<>> /\ Head(channel) \in Alerts /\ Tail(channel) \in Seq(Alerts)
    BY <1>6, HeadTailProperties DEF TypeOK, Take
  <2> QED
    BY <1>0, <1>6, <2>1, DeliverType DEF TypeOK, Take, Deliverer
<1>7. CASE RelayBreaks
  BY <1>7, DisturbType DEF TypeOK, RelayBreaks
<1> QED
  BY <1>1, <1>2, <1>3, <1>4, <1>5, <1>6, <1>7

LEMMA TypeDelivery ==
    ASSUME TypeOK, NEW d \in Deliverer,
           Delivered(d) \/ \E s \in Sockets : Send(d, s) \/ SendSlow(d, s)
    PROVE  TypeOK'
<1> USE DEF server, job, sockets, loading, pages, trouble
<1>1. ASSUME NEW s \in Sockets, Send(d, s)
      PROVE  TypeOK'
  <2>0. carried[d] \in Alerts
    BY <1>1, AlertsOK DEF TypeOK, Send, Alerts
  <2>1. inbox' \in [Pages -> SUBSET {"alert", "pong"}]
    BY <1>1, ArrivesType DEF TypeOK, Send
  <2>2. todo' = [todo EXCEPT ![d] = @ \ {s}]
        /\ (gone' = gone \/ gone' = [gone EXCEPT ![d] = @ \cup {s}])
    <3>1. CASE link[s] = "up"
      BY <1>1, <3>1 DEF Send
    <3>2. CASE link[s] # "up"
      BY <1>1, <3>2 DEF Send
    <3> QED
      BY <3>1, <3>2
  <2>3. gone' \in [Deliverer -> SUBSET Sockets]
    <3>1. gone \in [Deliverer -> SUBSET Sockets] /\ gone[d] \cup {s} \in SUBSET Sockets
      BY DEF TypeOK
    <3> QED
      BY <2>2, <3>1
  <2>4. todo' \in [Deliverer -> SUBSET Sockets]
        /\ \A e \in Deliverer : todo'[e] # {} => todo[e] # {}
    BY <2>2 DEF TypeOK
  <2>5. got' \in [Sockets -> SUBSET Alerts]
    <3>1. got' = [got EXCEPT ![s] = @ \cup {carried[d]}] \/ got' = got
      BY <1>1 DEF Send
    <3>2. got \in [Sockets -> SUBSET Alerts] /\ got[s] \cup {carried[d]} \in SUBSET Alerts
      BY <2>0 DEF TypeOK
    <3> QED
      BY <3>1, <3>2
  <2>6. doubled' \in BOOLEAN
    BY <1>1, Zenon DEF TypeOK, Send
  <2>7. UNCHANGED <<history, api, caster, relay, channel, carried, registered, hand, link,
                    conn, sock, pending, newest, shown, erred, disturbed, harm>>
    BY <1>1 DEF Send
  <2> QED
    BY <2>1, <2>3, <2>4, <2>5, <2>6, <2>7 DEF TypeOK
<1>2. ASSUME NEW s \in Sockets, SendSlow(d, s)
      PROVE  TypeOK'
  <2>1. inbox' \in [Pages -> SUBSET {"alert", "pong"}]
    BY <1>2, ArrivesType DEF TypeOK, SendSlow
  <2>2. disturbed' \in Nat /\ harm' \in SUBSET HarmKinds
    BY <1>2, DisturbType DEF SendSlow
  <2> QED
    BY <1>2, <2>1, <2>2 DEF TypeOK, SendSlow
<1>3. CASE Delivered(d)
  <2>1. CASE d = "caster"
    BY <1>3, <2>1, DoneType DEF TypeOK, Delivered, Deliverer
  <2>2. CASE d # "caster"
    BY <1>3, <2>2, DoneType DEF TypeOK, Delivered, Deliverer
  <2> QED
    BY <2>1, <2>2
<1> QED
  BY <1>1, <1>2, <1>3

LEMMA TypeHandler ==
    ASSUME TypeOK, NEW s \in Sockets, HandlerStep(s) \/ Reject(s) \/ KeepAlive(s) \/ Cut(s)
    PROVE  TypeOK'
<1> USE DEF server, job, sockets, loading, pages, trouble
<1>1. CASE Accept(s)
  BY <1>1 DEF TypeOK, Accept
<1>2. CASE Reject(s)
  BY <1>2, DisturbType DEF TypeOK, Reject
<1>3. CASE Admit(s)
  <2>1. /\ registered' \in SUBSET Sockets
        /\ hand' \in [Sockets -> {"none", "handshake", "admit", "serve"}]
        /\ link' \in [Sockets -> {"opening", "up", "down", "refused"}]
    <3>1. CASE Cardinality(registered) < MaxSockets
      <4>1. registered' = registered \cup {s} /\ UNCHANGED link
            /\ hand' = [hand EXCEPT ![s] = "serve"]
        BY <1>3, <3>1, Zenon DEF Admit
      <4> QED
        BY <4>1 DEF TypeOK
    <3>2. CASE ~(Cardinality(registered) < MaxSockets)
      <4>1. UNCHANGED registered /\ hand' = [hand EXCEPT ![s] = "none"]
            /\ link' = [link EXCEPT ![s] = IF @ = "up" THEN "refused" ELSE @]
        BY <1>3, <3>2, Zenon DEF Admit
      <4> QED
        BY <4>1 DEF TypeOK
    <3> QED
      BY <3>1, <3>2
  <2>2. UNCHANGED <<server, got, doubled, pages, trouble>>
    BY <1>3 DEF Admit
  <2> QED
    BY <2>1, <2>2 DEF TypeOK
<1>4. CASE KeepAlive(s)
  BY <1>4, ArrivesType DEF TypeOK, KeepAlive
<1>5. CASE Leave(s)
  BY <1>5 DEF TypeOK, Leave
<1>6. CASE Cut(s)
  BY <1>6, DisturbType DEF TypeOK, Cut
<1> QED
  BY <1>1, <1>2, <1>3, <1>4, <1>5, <1>6 DEF HandlerStep

LEMMA ReloadType ==
    ASSUME TypeOK, NEW p \in Pages, Reload(p)
    PROVE  /\ pending' \in [Pages -> Seq(0..Lost)] /\ newest' \in [Pages -> BOOLEAN]
           /\ shown' \in [Pages -> 0..MaxAlerts] /\ erred' \in [Pages -> BOOLEAN]
<1>1. Append(pending[p], Sent) \in Seq(0..Lost)
  BY AlertsOK, AppendProperties DEF TypeOK, Sent, Lost
<1> QED
  BY <1>1 DEF TypeOK, Reload

LEMMA TypePage ==
    ASSUME TypeOK, NEW p \in Pages,
           \/ PageStep(p) \/ OnMessage(p) \/ NoTicket(p)
           \/ UserReload(p) \/ Mount(p) \/ Unmount(p)
    PROVE  TypeOK'
<1> USE DEF server, job, sockets, loading, pages, trouble
<1>1. CASE Open(p)
  <2>1. PICK s \in Sockets :
          /\ sock' = [sock EXCEPT ![p] = s]
          /\ hand' = [hand EXCEPT ![s] = "handshake"]
          /\ link' = [link EXCEPT ![s] = "opening"]
    BY <1>1 DEF Open
  <2> QED
    BY <1>1, <2>1, AlertsOK DEF TypeOK, Open
<1>2. CASE OnOpen(p)
  BY <1>2 DEF TypeOK, OnOpen
<1>3. CASE OnClose(p)
  BY <1>3, AlertsOK DEF TypeOK, OnClose
<1>4. CASE Retry(p)
  BY <1>4 DEF TypeOK, Retry
<1>5. CASE NoTicket(p)
  <2>1. disturbed' \in Nat /\ harm' \in SUBSET HarmKinds
    BY <1>5, DisturbType DEF TypeOK, NoTicket
  <2> QED
    BY <1>5, <2>1 DEF TypeOK, NoTicket
<1>6. CASE OnMessage(p)
  <2>1. inbox' \in [Pages -> SUBSET {"alert", "pong"}]
    BY <1>6 DEF TypeOK, OnMessage
  <2>2. Reload(p)
    BY <1>6 DEF OnMessage
  <2> QED
    BY <1>6, <2>1, <2>2, ReloadType DEF TypeOK, OnMessage
<1>7. CASE UserReload(p)
  <2>1. Reload(p)
    BY <1>7 DEF UserReload
  <2> QED
    BY <1>7, <2>1, ReloadType DEF TypeOK, UserReload
<1>8. CASE Mount(p)
  <2>1. Reload(p)
    BY <1>8 DEF Mount
  <2> QED
    BY <1>8, <2>1, ReloadType DEF TypeOK, Mount
<1>9. CASE Unmount(p)
  <2>1. pending' \in [Pages -> Seq(0..Lost)] /\ newest' \in [Pages -> BOOLEAN]
        /\ shown' \in [Pages -> 0..MaxAlerts] /\ erred' \in [Pages -> BOOLEAN]
    BY <1>9, AlertsOK, EmptySeq DEF TypeOK, Unmount
  <2>2. link' \in [Sockets -> {"opening", "up", "down", "refused"}]
    BY <1>9 DEF TypeOK, Unmount
  <2>3. conn' \in [Pages -> {"closed", "ticket", "opening", "open", "wait", "refused"}]
        /\ sock' \in [Pages -> Sockets \cup {None}]
        /\ \A q \in Pages : sock'[q] # None <=> conn'[q] \in {"opening", "open"}
    BY <1>9 DEF TypeOK, Unmount
  <2> QED
    BY <1>9, <2>1, <2>2, <2>3 DEF TypeOK, Unmount
<1> QED
  BY <1>1, <1>2, <1>3, <1>4, <1>5, <1>6, <1>7, <1>8, <1>9 DEF PageStep

LEMMA TypeRequest ==
    ASSUME TypeOK, NEW p \in Pages, NEW i \in 1..MaxPending,
           RequestStep(p, i) \/ RequestFails(p, i)
    PROVE  TypeOK'
<1> USE DEF server, job, sockets, pages, trouble
<1>0. i \in DOMAIN pending[p] => RemoveAt(pending[p], i) \in Seq(0..Lost)
  BY RemoveAtType DEF TypeOK
<1>1. CASE Respond(p, i)
  <2>1. history \in 0..Lost
    BY AlertsOK DEF TypeOK, Lost
  <2>2. [pending[p] EXCEPT ![i] = history] \in Seq(0..Lost)
    BY <1>1, <2>1, ExceptSeq DEF TypeOK, Respond
  <2>3. pending' \in [Pages -> Seq(0..Lost)]
    BY <1>1, <2>2 DEF TypeOK, Respond
  <2> QED
    BY <1>1, <2>3 DEF TypeOK, Respond
<1>2. CASE Arrive(p, i)
  <2>1. pending[p][i] \in 0..MaxAlerts
    BY <1>2, AlertsOK, ElementOfSeq DEF TypeOK, Arrive, Lost
  <2>2. newest' \in [Pages -> BOOLEAN]
    BY <1>2 DEF TypeOK, Arrive
  <2> QED
    BY <1>0, <1>2, <2>1, <2>2 DEF TypeOK, Arrive
<1>3. CASE RequestFails(p, i)
  <2>1. disturbed' \in Nat /\ harm' \in SUBSET HarmKinds
    BY <1>3, DisturbType DEF TypeOK, RequestFails
  <2>2. newest' \in [Pages -> BOOLEAN] /\ erred' \in [Pages -> BOOLEAN]
    BY <1>3 DEF TypeOK, RequestFails
  <2> QED
    BY <1>0, <1>3, <2>1, <2>2 DEF TypeOK, RequestFails
<1> QED
  BY <1>1, <1>2, <1>3 DEF RequestStep

LEMMA CrashType ==
    ASSUME TypeOK, Crash \/ Restart
    PROVE  TypeOK'
<1> USE DEF server, job, sockets, pages, trouble
<1>1. CASE Crash
  <2>1. disturbed' \in Nat /\ harm' \in SUBSET HarmKinds
    BY <1>1, DisturbType DEF Crash
  <2>2. ASSUME NEW p \in Pages
        PROVE  pending'[p] \in Seq(0..Lost)
    <3>1. /\ Len(pending[p]) \in Nat /\ DOMAIN pending[p] = 1..Len(pending[p])
          /\ \A i \in 1..Len(pending[p]) : pending[p][i] \in 0..Lost
      BY ElementOfSeq, LenProperties DEF TypeOK
    <3>2. pending'[p] = [i \in 1..Len(pending[p]) |->
                            IF pending[p][i] = Sent THEN Lost ELSE pending[p][i]]
      BY <1>1, <3>1 DEF Crash
    <3>3. Lost \in 0..Lost
      BY AlertsOK DEF Lost
    <3>4. \A i \in 1..Len(pending[p]) : pending'[p][i] \in 0..Lost
      BY <3>1, <3>2, <3>3
    <3> QED
      BY <3>1, <3>2, <3>4, IsASeq
  <2>3. pending' \in [Pages -> Seq(0..Lost)]
    BY <1>1, <2>2 DEF Crash
  <2>4. channel' \in Seq(Alerts)
    BY <1>1, EmptySeq DEF Crash
  <2>5. carried' \in [Deliverer -> 0..MaxAlerts]
    BY <1>1, AlertsOK DEF Crash
  <2>6. link' \in [Sockets -> {"opening", "up", "down", "refused"}]
    BY <1>1 DEF TypeOK, Crash
  <2>7. /\ conn' \in [Pages -> {"closed", "ticket", "opening", "open", "wait", "refused"}]
        /\ \A p \in Pages : sock'[p] # None <=> conn'[p] \in {"opening", "open"}
    BY <1>1 DEF TypeOK, Crash
  <2> QED
    BY <1>1, <2>1, <2>3, <2>4, <2>5, <2>6, <2>7 DEF TypeOK, Crash
<1>2. CASE Restart
  <2>1. disturbed' \in Nat /\ harm' \in SUBSET HarmKinds
    BY <1>2, DisturbType DEF TypeOK, Restart
  <2> QED
    BY <1>2, <2>1 DEF TypeOK, Restart, loading
<1> QED
  BY <1>1, <1>2

LEMMA TypeInit == Init => TypeOK
<1> SUFFICES ASSUME Init PROVE TypeOK
  OBVIOUS
<1>1. /\ history \in 0..MaxAlerts /\ channel \in Seq(Alerts)
      /\ carried \in [Deliverer -> 0..MaxAlerts] /\ shown \in [Pages -> 0..MaxAlerts]
  BY AlertsOK, EmptySeq DEF Init
<1>2. /\ todo \in [Deliverer -> SUBSET Sockets] /\ gone \in [Deliverer -> SUBSET Sockets]
      /\ \A d \in Deliverer : todo[d] = {}
  BY DEF Init
<1>3. pending \in [Pages -> Seq(0..Lost)]
  BY EmptySeq DEF Init
<1>4. /\ got \in [Sockets -> SUBSET Alerts] /\ newest \in [Pages -> BOOLEAN]
      /\ erred \in [Pages -> BOOLEAN] /\ doubled \in BOOLEAN
      /\ inbox \in [Pages -> SUBSET {"alert", "pong"}]
  BY DEF Init
<1>5. /\ conn \in [Pages -> {"closed", "ticket", "opening", "open", "wait", "refused"}]
      /\ sock \in [Pages -> Sockets \cup {None}]
      /\ \A p \in Pages : sock[p] # None <=> conn[p] \in {"opening", "open"}
  BY DEF Init
<1>6. /\ registered \in SUBSET Sockets
      /\ hand \in [Sockets -> {"none", "handshake", "admit", "serve"}]
      /\ link \in [Sockets -> {"opening", "up", "down", "refused"}]
      /\ disturbed \in Nat /\ harm \in SUBSET HarmKinds
  BY DEF Init
<1> QED
  BY <1>1, <1>2, <1>3, <1>4, <1>5, <1>6 DEF Init, TypeOK

LEMMA TypeStep ==
    ASSUME TypeOK, [Next]_vars
    PROVE  TypeOK'
<1>1. CASE Next
  <2>1. CASE ServerStep
    BY <2>1, TypeServer, TypeDelivery, CrashType DEF ServerStep
  <2>2. CASE Raise \/ Backfill \/ PublishFails \/ RelayBreaks
    BY <2>2, TypeServer
  <2>3. CASE Crash
    BY <2>3, CrashType
  <2>4. CASE \E d \in Deliverer, s \in Sockets : SendSlow(d, s)
    BY <2>4, TypeDelivery
  <2>5. CASE \E s \in Sockets : HandlerStep(s) \/ Reject(s) \/ KeepAlive(s) \/ Cut(s)
    BY <2>5, TypeHandler
  <2>6. ASSUME NEW p \in Pages,
               \/ PageStep(p) \/ OnMessage(p) \/ NoTicket(p)
               \/ UserReload(p) \/ Mount(p) \/ Unmount(p)
        PROVE  TypeOK'
    BY <2>6, TypePage
  <2>7. ASSUME NEW p \in Pages, NEW i \in 1..MaxPending,
               RequestStep(p, i) \/ RequestFails(p, i)
        PROVE  TypeOK'
    BY <2>7, TypeRequest
  <2> QED
    BY <1>1, <2>1, <2>2, <2>3, <2>4, <2>5, <2>6, <2>7 DEF Next
<1>2. CASE UNCHANGED vars
  BY <1>2 DEF TypeOK, vars, server, job, sockets, loading, pages, trouble
<1> QED
  BY <1>1, <1>2

\* Every reachable state of LiveAlerts is type correct: a page has a socket
\* exactly while it connects or is connected, and whoever delivers has an alert.
THEOREM LiveAlertsTypeCorrect == Spec => []TypeOK
<1>1. Init => TypeOK
  BY TypeInit
<1>2. TypeOK /\ [Next]_vars => TypeOK'
  BY TypeStep
<1> QED
  BY <1>1, <1>2, PTL DEF Spec
-----------------------------------------------------------------------------
(* The page never goes back to an older list. *)

\* What the requests of a page under way promise: none that was answered lists
\* more than the history, and the last one, if useApi waits for it, no less
\* than the page shows.
ListsOf(p) ==
    /\ shown[p] <= history
    /\ newest[p] => Len(pending[p]) > 0
    /\ \A i \in 1..Len(pending[p]) : pending[p][i] <= MaxAlerts => pending[p][i] <= history
    /\ newest[p] /\ pending[p][Len(pending[p])] <= MaxAlerts
          => pending[p][Len(pending[p])] >= shown[p]

ListsInv == TypeOK /\ \A p \in Pages : ListsOf(p)

\* The ways in which a step may change what a page has loaded.
Kept(p) == pending'[p] = pending[p] /\ newest'[p] = newest[p] /\ shown'[p] = shown[p]
Asked(p) ==
    pending'[p] = Append(pending[p], Sent) /\ newest'[p] = TRUE /\ shown'[p] = shown[p]
Answered(p, i) ==
    /\ i \in 1..Len(pending[p]) /\ pending'[p] = [pending[p] EXCEPT ![i] = history]
    /\ newest'[p] = newest[p] /\ shown'[p] = shown[p]
Settled(p, i) ==
    /\ i \in 1..Len(pending[p]) /\ pending'[p] = RemoveAt(pending[p], i)
    /\ newest'[p] => newest[p] /\ ~Current(p, i)
    /\ \/ shown'[p] = shown[p]
       \/ Current(p, i) /\ pending[p][i] <= MaxAlerts /\ shown'[p] = pending[p][i]
Cleared(p) ==
    pending'[p] = <<>> /\ newest'[p] = FALSE /\ shown'[p] = 0 /\ conn'[p] = "closed"
CutOff(p) ==
    /\ Len(pending'[p]) = Len(pending[p])
    /\ \A i \in 1..Len(pending[p]) :
          pending'[p][i] = IF pending[p][i] = Sent THEN Lost ELSE pending[p][i]
    /\ newest'[p] = newest[p] /\ shown'[p] = shown[p]

Moved(p) ==
    \/ Kept(p) \/ Asked(p) \/ Cleared(p) \/ CutOff(p)
    \/ \E i \in 1..Len(pending[p]) : Answered(p, i) \/ Settled(p, i)

LEMMA ReloadMoves ==
    ASSUME TypeOK, NEW p \in Pages, NEW q \in Pages, Reload(q)
    PROVE  Moved(p)
<1>1. CASE p = q
  BY <1>1 DEF TypeOK, Reload, Moved, Asked
<1>2. CASE p # q
  BY <1>2 DEF TypeOK, Reload, Moved, Kept
<1> QED
  BY <1>1, <1>2

LEMMA PageMoves ==
    ASSUME TypeOK, NEW p \in Pages, NEW q \in Pages,
           \/ PageStep(q) \/ OnMessage(q) \/ NoTicket(q)
           \/ UserReload(q) \/ Mount(q) \/ Unmount(q)
    PROVE  Moved(p)
<1>1. CASE OnMessage(q) \/ UserReload(q) \/ Mount(q)
  BY <1>1, ReloadMoves DEF OnMessage, UserReload, Mount
<1>2. CASE PageStep(q) \/ NoTicket(q)
  BY <1>2 DEF PageStep, Open, OnOpen, OnClose, Retry, NoTicket, loading, Moved, Kept
<1>3. CASE Unmount(q)
  <2>1. CASE p = q
    BY <1>3, <2>1 DEF TypeOK, Unmount, Moved, Cleared
  <2>2. CASE p # q
    BY <1>3, <2>2 DEF TypeOK, Unmount, Moved, Kept
  <2> QED
    BY <2>1, <2>2
<1> QED
  BY <1>1, <1>2, <1>3

LEMMA RequestMoves ==
    ASSUME TypeOK, NEW p \in Pages, NEW q \in Pages, NEW i,
           Respond(q, i) \/ Arrive(q, i) \/ RequestFails(q, i)
    PROVE  Moved(p)
<1>0. i \in 1..Len(pending[q])
  BY LenProperties DEF TypeOK, Respond, Arrive, RequestFails
<1>1. CASE p # q
  BY <1>1 DEF TypeOK, Respond, Arrive, RequestFails, Moved, Kept
<1>2. CASE p = q /\ Respond(q, i)
  BY <1>0, <1>2 DEF TypeOK, Respond, Moved, Answered
<1>3. CASE p = q /\ (Arrive(q, i) \/ RequestFails(q, i))
  <2>1. /\ pending'[p] = RemoveAt(pending[p], i)
        /\ newest'[p] = (newest[p] /\ ~Current(p, i))
    BY <1>3 DEF TypeOK, Arrive, RequestFails
  <2>2. \/ shown'[p] = shown[p]
        \/ Current(p, i) /\ pending[p][i] <= MaxAlerts /\ shown'[p] = pending[p][i]
    BY <1>3 DEF TypeOK, Arrive, RequestFails
  <2>3. Settled(p, i)
    BY <1>0, <1>3, <2>1, <2>2 DEF Settled
  <2> QED
    BY <1>0, <1>3, <2>3 DEF Moved
<1> QED
  BY <1>1, <1>2, <1>3

LEMMA CrashMoves ==
    ASSUME TypeOK, NEW p \in Pages, Crash
    PROVE  Moved(p)
<1>1. /\ Len(pending[p]) \in Nat /\ DOMAIN pending[p] = 1..Len(pending[p])
      /\ pending[p] \in Seq(0..Lost) /\ pending'[p] \in Seq(0..Lost)
  BY LenProperties, CrashType DEF TypeOK
<1>2. pending'[p] = [i \in 1..Len(pending[p]) |->
                        IF pending[p][i] = Sent THEN Lost ELSE pending[p][i]]
  BY <1>1 DEF Crash
<1>3. DOMAIN pending'[p] = 1..Len(pending'[p]) /\ Len(pending'[p]) \in Nat
  BY <1>1, LenProperties
<1>4. Len(pending'[p]) = Len(pending[p])
  BY <1>1, <1>2, <1>3
<1>5. newest'[p] = newest[p] /\ shown'[p] = shown[p]
  BY DEF Crash
<1> QED
  BY <1>2, <1>4, <1>5 DEF Moved, CutOff

LEMMA AllMoves ==
    ASSUME TypeOK, [Next]_vars, NEW p \in Pages
    PROVE  Moved(p)
<1>1. CASE UNCHANGED vars
  BY <1>1 DEF vars, pages, loading, Moved, Kept
<1>2. CASE ServerStep \/ Raise \/ Backfill \/ PublishFails \/ RelayBreaks
  BY <1>2 DEF ServerStep, Raise, Backfill, PublishFails, RelayBreaks, Broadcast, Subscribe,
              Take, Restart, Delivered, Send, pages, loading, Moved, Kept
<1>3. CASE \E d \in Deliverer, s \in Sockets : SendSlow(d, s)
  BY <1>3 DEF SendSlow, loading, Moved, Kept
<1>4. CASE \E s \in Sockets : HandlerStep(s) \/ Reject(s) \/ KeepAlive(s) \/ Cut(s)
  BY <1>4 DEF HandlerStep, Accept, Admit, Leave, Reject, KeepAlive, Cut, pages, loading,
              Moved, Kept
<1>5. CASE Crash
  BY <1>5, CrashMoves
<1>6. ASSUME NEW q \in Pages,
             \/ PageStep(q) \/ OnMessage(q) \/ NoTicket(q)
             \/ UserReload(q) \/ Mount(q) \/ Unmount(q)
      PROVE  Moved(p)
  BY <1>6, PageMoves
<1>7. ASSUME NEW q \in Pages, NEW i \in 1..MaxPending,
             RequestStep(q, i) \/ RequestFails(q, i)
      PROVE  Moved(p)
  BY <1>7, RequestMoves DEF RequestStep
<1> QED
  BY <1>1, <1>2, <1>3, <1>4, <1>5, <1>6, <1>7 DEF Next

\* The history only grows.
LEMMA HistoryGrows ==
    ASSUME TypeOK, [Next]_vars
    PROVE  history' \in 0..MaxAlerts /\ history' >= history
<1>1. history' = history \/ history' = history + 1
  BY DEF Next, vars, server, ServerStep, Raise, Backfill, PublishFails, RelayBreaks, Broadcast,
         Subscribe, Take, Restart, Delivered, Send, SendSlow, HandlerStep, Accept, Admit,
         Leave, Reject, KeepAlive, Cut, Crash, PageStep, Open, OnOpen, OnClose, Retry,
         NoTicket, OnMessage, UserReload, Mount, Unmount, RequestStep, Respond, Arrive,
         RequestFails
<1> QED
  BY <1>1, TypeStep, AlertsOK DEF TypeOK

\* One step keeps the promise of a page and takes nothing from its list.
LEMMA ListsStep ==
    ASSUME TypeOK, [Next]_vars, NEW p \in Pages, ListsOf(p)
    PROVE  ListsOf(p)' /\ (conn'[p] # "closed" => shown'[p] >= shown[p])
<1> DEFINE q == pending[p]
           r == pending'[p]
           n == Len(pending[p])
<1>1. /\ q \in Seq(0..Lost) /\ n \in Nat /\ MaxAlerts \in Nat /\ Sent = MaxAlerts + 1
      /\ Lost = MaxAlerts + 2 /\ history \in 0..MaxAlerts /\ shown[p] \in 0..MaxAlerts
      /\ \A i \in 1..n : q[i] \in 0..Lost
      /\ newest[p] \in BOOLEAN
  BY AlertsOK, LenProperties, ElementOfSeq DEF TypeOK, Sent, Lost
<1>2. /\ history' \in 0..MaxAlerts /\ history' >= history
      /\ shown'[p] \in 0..MaxAlerts /\ r \in Seq(0..Lost)
      /\ newest'[p] \in BOOLEAN
  BY HistoryGrows, TypeStep DEF TypeOK
<1>3. /\ shown[p] <= history
      /\ newest[p] => n > 0
      /\ \A i \in 1..n : q[i] <= MaxAlerts => q[i] <= history
      /\ newest[p] /\ q[n] <= MaxAlerts => q[n] >= shown[p]
  BY DEF ListsOf
<1>4. /\ Moved(p)
      /\ Moved(p) <=> \/ Kept(p) \/ Asked(p) \/ Cleared(p) \/ CutOff(p)
                      \/ \E i \in 1..n : Answered(p, i) \/ Settled(p, i)
  BY AllMoves DEF Moved
<1> SUFFICES /\ shown'[p] <= history'
             /\ newest'[p] => Len(r) > 0
             /\ \A i \in 1..Len(r) : r[i] <= MaxAlerts => r[i] <= history'
             /\ newest'[p] /\ r[Len(r)] <= MaxAlerts => r[Len(r)] >= shown'[p]
             /\ conn'[p] # "closed" => shown'[p] >= shown[p]
  BY DEF ListsOf
<1>5. CASE Kept(p)
  <2>1. r = q /\ newest'[p] = newest[p] /\ shown'[p] = shown[p]
    BY <1>5 DEF Kept
  <2>2. conn'[p] # "closed" => shown'[p] >= shown[p]
    BY <1>1, <2>1
  <2> QED
    BY <1>1, <1>2, <1>3, <2>1, <2>2, SMTT(60)
<1>6. CASE Asked(p)
  <2>1. r = Append(q, Sent) /\ newest'[p] /\ shown'[p] = shown[p]
    BY <1>6 DEF Asked
  <2>2. /\ Len(r) = n + 1 /\ r[n + 1] = Sent
        /\ \A i \in 1..n : r[i] = q[i]
    BY <1>1, <2>1, AppendProperties
  <2> HIDE DEF q, r, n
  <2> QED
    BY <1>1, <1>2, <1>3, <2>1, <2>2
<1>7. CASE Cleared(p)
  <2>1. Len(r) = 0 /\ ~newest'[p] /\ shown'[p] = 0 /\ conn'[p] = "closed"
    BY <1>7, EmptySeq DEF Cleared
  <2> QED
    BY <1>1, <1>2, <2>1
<1>8. CASE CutOff(p)
  <2>1. /\ Len(r) = n /\ newest'[p] = newest[p] /\ shown'[p] = shown[p]
        /\ \A i \in 1..n : r[i] = IF q[i] = Sent THEN Lost ELSE q[i]
    BY <1>8 DEF CutOff
  <2> HIDE DEF q, r, n
  <2>2. ASSUME NEW i \in 1..n, r[i] <= MaxAlerts
        PROVE  r[i] = q[i]
    <3>1. q[i] # Sent
      BY <1>1, <2>1, <2>2
    <3> QED
      BY <2>1, <3>1
  <2>3. \A i \in 1..Len(r) : r[i] <= MaxAlerts => r[i] <= history'
    <3> SUFFICES ASSUME NEW i \in 1..n, r[i] <= MaxAlerts
                 PROVE  r[i] <= history'
      BY <2>1
    <3>1. r[i] = q[i] /\ q[i] <= history /\ q[i] \in 0..Lost
      BY <1>1, <1>3, <2>2
    <3> QED
      BY <1>1, <1>2, <3>1
  <2>4. ASSUME newest'[p], r[Len(r)] <= MaxAlerts
        PROVE  r[Len(r)] >= shown'[p]
    BY <1>1, <1>3, <2>1, <2>2, <2>4
  <2>5. shown'[p] <= history' /\ shown'[p] >= shown[p] /\ (newest'[p] => Len(r) > 0)
    BY <1>1, <1>2, <1>3, <2>1
  <2> QED
    BY <2>3, <2>4, <2>5
<1>9. ASSUME NEW i \in 1..n, Answered(p, i)
      PROVE  /\ shown'[p] <= history'
             /\ newest'[p] => Len(r) > 0
             /\ \A j \in 1..Len(r) : r[j] <= MaxAlerts => r[j] <= history'
             /\ newest'[p] /\ r[Len(r)] <= MaxAlerts => r[Len(r)] >= shown'[p]
             /\ conn'[p] # "closed" => shown'[p] >= shown[p]
  <2>1. r = [q EXCEPT ![i] = history] /\ newest'[p] = newest[p] /\ shown'[p] = shown[p]
    BY <1>9 DEF Answered
  <2>2. history \in 0..Lost
    BY <1>1
  <2>3. Len(r) = n /\ \A j \in 1..n : r[j] = IF j = i THEN history ELSE q[j]
    BY <1>1, <2>1, <2>2, ExceptSeq
  <2> HIDE DEF q, r, n
  <2> QED
    BY <1>1, <1>2, <1>3, <2>1, <2>3
<1>10. ASSUME NEW i \in 1..n, Settled(p, i)
       PROVE  /\ shown'[p] <= history'
              /\ newest'[p] => Len(r) > 0
              /\ \A j \in 1..Len(r) : r[j] <= MaxAlerts => r[j] <= history'
              /\ newest'[p] /\ r[Len(r)] <= MaxAlerts => r[Len(r)] >= shown'[p]
              /\ conn'[p] # "closed" => shown'[p] >= shown[p]
  <2>1. /\ r = RemoveAt(q, i)
        /\ newest'[p] => newest[p] /\ i # n
        /\ \/ shown'[p] = shown[p]
           \/ newest[p] /\ i = n /\ q[i] <= MaxAlerts /\ shown'[p] = q[i]
    BY <1>10 DEF Settled, Current
  <2>2. /\ Len(r) = n - 1
        /\ \A j \in 1..(n - 1) : r[j] = IF j < i THEN q[j] ELSE q[j + 1]
    <3>1. q \in Seq(0..Lost) /\ i \in 1..Len(q)
      BY <1>1
    <3>2. /\ Len(RemoveAt(q, i)) = Len(q) - 1
          /\ \A j \in 1..(Len(q) - 1) :
                RemoveAt(q, i)[j] = IF j < i THEN q[j] ELSE q[j + 1]
      BY <3>1, RemoveAtType
    <3> QED
      BY <2>1, <3>2
  <2> HIDE DEF q, r, n
  <2>3. shown'[p] <= history' /\ shown'[p] >= shown[p]
    BY <1>1, <1>2, <1>3, <2>1
  <2>4. \A j \in 1..(n - 1) : r[j] <= MaxAlerts => r[j] <= history'
    <3> SUFFICES ASSUME NEW j \in 1..(n - 1), r[j] <= MaxAlerts
                 PROVE  r[j] <= history'
      OBVIOUS
    <3>1. j \in 1..n /\ j + 1 \in 1..n
      BY <1>1
    <3>2. r[j] = q[j] \/ r[j] = q[j + 1]
      BY <2>2
    <3>3. PICK k \in 1..n : r[j] = q[k]
      BY <3>1, <3>2
    <3>4. q[k] <= history /\ q[k] \in 0..Lost
      BY <1>1, <1>3, <3>3
    <3> QED
      BY <1>1, <1>2, <3>3, <3>4
  <2>5. newest'[p] => n - 1 > 0 /\ r[n - 1] = q[n] /\ shown'[p] = shown[p]
    BY <1>1, <2>1, <2>2
  <2> QED
    BY <1>1, <1>3, <2>1, <2>2, <2>3, <2>4, <2>5
<1> HIDE DEF q, r, n
<1> QED
  BY <1>4, <1>5, <1>6, <1>7, <1>8, <1>9, <1>10

LEMMA ListsInit == Init => \A p \in Pages : ListsOf(p)
<1> SUFFICES ASSUME Init, NEW p \in Pages PROVE ListsOf(p)
  OBVIOUS
<1>1. Len(pending[p]) = 0 /\ ~newest[p] /\ shown[p] = 0 /\ history = 0
  BY EmptySeq DEF Init
<1> QED
  BY <1>1 DEF ListsOf

\* A page never goes back to an older list, in whatever order the responses to
\* any number of reloads arrive (useApi).
THEOREM PageNeverStepsBack == Spec => NeverStepsBack
<1>1. Init => ListsInv
  BY TypeInit, ListsInit DEF ListsInv
<1>2. ListsInv /\ [Next]_vars => ListsInv'
  BY TypeStep, ListsStep DEF ListsInv
<1>3. ListsInv /\ [Next]_vars
        => [\A p \in Pages : conn'[p] # "closed" => shown'[p] >= shown[p]]_vars
  BY ListsStep DEF ListsInv
<1> QED
  BY <1>1, <1>2, <1>3, PTL DEF Spec, NeverStepsBack
-----------------------------------------------------------------------------
(* The registry matches the handlers. *)

\* What holds of a socket: a handler is admitted after its connection is open,
\* a delivery serves no socket that is opening, and gives none up that is open
\* but for a slow send.
HandlerOf(s) ==
    /\ s \in registered => hand[s] = "serve"
    /\ hand[s] \in {"admit", "serve"} => link[s] # "opening"
    /\ \A d \in Deliverer : s \in todo[d] => link[s] # "opening"
    /\ \A d \in Deliverer : s \in gone[d] => link[s] \in {"down", "refused"} \/ "slow" \in harm
    /\ hand[s] = "serve" /\ link[s] = "up" /\ s \notin registered => "slow" \in harm

HandlersInv ==
    /\ TypeOK
    /\ \A s \in Sockets : HandlerOf(s)
    /\ Cardinality(registered) <= MaxSockets

\* A step that changes nothing for a socket but closes its connection, takes it
\* off the lists of a delivery or adds to the harm done.
Spared(s) ==
    /\ (s \in registered' <=> s \in registered) /\ hand'[s] = hand[s]
    /\ link'[s] = link[s] \/ link'[s] = "down"
    /\ \A d \in Deliverer : /\ s \in todo'[d] => s \in todo[d]
                            /\ s \in gone'[d] => s \in gone[d]
    /\ harm \subseteq harm'

LEMMA SparedKeeps ==
    ASSUME TypeOK, NEW s \in Sockets, HandlerOf(s), Spared(s)
    PROVE  HandlerOf(s)'
BY DEF TypeOK, HandlerOf, Spared

\* A delivery begins: it serves what is registered.
LEMMA HandlerDeliver ==
    ASSUME TypeOK, NEW s \in Sockets, HandlerOf(s),
           Broadcast \/ PublishFails \/ Take
    PROVE  HandlerOf(s)'
<1> USE DEF sockets, pages, trouble
<1>1. /\ registered' = registered /\ hand' = hand /\ link' = link
  BY DEF Broadcast, PublishFails, Take
<1>2. harm \subseteq harm'
  BY DisturbType DEF Broadcast, PublishFails, Take
<1>3. PICK d \in Deliverer : \/ Done(d)
                             \/ \E a \in Alerts : Deliver(d, a)
  <2>1. CASE Broadcast \/ PublishFails
    <3>1. carried["caster"] \in Alerts /\ "caster" \in Deliverer
      BY <2>1, AlertsOK DEF TypeOK, Broadcast, PublishFails, Alerts, Deliverer
    <3> QED
      BY <2>1, <3>1 DEF Broadcast, PublishFails
  <2>2. CASE Take
    <3>1. Head(channel) \in Alerts /\ "relay" \in Deliverer
      BY <2>2, HeadTailProperties DEF TypeOK, Take, Deliverer
    <3> QED
      BY <2>2, <3>1 DEF Take
  <2> QED
    BY <2>1, <2>2
<1>4. \A e \in Deliverer : todo'[e] \in {todo[e], registered, {}} /\ gone'[e] \in {gone[e], {}}
  BY <1>3, DoneType, DeliverType DEF TypeOK
<1> QED
  BY <1>1, <1>2, <1>4 DEF HandlerOf

LEMMA HandlerDelivery ==
    ASSUME TypeOK, NEW s \in Sockets, HandlerOf(s), NEW d \in Deliverer,
           Delivered(d) \/ \E t \in Sockets : Send(d, t) \/ SendSlow(d, t)
    PROVE  HandlerOf(s)'
<1> USE DEF sockets, pages, trouble
<1>1. ASSUME NEW t \in Sockets, Send(d, t)
      PROVE  HandlerOf(s)'
  <2>1. /\ UNCHANGED <<registered, hand, link, harm>> /\ t \in todo[d]
        /\ todo' = [todo EXCEPT ![d] = @ \ {t}]
    <3>1. CASE link[t] = "up"
      BY <1>1, <3>1 DEF Send
    <3>2. CASE link[t] # "up"
      BY <1>1, <3>2 DEF Send
    <3> QED
      BY <3>1, <3>2
  <2>2. \A e \in Deliverer : s \in todo'[e] => s \in todo[e]
    BY <2>1 DEF TypeOK
  <2>3. CASE link[t] = "up"
    <3>1. gone' = gone
      BY <1>1, <2>3 DEF Send
    <3> QED
      BY <2>1, <2>2, <3>1, SparedKeeps DEF Spared
  <2>4. CASE link[t] # "up"
    <3>1. gone' = [gone EXCEPT ![d] = @ \cup {t}]
      BY <1>1, <2>4 DEF Send
    <3>2. ASSUME NEW e \in Deliverer, s \in gone'[e], s \notin gone[e]
          PROVE  link[s] \in {"down", "refused"}
      <4>1. e = d /\ s = t
        BY <3>1, <3>2 DEF TypeOK
      <4>2. link[s] # "opening" /\ link[s] # "up"
        BY <2>1, <2>4, <4>1 DEF HandlerOf
      <4> QED
        BY <4>2 DEF TypeOK
    <3> QED
      BY <2>1, <2>2, <3>2 DEF HandlerOf
  <2> QED
    BY <2>3, <2>4
<1>2. ASSUME NEW t \in Sockets, SendSlow(d, t)
      PROVE  HandlerOf(s)'
  <2>1. /\ UNCHANGED <<registered, hand, link>>
        /\ todo' = [todo EXCEPT ![d] = @ \ {t}]
    BY <1>2 DEF SendSlow
  <2>2. "slow" \in harm'
    BY <1>2 DEF SendSlow, Disturb, HarmKinds
  <2>3. \A e \in Deliverer : s \in todo'[e] => s \in todo[e]
    BY <2>1 DEF TypeOK
  <2> QED
    BY <2>1, <2>2, <2>3 DEF HandlerOf
<1>3. CASE Delivered(d)
  <2>1. /\ registered' = registered \ gone[d] /\ UNCHANGED <<hand, link, harm>>
        /\ Done(d)
    BY <1>3 DEF Delivered
  <2>2. \A e \in Deliverer : todo'[e] \subseteq todo[e] /\ gone'[e] \subseteq gone[e]
    BY <2>1, DoneType
  <2>3. s \in gone[d] => link[s] # "up" \/ "slow" \in harm
    BY DEF HandlerOf
  <2> QED
    BY <2>1, <2>2, <2>3 DEF HandlerOf
<1> QED
  BY <1>1, <1>2, <1>3

LEMMA HandlerHandler ==
    ASSUME TypeOK, NEW s \in Sockets, HandlerOf(s), NEW t \in Sockets,
           HandlerStep(t) \/ Reject(t) \/ KeepAlive(t) \/ Cut(t)
    PROVE  HandlerOf(s)'
<1> USE DEF server, job, sockets, pages, trouble
<1>0. harm \subseteq harm' /\ todo' = todo /\ gone' = gone
  BY DisturbType DEF HandlerStep, Accept, Admit, Leave, Reject, KeepAlive, Cut
<1>1. CASE Accept(t)
  <2>1. CASE s = t
    <3>1. /\ hand[s] = "handshake" /\ hand'[s] = "admit" /\ UNCHANGED <<registered, harm>>
          /\ link'[s] = IF link[s] = "opening" THEN "up" ELSE link[s]
      BY <1>1, <2>1 DEF TypeOK, Accept
    <3> QED
      BY <1>0, <3>1 DEF TypeOK, HandlerOf
  <2>2. CASE s # t
    <3>1. hand'[s] = hand[s] /\ link'[s] = link[s] /\ registered' = registered
      BY <1>1, <2>2 DEF TypeOK, Accept
    <3> QED
      BY <1>0, <3>1, SparedKeeps DEF Spared
  <2> QED
    BY <2>1, <2>2
<1>2. CASE Reject(t)
  <2>1. /\ s = t => hand[s] = "handshake" /\ hand'[s] = "none" /\ link'[s] = "down"
        /\ s # t => hand'[s] = hand[s] /\ link'[s] = link[s]
        /\ registered' = registered
    BY <1>2 DEF TypeOK, Reject
  <2> QED
    BY <1>0, <2>1 DEF HandlerOf
<1>3. CASE Admit(t)
  <2>1. CASE Cardinality(registered) < MaxSockets
    <3>1. /\ hand[t] = "admit" /\ registered' = registered \cup {t}
          /\ link' = link /\ harm' = harm /\ hand' = [hand EXCEPT ![t] = "serve"]
      BY <1>3, <2>1 DEF Admit
    <3>2. /\ s = t => hand[s] = "admit" /\ hand'[s] = "serve" /\ s \in registered'
          /\ s # t => hand'[s] = hand[s] /\ (s \in registered' <=> s \in registered)
      BY <3>1 DEF TypeOK
    <3> QED
      BY <1>0, <3>1, <3>2 DEF HandlerOf
  <2>2. CASE ~(Cardinality(registered) < MaxSockets)
    <3>1. /\ hand[t] = "admit" /\ registered' = registered /\ harm' = harm
          /\ hand' = [hand EXCEPT ![t] = "none"]
          /\ link' = [link EXCEPT ![t] = IF @ = "up" THEN "refused" ELSE @]
      BY <1>3, <2>2 DEF Admit
    <3>2. /\ s = t => /\ hand[s] = "admit" /\ hand'[s] = "none"
                      /\ link'[s] = IF link[s] = "up" THEN "refused" ELSE link[s]
          /\ s # t => hand'[s] = hand[s] /\ link'[s] = link[s]
      BY <3>1 DEF TypeOK
    <3> QED
      BY <1>0, <3>1, <3>2 DEF HandlerOf
  <2> QED
    BY <2>1, <2>2
<1>4. CASE KeepAlive(t)
  BY <1>0, <1>4, SparedKeeps DEF KeepAlive, Spared
<1>5. CASE Leave(t)
  <2>1. /\ s = t => hand'[s] = "none" /\ s \notin registered'
        /\ s # t => hand'[s] = hand[s] /\ (s \in registered' <=> s \in registered)
        /\ link' = link
    BY <1>5 DEF TypeOK, Leave
  <2> QED
    BY <1>0, <2>1 DEF HandlerOf
<1>6. CASE Cut(t)
  <2>1. /\ link'[s] = link[s] \/ link'[s] = "down"
        /\ hand' = hand /\ registered' = registered
    BY <1>6 DEF TypeOK, Cut
  <2> QED
    BY <1>0, <2>1, SparedKeeps DEF Spared
<1> QED
  BY <1>1, <1>2, <1>3, <1>4, <1>5, <1>6 DEF HandlerStep

LEMMA HandlerPage ==
    ASSUME TypeOK, NEW s \in Sockets, HandlerOf(s), NEW p \in Pages,
           \/ PageStep(p) \/ OnMessage(p) \/ NoTicket(p)
           \/ UserReload(p) \/ Mount(p) \/ Unmount(p)
    PROVE  HandlerOf(s)'
<1> USE DEF server, job, sockets, trouble
<1>0. harm \subseteq harm' /\ todo' = todo /\ gone' = gone /\ registered' = registered
  BY DisturbType DEF PageStep, Open, OnOpen, OnClose, Retry, OnMessage, NoTicket, UserReload,
                     Mount, Unmount
<1>1. CASE Open(p)
  <2>1. PICK t \in Sockets :
          /\ Free(t)
          /\ hand' = [hand EXCEPT ![t] = "handshake"]
          /\ link' = [link EXCEPT ![t] = "opening"]
    BY <1>1 DEF Open
  <2>2. CASE s = t
    <3>1. /\ hand[s] = "none" /\ hand'[s] = "handshake"
          /\ \A d \in Deliverer : s \notin todo[d] /\ s \notin gone[d]
      BY <2>1, <2>2 DEF TypeOK, Free
    <3> QED
      BY <1>0, <3>1 DEF HandlerOf
  <2>3. CASE s # t
    <3>1. hand'[s] = hand[s] /\ link'[s] = link[s]
      BY <2>1, <2>3 DEF TypeOK
    <3> QED
      BY <1>0, <3>1, SparedKeeps DEF Spared
  <2> QED
    BY <2>2, <2>3
<1>2. CASE OnClose(p) \/ Unmount(p)
  <2>1. hand' = hand /\ (link'[s] = link[s] \/ link'[s] = "down")
    BY <1>2 DEF TypeOK, OnClose, Unmount
  <2> QED
    BY <1>0, <2>1, SparedKeeps DEF Spared
<1>3. CASE \/ OnOpen(p) \/ Retry(p) \/ OnMessage(p) \/ NoTicket(p)
           \/ UserReload(p) \/ Mount(p)
  <2>1. hand' = hand /\ link' = link
    BY <1>3 DEF OnOpen, Retry, OnMessage, NoTicket, UserReload, Mount
  <2> QED
    BY <1>0, <2>1, SparedKeeps DEF Spared
<1> QED
  BY <1>1, <1>2, <1>3 DEF PageStep

LEMMA HandlerStays ==
    ASSUME TypeOK, [Next]_vars, NEW s \in Sockets, HandlerOf(s)
    PROVE  HandlerOf(s)'
<1> USE DEF server, job, sockets, pages, trouble
<1>1. CASE Broadcast \/ PublishFails \/ Take
  BY <1>1, HandlerDeliver
<1>2. CASE UNCHANGED vars \/ Raise \/ Backfill \/ Subscribe \/ Restart \/ RelayBreaks
  <2>1. harm \subseteq harm'
    BY <1>2, DisturbType DEF vars, Raise, Backfill, Subscribe, Restart, RelayBreaks
  <2>2. UNCHANGED <<registered, hand, link, todo, gone>>
    BY <1>2 DEF vars, Raise, Backfill, Subscribe, Restart, RelayBreaks
  <2> QED
    BY <2>1, <2>2, SparedKeeps DEF Spared
<1>3. ASSUME NEW d \in Deliverer,
             Delivered(d) \/ \E t \in Sockets : Send(d, t) \/ SendSlow(d, t)
      PROVE  HandlerOf(s)'
  BY <1>3, HandlerDelivery
<1>4. CASE \E t \in Sockets : HandlerStep(t) \/ Reject(t) \/ KeepAlive(t) \/ Cut(t)
  BY <1>4, HandlerHandler
<1>5. ASSUME NEW p \in Pages,
             \/ PageStep(p) \/ OnMessage(p) \/ NoTicket(p)
             \/ UserReload(p) \/ Mount(p) \/ Unmount(p)
      PROVE  HandlerOf(s)'
  BY <1>5, HandlerPage
<1>6. ASSUME NEW p \in Pages, NEW i \in 1..MaxPending,
             RequestStep(p, i) \/ RequestFails(p, i)
      PROVE  HandlerOf(s)'
  <2>1. harm \subseteq harm'
    BY <1>6, DisturbType DEF RequestStep, Respond, Arrive, RequestFails
  <2>2. UNCHANGED <<registered, hand, link, todo, gone>>
    BY <1>6 DEF RequestStep, Respond, Arrive, RequestFails
  <2> QED
    BY <2>1, <2>2, SparedKeeps DEF Spared
<1>7. CASE Crash
  <2>1. /\ registered' = {} /\ hand'[s] = "none"
        /\ \A d \in Deliverer : todo'[d] = {} /\ gone'[d] = {}
    BY <1>7 DEF Crash
  <2> QED
    BY <2>1 DEF HandlerOf
<1> QED
  BY <1>1, <1>2, <1>3, <1>4, <1>5, <1>6, <1>7 DEF Next, ServerStep

\* Only the admission of a socket adds to the registry, under the limit.
LEMMA RegistryBounded ==
    ASSUME TypeOK, [Next]_vars, Cardinality(registered) <= MaxSockets
    PROVE  Cardinality(registered') <= MaxSockets
<1>1. \/ registered' \subseteq registered
      \/ \E s \in Sockets : /\ Cardinality(registered) < MaxSockets
                            /\ registered' = registered \cup {s}
  BY DEF Next, vars, sockets, ServerStep, Raise, Backfill, PublishFails, RelayBreaks,
         Broadcast, Subscribe, Take, Restart, Delivered, Send, SendSlow, HandlerStep, Accept,
         Admit, Leave, Reject, KeepAlive, Cut, Crash, PageStep, Open, OnOpen, OnClose, Retry,
         NoTicket, OnMessage, UserReload, Mount, Unmount, RequestStep, Respond, Arrive,
         RequestFails
<1>2. /\ IsFiniteSet(registered) /\ Cardinality(registered) \in Nat
      /\ MaxSockets \in Nat
  BY AlertsOK, FS_Subset, FS_CardinalityType DEF TypeOK
<1>3. CASE registered' \subseteq registered
  BY <1>2, <1>3, FS_Subset, FS_CardinalityType
<1>4. ASSUME NEW s \in Sockets, Cardinality(registered) < MaxSockets,
             registered' = registered \cup {s}
      PROVE  Cardinality(registered') <= MaxSockets
  <2>1. Cardinality(registered') = IF s \in registered THEN Cardinality(registered)
                                   ELSE Cardinality(registered) + 1
    BY <1>2, <1>4, FS_AddElement
  <2> QED
    BY <1>2, <1>4, <2>1
<1> QED
  BY <1>1, <1>3, <1>4

LEMMA HandlersInit == Init => HandlersInv
<1> SUFFICES ASSUME Init PROVE HandlersInv
  OBVIOUS
<1>1. Cardinality(registered) <= MaxSockets
  BY AlertsOK, FS_EmptySet DEF Init
<1>2. ASSUME NEW s \in Sockets
      PROVE  HandlerOf(s)
  BY DEF Init, HandlerOf
<1> QED
  BY <1>1, <1>2, TypeInit DEF HandlersInv

\* The registry holds no socket whose handler is gone and stays within its
\* limit; only a slow send leaves an open socket outside of it.
THEOREM RegistryAlwaysMatches == Spec => []RegistryMatchesHandlers
<1>1. HandlersInv /\ [Next]_vars => HandlersInv'
  BY TypeStep, HandlerStays, RegistryBounded DEF HandlersInv
<1>2. HandlersInv => RegistryMatchesHandlers
  BY DEF HandlersInv, HandlerOf, RegistryMatchesHandlers, TypeOK
<1> QED
  BY HandlersInit, <1>1, <1>2, PTL DEF Spec
-----------------------------------------------------------------------------
(* No socket gets an alert twice. *)

\* Every alert is raised once and is in one place after that: with the
\* processor, in the channel or with the relay; no socket that is still to be
\* served has it.
Once ==
    /\ ~doubled
    /\ \A s \in Sockets : \A a \in got[s] : a <= history
    /\ \A i \in 1..Len(channel) : channel[i] <= history
    /\ \A d \in Deliverer : carried[d] <= history
    /\ \A i, j \in 1..Len(channel) : i # j => channel[i] # channel[j]
    /\ \A i \in 1..Len(channel), d \in Deliverer : channel[i] # carried[d]
    /\ carried["caster"] # 0 => carried["caster"] # carried["relay"]
    /\ \A i \in 1..Len(channel), s \in Sockets : channel[i] \notin got[s]
    /\ caster # "deliver" => todo["caster"] = {}
    /\ caster = "cast" => \A s \in Sockets : carried["caster"] \notin got[s]
    /\ \A d \in Deliverer : \A s \in todo[d] : carried[d] \notin got[s]

OnceInv == TypeOK /\ ("lost_ack" \notin harm => Once)

\* A step that sends nothing, moves no alert and may only forget.
Unsent ==
    /\ doubled' = doubled /\ channel' = channel /\ carried' = carried /\ caster' = caster
    /\ history' = history
    /\ \A s \in Sockets : got'[s] \subseteq got[s]
    /\ \A d \in Deliverer : todo'[d] \subseteq todo[d]

LEMMA UnsentKeeps ==
    ASSUME TypeOK, Once, Unsent
    PROVE  Once'
<1>1. "caster" \in Deliverer /\ "relay" \in Deliverer
  BY DEF Deliverer
<1>2. \A d \in Deliverer : todo[d] \subseteq Sockets
  BY DEF TypeOK
<1> QED
  BY <1>1, <1>2 DEF Once, Unsent

LEMMA AlertsNumbered ==
    ASSUME TypeOK
    PROVE  /\ history \in Nat /\ MaxAlerts \in Nat /\ Len(channel) \in Nat
           /\ \A i \in 1..Len(channel) : channel[i] \in Alerts /\ channel[i] # 0
           /\ \A d \in Deliverer : carried[d] \in Nat
           /\ \A s \in Sockets : got[s] \subseteq Alerts
           /\ Alerts \subseteq Nat
           /\ "caster" \in Deliverer /\ "relay" \in Deliverer
BY AlertsOK, LenProperties, ElementOfSeq DEF TypeOK, Alerts, Deliverer

LEMMA OnceRaise ==
    ASSUME TypeOK, Once, Raise \/ Backfill
    PROVE  Once'
<1> USE DEF sockets
<1>1. /\ history' = history + 1
      /\ UNCHANGED <<doubled, channel, got, todo>>
  BY DEF Raise, Backfill, job
<1>2. CASE Raise
  <2>1. /\ caster = "idle" /\ caster' = "cast"
        /\ carried'["caster"] = history + 1 /\ carried'["relay"] = carried["relay"]
        /\ todo["caster"] = {}
    BY <1>2, AlertsNumbered DEF TypeOK, Raise, Once
  <2>2. \A d \in Deliverer : d = "caster" \/ d = "relay"
    BY DEF Deliverer
  <2>3. /\ \A s \in Sockets : \A a \in got[s] : a <= history' /\ a # history + 1
        /\ \A i \in 1..Len(channel) : channel[i] <= history' /\ channel[i] # history + 1
    BY <1>1, AlertsNumbered DEF Once
  <2>4. carried["relay"] <= history' /\ carried["relay"] # history + 1
    BY <1>1, AlertsNumbered DEF Once
  <2>5. /\ \A d \in Deliverer : carried'[d] <= history'
        /\ \A i \in 1..Len(channel), d \in Deliverer : channel[i] # carried'[d]
    BY <1>1, <2>1, <2>2, <2>3, <2>4, AlertsNumbered, SMTT(60) DEF Once
  <2>6. \A d \in Deliverer : \A s \in todo'[d] : carried'[d] \notin got[s]
    BY <1>1, <2>1, <2>2, SMTT(60) DEF Once
  <2> QED
    BY <1>1, <2>1, <2>3, <2>4, <2>5, <2>6 DEF Once
<1>3. CASE Backfill
  <2>1. carried' = carried /\ caster' = caster
    BY <1>3 DEF Backfill, job
  <2>2. /\ \A s \in Sockets : \A a \in got[s] : a <= history'
        /\ \A i \in 1..Len(channel) : channel[i] <= history'
        /\ \A d \in Deliverer : carried[d] <= history'
    BY <1>1, AlertsNumbered DEF Once
  <2> QED
    BY <1>1, <2>1, <2>2 DEF Once
<1> QED
  BY <1>2, <1>3

\* The processor publishes its alert, or begins to deliver it.
LEMMA OnceBroadcast ==
    ASSUME TypeOK, Once, Broadcast \/ PublishFails, "lost_ack" \notin harm'
    PROVE  Once'
<1> USE DEF sockets
<1> DEFINE a == carried["caster"]
<1>0. \A d \in Deliverer : d = "caster" \/ d = "relay"
  BY DEF Deliverer
<1>1. /\ caster = "cast" /\ UNCHANGED <<history, got, doubled, registered>>
      /\ a \in Alerts /\ a <= history /\ a # 0
  <2>1. caster = "cast" /\ UNCHANGED <<history, got, doubled, registered>>
    BY DEF Broadcast, PublishFails
  <2> QED
    BY <2>1, AlertsOK, AlertsNumbered DEF TypeOK, Once, Alerts
<1>2. /\ \A s \in Sockets : a \notin got[s]
      /\ \A i \in 1..Len(channel) : channel[i] # a
      /\ a # carried["relay"]
  BY <1>1, AlertsNumbered DEF Once
<1>3. \/ caster' = "idle" /\ Done("caster") /\ channel' \in {channel, Append(channel, a)}
      \/ caster' = "deliver" /\ Deliver("caster", a) /\ channel' = channel
  <2>1. CASE Broadcast
    <3>1. CASE relay # "off"
      BY <2>1, <3>1 DEF Broadcast, Published
    <3>2. CASE relay = "off"
      BY <2>1, <3>2 DEF Broadcast
    <3> QED
      BY <3>1, <3>2
  <2>2. CASE PublishFails
    <3>1. caster' = "deliver" /\ Deliver("caster", a)
      BY <2>2 DEF PublishFails
    <3>2. CASE Disturb("lost_ack")
      BY <3>2 DEF Disturb, HarmKinds
    <3>3. CASE UNCHANGED channel
      BY <3>1, <3>3
    <3> QED
      BY <2>2, <3>2, <3>3 DEF PublishFails
  <2> QED
    BY <2>1, <2>2
<1> HIDE DEF a
<1>4. CASE caster' = "idle" /\ Done("caster") /\ channel' = channel
  <2>1. /\ carried'["caster"] = 0 /\ carried'["relay"] = carried["relay"]
        /\ todo'["caster"] = {} /\ todo'["relay"] = todo["relay"]
    BY <1>4, DoneType, AlertsNumbered
  <2>2. /\ \A d \in Deliverer : carried'[d] <= history
        /\ \A i \in 1..Len(channel), d \in Deliverer : channel[i] # carried'[d]
        /\ \A d \in Deliverer : \A s \in todo'[d] : carried'[d] \notin got[s]
    BY <1>0, <2>1, AlertsNumbered DEF Once
  <2> QED
    BY <1>1, <1>4, <2>1, <2>2 DEF Once
<1>5. CASE caster' = "idle" /\ Done("caster") /\ channel' = Append(channel, a)
  <2>1. /\ carried'["caster"] = 0 /\ carried'["relay"] = carried["relay"]
        /\ todo'["caster"] = {} /\ todo'["relay"] = todo["relay"]
    BY <1>5, DoneType, AlertsNumbered
  <2>2. /\ Len(channel') = Len(channel) + 1
        /\ channel'[Len(channel) + 1] = a
        /\ \A i \in 1..Len(channel) : channel'[i] = channel[i]
    BY <1>1, <1>5, AppendProperties DEF TypeOK
  <2>3. \A i \in 1..(Len(channel) + 1) : i \in 1..Len(channel) \/ i = Len(channel) + 1
    BY AlertsNumbered
  <2>4. \A i \in 1..Len(channel') : channel'[i] <= history /\ channel'[i] # 0
    BY <1>1, <2>2, <2>3, AlertsNumbered DEF Once
  <2>5. \A i, j \in 1..Len(channel') : i # j => channel'[i] # channel'[j]
    BY <1>2, <2>2, <2>3 DEF Once
  <2>6. \A i \in 1..Len(channel'), s \in Sockets : channel'[i] \notin got[s]
    BY <1>2, <2>2, <2>3 DEF Once
  <2>7. \A i \in 1..Len(channel') : channel'[i] # carried["relay"]
    BY <1>2, <2>2, <2>3, AlertsNumbered DEF Once
  <2>8. /\ \A d \in Deliverer : carried'[d] <= history
        /\ \A i \in 1..Len(channel'), d \in Deliverer : channel'[i] # carried'[d]
        /\ \A d \in Deliverer : \A s \in todo'[d] : carried'[d] \notin got[s]
    BY <1>0, <2>1, <2>4, <2>7, AlertsNumbered, SMTT(60) DEF Once
  <2> QED
    BY <1>1, <1>5, <2>1, <2>4, <2>5, <2>6, <2>8 DEF Once
<1>6. CASE caster' = "deliver" /\ Deliver("caster", a) /\ channel' = channel
  <2>1. /\ carried'["caster"] = a /\ carried'["relay"] = carried["relay"]
        /\ todo'["caster"] = registered /\ todo'["relay"] = todo["relay"]
    BY <1>1, <1>6, DeliverType, AlertsNumbered
  <2>2. registered \subseteq Sockets
    BY DEF TypeOK
  <2>3. \A d \in Deliverer : carried'[d] = carried[d]
    BY <1>0, <2>1 DEF a
  <2>4. \A d \in Deliverer : \A s \in todo'[d] : carried'[d] \notin got[s]
    BY <1>0, <1>2, <2>1, <2>2 DEF Once
  <2> QED
    BY <1>1, <1>6, <2>1, <2>3, <2>4, AlertsNumbered DEF Once
<1> QED
  BY <1>3, <1>4, <1>5, <1>6

\* The relay takes an alert from the channel, or loses them all.
LEMMA OnceTake ==
    ASSUME TypeOK, Once, Take \/ RelayBreaks
    PROVE  Once'
<1> USE DEF sockets
<1>0. \A d \in Deliverer : d = "caster" \/ d = "relay"
  BY DEF Deliverer
<1>1. UNCHANGED <<history, caster, got, doubled, registered>>
  BY DEF Take, RelayBreaks
<1>2. CASE Take
  <2> DEFINE a == Head(channel)
  <2>1. /\ channel # <<>> /\ Deliver("relay", a) /\ channel' = Tail(channel)
    BY <1>2 DEF Take
  <2>2. /\ Len(channel) \in Nat \ {0} /\ a = channel[1] /\ a \in Alerts
        /\ Len(channel') = Len(channel) - 1
        /\ \A i \in 1..(Len(channel) - 1) : channel'[i] = channel[i + 1]
    <3>1. channel \in Seq(Alerts) /\ Len(channel) \in Nat \ {0}
      BY <2>1, EmptySeq DEF TypeOK
    <3>2. a = channel[1] /\ a \in Alerts
      BY <2>1, <3>1, HeadTailProperties, AlertsNumbered
    <3> QED
      BY <2>1, <3>1, <3>2, HeadTailProperties
  <2>3. /\ carried'["relay"] = a /\ carried'["caster"] = carried["caster"] /\ a # 0
        /\ todo'["relay"] = registered /\ todo'["caster"] = todo["caster"]
    BY <2>1, <2>2, DeliverType, AlertsNumbered
  <2> HIDE DEF a
  <2>4. \A i \in 1..Len(channel') : i + 1 \in 1..Len(channel) /\ i + 1 # 1
    BY <2>2
  <2>5. 1 \in 1..Len(channel)
    BY <2>2
  <2>6. /\ \A i \in 1..Len(channel') : channel'[i] <= history /\ channel'[i] # a
        /\ \A i \in 1..Len(channel'), s \in Sockets : channel'[i] \notin got[s]
        /\ \A i \in 1..Len(channel') : channel'[i] # carried["caster"]
    <3> SUFFICES ASSUME NEW i \in 1..Len(channel')
                 PROVE  /\ channel'[i] <= history /\ channel'[i] # a
                        /\ \A s \in Sockets : channel'[i] \notin got[s]
                        /\ channel'[i] # carried["caster"]
      OBVIOUS
    <3>1. channel'[i] = channel[i + 1] /\ i + 1 \in 1..Len(channel) /\ i + 1 # 1
      BY <2>2, <2>4
    <3> QED
      BY <2>2, <2>5, <3>1, AlertsNumbered DEF Once
  <2>7. ASSUME NEW i \in 1..Len(channel'), NEW j \in 1..Len(channel'), i # j
        PROVE  channel'[i] # channel'[j]
    <3>1. i + 1 # j + 1
      BY <2>2, <2>7
    <3> QED
      BY <2>2, <2>4, <3>1 DEF Once
  <2>8. /\ a <= history /\ a # carried["caster"]
        /\ \A s \in Sockets : a \notin got[s]
    BY <2>2, <2>5, AlertsNumbered DEF Once
  <2>9. /\ \A d \in Deliverer : carried'[d] <= history
        /\ \A i \in 1..Len(channel'), d \in Deliverer : channel'[i] # carried'[d]
    BY <1>0, <2>3, <2>6, <2>8, AlertsNumbered DEF Once
  <2>10. \A d \in Deliverer : \A s \in todo'[d] : carried'[d] \notin got[s]
    <3>1. registered \subseteq Sockets
      BY DEF TypeOK
    <3>2. \A s \in todo'["relay"] : carried'["relay"] \notin got[s]
      BY <2>3, <2>8, <3>1
    <3>3. \A s \in todo'["caster"] : carried'["caster"] \notin got[s]
      BY <2>3, AlertsNumbered DEF Once
    <3> QED
      BY <1>0, <3>2, <3>3
  <2>11. carried'["caster"] # carried'["relay"]
    BY <2>3, <2>8
  <2> QED
    BY <1>1, <2>3, <2>6, <2>7, <2>9, <2>10, <2>11 DEF Once
<1>3. CASE RelayBreaks
  <2>1. /\ Len(channel') = 0 /\ carried' = carried /\ todo' = todo
    BY <1>3, EmptySeq DEF RelayBreaks, job
  <2>2. 1..Len(channel') = {}
    BY <2>1
  <2> QED
    BY <1>1, <2>1, <2>2 DEF Once
<1> QED
  BY <1>2, <1>3

LEMMA OnceDelivery ==
    ASSUME TypeOK, Once, NEW d \in Deliverer,
           Delivered(d) \/ \E t \in Sockets : Send(d, t) \/ SendSlow(d, t)
    PROVE  Once'
<1> USE DEF sockets
<1>0. \A e \in Deliverer : e = "caster" \/ e = "relay"
  BY DEF Deliverer
<1>1. ASSUME NEW t \in Sockets, Send(d, t)
      PROVE  Once'
  <2>1. /\ UNCHANGED <<history, channel, carried, caster>> /\ t \in todo[d]
        /\ todo' = [todo EXCEPT ![d] = @ \ {t}]
    <3>1. CASE link[t] = "up"
      BY <1>1, <3>1 DEF Send
    <3>2. CASE link[t] # "up"
      BY <1>1, <3>2 DEF Send
    <3> QED
      BY <3>1, <3>2
  <2>2. /\ \A e \in Deliverer : todo'[e] \subseteq todo[e]
        /\ t \notin todo'[d]
    BY <2>1 DEF TypeOK
  <2>3. CASE link[t] # "up"
    <3>1. got' = got /\ doubled' = doubled
      BY <1>1, <2>3 DEF Send
    <3> QED
      BY <2>1, <2>2, <3>1, UnsentKeeps DEF Unsent
  <2>4. CASE link[t] = "up"
    <3>1. got' = [got EXCEPT ![t] = @ \cup {carried[d]}]
      BY <1>1, <2>4 DEF Send
    <3>2. doubled' = (doubled \/ carried[d] \in got[t])
      BY <1>1, <2>4, Zenon DEF Send
    <3>3. carried[d] \notin got[t] /\ ~doubled
      BY <2>1 DEF Once
    <3>4. ~doubled'
      BY <3>2, <3>3, Zenon
    <3>5. \A s \in Sockets : got'[s] = IF s = t THEN got[s] \cup {carried[d]} ELSE got[s]
      BY <3>1 DEF TypeOK
    <3>6. carried[d] # 0 /\ carried[d] <= history
      BY <2>1 DEF TypeOK, Once
    <3>7. \A s \in Sockets : \A a \in got'[s] : a <= history
      BY <3>5, <3>6 DEF Once
    <3>8. \A i \in 1..Len(channel), s \in Sockets : channel[i] \notin got'[s]
      BY <3>5 DEF Once
    <3>9. ASSUME caster = "cast", NEW s \in Sockets
          PROVE  carried["caster"] \notin got'[s]
      <4>1. d # "caster"
        BY <2>1, <3>9 DEF Once
      <4>2. carried["caster"] # carried[d]
        BY <1>0, <3>9, <4>1 DEF Once, TypeOK
      <4> QED
        BY <3>5, <3>9, <4>2 DEF Once
    <3>10. ASSUME NEW e \in Deliverer, NEW s \in todo'[e]
           PROVE  carried[e] \notin got'[s]
      <4>1. s \in todo[e] /\ s \in Sockets /\ carried[e] # 0
        BY <2>2 DEF TypeOK
      <4>2. CASE e = d
        BY <2>2, <3>5, <4>1, <4>2 DEF Once
      <4>3. CASE e # d
        <5>1. carried[e] # carried[d]
          BY <1>0, <3>6, <4>1, <4>3 DEF Once
        <5> QED
          BY <3>5, <4>1, <5>1 DEF Once
      <4> QED
        BY <4>2, <4>3
    <3>11. caster # "deliver" => todo'["caster"] = {}
      BY <2>2, AlertsNumbered DEF Once
    <3> QED
      BY <2>1, <3>4, <3>7, <3>8, <3>9, <3>10, <3>11 DEF Once
  <2> QED
    BY <2>3, <2>4
<1>2. ASSUME NEW t \in Sockets, SendSlow(d, t)
      PROVE  Once'
  <2>1. /\ UNCHANGED <<history, channel, carried, caster, got, doubled>>
        /\ todo' = [todo EXCEPT ![d] = @ \ {t}]
    BY <1>2 DEF SendSlow
  <2>2. \A e \in Deliverer : todo'[e] \subseteq todo[e]
    BY <2>1 DEF TypeOK
  <2> QED
    BY <2>1, <2>2, UnsentKeeps DEF Unsent
<1>3. CASE Delivered(d)
  <2>1. /\ UNCHANGED <<history, channel, got, doubled>> /\ Done(d)
        /\ caster' = caster \/ (d = "caster" /\ caster' = "idle")
    BY <1>3 DEF Delivered
  <2>2. /\ carried'[d] = 0 /\ todo'[d] = {}
        /\ \A e \in Deliverer \ {d} : carried'[e] = carried[e] /\ todo'[e] = todo[e]
    BY <2>1, DoneType
  <2>3. /\ \A e \in Deliverer : carried'[e] <= history
        /\ \A i \in 1..Len(channel), e \in Deliverer : channel[i] # carried'[e]
        /\ \A e \in Deliverer : \A s \in todo'[e] : carried'[e] \notin got[s]
        /\ carried'["caster"] # 0 => carried'["caster"] # carried'["relay"]
    BY <1>0, <2>2, AlertsNumbered DEF Once
  <2>4. caster' # "deliver" => todo'["caster"] = {}
    BY <2>1, <2>2, AlertsNumbered DEF Once
  <2>5. caster' = "cast" => \A s \in Sockets : carried'["caster"] \notin got[s]
    <3> SUFFICES ASSUME caster' = "cast", NEW s \in Sockets
                 PROVE  carried'["caster"] \notin got[s]
      OBVIOUS
    <3>1. caster = "cast" /\ d # "caster"
      BY <1>3, <2>1 DEF Delivered
    <3> QED
      BY <2>2, <3>1, AlertsNumbered DEF Once
  <2> QED
    BY <2>1, <2>3, <2>4, <2>5 DEF Once
<1> QED
  BY <1>1, <1>2, <1>3

LEMMA OnceOthers ==
    ASSUME TypeOK, Once,
           \/ UNCHANGED vars \/ Subscribe \/ Restart
           \/ \E s \in Sockets : HandlerStep(s) \/ Reject(s) \/ KeepAlive(s) \/ Cut(s)
           \/ \E p \in Pages : \/ PageStep(p) \/ OnMessage(p) \/ NoTicket(p)
                               \/ UserReload(p) \/ Mount(p) \/ Unmount(p)
           \/ \E p \in Pages, i \in 1..MaxPending : RequestStep(p, i) \/ RequestFails(p, i)
    PROVE  Once'
<1> USE DEF server, job, sockets
<1>1. UNCHANGED <<history, channel, carried, caster, todo, doubled>>
  BY DEF vars, Subscribe, Restart, HandlerStep, Accept, Admit, Leave, Reject, KeepAlive, Cut,
         PageStep, Open, OnOpen, OnClose, Retry, OnMessage, NoTicket, UserReload, Mount,
         Unmount, RequestStep, Respond, Arrive, RequestFails
<1>2. got' = got \/ \E t \in Sockets : got' = [got EXCEPT ![t] = {}]
  BY DEF vars, Subscribe, Restart, HandlerStep, Accept, Admit, Leave, Reject, KeepAlive, Cut,
         PageStep, Open, OnOpen, OnClose, Retry, OnMessage, NoTicket, UserReload, Mount,
         Unmount, RequestStep, Respond, Arrive, RequestFails
<1>3. \A s \in Sockets : got'[s] \subseteq got[s]
  BY <1>2 DEF TypeOK
<1> QED
  BY <1>1, <1>3, UnsentKeeps DEF Unsent

LEMMA OnceCrash ==
    ASSUME TypeOK, Once, Crash
    PROVE  Once'
<1>1. /\ Len(channel') = 0 /\ history' = history /\ doubled' = doubled
      /\ caster' = "idle"
      /\ \A d \in Deliverer : carried'[d] = 0 /\ todo'[d] = {}
      /\ \A s \in Sockets : got'[s] = {}
  BY EmptySeq DEF Crash
<1>2. 1..Len(channel') = {}
  BY <1>1
<1> QED
  BY <1>1, <1>2, AlertsNumbered DEF Once

LEMMA HarmGrows ==
    ASSUME TypeOK, [Next]_vars
    PROVE  harm \subseteq harm'
BY DisturbType DEF Next, vars, trouble, pages, ServerStep, Raise, Backfill, PublishFails,
   RelayBreaks, Broadcast, Subscribe, Take, Restart, Delivered, Send, SendSlow, HandlerStep,
   Accept, Admit, Leave, Reject, KeepAlive, Cut, Crash, PageStep, Open, OnOpen, OnClose,
   Retry, NoTicket, OnMessage, UserReload, Mount, Unmount, RequestStep, Respond, Arrive,
   RequestFails

LEMMA OnceStep ==
    ASSUME OnceInv, [Next]_vars
    PROVE  OnceInv'
<1>1. TypeOK /\ TypeOK'
  BY TypeStep DEF OnceInv
<1> SUFFICES ASSUME "lost_ack" \notin harm'
             PROVE  Once'
  BY <1>1 DEF OnceInv
<1>2. Once
  BY <1>1, HarmGrows DEF OnceInv
<1>3. CASE Raise \/ Backfill
  BY <1>1, <1>2, <1>3, OnceRaise
<1>4. CASE Broadcast \/ PublishFails
  BY <1>1, <1>2, <1>4, OnceBroadcast
<1>5. CASE Take \/ RelayBreaks
  BY <1>1, <1>2, <1>5, OnceTake
<1>6. CASE \E d \in Deliverer :
              Delivered(d) \/ \E t \in Sockets : Send(d, t) \/ SendSlow(d, t)
  BY <1>1, <1>2, <1>6, OnceDelivery
<1>7. CASE Crash
  BY <1>1, <1>2, <1>7, OnceCrash
<1>8. CASE \/ UNCHANGED vars \/ Subscribe \/ Restart
           \/ \E s \in Sockets : HandlerStep(s) \/ Reject(s) \/ KeepAlive(s) \/ Cut(s)
           \/ \E p \in Pages : \/ PageStep(p) \/ OnMessage(p) \/ NoTicket(p)
                               \/ UserReload(p) \/ Mount(p) \/ Unmount(p)
           \/ \E p \in Pages, i \in 1..MaxPending : RequestStep(p, i) \/ RequestFails(p, i)
  BY <1>1, <1>2, <1>8, OnceOthers
<1> QED
  BY <1>3, <1>4, <1>5, <1>6, <1>7, <1>8 DEF Next, ServerStep

LEMMA OnceInit == Init => OnceInv
<1> SUFFICES ASSUME Init PROVE OnceInv
  OBVIOUS
<1>1. /\ Len(channel) = 0 /\ ~doubled /\ caster = "idle"
      /\ \A d \in Deliverer : carried[d] = 0 /\ todo[d] = {}
      /\ \A s \in Sockets : got[s] = {}
      /\ history = 0
  BY EmptySeq DEF Init
<1>2. 1..Len(channel) = {}
  BY <1>1
<1> QED
  BY <1>1, <1>2, TypeInit, AlertsNumbered DEF OnceInv, Once

\* No socket gets an alert twice though the processor and the relay both
\* deliver, unless publish raised after Redis had taken the message.
THEOREM AlertsDeliveredOnce == Spec => []DeliveredOnce
<1>1. OnceInv /\ [Next]_vars => OnceInv'
  BY OnceStep
<1>2. OnceInv => DeliveredOnce
  BY DEF OnceInv, Once, DeliveredOnce
<1> QED
  BY OnceInit, <1>1, <1>2, PTL DEF Spec
=============================================================================
