---------------------------- MODULE LiveTracking ----------------------------
(***************************************************************************)
(* Live tracking of deliveries (delivery/ws.py and _publish in             *)
(* delivery/service.py).  The courier's requests save the delivery and     *)
(* publish it to a Redis channel; a connection reads the delivery,         *)
(* subscribes, sends what it read and then forwards what is published.     *)
(* Redis applies a subscription some time after the command was sent.      *)
(***************************************************************************)
EXTENDS Coroutines, Sequences

CONSTANTS
  Connections,
  TrackOf,      \* the delivery that each connection is about
  LastStatus,   \* bound: delivered, the fourth after assigned in the code
  MaxPoints     \* bound: how many positions a courier reports

ASSUME TrackingAssumption ==
  /\ TrackOf \in [Connections -> Keys]
  /\ LastStatus \in Nat /\ MaxPoints \in Nat

Deliveries == Keys

VARIABLES
  deliveries,   \* the collection: id -> document
  handler,      \* connection -> what its handler does next
  channel,      \* connection -> is it subscribed, as Redis sees it?
  inbox,        \* connection -> messages that wait for the handler
  view,         \* connection -> what its client was last shown, or None
  present,      \* the connections whose client is still there
  heard         \* history: the connections to which a message was delivered

connection == <<handler, channel, inbox, view, present, heard>>
vars == <<deliveries, handler, channel, inbox, view, present, heard, req, history>>

\* The statuses in the order of DELIVERY_ADVANCE.
DeliveryStatus == 0..LastStatus

Delivery == [status : DeliveryStatus, point : 0..MaxPoints]

Init ==
  /\ CoroutinesInit
  /\ deliveries = [d \in Deliveries |-> [status |-> 0, point |-> 0]]
  /\ handler = [c \in Connections |-> [pc |-> "connect"]]
  /\ channel = [c \in Connections |-> "none"]
  /\ inbox = [c \in Connections |-> << >>]
  /\ view = [c \in Connections |-> None]
  /\ present = Connections
  /\ heard = {}

-----------------------------------------------------------------------------
(* The courier's requests *)

Hold(label, d, delivery) == [pc |-> label, key |-> d, delivery |-> delivery]

AdvanceStatus(s, d) ==
  /\ Free(s)
  /\ deliveries[d].status + 1 \in DeliveryStatus
  /\ Start(s, Hold("save", d, [deliveries[d] EXCEPT !.status = @ + 1]))
  /\ UNCHANGED <<deliveries, connection>>

UpdateLocation(s, d) ==
  /\ Free(s)
  /\ deliveries[d].point < MaxPoints
  /\ Start(s, Hold("save", d, [deliveries[d] EXCEPT !.point = @ + 1]))
  /\ UNCHANGED <<deliveries, connection>>

SaveDelivery(s) ==
  /\ At(s, "save")
  /\ deliveries' = Put(deliveries, req[s].key, req[s].delivery)
  /\ Goto(s, [req[s] EXCEPT !.pc = "publish"])
  /\ UNCHANGED connection

Subscribers(d) == {c \in Connections : TrackOf[c] = d /\ channel[c] = "subscribed"}

\* Mutant: the newest message is delivered first.
PublishFirst(s) ==
  /\ At(s, "publish")
  /\ inbox' = [c \in Connections |->
                 IF c \in Subscribers(req[s].key) THEN <<req[s].delivery>> \o inbox[c]
                                                  ELSE inbox[c]]
  /\ heard' = heard \cup Subscribers(req[s].key)
  /\ Finish(s)
  /\ UNCHANGED <<deliveries, handler, channel, view, present>>

\* Mutant: only changes of the status are published.
PublishStatusOnly(s) ==
  /\ At(s, "publish")
  /\ LET news == [req[s].delivery EXCEPT !.point = 0]
         to == Subscribers(req[s].key)
     IN  /\ inbox' = [c \in Connections |-> IF c \in to THEN Append(inbox[c], news) ELSE inbox[c]]
         /\ heard' = heard \cup to
  /\ Finish(s)
  /\ UNCHANGED <<deliveries, handler, channel, view, present>>

Publish(s) ==
  /\ At(s, "publish")
  /\ inbox' = [c \in Connections |->
                 IF c \in Subscribers(req[s].key) THEN Append(inbox[c], req[s].delivery)
                                                  ELSE inbox[c]]
  /\ heard' = heard \cup Subscribers(req[s].key)
  /\ Finish(s)
  /\ UNCHANGED <<deliveries, handler, channel, view, present>>

-----------------------------------------------------------------------------
(* The handler of a connection *)

HandlerAt(c, label) == handler[c].pc = label

Proceed(c, h) == handler' = [handler EXCEPT ![c] = h]

End(c) == Proceed(c, [pc |-> "ended"])

\* get_delivery: the delivery that the snapshot will show.
Connect(c) ==
  /\ HandlerAt(c, "connect")
  /\ Proceed(c, [pc |-> "subscribe", delivery |-> deliveries[TrackOf[c]]])
  /\ UNCHANGED <<deliveries, channel, inbox, view, present, heard, req, history>>

\* SUBSCRIBE is written to the connection with Redis; nobody waits for an answer.
Subscribe(c) ==
  /\ HandlerAt(c, "subscribe")
  /\ channel' = [channel EXCEPT ![c] = "sent"]
  /\ Proceed(c, [handler[c] EXCEPT !.pc = "snapshot"])
  /\ UNCHANGED <<deliveries, inbox, view, present, heard, req, history>>

RedisSubscribes(c) ==
  /\ channel[c] = "sent"
  /\ channel' = [channel EXCEPT ![c] = "subscribed"]
  /\ UNCHANGED <<deliveries, handler, inbox, view, present, heard, req, history>>

\* The snapshot is sent outside of the try: when the client has left, the
\* handler ends without unsubscribing.
SendSnapshot(c) ==
  /\ HandlerAt(c, "snapshot")
  /\ IF c \in present
       THEN /\ view' = [view EXCEPT ![c] = handler[c].delivery]
            /\ Proceed(c, [pc |-> "listen"])
       ELSE End(c) /\ UNCHANGED view
  /\ UNCHANGED <<deliveries, channel, inbox, present, heard, req, history>>

\* Mutant: the handler that finds the client gone does not unsubscribe.
ForwardNoFinally(c) ==
  /\ HandlerAt(c, "listen")
  /\ inbox[c] # << >>
  /\ IF c \in present
       THEN /\ view' = [view EXCEPT ![c] = Head(inbox[c])]
            /\ inbox' = [inbox EXCEPT ![c] = Tail(@)]
            /\ UNCHANGED <<handler, channel>>
       ELSE End(c) /\ UNCHANGED <<view, channel, inbox>>
  /\ UNCHANGED <<deliveries, present, heard, req, history>>

\* A handler learns that the client has left when it sends to it.
Forward(c) ==
  /\ HandlerAt(c, "listen")
  /\ inbox[c] # << >>
  /\ IF c \in present
       THEN /\ view' = [view EXCEPT ![c] = Head(inbox[c])]
            /\ inbox' = [inbox EXCEPT ![c] = Tail(@)]
            /\ UNCHANGED <<handler, channel>>
       ELSE /\ channel' = [channel EXCEPT ![c] = "none"]
            /\ inbox' = [inbox EXCEPT ![c] = << >>]
            /\ End(c)
            /\ UNCHANGED view
  /\ UNCHANGED <<deliveries, present, heard, req, history>>

\* The client closes the page.
Leave(c) ==
  /\ c \in present
  /\ present' = present \ {c}
  /\ UNCHANGED <<deliveries, handler, channel, inbox, view, heard, req, history>>

-----------------------------------------------------------------------------
Begin(s) == \E d \in Deliveries : AdvanceStatus(s, d) \/ UpdateLocation(s, d)

Serve(s) == SaveDelivery(s) \/ Publish(s)

Handle(c) == Subscribe(c) \/ SendSnapshot(c) \/ Forward(c)

\* The coroutine stops, or Redis does not take the message, which _publish logs.
Fail(s) == Crash(s) /\ UNCHANGED <<deliveries, connection>>

Next ==
  \/ \E s \in Slots : Begin(s) \/ Serve(s) \/ Fail(s)
  \/ \E c \in Connections : Connect(c) \/ Handle(c) \/ RedisSubscribes(c) \/ Leave(c)

Spec == Init /\ [][Next]_vars

-----------------------------------------------------------------------------
(* Properties *)

Held == {Idle} \cup [pc : {"save", "publish"}, key : Deliveries, delivery : Delivery]

TypeOK ==
  /\ deliveries \in [Deliveries -> Delivery]
  /\ handler \in [Connections -> [pc : {"connect", "listen", "ended"}] \cup
                                 [pc : {"subscribe", "snapshot"}, delivery : Delivery]]
  /\ channel \in [Connections -> {"none", "sent", "subscribed"}]
  /\ inbox \in [Connections -> Seq(Delivery)]
  /\ view \in [Connections -> Maybe(Delivery)]
  /\ present \subseteq Connections
  /\ heard \subseteq Connections
  /\ req \in [Slots -> Held]
  /\ overlapped \subseteq Deliveries
  /\ dropped \subseteq Deliveries

\* Nothing of delivery d is under way, and nothing went wrong with it so far.
Settled(d) == Quiet(d) /\ Alone(d) /\ d \notin dropped

Streaming(c) ==
  HandlerAt(c, "listen") /\ c \in present /\ channel[c] = "subscribed" /\ inbox[c] = << >>

\* A client that was sent one update is never behind again: when the courier's
\* requests are done and the inbox is empty, it is shown what is stored.
HeardIsUpToDate ==
  \A c \in heard : Settled(TrackOf[c]) /\ Streaming(c) => view[c] = deliveries[TrackOf[c]]

\* A map does not jump back: the snapshot and the messages that follow it show
\* a delivery moving forward, as long as the courier's requests do not overlap.
Behind(a, b) == a.status < b.status \/ a.point < b.point
NeverGoesBack ==
  [][\A c \in Connections :
       (Alone(TrackOf[c]) /\ view[c] # None) => ~Behind(view'[c], view[c])]_view

\* No subscription outlives the handler that made it (the finally clause),
\* except when the client left before the snapshot was sent to it.
NoOrphans ==
  \A c \in Connections :
    (HandlerAt(c, "ended") /\ channel[c] # "none") => view[c] = None

\* "Subscribe BEFORE sending the snapshot so no update published between the
\* snapshot and the subscription is missed" (delivery/ws.py:78-79): when all is
\* quiet, every client that is streaming is shown what is stored.
SnapshotMissesNothing ==
  \A c \in Connections :
    Settled(TrackOf[c]) /\ Streaming(c) => view[c] = deliveries[TrackOf[c]]
=============================================================================
