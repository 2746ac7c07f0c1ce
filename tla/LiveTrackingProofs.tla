------------------------- MODULE LiveTrackingProofs -------------------------
(***************************************************************************)
(* Theorems about live tracking, for any number of deliveries, connections *)
(* and courier's requests, with crashes and publications that are lost.    *)
(***************************************************************************)
EXTENDS LiveTracking, CoroutineProofs

\* The labels of a handler that has not shown anything yet.
Early == {"connect", "subscribe", "snapshot"}

DeliveryHeld == [pc : {"save", "publish"}, key : Deliveries, delivery : Delivery]
Handler == [pc : {"connect", "listen", "ended"}] \cup
           [pc : {"subscribe", "snapshot"}, delivery : Delivery]

Base == TypeOK /\ CoroutinesInv

-----------------------------------------------------------------------------
(* The inductive invariant *)

\* A delivery only moves forward, in its status and in the courier's position.
AtMost(a, b) == a.status <= b.status /\ a.point <= b.point

\* Unless somebody else is at work on the delivery, what is about to be saved
\* is ahead of what is stored, and what is about to be published is stored.
SlotGood(r) ==
  Alone(r.key) =>
    /\ r.pc = "save" => AtMost(deliveries[r.key], r.delivery)
    /\ r.pc = "publish" => r.delivery = deliveries[r.key]

Publishing(d) == \E s \in Slots : At(s, "publish") /\ req[s].key = d

Sound(d) == Alone(d) /\ d \notin dropped

\* A message waits for whoever was heard early; nobody unsubscribes but the
\* handler that ends.
ChannelGood(c) ==
  /\ handler[c].pc \in Early => view[c] = None /\ (c \in heard => inbox[c] # << >>)
  /\ handler[c].pc \in {"connect", "subscribe"} => channel[c] = "none" /\ inbox[c] = << >>
  /\ handler[c].pc = "ended" => channel[c] = "none" \/ view[c] = None
  /\ c \in heard /\ handler[c].pc # "ended" => channel[c] = "subscribed"

\* What the client was shown, the snapshot it will be shown, the messages that
\* wait for it and what is stored follow one another.
Ordered(c) ==
  Alone(TrackOf[c]) =>
    /\ \A i \in 1..Len(inbox[c]) : AtMost(inbox[c][i], deliveries[TrackOf[c]])
    /\ \A i, j \in 1..Len(inbox[c]) : i < j => AtMost(inbox[c][i], inbox[c][j])
    /\ view[c] # None =>
         /\ AtMost(view[c], deliveries[TrackOf[c]])
         /\ \A i \in 1..Len(inbox[c]) : AtMost(view[c], inbox[c][i])
    /\ handler[c].pc \in {"subscribe", "snapshot"} =>
         /\ AtMost(handler[c].delivery, deliveries[TrackOf[c]])
         /\ \A i \in 1..Len(inbox[c]) : AtMost(handler[c].delivery, inbox[c][i])

\* When nothing is about to be published, the last message, or what the client
\* was shown when there is none, is what is stored.
Fresh(c) ==
  c \in heard /\ Sound(TrackOf[c]) /\ ~Publishing(TrackOf[c]) /\ handler[c].pc # "ended" =>
    /\ inbox[c] # << >> => inbox[c][Len(inbox[c])] = deliveries[TrackOf[c]]
    /\ inbox[c] = << >> => view[c] = deliveries[TrackOf[c]]

ConnectionGood(c) == ChannelGood(c) /\ Ordered(c) /\ Fresh(c)

IInv ==
  /\ Base
  /\ \A s \in Slots : SlotGood(req[s])
  /\ \A c \in Connections : ConnectionGood(c)

-----------------------------------------------------------------------------
LEMMA HeldIs == Held = {Idle} \cup DeliveryHeld
  BY DEF Held, DeliveryHeld

LEMMA AtMostTransitive ==
  ASSUME NEW a \in Delivery, NEW b \in Delivery, NEW c \in Delivery, AtMost(a, b), AtMost(b, c)
  PROVE  AtMost(a, c)
  BY TrackingAssumption DEF AtMost, Delivery, DeliveryStatus

LEMMA AtMostReflexive ==
  ASSUME NEW a \in Delivery
  PROVE  AtMost(a, a)
  BY TrackingAssumption DEF AtMost, Delivery, DeliveryStatus

\* What the types say of one connection.
LEMMA ConnectionTypes ==
  ASSUME TypeOK, NEW c \in Connections
  PROVE  /\ handler[c] \in Handler
         /\ inbox[c] \in Seq(Delivery)
         /\ view[c] \in Maybe(Delivery)
         /\ TrackOf[c] \in Deliveries
         /\ deliveries[TrackOf[c]] \in Delivery
         /\ handler[c].pc \in {"subscribe", "snapshot"} => handler[c].delivery \in Delivery
         /\ \A i \in 1..Len(inbox[c]) : inbox[c][i] \in Delivery
  <1>1. /\ handler[c] \in Handler
        /\ inbox[c] \in Seq(Delivery)
        /\ view[c] \in Maybe(Delivery)
    BY DEF TypeOK, Handler
  <1>2. TrackOf[c] \in Deliveries
    BY TrackingAssumption DEF Deliveries
  <1>3. deliveries[TrackOf[c]] \in Delivery
    BY <1>2 DEF TypeOK
  <1>4. handler[c].pc \in {"subscribe", "snapshot"} => handler[c].delivery \in Delivery
    BY <1>1 DEF Handler
  <1>5. \A i \in 1..Len(inbox[c]) : inbox[c][i] \in Delivery
    BY <1>1
  <1> QED
    BY <1>1, <1>2, <1>3, <1>4, <1>5

\* Other slots keep what they hold while only d's delivery is written.
LEMMA SlotsFollow ==
  ASSUME IInv, NEW s \in Slots, NEW r, Holds(s, r), NEW d,
         \A e \in Deliveries : e # d => deliveries'[e] = deliveries[e],
         UNCHANGED deliveries \/ (d = req[s].key /\ ~Free(s)),
         \A k : Alone(k)' => Alone(k),
         SlotGood(r)'
  PROVE  \A t \in Slots : SlotGood(req[t])'
  <1> SUFFICES ASSUME NEW t \in Slots
               PROVE  SlotGood(req[t])'
    OBVIOUS
  <1>1. CASE t = s
    BY <1>1 DEF Holds
  <1>2. CASE t # s
    <2>1. PICK q : q = req[t]
      OBVIOUS
    <2>2. req'[t] = q /\ SlotGood(q)
      BY <1>2, <2>1 DEF Holds, IInv
    <2>3. CASE Free(t)
      BY <2>1, <2>2, <2>3 DEF Free, At, SlotGood
    <2>4. CASE ~Free(t)
      <3>1. q.key \in Deliveries
        BY <2>1, <2>4 DEF IInv, Base, CoroutinesInv, Keyed, Deliveries
      <3>2. Alone(q.key)' => Alone(q.key) /\ deliveries'[q.key] = deliveries[q.key]
        BY <1>2, <2>1, <2>4, <3>1, AloneIsSole DEF IInv, Base
      <3> QED
        BY <2>2, <3>2 DEF SlotGood
    <2> QED
      BY <2>3, <2>4
  <1> QED
    BY <1>1, <1>2

-----------------------------------------------------------------------------
(* Steps of a connection's handler, of Redis and of its client *)

ConnectionsOK ==
  /\ handler \in [Connections -> Handler]
  /\ channel \in [Connections -> {"none", "sent", "subscribed"}]
  /\ inbox \in [Connections -> Seq(Delivery)]
  /\ view \in [Connections -> Maybe(Delivery)]
  /\ present \subseteq Connections

\* Only connection c changes.
Only(c) ==
  /\ UNCHANGED <<deliveries, heard, req, overlapped, dropped>>
  /\ \A k \in Connections \ {c} :
       /\ handler'[k] = handler[k] /\ channel'[k] = channel[k]
       /\ inbox'[k] = inbox[k] /\ view'[k] = view[k]

LEMMA ConnectionStep ==
  ASSUME IInv, NEW c \in Connections, Only(c), ConnectionsOK', ConnectionGood(c)'
  PROVE  IInv'
  <1>1. Base'
    BY DEF IInv, Base, TypeOK, ConnectionsOK, Handler, Only, CoroutinesInv, Keyed, SoleOwner, Free, At
  <1>2. \A s \in Slots : SlotGood(req[s])'
    BY DEF IInv, SlotGood, Only, Alone
  <1>3. ASSUME NEW k \in Connections, k # c
        PROVE  ConnectionGood(k)'
    <2>1. /\ handler'[k] = handler[k] /\ channel'[k] = channel[k]
          /\ inbox'[k] = inbox[k] /\ view'[k] = view[k]
          /\ deliveries' = deliveries /\ heard' = heard
      BY <1>3 DEF Only
    <2>2. /\ Alone(TrackOf[k])' = Alone(TrackOf[k]) /\ Sound(TrackOf[k])' = Sound(TrackOf[k])
          /\ Publishing(TrackOf[k])' = Publishing(TrackOf[k])
      BY DEF Only, Alone, Sound, Publishing, At
    <2>3. ChannelGood(k)'
      BY <2>1 DEF IInv, ConnectionGood, ChannelGood
    <2>4. Ordered(k)'
      BY <2>1, <2>2 DEF IInv, ConnectionGood, Ordered
    <2>5. Fresh(k)'
      BY <2>1, <2>2 DEF IInv, ConnectionGood, Fresh
    <2> QED
      BY <2>3, <2>4, <2>5 DEF ConnectionGood
  <1> QED
    BY <1>1, <1>2, <1>3 DEF IInv

\* What these steps leave alone.
LEMMA OnlyKeeps ==
  ASSUME NEW c, Only(c)
  PROVE  /\ deliveries' = deliveries /\ heard' = heard
         /\ \A d : Alone(d)' = Alone(d) /\ Sound(d)' = Sound(d) /\ Publishing(d)' = Publishing(d)
  BY DEF Only, Alone, Sound, Publishing, At

LEMMA ConnectIsGood ==
  ASSUME IInv, NEW c \in Connections, Connect(c)
  PROVE  IInv'
  <1>1. PICK h : h = [pc |-> "subscribe", delivery |-> deliveries[TrackOf[c]]]
    OBVIOUS
  <1>2. /\ handler[c].pc = "connect"
        /\ handler' = [handler EXCEPT ![c] = h]
        /\ UNCHANGED <<deliveries, channel, inbox, view, present, heard, req, overlapped, dropped>>
    BY <1>1 DEF Connect, HandlerAt, Proceed, history
  <1>3. deliveries[TrackOf[c]] \in Delivery
    BY ConnectionTypes DEF IInv, Base
  <1>4. h \in Handler /\ h.pc = "subscribe" /\ h.delivery = deliveries[TrackOf[c]]
    BY <1>1, <1>3 DEF Handler
  <1>5. ConnectionsOK'
    BY <1>2, <1>4 DEF ConnectionsOK, IInv, Base, TypeOK, Handler
  <1>6. handler'[c] = h /\ Only(c)
    BY <1>2 DEF Only, IInv, Base, TypeOK
  <1>7. ChannelGood(c)'
    BY <1>2, <1>4, <1>6 DEF IInv, ConnectionGood, ChannelGood, Early
  <1>8. Ordered(c)'
    <2> SUFFICES ASSUME Alone(TrackOf[c])
                 PROVE  Ordered(c)'
      BY <1>6, OnlyKeeps DEF Ordered
    <2>1. AtMost(h.delivery, deliveries[TrackOf[c]])
      BY <1>3, <1>4, AtMostReflexive
    <2>2. \A i \in 1..Len(inbox[c]) : AtMost(h.delivery, inbox[c][i])
      BY <1>2 DEF IInv, ConnectionGood, ChannelGood
    <2> QED
      BY <1>2, <1>6, <2>1, <2>2 DEF IInv, ConnectionGood, Ordered
  <1>9. Fresh(c)'
    BY <1>2, <1>4, <1>6, OnlyKeeps DEF IInv, ConnectionGood, Fresh
  <1> QED
    BY <1>5, <1>6, <1>7, <1>8, <1>9, ConnectionStep DEF ConnectionGood

LEMMA SubscribeIsGood ==
  ASSUME IInv, NEW c \in Connections, Subscribe(c)
  PROVE  IInv'
  <1>1. PICK h : h = [handler[c] EXCEPT !.pc = "snapshot"]
    OBVIOUS
  <1>2. /\ handler[c].pc = "subscribe"
        /\ handler' = [handler EXCEPT ![c] = h]
        /\ channel' = [channel EXCEPT ![c] = "sent"]
        /\ UNCHANGED <<deliveries, inbox, view, present, heard, req, overlapped, dropped>>
    BY <1>1 DEF Subscribe, HandlerAt, Proceed, history
  <1>3. handler[c] \in [pc : {"subscribe", "snapshot"}, delivery : Delivery]
    BY <1>2, ConnectionTypes DEF IInv, Base, Handler
  <1>4. h \in Handler /\ h.pc = "snapshot" /\ h.delivery = handler[c].delivery
    BY <1>1, <1>3 DEF Handler
  <1>5. ConnectionsOK'
    BY <1>2, <1>4 DEF ConnectionsOK, IInv, Base, TypeOK, Handler
  <1>6. handler'[c] = h /\ channel'[c] = "sent" /\ Only(c)
    BY <1>2 DEF Only, IInv, Base, TypeOK
  <1>7. ChannelGood(c)'
    BY <1>2, <1>4, <1>6 DEF IInv, ConnectionGood, ChannelGood, Early
  <1>8. Ordered(c)'
    BY <1>2, <1>4, <1>6, OnlyKeeps DEF IInv, ConnectionGood, Ordered
  <1>9. Fresh(c)'
    BY <1>2, <1>4, <1>6, OnlyKeeps DEF IInv, ConnectionGood, Fresh
  <1> QED
    BY <1>5, <1>6, <1>7, <1>8, <1>9, ConnectionStep DEF ConnectionGood

LEMMA RedisSubscribesIsGood ==
  ASSUME IInv, NEW c \in Connections, RedisSubscribes(c)
  PROVE  IInv'
  <1>1. /\ channel[c] = "sent"
        /\ channel' = [channel EXCEPT ![c] = "subscribed"]
        /\ UNCHANGED <<deliveries, handler, inbox, view, present, heard, req, overlapped, dropped>>
    BY DEF RedisSubscribes, history
  <1>2. ConnectionsOK'
    BY <1>1 DEF ConnectionsOK, IInv, Base, TypeOK, Handler
  <1>3. channel'[c] = "subscribed" /\ Only(c)
    BY <1>1 DEF Only, IInv, Base, TypeOK
  <1>4. ChannelGood(c)'
    BY <1>1, <1>3 DEF IInv, ConnectionGood, ChannelGood
  <1>5. Ordered(c)'
    BY <1>1, <1>3, OnlyKeeps DEF IInv, ConnectionGood, Ordered
  <1>6. Fresh(c)'
    BY <1>1, <1>3, OnlyKeeps DEF IInv, ConnectionGood, Fresh
  <1> QED
    BY <1>2, <1>3, <1>4, <1>5, <1>6, ConnectionStep DEF ConnectionGood

LEMMA SendSnapshotIsGood ==
  ASSUME IInv, NEW c \in Connections, SendSnapshot(c)
  PROVE  IInv'
  <1>1. /\ handler[c].pc = "snapshot"
        /\ UNCHANGED <<deliveries, channel, inbox, present, heard, req, overlapped, dropped>>
    BY DEF SendSnapshot, HandlerAt, history
  <1>2. handler[c].delivery \in Delivery /\ view[c] = None
    BY <1>1, ConnectionTypes DEF IInv, Base, ConnectionGood, ChannelGood, Early
  <1>3. PICK h : h = [pc |-> IF c \in present THEN "listen" ELSE "ended"]
    OBVIOUS
  <1>4. /\ handler' = [handler EXCEPT ![c] = h]
        /\ view' = IF c \in present THEN [view EXCEPT ![c] = handler[c].delivery] ELSE view
    BY <1>3 DEF SendSnapshot, Proceed, End
  <1>5. h \in Handler /\ h.pc = IF c \in present THEN "listen" ELSE "ended"
    BY <1>3 DEF Handler
  <1>6. ConnectionsOK'
    BY <1>1, <1>2, <1>4, <1>5 DEF ConnectionsOK, IInv, Base, TypeOK, Handler, Maybe
  <1>7. /\ handler'[c] = h /\ Only(c)
        /\ view'[c] = IF c \in present THEN handler[c].delivery ELSE None
    BY <1>1, <1>2, <1>4 DEF Only, IInv, Base, TypeOK
  <1>8. ChannelGood(c)'
    BY <1>1, <1>5, <1>7 DEF IInv, ConnectionGood, ChannelGood, Early
  <1>9. Ordered(c)'
    BY <1>1, <1>5, <1>7, OnlyKeeps DEF IInv, ConnectionGood, Ordered
  <1>10. Fresh(c)'
    BY <1>1, <1>5, <1>7, OnlyKeeps DEF IInv, ConnectionGood, Fresh, ChannelGood, Early
  <1> QED
    BY <1>6, <1>7, <1>8, <1>9, <1>10, ConnectionStep DEF ConnectionGood

LEMMA ForwardIsGood ==
  ASSUME IInv, NEW c \in Connections, Forward(c)
  PROVE  IInv'
  <1>1. /\ handler[c].pc = "listen" /\ inbox[c] # << >>
        /\ UNCHANGED <<deliveries, present, heard, req, overlapped, dropped>>
    BY DEF Forward, HandlerAt, history
  <1>2. PICK q : q = inbox[c]
    OBVIOUS
  <1>3. /\ q \in Seq(Delivery) /\ q # << >> /\ Head(q) = q[1] /\ Head(q) \in Delivery
        /\ Len(q) \in Nat \ {0}
    BY <1>1, <1>2, ConnectionTypes DEF IInv, Base
  <1>4. /\ Tail(q) \in Seq(Delivery) /\ Len(Tail(q)) = Len(q) - 1
        /\ \A i \in 1..Len(Tail(q)) : Tail(q)[i] = q[i + 1] /\ i + 1 \in 1..Len(q)
    BY <1>3
  <1>5. CASE c \in present
    <2>1. /\ view' = [view EXCEPT ![c] = Head(q)]
          /\ inbox' = [inbox EXCEPT ![c] = Tail(q)]
          /\ UNCHANGED <<handler, channel>>
      BY <1>2, <1>5 DEF Forward
    <2>2. ConnectionsOK'
      BY <1>1, <1>3, <1>4, <2>1 DEF ConnectionsOK, IInv, Base, TypeOK, Handler, Maybe
    <2>3. view'[c] = q[1] /\ inbox'[c] = Tail(q) /\ Only(c)
      BY <1>1, <1>3, <2>1 DEF Only, IInv, Base, TypeOK
    <2>4. ChannelGood(c)'
      BY <1>1, <2>1, <2>3 DEF IInv, ConnectionGood, ChannelGood, Early
    <2>5. Ordered(c)'
      <3> SUFFICES ASSUME Alone(TrackOf[c])
                   PROVE  Ordered(c)'
        BY <2>3, OnlyKeeps DEF Ordered
      <3>1. /\ \A i \in 1..Len(q) : AtMost(q[i], deliveries[TrackOf[c]])
            /\ \A i, j \in 1..Len(q) : i < j => AtMost(q[i], q[j])
        BY <1>2 DEF IInv, ConnectionGood, Ordered
      <3>2. \A i \in 1..Len(Tail(q)) : AtMost(Tail(q)[i], deliveries[TrackOf[c]])
        BY <1>4, <3>1
      <3>3. \A i, j \in 1..Len(Tail(q)) : i < j => AtMost(Tail(q)[i], Tail(q)[j])
        BY <1>4, <3>1
      <3>4. 1 \in 1..Len(q) /\ \A i \in 1..Len(Tail(q)) : 1 < i + 1
        BY <1>3, <1>4
      <3>5. /\ AtMost(q[1], deliveries[TrackOf[c]])
            /\ \A i \in 1..Len(Tail(q)) : AtMost(q[1], Tail(q)[i])
        BY <1>4, <3>1, <3>4
      <3> QED
        BY <1>1, <2>1, <2>3, <3>2, <3>3, <3>5 DEF Ordered
    <2>6. Fresh(c)'
      <3> SUFFICES ASSUME c \in heard, Sound(TrackOf[c]), ~Publishing(TrackOf[c])
                   PROVE  Fresh(c)'
        BY <2>3, OnlyKeeps DEF Fresh
      <3>1. q[Len(q)] = deliveries[TrackOf[c]]
        BY <1>1, <1>2 DEF IInv, ConnectionGood, Fresh
      <3>2. Tail(q) # << >> => Tail(q)[Len(Tail(q))] = q[Len(q)]
        BY <1>3, <1>4
      <3>3. Tail(q) = << >> => Len(q) = 1
        <4> SUFFICES ASSUME Tail(q) = << >>
                     PROVE  Len(q) = 1
          OBVIOUS
        <4>1. Len(<< >>) = 0
          OBVIOUS
        <4>2. Len(Tail(q)) = 0
          BY <4>1, Zenon
        <4>3. Len(q) - 1 = 0
          BY <1>4, <4>2, Zenon
        <4>4. PICK k \in Nat \ {0} : k = Len(q)
          BY <1>3
        <4>5. k - 1 = 0
          BY <4>3, <4>4, Zenon
        <4>6. k = 1
          BY <4>5
        <4> QED
          BY <4>4, <4>6, Zenon
      <3> QED
        BY <1>1, <2>3, <3>1, <3>2, <3>3 DEF Fresh
    <2> QED
      BY <2>2, <2>3, <2>4, <2>5, <2>6, ConnectionStep DEF ConnectionGood
  <1>6. CASE c \notin present
    <2>1. PICK h : h = [pc |-> "ended"]
      OBVIOUS
    <2>2. /\ handler' = [handler EXCEPT ![c] = h]
          /\ channel' = [channel EXCEPT ![c] = "none"]
          /\ inbox' = [inbox EXCEPT ![c] = << >>]
          /\ UNCHANGED view
      BY <1>6, <2>1 DEF Forward, End, Proceed
    <2>3. h \in Handler /\ h.pc = "ended"
      BY <2>1 DEF Handler
    <2>4. ConnectionsOK'
      BY <1>1, <2>2, <2>3 DEF ConnectionsOK, IInv, Base, TypeOK, Handler
    <2>5. handler'[c] = h /\ channel'[c] = "none" /\ inbox'[c] = << >> /\ Only(c)
      BY <1>1, <2>2 DEF Only, IInv, Base, TypeOK
    <2>6. ChannelGood(c)' /\ Fresh(c)'
      BY <2>3, <2>5 DEF ChannelGood, Fresh, Early
    <2>7. Ordered(c)'
      <3> SUFFICES ASSUME Alone(TrackOf[c])
                   PROVE  Ordered(c)'
        BY <2>5, OnlyKeeps DEF Ordered
      <3>1. view[c] # None => AtMost(view[c], deliveries[TrackOf[c]])
        BY DEF IInv, ConnectionGood, Ordered
      <3> QED
        BY <1>1, <2>2, <2>3, <2>5, <3>1 DEF Ordered
    <2> QED
      BY <2>4, <2>5, <2>6, <2>7, ConnectionStep DEF ConnectionGood
  <1> QED
    BY <1>5, <1>6

LEMMA LeaveIsGood ==
  ASSUME IInv, NEW c \in Connections, Leave(c)
  PROVE  IInv'
  <1>1. /\ UNCHANGED <<deliveries, handler, channel, inbox, view, heard, req, overlapped, dropped>>
        /\ present' \subseteq Connections
    BY DEF Leave, history, IInv, Base, TypeOK
  <1>2. ConnectionsOK' /\ Only(c)
    BY <1>1 DEF ConnectionsOK, Only, IInv, Base, TypeOK, Handler
  <1>3. ConnectionGood(c)'
    BY <1>1, <1>2, OnlyKeeps DEF IInv, ConnectionGood, ChannelGood, Ordered, Fresh
  <1> QED
    BY <1>2, <1>3, ConnectionStep

-----------------------------------------------------------------------------
(* Steps of the courier's requests *)

LEMMA CourierTypes ==
  ASSUME TypeOK, NEW s \in Slots, ~Free(s)
  PROVE  /\ req[s].pc \in {"save", "publish"}
         /\ req[s].key \in Deliveries
         /\ req[s].delivery \in Delivery
         /\ deliveries[req[s].key] \in Delivery
  <1>1. req[s] \in {Idle} \cup DeliveryHeld
    BY HeldIs DEF TypeOK
  <1>2. req[s] \in DeliveryHeld
    BY <1>1 DEF Free, At, Idle
  <1>3. /\ req[s].pc \in {"save", "publish"}
        /\ req[s].key \in Deliveries
        /\ req[s].delivery \in Delivery
    BY <1>2 DEF DeliveryHeld
  <1> QED
    BY <1>3 DEF TypeOK

LEMMA CourierKeepsTypes ==
  ASSUME TypeOK, NEW s \in Slots, NEW r \in {Idle} \cup DeliveryHeld,
         req' = [req EXCEPT ![s] = r],
         deliveries' \in [Deliveries -> Delivery],
         inbox' \in [Connections -> Seq(Delivery)],
         heard' \subseteq Connections,
         UNCHANGED <<handler, channel, view, present>>,
         overlapped' \subseteq Deliveries, dropped' \subseteq Deliveries
  PROVE  TypeOK'
  <1>1. req' \in [Slots -> Held]
    BY HeldIs DEF TypeOK
  <1> QED
    BY <1>1 DEF TypeOK

\* Nothing is sent: what a connection knows is still in order, and what it was
\* shown is as fresh as before, for what is stored did not change.
LEMMA ConnectionFollows ==
  ASSUME IInv, Base', UNCHANGED connection, NEW c \in Connections,
         Alone(TrackOf[c])' =>
           Alone(TrackOf[c]) /\ AtMost(deliveries[TrackOf[c]], deliveries'[TrackOf[c]]),
         Sound(TrackOf[c])' /\ ~Publishing(TrackOf[c])' =>
           /\ Sound(TrackOf[c]) /\ ~Publishing(TrackOf[c])
           /\ deliveries'[TrackOf[c]] = deliveries[TrackOf[c]]
  PROVE  ConnectionGood(c)'
  <1>1. UNCHANGED <<handler, channel, inbox, view, heard>>
    BY DEF connection
  <1>2. ChannelGood(c)'
    BY <1>1 DEF IInv, ConnectionGood, ChannelGood
  <1>3. Ordered(c)'
    <2> SUFFICES ASSUME Alone(TrackOf[c])'
                 PROVE  Ordered(c)'
      BY DEF Ordered
    <2>1. PICK old, new : old = deliveries[TrackOf[c]] /\ new = deliveries'[TrackOf[c]]
      OBVIOUS
    <2>2. old \in Delivery /\ new \in Delivery /\ AtMost(old, new)
      BY <2>1, ConnectionTypes DEF IInv, Base, TypeOK
    <2>3. /\ \A i \in 1..Len(inbox[c]) : AtMost(inbox[c][i], old)
          /\ \A i, j \in 1..Len(inbox[c]) : i < j => AtMost(inbox[c][i], inbox[c][j])
          /\ view[c] # None =>
               /\ AtMost(view[c], old)
               /\ \A i \in 1..Len(inbox[c]) : AtMost(view[c], inbox[c][i])
          /\ handler[c].pc \in {"subscribe", "snapshot"} =>
               /\ AtMost(handler[c].delivery, old)
               /\ \A i \in 1..Len(inbox[c]) : AtMost(handler[c].delivery, inbox[c][i])
      BY <2>1 DEF IInv, ConnectionGood, Ordered
    <2>4. /\ \A i \in 1..Len(inbox[c]) : AtMost(inbox[c][i], new)
          /\ view[c] # None => AtMost(view[c], new)
          /\ handler[c].pc \in {"subscribe", "snapshot"} => AtMost(handler[c].delivery, new)
      BY <2>2, <2>3, ConnectionTypes, AtMostTransitive DEF IInv, Base, Maybe
    <2> QED
      BY <1>1, <2>1, <2>3, <2>4 DEF Ordered
  <1>4. Fresh(c)'
    BY <1>1 DEF IInv, ConnectionGood, Fresh
  <1> QED
    BY <1>2, <1>3, <1>4 DEF ConnectionGood

\* A request of the courier begins with a delivery that moves forward.
LEMMA StartIsGood ==
  ASSUME IInv, NEW s \in Slots, Free(s), NEW d \in Deliveries, NEW new \in Delivery,
         AtMost(deliveries[d], new), Start(s, Hold("save", d, new)),
         UNCHANGED <<deliveries, connection>>
  PROVE  IInv'
  <1>1. PICK r : r = Hold("save", d, new)
    OBVIOUS
  <1>2. r \in DeliveryHeld /\ r.pc = "save" /\ r.key = d /\ r.delivery = new
    BY <1>1 DEF Hold, DeliveryHeld
  <1>3. Start(s, r)
    BY <1>1
  <1>4. CoroutinesInv /\ r.pc # "idle" /\ r.key \in Keys
    BY <1>2 DEF IInv, Base, Deliveries
  <1>5. /\ CoroutinesInv' /\ Holds(s, r) /\ dropped' = dropped
        /\ \A k : Alone(k)' => Alone(k)
    BY <1>3, <1>4, StartKeeps
  <1>6. TypeOK'
    <2>1. req' = [req EXCEPT ![s] = r] /\ overlapped' \subseteq Deliveries
      BY <1>2, <1>3 DEF Start, IInv, Base, TypeOK
    <2>2. UNCHANGED <<deliveries, handler, channel, inbox, view, present, heard>>
      BY DEF connection
    <2> QED
      BY <1>2, <1>5, <2>1, <2>2, CourierKeepsTypes DEF IInv, Base, TypeOK
  <1>7. SlotGood(r)'
    BY <1>2 DEF SlotGood
  <1>8. \A t \in Slots : SlotGood(req[t])'
    BY <1>5, <1>7, SlotsFollow
  <1>9. ASSUME NEW c \in Connections
        PROVE  ConnectionGood(c)'
    <2>1. PICK k : k = TrackOf[c]
      OBVIOUS
    <2>2. AtMost(deliveries[k], deliveries'[k])
      BY <2>1, ConnectionTypes, AtMostReflexive DEF IInv, Base
    <2>3. Publishing(k) => Publishing(k)'
      BY <1>5 DEF Publishing, At, Free, Holds
    <2>4. Sound(k)' => Sound(k)
      BY <1>5 DEF Sound
    <2> QED
      BY <1>5, <1>6, <2>1, <2>2, <2>3, <2>4, ConnectionFollows DEF Base
  <1> QED
    BY <1>5, <1>6, <1>8, <1>9 DEF IInv, Base

LEMMA BeginIsGood ==
  ASSUME IInv, NEW s \in Slots, Begin(s)
  PROVE  IInv'
  <1>1. PICK d \in Deliveries : AdvanceStatus(s, d) \/ UpdateLocation(s, d)
    BY DEF Begin
  <1>2. PICK old : old = deliveries[d]
    OBVIOUS
  <1>3. old \in Delivery
    BY <1>2 DEF IInv, Base, TypeOK
  <1>4. CASE AdvanceStatus(s, d)
    <2>1. PICK new : new = [old EXCEPT !.status = @ + 1]
      OBVIOUS
    <2>2. old.status + 1 \in DeliveryStatus
      BY <1>2, <1>4 DEF AdvanceStatus
    <2>3. new \in Delivery /\ AtMost(old, new)
      BY <1>3, <2>1, <2>2, TrackingAssumption DEF Delivery, DeliveryStatus, AtMost
    <2>4. Free(s) /\ Start(s, Hold("save", d, new)) /\ UNCHANGED <<deliveries, connection>>
      BY <1>2, <1>4, <2>1 DEF AdvanceStatus
    <2> QED
      BY <1>2, <2>3, <2>4, StartIsGood
  <1>5. CASE UpdateLocation(s, d)
    <2>1. PICK new : new = [old EXCEPT !.point = @ + 1]
      OBVIOUS
    <2>2. old.point < MaxPoints
      BY <1>2, <1>5 DEF UpdateLocation
    <2>3. new \in Delivery /\ AtMost(old, new)
      BY <1>3, <2>1, <2>2, TrackingAssumption DEF Delivery, DeliveryStatus, AtMost
    <2>4. Free(s) /\ Start(s, Hold("save", d, new)) /\ UNCHANGED <<deliveries, connection>>
      BY <1>2, <1>5, <2>1 DEF UpdateLocation
    <2> QED
      BY <1>2, <2>3, <2>4, StartIsGood
  <1> QED
    BY <1>1, <1>4, <1>5

LEMMA SaveDeliveryIsGood ==
  ASSUME IInv, NEW s \in Slots, SaveDelivery(s)
  PROVE  IInv'
  <1>1. PICK d, new, r : d = req[s].key /\ new = req[s].delivery /\ r = [req[s] EXCEPT !.pc = "publish"]
    OBVIOUS
  <1>2. ~Free(s) /\ req[s].pc = "save"
    BY DEF SaveDelivery, Free, At
  <1>3. d \in Deliveries /\ new \in Delivery /\ deliveries[d] \in Delivery
    BY <1>1, <1>2, CourierTypes DEF IInv, Base
  <1>4. /\ deliveries' = [deliveries EXCEPT ![d] = new]
        /\ req' = [req EXCEPT ![s] = r]
        /\ UNCHANGED <<connection, overlapped, dropped>>
    BY <1>1 DEF SaveDelivery, Put, Goto, history
  <1>5. r \in DeliveryHeld /\ r.pc = "publish" /\ r.key = d /\ r.delivery = new
    <2>1. req[s] \in DeliveryHeld
      BY <1>2, HeldIs DEF IInv, Base, TypeOK, Free, At, Idle
    <2> QED
      BY <1>1, <2>1 DEF DeliveryHeld
  <1>6. /\ deliveries' \in [Deliveries -> Delivery] /\ deliveries'[d] = new
        /\ \A e \in Deliveries : e # d => deliveries'[e] = deliveries[e]
    BY <1>3, <1>4 DEF IInv, Base, TypeOK
  <1>7. CoroutinesInv /\ r.pc # "idle" /\ r.key = req[s].key
    BY <1>1, <1>5 DEF IInv, Base
  <1>8. CoroutinesInv' /\ Holds(s, r) /\ (\A k : Alone(k)' = Alone(k))
    BY <1>2, <1>4, <1>7, StepKeeps
  <1>9. TypeOK'
    <2>1. UNCHANGED <<handler, channel, inbox, view, present, heard>>
      BY <1>4 DEF connection
    <2> QED
      BY <1>4, <1>5, <1>6, <2>1, CourierKeepsTypes DEF IInv, Base, TypeOK
  <1>10. SlotGood(r)'
    BY <1>5, <1>6 DEF SlotGood
  <1>11. \A t \in Slots : SlotGood(req[t])'
    BY <1>1, <1>2, <1>6, <1>8, <1>10, SlotsFollow
  <1>12. Alone(d) => AtMost(deliveries[d], new)
    BY <1>1, <1>2 DEF IInv, SlotGood
  <1>13. ASSUME NEW c \in Connections
         PROVE  ConnectionGood(c)'
    <2>1. PICK k : k = TrackOf[c]
      OBVIOUS
    <2>2. k \in Deliveries /\ deliveries[k] \in Delivery
      BY <2>1, ConnectionTypes DEF IInv, Base
    <2>3. Alone(k)' => Alone(k) /\ AtMost(deliveries[k], deliveries'[k])
      BY <1>6, <1>8, <1>12, <2>2, AtMostReflexive
    <2>4. Sound(k)' => Sound(k)
      BY <1>4, <1>8 DEF Sound
    <2>5. Publishing(d)'
      BY <1>5, <1>8 DEF Publishing, At, Holds
    <2>6. Publishing(k) => Publishing(k)'
      BY <1>2, <1>8 DEF Publishing, At, Holds
    <2>7. k # d => deliveries'[k] = deliveries[k]
      BY <1>6, <2>2
    <2> QED
      BY <1>4, <1>8, <1>9, <2>1, <2>3, <2>4, <2>5, <2>6, <2>7, ConnectionFollows DEF Base
  <1> QED
    BY <1>8, <1>9, <1>11, <1>13 DEF IInv, Base

LEMMA PublishIsGood ==
  ASSUME IInv, NEW s \in Slots, Publish(s)
  PROVE  IInv'
  <1>1. PICK d, m, to : d = req[s].key /\ m = req[s].delivery /\ to = Subscribers(req[s].key)
    OBVIOUS
  <1>2. ~Free(s) /\ req[s].pc = "publish"
    BY DEF Publish, Free, At
  <1>3. d \in Deliveries /\ m \in Delivery /\ to \subseteq Connections
    BY <1>1, <1>2, CourierTypes DEF IInv, Base, Subscribers
  <1>4. /\ inbox' = [c \in Connections |-> IF c \in to THEN Append(inbox[c], m) ELSE inbox[c]]
        /\ heard' = heard \cup to
        /\ req' = [req EXCEPT ![s] = Idle]
        /\ UNCHANGED <<deliveries, handler, channel, view, present, overlapped, dropped>>
    BY <1>1 DEF Publish, Finish, Goto, history
  <1>5. CoroutinesInv
    BY DEF IInv, Base
  <1>6. CoroutinesInv' /\ Holds(s, Idle) /\ (\A k : Alone(k)' = Alone(k))
    BY <1>2, <1>4, <1>5, EndKeeps
  <1>7. inbox' \in [Connections -> Seq(Delivery)]
    <2>1. \A c \in Connections : inbox[c] \in Seq(Delivery) /\ Append(inbox[c], m) \in Seq(Delivery)
      BY <1>3, ConnectionTypes DEF IInv, Base
    <2> QED
      BY <1>4, <2>1
  <1>8. TypeOK'
    BY <1>3, <1>4, <1>7, CourierKeepsTypes DEF IInv, Base, TypeOK
  <1>9. PICK r : r = Idle
    OBVIOUS
  <1>10. SlotGood(r)'
    BY <1>9, IdleIsFree DEF SlotGood
  <1>11. \A t \in Slots : SlotGood(req[t])'
    <2>1. Holds(s, r)
      BY <1>6, <1>9
    <2> QED
      BY <1>4, <1>6, <1>10, <2>1, SlotsFollow
  <1>12. Alone(d) => m = deliveries[d]
    BY <1>1, <1>2 DEF IInv, SlotGood
  <1>13. ASSUME NEW c \in Connections, c \notin to
         PROVE  ConnectionGood(c)'
    <2>1. /\ UNCHANGED <<deliveries, handler, channel, view>>
          /\ inbox'[c] = inbox[c] /\ (c \in heard' <=> c \in heard)
      BY <1>4, <1>13
    <2>2. PICK k : k = TrackOf[c]
      OBVIOUS
    <2>3. Alone(k)' = Alone(k) /\ Sound(k)' = Sound(k)
      BY <1>4, <1>6 DEF Sound
    <2>4. ChannelGood(c)'
      BY <2>1 DEF IInv, ConnectionGood, ChannelGood
    <2>5. Ordered(c)'
      BY <2>1, <2>2, <2>3 DEF IInv, ConnectionGood, Ordered
    <2>6. Fresh(c)'
      <3>1. CASE k = d
        <4>1. c \in heard => handler[c].pc = "ended"
          BY <1>1, <1>13, <2>2, <3>1 DEF Subscribers, IInv, ConnectionGood, ChannelGood
        <4> QED
          BY <2>1, <4>1 DEF Fresh
      <3>2. CASE k # d
        <4>1. Publishing(k) => Publishing(k)'
          BY <1>1, <1>6, <3>2 DEF Publishing, At, Holds
        <4> QED
          BY <2>1, <2>2, <2>3, <4>1 DEF IInv, ConnectionGood, Fresh
      <3> QED
        BY <3>1, <3>2
    <2> QED
      BY <2>4, <2>5, <2>6 DEF ConnectionGood
  <1>14. ASSUME NEW c \in to
         PROVE  ConnectionGood(c)'
    <2>1. c \in Connections /\ TrackOf[c] = d /\ channel[c] = "subscribed"
      BY <1>1 DEF Subscribers
    <2>2. PICK q, n : q = inbox[c] /\ n = Append(inbox[c], m)
      OBVIOUS
    <2>3. /\ UNCHANGED <<deliveries, handler, channel, view>>
          /\ inbox'[c] = n /\ c \in heard'
      BY <1>4, <2>1, <2>2
    <2>4. q \in Seq(Delivery)
      BY <2>1, <2>2, ConnectionTypes DEF IInv, Base
    <2>5. /\ n \in Seq(Delivery) /\ Len(n) = Len(q) + 1 /\ Len(q) \in Nat /\ n[Len(n)] = m
          /\ \A i \in 1..Len(q) : n[i] = q[i]
      BY <1>3, <2>2, <2>4
    <2>6. n # << >>
      <3>1. Len(<< >>) = 0
        OBVIOUS
      <3> SUFFICES ASSUME n = << >>
                   PROVE  FALSE
        OBVIOUS
      <3>2. Len(n) = 0
        BY <3>1, Zenon
      <3> QED
        BY <2>5, <3>2
    <2>7. ChannelGood(c)'
      BY <2>1, <2>3, <2>6 DEF IInv, ConnectionGood, ChannelGood, Early
    <2>8. Ordered(c)'
      <3> SUFFICES ASSUME Alone(d)
                   PROVE  Ordered(c)'
        BY <1>6, <2>1 DEF Ordered
      <3>1. m = deliveries[d] /\ AtMost(m, m)
        BY <1>3, <1>12, AtMostReflexive
      <3>2. /\ \A i \in 1..Len(q) : AtMost(q[i], m)
            /\ \A i, j \in 1..Len(q) : i < j => AtMost(q[i], q[j])
            /\ view[c] # None =>
                 /\ AtMost(view[c], m)
                 /\ \A i \in 1..Len(q) : AtMost(view[c], q[i])
            /\ handler[c].pc \in {"subscribe", "snapshot"} =>
                 /\ AtMost(handler[c].delivery, m)
                 /\ \A i \in 1..Len(q) : AtMost(handler[c].delivery, q[i])
        BY <2>1, <2>2, <3>1 DEF IInv, ConnectionGood, Ordered
      <3>3. \A i \in 1..Len(n) : i \in 1..Len(q) \/ i = Len(n)
        BY <2>5
      <3>4. \A i \in 1..Len(n) : AtMost(n[i], m)
        BY <2>5, <3>1, <3>2, <3>3
      <3>5. \A i, j \in 1..Len(n) : i < j => i \in 1..Len(q)
        BY <2>5
      <3>6. \A i, j \in 1..Len(n) : i < j => AtMost(n[i], n[j])
        BY <2>5, <3>2, <3>3, <3>5
      <3>7. /\ view[c] # None => \A i \in 1..Len(n) : AtMost(view[c], n[i])
            /\ handler[c].pc \in {"subscribe", "snapshot"} =>
                 \A i \in 1..Len(n) : AtMost(handler[c].delivery, n[i])
        BY <2>5, <3>2, <3>3
      <3> QED
        BY <2>1, <2>3, <3>1, <3>2, <3>4, <3>6, <3>7 DEF Ordered
    <2>9. Fresh(c)'
      BY <1>6, <1>12, <2>1, <2>3, <2>5, <2>6 DEF Fresh, Sound
    <2> QED
      BY <2>7, <2>8, <2>9 DEF ConnectionGood
  <1> QED
    BY <1>6, <1>8, <1>11, <1>13, <1>14 DEF IInv, Base

LEMMA FailIsGood ==
  ASSUME IInv, NEW s \in Slots, Fail(s)
  PROVE  IInv'
  <1>1. PICK d : d = req[s].key
    OBVIOUS
  <1>2. /\ ~Free(s) /\ req' = [req EXCEPT ![s] = Idle]
        /\ dropped' = dropped \cup {d}
        /\ UNCHANGED <<deliveries, connection, overlapped>>
    BY <1>1 DEF Fail, Crash
  <1>3. d \in Deliveries
    BY <1>1, <1>2, CourierTypes DEF IInv, Base
  <1>4. CoroutinesInv
    BY DEF IInv, Base
  <1>5. CoroutinesInv' /\ Holds(s, Idle) /\ (\A k : Alone(k)' = Alone(k))
    BY <1>2, <1>4, EndKeeps
  <1>6. TypeOK'
    <2>1. UNCHANGED <<handler, channel, inbox, view, present, heard>>
      BY <1>2 DEF connection
    <2> QED
      BY <1>2, <1>3, <2>1, CourierKeepsTypes DEF IInv, Base, TypeOK
  <1>7. PICK r : r = Idle
    OBVIOUS
  <1>8. SlotGood(r)'
    BY <1>7, IdleIsFree DEF SlotGood
  <1>9. \A t \in Slots : SlotGood(req[t])'
    <2>1. Holds(s, r)
      BY <1>5, <1>7
    <2> QED
      BY <1>2, <1>5, <1>8, <2>1, SlotsFollow
  <1>10. ASSUME NEW c \in Connections
         PROVE  ConnectionGood(c)'
    <2>1. PICK k : k = TrackOf[c]
      OBVIOUS
    <2>2. AtMost(deliveries[k], deliveries'[k])
      BY <1>2, <2>1, ConnectionTypes, AtMostReflexive DEF IInv, Base
    <2>3. Sound(k)' => Sound(k) /\ k # d
      BY <1>2, <1>5 DEF Sound
    <2>4. k # d => (Publishing(k) => Publishing(k)')
      BY <1>1, <1>5 DEF Publishing, At, Holds
    <2> QED
      BY <1>2, <1>5, <1>6, <2>1, <2>2, <2>3, <2>4, ConnectionFollows DEF Base
  <1> QED
    BY <1>5, <1>6, <1>9, <1>10 DEF IInv, Base

-----------------------------------------------------------------------------
LEMMA InitIsGood == Init => IInv
  <1> SUFFICES ASSUME Init
               PROVE  IInv
    OBVIOUS
  <1>1. /\ deliveries = [d \in Deliveries |-> [status |-> 0, point |-> 0]]
        /\ handler = [c \in Connections |-> [pc |-> "connect"]]
        /\ channel = [c \in Connections |-> "none"]
        /\ inbox = [c \in Connections |-> << >>]
        /\ view = [c \in Connections |-> None]
        /\ present = Connections /\ heard = {}
        /\ req = [s \in Slots |-> Idle] /\ overlapped = {} /\ dropped = {}
    BY DEF Init, CoroutinesInit
  <1>2. TypeOK
    <2>1. deliveries \in [Deliveries -> Delivery]
      BY <1>1, TrackingAssumption DEF Delivery, DeliveryStatus
    <2>2. handler \in [Connections -> Handler] /\ view \in [Connections -> Maybe(Delivery)]
      BY <1>1 DEF Handler, Maybe
    <2>3. inbox \in [Connections -> Seq(Delivery)]
      BY <1>1
    <2> QED
      BY <1>1, <2>1, <2>2, <2>3 DEF TypeOK, Held, Handler
  <1>3. CoroutinesInv
    BY InitiallyNobody DEF Init
  <1>4. \A s \in Slots : SlotGood(req[s])
    BY <1>1, IdleIsFree DEF SlotGood
  <1>5. ASSUME NEW c \in Connections
        PROVE  ConnectionGood(c)
    <2>1. handler[c].pc = "connect" /\ channel[c] = "none" /\ view[c] = None /\ c \notin heard
      BY <1>1
    <2>2. inbox[c] = << >> /\ Len(inbox[c]) = 0
      BY <1>1
    <2> QED
      BY <2>1, <2>2 DEF ConnectionGood, ChannelGood, Ordered, Fresh, Early
  <1> QED
    BY <1>2, <1>3, <1>4, <1>5 DEF IInv, Base

LEMMA StutterIsGood == IInv /\ UNCHANGED vars => IInv'
  <1> SUFFICES ASSUME IInv, UNCHANGED vars
               PROVE  IInv'
    OBVIOUS
  <1>1. UNCHANGED <<deliveries, handler, channel, inbox, view, present, heard, req, overlapped, dropped>>
    BY DEF vars, history
  <1>2. Base'
    BY <1>1 DEF IInv, Base, TypeOK, CoroutinesInv, Keyed, SoleOwner, Free, At
  <1>3. \A s \in Slots : SlotGood(req[s])'
    BY <1>1 DEF IInv, SlotGood, Alone
  <1>4. \A c \in Connections : ConnectionGood(c)'
    BY <1>1 DEF IInv, ConnectionGood, ChannelGood, Ordered, Fresh, Alone, Sound, Publishing, At
  <1> QED
    BY <1>2, <1>3, <1>4 DEF IInv

LEMMA NextIsGood == IInv /\ [Next]_vars => IInv'
  <1> SUFFICES ASSUME IInv, Next
               PROVE  IInv'
    BY StutterIsGood
  <1>1. CASE \E s \in Slots : Begin(s) \/ Serve(s) \/ Fail(s)
    BY <1>1, BeginIsGood, SaveDeliveryIsGood, PublishIsGood, FailIsGood DEF Serve
  <1>2. CASE \E c \in Connections : Connect(c) \/ Handle(c) \/ RedisSubscribes(c) \/ Leave(c)
    BY <1>2, ConnectIsGood, SubscribeIsGood, SendSnapshotIsGood, ForwardIsGood,
       RedisSubscribesIsGood, LeaveIsGood DEF Handle
  <1> QED
    BY <1>1, <1>2 DEF Next

\* The inductive invariant holds in every reachable state.
THEOREM InvIsInvariant == Spec => []IInv
  BY InitIsGood, NextIsGood, PTL DEF Spec

\* Documents, handlers, channels, inboxes and views keep their types.
THEOREM TypeIsCorrect == Spec => []TypeOK
  <1>1. IInv => TypeOK
    BY DEF IInv, Base
  <1> QED
    BY <1>1, InvIsInvariant, PTL

\* The finally clause of the handler: a subscription that outlives its handler
\* belongs to a client that left before the snapshot was sent to it.
THEOREM SubscriptionsEnd == Spec => []NoOrphans
  <1>1. IInv => NoOrphans
    BY DEF IInv, ConnectionGood, ChannelGood, NoOrphans, HandlerAt
  <1> QED
    BY <1>1, InvIsInvariant, PTL

\* _publish sends what was saved: a client that was sent one update is shown
\* what is stored whenever its inbox is empty and no request is under way.
THEOREM UpdatesArrive == Spec => []HeardIsUpToDate
  <1>1. IInv => HeardIsUpToDate
    <2> SUFFICES ASSUME IInv, NEW c \in heard, Settled(TrackOf[c]), Streaming(c)
                 PROVE  view[c] = deliveries[TrackOf[c]]
      BY DEF HeardIsUpToDate
    <2>1. c \in Connections
      BY DEF IInv, Base, TypeOK
    <2>2. Sound(TrackOf[c]) /\ ~Publishing(TrackOf[c])
      BY DEF Settled, Sound, Publishing, Quiet
    <2>3. handler[c].pc = "listen" /\ inbox[c] = << >>
      BY DEF Streaming, HandlerAt
    <2> QED
      BY <2>1, <2>2, <2>3 DEF IInv, ConnectionGood, Fresh
  <1> QED
    BY <1>1, InvIsInvariant, PTL

\* The handler forwards in the order of publication, after a snapshot that is
\* older than every message that waits: the map of a client never jumps back.
THEOREM MapsMoveForward == Spec => NeverGoesBack
  <1>1. IInv /\ [Next]_vars =>
          [\A c \in Connections :
             (Alone(TrackOf[c]) /\ view[c] # None) => ~Behind(view'[c], view[c])]_view
    <2> SUFFICES ASSUME IInv, Next, view' # view, NEW c \in Connections,
                        Alone(TrackOf[c]), view[c] # None
                 PROVE  ~Behind(view'[c], view[c])
      BY DEF vars
    <2>1. view[c] \in Delivery
      BY ConnectionTypes DEF IInv, Base, Maybe
    <2>2. CASE view'[c] = view[c]
      BY <2>1, <2>2, TrackingAssumption DEF Behind, Delivery, DeliveryStatus
    <2>3. CASE view'[c] # view[c]
      <3>1. PICK k \in Connections : SendSnapshot(k) \/ Forward(k)
        BY DEF Next, Begin, AdvanceStatus, UpdateLocation, Serve, SaveDelivery, Publish, Fail,
               Connect, Handle, Subscribe, RedisSubscribes, Leave, connection
      <3>2. view \in [Connections -> Maybe(Delivery)]
        BY DEF IInv, Base, TypeOK
      <3>3. k = c
        BY <2>3, <3>1, <3>2 DEF SendSnapshot, Forward
      <3>4. ~SendSnapshot(c)
        BY DEF SendSnapshot, HandlerAt, IInv, ConnectionGood, ChannelGood, Early
      <3>5. Forward(c)
        BY <3>1, <3>3, <3>4
      <3>6. inbox[c] # << >> /\ view'[c] = Head(inbox[c])
        BY <2>3, <3>2, <3>5 DEF Forward
      <3>7. inbox[c] \in Seq(Delivery)
        BY ConnectionTypes DEF IInv, Base
      <3>8. 1 \in 1..Len(inbox[c]) /\ Head(inbox[c]) = inbox[c][1] /\ inbox[c][1] \in Delivery
        BY <3>6, <3>7
      <3>9. AtMost(view[c], inbox[c][1])
        BY <3>8 DEF IInv, ConnectionGood, Ordered
      <3> QED
        BY <2>1, <3>6, <3>8, <3>9, TrackingAssumption
        DEF AtMost, Behind, Delivery, DeliveryStatus
    <2> QED
      BY <2>2, <2>3
  <1> QED
    BY <1>1, InvIsInvariant, PTL DEF Spec, NeverGoesBack
=============================================================================
