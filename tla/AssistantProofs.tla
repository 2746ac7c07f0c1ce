--------------------------- MODULE AssistantProofs ---------------------------
(***************************************************************************)
(* Theorems about the assistant, for any number of clients, orders and     *)
(* conversations, any limit on its calls and any number of requests, which *)
(* may crash.                                                              *)
(***************************************************************************)
EXTENDS Assistant, CoroutineProofs

Base == TypeOK /\ CoroutinesInv

-----------------------------------------------------------------------------
(* The inductive invariant *)

\* What a client may be told of: their own orders.
Told(u, readings) == \A x \in readings : OwnerOf[x.order] = u

Sound(conversation) ==
  \A i \in 1..Len(conversation.messages) :
    /\ conversation.messages[i].by = conversation.user
    /\ Told(conversation.user, conversation.messages[i].readings)

SlotGood(r) ==
  r.pc # "idle" =>
    /\ Told(r.user, r.readings)
    /\ r.pc = "model" => r.calls < MaxCalls
    /\ r.pc = "save" => r.conversation.user = r.user /\ Sound(r.conversation)
    /\ r.pc = "save" /\ Alone(r.key) => r.conversation = conversations[r.key]

ConversationGood(c) ==
  /\ conversations[c] = None => replies[c] = 0
  /\ conversations[c] # None =>
       /\ Sound(conversations[c])
       /\ Alone(c) => Len(conversations[c].messages) = replies[c]

NewestGood == \A u \in Users : newest[u] # None => OwnerOf[newest[u]] = u /\ orders[newest[u]] # None

\* An attempt has seen all that is true now, so what it reads next is timely.
Timely ==
  \A s \in Slots : ~Free(s) => req[s].readings \subseteq since[s] /\ Truths \subseteq since[s]

IInv ==
  /\ Base
  /\ Timely
  /\ NewestGood
  /\ \A s \in Slots : SlotGood(req[s])
  /\ \A c \in Conversations : ConversationGood(c)

-----------------------------------------------------------------------------
(* Types *)

Held == {Idle} \cup AgentHeld \cup SaveHeld

LEMMA HeldTypes ==
  ASSUME TypeOK, NEW s \in Slots, ~Free(s)
  PROVE  /\ req[s] \in AgentHeld \cup SaveHeld
         /\ req[s].pc = "save" => req[s] \in SaveHeld
         /\ req[s].pc # "save" => req[s] \in AgentHeld
         /\ req[s].key \in Conversations /\ req[s].user \in Users
         /\ req[s].readings \subseteq Reading
  <1>1. req[s] \in {Idle} \cup AgentHeld \cup SaveHeld
    BY DEF TypeOK
  <1>2. req[s] \in AgentHeld \cup SaveHeld
    BY <1>1 DEF Free, At, Idle
  <1>3. /\ \A r \in AgentHeld : /\ r.pc # "save" /\ r.key \in Conversations
                               /\ r.user \in Users /\ r.readings \subseteq Reading
        /\ \A r \in SaveHeld : /\ r.pc = "save" /\ r.key \in Conversations
                              /\ r.user \in Users /\ r.readings \subseteq Reading
    BY DEF AgentHeld, SaveHeld
  <1> QED
    BY <1>2, <1>3

\* How a step of slot s changes what the attempts have seen.
SeesOn(s) == UNCHANGED since \/ Begins(s) \/ Ends(s)

LEMMA TruthTypes == TypeOK => Truths \subseteq Reading
  BY DEF TypeOK, Truths, Reading, Maybe

LEMMA SinceTypes ==
  ASSUME TypeOK, NEW s \in Slots, SeesOn(s)
  PROVE  /\ since' \in [Slots -> SUBSET Reading]
         /\ \A t \in Slots : t # s => since'[t] = since[t]
         /\ Begins(s) => since'[s] = Truths
         /\ UNCHANGED since => since'[s] = since[s]
  BY TruthTypes DEF TypeOK, SeesOn, Begins, Ends

LEMMA TypesFollow ==
  ASSUME TypeOK, NEW s \in Slots, NEW r \in Held,
         req' = [req EXCEPT ![s] = r], UNCHANGED marketplace, SeesOn(s),
         conversations' \in [Conversations -> Maybe(Conversation)],
         replies' \in [Conversations -> Nat],
         overlapped' \subseteq Conversations, dropped' \subseteq Conversations
  PROVE  TypeOK'
  <1>1. req' \in [Slots -> Held]
    BY DEF TypeOK, Held
  <1>2. since' \in [Slots -> SUBSET Reading]
    BY SinceTypes
  <1> QED
    BY <1>1, <1>2 DEF TypeOK, Held, marketplace

LEMMA ConversationTypes ==
  ASSUME TypeOK, NEW c \in Conversations, conversations[c] # None
  PROVE  /\ conversations[c] \in Conversation
         /\ conversations[c].messages \in Seq(Exchange)
         /\ Len(conversations[c].messages) \in Nat
  BY DEF TypeOK, Maybe, Conversation

-----------------------------------------------------------------------------
(* What a step of slot s leaves as it was *)

LEMMA SlotsFollow ==
  ASSUME IInv, NEW s \in Slots, NEW r, Holds(s, r),
         NEW c, \A e \in Conversations : e # c => conversations'[e] = conversations[e],
         UNCHANGED conversations \/ (c = req[s].key /\ ~Free(s)),
         \A k : Alone(k)' => Alone(k),
         SlotGood(r)'
  PROVE  \A t \in Slots : SlotGood(req[t])'
  <1> SUFFICES ASSUME NEW t \in Slots
               PROVE  SlotGood(req[t])'
    OBVIOUS
  <1>1. CASE t = s
    BY <1>1 DEF Holds
  <1>2. CASE t # s
    <2>1. PICK q : q = req[t]
      OBVIOUS
    <2>2. req'[t] = q /\ SlotGood(q)
      BY <1>2, <2>1 DEF Holds, IInv
    <2>3. CASE Free(t)
      BY <2>1, <2>2, <2>3 DEF Free, At, SlotGood
    <2>4. CASE ~Free(t)
      <3>1. q.key \in Conversations
        BY <2>1, <2>4 DEF IInv, Base, CoroutinesInv, Keyed, Conversations
      <3>2. Alone(q.key)' => Alone(q.key) /\ conversations'[q.key] = conversations[q.key]
        BY <1>2, <2>1, <2>4, <3>1, AloneIsSole DEF IInv, Base
      <3> QED
        BY <2>2, <3>2 DEF SlotGood, Told, Sound
    <2> QED
      BY <2>3, <2>4
  <1> QED
    BY <1>1, <1>2

LEMMA ConversationFollows ==
  ASSUME IInv, NEW c \in Conversations,
         conversations'[c] = conversations[c], replies'[c] = replies[c],
         Alone(c)' => Alone(c)
  PROVE  ConversationGood(c)'
  BY DEF IInv, ConversationGood, Sound, Told

\* A slot that reads nothing new, or what is true now, remains timely.
LEMMA TimelyFollows ==
  ASSUME IInv, NEW s \in Slots, NEW r, Holds(s, r), UNCHANGED orders, SeesOn(s),
         \/ r.pc = "idle"
         \/ r.readings = {} /\ Begins(s)
         \/ ~Free(s) /\ r.readings \subseteq req[s].readings \cup Truths /\ UNCHANGED since
  PROVE  Timely'
  <1>1. TypeOK /\ Timely /\ Truths' = Truths
    BY DEF IInv, Base, Truths
  <1> SUFFICES ASSUME NEW t \in Slots, ~Free(t)'
               PROVE  (req[t].readings \subseteq since[t] /\ Truths \subseteq since[t])'
    BY DEF Timely
  <1>2. CASE t = s
    <2>1. req'[s] = r /\ r.pc # "idle"
      BY <1>2 DEF Holds, Free, At
    <2> QED
      BY <1>1, <1>2, <2>1, SinceTypes DEF Timely
  <1>3. CASE t # s
    <2>1. req'[t] = req[t] /\ ~Free(t) /\ since'[t] = since[t]
      BY <1>1, <1>3, SinceTypes DEF Holds, Free, At
    <2> QED
      BY <1>1, <2>1 DEF Timely
  <1> QED
    BY <1>2, <1>3

LEMMA NewestFollows == IInv /\ UNCHANGED marketplace => NewestGood'
  BY DEF IInv, NewestGood, marketplace

-----------------------------------------------------------------------------
(* The agent *)

\* What the tools say is about the caller's orders, as they are now.
LEMMA ReadingsAreOwn ==
  ASSUME IInv, NEW u \in Users, NEW said \in Readings(u), NEW x \in said
  PROVE  x \in Reading /\ OwnerOf[x.order] = u /\ x \in Truths
  <1>1. PICK asked \in Maybe(Orders) :
          said = {[order |-> o, status |-> orders[o]] : o \in Found(u, asked)}
    BY DEF Readings
  <1>2. PICK o \in Found(u, asked) : x = [order |-> o, status |-> orders[o]]
    BY <1>1
  <1>3. o \in Orders /\ OwnerOf[o] = u /\ orders[o] # None
    <2>1. o \in Orders /\ (o = newest[u] \/ (OwnerOf[o] = u /\ orders[o] # None))
      BY <1>2 DEF Found
    <2>2. o = newest[u] => OwnerOf[o] = u /\ orders[o] # None
      BY <2>1, AssistantAssumption DEF IInv, NewestGood
    <2> QED
      BY <2>1, <2>2
  <1>4. orders[o] \in Status
    BY <1>3 DEF IInv, Base, TypeOK, Maybe
  <1> QED
    BY <1>2, <1>3, <1>4 DEF Reading, Truths

LEMMA CountUp ==
  ASSUME NEW m \in Nat, NEW k \in 0..m, k < m
  PROVE  k + 1 \in 0..m
  OBVIOUS

LEMMA CountDown ==
  ASSUME NEW m \in Nat, NEW k \in 0..m, k > 1
  PROVE  k - 1 \in 0..m
  OBVIOUS

\* Every step of the agent keeps some of what was read, or reads anew.
LEMMA AgentStep ==
  ASSUME IInv, NEW s \in Slots, ~Free(s), req[s].pc # "save", NEW r \in AgentHeld, Goto(s, r),
         r.key = req[s].key, r.user = req[s].user, r.pc = "model" => r.calls < MaxCalls,
         UNCHANGED <<marketplace, conversations, replies>>,
         UNCHANGED since \/ (r.readings = {} /\ Begins(s)),
         \A x \in r.readings :
           \/ x \in req[s].readings
           \/ \E said \in Readings(req[s].user) : x \in said
  PROVE  IInv'
  <1>1. /\ req' = [req EXCEPT ![s] = r]
        /\ UNCHANGED <<orders, newest, conversations, replies, overlapped, dropped>>
    BY DEF Goto, history, marketplace
  <1>2. CoroutinesInv /\ r.pc \notin {"idle", "save"}
    BY DEF IInv, Base, AgentHeld
  <1>3. CoroutinesInv' /\ Holds(s, r) /\ (\A k : Alone(k)' = Alone(k))
    BY <1>1, <1>2, StepKeeps
  <1>4. TypeOK' /\ SeesOn(s)
    BY <1>1, TypesFollow DEF SeesOn, IInv, Base, TypeOK, Held, marketplace
  <1>5. PICK q, u, c : q = req[s] /\ u = q.user /\ c = q.key
    OBVIOUS
  <1>6. q.pc # "idle" /\ SlotGood(q) /\ c \in Conversations /\ u \in Users
    BY <1>5, HeldTypes DEF Free, At, IInv, Base
  <1>7. /\ r.readings \subseteq q.readings \cup Truths
        /\ \A x \in r.readings : x \in q.readings \/ OwnerOf[x.order] = u
    BY <1>5, <1>6, ReadingsAreOwn
  <1>8. SlotGood(r)'
    <2>1. r.user = u
      BY <1>5
    <2> QED
      BY <1>2, <1>5, <1>6, <1>7, <2>1 DEF SlotGood, Told
  <1>9. \A t \in Slots : SlotGood(req[t])'
    BY <1>1, <1>3, <1>8, SlotsFollow
  <1>10. \A d \in Conversations : ConversationGood(d)'
    BY <1>1, <1>3, ConversationFollows
  <1>11. Timely'
    BY <1>1, <1>3, <1>4, <1>5, <1>7, TimelyFollows
  <1> QED
    BY <1>3, <1>4, <1>9, <1>10, <1>11, NewestFollows DEF IInv, Base

LEMMA AgentIsGood ==
  ASSUME IInv, NEW s \in Slots,
         \/ ModelAnswers(s) \/ ModelCallsTools(s) \/ RunTool(s)
         \/ ProviderFails(s) \/ Fallback(s)
  PROVE  IInv'
  <1>1. PICK q : q = req[s]
    OBVIOUS
  <1>2. /\ q.pc \in {"model", "tool", "fallback"}
        /\ UNCHANGED <<marketplace, conversations, replies>>
    BY <1>1 DEF ModelAnswers, ModelCallsTools, RunTool, ProviderFails, Fallback, At
  <1>3. ~Free(s) /\ req[s].pc # "save" /\ q \in AgentHeld
    BY <1>1, <1>2, HeldTypes DEF Free, At, IInv, Base
  <1>4. \A said \in Readings(q.user) : said \subseteq Reading
    BY <1>1, <1>3, HeldTypes, ReadingsAreOwn DEF IInv, Base
  <1>5. q.pc = "model" => q.calls < MaxCalls
    BY <1>1, <1>2 DEF IInv, SlotGood
  <1>6. q.calls \in 0..MaxCalls /\ q.blocks \in 0..MaxBlocks /\ MaxCalls \in Nat /\ MaxBlocks \in Nat
    BY <1>3, AssistantAssumption DEF AgentHeld
  <1>7. PICK r : /\ Goto(s, r) /\ r \in AgentHeld /\ r.key = q.key /\ r.user = q.user
                 /\ r.pc = "model" => r.calls < MaxCalls
                 /\ \A x \in r.readings :
                      x \in q.readings \/ \E said \in Readings(q.user) : x \in said
                 /\ UNCHANGED since \/ (r.readings = {} /\ Begins(s))
    <2>1. CASE ModelAnswers(s)
      <3>1. PICK r : r = [q EXCEPT !.pc = "conversation", !.readings = q.readings]
        OBVIOUS
      <3>2. r \in AgentHeld /\ r.key = q.key /\ r.user = q.user /\ r.readings = q.readings
            /\ r.pc = "conversation"
        BY <1>3, <3>1 DEF AgentHeld
      <3>3. Goto(s, r)
        BY <1>1, <2>1, <3>1 DEF ModelAnswers, Conclude
      <3> QED
        BY <2>1, <3>2, <3>3 DEF ModelAnswers
    <2>2. CASE ModelCallsTools(s)
      <3>1. PICK n \in 1..MaxBlocks :
              Goto(s, [q EXCEPT !.pc = "tool", !.calls = @ + 1, !.blocks = n])
        BY <1>1, <2>2 DEF ModelCallsTools
      <3>2. PICK r : r = [q EXCEPT !.pc = "tool", !.calls = q.calls + 1, !.blocks = n]
        OBVIOUS
      <3>3. q.calls + 1 \in 0..MaxCalls /\ n \in 0..MaxBlocks
        <4>1. q.calls < MaxCalls
          BY <1>1, <1>5, <2>2 DEF ModelCallsTools, At
        <4> QED
          BY <1>6, <4>1, CountUp, <3>1
      <3>4. r \in AgentHeld /\ r.key = q.key /\ r.user = q.user /\ r.readings = q.readings
            /\ r.pc = "tool"
        BY <1>3, <3>2, <3>3 DEF AgentHeld
      <3> QED
        BY <2>2, <3>1, <3>2, <3>4 DEF ModelCallsTools
    <2>3. CASE RunTool(s)
      <3>1. PICK said \in Readings(q.user) :
              \/ /\ q.blocks > 1
                 /\ Goto(s, [q EXCEPT !.blocks = @ - 1, !.readings = @ \cup said])
              \/ /\ q.calls < MaxCalls
                 /\ Goto(s, [q EXCEPT !.pc = "model", !.readings = @ \cup said])
              \/ Goto(s, [q EXCEPT !.pc = "conversation", !.readings = {}])
        BY <1>1, <2>3 DEF RunTool, Conclude
      <3> UNCHANGED since
        BY <2>3 DEF RunTool
      <3>2. q.readings \cup said \subseteq Reading
        BY <1>3, <1>4 DEF AgentHeld
      <3>3. CASE q.blocks > 1 /\ Goto(s, [q EXCEPT !.blocks = @ - 1, !.readings = @ \cup said])
        <4>1. PICK r : r = [q EXCEPT !.blocks = q.blocks - 1, !.readings = q.readings \cup said]
          OBVIOUS
        <4>2. q.blocks - 1 \in 0..MaxBlocks /\ q.pc = "tool"
          <5>1. q.pc = "tool"
            BY <1>1, <2>3 DEF RunTool, At
          <5> QED
            BY <1>6, <3>3, <5>1, CountDown
        <4>3. r \in AgentHeld /\ r.key = q.key /\ r.user = q.user
              /\ r.readings = q.readings \cup said /\ r.pc = "tool"
          BY <1>3, <3>2, <4>1, <4>2 DEF AgentHeld
        <4> QED
          BY <3>3, <4>1, <4>3
      <3>4. CASE q.calls < MaxCalls /\ Goto(s, [q EXCEPT !.pc = "model", !.readings = @ \cup said])
        <4>1. PICK r : r = [q EXCEPT !.pc = "model", !.readings = q.readings \cup said]
          OBVIOUS
        <4>2. r \in AgentHeld /\ r.key = q.key /\ r.user = q.user
              /\ r.readings = q.readings \cup said /\ r.calls = q.calls
          BY <1>3, <3>2, <4>1 DEF AgentHeld
        <4> QED
          BY <3>4, <4>1, <4>2
      <3>5. CASE Goto(s, [q EXCEPT !.pc = "conversation", !.readings = {}])
        <4>1. PICK r : r = [q EXCEPT !.pc = "conversation", !.readings = {}]
          OBVIOUS
        <4>2. r \in AgentHeld /\ r.key = q.key /\ r.user = q.user /\ r.readings = {}
              /\ r.pc = "conversation"
          BY <1>3, <4>1 DEF AgentHeld
        <4> QED
          BY <3>5, <4>1, <4>2
      <3> QED
        BY <3>1, <3>3, <3>4, <3>5
    <2>4. CASE ProviderFails(s)
      <3>1. PICK r : r = [q EXCEPT !.pc = "fallback", !.readings = {}]
        OBVIOUS
      <3>2. r \in AgentHeld /\ r.key = q.key /\ r.user = q.user /\ r.readings = {}
            /\ r.pc = "fallback"
        BY <1>3, <3>1 DEF AgentHeld
      <3>3. Goto(s, r)
        BY <1>1, <2>4, <3>1 DEF ProviderFails
      <3> QED
        BY <2>4, <3>2, <3>3 DEF ProviderFails
    <2>5. CASE Fallback(s)
      <3>1. PICK said \in Readings(q.user) : Conclude(s, said)
        BY <1>1, <2>5 DEF Fallback
      <3>2. PICK r : r = [q EXCEPT !.pc = "conversation", !.readings = said]
        OBVIOUS
      <3>3. r \in AgentHeld /\ r.key = q.key /\ r.user = q.user /\ r.readings = said
            /\ r.pc = "conversation"
        BY <1>3, <1>4, <3>2 DEF AgentHeld
      <3>4. Goto(s, r)
        BY <1>1, <3>1, <3>2 DEF Conclude
      <3> QED
        BY <2>5, <3>3, <3>4 DEF Fallback
    <2> QED
      BY <2>1, <2>2, <2>3, <2>4, <2>5
  <1> QED
    BY <1>1, <1>2, <1>3, <1>7, AgentStep

-----------------------------------------------------------------------------
(* The conversation *)

\* A chat begins with nothing read.
LEMMA ChatIsGood ==
  ASSUME IInv, NEW s \in Slots, NEW c \in Conversations, NEW u \in Users, Chat(s, c, u)
  PROVE  IInv'
  <1>1. PICK r : r = Ask(c, u)
    OBVIOUS
  <1>2. r \in AgentHeld /\ r.pc = "model" /\ r.key = c /\ r.user = u /\ r.calls = 0 /\ r.readings = {}
    BY <1>1, AssistantAssumption DEF Ask, AgentHeld
  <1>3. /\ Free(s) /\ Start(s, r) /\ Begins(s) /\ SeesOn(s)
        /\ UNCHANGED <<orders, newest, conversations, replies>>
    BY <1>1 DEF Chat, SeesOn, marketplace
  <1>4. CoroutinesInv /\ r.pc # "idle" /\ r.key \in Keys
    BY <1>2 DEF IInv, Base, Conversations
  <1>5. /\ CoroutinesInv' /\ Holds(s, r) /\ dropped' = dropped
        /\ \A k : Alone(k)' => Alone(k)
    BY <1>3, <1>4, StartKeeps
  <1>6. TypeOK'
    <2>1. req' = [req EXCEPT ![s] = r] /\ overlapped' \subseteq Conversations
      BY <1>2, <1>3 DEF Start, IInv, Base, TypeOK
    <2>2. r \in Held
      BY <1>2 DEF Held
    <2> QED
      BY <1>3, <1>5, <2>1, <2>2, TypesFollow DEF IInv, Base, TypeOK, marketplace
  <1>7. SlotGood(r)'
    <2>1. Told(u, r.readings)'
      BY <1>2 DEF Told
    <2>2. 0 < MaxCalls
      BY AssistantAssumption
    <2> QED
      BY <1>2, <2>1, <2>2 DEF SlotGood
  <1>8. \A t \in Slots : SlotGood(req[t])'
    BY <1>3, <1>5, <1>7, SlotsFollow
  <1>9. \A d \in Conversations : ConversationGood(d)'
    BY <1>3, <1>5, ConversationFollows
  <1>10. Timely'
    BY <1>2, <1>3, <1>5, TimelyFollows
  <1> QED
    BY <1>3, <1>5, <1>6, <1>8, <1>9, <1>10, NewestFollows DEF IInv, Base, marketplace

\* A request that ends without having written.
LEMMA EndIsGood ==
  ASSUME IInv, NEW s \in Slots, ~Free(s),
         req' = [req EXCEPT ![s] = Idle], Ends(s),
         UNCHANGED <<orders, newest, conversations, replies, overlapped>>,
         dropped' \subseteq Conversations
  PROVE  IInv'
  <1>1. CoroutinesInv
    BY DEF IInv, Base
  <1>2. CoroutinesInv' /\ Holds(s, Idle) /\ (\A k : Alone(k)' = Alone(k))
    BY <1>1, EndKeeps
  <1>3. PICK r : r = Idle
    OBVIOUS
  <1>4. TypeOK'
    <2>1. Idle \in Held
      BY DEF Held
    <2> QED
      BY <2>1, TypesFollow DEF SeesOn, IInv, Base, TypeOK, marketplace
  <1>5. SlotGood(r)'
    BY <1>3, IdleIsFree DEF SlotGood
  <1>6. Holds(s, r)
    BY <1>2, <1>3
  <1>7. \A t \in Slots : SlotGood(req[t])'
    BY <1>2, <1>5, <1>6, SlotsFollow
  <1>8. \A d \in Conversations : ConversationGood(d)'
    BY <1>2, ConversationFollows
  <1>9. Timely'
    BY <1>3, <1>6, IdleIsFree, TimelyFollows DEF SeesOn
  <1> QED
    BY <1>2, <1>4, <1>7, <1>8, <1>9, NewestFollows DEF IInv, Base, marketplace

LEMMA FailIsGood ==
  ASSUME IInv, NEW s \in Slots, Fail(s)
  PROVE  IInv'
  <1>1. /\ ~Free(s) /\ req' = [req EXCEPT ![s] = Idle] /\ Ends(s)
        /\ dropped' = dropped \cup {req[s].key}
        /\ UNCHANGED <<orders, newest, conversations, replies, overlapped>>
    BY DEF Fail, Crash, marketplace
  <1>2. dropped' \subseteq Conversations
    BY <1>1, HeldTypes DEF IInv, Base, TypeOK
  <1> QED
    BY <1>1, <1>2, EndIsGood

\* The document that is about to be saved.
LEMMA HoldingIs ==
  ASSUME TypeOK, NEW s \in Slots, At(s, "conversation"), NEW d \in Conversation,
         NEW r, r = Holding(s, d)
  PROVE  /\ r \in SaveHeld /\ ~Free(s)
         /\ r.pc = "save" /\ r.key = req[s].key /\ r.user = req[s].user
         /\ r.readings = req[s].readings /\ r.conversation = d
  <1>1. ~Free(s)
    BY DEF Free, At
  <1>2. req[s].key \in Conversations /\ req[s].user \in Users /\ req[s].readings \subseteq Reading
    BY <1>1, HeldTypes
  <1> QED
    BY <1>1, <1>2 DEF Holding, SaveHeld

LEMMA LoadConversationIsGood ==
  ASSUME IInv, NEW s \in Slots, LoadConversation(s)
  PROVE  IInv'
  <1>1. PICK q, c : q = req[s] /\ c = q.key
    OBVIOUS
  <1>2. /\ At(s, "conversation") /\ ~Free(s) /\ conversations[c] # None
        /\ UNCHANGED <<orders, newest, conversations, replies>>
    BY <1>1 DEF LoadConversation, At, Free, marketplace
  <1>3. PICK d : d = conversations[c]
    OBVIOUS
  <1>4. c \in Conversations /\ d \in Conversation /\ SlotGood(q) /\ q.pc # "idle"
    BY <1>1, <1>2, <1>3, HeldTypes, ConversationTypes DEF IInv, Base, At
  <1>5. CASE d.user # q.user
    <2>1. req' = [req EXCEPT ![s] = Idle] /\ Ends(s) /\ UNCHANGED <<overlapped, dropped>>
      BY <1>1, <1>3, <1>5 DEF LoadConversation, Finish, Goto, history
    <2>2. dropped' \subseteq Conversations
      BY <2>1 DEF IInv, Base, TypeOK
    <2> QED
      BY <1>2, <2>1, <2>2, EndIsGood
  <1>6. CASE d.user = q.user
    <2>1. PICK r : r = Holding(s, d)
      OBVIOUS
    <2>2. /\ r \in SaveHeld /\ r.pc = "save" /\ r.key = c /\ r.user = q.user
          /\ r.readings = q.readings /\ r.conversation = d
      BY <1>1, <1>2, <1>4, <2>1, HoldingIs DEF IInv, Base
    <2>3. req' = [req EXCEPT ![s] = r] /\ UNCHANGED <<since, overlapped, dropped>>
      BY <1>1, <1>3, <1>6, <2>1 DEF LoadConversation, Goto, history
    <2>4. CoroutinesInv /\ r.pc # "idle" /\ r.key = req[s].key
      BY <1>1, <2>2 DEF IInv, Base
    <2>5. CoroutinesInv' /\ Holds(s, r) /\ (\A k : Alone(k)' = Alone(k))
      BY <1>2, <2>3, <2>4, StepKeeps
    <2>6. TypeOK'
      <3>1. r \in Held
        BY <2>2 DEF Held
      <3> QED
        BY <1>2, <2>3, <3>1, TypesFollow DEF SeesOn, IInv, Base, TypeOK, marketplace
    <2>7. SlotGood(r)'
      <3>1. Told(q.user, q.readings)' /\ Sound(d)'
        BY <1>2, <1>3, <1>4 DEF SlotGood, Told, IInv, ConversationGood, Sound
      <3> QED
        BY <1>2, <1>3, <1>6, <2>2, <3>1 DEF SlotGood
    <2>8. \A t \in Slots : SlotGood(req[t])'
      BY <1>2, <2>5, <2>7, SlotsFollow
    <2>9. \A e \in Conversations : ConversationGood(e)'
      BY <1>2, <2>5, ConversationFollows
    <2>10. Timely'
      BY <1>1, <1>2, <2>2, <2>3, <2>5, TimelyFollows DEF SeesOn
    <2> QED
      BY <1>2, <2>5, <2>6, <2>8, <2>9, <2>10, NewestFollows DEF IInv, Base, marketplace
  <1> QED
    BY <1>5, <1>6

LEMMA InsertConversationIsGood ==
  ASSUME IInv, NEW s \in Slots, InsertConversation(s)
  PROVE  IInv'
  <1>1. PICK q, c, d, r : /\ q = req[s] /\ c = q.key
                          /\ d = [user |-> q.user, messages |-> << >>] /\ r = Holding(s, d)
    OBVIOUS
  <1>2. /\ At(s, "conversation") /\ ~Free(s) /\ conversations[c] = None
        /\ conversations' = [conversations EXCEPT ![c] = d]
        /\ req' = [req EXCEPT ![s] = r]
        /\ UNCHANGED <<orders, newest, replies, since, overlapped, dropped>>
    BY <1>1 DEF InsertConversation, Put, Goto, At, Free, marketplace, history
  <1>3. c \in Conversations /\ q.user \in Users /\ SlotGood(q) /\ q.pc # "idle"
    BY <1>1, <1>2, HeldTypes DEF IInv, Base, At
  <1>4. d \in Conversation /\ d.user = q.user /\ d.messages = << >> /\ Len(d.messages) = 0
    BY <1>1, <1>3 DEF Conversation
  <1>5. /\ r \in SaveHeld /\ r.pc = "save" /\ r.key = c /\ r.user = q.user
        /\ r.readings = q.readings /\ r.conversation = d
    BY <1>1, <1>2, <1>4, HoldingIs DEF IInv, Base
  <1>6. CoroutinesInv /\ r.pc # "idle" /\ r.key = req[s].key
    BY <1>1, <1>5 DEF IInv, Base
  <1>7. CoroutinesInv' /\ Holds(s, r) /\ (\A k : Alone(k)' = Alone(k))
    BY <1>2, <1>6, StepKeeps
  <1>8. /\ conversations' \in [Conversations -> Maybe(Conversation)] /\ conversations'[c] = d
        /\ \A e \in Conversations : e # c => conversations'[e] = conversations[e]
    BY <1>2, <1>3, <1>4 DEF IInv, Base, TypeOK, Maybe
  <1>9. TypeOK'
    <2>1. r \in Held
      BY <1>5 DEF Held
    <2> QED
      BY <1>2, <1>8, <2>1, TypesFollow DEF SeesOn, IInv, Base, TypeOK, marketplace
  <1>10. Sound(d)'
    BY <1>4 DEF Sound
  <1>11. SlotGood(r)'
    <2>1. Told(q.user, q.readings)'
      BY <1>2, <1>3 DEF SlotGood, Told
    <2> QED
      BY <1>4, <1>5, <1>8, <1>10, <2>1 DEF SlotGood
  <1>12. \A t \in Slots : SlotGood(req[t])'
    BY <1>1, <1>2, <1>7, <1>8, <1>11, SlotsFollow
  <1>13. d # None
    BY <1>4, DocumentAssumption
  <1>14. ConversationGood(c)'
    <2>1. replies[c] = 0
      BY <1>2, <1>3 DEF IInv, ConversationGood
    <2> QED
      BY <1>2, <1>4, <1>8, <1>10, <1>13, <2>1 DEF ConversationGood
  <1>15. \A e \in Conversations : e # c => ConversationGood(e)'
    BY <1>2, <1>7, <1>8, ConversationFollows
  <1>16. Timely'
    BY <1>1, <1>2, <1>5, <1>7, TimelyFollows DEF SeesOn
  <1> QED
    BY <1>2, <1>7, <1>9, <1>12, <1>14, <1>15, <1>16, NewestFollows DEF IInv, Base, marketplace

LEMMA SaveConversationIsGood ==
  ASSUME IInv, NEW s \in Slots, SaveConversation(s)
  PROVE  IInv'
  <1>1. PICK q, c, old, said : /\ q = req[s] /\ c = q.key /\ old = q.conversation
                               /\ said = [by |-> q.user, readings |-> q.readings]
    OBVIOUS
  <1>2. PICK new : new = [old EXCEPT !.messages = Append(old.messages, said)]
    OBVIOUS
  <1>3. /\ q.pc = "save" /\ ~Free(s) /\ Ends(s)
        /\ conversations' = [conversations EXCEPT ![c] = new]
        /\ replies' = [replies EXCEPT ![c] = replies[c] + 1]
        /\ req' = [req EXCEPT ![s] = Idle]
        /\ UNCHANGED <<orders, newest, overlapped, dropped>>
    BY <1>1, <1>2 DEF SaveConversation, Put, Finish, Goto, At, Free, marketplace, history
  <1>4. q \in SaveHeld /\ SlotGood(q)
    BY <1>1, <1>3, HeldTypes DEF IInv, Base
  <1>5. /\ c \in Conversations /\ q.user \in Users /\ q.readings \subseteq Reading
        /\ old \in Conversation
    BY <1>1, <1>4 DEF SaveHeld
  <1>6. PICK m, n : m = old.messages /\ n = Append(old.messages, said)
    OBVIOUS
  <1>7. m \in Seq(Exchange) /\ said \in Exchange /\ said.by = q.user /\ said.readings = q.readings
    BY <1>1, <1>5, <1>6 DEF Conversation, Exchange
  <1>8. /\ n \in Seq(Exchange) /\ Len(n) = Len(m) + 1 /\ Len(m) \in Nat /\ n[Len(n)] = said
        /\ \A i \in 1..Len(m) : n[i] = m[i]
        /\ \A i \in 1..Len(n) : i \in 1..Len(m) \/ i = Len(n)
    BY <1>6, <1>7
  <1>9. new \in Conversation /\ new.user = old.user /\ new.messages = n
    BY <1>2, <1>5, <1>6, <1>8 DEF Conversation
  <1>10. /\ conversations' \in [Conversations -> Maybe(Conversation)] /\ conversations'[c] = new
         /\ \A e \in Conversations : e # c => conversations'[e] = conversations[e] /\ replies'[e] = replies[e]
         /\ replies' \in [Conversations -> Nat] /\ replies'[c] = replies[c] + 1
    BY <1>3, <1>5, <1>9 DEF IInv, Base, TypeOK, Maybe
  <1>11. CoroutinesInv
    BY DEF IInv, Base
  <1>12. CoroutinesInv' /\ Holds(s, Idle) /\ (\A k : Alone(k)' = Alone(k))
    BY <1>3, <1>11, EndKeeps
  <1>13. TypeOK'
    <2>1. Idle \in Held
      BY DEF Held
    <2> QED
      BY <1>3, <1>10, <2>1, TypesFollow DEF SeesOn, IInv, Base, TypeOK, marketplace
  <1>14. PICK r : r = Idle
    OBVIOUS
  <1>15. SlotGood(r)'
    BY <1>14, IdleIsFree DEF SlotGood
  <1>16. \A t \in Slots : SlotGood(req[t])'
    <2>1. Holds(s, r)
      BY <1>12, <1>14
    <2> QED
      BY <1>1, <1>3, <1>10, <1>12, <1>15, <2>1, SlotsFollow
  <1>17. Sound(new)'
    <2>1. \A i \in 1..Len(m) : m[i].by = q.user /\ Told(q.user, m[i].readings)
      BY <1>1, <1>3, <1>4, <1>6 DEF SlotGood, Sound
    <2>2. Told(q.user, said.readings)
      BY <1>3, <1>4, <1>7 DEF SlotGood
    <2>3. new.user = q.user
      BY <1>1, <1>3, <1>4, <1>9 DEF SlotGood
    <2>4. \A i \in 1..Len(n) : n[i].by = q.user /\ Told(q.user, n[i].readings)
      BY <1>7, <1>8, <2>1, <2>2
    <2> QED
      BY <1>9, <2>3, <2>4 DEF Sound, Told
  <1>18. Alone(c) => Len(n) = replies'[c]
    <2> SUFFICES ASSUME Alone(c)
                 PROVE  Len(n) = replies'[c]
      OBVIOUS
    <2>1. old = conversations[c] /\ old # None
      BY <1>1, <1>3, <1>4, <1>5, DocumentAssumption DEF SlotGood
    <2>2. Len(m) = replies[c]
      BY <1>1, <1>3, <1>4, <1>5, <1>6, <2>1 DEF IInv, ConversationGood, SlotGood
    <2> QED
      BY <1>8, <1>10, <2>2
  <1>19. ConversationGood(c)'
    <2>1. new # None
      BY <1>9, DocumentAssumption
    <2> QED
      BY <1>9, <1>10, <1>12, <1>17, <1>18, <2>1 DEF ConversationGood
  <1>20. \A e \in Conversations : e # c => ConversationGood(e)'
    BY <1>3, <1>10, <1>12, ConversationFollows
  <1>21. Timely'
    BY <1>3, <1>12, <1>14, IdleIsFree, TimelyFollows DEF SeesOn
  <1> QED
    BY <1>3, <1>12, <1>13, <1>16, <1>19, <1>20, <1>21, NewestFollows DEF IInv, Base, marketplace

-----------------------------------------------------------------------------
(* The orders *)

\* Whatever becomes of the orders, the attempts in progress see it.
LEMMA OrdersStep ==
  ASSUME IInv, UNCHANGED <<conversations, replies, req, history>>,
         orders' \in [Orders -> Maybe(Status)], newest' \in [Users -> Maybe(Orders)],
         NewestGood', Witnessed
  PROVE  IInv'
  <1>1. UNCHANGED <<conversations, replies, req, overlapped, dropped>>
    BY DEF history
  <1>2. /\ since \in [Slots -> SUBSET Reading] /\ Truths' \subseteq Reading
        /\ since' = [s \in Slots |-> IF Free(s) THEN {} ELSE since[s] \cup Truths']
    BY DEF IInv, Base, TypeOK, Truths, Reading, Maybe, Witnessed
  <1>3. since' \in [Slots -> SUBSET Reading] /\ Timely'
    BY <1>1, <1>2 DEF IInv, Timely, Free, At
  <1>4. Base'
    BY <1>1, <1>3 DEF IInv, Base, TypeOK, CoroutinesInv, Keyed, SoleOwner, Free, At
  <1>5. \A s \in Slots : SlotGood(req[s])'
    BY <1>1 DEF IInv, SlotGood, Told, Sound, Alone
  <1>6. \A c \in Conversations : ConversationGood(c)'
    BY <1>1 DEF IInv, ConversationGood, Told, Sound, Alone
  <1> QED
    BY <1>3, <1>4, <1>5, <1>6 DEF IInv

LEMMA PlaceOrderIsGood ==
  ASSUME IInv, NEW o \in Orders, PlaceOrder(o)
  PROVE  IInv'
  <1>1. /\ orders[o] = None
        /\ orders' = [orders EXCEPT ![o] = "pending"]
        /\ newest' = [newest EXCEPT ![OwnerOf[o]] = o]
        /\ Witnessed
        /\ UNCHANGED <<conversations, replies, req, history>>
    BY DEF PlaceOrder, Put
  <1>2. "pending" \in Status /\ "pending" # None /\ OwnerOf[o] \in Users
    BY AssistantAssumption, DocumentAssumption
  <1>3. /\ orders \in [Orders -> Maybe(Status)] /\ newest \in [Users -> Maybe(Orders)]
    BY DEF IInv, Base, TypeOK
  <1>4. /\ orders' \in [Orders -> Maybe(Status)] /\ newest' \in [Users -> Maybe(Orders)]
        /\ orders'[o] = "pending" /\ \A p : p # o => orders'[p] = orders[p]
    BY <1>1, <1>2, <1>3 DEF Maybe
  <1>5. NewestGood'
    <2> SUFFICES ASSUME NEW u \in Users, newest'[u] # None
                 PROVE  OwnerOf[newest'[u]] = u /\ orders'[newest'[u]] # None
      BY DEF NewestGood
    <2>1. CASE u = OwnerOf[o]
      BY <1>1, <1>2, <1>3, <1>4, <2>1
    <2>2. CASE u # OwnerOf[o]
      <3>1. newest'[u] = newest[u] /\ OwnerOf[newest[u]] = u /\ orders[newest[u]] # None
        BY <1>1, <1>3, <2>2 DEF IInv, NewestGood
      <3> QED
        BY <1>4, <2>2, <3>1
    <2> QED
      BY <2>1, <2>2
  <1> QED
    BY <1>1, <1>4, <1>5, OrdersStep

LEMMA ChangeOrderIsGood ==
  ASSUME IInv, NEW o \in Orders, ChangeOrder(o)
  PROVE  IInv'
  <1>1. PICK status \in Status : orders' = [orders EXCEPT ![o] = status]
    BY DEF ChangeOrder, Put
  <1>2. Witnessed /\ UNCHANGED <<newest, conversations, replies, req, history>>
    BY DEF ChangeOrder
  <1>3. orders \in [Orders -> Maybe(Status)] /\ newest' \in [Users -> Maybe(Orders)]
    BY <1>2 DEF IInv, Base, TypeOK
  <1>4. /\ orders' \in [Orders -> Maybe(Status)]
        /\ \A p \in Orders : orders[p] # None => orders'[p] # None
    BY <1>1, <1>3, DocumentAssumption DEF Maybe
  <1>5. NewestGood'
    BY <1>2, <1>3, <1>4 DEF IInv, NewestGood, Maybe
  <1> QED
    BY <1>2, <1>3, <1>4, <1>5, OrdersStep

-----------------------------------------------------------------------------
LEMMA InitIsGood == Init => IInv
  <1> SUFFICES ASSUME Init
               PROVE  IInv
    OBVIOUS
  <1>1. /\ orders = [o \in Orders |-> None]
        /\ newest = [u \in Users |-> None]
        /\ conversations = [c \in Conversations |-> None]
        /\ replies = [c \in Conversations |-> 0]
        /\ since = [s \in Slots |-> {}]
        /\ req = [s \in Slots |-> Idle] /\ overlapped = {} /\ dropped = {}
    BY DEF Init, CoroutinesInit
  <1>2. TypeOK
    BY <1>1 DEF TypeOK, Maybe
  <1>3. CoroutinesInv
    BY InitiallyNobody DEF Init
  <1>4. Timely /\ \A s \in Slots : SlotGood(req[s])
    BY <1>1, IdleIsFree DEF SlotGood, Timely, Free, At
  <1>5. NewestGood /\ \A c \in Conversations : ConversationGood(c)
    BY <1>1 DEF NewestGood, ConversationGood
  <1> QED
    BY <1>2, <1>3, <1>4, <1>5 DEF IInv, Base

LEMMA StutterIsGood == IInv /\ UNCHANGED vars => IInv'
  <1> SUFFICES ASSUME IInv, UNCHANGED vars
               PROVE  IInv'
    OBVIOUS
  <1>1. UNCHANGED <<orders, newest, conversations, replies, since, req, overlapped, dropped>>
    BY DEF vars, history
  <1>2. Base' /\ NewestGood' /\ Timely'
    BY <1>1 DEF IInv, Base, TypeOK, CoroutinesInv, Keyed, SoleOwner, Free, At, NewestGood, Timely,
                Truths
  <1>3. (\A s \in Slots : SlotGood(req[s]))' /\ (\A c \in Conversations : ConversationGood(c))'
    BY <1>1 DEF IInv, SlotGood, ConversationGood, Told, Sound, Alone
  <1> QED
    BY <1>2, <1>3 DEF IInv

LEMMA NextIsGood == IInv /\ [Next]_vars => IInv'
  <1> SUFFICES ASSUME IInv, Next
               PROVE  IInv'
    BY StutterIsGood
  <1>1. CASE \E s \in Slots, c \in Conversations, u \in Users : Chat(s, c, u)
    BY <1>1, ChatIsGood
  <1>2. CASE \E s \in Slots : Serve(s) \/ Fail(s)
    <2>1. PICK s \in Slots : Serve(s) \/ Fail(s)
      BY <1>2
    <2> QED
      BY <2>1, AgentIsGood, LoadConversationIsGood, InsertConversationIsGood,
         SaveConversationIsGood, FailIsGood DEF Serve
  <1>3. CASE \E o \in Orders : PlaceOrder(o) \/ ChangeOrder(o)
    BY <1>3, PlaceOrderIsGood, ChangeOrderIsGood
  <1> QED
    BY <1>1, <1>2, <1>3 DEF Next

\* The inductive invariant holds in every reachable state.
THEOREM InvIsInvariant == Spec => []IInv
  BY InitIsGood, NextIsGood, PTL DEF Spec

\* Orders, conversations and requests keep their types; the model is never
\* called more than _MAX_TOOL_ITERATIONS times.
THEOREM TypeIsCorrect == Spec => []TypeOK
  <1>1. IInv => TypeOK
    BY DEF IInv, Base
  <1> QED
    BY <1>1, InvIsInvariant, PTL

\* Neither a conversation id nor an order id that a request or the model names
\* brings anything of another client into a conversation (chat, get_order_status).
THEOREM ConversationsStayPrivate == Spec => []TranscriptsArePrivate
  <1>1. IInv => TranscriptsArePrivate
    BY DEF IInv, ConversationGood, Sound, Told, TranscriptsArePrivate, Private
  <1> QED
    BY <1>1, InvIsInvariant, PTL

\* No answer that a client received is missing from its conversation, wherever
\* requests crash, unless two of them overlapped (chat).
THEOREM AnswersAreKept == Spec => []TranscriptsAreKept
  <1>1. IInv => TranscriptsAreKept
    BY DEF IInv, ConversationGood, TranscriptsAreKept
  <1> QED
    BY <1>1, InvIsInvariant, PTL

\* For any orders, statuses and clients, whoever saves the orders meanwhile: an
\* answer reports only what was so while it was composed, and nothing that an
\* attempt read before its provider failed (run_agent).
THEOREM AnswersStayTimely == Spec => []AnswersAreTimely
  <1>1. IInv => AnswersAreTimely
    BY DEF IInv, Timely, AnswersAreTimely
  <1> QED
    BY <1>1, InvIsInvariant, PTL
==============================================================================
