------------------------------ MODULE Assistant ------------------------------
(***************************************************************************)
(* The assistant (ai/service.py, ai/llm.py, ai/tools.py).  A chat request  *)
(* lets a language model call tools that read the caller's orders, falls   *)
(* back to one tool when the provider fails, and then appends question and *)
(* answer to a conversation that it reads and saves whole.  An answer is   *)
(* reduced to the orders it is about, with the status each was read in.    *)
(* Meanwhile the handlers of the orders save whichever status they hold.   *)
(***************************************************************************)
EXTENDS Coroutines, Sequences

CONSTANTS
  Users, Orders,
  OwnerOf,        \* the client who placed each order
  Status,         \* bound: the values of OrderStatus that occur
  MaxCalls,       \* _MAX_TOOL_ITERATIONS
  MaxBlocks,      \* bound: how many tools the model calls at once
  MaxExchanges    \* bound: how many answers a conversation gets

ASSUME AssistantAssumption ==
  /\ OwnerOf \in [Orders -> Users]
  /\ None \notin Orders
  /\ "pending" \in Status
  /\ MaxExchanges \in Nat /\ MaxCalls \in Nat \ {0} /\ MaxBlocks \in Nat \ {0}

Conversations == Keys

VARIABLES
  orders,          \* the status of each order that was placed, or None
  newest,          \* client -> the order placed last, or None
  conversations,   \* the collection: id -> document, or None
  replies,         \* history: conversation -> answers its client received
  since            \* history: slot -> what was true since its attempt began

marketplace == <<orders, newest>>
vars == <<orders, newest, conversations, replies, since, req, history>>

Reading == [order : Orders, status : Status]

\* A question of a client and its answer.
Exchange == [by : Users, readings : SUBSET Reading]
Conversation == [user : Users, messages : Seq(Exchange)]

ASSUME DocumentAssumption == None \notin Status \cup Conversation

Init ==
  /\ CoroutinesInit
  /\ orders = [o \in Orders |-> None]
  /\ newest = [u \in Users |-> None]
  /\ conversations = [c \in Conversations |-> None]
  /\ replies = [c \in Conversations |-> 0]
  /\ since = [s \in Slots |-> {}]

\* What may be read of the orders, as they are now.
Truths == {[order |-> o, status |-> orders[o]] : o \in {p \in Orders : orders[p] # None}}

\* An attempt to answer begins, or it is over.
Begins(s) == since' = [since EXCEPT ![s] = Truths]
Ends(s) == since' = [since EXCEPT ![s] = {}]

\* The attempts in progress live to see the orders change.
Witnessed == since' = [s \in Slots |-> IF Free(s) THEN {} ELSE since[s] \cup Truths']

-----------------------------------------------------------------------------
(* The orders *)

\* The insert of create_order.
PlaceOrder(o) ==
  /\ orders[o] = None
  /\ orders' = Put(orders, o, "pending")
  /\ newest' = Put(newest, OwnerOf[o], o)
  /\ Witnessed
  /\ UNCHANGED <<conversations, replies, req, history>>

\* A save of an order: by the seller, the client, the delivery or a payment.
\* It may undo another, for the document may have been read before that one.
ChangeOrder(o) ==
  /\ orders[o] # None
  /\ \E status \in Status : orders' = Put(orders, o, status)
  /\ Witnessed
  /\ UNCHANGED <<newest, conversations, replies, req, history>>

-----------------------------------------------------------------------------
(* The agent *)

\* calls counts the model's answers, blocks the tools of the last that remain.
Ask(c, u) ==
  [pc |-> "model", key |-> c, user |-> u, calls |-> 0, blocks |-> 0, readings |-> {}]

\* A client knows the ids it received; a new conversation gets a new one.
Chat(s, c, u) ==
  /\ Free(s)
  /\ replies[c] > 0 \/ (conversations[c] = None /\ Quiet(c))
  /\ replies[c] < MaxExchanges
  /\ Start(s, Ask(c, u))
  /\ Begins(s)
  /\ UNCHANGED <<marketplace, conversations, replies>>

\* The answer that the conversation will hold; without one it says so.
Conclude(s, readings) ==
  Goto(s, [req[s] EXCEPT !.pc = "conversation", !.readings = readings])

ModelAnswers(s) ==
  /\ At(s, "model")
  /\ Conclude(s, req[s].readings)
  /\ UNCHANGED <<marketplace, conversations, replies, since>>

ModelCallsTools(s) ==
  /\ At(s, "model")
  /\ \E n \in 1..MaxBlocks :
       Goto(s, [req[s] EXCEPT !.pc = "tool", !.calls = @ + 1, !.blocks = n])
  /\ UNCHANGED <<marketplace, conversations, replies, since>>

\* Mutant: the tool does not compare the order's client with the caller.
FoundOfAnyone(u, asked) ==
  {o \in Orders : orders[o] # None /\ (o = asked \/ o = newest[u])}

\* get_order_status: the order asked for when it is the caller's own, else the
\* caller's newest.
Found(u, asked) ==
  LET own == {o \in Orders : o = asked /\ orders[o] # None /\ OwnerOf[o] = u}
  IN  IF own # {} THEN own ELSE {o \in Orders : o = newest[u]}

\* What a tool says, whichever order the model or the request asks for; the
\* search for stores, and a tool that does not exist, speak of no order.
Readings(u) ==
  {{}} \cup {{[order |-> o, status |-> orders[o]] : o \in Found(u, asked)} : asked \in Maybe(Orders)}

\* Mutant: the calls of the model are not limited.
RunToolForever(s) ==
  /\ At(s, "tool")
  /\ \E said \in Readings(req[s].user) :
       Goto(s, [req[s] EXCEPT !.pc = "model", !.calls = 0, !.readings = @ \cup said])
  /\ UNCHANGED <<marketplace, conversations, replies, since>>

RunTool(s) ==
  /\ At(s, "tool")
  /\ \E said \in Readings(req[s].user) :
       \/ /\ req[s].blocks > 1
          /\ Goto(s, [req[s] EXCEPT !.blocks = @ - 1, !.readings = @ \cup said])
       \/ /\ req[s].blocks = 1
          /\ req[s].calls < MaxCalls
          /\ Goto(s, [req[s] EXCEPT !.pc = "model", !.readings = @ \cup said])
       \/ /\ req[s].blocks = 1
          /\ req[s].calls = MaxCalls
          /\ Conclude(s, {})
  /\ UNCHANGED <<marketplace, conversations, replies, since>>

\* Mutant: the fallback begins with what the failed attempt has read.
ProviderFailsMidway(s) ==
  /\ At(s, "model") \/ At(s, "tool")
  /\ Goto(s, [req[s] EXCEPT !.pc = "fallback"])
  /\ Begins(s)
  /\ UNCHANGED <<marketplace, conversations, replies>>

\* The provider, or a tool it called, raises, or no provider is configured:
\* what was read is forgotten.
ProviderFails(s) ==
  /\ At(s, "model") \/ At(s, "tool")
  /\ Goto(s, [req[s] EXCEPT !.pc = "fallback", !.readings = {}])
  /\ Begins(s)
  /\ UNCHANGED <<marketplace, conversations, replies>>

\* The offline planner picks at most one tool.
Fallback(s) ==
  /\ At(s, "fallback")
  /\ \E said \in Readings(req[s].user) : Conclude(s, said)
  /\ UNCHANGED <<marketplace, conversations, replies, since>>

-----------------------------------------------------------------------------
(* The conversation *)

Holding(s, conversation) ==
  [pc |-> "save", key |-> req[s].key, user |-> req[s].user, readings |-> req[s].readings,
   conversation |-> conversation]

\* Mutant: whose conversation it is does not matter.
LoadConversationOfAnyone(s) ==
  /\ At(s, "conversation")
  /\ conversations[req[s].key] # None
  /\ Goto(s, Holding(s, conversations[req[s].key]))
  /\ UNCHANGED <<marketplace, conversations, replies, since>>

\* get_conversation in chat, and its refusal.
LoadConversation(s) ==
  /\ At(s, "conversation")
  /\ conversations[req[s].key] # None
  /\ \/ /\ conversations[req[s].key].user = req[s].user
        /\ Goto(s, Holding(s, conversations[req[s].key]))
        /\ UNCHANGED since
     \/ /\ conversations[req[s].key].user # req[s].user
        /\ Finish(s)
        /\ Ends(s)
  /\ UNCHANGED <<marketplace, conversations, replies>>

\* A conversation is inserted empty before it gets its first exchange.
InsertConversation(s) ==
  /\ At(s, "conversation")
  /\ conversations[req[s].key] = None
  /\ LET new == [user |-> req[s].user, messages |-> << >>]
     IN  /\ conversations' = Put(conversations, req[s].key, new)
         /\ Goto(s, Holding(s, new))
  /\ UNCHANGED <<marketplace, replies, since>>

\* Mutant: the exchange takes the place of those before it.
SaveConversationAnew(s) ==
  /\ At(s, "save")
  /\ LET said == [by |-> req[s].user, readings |-> req[s].readings]
     IN  conversations' = Put(conversations, req[s].key,
                              [req[s].conversation EXCEPT !.messages = <<said>>])
  /\ replies' = [replies EXCEPT ![req[s].key] = @ + 1]
  /\ Finish(s)
  /\ Ends(s)
  /\ UNCHANGED marketplace

SaveConversation(s) ==
  /\ At(s, "save")
  /\ LET said == [by |-> req[s].user, readings |-> req[s].readings]
     IN  conversations' = Put(conversations, req[s].key,
                              [req[s].conversation EXCEPT !.messages = Append(@, said)])
  /\ replies' = [replies EXCEPT ![req[s].key] = @ + 1]
  /\ Finish(s)
  /\ Ends(s)
  /\ UNCHANGED marketplace

-----------------------------------------------------------------------------
Serve(s) ==
  \/ ModelAnswers(s) \/ ModelCallsTools(s) \/ RunTool(s) \/ ProviderFails(s) \/ Fallback(s)
  \/ LoadConversation(s) \/ InsertConversation(s) \/ SaveConversation(s)

Fail(s) == Crash(s) /\ Ends(s) /\ UNCHANGED <<marketplace, conversations, replies>>

Next ==
  \/ \E s \in Slots, c \in Conversations, u \in Users : Chat(s, c, u)
  \/ \E s \in Slots : Serve(s) \/ Fail(s)
  \/ \E o \in Orders : PlaceOrder(o) \/ ChangeOrder(o)

Spec == Init /\ [][Next]_vars
FairSpec == Spec /\ \A s \in Slots : WF_vars(Serve(s))

-----------------------------------------------------------------------------
(* Properties *)

AgentHeld ==
  [pc : {"model", "tool", "fallback", "conversation"}, key : Conversations, user : Users,
   calls : 0..MaxCalls, blocks : 0..MaxBlocks, readings : SUBSET Reading]
SaveHeld ==
  [pc : {"save"}, key : Conversations, user : Users, readings : SUBSET Reading,
   conversation : Conversation]

TypeOK ==
  /\ orders \in [Orders -> Maybe(Status)]
  /\ newest \in [Users -> Maybe(Orders)]
  /\ conversations \in [Conversations -> Maybe(Conversation)]
  /\ replies \in [Conversations -> Nat]
  /\ since \in [Slots -> SUBSET Reading]
  /\ req \in [Slots -> {Idle} \cup AgentHeld \cup SaveHeld]
  /\ overlapped \subseteq Conversations
  /\ dropped \subseteq Conversations

\* Whoever may read a conversation (get_conversation asks for its user) reads
\* only their own questions, and of their own orders, whichever conversation a
\* request named and whichever order the model asked the tools for.
Private(conversation) ==
  \A i \in 1..Len(conversation.messages) :
    LET said == conversation.messages[i]
    IN  /\ said.by = conversation.user
        /\ \A r \in said.readings : OwnerOf[r.order] = conversation.user
TranscriptsArePrivate ==
  \A c \in Conversations : conversations[c] # None => Private(conversations[c])

\* Every answer that a client received is in the conversation it was told of,
\* unless two of its requests overlapped: the whole document is saved.
TranscriptsAreKept ==
  \A c \in Conversations :
    (conversations[c] # None /\ Alone(c)) => Len(conversations[c].messages) = replies[c]

\* An answer says of an order only what was so at some moment while it was
\* composed, however the orders go forward and back between the calls of the
\* tools, and however late the provider fails: nothing that was read before the
\* fallback began to answer anew is left in it (run_agent).
AnswersAreTimely == \A s \in Slots : ~Free(s) => req[s].readings \subseteq since[s]

\* A chat request comes to an end, whatever the model asks for and however
\* often the provider fails (_MAX_TOOL_ITERATIONS).
ChatEnds == \A s \in Slots : ~Free(s) ~> Free(s)
=============================================================================
