-------------------------- MODULE AgentLoop_proofs --------------------------
(* The agent loop, for any number of turns, keys, iterations, retries and    *)
(* parallel tool calls. First what holds whether or not turns share a key at *)
(* the same time: its types and bounds, and whose messages a conversation    *)
(* holds. Then the safety of turns that use a key one at a time, and last    *)
(* how many steps a turn can take.                                           *)
EXTENDS AgentLoop, Conversation_proofs

\* A round of tool calls is only begun before the last iteration, and there is
\* a call left to execute while it goes on.
RoundsLeft == \A t \in Turns :
  /\ pc[t] = "calling" /\ ~forced[t] => iteration[t] < MaxIterations
  /\ pc[t] = "tools" => iteration[t] < MaxIterations /\ todo[t] # <<>>

IInv == TypeOK /\ RoundsLeft

(* What append leaves of a conversation is made of the same messages.        *)
LEMMA AppendedType ==
  ASSUME NEW M, NEW s \in Seq(M), NEW m \in M
  PROVE  Appended(s, m) \in Seq(M)
<1>1. Append(s, m) \in Seq(M)
  OBVIOUS
<1> QED
  BY <1>1, PruneType DEF Appended, Trim

(* The messages a turn stores are messages.                                  *)
LEMMA MessageTypes ==
  ASSUME NEW t \in Turns
  PROVE  /\ Question(t) \in Message
         /\ Answer(t) \in Message
         /\ \A calls \in SUBSET CallIds : Request(t, calls) \in Message
         /\ \A call \in CallIds : Reply(t, call) \in Message
BY DEF Question, Answer, Request, Reply, Message, Roles

(* Storing a message keeps every history a list of messages.                 *)
LEMMA RememberType ==
  ASSUME NEW t \in Turns, NEW m \in Message,
         history \in [Keys -> Seq(Message)], Remember(t, m)
  PROVE  history' \in [Keys -> Seq(Message)]
<1>1. KeyOf[t] \in Keys
  BY KeyOfAssumption
<1>2. Appended(history[KeyOf[t]], m) \in Seq(Message)
  BY <1>1, AppendedType
<1> QED
  BY <1>1, <1>2 DEF Remember

(* A turn that ends leaves its local variables as they were at first.        *)
LEMMA EndIInv ==
  ASSUME IInv, NEW t \in Turns, NEW label \in {"answered", "raised"},
         End(t, label), history' \in [Keys -> Seq(Message)]
  PROVE  IInv'
<1>1. TypeOK'
  BY BoundsAssumption DEF IInv, TypeOK, End, Goto
<1>2. RoundsLeft'
  BY DEF IInv, TypeOK, RoundsLeft, End, Goto
<1> QED
  BY <1>1, <1>2 DEF IInv

(* The initial states.                                                       *)
LEMMA InitIInv == Init => IInv
BY BoundsAssumption DEF Init, IInv, TypeOK, RoundsLeft

LEMMA StartIInv ==
  ASSUME IInv, NEW t \in Turns, Start(t)
  PROVE  IInv'
<1>1. history' \in [Keys -> Seq(Message)]
  BY RememberType, MessageTypes DEF IInv, TypeOK, Start
<1>2. TypeOK'
  BY <1>1 DEF IInv, TypeOK, Start, Goto
<1>3. RoundsLeft'
  BY DEF IInv, TypeOK, RoundsLeft, Start, Goto
<1> QED
  BY <1>2, <1>3 DEF IInv

LEMMA PromptIInv ==
  ASSUME IInv, NEW t \in Turns, Prompt(t)
  PROVE  IInv'
<1>1. history[KeyOf[t]] \in Seq(Message \cup {Nudge})
  <2>1. history[KeyOf[t]] \in Seq(Message)
    BY KeyOfAssumption DEF IInv, TypeOK
  <2> QED
    BY <2>1
<1>2. Append(history[KeyOf[t]], Nudge) \in Seq(Message \cup {Nudge})
  BY <1>1
<1>3. sent' \in [Turns -> Seq(Message \cup {Nudge})]
  BY <1>1, <1>2 DEF IInv, TypeOK, Prompt
<1>4. forced' = [forced EXCEPT ![t] = forced[t] \/ Exhausted(t)]
  BY DEF IInv, TypeOK, Prompt
<1>5. forced' \in [Turns -> BOOLEAN]
  BY <1>4 DEF IInv, TypeOK, Exhausted
<1>6. TypeOK'
  BY <1>3, <1>5, BoundsAssumption DEF IInv, TypeOK, Prompt, Goto
<1>7. ~forced'[t] => iteration[t] < MaxIterations
  <2>1. forced'[t] = (forced[t] \/ Exhausted(t))
    BY <1>4, Zenon DEF IInv, TypeOK
  <2>2. ~forced'[t] => iteration[t] # MaxIterations
    BY <2>1 DEF Exhausted
  <2> QED
    BY <2>2, BoundsAssumption DEF IInv, TypeOK
<1>8. RoundsLeft'
  BY <1>4, <1>7 DEF IInv, TypeOK, RoundsLeft, Prompt, Goto
<1> QED
  BY <1>6, <1>8 DEF IInv

LEMMA CallFailsIInv ==
  ASSUME IInv, NEW t \in Turns, NEW retryable \in BOOLEAN, CallFails(t, retryable)
  PROVE  IInv'
<1>1. CASE Retries(t, retryable)
  <2>1. attempt[t] + 1 \in 0 .. MaxRetries
    BY <1>1, BoundsAssumption DEF IInv, TypeOK, Retries
  <2>2. TypeOK'
    BY <1>1, <2>1 DEF IInv, TypeOK, CallFails
  <2>3. RoundsLeft'
    BY <1>1 DEF IInv, RoundsLeft, CallFails
  <2> QED
    BY <2>2, <2>3 DEF IInv
<1>2. CASE ~Retries(t, retryable)
  BY <1>2, EndIInv DEF CallFails, IInv, TypeOK
<1> QED
  BY <1>1, <1>2

LEMMA RequestToolsIInv ==
  ASSUME IInv, NEW t \in Turns, NEW n \in 1 .. MaxParallel, RequestTools(t, n)
  PROVE  IInv'
<1> DEFINE calls == [i \in 1 .. n |-> <<iteration[t], i>>]
<1>1. n \in Nat \ {0} /\ \A i \in 1 .. n : calls[i] \in CallIds
  BY BoundsAssumption DEF IInv, TypeOK, CallIds
<1>2. calls \in Seq(CallIds) /\ calls # <<>>
  <2>1. calls \in [1 .. n -> CallIds] /\ n \in Nat
    BY <1>1
  <2>2. calls \in Seq(CallIds)
    BY <2>1, IsASeq
  <2>3. Len(calls) = n
    BY <2>1
  <2> QED
    BY <1>1, <2>2, <2>3
<1>3. Request(t, {calls[i] : i \in 1 .. n}) \in Message
  BY <1>1, MessageTypes
<1>4. /\ Remember(t, Request(t, {calls[i] : i \in 1 .. n}))
      /\ todo' = [todo EXCEPT ![t] = calls]
      /\ pc' = [pc EXCEPT ![t] = "tools"]
      /\ sent' = [sent EXCEPT ![t] = <<>>]
      /\ attempt' = [attempt EXCEPT ![t] = 0]
      /\ UNCHANGED <<iteration, forced>>
  BY DEF RequestTools, Goto
<1>5. history' \in [Keys -> Seq(Message)]
  BY <1>3, <1>4, RememberType DEF IInv, TypeOK
<1>6. iteration[t] < MaxIterations
  BY DEF RequestTools, Called, OffersTools, IInv, RoundsLeft
<1> HIDE DEF calls
<1>7. TypeOK'
  BY <1>2, <1>4, <1>5, BoundsAssumption DEF IInv, TypeOK
<1>8. RoundsLeft'
  BY <1>2, <1>4, <1>6 DEF IInv, TypeOK, RoundsLeft
<1> QED
  BY <1>7, <1>8 DEF IInv

LEMMA RunToolIInv ==
  ASSUME IInv, NEW t \in Turns, RunTool(t)
  PROVE  IInv'
<1>1. /\ todo[t] \in Seq(CallIds) /\ todo[t] # <<>>
      /\ iteration[t] \in Nat /\ iteration[t] < MaxIterations
  BY BoundsAssumption DEF RunTool, IInv, TypeOK, RoundsLeft
<1>2. Head(todo[t]) \in CallIds /\ Tail(todo[t]) \in Seq(CallIds)
  BY <1>1
<1>3. history' \in [Keys -> Seq(Message)]
  BY <1>2, MessageTypes, RememberType DEF RunTool, IInv, TypeOK
<1>4. CASE LastOfRound(t)
  <2>1. iteration[t] + 1 \in 0 .. MaxIterations
    BY <1>1, BoundsAssumption
  <2>2. TypeOK'
    <3>1. /\ pc' = [pc EXCEPT ![t] = "prompt"]
          /\ iteration' = [iteration EXCEPT ![t] = iteration[t] + 1]
          /\ todo' = [todo EXCEPT ![t] = <<>>]
          /\ UNCHANGED <<forced, sent, attempt>>
      BY <1>4 DEF RunTool, Goto, IInv, TypeOK
    <3>2. iteration' \in [Turns -> 0 .. MaxIterations]
      BY <2>1, <3>1 DEF IInv, TypeOK
    <3> QED
      BY <1>3, <3>1, <3>2 DEF IInv, TypeOK
  <2>3. RoundsLeft'
    BY <1>4 DEF RunTool, IInv, TypeOK, RoundsLeft, Goto
  <2> QED
    BY <2>2, <2>3 DEF IInv
<1>5. CASE ~LastOfRound(t)
  <2>1. Tail(todo[t]) # <<>>
    <3>1. Len(todo[t]) > 1
      <4>1. Len(todo[t]) \in Nat /\ Len(todo[t]) # 0
        BY <1>1, EmptySeq
      <4>2. Len(todo[t]) # 1
        BY <1>5 DEF LastOfRound
      <4>3. \A n \in Nat : n # 0 /\ n # 1 => n > 1
        OBVIOUS
      <4> QED
        BY <4>1, <4>2, <4>3, Zenon
    <3>2. Len(Tail(todo[t])) > 0
      BY <1>1, <3>1
    <3> QED
      BY <3>2
  <2>2. TypeOK'
    BY <1>2, <1>3, <1>5 DEF RunTool, IInv, TypeOK
  <2>3. RoundsLeft'
    BY <1>5, <2>1 DEF RunTool, IInv, TypeOK, RoundsLeft
  <2> QED
    BY <2>2, <2>3 DEF IInv
<1> QED
  BY <1>4, <1>5

LEMMA EmptyContentIInv ==
  ASSUME IInv, NEW t \in Turns, EmptyContent(t)
  PROVE  IInv'
<1>1. TypeOK'
  BY BoundsAssumption DEF EmptyContent, IInv, TypeOK, Goto
<1>2. RoundsLeft'
  BY DEF EmptyContent, IInv, TypeOK, RoundsLeft, Goto
<1> QED
  BY <1>1, <1>2 DEF IInv

(* Every step of a started turn.                                             *)
LEMMA StepIInv ==
  ASSUME IInv, NEW t \in Turns, Step(t)
  PROVE  IInv'
<1>1. CASE Prompt(t)
  BY <1>1, PromptIInv
<1>2. CASE \E retryable \in BOOLEAN : CallFails(t, retryable)
  BY <1>2, CallFailsIInv
<1>3. CASE NoChoices(t)
  BY <1>3, EndIInv DEF NoChoices, IInv, TypeOK
<1>4. CASE \E n \in 1 .. MaxParallel : RequestTools(t, n)
  BY <1>4, RequestToolsIInv
<1>5. CASE RunTool(t)
  BY <1>5, RunToolIInv
<1>6. CASE AnswerText(t)
  <2>1. history' \in [Keys -> Seq(Message)]
    BY <1>6, MessageTypes, RememberType DEF AnswerText, IInv, TypeOK
  <2> QED
    BY <1>6, <2>1, EndIInv DEF AnswerText
<1>7. CASE EmptyContent(t)
  BY <1>7, EmptyContentIInv
<1> QED
  BY <1>1, <1>2, <1>3, <1>4, <1>5, <1>6, <1>7 DEF Step

(* A step is taken by a turn that has started, and moves no other.           *)
LEMMA StepMoves ==
  ASSUME TypeOK, NEW t \in Turns, Step(t)
  PROVE  /\ pc[t] # "new"
         /\ \A u \in Turns : u # t => pc'[u] = pc[u]
BY DEF TypeOK, Step, Prompt, CallFails, NoChoices, RequestTools, RunTool,
       AnswerText, EmptyContent, Called, End, Goto

LEMMA StutterIInv ==
  ASSUME IInv, UNCHANGED vars
  PROVE  IInv'
BY DEF vars, IInv, TypeOK, RoundsLeft

LEMMA NextIInv == IInv /\ [Next]_vars => IInv'
BY StartIInv, StepIInv, StutterIInv DEF Next

(* Not a step of the loop: whoever else uses the memory empties a            *)
(* conversation, whatever its turns are doing.                               *)
LEMMA ForgetIInv ==
  ASSUME IInv, NEW k \in Keys, history' = [history EXCEPT ![k] = <<>>],
         UNCHANGED <<pc, iteration, forced, sent, attempt, todo>>
  PROVE  IInv'
BY DEF IInv, TypeOK, RoundsLeft

(* The loop keeps within its bounds: no turn goes beyond max_tool_iterations *)
(* rounds, no request is retried more than max_retries times, and what is    *)
(* stored and sent are messages (llm.py:219-316, retry.py:51-63).            *)
THEOREM LoopTypeCorrect == Spec => []TypeOK
<1>1. Init => IInv
  BY InitIInv
<1>2. IInv /\ [Next]_vars => IInv'
  BY NextIInv
<1>3. IInv => TypeOK
  BY DEF IInv
<1> QED
  BY <1>1, <1>2, <1>3, PTL DEF Spec

-----------------------------------------------------------------------------
(* Whose messages are stored and sent. Whatever else turns do to each other, *)
(* a conversation only ever holds messages of turns with its key.            *)

MessagesOf(k) == {m \in Message : KeyOf[m.turn] = k}

OwnMessages ==
  /\ \A k \in Keys : history[k] \in Seq(MessagesOf(k))
  /\ \A t \in Turns : sent[t] \in Seq(MessagesOf(KeyOf[t]) \cup {Nudge})

LEMMA InitOwn == Init => OwnMessages
BY KeyOfAssumption DEF Init, OwnMessages

(* A turn that stores a message of its own.                                  *)
LEMMA RememberOwn ==
  ASSUME TypeOK, OwnMessages, NEW t \in Turns, NEW m \in Message, m.turn = t,
         Remember(t, m)
  PROVE  \A k \in Keys : history'[k] \in Seq(MessagesOf(k))
<1>1. KeyOf[t] \in Keys
  BY KeyOfAssumption
<1>2. m \in MessagesOf(KeyOf[t])
  BY DEF MessagesOf
<1>3. Appended(history[KeyOf[t]], m) \in Seq(MessagesOf(KeyOf[t]))
  BY <1>1, <1>2, AppendedType DEF OwnMessages
<1>4. history' = [history EXCEPT ![KeyOf[t]] = Appended(history[KeyOf[t]], m)]
  BY DEF Remember
<1> QED
  BY <1>1, <1>3, <1>4 DEF OwnMessages, TypeOK

LEMMA StartOwn ==
  ASSUME TypeOK, OwnMessages, NEW t \in Turns, Start(t)
  PROVE  OwnMessages'
<1>1. Question(t) \in Message /\ Question(t).turn = t
  BY MessageTypes DEF Question
<1>2. \A k \in Keys : history'[k] \in Seq(MessagesOf(k))
  BY <1>1, RememberOwn DEF Start
<1>3. \A k : MessagesOf(k)' = MessagesOf(k)
  BY DEF MessagesOf
<1> QED
  BY <1>2 DEF OwnMessages, Start

(* A turn that drops its request, whatever it stores.                        *)
LEMMA DropOwn ==
  ASSUME TypeOK, OwnMessages, NEW t \in Turns,
         sent' = [sent EXCEPT ![t] = <<>>] \/ UNCHANGED sent,
         \A k \in Keys : history'[k] \in Seq(MessagesOf(k))
  PROVE  OwnMessages'
<1>1. ASSUME NEW u \in Turns
      PROVE  sent'[u] \in Seq(MessagesOf(KeyOf[u]) \cup {Nudge})
  <2> DEFINE own == MessagesOf(KeyOf[u]) \cup {Nudge}
  <2>1. sent'[u] = <<>> \/ sent'[u] = sent[u]
    BY DEF TypeOK
  <2>2. sent[u] \in Seq(own)
    BY DEF OwnMessages
  <2> HIDE DEF own
  <2>3. <<>> \in Seq(own)
    OBVIOUS
  <2>4. sent'[u] \in Seq(own)
    BY <2>1, <2>2, <2>3, Zenon
  <2> QED
    BY <2>4 DEF own
<1> QED
  BY <1>1 DEF OwnMessages

(* A request is made of the turn's conversation.                             *)
LEMMA PromptOwn ==
  ASSUME TypeOK, OwnMessages, NEW t \in Turns, Prompt(t)
  PROVE  OwnMessages'
<1> DEFINE own == MessagesOf(KeyOf[t]) \cup {Nudge}
<1>1. history[KeyOf[t]] \in Seq(MessagesOf(KeyOf[t]))
  BY KeyOfAssumption DEF OwnMessages
<1>2. history[KeyOf[t]] \in Seq(own)
  BY <1>1
<1>3. Append(history[KeyOf[t]], Nudge) \in Seq(own)
  BY <1>2
<1>4. /\ sent'[t] = Append(history[KeyOf[t]], Nudge) \/ sent'[t] = history[KeyOf[t]]
      /\ \A u \in Turns : u # t => sent'[u] = sent[u]
  BY DEF Prompt, TypeOK
<1>5. \A u \in Turns : sent'[u] \in Seq(MessagesOf(KeyOf[u]) \cup {Nudge})
  BY <1>2, <1>3, <1>4 DEF OwnMessages
<1>6. \A k \in Keys : history'[k] \in Seq(MessagesOf(k))
  BY DEF Prompt, OwnMessages
<1> QED
  BY <1>5, <1>6 DEF OwnMessages

LEMMA StepOwn ==
  ASSUME IInv, OwnMessages, NEW t \in Turns, Step(t)
  PROVE  OwnMessages'
<1>0. TypeOK
  BY DEF IInv
<1>1. ASSUME UNCHANGED history
      PROVE  \A k \in Keys : history'[k] \in Seq(MessagesOf(k))
  BY <1>1 DEF OwnMessages
<1>2. CASE Prompt(t)
  BY <1>0, <1>2, PromptOwn
<1>3. CASE \E retryable \in BOOLEAN : CallFails(t, retryable)
  BY <1>0, <1>1, <1>3, DropOwn DEF CallFails, End
<1>4. CASE NoChoices(t)
  BY <1>0, <1>1, <1>4, DropOwn DEF NoChoices, End
<1>5. ASSUME NEW n \in 1 .. MaxParallel, RequestTools(t, n)
      PROVE  OwnMessages'
  <2> DEFINE calls == [i \in 1 .. n |-> <<iteration[t], i>>]
             m == Request(t, {calls[i] : i \in 1 .. n})
  <2>1. \A i \in 1 .. n : calls[i] \in CallIds
    BY BoundsAssumption, <1>0 DEF TypeOK, CallIds
  <2>2. m \in Message /\ m.turn = t
    <3>1. {calls[i] : i \in 1 .. n} \in SUBSET CallIds
      BY <2>1
    <3> HIDE DEF calls
    <3> QED
      BY <3>1, MessageTypes DEF Request
  <2>3. Remember(t, m) /\ sent' = [sent EXCEPT ![t] = <<>>]
    BY <1>5 DEF RequestTools
  <2> HIDE DEF m
  <2> QED
    BY <1>0, <2>2, <2>3, RememberOwn, DropOwn
<1>6. CASE RunTool(t)
  <2>1. Head(todo[t]) \in CallIds
    BY <1>6 DEF RunTool, IInv, TypeOK, RoundsLeft
  <2>2. /\ Reply(t, Head(todo[t])) \in Message
        /\ Reply(t, Head(todo[t])).turn = t
    BY <2>1, MessageTypes DEF Reply
  <2> QED
    BY <1>0, <1>6, <2>2, RememberOwn, DropOwn DEF RunTool
<1>7. CASE AnswerText(t)
  <2>1. Answer(t) \in Message /\ Answer(t).turn = t
    BY MessageTypes DEF Answer
  <2> QED
    BY <1>0, <1>7, <2>1, RememberOwn, DropOwn DEF AnswerText, End
<1>8. CASE EmptyContent(t)
  BY <1>0, <1>1, <1>8, DropOwn DEF EmptyContent
<1> QED
  BY <1>2, <1>3, <1>4, <1>5, <1>6, <1>7, <1>8 DEF Step

LEMMA StutterOwn ==
  ASSUME OwnMessages, UNCHANGED <<history, sent>>
  PROVE  OwnMessages'
BY DEF OwnMessages

LEMMA ForgetOwn ==
  ASSUME TypeOK, OwnMessages, NEW k \in Keys,
         history' = [history EXCEPT ![k] = <<>>], UNCHANGED sent
  PROVE  OwnMessages'
<1>1. \A j \in Keys : history'[j] = <<>> \/ history'[j] = history[j]
  BY DEF TypeOK
<1>2. \A j \in Keys : history'[j] \in Seq(MessagesOf(j))
  BY <1>1 DEF OwnMessages
<1> QED
  BY <1>2 DEF OwnMessages

(* A request holds only messages of turns with the turn's own key, and the   *)
(* request for a summary.                                                    *)
LEMMA OwnAuthors ==
  ASSUME OwnMessages, NEW t \in Turns, NEW i \in 1 .. Len(sent[t])
  PROVE  \/ sent[t][i].turn = Nobody
         \/ /\ sent[t][i].turn \in Turns
            /\ KeyOf[sent[t][i].turn] = KeyOf[t]
<1>1. sent[t] \in Seq(MessagesOf(KeyOf[t]) \cup {Nudge})
  BY DEF OwnMessages
<1>2. sent[t][i] \in MessagesOf(KeyOf[t]) \cup {Nudge}
  BY <1>1
<1> QED
  BY <1>2 DEF MessagesOf, Message, Nudge

-----------------------------------------------------------------------------
(* Safety when turns use a key one at a time and no turn can outgrow the     *)
(* window: what is stored and what is sent is what the chat APIs accept,     *)
(* whatever the model answers and wherever turns fail.                       *)
(*                                                                           *)
(* The invariant follows the question of each running turn: it is in the     *)
(* turn's conversation, and what follows it is no more than the rounds done  *)
(* so far account for, so that the window always reaches back to it.         *)

Conv(t) == history[KeyOf[t]]

\* The calls of the round that still wait for their replies.
Pending(t) == {todo[t][i] : i \in 1 .. Len(todo[t])}

\* The messages n rounds of tool calls store at most.
Room(n) == n * (1 + MaxParallel)

Rounds(t) == IF pc[t] = "tools" THEN iteration[t] + 1 ELSE iteration[t]

HoldsQuestion(t) == \E q \in 1 .. Len(Conv(t)) :
  /\ Conv(t)[q] = Question(t)
  /\ Len(Conv(t)) - q + Len(todo[t]) <= Room(Rounds(t))

TurnSafe(t) ==
  /\ pc[t] # "tools" => todo[t] = <<>>
  /\ Running(t) => HoldsQuestion(t) /\ Paired(Conv(t), Pending(t))
  /\ pc[t] = "tools" => Open(Conv(t), Pending(t))
  /\ pc[t] = "calling" =>
       /\ Paired(sent[t], {})
       /\ \E i \in 1 .. Len(sent[t]) : sent[t][i] = Question(t)

Quiet(k) == \A t \in Turns : KeyOf[t] = k => ~Running(t)

KeySafe(k) ==
  /\ BeginsWithUser(history[k])
  /\ Quiet(k) => Paired(history[k], {})

OneTurnPerKey == \A t, u \in Turns :
  KeyOf[t] = KeyOf[u] /\ Running(t) /\ Running(u) => t = u

SafeInv ==
  /\ IInv
  /\ OneTurnPerKey
  /\ \A t \in Turns : TurnSafe(t)
  /\ \A k \in Keys : KeySafe(k)

-----------------------------------------------------------------------------
(* Arithmetic of the window.                                                 *)

LEMMA Distributes ==
  ASSUME NEW n \in Nat, NEW k \in Nat
  PROVE  (n + 1) * k = n * k + k
OBVIOUS

LEMMA ProductGrows ==
  ASSUME NEW n \in Nat, NEW m \in Nat, n <= m, NEW k \in Nat
  PROVE  n * k \in Nat /\ m * k \in Nat /\ n * k <= m * k
OBVIOUS

(* A round more takes one request and its replies.                           *)
LEMMA RoomGrows ==
  ASSUME NEW n \in Nat
  PROVE  /\ Room(n) \in Nat
         /\ Room(n + 1) = Room(n) + 1 + MaxParallel
         /\ TurnFits /\ n <= MaxIterations => Room(n) + 2 <= MaxTurns
<1> DEFINE k == 1 + MaxParallel
<1>1. /\ k \in Nat /\ MaxParallel \in Nat
      /\ MaxIterations \in Nat /\ MaxTurns \in Nat
  BY BoundsAssumption, MaxTurnsAssumption
<1> HIDE DEF k
<1>2. n * k \in Nat
  BY <1>1, ProductGrows
<1>3. (n + 1) * k = n * k + k
  BY <1>1, Distributes
<1>4. ASSUME TurnFits, n <= MaxIterations
      PROVE  n * k + 2 <= MaxTurns
  <2>1. n * k <= MaxIterations * k /\ MaxIterations * k \in Nat
    BY <1>1, <1>4, ProductGrows
  <2>2. 2 + MaxIterations * k <= MaxTurns
    BY <1>4 DEF TurnFits, k
  <2> QED
    BY <1>1, <1>2, <2>1, <2>2
<1>5. k = 1 + MaxParallel
  BY DEF k
<1>6. Room(n) = n * k /\ Room(n + 1) = (n + 1) * k
  BY DEF Room, k
<1> QED
  BY <1>1, <1>2, <1>3, <1>4, <1>5, <1>6

-----------------------------------------------------------------------------
(* What a step of one turn leaves alone.                                     *)

\* Only turn t and its conversation change.
Frame(t) ==
  /\ \A u \in Turns : u # t => /\ pc'[u] = pc[u]
                               /\ todo'[u] = todo[u]
                               /\ sent'[u] = sent[u]
                               /\ iteration'[u] = iteration[u]
  /\ \A k \in Keys : k # KeyOf[t] => history'[k] = history[k]

(* A turn is as safe as it was when neither it nor its conversation changed. *)
LEMMA UntouchedTurnSafe ==
  ASSUME NEW u \in Turns, TurnSafe(u), Conv(u)' = Conv(u),
         pc'[u] = pc[u], todo'[u] = todo[u],
         sent'[u] = sent[u], iteration'[u] = iteration[u]
  PROVE  TurnSafe(u)'
<1>1. Pending(u)' = Pending(u) /\ Rounds(u)' = Rounds(u)
  BY DEF Pending, Rounds
<1>2. HoldsQuestion(u)' <=> HoldsQuestion(u)
  BY <1>1 DEF HoldsQuestion, Room
<1>3. Paired(Conv(u), Pending(u))' <=> Paired(Conv(u), Pending(u))
  BY <1>1 DEF Paired, NoOrphans, Answers, SameBlock
<1>4. Open(Conv(u), Pending(u))' <=> Open(Conv(u), Pending(u))
  BY <1>1 DEF Open
<1>5. Paired(sent[u], {})' <=> Paired(sent[u], {})
  BY DEF Paired, NoOrphans, Answers, SameBlock
<1> QED
  BY <1>2, <1>3, <1>4, <1>5 DEF TurnSafe, Running

LEMMA OthersSafe ==
  ASSUME SafeInv, IInv', NEW t \in Turns, Running(t) \/ KeyFree(t),
         Frame(t), TurnSafe(t)', KeySafe(KeyOf[t])'
  PROVE  SafeInv'
<1>1. \A u \in Turns : u # t => Running(u)' = Running(u)
  BY DEF Frame, Running
<1>2. \A u \in Turns : KeyOf[u] = KeyOf[t] /\ Running(u) => u = t
  BY DEF SafeInv, OneTurnPerKey, KeyFree
<1>3. OneTurnPerKey'
  BY <1>1, <1>2 DEF SafeInv, OneTurnPerKey
<1>4. ASSUME NEW u \in Turns, u # t
      PROVE  TurnSafe(u)'
  <2>1. /\ pc'[u] = pc[u] /\ todo'[u] = todo[u]
        /\ sent'[u] = sent[u] /\ iteration'[u] = iteration[u]
    BY <1>4 DEF Frame
  <2>2. TurnSafe(u)
    BY DEF SafeInv
  <2>3. CASE Running(u)
    <3>1. KeyOf[u] \in Keys /\ KeyOf[u] # KeyOf[t]
      BY <1>2, <1>4, <2>3, KeyOfAssumption
    <3>2. Conv(u)' = Conv(u)
      BY <3>1 DEF Frame, Conv
    <3> QED
      BY <2>1, <2>2, <3>2, UntouchedTurnSafe
  <2>4. CASE ~Running(u)
    <3>1. ~Running(u)' /\ pc'[u] # "calling" /\ pc'[u] # "tools"
      BY <1>1, <1>4, <2>1, <2>4 DEF Running
    <3> QED
      BY <2>1, <2>2, <3>1 DEF TurnSafe
  <2> QED
    BY <2>3, <2>4
<1>5. ASSUME NEW k \in Keys, k # KeyOf[t]
      PROVE  KeySafe(k)'
  <2>1. history'[k] = history[k]
    BY <1>5 DEF Frame
  <2>2. Quiet(k)' => Quiet(k)
    BY <1>1, <1>5 DEF Quiet
  <2>3. BeginsWithUser(history[k])' <=> BeginsWithUser(history[k])
    BY <2>1 DEF BeginsWithUser
  <2>4. Paired(history[k], {})' <=> Paired(history[k], {})
    BY <2>1 DEF Paired, NoOrphans, Answers, SameBlock
  <2>5. KeySafe(k)
    BY DEF SafeInv
  <2> QED
    BY <2>2, <2>3, <2>4, <2>5 DEF KeySafe
<1> QED
  BY <1>3, <1>4, <1>5 DEF SafeInv

(* Storing a message under a question the window still reaches: the question *)
(* stays, at the same distance from the end, and so does the pairing.        *)
LEMMA StoreKeeps ==
  ASSUME history \in [Keys -> Seq(Message)], NEW t \in Turns,
         NEW m \in Message, Remember(t, m),
         NEW q \in 1 .. Len(Conv(t)) + 1,
         Append(Conv(t), m)[q] = Question(t),
         Len(Conv(t)) + 2 - q <= MaxTurns,
         BeginsWithUser(Append(Conv(t), m))
  PROVE  /\ \A k \in Keys : k # KeyOf[t] => history'[k] = history[k]
         /\ \E p \in 1 .. Len(Conv(t)') :
              /\ Conv(t)'[p] = Question(t)
              /\ Len(Conv(t)') - p = Len(Conv(t)) + 1 - q
         /\ BeginsWithUser(Conv(t)')
         /\ Conv(t)'[Len(Conv(t)')] = m
         /\ \A pending : Paired(Append(Conv(t), m), pending)
                           => Paired(Conv(t)', pending)
         /\ \A pending : Open(Append(Conv(t), m), pending)
                           => Open(Conv(t)', pending)
<1> DEFINE s == Append(Conv(t), m)
<1>1. KeyOf[t] \in Keys /\ Conv(t) \in Seq(Message)
  BY KeyOfAssumption DEF Conv
<1>2. /\ s \in Seq(Message)
      /\ Len(Conv(t)) \in Nat
      /\ Len(s) = Len(Conv(t)) + 1
      /\ s[Len(s)] = m
  BY <1>1
<1>3. /\ Conv(t)' = Trim(s)
      /\ \A k \in Keys : k # KeyOf[t] => history'[k] = history[k]
  BY <1>1 DEF Remember, Conv, Appended
<1> HIDE DEF s
<1>4. q \in 1 .. Len(s) /\ s[q] = Question(t) /\ Len(s) - q + 1 <= MaxTurns
  <2>1. MaxTurns \in Nat
    BY MaxTurnsAssumption
  <2>2. s[q] = Question(t)
    BY DEF s
  <2> QED
    BY <1>2, <2>1, <2>2
<1>5. IsUser(s[q])
  BY <1>4 DEF IsUser, Question
<1>6. PICK p \in 1 .. q : /\ p = 1 \/ IsUser(s[p])
                          /\ Trim(s) = SubSeq(s, p, Len(s))
  BY <1>2, <1>4, <1>5, TrimKeepsQuestion
<1> DEFINE w == SubSeq(s, p, Len(s))
<1>7. p \in 1 .. Len(s)
  BY <1>2, <1>4, <1>6
<1>8. /\ w \in Seq(Message)
      /\ Len(w) = Len(s) - p + 1
      /\ \A i \in 1 .. Len(w) : w[i] = s[p + i - 1]
      /\ \A pending : Paired(s, pending) => Paired(w, pending)
      /\ \A pending : Open(s, pending) => Open(w, pending)
  BY <1>2, <1>6, <1>7, CutPaired
<1>9. Conv(t)' = w
  BY <1>3, <1>6
<1> HIDE DEF w
<1>10. /\ q - p + 1 \in 1 .. Len(w)
       /\ Len(w) \in 1 .. Len(w)
       /\ p + (q - p + 1) - 1 = q
       /\ p + 1 - 1 = p
       /\ p + Len(w) - 1 = Len(s)
       /\ 1 \in 1 .. Len(w)
       /\ Len(w) - (q - p + 1) = Len(s) - q
  <2>1. /\ p \in Nat /\ p >= 1 /\ p <= q
        /\ q \in Nat /\ q <= Len(s)
        /\ Len(s) \in Nat /\ Len(w) = Len(s) - p + 1
    BY <1>2, <1>4, <1>6, <1>8
  <2> QED
    BY <2>1
<1>11. w[q - p + 1] = Question(t) /\ w[Len(w)] = m /\ w[1] = s[p]
  BY <1>2, <1>4, <1>8, <1>10
<1>12. BeginsWithUser(w)
  <2>1. s # <<>> /\ BeginsWithUser(s)
    BY <1>2 DEF s
  <2> QED
    BY <1>6, <1>11, <2>1 DEF BeginsWithUser
<1>13. \E i \in 1 .. Len(w) : /\ w[i] = Question(t)
                              /\ Len(w) - i = Len(Conv(t)) + 1 - q
  <2>1. Len(w) - (q - p + 1) = Len(Conv(t)) + 1 - q
    BY <1>2, <1>10
  <2> QED
    BY <1>10, <1>11, <2>1, Zenon
<1>14. /\ \A pending : Paired(s, pending) => Paired(w, pending)
       /\ \A pending : Open(s, pending) => Open(w, pending)
  BY <1>8, Zenon
<1>15. \A k \in Keys : k # KeyOf[t] => history'[k] = history[k]
  BY <1>3, Zenon
<1> QED
  BY <1>9, <1>11, <1>12, <1>13, <1>14, <1>15, Zenon DEF s

(* Storing a message behind others, or a user message, keeps a conversation  *)
(* beginning with a user message.                                            *)
LEMMA AppendBegins ==
  ASSUME NEW s \in Seq(Message), NEW m \in Message, BeginsWithUser(s),
         s # <<>> \/ IsUser(m)
  PROVE  BeginsWithUser(Append(s, m))
<1>1. CASE s # <<>>
  <2>1. Append(s, m)[1] = s[1]
    BY <1>1
  <2> QED
    BY <1>1, <2>1 DEF BeginsWithUser
<1>2. CASE s = <<>>
  <2>1. Append(s, m)[1] = m
    BY <1>2
  <2> QED
    BY <1>2, <2>1 DEF BeginsWithUser
<1> QED
  BY <1>1, <1>2

-----------------------------------------------------------------------------
(* The actions.                                                              *)

(* What the invariant says of a turn that is running.                        *)
LEMMA RunningFacts ==
  ASSUME SafeInv, NEW t \in Turns, Running(t)
  PROVE  /\ KeyOf[t] \in Keys
         /\ history \in [Keys -> Seq(Message)]
         /\ Conv(t) \in Seq(Message)
         /\ Conv(t) # <<>>
         /\ BeginsWithUser(Conv(t))
         /\ HoldsQuestion(t)
         /\ Paired(Conv(t), Pending(t))
         /\ iteration[t] \in 0 .. MaxIterations
         /\ todo[t] \in Seq(CallIds)
         /\ pc[t] # "tools" => todo[t] = <<>> /\ Pending(t) = {}
<1>1. KeyOf[t] \in Keys /\ history \in [Keys -> Seq(Message)]
  BY KeyOfAssumption DEF SafeInv, IInv, TypeOK
<1>2. TurnSafe(t) /\ KeySafe(KeyOf[t])
  BY <1>1 DEF SafeInv
<1>3. BeginsWithUser(Conv(t)) /\ HoldsQuestion(t) /\ Paired(Conv(t), Pending(t))
  BY <1>2 DEF TurnSafe, KeySafe, Conv
<1>4. Conv(t) \in Seq(Message)
  BY <1>1 DEF Conv
<1>5. Conv(t) # <<>>
  BY <1>3, <1>4 DEF HoldsQuestion
<1>6. iteration[t] \in 0 .. MaxIterations /\ todo[t] \in Seq(CallIds)
  BY DEF SafeInv, IInv, TypeOK
<1>7. pc[t] # "tools" => todo[t] = <<>> /\ Pending(t) = {}
  BY <1>2 DEF TurnSafe, Pending
<1> QED
  BY <1>1, <1>3, <1>4, <1>5, <1>6, <1>7

(* A turn that ends leaves a well paired conversation.                       *)
LEMMA EndSafe ==
  ASSUME SafeInv, IInv', NEW t \in Turns, NEW label \in {"answered", "raised"},
         pc[t] = "calling", End(t, label),
         \A k \in Keys : k # KeyOf[t] => history'[k] = history[k],
         BeginsWithUser(Conv(t)'), Paired(Conv(t)', {})
  PROVE  SafeInv'
<1>1. Running(t)
  BY DEF Running
<1>2. todo[t] = <<>>
  BY <1>1, RunningFacts
<1>3. pc'[t] = label /\ todo' = todo
  BY DEF End, Goto, SafeInv, IInv, TypeOK
<1>4. TurnSafe(t)'
  BY <1>2, <1>3 DEF TurnSafe, Running
<1>5. KeySafe(KeyOf[t])'
  <2>1. BeginsWithUser(history[KeyOf[t]])'
    BY DEF Conv, BeginsWithUser
  <2>2. Paired(history[KeyOf[t]], {})'
    BY DEF Conv, Paired, NoOrphans, Answers, SameBlock
  <2> QED
    BY <2>1, <2>2 DEF KeySafe
<1>6. Frame(t)
  BY DEF Frame, End, Goto, SafeInv, IInv, TypeOK
<1> QED
  BY <1>1, <1>4, <1>5, <1>6, OthersSafe

LEMMA StartSafe ==
  ASSUME SafeInv, IInv', TurnFits, NEW t \in Turns, KeyFree(t), Start(t)
  PROVE  SafeInv'
<1> DEFINE m == Question(t)
           q == Len(Conv(t)) + 1
<1>1. KeyOf[t] \in Keys /\ history \in [Keys -> Seq(Message)]
  BY KeyOfAssumption DEF SafeInv, IInv, TypeOK
<1>2. Conv(t) \in Seq(Message)
  BY <1>1 DEF Conv
<1>3. BeginsWithUser(Conv(t)) /\ Paired(Conv(t), {})
  <2>1. KeySafe(KeyOf[t])
    BY <1>1 DEF SafeInv
  <2>2. Quiet(KeyOf[t])
    BY DEF KeyFree, Quiet
  <2> QED
    BY <2>1, <2>2 DEF KeySafe, Conv
<1>4. todo[t] = <<>>
  BY DEF SafeInv, TurnSafe, Start
<1>5. m \in Message /\ ~IsTool(m) /\ IsUser(m) /\ m.ids = {}
  BY MessageTypes DEF Question, IsTool, IsUser
<1> HIDE DEF m
<1>6. q \in 1 .. Len(Conv(t)) + 1 /\ Append(Conv(t), m)[q] = m
  BY <1>2
<1>7. Len(Conv(t)) + 2 - q <= MaxTurns
  <2>1. Room(0) + 2 <= MaxTurns /\ Room(0) \in Nat /\ MaxTurns \in Nat
    BY RoomGrows, BoundsAssumption, MaxTurnsAssumption
  <2>2. Len(Conv(t)) \in Nat
    BY <1>2
  <2> QED
    BY <2>1, <2>2
<1>8. BeginsWithUser(Append(Conv(t), m))
  BY <1>2, <1>3, <1>5, AppendBegins
<1>9. Paired(Append(Conv(t), m), {})
  BY <1>2, <1>3, <1>5, RequestPaired
<1>10. /\ Remember(t, m)
       /\ pc[t] = "new"
       /\ pc' = [pc EXCEPT ![t] = "prompt"]
       /\ UNCHANGED <<iteration, forced, sent, attempt, todo>>
  BY DEF Start, Goto, m
<1>11. /\ \A k \in Keys : k # KeyOf[t] => history'[k] = history[k]
       /\ \E p \in 1 .. Len(Conv(t)') :
            /\ Conv(t)'[p] = Question(t)
            /\ Len(Conv(t)') - p = Len(Conv(t)) + 1 - q
       /\ BeginsWithUser(Conv(t)')
       /\ Paired(Conv(t)', {})
  <2>1. Append(Conv(t), m)[q] = Question(t)
    BY <1>6 DEF m
  <2> HIDE DEF q
  <2> QED
    BY <1>1, <1>5, <1>6, <1>7, <1>8, <1>9, <1>10, <2>1, StoreKeeps
<1>12. pc'[t] = "prompt" /\ todo'[t] = <<>> /\ iteration'[t] = iteration[t]
  BY <1>4, <1>10 DEF SafeInv, IInv, TypeOK
<1>13. HoldsQuestion(t)'
  <2>1. Len(Conv(t)) + 1 - q = 0
    BY <1>2
  <2>2. Room(Rounds(t))' \in Nat
    <3>1. Rounds(t)' = iteration[t] /\ iteration[t] \in Nat
      BY <1>12, BoundsAssumption DEF Rounds, SafeInv, IInv, TypeOK
    <3>2. Room(iteration[t]) \in Nat
      BY <3>1, RoomGrows
    <3> QED
      BY <3>1, <3>2 DEF Room
  <2>3. Len(todo'[t]) = 0
    BY <1>12
  <2> QED
    BY <1>11, <2>1, <2>2, <2>3 DEF HoldsQuestion
<1>14. Pending(t)' = {}
  BY <1>12 DEF Pending
<1>15. TurnSafe(t)'
  BY <1>11, <1>12, <1>13, <1>14 DEF TurnSafe, Running
<1>16. KeySafe(KeyOf[t])'
  <2>1. BeginsWithUser(history[KeyOf[t]])'
    BY <1>11 DEF Conv, BeginsWithUser
  <2>2. ~Quiet(KeyOf[t])'
    BY <1>12 DEF Quiet, Running
  <2> QED
    BY <2>1, <2>2 DEF KeySafe
<1>17. Frame(t)
  BY <1>10, <1>11 DEF Frame
<1> QED
  BY <1>15, <1>16, <1>17, OthersSafe

(* A turn that goes on without storing anything.                             *)
LEMMA GoOnSafe ==
  ASSUME SafeInv, IInv', NEW t \in Turns, Running(t), pc[t] # "tools",
         UNCHANGED history, pc'[t] \in {"prompt", "calling"},
         iteration'[t] = iteration[t], todo'[t] = todo[t], Frame(t),
         pc'[t] = "calling" =>
           /\ Paired(sent'[t], {})
           /\ \E i \in 1 .. Len(sent'[t]) : sent'[t][i] = Question(t)
  PROVE  SafeInv'
<1>1. /\ KeyOf[t] \in Keys
      /\ BeginsWithUser(Conv(t)) /\ HoldsQuestion(t)
      /\ Paired(Conv(t), {})
      /\ todo[t] = <<>> /\ Pending(t) = {}
  BY RunningFacts
<1>2. Conv(t)' = Conv(t)
  BY DEF Conv
<1>3. Rounds(t)' = Rounds(t) /\ Pending(t)' = {}
  BY <1>1 DEF Rounds, Pending
<1>4. HoldsQuestion(t)'
  BY <1>1, <1>2, <1>3 DEF HoldsQuestion, Room
<1>5. Paired(Conv(t), Pending(t))'
  <2>1. Pending(t)' = Pending(t)
    BY <1>1, <1>3
  <2>2. Paired(Conv(t), Pending(t))' <=> Paired(Conv(t), Pending(t))
    BY <1>2, <2>1 DEF Paired, NoOrphans, Answers, SameBlock
  <2> QED
    BY <1>1, <2>2
<1>6. TurnSafe(t)'
  BY <1>1, <1>4, <1>5
     DEF TurnSafe, Running, Paired, NoOrphans, Answers, SameBlock
<1>7. KeySafe(KeyOf[t])'
  <2>1. BeginsWithUser(history[KeyOf[t]])'
    BY <1>1 DEF Conv, BeginsWithUser
  <2>2. ~Quiet(KeyOf[t])'
    BY DEF Quiet, Running
  <2> QED
    BY <2>1, <2>2 DEF KeySafe
<1> QED
  BY <1>6, <1>7, OthersSafe

LEMMA PromptSafe ==
  ASSUME SafeInv, IInv', NEW t \in Turns, Prompt(t)
  PROVE  SafeInv'
<1>1. Running(t) /\ pc[t] = "prompt"
  BY DEF Prompt, Running
<1>2. /\ Conv(t) \in Seq(Message)
      /\ Paired(Conv(t), {})
      /\ HoldsQuestion(t)
  BY <1>1, RunningFacts
<1> DEFINE asked == Append(Conv(t), Nudge)
           M == Message \cup {Nudge}
<1>3. PICK q \in 1 .. Len(Conv(t)) : Conv(t)[q] = Question(t)
  BY <1>2 DEF HoldsQuestion
<1>4. Paired(asked, {})
  <2>1. Conv(t) \in Seq(M) /\ Nudge \in M
    BY <1>2
  <2>2. ~IsTool(Nudge) /\ Nudge.ids = {}
    BY DEF IsTool, Nudge
  <2> HIDE DEF M
  <2>3. Paired(asked, Nudge.ids)
    BY <1>2, <2>1, <2>2, RequestPaired
  <2> QED
    BY <2>2, <2>3
<1>5. q \in 1 .. Len(asked) /\ asked[q] = Question(t)
  BY <1>2, <1>3
<1> HIDE DEF asked
<1>6. sent'[t] = asked \/ sent'[t] = Conv(t)
  BY DEF Prompt, asked, Conv, SafeInv, IInv, TypeOK
<1>7. /\ Paired(sent'[t], {})
      /\ \E i \in 1 .. Len(sent'[t]) : sent'[t][i] = Question(t)
  BY <1>2, <1>3, <1>4, <1>5, <1>6
<1>8. /\ UNCHANGED history
      /\ pc'[t] = "calling"
      /\ iteration'[t] = iteration[t]
      /\ todo'[t] = todo[t]
  BY DEF Prompt, Goto, SafeInv, IInv, TypeOK
<1>9. Frame(t)
  BY DEF Frame, Prompt, Goto, SafeInv, IInv, TypeOK
<1> QED
  BY <1>1, <1>7, <1>8, <1>9, GoOnSafe

LEMMA CallFailsSafe ==
  ASSUME SafeInv, IInv', NEW t \in Turns, NEW retryable \in BOOLEAN,
         CallFails(t, retryable)
  PROVE  SafeInv'
<1>1. Running(t) /\ pc[t] = "calling" /\ UNCHANGED history
  BY DEF CallFails, Running
<1>2. CASE Retries(t, retryable)
  <2>1. UNCHANGED <<pc, sent, iteration, todo>>
    BY <1>2 DEF CallFails
  <2>2. Frame(t)
    BY <1>1, <2>1 DEF Frame
  <2>3. /\ Paired(sent[t], {})
        /\ \E i \in 1 .. Len(sent[t]) : sent[t][i] = Question(t)
    BY <1>1 DEF SafeInv, TurnSafe
  <2> QED
    BY <1>1, <2>1, <2>2, <2>3, GoOnSafe
<1>3. CASE ~Retries(t, retryable)
  <2>1. End(t, "raised")
    BY <1>3 DEF CallFails
  <2>2. BeginsWithUser(Conv(t)) /\ Paired(Conv(t), {})
    BY <1>1, RunningFacts
  <2>3. Conv(t)' = Conv(t)
    BY <1>1 DEF Conv
  <2> QED
    BY <1>1, <2>1, <2>2, <2>3, EndSafe
<1> QED
  BY <1>2, <1>3

LEMMA NoChoicesSafe ==
  ASSUME SafeInv, IInv', NEW t \in Turns, NoChoices(t)
  PROVE  SafeInv'
<1>1. Running(t) /\ pc[t] = "calling" /\ UNCHANGED history /\ End(t, "raised")
  BY DEF NoChoices, Called, Running
<1>2. BeginsWithUser(Conv(t)) /\ Paired(Conv(t), {})
  BY <1>1, RunningFacts
<1>3. Conv(t)' = Conv(t)
  BY <1>1 DEF Conv
<1> QED
  BY <1>1, <1>2, <1>3, EndSafe

LEMMA EmptyContentSafe ==
  ASSUME SafeInv, IInv', NEW t \in Turns, EmptyContent(t)
  PROVE  SafeInv'
<1>1. Running(t) /\ pc[t] = "calling"
  BY DEF EmptyContent, Called, Running
<1>2. /\ UNCHANGED history
      /\ pc'[t] = "prompt"
      /\ iteration'[t] = iteration[t]
      /\ todo'[t] = todo[t]
  BY DEF EmptyContent, Goto, SafeInv, IInv, TypeOK
<1>3. Frame(t)
  BY DEF Frame, EmptyContent, Goto, SafeInv, IInv, TypeOK
<1> QED
  BY <1>1, <1>2, <1>3, GoOnSafe

(* What storing an answer does, for the invariant and for the next turn.     *)
LEMMA AnswerStored ==
  ASSUME SafeInv, TurnFits, NEW t \in Turns, AnswerText(t)
  PROVE  /\ \A k \in Keys : k # KeyOf[t] => history'[k] = history[k]
         /\ BeginsWithUser(Conv(t)')
         /\ Paired(Conv(t)', {})
         /\ \E i \in 1 .. Len(Conv(t)') : Conv(t)'[i] = Question(t)
         /\ Conv(t)'[Len(Conv(t)')] = Answer(t)
<1> DEFINE m == Answer(t)
<1>1. pc[t] = "calling" /\ Running(t) /\ Remember(t, m)
  BY DEF AnswerText, Called, Running
<1>2. /\ history \in [Keys -> Seq(Message)]
      /\ Conv(t) \in Seq(Message)
      /\ Conv(t) # <<>>
      /\ BeginsWithUser(Conv(t))
      /\ HoldsQuestion(t)
      /\ Paired(Conv(t), {})
      /\ iteration[t] \in 0 .. MaxIterations
      /\ todo[t] = <<>>
  BY <1>1, RunningFacts
<1>3. m \in Message /\ ~IsTool(m) /\ m.ids = {}
  BY MessageTypes DEF Answer, IsTool
<1> HIDE DEF m
<1>4. Rounds(t) = iteration[t]
  BY <1>1 DEF Rounds
<1>5. PICK q \in 1 .. Len(Conv(t)) :
        /\ Conv(t)[q] = Question(t)
        /\ Len(Conv(t)) - q <= Room(iteration[t])
  BY <1>2, <1>4 DEF HoldsQuestion
<1>6. iteration[t] \in Nat /\ iteration[t] <= MaxIterations /\ MaxTurns \in Nat
  BY <1>2, BoundsAssumption, MaxTurnsAssumption
<1>7. Len(Conv(t)) + 2 - q <= MaxTurns
  <2>1. Room(iteration[t]) \in Nat /\ Room(iteration[t]) + 2 <= MaxTurns
    BY <1>6, RoomGrows
  <2>2. Len(Conv(t)) \in Nat
    BY <1>2
  <2> QED
    BY <1>5, <1>6, <2>1, <2>2
<1>8. q \in 1 .. Len(Conv(t)) + 1 /\ Append(Conv(t), m)[q] = Question(t)
  BY <1>2, <1>5
<1>9. BeginsWithUser(Append(Conv(t), m))
  BY <1>2, <1>3, AppendBegins
<1>10. Paired(Append(Conv(t), m), {})
  <2>1. Paired(Append(Conv(t), m), m.ids)
    BY <1>2, <1>3, RequestPaired
  <2> QED
    BY <1>3, <2>1
<1>11. m = Answer(t)
  BY DEF m
<1> QED
  BY <1>1, <1>2, <1>3, <1>7, <1>8, <1>9, <1>10, <1>11, StoreKeeps

LEMMA AnswerTextSafe ==
  ASSUME SafeInv, IInv', TurnFits, NEW t \in Turns, AnswerText(t)
  PROVE  SafeInv'
<1>1. pc[t] = "calling" /\ End(t, "answered")
  BY DEF AnswerText, Called
<1> QED
  BY <1>1, AnswerStored, EndSafe

LEMMA RequestToolsSafe ==
  ASSUME SafeInv, IInv', TurnFits, NEW t \in Turns, NEW n \in 1 .. MaxParallel,
         RequestTools(t, n)
  PROVE  SafeInv'
<1> DEFINE calls == [i \in 1 .. n |-> <<iteration[t], i>>]
           ids == {calls[i] : i \in 1 .. n}
           m == Request(t, ids)
<1>1. pc[t] = "calling" /\ Running(t)
  BY DEF RequestTools, Called, Running
<1>2. /\ KeyOf[t] \in Keys
      /\ history \in [Keys -> Seq(Message)]
      /\ Conv(t) \in Seq(Message)
      /\ Conv(t) # <<>>
      /\ BeginsWithUser(Conv(t))
      /\ HoldsQuestion(t)
      /\ Paired(Conv(t), {})
      /\ iteration[t] \in 0 .. MaxIterations
      /\ todo[t] = <<>>
  BY <1>1, RunningFacts
<1>3. n \in Nat /\ n >= 1 /\ n <= MaxParallel /\ MaxParallel \in Nat
  BY BoundsAssumption
<1>4. /\ iteration[t] \in Nat /\ iteration[t] < MaxIterations
      /\ iteration[t] + 1 \in Nat /\ iteration[t] + 1 <= MaxIterations
  <2>1. iteration[t] < MaxIterations
    BY DEF RequestTools, OffersTools, Called, SafeInv, IInv, RoundsLeft
  <2> QED
    BY <1>2, <2>1, BoundsAssumption
<1>5. calls \in Seq(CallIds) /\ Len(calls) = n
  <2>1. \A i \in 1 .. n : calls[i] \in CallIds
    BY <1>3, <1>2 DEF CallIds
  <2>2. calls \in [1 .. n -> CallIds]
    BY <2>1
  <2>3. calls \in Seq(CallIds)
    BY <1>3, <2>2, IsASeq
  <2> QED
    BY <1>3, <2>2, <2>3
<1>6. m \in Message /\ ~IsTool(m) /\ m.ids = ids /\ m.role = "assistant"
  <2>1. ids \in SUBSET CallIds
    BY <1>2, <1>3 DEF CallIds
  <2> HIDE DEF ids
  <2> QED
    BY <2>1, MessageTypes DEF Request, IsTool
<1>7. /\ Remember(t, m)
      /\ todo' = [todo EXCEPT ![t] = calls]
      /\ pc' = [pc EXCEPT ![t] = "tools"]
      /\ sent' = [sent EXCEPT ![t] = <<>>]
      /\ UNCHANGED <<iteration, forced>>
  BY DEF RequestTools, Goto
<1>8. ids = {calls[i] : i \in 1 .. Len(calls)}
  BY <1>5
<1> HIDE DEF calls, ids, m
<1>9. Rounds(t) = iteration[t]
  BY <1>1 DEF Rounds
<1>10. PICK q \in 1 .. Len(Conv(t)) :
        /\ Conv(t)[q] = Question(t)
        /\ Len(Conv(t)) - q <= Room(iteration[t])
  BY <1>2, <1>9 DEF HoldsQuestion
<1>11. /\ Room(iteration[t]) \in Nat /\ Room(iteration[t]) + 2 <= MaxTurns
       /\ Room(iteration[t] + 1) = Room(iteration[t]) + 1 + MaxParallel
       /\ MaxTurns \in Nat
       /\ Len(Conv(t)) \in Nat
  <2>1. iteration[t] \in Nat /\ iteration[t] <= MaxIterations
    BY <1>2, <1>4
  <2>2. /\ Room(iteration[t]) \in Nat /\ Room(iteration[t]) + 2 <= MaxTurns
        /\ Room(iteration[t] + 1) = Room(iteration[t]) + 1 + MaxParallel
    BY <2>1, RoomGrows
  <2>3. MaxTurns \in Nat /\ Len(Conv(t)) \in Nat
    BY <1>2, MaxTurnsAssumption
  <2> QED
    BY <2>2, <2>3
<1>12. Len(Conv(t)) + 2 - q <= MaxTurns
  BY <1>10, <1>11
<1>13. q \in 1 .. Len(Conv(t)) + 1 /\ Append(Conv(t), m)[q] = Question(t)
  BY <1>2, <1>10
<1>14. BeginsWithUser(Append(Conv(t), m))
  BY <1>2, <1>6, AppendBegins
<1>15. Paired(Append(Conv(t), m), ids) /\ Open(Append(Conv(t), m), ids)
  BY <1>2, <1>6, RequestPaired
<1>16. /\ \A k \in Keys : k # KeyOf[t] => history'[k] = history[k]
       /\ \E p \in 1 .. Len(Conv(t)') :
            /\ Conv(t)'[p] = Question(t)
            /\ Len(Conv(t)') - p = Len(Conv(t)) + 1 - q
       /\ BeginsWithUser(Conv(t)')
       /\ Paired(Conv(t)', ids)
       /\ Open(Conv(t)', ids)
  BY <1>2, <1>6, <1>7, <1>12, <1>13, <1>14, <1>15, StoreKeeps
<1>17. pc'[t] = "tools" /\ todo'[t] = calls /\ iteration'[t] = iteration[t]
  BY <1>7 DEF SafeInv, IInv, TypeOK
<1>18. HoldsQuestion(t)'
  <2>1. PICK p \in 1 .. Len(Conv(t)') :
          /\ Conv(t)'[p] = Question(t)
          /\ Len(Conv(t)') - p = Len(Conv(t)) + 1 - q
    BY <1>16
  <2>2. Room(Rounds(t))' = Room(iteration[t]) + 1 + MaxParallel
    BY <1>11, <1>17 DEF Rounds, Room
  <2>3. Len(Conv(t)) + 1 - q + n <= Room(iteration[t]) + 1 + MaxParallel
    BY <1>3, <1>10, <1>11
  <2>4. Len(Conv(t)') - p + Len(todo'[t]) <= Room(Rounds(t))'
    BY <1>5, <1>17, <2>1, <2>2, <2>3
  <2> QED
    BY <2>1, <2>4 DEF HoldsQuestion
<1>19. Pending(t)' = ids
  BY <1>8, <1>17 DEF Pending
<1>20. Paired(Conv(t), Pending(t))' /\ Open(Conv(t), Pending(t))'
  BY <1>16, <1>19 DEF Paired, NoOrphans, Answers, SameBlock, Open
<1>21. TurnSafe(t)'
  BY <1>17, <1>18, <1>20 DEF TurnSafe
<1>22. KeySafe(KeyOf[t])'
  <2>1. BeginsWithUser(history[KeyOf[t]])'
    BY <1>16 DEF Conv, BeginsWithUser
  <2>2. ~Quiet(KeyOf[t])'
    BY <1>17 DEF Quiet, Running
  <2> QED
    BY <2>1, <2>2 DEF KeySafe
<1>23. Frame(t)
  BY <1>7, <1>16 DEF Frame, SafeInv, IInv, TypeOK
<1> QED
  BY <1>1, <1>21, <1>22, <1>23, OthersSafe

LEMMA RunToolSafe ==
  ASSUME SafeInv, IInv', TurnFits, NEW t \in Turns, RunTool(t)
  PROVE  SafeInv'
<1> DEFINE c == Head(todo[t])
           rest == Tail(todo[t])
           m == Reply(t, c)
           others == {rest[i] : i \in 1 .. Len(rest)}
<1>1. pc[t] = "tools" /\ Running(t)
  BY DEF RunTool, Running
<1>2. /\ KeyOf[t] \in Keys
      /\ history \in [Keys -> Seq(Message)]
      /\ Conv(t) \in Seq(Message)
      /\ Conv(t) # <<>>
      /\ BeginsWithUser(Conv(t))
      /\ HoldsQuestion(t)
      /\ Paired(Conv(t), Pending(t))
      /\ todo[t] \in Seq(CallIds)
  BY <1>1, RunningFacts
<1>3. todo[t] # <<>> /\ iteration[t] \in Nat /\ iteration[t] < MaxIterations
  BY <1>1, BoundsAssumption DEF SafeInv, IInv, TypeOK, RoundsLeft
<1>4. Open(Conv(t), Pending(t))
  BY <1>1 DEF SafeInv, TurnSafe
<1>5. /\ c \in CallIds
      /\ rest \in Seq(CallIds)
      /\ Len(todo[t]) \in Nat /\ Len(rest) = Len(todo[t]) - 1
      /\ Len(rest) \in Nat
      /\ c = todo[t][1] /\ 1 \in 1 .. Len(todo[t])
      /\ \A i \in 1 .. Len(rest) : rest[i] = todo[t][i + 1]
  BY <1>2, <1>3
<1>6. m \in Message /\ IsTool(m) /\ m.ids = {c}
  BY <1>5, MessageTypes DEF Reply, IsTool
<1> HIDE DEF c, rest, m
<1>7. /\ c \in Pending(t)
      /\ others \subseteq Pending(t)
      /\ Pending(t) \subseteq {c} \cup others
  <2>1. c \in Pending(t)
    BY <1>5 DEF Pending
  <2>2. ASSUME NEW i \in 1 .. Len(rest)
        PROVE  rest[i] \in Pending(t)
    <3>1. i + 1 \in 1 .. Len(todo[t]) /\ rest[i] = todo[t][i + 1]
      BY <1>5
    <3> QED
      BY <3>1 DEF Pending
  <2>3. ASSUME NEW i \in 1 .. Len(todo[t])
        PROVE  todo[t][i] \in {c} \cup others
    <3>1. CASE i = 1
      BY <1>5, <3>1
    <3>2. CASE i # 1
      <4>1. i - 1 \in 1 .. Len(rest) /\ (i - 1) + 1 = i
        BY <1>5, <3>2
      <4>2. rest[i - 1] = todo[t][i]
        BY <1>5, <4>1
      <4> QED
        BY <4>1, <4>2
    <3> QED
      BY <3>1, <3>2
  <2> QED
    BY <2>1, <2>2, <2>3 DEF Pending
<1> HIDE DEF others
<1>8. Rounds(t) = iteration[t] + 1
  BY <1>1 DEF Rounds
<1>9. PICK q \in 1 .. Len(Conv(t)) :
        /\ Conv(t)[q] = Question(t)
        /\ Len(Conv(t)) - q + Len(todo[t]) <= Room(iteration[t] + 1)
  BY <1>2, <1>8 DEF HoldsQuestion
<1>10. /\ Room(iteration[t] + 1) \in Nat
       /\ Room(iteration[t] + 1) + 2 <= MaxTurns
       /\ MaxTurns \in Nat
       /\ Len(Conv(t)) \in Nat
  <2>1. iteration[t] + 1 \in Nat /\ iteration[t] + 1 <= MaxIterations
    BY <1>3, BoundsAssumption
  <2>2. Room(iteration[t] + 1) \in Nat /\ Room(iteration[t] + 1) + 2 <= MaxTurns
    BY <2>1, RoomGrows
  <2>3. MaxTurns \in Nat /\ Len(Conv(t)) \in Nat
    BY <1>2, MaxTurnsAssumption
  <2> QED
    BY <2>2, <2>3
<1>11. Len(Conv(t)) + 2 - q <= MaxTurns
  BY <1>5, <1>9, <1>10
<1>12. q \in 1 .. Len(Conv(t)) + 1 /\ Append(Conv(t), m)[q] = Question(t)
  BY <1>2, <1>9
<1>13. BeginsWithUser(Append(Conv(t), m))
  BY <1>2, <1>6, AppendBegins
<1>14. Paired(Append(Conv(t), m), others) /\ Open(Append(Conv(t), m), others)
  BY <1>2, <1>4, <1>6, <1>7, ReplyPaired
<1>15. Remember(t, m)
  BY DEF RunTool, m, c
<1>16. /\ \A k \in Keys : k # KeyOf[t] => history'[k] = history[k]
       /\ \E p \in 1 .. Len(Conv(t)') :
            /\ Conv(t)'[p] = Question(t)
            /\ Len(Conv(t)') - p = Len(Conv(t)) + 1 - q
       /\ BeginsWithUser(Conv(t)')
       /\ Paired(Conv(t)', others)
       /\ Open(Conv(t)', others)
  BY <1>2, <1>6, <1>11, <1>12, <1>13, <1>14, <1>15, StoreKeeps
\* Either way what is left to do is the rest, and the rounds are the same.
<1>17. /\ todo'[t] = rest
       /\ Rounds(t)' = iteration[t] + 1
       /\ \/ pc'[t] = "tools"
          \/ pc'[t] = "prompt" /\ rest = <<>>
       /\ Frame(t)
  <2>1. CASE LastOfRound(t)
    <3>1. /\ pc' = [pc EXCEPT ![t] = "prompt"]
          /\ iteration' = [iteration EXCEPT ![t] = iteration[t] + 1]
          /\ todo' = [todo EXCEPT ![t] = <<>>]
          /\ UNCHANGED <<forced, sent, attempt>>
      BY <2>1 DEF RunTool, Goto, SafeInv, IInv, TypeOK
    <3>2. rest = <<>>
      <4>1. Len(rest) = 0
        BY <1>5, <2>1 DEF LastOfRound
      <4> QED
        BY <1>5, <4>1
    <3>3. /\ pc'[t] = "prompt"
          /\ todo'[t] = rest
          /\ iteration'[t] = iteration[t] + 1
      BY <3>1, <3>2 DEF SafeInv, IInv, TypeOK
    <3>4. Rounds(t)' = iteration[t] + 1
      BY <3>3 DEF Rounds
    <3>5. Frame(t)
      BY <1>16, <3>1 DEF Frame, SafeInv, IInv, TypeOK
    <3> QED
      BY <3>2, <3>3, <3>4, <3>5
  <2>2. CASE ~LastOfRound(t)
    <3>1. /\ todo' = [todo EXCEPT ![t] = rest]
          /\ UNCHANGED <<pc, iteration, forced, sent, attempt>>
      BY <2>2 DEF RunTool, SafeInv, IInv, TypeOK, rest
    <3>2. /\ pc'[t] = "tools"
          /\ todo'[t] = rest
          /\ iteration'[t] = iteration[t]
      BY <1>1, <3>1 DEF SafeInv, IInv, TypeOK
    <3>3. Rounds(t)' = iteration[t] + 1
      BY <3>2 DEF Rounds
    <3>4. Frame(t)
      BY <1>16, <3>1 DEF Frame, SafeInv, IInv, TypeOK
    <3> QED
      BY <3>2, <3>3, <3>4
  <2> QED
    BY <2>1, <2>2
<1>18. HoldsQuestion(t)'
  <2>1. PICK p \in 1 .. Len(Conv(t)') :
          /\ Conv(t)'[p] = Question(t)
          /\ Len(Conv(t)') - p = Len(Conv(t)) + 1 - q
    BY <1>16
  <2>2. Room(Rounds(t))' = Room(iteration[t] + 1)
    BY <1>17 DEF Room
  <2>3. Len(Conv(t)) + 1 - q + Len(rest) <= Room(iteration[t] + 1)
    <3>1. Len(rest) = Len(todo[t]) - 1 /\ Len(todo[t]) \in Nat
      BY <1>5, Zenon
    <3>2. Len(Conv(t)) - q + Len(todo[t]) <= Room(iteration[t] + 1)
      BY <1>9, Zenon
    <3>3. Room(iteration[t] + 1) \in Nat /\ Len(Conv(t)) \in Nat
      BY <1>10, Zenon
    <3>4. q \in Int
      OBVIOUS
    <3>5. \A len, room, left \in Nat : \A i \in Int :
            len - i + left <= room => len + 1 - i + (left - 1) <= room
      OBVIOUS
    <3>6. Len(Conv(t)) + 1 - q + (Len(todo[t]) - 1) <= Room(iteration[t] + 1)
      BY <3>1, <3>2, <3>3, <3>4, <3>5, Zenon
    <3> QED
      BY <3>1, <3>6, Zenon
  <2>4. Len(Conv(t)') - p + Len(todo'[t]) <= Room(Rounds(t))'
    BY <1>17, <2>1, <2>2, <2>3
  <2> QED
    BY <2>1, <2>4 DEF HoldsQuestion
<1>19. Pending(t)' = others
  BY <1>17 DEF Pending, others
<1>20. Paired(Conv(t), Pending(t))' /\ Open(Conv(t), Pending(t))'
  BY <1>16, <1>19 DEF Paired, NoOrphans, Answers, SameBlock, Open
<1>21. TurnSafe(t)'
  BY <1>17, <1>18, <1>20 DEF TurnSafe
<1>22. KeySafe(KeyOf[t])'
  <2>1. BeginsWithUser(history[KeyOf[t]])'
    BY <1>16 DEF Conv, BeginsWithUser
  <2>2. ~Quiet(KeyOf[t])'
    BY <1>17 DEF Quiet, Running
  <2> QED
    BY <2>1, <2>2 DEF KeySafe
<1> QED
  BY <1>1, <1>17, <1>21, <1>22, OthersSafe

-----------------------------------------------------------------------------
(* The invariant.                                                            *)

LEMMA InitSafe == Init => SafeInv
<1> SUFFICES ASSUME Init
             PROVE  SafeInv
  OBVIOUS
<1>1. IInv
  BY InitIInv
<1>2. \A t \in Turns : pc[t] = "new" /\ todo[t] = <<>>
  BY DEF Init
<1>3. OneTurnPerKey
  BY <1>2 DEF OneTurnPerKey, Running
<1>4. \A t \in Turns : TurnSafe(t)
  BY <1>2 DEF TurnSafe, Running
<1>5. \A k \in Keys : KeySafe(k)
  <2>1. TAKE k \in Keys
  <2>2. history[k] = <<>> /\ Len(history[k]) = 0
    BY DEF Init
  <2>3. BeginsWithUser(history[k])
    BY <2>2 DEF BeginsWithUser
  <2>4. Paired(history[k], {})
    BY <2>2 DEF Paired, NoOrphans
  <2> QED
    BY <2>3, <2>4 DEF KeySafe
<1> QED
  BY <1>1, <1>3, <1>4, <1>5 DEF SafeInv

LEMMA StepSafe ==
  ASSUME TurnFits, SafeInv, NEW t \in Turns, Step(t)
  PROVE  SafeInv'
<1>1. IInv'
  BY StepIInv DEF SafeInv
<1>2. CASE Prompt(t)
  BY <1>1, <1>2, PromptSafe
<1>3. CASE \E retryable \in BOOLEAN : CallFails(t, retryable)
  BY <1>1, <1>3, CallFailsSafe
<1>4. CASE NoChoices(t)
  BY <1>1, <1>4, NoChoicesSafe
<1>5. CASE \E n \in 1 .. MaxParallel : RequestTools(t, n)
  BY <1>1, <1>5, RequestToolsSafe
<1>6. CASE RunTool(t)
  BY <1>1, <1>6, RunToolSafe
<1>7. CASE AnswerText(t)
  BY <1>1, <1>7, AnswerTextSafe
<1>8. CASE EmptyContent(t)
  BY <1>1, <1>8, EmptyContentSafe
<1> QED
  BY <1>2, <1>3, <1>4, <1>5, <1>6, <1>7, <1>8 DEF Step

(* A conversation no turn is using may be emptied, by anyone; no step at all *)
(* is the special case in which none is.                                     *)
LEMMA ForgetSafe ==
  ASSUME SafeInv, IInv',
         UNCHANGED <<pc, iteration, forced, sent, attempt, todo>>,
         \A k \in Keys : \/ history'[k] = history[k]
                         \/ Quiet(k) /\ history'[k] = <<>>
  PROVE  SafeInv'
<1>1. OneTurnPerKey'
  BY DEF SafeInv, OneTurnPerKey, Running
<1>2. ASSUME NEW t \in Turns
      PROVE  TurnSafe(t)'
  <2>1. TurnSafe(t) /\ KeyOf[t] \in Keys
    BY KeyOfAssumption DEF SafeInv
  <2>2. CASE Running(t)
    <3>1. Conv(t)' = Conv(t)
      BY <2>1, <2>2 DEF Quiet, Conv
    <3> QED
      BY <2>1, <3>1, UntouchedTurnSafe
  <2>3. CASE ~Running(t)
    <3>1. ~Running(t)' /\ pc'[t] # "calling" /\ pc'[t] # "tools"
      BY <2>3 DEF Running
    <3> QED
      BY <2>1, <2>3, <3>1 DEF TurnSafe, Running
  <2> QED
    BY <2>2, <2>3
<1>3. ASSUME NEW k \in Keys
      PROVE  KeySafe(k)'
  <2>1. KeySafe(k)
    BY DEF SafeInv
  <2>2. CASE history'[k] = history[k]
    <3>1. Quiet(k)' => Quiet(k)
      BY DEF Quiet, Running
    <3>2. BeginsWithUser(history[k])' <=> BeginsWithUser(history[k])
      BY <2>2 DEF BeginsWithUser
    <3>3. Paired(history[k], {})' <=> Paired(history[k], {})
      BY <2>2 DEF Paired, NoOrphans, Answers, SameBlock
    <3> QED
      BY <2>1, <3>1, <3>2, <3>3 DEF KeySafe
  <2>3. CASE history'[k] = <<>>
    <3>1. Len(history'[k]) = 0
      BY <2>3
    <3>2. BeginsWithUser(history[k])'
      BY <2>3 DEF BeginsWithUser
    <3>3. Paired(history[k], {})'
      BY <3>1 DEF Paired, NoOrphans
    <3> QED
      BY <3>2, <3>3 DEF KeySafe
  <2> QED
    BY <2>2, <2>3
<1> QED
  BY <1>1, <1>2, <1>3 DEF SafeInv

LEMMA StutterSafe ==
  ASSUME SafeInv, UNCHANGED vars
  PROVE  SafeInv'
<1>1. IInv'
  BY StutterIInv DEF SafeInv
<1> QED
  BY <1>1, ForgetSafe DEF vars

(* Where no two turns of a key are running after a turn has started, none    *)
(* was running before: for callers that do not say how they keep a key to    *)
(* one turn at a time, only that they do.                                    *)
LEMMA StartKeyFree ==
  ASSUME TypeOK, NEW t \in Turns, Start(t), OneTurnPerKey'
  PROVE  KeyFree(t)
<1>1. pc[t] = "new" /\ pc' = [pc EXCEPT ![t] = "prompt"]
  BY DEF Start, Goto
<1>2. ASSUME NEW u \in Turns, KeyOf[u] = KeyOf[t], Running(u)
      PROVE  FALSE
  <2>1. u # t
    BY <1>1, <1>2 DEF Running
  <2>2. Running(u)' /\ Running(t)'
    BY <1>1, <1>2, <2>1 DEF Running, TypeOK
  <2> QED
    BY <1>2, <2>1, <2>2 DEF OneTurnPerKey
<1> QED
  BY <1>2 DEF KeyFree

LEMMA NextSafe ==
  ASSUME TurnFits, SafeInv, [Next]_vars
  PROVE  SafeInv'
<1>1. IInv'
  BY NextIInv DEF SafeInv
<1> QED
  BY <1>1, StartSafe, StepSafe, StutterSafe DEF Next

LEMMA SafeInvHolds ==
  ASSUME TurnFits
  PROVE  Spec => []SafeInv
<1>1. Init => SafeInv
  BY InitSafe
<1>2. SafeInv /\ [Next]_vars => SafeInv'
  BY NextSafe
<1> QED
  BY <1>1, <1>2, PTL DEF Spec

(* In every reachable state some turn of a conversation is running, or none  *)
(* is: either way the conversation holds no reply without its call.          *)
LEMMA SafeInvPaired ==
  ASSUME SafeInv, NEW k \in Keys
  PROVE  \E pending : Paired(history[k], pending)
<1>1. CASE Quiet(k)
  BY <1>1 DEF SafeInv, KeySafe
<1>2. CASE ~Quiet(k)
  <2>1. PICK t \in Turns : KeyOf[t] = k /\ Running(t)
    BY <1>2 DEF Quiet
  <2>2. Paired(Conv(t), Pending(t))
    BY <2>1, RunningFacts
  <2> QED
    BY <2>1, <2>2 DEF Conv
<1> QED
  BY <1>1, <1>2

-----------------------------------------------------------------------------
(* The theorems.                                                             *)

(* No stored conversation ever holds a tool reply without the assistant      *)
(* message that asked for it (_prune's docstring, memory.py:51-53), in the   *)
(* middle of a round included.                                               *)
THEOREM LoopNeverOrphans ==
  ASSUME TurnFits
  PROVE  Spec => []NeverOrphans
<1>1. SafeInv => NeverOrphans
  BY SafeInvPaired DEF NeverOrphans, Paired
<1> QED
  BY <1>1, SafeInvHolds, PTL

(* Every list of messages the loop sends is one the chat APIs accept,        *)
(* whatever earlier turns of the conversation left behind (llm.py:220-229).  *)
THEOREM LoopPromptsAccepted ==
  ASSUME TurnFits
  PROVE  Spec => []PromptsAccepted
<1>1. SafeInv => PromptsAccepted
  BY PairedIsWellPaired DEF SafeInv, TurnSafe, PromptsAccepted
<1> QED
  BY <1>1, SafeInvHolds, PTL

(* A turn never loses its own question to the trim, however many tools it    *)
(* calls (memory.py:58-69 under llm.py:219-301).                             *)
THEOREM LoopAsksOwnQuestion ==
  ASSUME TurnFits
  PROVE  Spec => []AsksOwnQuestion
<1>1. SafeInv => AsksOwnQuestion
  BY DEF SafeInv, TurnSafe, AsksOwnQuestion
<1> QED
  BY <1>1, SafeInvHolds, PTL

(* Wherever a turn fails, the conversation it leaves is one the next message *)
(* can go on from (llm.py:220-229).                                          *)
THEOREM LoopUsableBetweenTurns ==
  ASSUME TurnFits
  PROVE  Spec => []UsableBetweenTurns
<1>1. SafeInv => UsableBetweenTurns
  BY PairedIsWellPaired
     DEF SafeInv, KeySafe, Quiet, BeginsWithUser, UsableBetweenTurns
<1> QED
  BY <1>1, SafeInvHolds, PTL

(* A turn that answers leaves its question and, last, its answer in the      *)
(* conversation (llm.py:280, 315).                                           *)
THEOREM LoopAnswerRemembered ==
  ASSUME TurnFits
  PROVE  Spec => AnswerRemembered
<1> DEFINE Remembered == \A t \in Turns :
             (pc[t] = "calling" /\ pc'[t] = "answered") =>
               LET h == history'[KeyOf[t]]
               IN  /\ \E i \in 1 .. Len(h) : h[i] = Question(t)
                   /\ h[Len(h)] = Answer(t)
<1>1. SafeInv /\ [Next]_vars => [Remembered]_vars
  <2> SUFFICES ASSUME SafeInv, [Next]_vars, NEW t \in Turns,
                      pc[t] = "calling", pc'[t] = "answered"
               PROVE  /\ \E i \in 1 .. Len(Conv(t)') : Conv(t)'[i] = Question(t)
                      /\ Conv(t)'[Len(Conv(t)')] = Answer(t)
    BY DEF Conv
  <2>1. PICK u \in Turns : Start(u) \/ Step(u)
    BY DEF Next, vars
  <2>2. pc \in [Turns -> {"new", "prompt", "calling", "tools", "answered", "raised"}]
    BY DEF SafeInv, IInv, TypeOK
  <2>3. u = t
    BY <2>1, <2>2
       DEF Start, Step, Prompt, CallFails, NoChoices, RequestTools, RunTool,
           AnswerText, EmptyContent, End, Goto
  <2>4. AnswerText(t)
    BY <2>1, <2>2, <2>3
       DEF Start, Step, Prompt, CallFails, NoChoices, RequestTools, RunTool,
           EmptyContent, End, Goto, Called
  <2> QED
    BY <2>4, AnswerStored
<1> QED
  BY <1>1, SafeInvHolds, PTL DEF Spec, AnswerRemembered
-----------------------------------------------------------------------------
(* How long a turn can go on. Nothing a turn does is without end: each step  *)
(* uses up one of those its rounds and retries leave it.                     *)

\* The steps of a round: the prompt, the call with its retries, the tools.
RoundSteps == 2 + MaxRetries + MaxParallel

\* The steps of the summarization: the prompt, and the call with its retries.
LastSteps == 2 + MaxRetries

\* The most that can follow n rounds.
StepsFrom(n) == (MaxIterations - n) * RoundSteps + LastSteps

\* The most that turn t can take yet.
StepsLeft(t) ==
  CASE pc[t] = "new" -> 1 + StepsFrom(0)
    [] pc[t] = "prompt" -> IF forced[t] THEN LastSteps ELSE StepsFrom(iteration[t])
    [] pc[t] = "calling" ->
         1 + MaxRetries - attempt[t]
           + (IF forced[t] THEN 0 ELSE MaxParallel + StepsFrom(iteration[t] + 1))
    [] pc[t] = "tools" -> Len(todo[t]) + StepsFrom(iteration[t] + 1)
    [] OTHER -> 0

(* A round more leaves the steps of a round less.                            *)
LEMMA RoundTakes ==
  ASSUME NEW n \in 0 .. MaxIterations
  PROVE  /\ StepsFrom(n) \in Nat /\ StepsFrom(0) \in Nat
         /\ LastSteps <= StepsFrom(n) /\ StepsFrom(n) <= StepsFrom(0)
         /\ n = MaxIterations => StepsFrom(n) = LastSteps
         /\ n < MaxIterations => StepsFrom(n) = RoundSteps + StepsFrom(n + 1)
<1>1. /\ MaxIterations \in Nat /\ MaxRetries \in Nat /\ MaxParallel \in Nat
      /\ LastSteps \in Nat /\ RoundSteps \in Nat
  BY BoundsAssumption DEF LastSteps, RoundSteps
<1> DEFINE m == MaxIterations - n
<1>2. m \in Nat /\ m <= MaxIterations /\ MaxIterations - 0 = MaxIterations
  BY <1>1
<1>3. m * RoundSteps \in Nat /\ m * RoundSteps <= MaxIterations * RoundSteps
      /\ MaxIterations * RoundSteps \in Nat
  <2> HIDE DEF m
  <2> QED
    BY <1>1, <1>2, ProductGrows
<1>4. StepsFrom(n) = m * RoundSteps + LastSteps
  BY DEF StepsFrom
<1>5. StepsFrom(0) = MaxIterations * RoundSteps + LastSteps
  BY <1>2 DEF StepsFrom
<1>6. ASSUME n = MaxIterations
      PROVE  StepsFrom(n) = LastSteps
  <2>1. m = 0 /\ 0 * RoundSteps = 0
    BY <1>1, <1>6
  <2> HIDE DEF m
  <2> QED
    BY <1>1, <1>4, <2>1
<1>7. ASSUME n < MaxIterations
      PROVE  StepsFrom(n) = RoundSteps + StepsFrom(n + 1)
  <2> DEFINE l == MaxIterations - (n + 1)
  <2>1. l \in Nat /\ m = l + 1
    BY <1>1, <1>7
  <2>2. StepsFrom(n + 1) = l * RoundSteps + LastSteps
    BY DEF StepsFrom
  <2> HIDE DEF m, l
  <2>3. m * RoundSteps = l * RoundSteps + RoundSteps /\ l * RoundSteps \in Nat
    BY <1>1, <2>1, Distributes, ProductGrows
  <2> QED
    BY <1>1, <1>4, <2>2, <2>3
<1> HIDE DEF m
<1> QED
  BY <1>1, <1>3, <1>4, <1>5, <1>6, <1>7

(* What is left of a turn by where it is, as numbers.                        *)
LEMMA StepsLeftAt ==
  ASSUME IInv, NEW t \in Turns
  PROVE  /\ StepsLeft(t) \in Nat
         /\ StepsFrom(0) \in Nat /\ LastSteps = 2 + MaxRetries
         /\ pc[t] = "new" => StepsLeft(t) = 1 + StepsFrom(0)
         /\ pc[t] = "prompt" =>
              /\ StepsLeft(t) >= LastSteps /\ StepsLeft(t) <= StepsFrom(0)
              /\ ~forced[t] => StepsLeft(t) = StepsFrom(iteration[t])
         /\ pc[t] = "calling" =>
              /\ StepsLeft(t) > 0
              /\ forced[t] => StepsLeft(t) = 1 + MaxRetries - attempt[t]
              /\ ~forced[t] => StepsLeft(t) > MaxParallel + StepsFrom(iteration[t] + 1)
         /\ pc[t] = "tools" =>
              /\ StepsLeft(t) > 0
              /\ StepsLeft(t) = Len(todo[t]) + StepsFrom(iteration[t] + 1)
              /\ Len(todo[t]) \in Nat \ {0}
         /\ pc[t] \in {"answered", "raised"} => StepsLeft(t) = 0
<1>1. /\ MaxIterations \in Nat /\ MaxRetries \in Nat /\ MaxParallel \in Nat \ {0}
      /\ iteration[t] \in 0 .. MaxIterations /\ attempt[t] \in 0 .. MaxRetries
      /\ pc[t] \in {"new", "prompt", "calling", "tools", "answered", "raised"}
      /\ todo[t] \in Seq(CallIds)
  BY BoundsAssumption DEF IInv, TypeOK
<1>2. LastSteps = 2 + MaxRetries
  BY DEF LastSteps
<1>3. /\ StepsFrom(iteration[t]) \in Nat /\ StepsFrom(0) \in Nat
      /\ LastSteps <= StepsFrom(iteration[t]) /\ StepsFrom(iteration[t]) <= StepsFrom(0)
  BY <1>1, RoundTakes
<1>4. iteration[t] < MaxIterations => StepsFrom(iteration[t] + 1) \in Nat
  <2>1. iteration[t] < MaxIterations => iteration[t] + 1 \in 0 .. MaxIterations
    BY <1>1
  <2> QED
    BY <2>1, RoundTakes
<1>5. CASE pc[t] = "new"
  BY <1>2, <1>3, <1>5 DEF StepsLeft
<1>6. CASE pc[t] = "prompt"
  <2>1. StepsLeft(t) = IF forced[t] THEN LastSteps ELSE StepsFrom(iteration[t])
    BY <1>6 DEF StepsLeft
  <2> QED
    BY <1>1, <1>2, <1>3, <1>6, <2>1
<1>7. CASE pc[t] = "calling"
  <2>1. CASE forced[t]
    <3>1. StepsLeft(t) = 1 + MaxRetries - attempt[t] + 0
      BY <1>7, <2>1 DEF StepsLeft
    <3> QED
      BY <1>1, <1>2, <1>3, <1>7, <2>1, <3>1
  <2>2. CASE ~forced[t]
    <3>1. StepsLeft(t) = 1 + MaxRetries - attempt[t]
                           + (MaxParallel + StepsFrom(iteration[t] + 1))
      BY <1>7, <2>2 DEF StepsLeft
    <3>2. StepsFrom(iteration[t] + 1) \in Nat
      BY <1>4, <1>7, <2>2 DEF IInv, RoundsLeft
    <3>3. StepsLeft(t) > MaxParallel + StepsFrom(iteration[t] + 1) /\ StepsLeft(t) \in Nat
      BY <1>1, <3>1, <3>2
    <3>4. StepsLeft(t) > 0
      BY <1>1, <3>2, <3>3
    <3> QED
      BY <1>2, <1>3, <1>7, <2>2, <3>3, <3>4
  <2> QED
    BY <2>1, <2>2
<1>8. CASE pc[t] = "tools"
  <2>1. StepsLeft(t) = Len(todo[t]) + StepsFrom(iteration[t] + 1)
    BY <1>8 DEF StepsLeft
  <2>2. StepsFrom(iteration[t] + 1) \in Nat /\ todo[t] # <<>>
    BY <1>4, <1>8 DEF IInv, RoundsLeft
  <2>3. Len(todo[t]) \in Nat \ {0}
    BY <1>1, <2>2, EmptySeq
  <2> QED
    BY <1>2, <1>3, <1>8, <2>1, <2>2, <2>3
<1>9. CASE pc[t] \in {"answered", "raised"}
  <2>1. StepsLeft(t) = 0
    BY <1>9 DEF StepsLeft
  <2> QED
    BY <1>2, <1>3, <1>9, <2>1
<1> QED
  BY <1>1, <1>5, <1>6, <1>7, <1>8, <1>9
(* Another turn's step takes nothing from a turn.                            *)
LEMMA OthersKeepSteps ==
  ASSUME TypeOK, NEW t \in Turns, Start(t) \/ Step(t), NEW u \in Turns, u # t
  PROVE  StepsLeft(u)' = StepsLeft(u)
<1>1. /\ pc'[u] = pc[u] /\ iteration'[u] = iteration[u] /\ forced'[u] = forced[u]
      /\ attempt'[u] = attempt[u] /\ todo'[u] = todo[u]
  BY DEF TypeOK, Start, Step, Prompt, CallFails, NoChoices, RequestTools, RunTool,
         AnswerText, EmptyContent, End, Goto
<1> QED
  BY <1>1 DEF StepsLeft, StepsFrom, RoundSteps, LastSteps

(* Nor does what leaves the loop alone, but for what is stored and sent.      *)
LEMMA IdleKeepsSteps ==
  ASSUME UNCHANGED <<pc, iteration, forced, attempt, todo>>
  PROVE  \A t \in Turns : StepsLeft(t)' = StepsLeft(t)
BY DEF StepsLeft, StepsFrom, RoundSteps, LastSteps

(* Only a running turn takes steps.                                          *)
LEMMA StepRuns ==
  ASSUME NEW t \in Turns, Step(t)
  PROVE  Running(t)
BY DEF Step, Prompt, CallFails, NoChoices, RequestTools, RunTool, AnswerText,
       EmptyContent, Called, Running

LEMMA EndTakes ==
  ASSUME IInv, IInv', NEW t \in Turns, pc[t] = "calling",
         NEW label \in {"answered", "raised"}, End(t, label)
  PROVE  StepsLeft(t)' < StepsLeft(t)
<1>1. StepsLeft(t) > 0
  BY StepsLeftAt
<1>2. pc'[t] \in {"answered", "raised"}
  BY DEF End, Goto, IInv, TypeOK
<1>3. StepsLeft(t)' = 0
  BY <1>2 DEF StepsLeft
<1> QED
  BY <1>1, <1>3

LEMMA PromptTakes ==
  ASSUME IInv, IInv', NEW t \in Turns, Prompt(t)
  PROVE  StepsLeft(t)' < StepsLeft(t)
<1>1. /\ pc[t] = "prompt" /\ pc'[t] = "calling" /\ attempt'[t] = 0
      /\ iteration'[t] = iteration[t] /\ forced'[t] = (forced[t] \/ Exhausted(t))
  BY DEF Prompt, Goto, IInv, TypeOK
<1>2. /\ StepsLeft(t) \in Nat /\ StepsLeft(t) >= LastSteps /\ LastSteps = 2 + MaxRetries
      /\ ~forced[t] => StepsLeft(t) = StepsFrom(iteration[t])
  BY <1>1, StepsLeftAt
<1>3. CASE forced'[t]
  <2>1. StepsLeft(t)' = 1 + MaxRetries - attempt'[t] + 0
    BY <1>1, <1>3 DEF StepsLeft
  <2> QED
    BY <1>1, <1>2, <2>1, BoundsAssumption
<1>4. CASE ~forced'[t]
  <2>1. StepsLeft(t)' = 1 + MaxRetries - attempt'[t]
                          + (MaxParallel + StepsFrom(iteration'[t] + 1))
    BY <1>1, <1>4 DEF StepsLeft, StepsFrom, RoundSteps, LastSteps
  <2>2. /\ iteration[t] \in 0 .. MaxIterations /\ iteration[t] < MaxIterations
        /\ iteration[t] + 1 \in 0 .. MaxIterations
    <3>1. iteration'[t] < MaxIterations /\ iteration'[t] \in 0 .. MaxIterations
      BY <1>1, <1>4 DEF IInv, TypeOK, RoundsLeft
    <3> QED
      BY <1>1, <3>1, BoundsAssumption
  <2>3. /\ StepsFrom(iteration[t]) = RoundSteps + StepsFrom(iteration[t] + 1)
        /\ StepsFrom(iteration[t] + 1) \in Nat
    BY <2>2, RoundTakes
  <2>4. ~forced[t]
    BY <1>1, <1>4, Zenon
  <2>5. RoundSteps = 2 + MaxRetries + MaxParallel
    BY DEF RoundSteps
  <2> QED
    BY <1>1, <1>2, <2>1, <2>3, <2>4, <2>5, BoundsAssumption
<1> QED
  BY <1>3, <1>4

LEMMA CallFailsTakes ==
  ASSUME IInv, IInv', NEW t \in Turns, NEW retryable \in BOOLEAN, CallFails(t, retryable)
  PROVE  StepsLeft(t)' < StepsLeft(t)
<1>1. pc[t] = "calling"
  BY DEF CallFails
<1>2. CASE Retries(t, retryable)
  <2>1. /\ pc' = pc /\ forced' = forced /\ iteration' = iteration
        /\ attempt[t] \in Nat /\ attempt'[t] = attempt[t] + 1
    BY <1>2, BoundsAssumption DEF CallFails, IInv, TypeOK
  <2>2. CASE forced[t]
    <3>1. StepsLeft(t) = 1 + MaxRetries - attempt[t]
      BY <1>1, <2>2, StepsLeftAt
    <3>2. StepsLeft(t)' = 1 + MaxRetries - attempt'[t] + 0
      BY <1>1, <2>1, <2>2 DEF StepsLeft
    <3> QED
      BY <2>1, <3>1, <3>2, BoundsAssumption
  <2>3. CASE ~forced[t]
    <3> DEFINE rest == MaxParallel + StepsFrom(iteration[t] + 1)
    <3>1. StepsLeft(t) = 1 + MaxRetries - attempt[t] + rest
      BY <1>1, <2>3 DEF StepsLeft
    <3>2. StepsLeft(t)' = 1 + MaxRetries - attempt'[t] + rest
      BY <1>1, <2>1, <2>3 DEF StepsLeft, StepsFrom, RoundSteps, LastSteps
    <3>3. rest \in Nat
      <4>1. iteration[t] < MaxIterations /\ iteration[t] \in 0 .. MaxIterations
        BY <1>1, <2>3 DEF IInv, TypeOK, RoundsLeft
      <4>2. iteration[t] + 1 \in 0 .. MaxIterations
        BY <4>1, BoundsAssumption
      <4> QED
        BY <4>2, RoundTakes, BoundsAssumption
    <3> HIDE DEF rest
    <3> QED
      BY <2>1, <3>1, <3>2, <3>3, BoundsAssumption
  <2> QED
    BY <2>2, <2>3
<1>3. CASE ~Retries(t, retryable)
  BY <1>1, <1>3, EndTakes DEF CallFails
<1> QED
  BY <1>2, <1>3

LEMMA RequestToolsTakes ==
  ASSUME IInv, IInv', NEW t \in Turns, NEW n \in 1 .. MaxParallel, RequestTools(t, n)
  PROVE  StepsLeft(t)' < StepsLeft(t)
<1>1. pc[t] = "calling" /\ ~forced[t] /\ pc'[t] = "tools" /\ iteration' = iteration
  BY DEF RequestTools, Called, OffersTools, Goto, IInv, TypeOK
<1>2. StepsLeft(t) > MaxParallel + StepsFrom(iteration[t] + 1) /\ StepsLeft(t) \in Nat
  BY <1>1, StepsLeftAt
<1>3. StepsLeft(t)' = Len(todo'[t]) + StepsFrom(iteration[t] + 1)
  <2>1. StepsLeft(t)' = Len(todo'[t]) + StepsFrom(iteration'[t] + 1)
    BY <1>1 DEF StepsLeft, StepsFrom, RoundSteps, LastSteps
  <2> QED
    BY <1>1, <2>1
<1>4. Len(todo'[t]) = n
  <2>1. todo'[t] = [i \in 1 .. n |-> <<iteration[t], i>>]
    BY DEF RequestTools, IInv, TypeOK
  <2> QED
    BY <2>1, BoundsAssumption
<1>5. StepsFrom(iteration[t] + 1) \in Nat
  <2>1. iteration[t] < MaxIterations /\ iteration[t] \in 0 .. MaxIterations
    BY <1>1 DEF IInv, TypeOK, RoundsLeft
  <2>2. iteration[t] + 1 \in 0 .. MaxIterations
    BY <2>1, BoundsAssumption
  <2> QED
    BY <2>2, RoundTakes
<1> QED
  BY <1>2, <1>3, <1>4, <1>5, BoundsAssumption

LEMMA RunToolTakes ==
  ASSUME IInv, IInv', NEW t \in Turns, RunTool(t)
  PROVE  StepsLeft(t)' < StepsLeft(t)
<1>1. pc[t] = "tools" /\ todo[t] \in Seq(CallIds) /\ iteration[t] \in Nat
  BY BoundsAssumption DEF RunTool, IInv, TypeOK
<1>2. /\ StepsLeft(t) = Len(todo[t]) + StepsFrom(iteration[t] + 1)
      /\ Len(todo[t]) \in Nat \ {0} /\ StepsLeft(t) \in Nat
  BY <1>1, StepsLeftAt
<1>3. iteration[t] + 1 \in 0 .. MaxIterations
  <2>1. iteration[t] < MaxIterations
    BY <1>1 DEF IInv, RoundsLeft
  <2> QED
    BY <1>1, <2>1, BoundsAssumption
<1>4. /\ StepsFrom(iteration[t] + 1) \in Nat
      /\ LastSteps <= StepsFrom(iteration[t] + 1)
  BY <1>3, RoundTakes
<1>5. CASE LastOfRound(t)
  <2>1. pc'[t] = "prompt" /\ iteration'[t] = iteration[t] + 1
    BY <1>5 DEF RunTool, Goto, IInv, TypeOK
  <2>2. StepsLeft(t)' = IF forced'[t] THEN LastSteps ELSE StepsFrom(iteration[t] + 1)
    <3>1. StepsLeft(t)' = IF forced'[t] THEN LastSteps ELSE StepsFrom(iteration'[t])
      BY <2>1 DEF StepsLeft, StepsFrom, RoundSteps, LastSteps
    <3> QED
      BY <2>1, <3>1
  <2>3. LastSteps \in Nat
    BY BoundsAssumption DEF LastSteps
  <2> QED
    BY <1>2, <1>4, <2>2, <2>3
<1>6. CASE ~LastOfRound(t)
  <2>1. pc'[t] = "tools" /\ iteration' = iteration /\ todo'[t] = Tail(todo[t])
    BY <1>1, <1>6 DEF RunTool, IInv, TypeOK
  <2>2. StepsLeft(t)' = Len(todo'[t]) + StepsFrom(iteration[t] + 1)
    <3>1. StepsLeft(t)' = Len(todo'[t]) + StepsFrom(iteration'[t] + 1)
      BY <2>1 DEF StepsLeft, StepsFrom, RoundSteps, LastSteps
    <3> QED
      BY <2>1, <3>1
  <2>3. Len(todo'[t]) = Len(todo[t]) - 1
    BY <1>1, <1>2, <2>1
  <2> QED
    BY <1>2, <1>4, <2>2, <2>3
<1> QED
  BY <1>5, <1>6

LEMMA EmptyContentTakes ==
  ASSUME IInv, IInv', NEW t \in Turns, EmptyContent(t)
  PROVE  StepsLeft(t)' < StepsLeft(t)
<1>1. pc[t] = "calling" /\ ~forced[t] /\ pc'[t] = "prompt" /\ forced'[t]
  BY DEF EmptyContent, Called, Goto, IInv, TypeOK
<1>2. StepsLeft(t) > MaxParallel + StepsFrom(iteration[t] + 1) /\ StepsLeft(t) \in Nat
  BY <1>1, StepsLeftAt
<1>3. StepsLeft(t)' = LastSteps
  BY <1>1 DEF StepsLeft, LastSteps
<1>4. iteration[t] + 1 \in 0 .. MaxIterations
  <2>1. iteration[t] < MaxIterations /\ iteration[t] \in 0 .. MaxIterations
    BY <1>1 DEF IInv, TypeOK, RoundsLeft
  <2> QED
    BY <2>1, BoundsAssumption
<1>5. StepsFrom(iteration[t] + 1) \in Nat /\ LastSteps <= StepsFrom(iteration[t] + 1)
  BY <1>4, RoundTakes
<1>6. LastSteps \in Nat /\ MaxParallel \in Nat
  BY BoundsAssumption DEF LastSteps
<1> QED
  BY <1>2, <1>3, <1>5, <1>6

LEMMA StepTakes ==
  ASSUME IInv, NEW t \in Turns, Step(t)
  PROVE  StepsLeft(t)' < StepsLeft(t)
<1>1. IInv'
  BY StepIInv
<1>2. CASE Prompt(t)
  BY <1>1, <1>2, PromptTakes
<1>3. CASE \E retryable \in BOOLEAN : CallFails(t, retryable)
  BY <1>1, <1>3, CallFailsTakes
<1>4. CASE NoChoices(t)
  BY <1>1, <1>4, EndTakes DEF NoChoices, Called
<1>5. CASE \E n \in 1 .. MaxParallel : RequestTools(t, n)
  BY <1>1, <1>5, RequestToolsTakes
<1>6. CASE RunTool(t)
  BY <1>1, <1>6, RunToolTakes
<1>7. CASE AnswerText(t)
  BY <1>1, <1>7, EndTakes DEF AnswerText, Called
<1>8. CASE EmptyContent(t)
  BY <1>1, <1>8, EmptyContentTakes
<1> QED
  BY <1>2, <1>3, <1>4, <1>5, <1>6, <1>7, <1>8 DEF Step

LEMMA StartTakes ==
  ASSUME IInv, NEW t \in Turns, Start(t)
  PROVE  StepsLeft(t)' < StepsLeft(t)
<1>1. IInv'
  BY StartIInv
<1>2. pc[t] = "new" /\ pc'[t] = "prompt"
  BY DEF Start, Goto, IInv, TypeOK
<1>3. StepsLeft(t) = 1 + StepsFrom(0) /\ StepsFrom(0) \in Nat
  BY <1>2, StepsLeftAt
<1>4. StepsLeft(t)' <= StepsFrom(0) /\ StepsLeft(t)' \in Nat
  <2>1. /\ StepsLeft(t)' = IF forced'[t] THEN LastSteps ELSE StepsFrom(iteration'[t])
        /\ iteration'[t] \in 0 .. MaxIterations
    BY <1>1, <1>2 DEF StepsLeft, StepsFrom, RoundSteps, LastSteps, IInv, TypeOK
  <2>2. /\ StepsFrom(iteration'[t]) \in Nat
        /\ LastSteps <= StepsFrom(iteration'[t]) /\ StepsFrom(iteration'[t]) <= StepsFrom(0)
    BY <2>1, RoundTakes
  <2>3. LastSteps \in Nat
    BY BoundsAssumption DEF LastSteps
  <2> QED
    BY <1>3, <2>1, <2>2, <2>3
<1> QED
  BY <1>3, <1>4

\* Some steps are left of a turn until it ends.
StepsCounted == \A t \in Turns :
  /\ StepsLeft(t) \in Nat
  /\ StepsLeft(t) = 0 <=> pc[t] \in {"answered", "raised"}

LEMMA StepsCount == IInv => StepsCounted
<1> SUFFICES ASSUME IInv, NEW t \in Turns
             PROVE  /\ StepsLeft(t) \in Nat
                    /\ StepsLeft(t) = 0 <=> pc[t] \in {"answered", "raised"}
  BY DEF StepsCounted
<1>1. pc[t] \in {"new", "prompt", "calling", "tools", "answered", "raised"}
  BY DEF IInv, TypeOK
<1>2. /\ StepsLeft(t) \in Nat /\ StepsFrom(0) \in Nat
      /\ pc[t] = "new" => StepsLeft(t) > 0
      /\ pc[t] = "prompt" => StepsLeft(t) > 0
      /\ pc[t] = "calling" => StepsLeft(t) > 0
      /\ pc[t] = "tools" => StepsLeft(t) > 0
      /\ pc[t] \in {"answered", "raised"} => StepsLeft(t) = 0
  BY StepsLeftAt, BoundsAssumption
<1> QED
  BY <1>1, <1>2

\* The bound of a turn's steps: its rounds, its summarization and its start.
StepsBounded == \A t \in Turns : StepsLeft(t) <= 1 + StepsFrom(0)

LEMMA InitSteps == Init => StepsBounded
<1> SUFFICES ASSUME Init, NEW t \in Turns
             PROVE  StepsLeft(t) <= 1 + StepsFrom(0)
  BY DEF StepsBounded
<1>1. pc[t] = "new"
  BY DEF Init
<1>2. StepsLeft(t) = 1 + StepsFrom(0) /\ StepsFrom(0) \in Nat
  BY <1>1, InitIInv, StepsLeftAt
<1> QED
  BY <1>2

LEMMA TurnTakes ==
  ASSUME IInv, StepsCounted', NEW t \in Turns, Start(t) \/ Step(t)
  PROVE  /\ StepsLeft(t)' < StepsLeft(t)
         /\ \A u \in Turns : StepsLeft(u)' <= StepsLeft(u)
<1>1. StepsLeft(t)' < StepsLeft(t)
  BY StartTakes, StepTakes
<1>2. ASSUME NEW u \in Turns
      PROVE  StepsLeft(u)' <= StepsLeft(u)
  <2>1. StepsLeft(u) \in Nat /\ StepsLeft(u)' \in Nat
    BY StepsLeftAt DEF StepsCounted
  <2>2. u # t => StepsLeft(u)' = StepsLeft(u)
    BY OthersKeepSteps DEF IInv
  <2> QED
    BY <1>1, <2>1, <2>2
<1> QED
  BY <1>1, <1>2

\* Every step of a turn uses up at least one of those it had left, and no other
\* turn's gives it any.
StepsUsedUp == [][\A t \in Turns :
  /\ StepsLeft(t)' <= StepsLeft(t)
  /\ Start(t) \/ Step(t) => StepsLeft(t)' < StepsLeft(t)]_vars

(* A turn does not go on without end, whatever the model answers and however *)
(* often it fails: it takes at most one step to begin with, those of         *)
(* max_tool_iterations rounds, each a prompt, a call with max_retries        *)
(* retries and the tools called for, and those of the summarization, and has *)
(* none left just when it has returned or raised. This is the safety that    *)
(* TurnEnds rests on; what it adds is that a thread keeps taking steps       *)
(* (llm.py:218-316, retry.py:51-63).                                         *)
THEOREM LoopStepsBounded == Spec => [](StepsCounted /\ StepsBounded) /\ StepsUsedUp
<1> DEFINE Used == \A t \in Turns :
             /\ StepsLeft(t)' <= StepsLeft(t)
             /\ Start(t) \/ Step(t) => StepsLeft(t)' < StepsLeft(t)
<1>1. Init => IInv /\ StepsBounded
  BY InitIInv, InitSteps
<1>2. IInv /\ [Next]_vars => IInv'
  BY NextIInv
<1>3. IInv => StepsCounted
  BY StepsCount
<1>4. IInv /\ StepsCounted /\ StepsCounted' /\ Next => Used
  BY TurnTakes DEF Next
<1>5. IInv /\ StepsCounted /\ StepsCounted' /\ StepsBounded /\ [Next]_vars => StepsBounded'
  <2> SUFFICES ASSUME IInv, StepsCounted, StepsCounted', StepsBounded, [Next]_vars,
                      NEW t \in Turns
               PROVE  StepsLeft(t)' <= 1 + StepsFrom(0)
    BY DEF StepsBounded, StepsFrom, RoundSteps, LastSteps
  <2>1. StepsLeft(t) \in Nat /\ StepsLeft(t)' \in Nat
    BY DEF StepsCounted
  <2>2. StepsLeft(t) <= 1 + StepsFrom(0) /\ StepsFrom(0) \in Nat
    <3>1. 0 \in 0 .. MaxIterations
      BY BoundsAssumption
    <3> QED
      BY <3>1, RoundTakes DEF StepsBounded
  <2>3. CASE Next
    BY <1>4, <2>1, <2>2, <2>3
  <2>4. CASE UNCHANGED vars
    <3>1. StepsLeft(t)' = StepsLeft(t)
      BY <2>4 DEF vars, StepsLeft, StepsFrom, RoundSteps, LastSteps
    <3> QED
      BY <2>2, <3>1
  <2> QED
    BY <2>3, <2>4
<1>6. IInv /\ StepsCounted /\ StepsCounted' /\ [Next]_vars => [Used]_vars
  BY <1>4
<1> HIDE DEF Used
<1>7. Spec => [](StepsCounted /\ StepsBounded) /\ [][Used]_vars
  BY <1>1, <1>2, <1>3, <1>5, <1>6, PTL DEF Spec
<1> QED
  BY <1>7 DEF StepsUsedUp, Used
=============================================================================
