-------------------------- MODULE ConversationProofs --------------------------
(***************************************************************************)
(* What Conversation promises, for every number of questions, of planner   *)
(* attempts and of restarts.                                               *)
(***************************************************************************)
EXTENDS Conversation, SequenceTheorems, TLAPS

(* A turn the backend has taken up has the conversation it will append to. *)
NamedInv == \A t \in Turns : pc[t] \notin {"unsent", "sent"} => conv[t] # None

(* The dialogue of one conversation, of complete turns.                    *)
Dialogue(messages) ==
  /\ Len(messages) % 2 = 0
  /\ \A i \in DOMAIN messages :
       /\ messages[i].role = IF i % 2 = 1 THEN "user" ELSE "assistant"
       /\ i % 2 = 1 => i + 1 \in DOMAIN messages /\ messages[i + 1].turn = messages[i].turn
       /\ \A j \in DOMAIN messages : messages[i] = messages[j] => i = j

DialogueInv == \A c \in DOMAIN store : Dialogue(store[c])

(* Which turns a conversation holds, one turn at a time.                   *)
RecordInv ==
  \A t \in Turns, c \in DOMAIN store :
    t \in TurnsOf(store[c]) <=> pc[t] \in Recorded /\ c = conv[t]

(* Everything the GUI was told names its thread, and so does the question  *)
(* it waits for.                                                           *)
ThreadInv ==
  /\ \A t \in Turns : pc[t] = "told" => conv[t] = thread
  /\ current # NoTurn /\ thread # None => conv[current] = thread
  /\ current # NoTurn => pc[current] # "unsent"

(* What was on screen when a question was typed is in the conversation the *)
(* question was sent with.                                                 *)
ScreenInv ==
  \A t \in Turns : pc[t] = "sent" =>
    \A u \in before[t] : pc[u] = "told" /\ conv[u] = conv[t]

IInv ==
  TypeOK /\ NamedInv /\ DialogueInv /\ RecordInv /\ ThreadInv /\ ScreenInv
    /\ PromptHoldsDialogue

-----------------------------------------------------------------------------
(* Appending a turn: what it adds, and that it keeps a dialogue one.       *)
LEMMA WithTurnProperties ==
  ASSUME NEW messages \in Seq(Message), NEW t \in Turns
  PROVE  /\ WithTurn(messages, t) \in Seq(Message)
         /\ DOMAIN WithTurn(messages, t) = 1..(Len(messages) + 2)
         /\ Len(WithTurn(messages, t)) = Len(messages) + 2
         /\ \A i \in 1..Len(messages) : WithTurn(messages, t)[i] = messages[i]
         /\ WithTurn(messages, t)[Len(messages) + 1] = [turn |-> t, role |-> "user"]
         /\ WithTurn(messages, t)[Len(messages) + 2] = [turn |-> t, role |-> "assistant"]
<1> DEFINE pair == <<[turn |-> t, role |-> "user"], [turn |-> t, role |-> "assistant"]>>
           n == Len(messages)
<1>1. /\ pair \in Seq(Message) /\ Len(pair) = 2
      /\ pair[1] = [turn |-> t, role |-> "user"]
      /\ pair[2] = [turn |-> t, role |-> "assistant"]
  BY DEF Message
<1>2. n \in Nat
  OBVIOUS
<1>3. WithTurn(messages, t) = messages \o pair
  BY DEF WithTurn
<1> HIDE DEF pair
<1>4. /\ messages \o pair \in Seq(Message)
      /\ Len(messages \o pair) = n + Len(pair)
      /\ \A i \in 1..(n + Len(pair)) :
           (messages \o pair)[i] = IF i <= n THEN messages[i] ELSE pair[i - n]
  BY <1>1, ConcatProperties
<1>5. DOMAIN (messages \o pair) = 1..(n + 2)
  BY <1>1, <1>4, LenProperties
<1> HIDE DEF n
<1>6. /\ \A i \in 1..n : (messages \o pair)[i] = messages[i]
      /\ (messages \o pair)[n + 1] = pair[1]
      /\ (messages \o pair)[n + 2] = pair[2]
  <2>1. \A i \in 1..n : i \in 1..(n + 2) /\ i <= n
    BY <1>2
  <2>2. n + 1 \in 1..(n + 2) /\ ~(n + 1 <= n) /\ (n + 1) - n = 1
    BY <1>2
  <2>3. n + 2 \in 1..(n + 2) /\ ~(n + 2 <= n) /\ (n + 2) - n = 2
    BY <1>2
  <2> QED
    BY <1>1, <1>4, <2>1, <2>2, <2>3
<1> QED
  BY <1>1, <1>3, <1>4, <1>5, <1>6 DEF n

LEMMA WithTurnHolds ==
  ASSUME NEW messages \in Seq(Message), NEW t \in Turns
  PROVE  TurnsOf(WithTurn(messages, t)) = TurnsOf(messages) \cup {t}
<1> DEFINE longer == WithTurn(messages, t)
           n == Len(messages)
<1>1. n \in Nat /\ DOMAIN messages = 1..n
  BY LenProperties
<1>2. /\ DOMAIN longer = 1..(n + 2)
      /\ \A i \in 1..n : longer[i] = messages[i]
      /\ longer[n + 1] = [turn |-> t, role |-> "user"]
      /\ longer[n + 2] = [turn |-> t, role |-> "assistant"]
  BY WithTurnProperties
<1> HIDE DEF longer, n
<1>3. 1..(n + 2) = 1..n \cup {n + 1, n + 2}
  BY <1>1
<1> QED
  BY <1>1, <1>2, <1>3 DEF TurnsOf, longer

LEMMA WithTurnDialogue ==
  ASSUME NEW messages \in Seq(Message), NEW t \in Turns,
         Dialogue(messages), t \notin TurnsOf(messages)
  PROVE  Dialogue(WithTurn(messages, t))
<1> DEFINE longer == WithTurn(messages, t)
           n == Len(messages)
<1>1. n \in Nat /\ DOMAIN messages = 1..n
  BY LenProperties
<1>2. /\ DOMAIN longer = 1..(n + 2)
      /\ Len(longer) = n + 2
      /\ \A i \in 1..n : longer[i] = messages[i]
      /\ longer[n + 1] = [turn |-> t, role |-> "user"]
      /\ longer[n + 2] = [turn |-> t, role |-> "assistant"]
  BY WithTurnProperties
<1>3. n % 2 = 0
  BY DEF Dialogue
<1>4. \A i \in 1..n : messages[i].turn # t
  BY <1>1 DEF TurnsOf
<1>5. \A i \in 1..n :
        /\ messages[i].role = IF i % 2 = 1 THEN "user" ELSE "assistant"
        /\ i % 2 = 1 => i + 1 \in 1..n /\ messages[i + 1].turn = messages[i].turn
        /\ \A j \in 1..n : messages[i] = messages[j] => i = j
  BY <1>1 DEF Dialogue
<1> HIDE DEF longer, n
<1>6. (n + 2) % 2 = 0 /\ (n + 1) % 2 = 1
  BY <1>1, <1>3
<1>7. /\ 1..(n + 2) = 1..n \cup {n + 1, n + 2}
      /\ n + 1 \notin 1..n /\ n + 2 \notin 1..n /\ n + 1 # n + 2
      /\ (n + 1) + 1 = n + 2
  BY <1>1
<1>8. /\ longer[n + 1].turn = t /\ longer[n + 2].turn = t
      /\ longer[n + 1].role = "user" /\ longer[n + 2].role = "assistant"
  BY <1>2
<1>9. longer[n + 1] # longer[n + 2]
  BY <1>8
<1>10. ASSUME NEW i \in 1..(n + 2)
       PROVE  longer[i].role = IF i % 2 = 1 THEN "user" ELSE "assistant"
  <2>1. CASE i \in 1..n
    BY <1>2, <1>5, <2>1
  <2>2. CASE i \in {n + 1, n + 2}
    BY <1>6, <1>8, <2>2
  <2> QED
    BY <1>7, <2>1, <2>2
<1>11. ASSUME NEW i \in 1..(n + 2), i % 2 = 1
       PROVE  i + 1 \in 1..(n + 2) /\ longer[i + 1].turn = longer[i].turn
  <2>1. CASE i \in 1..n
    BY <1>2, <1>5, <1>7, <1>11, <2>1
  <2>2. CASE i \in {n + 1, n + 2}
    BY <1>6, <1>7, <1>8, <1>11, <2>2
  <2> QED
    BY <1>7, <2>1, <2>2
<1>12. ASSUME NEW i \in 1..(n + 2), NEW j \in 1..(n + 2), longer[i] = longer[j]
       PROVE  i = j
  <2>1. CASE i \in 1..n /\ j \in 1..n
    <3>1. messages[i] = messages[j]
      BY <1>2, <1>12, <2>1
    <3> QED
      BY <1>5, <2>1, <3>1
  <2>2. CASE i \in 1..n /\ j \in {n + 1, n + 2}
    BY <1>2, <1>4, <1>8, <1>12, <2>2
  <2>3. CASE i \in {n + 1, n + 2} /\ j \in 1..n
    BY <1>2, <1>4, <1>8, <1>12, <2>3
  <2>4. CASE i \in {n + 1, n + 2} /\ j \in {n + 1, n + 2}
    <3>1. ~(i = n + 1 /\ j = n + 2) /\ ~(i = n + 2 /\ j = n + 1)
      BY <1>9, <1>12
    <3> QED
      BY <2>4, <3>1
  <2>5. /\ i \in 1..n \/ i \in {n + 1, n + 2}
        /\ j \in 1..n \/ j \in {n + 1, n + 2}
    BY <1>7
  <2> QED
    BY <2>1, <2>2, <2>3, <2>4, <2>5
<1>13. Dialogue(longer)
  BY <1>2, <1>6, <1>10, <1>11, <1>12 DEF Dialogue
<1> QED
  BY <1>13 DEF longer

(* A turn is appended after everything that was there.                     *)
LEMMA WithTurnPrefix ==
  ASSUME NEW messages \in Seq(Message), NEW t \in Turns
  PROVE  IsPrefix(messages, WithTurn(messages, t))
<1> DEFINE longer == WithTurn(messages, t)
           n == Len(messages)
<1>1. n \in Nat /\ \A i \in 1..n : messages[i] \in Message
  BY LenProperties
<1>2. Len(longer) = n + 2 /\ \A i \in 1..n : longer[i] = messages[i]
  BY WithTurnProperties
<1> HIDE DEF longer, n
<1>3. /\ SubSeq(messages, 1, n) \in Seq(Message)
      /\ Len(SubSeq(messages, 1, n)) = n
      /\ \A i \in 1..n : SubSeq(messages, 1, n)[i] = messages[i]
  BY <1>1, SubSeqProperties
<1>4. /\ SubSeq(longer, 1, n) \in Seq(Message)
      /\ Len(SubSeq(longer, 1, n)) = n
      /\ \A i \in 1..n : SubSeq(longer, 1, n)[i] = longer[i]
  BY <1>1, <1>2, SubSeqProperties
<1>5. SubSeq(messages, 1, n) = SubSeq(longer, 1, n)
  BY <1>2, <1>3, <1>4, SeqEqual
<1> QED
  BY <1>1, <1>2, <1>5 DEF IsPrefix, longer, n

LEMMA SamePrefix ==
  ASSUME NEW messages \in Seq(Message)
  PROVE  IsPrefix(messages, messages)
BY LenProperties DEF IsPrefix

-----------------------------------------------------------------------------
LEMMA InitIInv == Init => IInv
<1> SUFFICES ASSUME Init PROVE IInv
  OBVIOUS
<1> USE ConversationAssumption
<1>1. DOMAIN store = {}
  BY DEF Init
<1>2. store \in [DOMAIN store -> Seq(Message)]
  <2>1. store = [c \in {} |-> <<>>]
    BY <1>1 DEF Init
  <2> QED
    BY <1>1, <2>1
<1>3. TypeOK
  BY <1>1, <1>2 DEF Init, TypeOK, Turns, NoTurn, Running, Recorded
<1>4. NamedInv /\ DialogueInv /\ RecordInv /\ ThreadInv /\ ScreenInv
  BY <1>1 DEF Init, NamedInv, DialogueInv, RecordInv, ThreadInv, ScreenInv
<1>5. PromptHoldsDialogue
  BY DEF Init, PromptHoldsDialogue
<1> QED
  BY <1>3, <1>4, <1>5 DEF IInv

(* Sending: the question is asked in the thread, over what was told in it. *)
LEMMA SendStep ==
  ASSUME IInv, NEW t \in Turns, Send(t)
  PROVE  IInv'
<1> USE ConversationAssumption DEF IInv, TypeOK
<1>1. /\ pc[t] = "unsent" /\ pc' = [pc EXCEPT ![t] = "sent"]
      /\ conv' = [conv EXCEPT ![t] = thread]
      /\ before' = [before EXCEPT ![t] = {u \in Turns : pc[u] = "told"}]
      /\ current' = t
      /\ UNCHANGED <<store, prompt, attempts, thread, restarts>>
  BY DEF Send, Step
<1>2. TypeOK'
  BY <1>1 DEF Running, Recorded
<1>3. NamedInv' /\ DialogueInv'
  BY <1>1 DEF NamedInv, DialogueInv
<1>4. RecordInv'
  BY <1>1 DEF RecordInv, Recorded, TurnsOf
<1>5. ThreadInv'
  BY <1>1 DEF ThreadInv, Turns, NoTurn
<1>6. ScreenInv'
  BY <1>1 DEF ScreenInv, ThreadInv
<1>7. PromptHoldsDialogue'
  BY <1>1 DEF PromptHoldsDialogue, TurnsOf
<1> QED
  BY <1>2, <1>3, <1>4, <1>5, <1>6, <1>7

(* Arriving: the prompt is a copy of the conversation as it is, and that   *)
(* holds what was on screen.                                               *)
LEMMA ArriveStep ==
  ASSUME IInv, NEW t \in Turns, Arrive(t)
  PROVE  IInv'
<1> USE ConversationAssumption DEF IInv, TypeOK
<1> DEFINE key == IF conv[t] = None THEN t ELSE conv[t]
           messages == IF key \in DOMAIN store THEN store[key] ELSE <<>>
<1>1. /\ pc[t] = "sent" /\ pc' = [pc EXCEPT ![t] = "planning"]
      /\ conv' = [conv EXCEPT ![t] = key]
      /\ store' = [i \in DOMAIN store \cup {key} |-> IF i = key THEN messages ELSE store[i]]
      /\ prompt' = [prompt EXCEPT ![t] = messages]
      /\ attempts' = [attempts EXCEPT ![t] = 1]
      /\ UNCHANGED <<current, thread, before, restarts>>
  BY DEF Arrive, Step, gui
<1>2. key \in Turns /\ key # None
  BY DEF Turns
<1>3. messages \in Seq(Message)
  OBVIOUS
<1>4. /\ DOMAIN store' = DOMAIN store \cup {key}
      /\ \A c \in DOMAIN store : store'[c] = store[c]
      /\ store'[key] = messages
      /\ key \notin DOMAIN store => messages = <<>>
      /\ conv[t] # None => key = conv[t]
  BY <1>1
<1> HIDE DEF key, messages
<1>5. TypeOK'
  <2>1. store' \in [DOMAIN store' -> Seq(Message)]
    BY <1>1, <1>3, <1>4
  <2>2. \A u \in Turns : pc'[u] \in Running \cup Recorded => conv'[u] \in DOMAIN store'
    BY <1>1, <1>2, <1>4 DEF Running, Recorded
  <2> QED
    BY <1>1, <1>2, <1>3, <1>4, <2>1, <2>2 DEF Running
<1>6. NamedInv'
  BY <1>1, <1>2 DEF NamedInv
<1>7. DialogueInv'
  <2>1. Dialogue(<<>>)
    BY DEF Dialogue
  <2> QED
    BY <1>4, <2>1 DEF DialogueInv
<1>8. RecordInv'
  <2>1. TurnsOf(<<>>) = {}
    BY DEF TurnsOf
  <2>2. \A u \in Turns, c \in DOMAIN store' :
          u \in TurnsOf(store'[c]) <=> c \in DOMAIN store /\ u \in TurnsOf(store[c])
    BY <1>4, <2>1
  <2>3. \A u \in Turns : pc'[u] \in Recorded <=> u # t /\ pc[u] \in Recorded
    BY <1>1 DEF Recorded
  <2>4. \A u \in Turns : u # t => conv'[u] = conv[u]
    BY <1>1
  <2>5. \A u \in Turns : pc[u] \in Recorded => conv[u] \in DOMAIN store
    OBVIOUS
  <2>6. pc[t] \notin Recorded
    BY <1>1 DEF Recorded
  <2> HIDE DEF IInv, TypeOK
  <2>7. RecordInv
    BY DEF IInv
  <2>8. ASSUME NEW u \in Turns, NEW c \in DOMAIN store'
        PROVE  u \in TurnsOf(store'[c]) <=> pc'[u] \in Recorded /\ c = conv'[u]
    BY <2>2, <2>3, <2>4, <2>5, <2>6, <2>7 DEF RecordInv
  <2>9. \A u \in Turns, c \in DOMAIN store' : TurnsOf(store[c])' = TurnsOf(store'[c])
    BY DEF TurnsOf
  <2> QED
    BY <2>8 DEF RecordInv, TurnsOf
<1>9. ThreadInv'
  <2>1. current = t /\ thread # None => key = thread
    BY <1>4 DEF ThreadInv, Turns, NoTurn
  <2> QED
    BY <1>1, <2>1 DEF ThreadInv
<1>10. ScreenInv'
  BY <1>1 DEF ScreenInv
<1>11. PromptHoldsDialogue'
  <2>1. ASSUME NEW u \in before[t] PROVE u \in TurnsOf(messages)
    <3>1. u \in Turns /\ pc[u] = "told" /\ conv[u] = conv[t]
      BY <1>1, <2>1 DEF ScreenInv
    <3>2. conv[u] # None /\ conv[u] \in DOMAIN store
      BY <3>1 DEF NamedInv, Recorded
    <3>3. u \in TurnsOf(store[conv[u]])
      BY <3>1, <3>2 DEF RecordInv, Recorded
    <3>4. messages = store[conv[u]]
      BY <1>4, <3>1, <3>2
    <3> QED
      BY <3>3, <3>4
  <2>2. \A u \in Turns : before'[u] = before[u]
    BY <1>1
  <2>3. prompt'[t] = messages /\ \A u \in Turns : u # t => prompt'[u] = prompt[u] /\ pc'[u] = pc[u]
    BY <1>1
  <2> HIDE DEF IInv, TypeOK
  <2>4. PromptHoldsDialogue /\ before[t] \subseteq TurnsOf(messages)
    BY <2>1 DEF IInv
  <2>5. ASSUME NEW u \in Turns, pc'[u] \notin {"unsent", "sent"}
        PROVE  before'[u] \subseteq TurnsOf(prompt'[u])
    BY <2>2, <2>3, <2>4, <2>5 DEF PromptHoldsDialogue
  <2> QED
    BY <2>5 DEF PromptHoldsDialogue, TurnsOf
<1> QED
  BY <1>5, <1>6, <1>7, <1>8, <1>9, <1>10, <1>11

(* The planner's attempts and the ways a turn fails: nothing is recorded.  *)
LEMMA WaitStep ==
  ASSUME IInv, NEW t \in Turns,
         PlanValid(t) \/ PlanInvalid(t) \/ PlanFails(t) \/ ChainFails(t)
  PROVE  IInv'
<1> USE ConversationAssumption DEF IInv, TypeOK
<1>1. /\ pc[t] \in Running
      /\ \E to \in {"planning", "chain", "failed"} : pc' = [pc EXCEPT ![t] = to]
      /\ attempts' \in [Turns -> 0..MaxAttempts]
      /\ UNCHANGED <<store, conv, prompt, current, thread, before, restarts>>
  <2>1. CASE PlanInvalid(t)
    BY <2>1 DEF PlanInvalid, Step, gui, Running
  <2>2. CASE PlanValid(t)
    BY <2>2 DEF PlanValid, Step, gui, Running
  <2>3. CASE PlanFails(t) \/ ChainFails(t)
    BY <2>3 DEF PlanFails, ChainFails, Step, gui, Running
  <2> QED
    BY <2>1, <2>2, <2>3
<1>2. /\ \A u \in Turns : pc'[u] # pc[u] => u = t
      /\ pc'[t] \in {"planning", "chain", "failed"}
      /\ pc' \in [Turns -> {"unsent", "sent", "failed", "outlived"} \cup Running \cup Recorded]
  <2>1. pc \in [Turns -> {"unsent", "sent", "failed", "outlived"} \cup Running \cup Recorded]
    OBVIOUS
  <2> HIDE DEF IInv, TypeOK
  <2>2. PICK to \in {"planning", "chain", "failed"} : pc' = [pc EXCEPT ![t] = to]
    BY <1>1
  <2>3. pc'[t] = to /\ \A u \in Turns : u # t => pc'[u] = pc[u]
    BY <2>1, <2>2
  <2>4. to \in {"unsent", "sent", "failed", "outlived"} \cup Running \cup Recorded
    BY <2>2 DEF Running
  <2>5. pc' \in [Turns -> {"unsent", "sent", "failed", "outlived"} \cup Running \cup Recorded]
    BY <2>1, <2>2, <2>4
  <2> QED
    BY <2>2, <2>3, <2>5
<1>3. TypeOK'
  BY <1>1, <1>2 DEF Running
<1>4. NamedInv' /\ DialogueInv'
  BY <1>1, <1>2 DEF NamedInv, DialogueInv, Running
<1>5. RecordInv'
  <2>1. \A u \in Turns : pc'[u] \in Recorded <=> pc[u] \in Recorded
    BY <1>1, <1>2 DEF Running, Recorded
  <2>2. RecordInv /\ store' = store /\ conv' = conv
    BY <1>1
  <2>3. \A c : TurnsOf(store[c])' = TurnsOf(store[c])
    BY <2>2 DEF TurnsOf
  <2> HIDE DEF IInv, TypeOK
  <2> QED
    BY <2>1, <2>2, <2>3 DEF RecordInv
<1>6. ThreadInv' /\ ScreenInv'
  BY <1>1, <1>2 DEF ThreadInv, ScreenInv, Running
<1>7. PromptHoldsDialogue'
  BY <1>1, <1>2 DEF PromptHoldsDialogue, TurnsOf, Running
<1> QED
  BY <1>3, <1>4, <1>5, <1>6, <1>7

(* Finishing: both messages enter the turn's own conversation at once.     *)
LEMMA FinishStep ==
  ASSUME IInv, NEW t \in Turns, Finish(t)
  PROVE  IInv'
<1> USE ConversationAssumption DEF IInv, TypeOK
<1> DEFINE home == conv[t]
<1>1. /\ pc[t] = "chain" /\ pc' = [pc EXCEPT ![t] = "replied"]
      /\ store' = [store EXCEPT ![home] = WithTurn(store[home], t)]
      /\ UNCHANGED <<conv, prompt, attempts, current, thread, before, restarts>>
  BY DEF Finish, Step, gui
<1>2. home \in DOMAIN store /\ store[home] \in Seq(Message)
  BY <1>1 DEF Running
<1>3. t \notin TurnsOf(store[home])
  BY <1>1, <1>2 DEF RecordInv, Recorded
<1>4. /\ DOMAIN store' = DOMAIN store
      /\ store'[home] = WithTurn(store[home], t)
      /\ \A c \in DOMAIN store : c # home => store'[c] = store[c]
  BY <1>1, <1>2
<1>5. /\ WithTurn(store[home], t) \in Seq(Message)
      /\ TurnsOf(WithTurn(store[home], t)) = TurnsOf(store[home]) \cup {t}
  BY <1>2, WithTurnProperties, WithTurnHolds
<1> HIDE DEF home
<1>6. TypeOK'
  <2>1. store' \in [DOMAIN store' -> Seq(Message)]
    BY <1>1, <1>4, <1>5
  <2> QED
    BY <1>1, <1>4, <2>1 DEF home, Running, Recorded
<1>7. NamedInv'
  BY <1>1 DEF NamedInv
<1>8. DialogueInv'
  <2>1. Dialogue(WithTurn(store[home], t))
    BY <1>2, <1>3, WithTurnDialogue DEF DialogueInv
  <2> QED
    BY <1>4, <2>1 DEF DialogueInv
<1>9. RecordInv'
  <2>1. \A u \in Turns, c \in DOMAIN store' :
          u \in TurnsOf(store'[c]) <=> u \in TurnsOf(store[c]) \/ (u = t /\ c = home)
    BY <1>4, <1>5
  <2>2. \A u \in Turns : pc'[u] \in Recorded <=> u = t \/ pc[u] \in Recorded
    BY <1>1 DEF Recorded
  <2>3. pc[t] \notin Recorded /\ conv' = conv /\ home = conv[t]
    BY <1>1 DEF Recorded, home
  <2>4. RecordInv /\ DOMAIN store' = DOMAIN store
    BY <1>4
  <2> HIDE DEF IInv, TypeOK
  <2>5. ASSUME NEW u \in Turns, NEW c \in DOMAIN store'
        PROVE  u \in TurnsOf(store'[c]) <=> pc'[u] \in Recorded /\ c = conv'[u]
    BY <2>1, <2>2, <2>3, <2>4 DEF RecordInv
  <2> QED
    BY <2>5 DEF RecordInv, TurnsOf
<1>10. ThreadInv' /\ ScreenInv'
  BY <1>1 DEF ThreadInv, ScreenInv
<1>11. PromptHoldsDialogue'
  BY <1>1 DEF PromptHoldsDialogue, TurnsOf
<1> QED
  BY <1>6, <1>7, <1>8, <1>9, <1>10, <1>11

(* The answer names the thread, or confirms the one there was.             *)
LEMMA ToldStep ==
  ASSUME IInv, NEW t \in Turns, Told(t)
  PROVE  IInv' /\ (thread # None => thread' = thread)
<1> USE ConversationAssumption DEF IInv, TypeOK
<1>1. /\ current = t /\ current' = NoTurn
      /\ pc[t] \in {"replied", "outlived"}
      /\ pc' = [pc EXCEPT ![t] = IF pc[t] = "replied" THEN "told" ELSE "outlived"]
      /\ thread' = conv[t]
      /\ UNCHANGED <<store, conv, prompt, attempts, before, restarts>>
  BY DEF Told
<1>2. conv[t] \in Turns /\ conv[t] # None
  BY <1>1 DEF NamedInv
<1>3. thread # None => thread' = thread
  BY <1>1 DEF ThreadInv, Turns, NoTurn
<1>4. /\ \A u \in Turns : u # t => pc'[u] = pc[u]
      /\ pc[t] = "replied" => pc'[t] = "told"
      /\ pc[t] = "outlived" => pc'[t] = "outlived"
  BY <1>1
<1>5. TypeOK'
  BY <1>1, <1>2 DEF Running, Recorded
<1>6. NamedInv' /\ DialogueInv'
  BY <1>1, <1>2, <1>4 DEF NamedInv, DialogueInv
<1>7. RecordInv'
  BY <1>1, <1>4 DEF RecordInv, TurnsOf, Recorded
<1>8. ThreadInv'
  <2>1. \A u \in Turns : pc[u] = "told" => conv[u] = thread /\ conv[u] # None
    BY DEF ThreadInv, NamedInv
  <2> QED
    BY <1>1, <1>3, <1>4, <2>1 DEF ThreadInv
<1>9. ScreenInv'
  BY <1>1, <1>4 DEF ScreenInv
<1>10. PromptHoldsDialogue'
  BY <1>1, <1>4 DEF PromptHoldsDialogue, TurnsOf
<1> QED
  BY <1>3, <1>5, <1>6, <1>7, <1>8, <1>9, <1>10

(* A restart forgets the conversations and with them what they recorded.   *)
LEMMA RestartStep ==
  ASSUME IInv, Restart
  PROVE  IInv'
<1> USE ConversationAssumption DEF IInv, TypeOK
<1>1. /\ restarts < MaxRestarts /\ restarts' = restarts + 1
      /\ store' = <<>>
      /\ pc' = [t \in Turns |->
                  IF pc[t] \in Running THEN "failed"
                  ELSE IF pc[t] \in {"replied", "told"} THEN "outlived"
                  ELSE pc[t]]
      /\ before' = [t \in Turns |-> {}]
      /\ UNCHANGED <<conv, prompt, attempts, current, thread>>
  BY DEF Restart
<1>2. DOMAIN store' = {} /\ store' \in [DOMAIN store' -> Seq(Message)]
  <2>1. store' = [c \in {} |-> <<>>]
    BY <1>1
  <2> QED
    BY <2>1
<1>3. \A t \in Turns : /\ pc'[t] \in {"unsent", "sent", "failed", "outlived"}
                       /\ pc'[t] = "unsent" <=> pc[t] = "unsent"
                       /\ pc'[t] = "sent" <=> pc[t] = "sent"
  BY <1>1 DEF Running, Recorded
<1>4. TypeOK'
  BY <1>1, <1>2, <1>3 DEF Running, Recorded
<1>5. NamedInv' /\ DialogueInv'
  BY <1>1, <1>2, <1>3 DEF NamedInv, DialogueInv
<1>6. RecordInv'
  BY <1>2 DEF RecordInv
<1>7. ThreadInv' /\ ScreenInv' /\ PromptHoldsDialogue'
  BY <1>1, <1>3 DEF ThreadInv, ScreenInv, PromptHoldsDialogue, TurnsOf, Turns, NoTurn
<1> QED
  BY <1>4, <1>5, <1>6, <1>7

(* Giving up on an answer changes nothing but whom the GUI waits for.      *)
LEMMA QuietStep ==
  ASSUME IInv, (\E t \in Turns : GivesUp(t)) \/ UNCHANGED vars
  PROVE  IInv'
<1>1. /\ UNCHANGED <<store, pc, conv, prompt, attempts, thread, before, restarts>>
      /\ current' \in {current, NoTurn}
  BY DEF GivesUp, vars, handler, gui
<1> QED
  BY <1>1
  DEF IInv, TypeOK, NamedInv, DialogueInv, RecordInv, ThreadInv, ScreenInv,
      PromptHoldsDialogue, TurnsOf

-----------------------------------------------------------------------------
(* The inductive invariant holds in every reachable state.                 *)
THEOREM Inductive == Spec => []IInv
<1>1. IInv /\ [Next]_vars => IInv'
  BY SendStep, ArriveStep, WaitStep, FinishStep, ToldStep, RestartStep, QuietStep
  DEF Next, Handle, Leave
<1> QED
  BY InitIInv, <1>1, PTL DEF Spec

(* Every variable keeps its type, and a handler that will append finds its *)
(* conversation.                                                           *)
THEOREM TypeCorrect == Spec => []TypeOK
<1>1. IInv => TypeOK
  BY DEF IInv
<1> QED
  BY Inductive, <1>1, PTL

(* However handlers overlap, every conversation is a dialogue of questions *)
(* and their own answers.                                                  *)
THEOREM ConversationsAreDialogues == Spec => []TurnsArePaired
<1>1. IInv => TurnsArePaired
  BY DEF IInv, DialogueInv, Dialogue, TurnsArePaired
<1> QED
  BY Inductive, <1>1, PTL

(* An answered turn is recorded in the conversation its answer named and   *)
(* nowhere else; a failed one nowhere.                                     *)
THEOREM RecordsMatchAnswers == Spec => []AnsweredIsRecorded
<1>1. IInv => AnsweredIsRecorded
  <2> SUFFICES ASSUME IInv, NEW t \in Turns
               PROVE  {c \in DOMAIN store : t \in TurnsOf(store[c])} =
                        IF pc[t] \in Recorded THEN {conv[t]} ELSE {}
    BY DEF AnsweredIsRecorded
  <2>1. pc[t] \in Recorded => conv[t] \in DOMAIN store
    BY DEF IInv, TypeOK
  <2> QED
    BY <2>1 DEF IInv, RecordInv
<1> QED
  BY Inductive, <1>1, PTL

(* The planner's prompt holds the dialogue the operator sees.              *)
THEOREM PlannerKnowsTheDialogue == Spec => []PromptHoldsDialogue
<1>1. IInv => PromptHoldsDialogue
  BY DEF IInv
<1> QED
  BY Inductive, <1>1, PTL

(* While the backend lives a conversation is only appended to.             *)
THEOREM HistoryIsKept == Spec => ConversationGrows
<1>1. ASSUME IInv, [Next]_vars, restarts' = restarts, NEW c \in DOMAIN store
      PROVE  c \in DOMAIN store' /\ IsPrefix(store[c], store'[c])
  <2> USE DEF IInv, TypeOK
  <2>1. store[c] \in Seq(Message)
    BY <1>1
  <2>2. CASE store' = store
    BY <2>1, <2>2, SamePrefix
  <2>3. ASSUME NEW t \in Turns, Arrive(t)
        PROVE  c \in DOMAIN store' /\ store'[c] = store[c]
    BY <2>3 DEF Arrive
  <2>4. ASSUME NEW t \in Turns, Finish(t)
        PROVE  c \in DOMAIN store' /\ store'[c] \in {store[c], WithTurn(store[c], t)}
    BY <2>4 DEF Finish
  <2>5. store' = store \/ \E t \in Turns : Arrive(t) \/ Finish(t)
    BY <1>1
    DEF Next, Handle, Send, PlanValid, PlanInvalid, PlanFails, ChainFails, Told,
        GivesUp, Restart, Leave, vars
  <2> QED
    BY <2>1, <2>2, <2>3, <2>4, <2>5, SamePrefix, WithTurnPrefix
<1>2. IInv /\ [Next]_vars =>
        [restarts' = restarts =>
           \A c \in DOMAIN store :
             c \in DOMAIN store' /\ IsPrefix(store[c], store'[c])]_vars
  BY <1>1
<1> QED
  BY Inductive, <1>2, PTL DEF Spec, ConversationGrows

(* The session stays in the conversation its first answer named.           *)
THEOREM ThreadIsKept == Spec => SessionKeepsThread
<1>1. ASSUME IInv, [Next]_vars PROVE thread # None => thread' = thread
  <2>1. ASSUME NEW t \in Turns, Told(t) PROVE thread # None => thread' = thread
    BY <1>1, <2>1, ToldStep
  <2>2. thread' = thread \/ \E t \in Turns : Told(t)
    BY <1>1
    DEF Next, Handle, Send, Arrive, PlanValid, PlanInvalid, PlanFails, ChainFails,
        Finish, GivesUp, Restart, Leave, vars, gui
  <2> QED
    BY <2>1, <2>2
<1>2. IInv /\ [Next]_vars => [thread # None => thread' = thread]_vars
  BY <1>1
<1> QED
  BY Inductive, <1>2, PTL DEF Spec, SessionKeepsThread
=============================================================================
