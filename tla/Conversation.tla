---------------------------- MODULE Conversation ----------------------------
(***************************************************************************)
(* POST /chat and the conversation store behind it, as one GUI session     *)
(* uses them.  The handler is a coroutine: it runs alone between two       *)
(* awaits, and it awaits the LLM planner and the MCP tools of the chain.   *)
(* The GUI asks one question at a time, but it gives up after 30 s, or     *)
(* when its script is stopped, while the handler goes on: so handlers of   *)
(* one conversation do overlap.  Sessions share nothing: an id is a fresh  *)
(* uuid4, identified here with the turn that draws it.                     *)
(*                                                                         *)
(* What the messages say is left out: a message is its turn and its role.  *)
(***************************************************************************)
EXTENDS Integers, Sequences, SequencesExt, FiniteSets

CONSTANTS MaxTurns,     \* bound: questions of the session
          MaxAttempts,  \* LLMPlanner: max_retries + 1
          MaxRestarts,  \* bound: restarts of the backend
          None          \* Python's None

ASSUME ConversationAssumption ==
  /\ MaxTurns \in Nat
  /\ MaxAttempts \in Nat \ {0}
  /\ MaxRestarts \in Nat
  /\ None \notin 1..MaxTurns

Turns == 1..MaxTurns
NoTurn == 0

VARIABLES store,     \* ConversationStore._store: id -> messages
          pc,        \* where each turn stands
          conv,      \* the conversation id each turn was sent with, then has
          prompt,    \* the history in each turn's prompt to the planner
          attempts,  \* how often the planner asked the LLM for each turn
          current,   \* the turn the GUI waits for
          thread,    \* _latest_conversation_id of the GUI's messages
          before,    \* the answers on screen when each turn was asked (history)
          restarts   \* how often the backend has been restarted

gui     == <<current, thread, before>>
handler == <<pc, conv, prompt, attempts>>
vars    == <<store, handler, gui, restarts>>

-----------------------------------------------------------------------------
Message == [turn : Turns, role : {"user", "assistant"}]

TurnsOf(messages) == {messages[i].turn : i \in DOMAIN messages}

(* Inside the handler, the answer not yet out.                             *)
Running == {"planning", "chain"}

(* Mutant: the answer is appended before its question.                     *)
WithTurnSwapped(messages, t) ==
  messages \o <<[turn |-> t, role |-> "assistant"], [turn |-> t, role |-> "user"]>>

(* The two appends after the chain: no await lies between them.            *)
WithTurn(messages, t) ==
  messages \o <<[turn |-> t, role |-> "user"], [turn |-> t, role |-> "assistant"]>>

Step(t, from, to) ==
  /\ pc[t] = from
  /\ pc' = [pc EXCEPT ![t] = to]

-----------------------------------------------------------------------------
Init ==
  /\ store = <<>>
  /\ pc = [t \in Turns |-> "unsent"]
  /\ conv = [t \in Turns |-> None]
  /\ prompt = [t \in Turns |-> <<>>]
  /\ attempts = [t \in Turns |-> 0]
  /\ current = NoTurn
  /\ thread = None
  /\ before = [t \in Turns |-> {}]
  /\ restarts = 0

(* The GUI sends the next question, with the id of its latest answer.      *)
Send(t) ==
  /\ current = NoTurn
  /\ \A earlier \in 1..(t - 1) : pc[earlier] # "unsent"
  /\ Step(t, "unsent", "sent")
  /\ conv' = [conv EXCEPT ![t] = thread]
  /\ before' = [before EXCEPT ![t] = {u \in Turns : pc[u] = "told"}]
  /\ current' = t
  /\ UNCHANGED <<store, prompt, attempts, thread, restarts>>

(* Mutant: an id the store does not know is replaced by a fresh one.       *)
ArriveFresh(t) ==
  LET id == IF conv[t] \in DOMAIN store THEN conv[t] ELSE t
      messages == IF id \in DOMAIN store THEN store[id] ELSE <<>>
  IN  /\ Step(t, "sent", "planning")
      /\ conv' = [conv EXCEPT ![t] = id]
      /\ store' = [i \in DOMAIN store \cup {id} |-> IF i = id THEN messages ELSE store[i]]
      /\ prompt' = [prompt EXCEPT ![t] = messages]
      /\ attempts' = [attempts EXCEPT ![t] = 1]
      /\ UNCHANGED <<gui, restarts>>

(* Mutant: get_or_create returns a new history without storing it.         *)
ArriveForgets(t) ==
  LET id == IF conv[t] = None THEN t ELSE conv[t]
      messages == IF id \in DOMAIN store THEN store[id] ELSE <<>>
  IN  /\ Step(t, "sent", "planning")
      /\ conv' = [conv EXCEPT ![t] = id]
      /\ prompt' = [prompt EXCEPT ![t] = messages]
      /\ attempts' = [attempts EXCEPT ![t] = 1]
      /\ UNCHANGED <<store, gui, restarts>>

(* The request arrives, at once or after the GUI gave up: get_or_create,   *)
(* and a copy of the messages goes into the prompt of the first attempt.   *)
(* An id the store does not know opens a conversation under that id.       *)
Arrive(t) ==
  LET id == IF conv[t] = None THEN t ELSE conv[t]
      messages == IF id \in DOMAIN store THEN store[id] ELSE <<>>
  IN  /\ Step(t, "sent", "planning")
      /\ conv' = [conv EXCEPT ![t] = id]
      /\ store' = [i \in DOMAIN store \cup {id} |-> IF i = id THEN messages ELSE store[i]]
      /\ prompt' = [prompt EXCEPT ![t] = messages]
      /\ attempts' = [attempts EXCEPT ![t] = 1]
      /\ UNCHANGED <<gui, restarts>>

(* The LLM's JSON validates as a plan.                                     *)
PlanValid(t) ==
  /\ Step(t, "planning", "chain")
  /\ UNCHANGED <<store, conv, prompt, attempts, gui, restarts>>

(* Mutant: every invalid plan is tried again.                              *)
PlanInvalidForever(t) ==
  /\ Step(t, "planning", "planning")
  /\ attempts' = [attempts EXCEPT ![t] = (@ % MaxAttempts) + 1]
  /\ UNCHANGED <<store, conv, prompt, gui, restarts>>

(* It does not: the LLM is asked again with the error appended,            *)
PlanInvalid(t) ==
  /\ attempts[t] < MaxAttempts
  /\ Step(t, "planning", "planning")
  /\ attempts' = [attempts EXCEPT ![t] = @ + 1]
  /\ UNCHANGED <<store, conv, prompt, gui, restarts>>

(* until the attempts are used up: PlannerError, a 422.  LLMError, an LLM  *)
(* that cannot be reached, is not tried again: a 500.                      *)
PlanFails(t) ==
  /\ Step(t, "planning", "failed")
  /\ UNCHANGED <<store, conv, prompt, attempts, gui, restarts>>

(* Mutant: the question is recorded before the chain runs.                 *)
ChainFailsRecorded(t) ==
  /\ Step(t, "chain", "failed")
  /\ store' = [store EXCEPT ![conv[t]] = Append(@, [turn |-> t, role |-> "user"])]
  /\ UNCHANGED <<conv, prompt, attempts, gui, restarts>>

(* The chain raises: a ChainError of a step that does not fit its kind, or *)
(* the ValueError of a RAG step.  A tool that fails does not.              *)
ChainFails(t) ==
  /\ Step(t, "chain", "failed")
  /\ UNCHANGED <<store, conv, prompt, attempts, gui, restarts>>

(* Mutant: the turn is appended to the history the handler read.           *)
FinishFromSnapshot(t) ==
  /\ Step(t, "chain", "replied")
  /\ store' = [store EXCEPT ![conv[t]] = WithTurn(prompt[t], t)]
  /\ UNCHANGED <<conv, prompt, attempts, gui, restarts>>

(* The chain is done: both messages are appended and the answer goes out.  *)
Finish(t) ==
  /\ Step(t, "chain", "replied")
  /\ store' = [store EXCEPT ![conv[t]] = WithTurn(@, t)]
  /\ UNCHANGED <<conv, prompt, attempts, gui, restarts>>

(* The answer reaches the GUI.                                             *)
Told(t) ==
  /\ current = t
  /\ pc[t] \in {"replied", "outlived"}
  /\ pc' = [pc EXCEPT ![t] = IF @ = "replied" THEN "told" ELSE "outlived"]
  /\ thread' = conv[t]
  /\ current' = NoTurn
  /\ UNCHANGED <<store, conv, prompt, attempts, before, restarts>>

(* Mutant: an error starts a new conversation.                             *)
GivesUpThread(t) ==
  /\ current = t
  /\ current' = NoTurn
  /\ thread' = None
  /\ UNCHANGED <<store, handler, before, restarts>>

(* ChatError - an error answer, no connection, the timeout - or a stopped  *)
(* script: an error turn with the id the question was sent with, or none,  *)
(* so that the latest id stays what it is.                                 *)
GivesUp(t) ==
  /\ current = t
  /\ current' = NoTurn
  /\ UNCHANGED <<store, handler, thread, before, restarts>>

(* The backend dies and starts with an empty store: answered turns outlive *)
(* their record, running handlers are lost.                                *)
Restart ==
  /\ restarts < MaxRestarts
  /\ restarts' = restarts + 1
  /\ store' = <<>>
  /\ pc' = [t \in Turns |->
              IF pc[t] \in Running THEN "failed"
              ELSE IF pc[t] \in {"replied", "told"} THEN "outlived"
              ELSE pc[t]]
  /\ before' = [t \in Turns |-> {}]
  /\ UNCHANGED <<conv, prompt, attempts, current, thread>>

(* The operator asks nothing more.                                         *)
Leave ==
  /\ current = NoTurn
  /\ UNCHANGED vars

Handle(t) ==
  \/ PlanValid(t) \/ PlanInvalid(t) \/ PlanFails(t)
  \/ ChainFails(t) \/ Finish(t)

Next ==
  \/ \E t \in Turns : Send(t) \/ Arrive(t) \/ Handle(t) \/ Told(t) \/ GivesUp(t)
  \/ Restart
  \/ Leave

Spec == Init /\ [][Next]_vars

(* The LLM call ends within its 30 s and so do the calls of the chain, one *)
(* way or the other; the event loop then resumes the handler.              *)
Fairness == \A t \in Turns : WF_vars(Handle(t))

FairSpec == Spec /\ Fairness

-----------------------------------------------------------------------------
(* Properties.                                                             *)

Recorded == {"replied", "told"}

(* Every variable has its type, and a handler that will append finds its   *)
(* conversation: append never raises "not found".                          *)
TypeOK ==
  /\ store \in [DOMAIN store -> Seq(Message)]
  /\ DOMAIN store \subseteq Turns
  /\ pc \in [Turns -> {"unsent", "sent", "failed", "outlived"} \cup Running \cup Recorded]
  /\ conv \in [Turns -> Turns \cup {None}]
  /\ \A t \in Turns : pc[t] \in Running \cup Recorded => conv[t] \in DOMAIN store
  /\ prompt \in [Turns -> Seq(Message)]
  /\ attempts \in [Turns -> 0..MaxAttempts]
  /\ current \in Turns \cup {NoTurn}
  /\ thread \in Turns \cup {None}
  /\ before \in [Turns -> SUBSET Turns]
  /\ restarts \in 0..MaxRestarts

(* However handlers of one conversation overlap, its messages stay a       *)
(* dialogue: each question is followed at once by its own answer, and is   *)
(* there once.                                                             *)
TurnsArePaired ==
  \A c \in DOMAIN store :
    LET messages == store[c]
    IN  \A i \in DOMAIN messages :
          /\ messages[i].role = IF i % 2 = 1 THEN "user" ELSE "assistant"
          /\ i % 2 = 1 => i + 1 \in DOMAIN messages /\ messages[i + 1].turn = messages[i].turn
          /\ \A j \in DOMAIN messages : messages[i] = messages[j] => i = j

(* Until the backend restarts, a turn that was answered is in the one      *)
(* conversation its answer named, and a turn that failed, for whatever     *)
(* reason and however late, is in none.                                    *)
AnsweredIsRecorded ==
  \A t \in Turns :
    {c \in DOMAIN store : t \in TurnsOf(store[c])} =
      IF pc[t] \in Recorded THEN {conv[t]} ELSE {}

(* The planner knows the dialogue the operator sees: the prompt of a turn  *)
(* holds every answer on screen when the question was typed, unless the    *)
(* backend forgot it in a restart.                                         *)
PromptHoldsDialogue ==
  \A t \in Turns : pc[t] \notin {"unsent", "sent"} => before[t] \subseteq TurnsOf(prompt[t])

(* A conversation only grows: what a handler read before it awaited is a   *)
(* prefix of what it appends to.                                           *)
ConversationGrows ==
  [][ restarts' = restarts =>
        \A c \in DOMAIN store :
          c \in DOMAIN store' /\ IsPrefix(store[c], store'[c]) ]_vars

(* Once an answer has named a conversation the session stays in it, across *)
(* errors, late turns and restarts of the backend.                         *)
SessionKeepsThread == [][thread # None => thread' = thread]_vars

(* A question the backend has taken up ends, however often the LLM answers *)
(* with a plan that does not validate.                                     *)
EveryTurnEnds ==
  \A t \in Turns : [](pc[t] \in Running => <>(pc[t] \notin Running))
=============================================================================
