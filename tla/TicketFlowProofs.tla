--------------------------- MODULE TicketFlowProofs ---------------------------
(***************************************************************************)
(* What TicketFlow promises, for every number of calls and restarts, and   *)
(* that the path implements the abstract ledger.                           *)
(***************************************************************************)
EXTENDS TicketFlow, FiniteSetTheorems, TLAPS

Filed  == {"stored", "created"}
Told   == {"created", "lost"}

RowOf(c) ==
  [id |-> id[c], request |-> c, incident |-> TicketOf(payload[c].incident)]

(* Calls are numbered in the order they are made, each one is at the       *)
(* backend from its start, and the script blocks in one that was made.     *)
StartInv ==
  /\ \E n \in 0..MaxCalls : Used = 1..n
  /\ \A c \in Calls : origin[c] = "none" <=> back[c] = "idle"
  /\ busy # NoCall => origin[busy] # "none"

(* A hop that was not called has done nothing, and the tool returns what   *)
(* the service confirmed.                                                  *)
HopInv ==
  \A c \in Calls :
    /\ back[c] \in {"idle", "sent"} <=> tool[c] = "idle"
    /\ tool[c] = "idle" => svc[c] = "idle"
    /\ tool[c] = "ok" => svc[c] \in Told

(* The ledger holds the ticket of every filed call and nothing else, under *)
(* ids up to the counter.                                                  *)
LedgerInv ==
  /\ \A row \in ledger : row = RowOf(row.request) /\ svc[row.request] \in Filed
  /\ \A c \in Calls : svc[c] \in Filed => RowOf(c) \in ledger /\ id[c] \in 1..offset

(* An id on its way to the panel is the one its own call was given.        *)
ReplyInv ==
  /\ \A c \in Calls : reply[c] # NoId => reply[c] = id[c] /\ svc[c] \in Told
  /\ result # None /\ result.ticket_id # NoId =>
       result.ticket_id = id[result.call] /\ svc[result.call] \in Told

IInv == TypeOK /\ StartInv /\ HopInv /\ LedgerInv /\ ReplyInv

-----------------------------------------------------------------------------
LEMMA InitIInv == Init => IInv
<1> SUFFICES ASSUME Init PROVE IInv
  OBVIOUS
<1> USE FlowAssumption
<1>1. TypeOK
  BY DEF Init, TypeOK, Calls, NoCall, NoId
<1>2. StartInv
  <2>1. Used = 1..0
    BY DEF Init, Used
  <2> QED
    BY <2>1 DEF Init, StartInv
<1>3. HopInv /\ LedgerInv /\ ReplyInv
  BY DEF Init, HopInv, LedgerInv, ReplyInv, Filed
<1> QED
  BY <1>1, <1>2, <1>3 DEF IInv

(* A new call is one that was not made before, and the next in turn.       *)
LEMMA NewCall ==
  ASSUME IInv, NEW c \in Calls, c = Cardinality(Used) + 1
  PROVE  origin[c] = "none" /\ Used \cup {c} = 1..c
<1>1. PICK n \in 0..MaxCalls : Used = 1..n
  BY DEF IInv, StartInv
<1>2. n \in Nat /\ n \in Int
  BY <1>1, FlowAssumption
<1>3. Cardinality(1..n) = n
  <2>1. Cardinality(1..n) = IF 1 > n THEN 0 ELSE n - 1 + 1
    BY <1>2, FS_Interval
  <2> QED
    BY <1>2, <2>1
<1>4. c = n + 1
  BY <1>1, <1>3
<1>5. c \notin Used /\ Used \cup {c} = 1..c
  BY <1>1, <1>2, <1>4
<1> QED
  BY <1>5 DEF Used

(* Starting a call touches nothing that another one has done.              *)
LEMMA BeginStep ==
  ASSUME IInv, NEW c \in Calls, Begin(c)
  PROVE  IInv' /\ svc[c] = "idle"
<1> USE FlowAssumption
<1>1. PICK from \in {"approve", "plan"}, p \in Payload :
        /\ StartCall(c, from, p, "sent")
        /\ UNCHANGED <<result, reply, tool, service>>
  BY DEF Begin, Approve, ChatPlansCreate, Payload
<1>2. /\ c = Cardinality(Used) + 1
      /\ busy' = c
      /\ origin'  = [origin EXCEPT ![c] = from]
      /\ payload' = [payload EXCEPT ![c] = p]
      /\ back'    = [back EXCEPT ![c] = "sent"]
      /\ UNCHANGED <<result, reply, tool, svc, id, ledger, offset, restarts>>
  BY <1>1 DEF StartCall, service
<1>3. origin[c] = "none" /\ Used \cup {c} = 1..c
  BY <1>2, NewCall
<1>4. back[c] = "idle" /\ tool[c] = "idle" /\ svc[c] = "idle"
  BY <1>3 DEF IInv, StartInv, HopInv
<1>5. TypeOK'
  BY <1>2 DEF IInv, TypeOK
<1>6. Used' = 1..c /\ c \in 0..MaxCalls
  <2>1. Used' = Used \cup {c}
    BY <1>2 DEF IInv, TypeOK, Used
  <2> QED
    BY <1>3, <2>1 DEF Calls
<1>7. StartInv'
  BY <1>2, <1>6 DEF IInv, TypeOK, StartInv
<1>8. HopInv'
  BY <1>2, <1>4 DEF IInv, TypeOK, HopInv
<1>9. LedgerInv'
  <2>1. \A d \in Calls : svc[d] \in Filed => RowOf(d)' = RowOf(d)
    BY <1>2, <1>4 DEF Filed, RowOf, IInv, TypeOK
  <2>2. \A row \in ledger : row.request \in Calls
    BY DEF IInv, TypeOK, Row
  <2> QED
    BY <1>2, <2>1, <2>2 DEF IInv, LedgerInv
<1>10. ReplyInv'
  BY <1>2 DEF IInv, ReplyInv
<1> QED
  BY <1>4, <1>5, <1>7, <1>8, <1>9, <1>10 DEF IInv

(* What the GUI makes of an answer, or of none.                            *)
LEMMA EndStep ==
  ASSUME IInv, NEW c \in Calls, CallEnds(c)
  PROVE  IInv' /\ UNCHANGED <<ledger, svc>>
<1>1. /\ busy' = NoCall
      /\ UNCHANGED <<request, back, reply, tool, service>>
      /\ \/ result' = result
         \/ result' = [call |-> c, error |-> FALSE, ticket_id |-> reply[c]]
         \/ result' = [call |-> c, error |-> TRUE, ticket_id |-> NoId]
  BY DEF CallEnds, ChatEnds, CreateReturns, CreateRaises, CreateInterrupted
<1>2. UNCHANGED <<origin, payload, back, reply, tool, svc, id, ledger, offset, restarts>>
  BY <1>1 DEF request, service
<1>3. TypeOK'
  <2>1. reply[c] \in Nat
    BY DEF IInv, TypeOK
  <2>2. result' \in [call : Calls, error : BOOLEAN, ticket_id : Nat] \cup {None}
    <3>1. CASE result' = result
      BY <3>1 DEF IInv, TypeOK
    <3>2. CASE result' = [call |-> c, error |-> FALSE, ticket_id |-> reply[c]]
      BY <2>1, <3>2
    <3>3. CASE result' = [call |-> c, error |-> TRUE, ticket_id |-> NoId]
      BY <3>3 DEF NoId
    <3> QED
      BY <1>1, <3>1, <3>2, <3>3
  <2> QED
    BY <1>1, <1>2, <2>2 DEF IInv, TypeOK
<1>4. StartInv' /\ HopInv' /\ LedgerInv'
  BY <1>1, <1>2 DEF IInv, StartInv, HopInv, LedgerInv, RowOf, Used
<1>5. ReplyInv'
  BY <1>1, <1>2 DEF IInv, ReplyInv, TypeOK
<1> QED
  BY <1>2, <1>3, <1>4, <1>5 DEF IInv

(* The hops but for the ticket service's own step.                         *)
LEMMA HopStep ==
  ASSUME IInv, NEW c \in Calls, Hop(c), ~Persist(c)
  PROVE  IInv'
<1> USE FlowAssumption DEF IInv, TypeOK
<1> DEFINE Kept == UNCHANGED <<busy, result, origin, payload, id, ledger, offset, restarts>>
<1> DEFINE Moves(b, t, s, r) ==
      /\ back'  = [back EXCEPT ![c] = b]
      /\ tool'  = [tool EXCEPT ![c] = t]
      /\ svc'   = [svc EXCEPT ![c] = s]
      /\ reply' = [reply EXCEPT ![c] = r]
<1> DEFINE P(b, t, s, r) ==
      /\ Kept /\ Moves(b, t, s, r)
      /\ back[c] # "idle"
      /\ t = "ok" => s \in Told
      /\ s \in Filed <=> svc[c] \in Filed
      /\ svc[c] \in Told => s \in Told
      /\ r = reply[c] \/ (r = id[c] /\ s \in Told)
<1>0. PICK b \in {"waiting", "replied"},
           t \in {"waiting", "ok", "error"},
           s \in {"idle", "sent", "stored", "created", "refused", "lost"},
           r \in Nat :
        P(b, t, s, r)
  <2>0. /\ back  = [back EXCEPT ![c] = back[c]]
        /\ tool  = [tool EXCEPT ![c] = tool[c]]
        /\ svc   = [svc EXCEPT ![c] = svc[c]]
        /\ reply = [reply EXCEPT ![c] = reply[c]]
    OBVIOUS
  <2>a. /\ svc[c] \in {"idle", "sent", "stored", "created", "refused", "lost"}
        /\ reply[c] \in Nat /\ id[c] \in Nat
        /\ back[c] \in {"idle", "sent", "waiting", "replied"}
        /\ tool[c] \in {"idle", "waiting", "ok", "error"}
    OBVIOUS
  <2>b. /\ back[c] \in {"idle", "sent"} <=> tool[c] = "idle"
        /\ tool[c] = "idle" => svc[c] = "idle"
        /\ tool[c] = "ok" => svc[c] \in Told
    BY DEF HopInv
  <2> HIDE DEF IInv, TypeOK
  <2> USE DEF Filed, Told, gui, request, service
  <2>1. CASE BackendCalls(c)
    <3>1. P("waiting", "waiting", "sent", reply[c])
      BY <2>0, <2>a, <2>b, <2>1 DEF BackendCalls
    <3> HIDE DEF P
    <3> QED
      BY <2>a, <3>1
  <2>2. CASE BackendReplies(c)
    <3>1. P("replied", "ok", svc[c], id[c])
      BY <2>0, <2>a, <2>b, <2>2 DEF BackendReplies
    <3> HIDE DEF P
    <3> QED
      BY <2>a, <3>1
  <2>3. CASE BackendSwallows(c)
    <3>1. P("replied", tool[c], svc[c], reply[c])
      BY <2>0, <2>a, <2>b, <2>3 DEF BackendSwallows
    <3>2. tool[c] # "idle"
      BY <2>a, <2>b, <2>3 DEF BackendSwallows
    <3> HIDE DEF P
    <3> QED
      BY <2>a, <3>1, <3>2
  <2>4. CASE ToolReturns(c)
    <3>1. P(back[c], "ok", "created", reply[c])
      BY <2>0, <2>a, <2>b, <2>4 DEF ToolReturns
    <3>2. back[c] \in {"waiting", "replied"}
      BY <2>a, <2>b, <2>4 DEF ToolReturns
    <3> HIDE DEF P
    <3> QED
      BY <2>a, <3>1, <3>2
  <2>5. CASE ToolRejected(c)
    <3>1. P(back[c], "error", "refused", reply[c])
      BY <2>0, <2>a, <2>b, <2>5 DEF ToolRejected
    <3>2. back[c] \in {"waiting", "replied"}
      BY <2>a, <2>b, <2>5 DEF ToolRejected
    <3> HIDE DEF P
    <3> QED
      BY <2>a, <3>1, <3>2
  <2>6. CASE ToolGivesUp(c)
    <3>1. P(back[c], "error", svc[c], reply[c])
      BY <2>0, <2>a, <2>b, <2>6 DEF ToolGivesUp
    <3>2. back[c] \in {"waiting", "replied"}
      BY <2>a, <2>b, <2>6 DEF ToolGivesUp
    <3> HIDE DEF P
    <3> QED
      BY <2>a, <3>1, <3>2
  <2> HIDE DEF P
  <2> QED
    BY <2>1, <2>2, <2>3, <2>4, <2>5, <2>6 DEF Hop
<1>3. TypeOK'
  BY <1>0
<1>4. StartInv'
  BY <1>0 DEF StartInv, Used
<1>5. HopInv'
  BY <1>0 DEF HopInv
<1>6. LedgerInv'
  <2>1. \A d \in Calls : /\ RowOf(d)' = RowOf(d)
                         /\ svc'[d] \in Filed <=> svc[d] \in Filed
    BY <1>0 DEF RowOf
  <2>2. \A row \in ledger : row.request \in Calls
    BY DEF Row
  <2> QED
    BY <1>0, <2>1, <2>2 DEF LedgerInv
<1>7. ReplyInv'
  BY <1>0 DEF ReplyInv
<1> QED
  BY <1>3, <1>4, <1>5, <1>6, <1>7

(* The ticket service files the call under a fresh id.                     *)
LEMMA PersistStep ==
  ASSUME IInv, NEW c \in Calls, Persist(c)
  PROVE  IInv'
<1> USE FlowAssumption DEF IInv, TypeOK
<1>1. /\ svc[c] = "sent"
      /\ svc' = [svc EXCEPT ![c] = "stored"]
      /\ offset' = offset + 1
      /\ id' = [id EXCEPT ![c] = offset + 1]
      /\ UNCHANGED <<busy, result, origin, payload, back, reply, tool, restarts>>
  BY DEF Persist, gui, request
<1>2. payload[c] \in Payload
  BY <1>1 DEF StartInv, HopInv
<1>3. ledger' = ledger \cup {RowOf(c)'}
  BY <1>1 DEF Persist, RowOf
<1>4. RowOf(c)' \in Row
  BY <1>1, <1>2 DEF RowOf, Row, TicketOf, Ticket, Payload, Merged, NoId
<1>5. TypeOK'
  BY <1>1, <1>3, <1>4
<1>6. StartInv' /\ HopInv' /\ ReplyInv'
  BY <1>1 DEF StartInv, HopInv, ReplyInv, Used, Told
<1>7. LedgerInv'
  <2>1. \A d \in Calls : svc[d] \in Filed => d # c /\ RowOf(d)' = RowOf(d) /\ id'[d] = id[d]
    BY <1>1 DEF RowOf, Filed
  <2>2. \A d \in Calls : svc'[d] \in Filed <=> svc[d] \in Filed \/ d = c
    BY <1>1 DEF Filed
  <2>3. \A row \in ledger : row.request \in Calls
    BY DEF Row
  <2>4. RowOf(c)'.request = c /\ id'[c] = offset'
    BY <1>1 DEF RowOf
  <2> QED
    BY <1>1, <1>3, <2>1, <2>2, <2>3, <2>4 DEF LedgerInv
<1> QED
  BY <1>5, <1>6, <1>7

(* A restart of the service loses all its tickets at once.                 *)
LEMMA RestartStep ==
  ASSUME IInv, ServiceRestarts
  PROVE  IInv'
<1> USE FlowAssumption DEF IInv, TypeOK
<1>1. /\ restarts < MaxRestarts /\ restarts' = restarts + 1
      /\ ledger' = {} /\ offset' = 0
      /\ svc' = [c \in Calls |-> IF svc[c] \in {"stored", "created"} THEN "lost" ELSE svc[c]]
      /\ UNCHANGED <<busy, result, origin, payload, back, reply, tool, id>>
  BY DEF ServiceRestarts, gui, request
<1>2. TypeOK'
  BY <1>1
<1>3. StartInv' /\ HopInv' /\ LedgerInv' /\ ReplyInv'
  BY <1>1 DEF StartInv, HopInv, LedgerInv, ReplyInv, Used, Told, Filed
<1> QED
  BY <1>2, <1>3

LEMMA StutterStep ==
  ASSUME IInv, UNCHANGED vars
  PROVE  IInv'
BY DEF vars, gui, request, service, IInv, TypeOK, StartInv, HopInv, LedgerInv,
       ReplyInv, RowOf, Used

-----------------------------------------------------------------------------
(* The inductive invariant holds in every reachable state.                 *)
THEOREM Inductive == Spec => []IInv
<1>1. IInv /\ [Next]_vars => IInv'
  BY BeginStep, EndStep, HopStep, PersistStep, RestartStep, StutterStep
  DEF Next, Leave
<1> QED
  BY InitIInv, <1>1, PTL DEF Spec

(* Every variable keeps its type at every hop.                             *)
THEOREM TypeCorrect == Spec => []TypeOK
<1>1. IInv => TypeOK
  BY DEF IInv
<1> QED
  BY Inductive, <1>1, PTL

(* One run of the create step files at most one ticket, whatever timed out *)
(* on its way.                                                             *)
THEOREM AtMostOnce == Spec => []OneTicketPerCall
<1>1. IInv => OneTicketPerCall
  BY DEF IInv, LedgerInv, OneTicketPerCall
<1> QED
  BY Inductive, <1>1, PTL

(* An id in the panel is that of the click's own ticket, which is there    *)
(* until the service restarts.                                             *)
THEOREM PanelTellsTheTruth == Spec => []SuccessIsTrue
<1>1. IInv => SuccessIsTrue
  <2> SUFFICES ASSUME IInv, result # None, result.ticket_id # NoId
               PROVE  LET c == result.call
                      IN  /\ svc[c] \in {"created", "lost"}
                          /\ svc[c] = "created" =>
                               [id |-> result.ticket_id, request |-> c,
                                incident |-> TicketOf(payload[c].incident)] \in ledger
    BY DEF SuccessIsTrue
  <2> DEFINE c == result.call
  <2>1. c \in Calls
    BY DEF IInv, TypeOK
  <2>2. result.ticket_id = id[c] /\ svc[c] \in {"created", "lost"}
    BY DEF IInv, ReplyInv, Told
  <2>3. svc[c] = "created" => RowOf(c) \in ledger
    BY <2>1 DEF IInv, LedgerInv, Filed
  <2> QED
    BY <2>2, <2>3 DEF RowOf
<1> QED
  BY Inductive, <1>1, PTL

-----------------------------------------------------------------------------
(* Refinement: what the ledger knows of a call is its state at the ticket  *)
(* service.                                                                *)
LEMMA OutcomeKept ==
  ASSUME svc' = svc
  PROVE  outcome' = outcome
BY DEF outcome, OutcomeOf

LEMMA RowsOfCalls ==
  ASSUME IInv, NEW c \in Calls
  PROVE  Ledger!RowsOf(c) # {} <=> svc[c] \in Filed
BY DEF Ledger!RowsOf, IInv, LedgerInv, TypeOK, Row, RowOf

(* The service's answer confirms the row it filed.                         *)
LEMMA ReturnConfirms ==
  ASSUME IInv, NEW c \in Calls, ToolReturns(c)
  PROVE  Ledger!Confirm(c)
<1>1. /\ svc[c] = "stored"
      /\ svc' = [svc EXCEPT ![c] = "created"]
      /\ UNCHANGED <<payload, ledger>>
  BY DEF ToolReturns, request
<1>2. Ledger!RowsOf(c) # {}
  BY <1>1, RowsOfCalls DEF Filed
<1>3. outcome' = [outcome EXCEPT ![c] = "created"] /\ outcome[c] = "pending"
  BY <1>1 DEF outcome, OutcomeOf, IInv, TypeOK
<1>4. [d \in Calls |-> BodyOf(d)]' = [d \in Calls |-> BodyOf(d)]
  BY <1>1 DEF BodyOf
<1> QED
  BY <1>1, <1>2, <1>3, <1>4 DEF Ledger!Confirm

(* The 403 refuses an unapproved call that has no row.                     *)
LEMMA RejectRefuses ==
  ASSUME IInv, NEW c \in Calls, ToolRejected(c)
  PROVE  Ledger!Refuse(c)
<1>1. /\ svc[c] = "sent"
      /\ ~payload[c].approved
      /\ svc' = [svc EXCEPT ![c] = "refused"]
      /\ UNCHANGED <<payload, ledger>>
  BY DEF ToolRejected, request
<1>2. Ledger!RowsOf(c) = {}
  BY <1>1, RowsOfCalls DEF Filed
<1>3. outcome' = [outcome EXCEPT ![c] = "refused"] /\ outcome[c] = "pending"
  BY <1>1 DEF outcome, OutcomeOf, IInv, TypeOK
<1>4. [d \in Calls |-> BodyOf(d)]' = [d \in Calls |-> BodyOf(d)]
  BY <1>1 DEF BodyOf
<1>5. ~BodyOf(c).approved
  BY <1>1 DEF BodyOf
<1> QED
  BY <1>1, <1>2, <1>3, <1>4, <1>5 DEF Ledger!Refuse

(* The service files a row nobody else has.                                *)
LEMMA PersistRecords ==
  ASSUME IInv, NEW c \in Calls, Persist(c)
  PROVE  Ledger!Record(c)
<1> USE FlowAssumption
<1>1. /\ svc[c] = "sent"
      /\ payload[c].approved
      /\ svc' = [svc EXCEPT ![c] = "stored"]
      /\ ledger' = ledger \cup {[id |-> offset + 1, request |-> c,
                                 incident |-> TicketOf(payload[c].incident)]}
      /\ UNCHANGED payload
  BY DEF Persist, request
<1>2. Ledger!RowsOf(c) = {}
  BY <1>1, RowsOfCalls DEF Filed
<1>3. outcome' = outcome /\ outcome[c] = "pending"
  BY <1>1 DEF outcome, OutcomeOf, IInv, TypeOK
<1>4. [d \in Calls |-> BodyOf(d)]' = [d \in Calls |-> BodyOf(d)]
  BY <1>1 DEF BodyOf
<1>5. payload[c] \in Payload /\ payload[c] # None
  BY <1>1 DEF IInv, TypeOK, StartInv, HopInv
<1>6. BodyOf(c).approved /\ BodyOf(c).incident = TicketOf(payload[c].incident)
  BY <1>1, <1>5 DEF BodyOf
<1>7. \A old \in ledger : old.id # offset + 1
  <2> SUFFICES ASSUME NEW old \in ledger PROVE old.id # offset + 1
    OBVIOUS
  <2>1. old.request \in Calls /\ old = RowOf(old.request) /\ svc[old.request] \in Filed
    BY DEF IInv, LedgerInv, TypeOK, Row
  <2>2. id[old.request] \in 1..offset /\ offset \in Nat
    BY <2>1 DEF IInv, LedgerInv, TypeOK
  <2>3. old.id = id[old.request]
    BY <2>1 DEF RowOf
  <2> QED
    BY <2>2, <2>3
<1>8. offset + 1 # NoId
  BY DEF IInv, TypeOK, NoId
<1> QED
  BY <1>1, <1>2, <1>3, <1>4, <1>6, <1>7, <1>8 DEF Ledger!Record

(* A restart of the service is the wipe of the ledger.                     *)
LEMMA RestartWipes ==
  ASSUME IInv, ServiceRestarts
  PROVE  Ledger!Wipe
<1> DEFINE gone == {c \in Calls : svc[c] = "stored"}
<1>1. /\ ledger' = {}
      /\ svc' = [c \in Calls |-> IF svc[c] \in {"stored", "created"} THEN "lost" ELSE svc[c]]
      /\ UNCHANGED payload
  BY DEF ServiceRestarts, request
<1>2. [d \in Calls |-> BodyOf(d)]' = [d \in Calls |-> BodyOf(d)]
  BY <1>1 DEF BodyOf
<1>3. gone \in SUBSET {c \in Calls : outcome[c] = "pending"}
  BY DEF outcome, OutcomeOf
<1>4. {c \in Calls : Ledger!RowsOf(c) # {} /\ outcome[c] = "pending"} \subseteq gone
  BY RowsOfCalls DEF outcome, OutcomeOf, Filed
<1>5. outcome' = [c \in Calls |-> IF c \in gone \/ outcome[c] = "created"
                                   THEN "lost" ELSE outcome[c]]
  BY <1>1 DEF outcome, OutcomeOf, IInv, TypeOK
<1> HIDE DEF gone
<1> QED
  BY <1>1, <1>2, <1>3, <1>4, <1>5 DEF Ledger!Wipe

(* Every step of the path is a step of the ledger or leaves it alone.      *)
LEMMA StepLedger ==
  ASSUME IInv, [Next]_vars
  PROVE  [Ledger!Next]_<<ledger, outcome>>
<1>1. ASSUME NEW c \in Calls, Begin(c) \/ CallEnds(c)
      PROVE  UNCHANGED <<ledger, outcome>>
  BY <1>1, OutcomeKept
  DEF Begin, Approve, ChatPlansCreate, CallEnds, ChatEnds, CreateReturns, CreateRaises,
      CreateInterrupted, service
<1>2. ASSUME NEW c \in Calls, BackendReplies(c) \/ BackendSwallows(c) \/ ToolGivesUp(c)
      PROVE  UNCHANGED <<ledger, outcome>>
  BY <1>2, OutcomeKept DEF BackendReplies, BackendSwallows, ToolGivesUp, service
<1>3. ASSUME NEW c \in Calls, BackendCalls(c)
      PROVE  UNCHANGED <<ledger, outcome>>
  <2>1. svc[c] = "idle"
    BY <1>3 DEF BackendCalls, IInv, HopInv
  <2> QED
    BY <1>3, <2>1 DEF BackendCalls, outcome, OutcomeOf, IInv, TypeOK
<1>4. ASSUME NEW c \in Calls, ToolReturns(c) \/ ToolRejected(c) \/ Persist(c)
      PROVE  Ledger!Next
  BY <1>4, ReturnConfirms, RejectRefuses, PersistRecords DEF Ledger!Next
<1>5. CASE ServiceRestarts
  BY <1>5, RestartWipes DEF Ledger!Next
<1>6. CASE UNCHANGED vars
  BY <1>6, OutcomeKept DEF vars, service
<1> QED
  BY <1>1, <1>2, <1>3, <1>4, <1>5, <1>6 DEF Next, Hop, Leave

(* What the ticket service does for the path is what TicketLedger allows:  *)
(* a fresh row for an approved request, an answer after its row, a refusal *)
(* without one, and the loss of everything in a restart.                   *)
THEOREM PathFollowsLedger == Spec => ServiceFollowsLedger
<1>1. IInv /\ [Next]_vars => [Ledger!Next]_<<ledger, outcome>>
  BY StepLedger
<1> QED
  BY Inductive, <1>1, PTL DEF Spec, ServiceFollowsLedger
=============================================================================
