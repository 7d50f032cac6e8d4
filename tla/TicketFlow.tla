----------------------------- MODULE TicketFlow -----------------------------
(***************************************************************************)
(* The create path end to end: TicketClient.create of the GUI, the         *)
(* backend's POST /tickets/draft, the ticketing MCP server's               *)
(* create_ticket_draft tool and POST /tickets/draft of the ticket service. *)
(* Every hop is a blocking call whose caller may give up while the callee  *)
(* goes on, and no hop carries an idempotency key.                         *)
(*                                                                         *)
(* A call is one run of the chain's CREATE_TICKET_DRAFT step: from an      *)
(* Approve click, or from a /chat plan of the LLM planner that holds such  *)
(* a step.  GuiSession models how the operator comes to click; here a      *)
(* click is an action.  A process of the backend or of the MCP server that *)
(* dies is one that takes no further step.  The ticket service is seen as  *)
(* the atomic ledger TicketStore implements.                               *)
(***************************************************************************)
EXTENDS Integers, FiniteSets

CONSTANTS Incidents,    \* incidents, each with all the text it carries
          Assignees,    \* what an operator types into the assignee field
          None,         \* Python's None
          MaxCalls,     \* bound: runs of the CREATE_TICKET_DRAFT step
          MaxRestarts   \* bound: restarts of the ticket service

(* What goes over the wire: the incident with the operator's edits merged  *)
(* in, and the approval flag.                                              *)
Merged  == [incident : Incidents, assignee : Assignees \cup {None}]
Payload == [incident : Merged, approved : BOOLEAN]

ASSUME FlowAssumption ==
  /\ None \notin Incidents \cup Assignees \cup Payload
  /\ MaxCalls \in Nat
  /\ MaxRestarts \in Nat

Calls == 1..MaxCalls
NoCall == 0
NoId == 0

VARIABLES
  busy,      \* the call the GUI's script is blocked in
  result,    \* st.session_state["ticket_result"]
  origin,    \* who started each call
  payload,   \* the arguments of each call
  back,      \* each call at the backend
  reply,     \* the ticket_id in the backend's answer
  tool,      \* each call at the ticketing MCP server
  svc,       \* each call at the ticket service
  id,        \* the id the ticket service allocated
  ledger,    \* its tickets, each with its audit row
  offset,    \* its id counter
  restarts   \* how often it has been restarted

gui     == <<busy, result>>
request == <<origin, payload>>
service == <<svc, id, ledger, offset, restarts>>
vars    == <<gui, request, back, reply, tool, service>>

-----------------------------------------------------------------------------
(* Ticket(...) keeps title, body and severity of build_draft and the       *)
(* incident's id, site and asset: everything but the assignee.             *)
Ticket == [incident : Incidents]

(* Mutant: the ticket is built from all the fields of the request.         *)
TicketWhole(merged) == merged

TicketOf(merged) == [incident |-> merged.incident]

Used == {c \in Calls : origin[c] # "none"}

(* The next call, blocking the script that makes it.                       *)
StartCall(c, from, p, stage) ==
  /\ c = Cardinality(Used) + 1
  /\ busy = NoCall
  /\ busy'    = c
  /\ origin'  = [origin EXCEPT ![c] = from]
  /\ payload' = [payload EXCEPT ![c] = p]
  /\ back'    = [back EXCEPT ![c] = stage]

-----------------------------------------------------------------------------
Init ==
  /\ busy = NoCall
  /\ result = None
  /\ origin  = [c \in Calls |-> "none"]
  /\ payload = [c \in Calls |-> None]
  /\ back    = [c \in Calls |-> "idle"]
  /\ reply   = [c \in Calls |-> NoId]
  /\ tool    = [c \in Calls |-> "idle"]
  /\ svc     = [c \in Calls |-> "idle"]
  /\ id      = [c \in Calls |-> NoId]
  /\ ledger = {}
  /\ offset = 0
  /\ restarts = 0

-----------------------------------------------------------------------------
(* "Approve & create": TicketClient.create, always with approved=True.     *)
Approve(c, merged) ==
  /\ StartCall(c, "approve", [incident |-> merged, approved |-> TRUE], "sent")
  /\ UNCHANGED <<result, reply, tool, service>>

(* A chat turn the LLM plans with a create step.  Its arguments, the       *)
(* approved flag among them, are what the LLM wrote: the chain passes them *)
(* on as they are.                                                         *)
ChatPlansCreate(c, merged, approved) ==
  /\ StartCall(c, "plan", [incident |-> merged, approved |-> approved], "sent")
  /\ UNCHANGED <<result, reply, tool, service>>

(* The chat answer, or its ChatError: neither touches ticket_result.       *)
ChatEnds(c) ==
  /\ busy = c
  /\ origin[c] = "plan"
  /\ busy' = NoCall
  /\ UNCHANGED <<result, request, back, reply, tool, service>>

(* create returned: the id, or none, goes to the panel.                    *)
CreateReturns(c) ==
  /\ busy = c
  /\ origin[c] = "approve"
  /\ back[c] = "replied"
  /\ busy' = NoCall
  /\ result' = [call |-> c, error |-> FALSE, ticket_id |-> reply[c]]
  /\ UNCHANGED <<request, back, reply, tool, service>>

(* create raised TicketError: no connection, the 30 s timeout, an answer   *)
(* that was lost.                                                          *)
CreateRaises(c) ==
  /\ busy = c
  /\ origin[c] = "approve"
  /\ busy' = NoCall
  /\ result' = [call |-> c, error |-> TRUE, ticket_id |-> NoId]
  /\ UNCHANGED <<request, back, reply, tool, service>>

(* The script was stopped by another click before it could write either.   *)
CreateInterrupted(c) ==
  /\ busy = c
  /\ origin[c] = "approve"
  /\ busy' = NoCall
  /\ UNCHANGED <<result, request, back, reply, tool, service>>

-----------------------------------------------------------------------------
(* The backend.  A request may reach it, and the POST of the MCP server it *)
(* calls may reach the ticket service, after the caller gave up.           *)
BackendCalls(c) ==
  /\ back[c] = "sent"
  /\ back' = [back EXCEPT ![c] = "waiting"]
  /\ tool' = [tool EXCEPT ![c] = "waiting"]
  /\ svc' = [svc EXCEPT ![c] = "sent"]
  /\ UNCHANGED <<gui, request, reply, id, ledger, offset, restarts>>

(* Mutant: the answer names the newest ticket of the service.              *)
BackendRepliesNewest(c) ==
  /\ back[c] = "waiting"
  /\ tool[c] = "ok"
  /\ back' = [back EXCEPT ![c] = "replied"]
  /\ reply' = [reply EXCEPT ![c] = offset]
  /\ UNCHANGED <<gui, request, tool, service>>

(* The chain's output of the step is the answer: its ticket_id.            *)
BackendReplies(c) ==
  /\ back[c] = "waiting"
  /\ tool[c] = "ok"
  /\ back' = [back EXCEPT ![c] = "replied"]
  /\ reply' = [reply EXCEPT ![c] = id[c]]
  /\ UNCHANGED <<gui, request, tool, service>>

(* is_error of the tool, or any failure of the MCP call at any moment:     *)
(* _call_mcp swallows it, and the answer is a 200 without a ticket_id.     *)
BackendSwallows(c) ==
  /\ back[c] = "waiting"
  /\ back' = [back EXCEPT ![c] = "replied"]
  /\ UNCHANGED <<gui, request, reply, tool, service>>

-----------------------------------------------------------------------------
(* The ticketing MCP server: one POST, five seconds, no retry.  It returns *)
(* the 200 of the ticket service.                                          *)
ToolReturns(c) ==
  /\ tool[c] = "waiting"
  /\ svc[c] = "stored"
  /\ tool' = [tool EXCEPT ![c] = "ok"]
  /\ svc' = [svc EXCEPT ![c] = "created"]
  /\ UNCHANGED <<gui, request, back, reply, id, ledger, offset, restarts>>

(* The 403 approval_required of the ticket service.                        *)
ToolRejected(c) ==
  /\ tool[c] = "waiting"
  /\ svc[c] = "sent"
  /\ ~payload[c].approved
  /\ tool' = [tool EXCEPT ![c] = "error"]
  /\ svc' = [svc EXCEPT ![c] = "refused"]
  /\ UNCHANGED <<gui, request, back, reply, id, ledger, offset, restarts>>

(* Mutant: a failed POST is sent again, the second layer of retry          *)
(* docs/api-integration.md:69 speaks of.                                   *)
ToolRetries(c) ==
  /\ tool[c] = "waiting"
  /\ svc' = [svc EXCEPT ![c] = "sent"]
  /\ UNCHANGED <<gui, request, back, reply, tool, id, ledger, offset, restarts>>

(* httpx.HTTPError: no connection, an error status, a timeout, an answer   *)
(* that was lost.                                                          *)
ToolGivesUp(c) ==
  /\ tool[c] = "waiting"
  /\ tool' = [tool EXCEPT ![c] = "error"]
  /\ UNCHANGED <<gui, request, back, reply, service>>

-----------------------------------------------------------------------------
(* Mutant: the service hands out an id and never stores the ticket.        *)
PersistNothing(c) ==
  /\ svc[c] = "sent"
  /\ payload[c].approved
  /\ svc' = [svc EXCEPT ![c] = "stored"]
  /\ offset' = offset + 1
  /\ id' = [id EXCEPT ![c] = offset + 1]
  /\ UNCHANGED <<gui, request, back, reply, tool, ledger, restarts>>

(* The ticket service files the ticket, whether or not anyone waits.       *)
Persist(c) ==
  /\ svc[c] = "sent"
  /\ payload[c].approved
  /\ svc' = [svc EXCEPT ![c] = "stored"]
  /\ offset' = offset + 1
  /\ id' = [id EXCEPT ![c] = offset + 1]
  /\ ledger' = ledger \cup {[id |-> offset + 1, request |-> c,
                             incident |-> TicketOf(payload[c].incident)]}
  /\ UNCHANGED <<gui, request, back, reply, tool, restarts>>

(* The process dies; the store and the id counter start over.              *)
ServiceRestarts ==
  /\ restarts < MaxRestarts
  /\ restarts' = restarts + 1
  /\ ledger' = {}
  /\ offset' = 0
  /\ svc' = [c \in Calls |-> IF svc[c] \in {"stored", "created"} THEN "lost" ELSE svc[c]]
  /\ UNCHANGED <<gui, request, back, reply, tool, id>>

-----------------------------------------------------------------------------
(* The operator does nothing more.                                         *)
Leave ==
  /\ busy = NoCall
  /\ UNCHANGED vars

Begin(c) ==
  \E merged \in Merged :
    \/ Approve(c, merged)
    \/ \E approved \in BOOLEAN : ChatPlansCreate(c, merged, approved)

CallEnds(c) ==
  ChatEnds(c) \/ CreateReturns(c) \/ CreateRaises(c) \/ CreateInterrupted(c)

Hop(c) ==
  \/ BackendCalls(c) \/ BackendReplies(c) \/ BackendSwallows(c)
  \/ ToolReturns(c) \/ ToolRejected(c) \/ ToolGivesUp(c)
  \/ Persist(c)

Next ==
  \/ \E c \in Calls : Begin(c) \/ CallEnds(c) \/ Hop(c)
  \/ ServiceRestarts
  \/ Leave

Spec == Init /\ [][Next]_vars

-----------------------------------------------------------------------------
(* Properties.                                                             *)

Row == [id : Nat \ {NoId}, request : Calls, incident : Ticket]

(* Every variable has its type.                                            *)
TypeOK ==
  /\ busy \in Calls \cup {NoCall}
  /\ result \in [call : Calls, error : BOOLEAN, ticket_id : Nat] \cup {None}
  /\ origin \in [Calls -> {"none", "approve", "plan"}]
  /\ payload \in [Calls -> Payload \cup {None}]
  /\ \A c \in Calls : origin[c] = "none" <=> payload[c] = None
  /\ back \in [Calls -> {"idle", "sent", "waiting", "replied"}]
  /\ reply \in [Calls -> Nat]
  /\ tool \in [Calls -> {"idle", "waiting", "ok", "error"}]
  /\ svc \in [Calls -> {"idle", "sent", "stored", "created", "refused", "lost"}]
  /\ id \in [Calls -> Nat]
  /\ ledger \subseteq Row
  /\ offset \in Nat
  /\ restarts \in 0..MaxRestarts

(* However the hops time out, one run of the create step files at most one *)
(* ticket: nothing on the path repeats a POST.                             *)
OneTicketPerCall ==
  \A row, other \in ledger : row.request = other.request => row = other

(* A ticket id in the "Ticket created" panel was allocated for the very    *)
(* click the panel answers, and until the ticket service restarts the      *)
(* ticket is there under that id, with what that click sent - whatever     *)
(* late calls the operator gave up on have filed in between.               *)
SuccessIsTrue ==
  result # None /\ result.ticket_id # NoId =>
    LET c == result.call
    IN  /\ svc[c] \in {"created", "lost"}
        /\ svc[c] = "created" =>
             [id |-> result.ticket_id, request |-> c,
              incident |-> TicketOf(payload[c].incident)] \in ledger

(* The path as the abstract ledger of the ticket service sees it.          *)
OutcomeOf(c) ==
  CASE svc[c] = "created" -> "created"
    [] svc[c] = "refused" -> "refused"
    [] svc[c] = "lost"    -> "lost"
    [] OTHER              -> "pending"

BodyOf(c) ==
  IF payload[c] = None
    THEN [incident |-> None, approved |-> FALSE, wellTyped |-> TRUE]
    ELSE [incident |-> TicketOf(payload[c].incident),
          approved |-> payload[c].approved, wellTyped |-> TRUE]

outcome == [c \in Calls |-> OutcomeOf(c)]

Ledger == INSTANCE TicketLedger
            WITH Requests <- Calls, SeedIds <- {NoId},
                 body <- [c \in Calls |-> BodyOf(c)], outcome <- outcome

(* Every step of the path that the ticket service notices is a step of the *)
(* ledger TicketStore implements: a fresh row for an approved request, a   *)
(* confirmation after its row, a refusal without one, or the loss of       *)
(* everything in a restart.                                                *)
ServiceFollowsLedger == [][Ledger!Next]_<<ledger, outcome>>

(* plan.py:108 says of a create step's approved flag that it is set only   *)
(* when the user has confirmed the create; so every ticket is the work of  *)
(* an Approve click.                                                       *)
OnlyConfirmedTickets ==
  \A row \in ledger : origin[row.request] = "approve"

(* docs/api-integration.md:241: a create the ticket service fails or       *)
(* rejects reaches the GUI as an error, the 502 ticket_mcp_error.          *)
FailedCreateIsAnError ==
  result # None /\ tool[result.call] = "error" => result.error

(* ui.py:779, on the approval modal: the ticket is persisted "with the     *)
(* fields above", of which the assignee is one whenever it was typed in.   *)
FieldsAboveAreFiled ==
  \A row \in ledger :
    payload[row.request].incident.assignee # None => "assignee" \in DOMAIN row.incident
=============================================================================
