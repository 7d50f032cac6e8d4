---------------------------- MODULE TicketLedger ----------------------------
(***************************************************************************)
(* What POST /tickets/draft of the ticket service promises, with the       *)
(* ticket table and the audit list seen as ONE ledger.  A row stands for a *)
(* ticket together with the proof that its creation was sanctioned; it     *)
(* appears in one step, for an approved request, under an id no other      *)
(* ticket has.  A caller that is told "created" can rely on its row for as *)
(* long as the process lives.  TicketStore is shown to implement this.     *)
(***************************************************************************)
CONSTANTS Requests,     \* the POST /tickets/draft calls the service receives
          SeedIds       \* ids of the tickets every process starts with

VARIABLES body,         \* what each request carries; never changes
          ledger,       \* the set of sanctioned tickets
          outcome       \* what each caller knows of its request

vars == <<body, ledger, outcome>>

Outcome == {"pending", "created", "refused", "lost"}

RowsOf(r) == {row \in ledger : row.request = r}

Init ==
  /\ ledger = {}
  /\ outcome = [r \in Requests |-> "pending"]

(* The one atomic effect: a fresh row.  The id is whatever the next state  *)
(* holds, so the action judges a step rather than generating one.          *)
Record(r) ==
  /\ outcome[r] = "pending"
  /\ body[r].approved
  /\ RowsOf(r) = {}
  /\ \E row \in ledger' :
       /\ row.request = r
       /\ row.incident = body[r].incident
       /\ row.id \notin SeedIds
       /\ \A old \in ledger : old.id # row.id
       /\ ledger' = ledger \cup {row}
  /\ UNCHANGED <<body, outcome>>

Confirm(r) ==
  /\ outcome[r] = "pending"
  /\ RowsOf(r) # {}
  /\ outcome' = [outcome EXCEPT ![r] = "created"]
  /\ UNCHANGED <<body, ledger>>

(* Refused: no approval, or a payload no ticket can be built from.         *)
Refuse(r) ==
  /\ outcome[r] = "pending"
  /\ ~body[r].approved \/ ~body[r].wellTyped
  /\ RowsOf(r) = {}
  /\ outcome' = [outcome EXCEPT ![r] = "refused"]
  /\ UNCHANGED <<body, ledger>>

(* The process dies: the ledger is volatile, callers lose their answers,   *)
(* and those already answered lose what they were told of.                 *)
Wipe ==
  /\ ledger' = {}
  /\ \E gone \in SUBSET {r \in Requests : outcome[r] = "pending"} :
       /\ {r \in Requests : RowsOf(r) # {} /\ outcome[r] = "pending"} \subseteq gone
       /\ outcome' = [r \in Requests |->
                        IF r \in gone \/ outcome[r] = "created"
                          THEN "lost" ELSE outcome[r]]
  /\ UNCHANGED body

Next ==
  \/ \E r \in Requests : Record(r) \/ Confirm(r) \/ Refuse(r)
  \/ Wipe

Spec == Init /\ [][Next]_vars
=============================================================================
