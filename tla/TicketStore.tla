----------------------------- MODULE TicketStore -----------------------------
(***************************************************************************)
(* The ticket service, connectors/ticket_mock: its in-memory TicketStore   *)
(* and the handlers of POST /tickets/draft.  The handlers are plain `def`  *)
(* functions, so FastAPI runs them on a thread pool: they interleave       *)
(* wherever the store's lock is not held.  Each store method is a critical *)
(* section of its own; the handler that calls next_id, create and          *)
(* append_audit one after the other is not.                                *)
(*                                                                         *)
(* A ticket id "TKT-n" is the number n.  The uuid and the timestamp a      *)
(* handler draws are identified with the request that draws them.          *)
(***************************************************************************)
EXTENDS Integers, Sequences, FiniteSets

CONSTANTS Requests,     \* the POST /tickets/draft calls the service receives
          Incidents,    \* incident ids the payloads carry
          SeedIds,      \* numbers of the seeded tickets
          FirstOffset,  \* where the id counter starts
          NoThread,     \* the lock is free
          MaxRestarts,  \* bound: how often the process dies
          MaxLimit      \* the largest ?limit= the audit endpoint accepts

ASSUME StoreAssumption ==
  /\ NoThread \notin Requests
  /\ FirstOffset \in Nat
  /\ SeedIds \subseteq 0..FirstOffset
  /\ MaxRestarts \in Nat
  /\ MaxLimit \in Nat \ {0}

VARIABLES tickets,      \* TicketStore._tickets: id -> ticket
          offset,       \* TicketStore._next_id_offset
          audit,        \* TicketStore._audit
          lock,         \* who holds TicketStore._lock
          pc,           \* where each handler stands
          tid,          \* the handler's local ticket_id (0: not allocated)
          body,         \* the request body of each handler
          restarts      \* how often the process has been restarted

store == <<tickets, offset, audit, lock>>
vars  == <<tickets, offset, audit, lock, pc, tid, body, restarts>>

-----------------------------------------------------------------------------
(* TicketDraftRequest.  wellTyped: asset_id, site and id of the incident   *)
(* are strings or absent, so that Ticket(...) can be built from it.        *)
Body == [incident : Incidents, approved : BOOLEAN, wellTyped : BOOLEAN]

Seeded == [seeded |-> TRUE]

(* A ticket a handler builds: its incident id and its created_at.          *)
TicketOf(r) == [seeded |-> FALSE, incident |-> body[r].incident, created_at |-> r]

(* The audit row of the same handler: approved_at is the ticket's          *)
(* created_at, both the handler's `now`.                                   *)
RowOf(r) == [ticket_id |-> tid[r], request_id |-> r, approved_at |-> r,
             incident |-> body[r].incident]

SeedTickets == [i \in SeedIds |-> Seeded]

Status == {"arrived", "incremented", "allocated", "stored", "audited",
           "answered", "rejected", "failed", "lost", "outlived"}

(* Inside the handler, past the approval gate, the answer not yet out.     *)
Running == {"incremented", "allocated", "stored", "audited"}

Step(r, from, to) ==
  /\ pc[r] = from
  /\ pc' = [pc EXCEPT ![r] = to]

-----------------------------------------------------------------------------
Init ==
  /\ tickets = SeedTickets
  /\ offset = FirstOffset
  /\ audit = <<>>
  /\ lock = NoThread
  /\ pc = [r \in Requests |-> "arrived"]
  /\ tid = [r \in Requests |-> 0]
  /\ body \in [Requests -> Body]
  /\ restarts = 0

(* Fail closed: without approval a 403 and no effect.                      *)
Reject(r) ==
  /\ ~body[r].approved
  /\ Step(r, "arrived", "rejected")
  /\ UNCHANGED <<store, tid, body, restarts>>

(* Mutant: the approval gate is dropped.                                   *)
IncrementUngated(r) ==
  /\ lock = NoThread
  /\ Step(r, "arrived", "incremented")
  /\ lock' = r
  /\ offset' = offset + 1
  /\ UNCHANGED <<tickets, audit, tid, body, restarts>>

(* Mutant: next_id without `with self._lock`.                              *)
IncrementUnlocked(r) ==
  /\ body[r].approved
  /\ Step(r, "arrived", "incremented")
  /\ offset' = offset + 1
  /\ UNCHANGED <<tickets, audit, lock, tid, body, restarts>>

(* next_id, the write: takes the lock and bumps the counter.               *)
IncrementOffset(r) ==
  /\ body[r].approved
  /\ lock = NoThread
  /\ Step(r, "arrived", "incremented")
  /\ lock' = r
  /\ offset' = offset + 1
  /\ UNCHANGED <<tickets, audit, tid, body, restarts>>

(* Mutant: the id comes from the size of the table, not from the counter.  *)
ReturnTableSize(r) ==
  /\ Step(r, "incremented", "allocated")
  /\ tid' = [tid EXCEPT ![r] =
               FirstOffset + 1 + Cardinality(DOMAIN tickets \ SeedIds)]
  /\ lock' = NoThread
  /\ UNCHANGED <<tickets, offset, audit, body, restarts>>

(* Mutant: the id is formatted one ahead of the counter.                   *)
ReturnNext(r) ==
  /\ Step(r, "incremented", "allocated")
  /\ tid' = [tid EXCEPT ![r] = offset + 1]
  /\ lock' = NoThread
  /\ UNCHANGED <<tickets, offset, audit, body, restarts>>

(* next_id, the read back: formats the counter and releases the lock.      *)
ReturnId(r) ==
  /\ Step(r, "incremented", "allocated")
  /\ tid' = [tid EXCEPT ![r] = offset]
  /\ lock' = NoThread
  /\ UNCHANGED <<tickets, offset, audit, body, restarts>>

(* Mutant: the validation error is swallowed and the draft tried again.    *)
RetryValidation(r) ==
  /\ ~body[r].wellTyped
  /\ Step(r, "allocated", "allocated")
  /\ UNCHANGED <<store, tid, body, restarts>>

(* Ticket(...) raises pydantic's ValidationError: a 500, the id is burned. *)
FailValidation(r) ==
  /\ ~body[r].wellTyped
  /\ Step(r, "allocated", "failed")
  /\ UNCHANGED <<store, tid, body, restarts>>

(* create: one dict assignment under the lock, overwriting what is there.  *)
Create(r) ==
  /\ body[r].wellTyped
  /\ lock = NoThread
  /\ Step(r, "allocated", "stored")
  /\ tickets' = [i \in DOMAIN tickets \cup {tid[r]} |->
                   IF i = tid[r] THEN TicketOf(r) ELSE tickets[i]]
  /\ UNCHANGED <<offset, audit, lock, tid, body, restarts>>

(* Mutant: one audit row per incident is thought to be enough.             *)
AuditOncePerIncident(r) ==
  /\ lock = NoThread
  /\ Step(r, "stored", "audited")
  /\ audit' = IF \E i \in DOMAIN audit : audit[i].incident = body[r].incident
                THEN audit ELSE Append(audit, RowOf(r))
  /\ UNCHANGED <<tickets, offset, lock, tid, body, restarts>>

(* Mutant: the newest row goes first.                                      *)
PrependAudit(r) ==
  /\ lock = NoThread
  /\ Step(r, "stored", "audited")
  /\ audit' = <<RowOf(r)>> \o audit
  /\ UNCHANGED <<tickets, offset, lock, tid, body, restarts>>

(* append_audit: one list append under the lock.                           *)
AppendAudit(r) ==
  /\ lock = NoThread
  /\ Step(r, "stored", "audited")
  /\ audit' = Append(audit, RowOf(r))
  /\ UNCHANGED <<tickets, offset, lock, tid, body, restarts>>

(* Mutant: the answer is sent first, the audit row is left to a later task. *)
AnswerEarly(r) ==
  /\ Step(r, "stored", "answered")
  /\ UNCHANGED <<store, tid, body, restarts>>

(* The 200 with ticket_id, preview=False and the approval block.           *)
Answer(r) ==
  /\ Step(r, "audited", "answered")
  /\ UNCHANGED <<store, tid, body, restarts>>

(* The process dies anywhere and a new one starts from the seed.  Handlers *)
(* that run die with it; ids told to callers are outlived.                 *)
Restart ==
  /\ restarts < MaxRestarts
  /\ restarts' = restarts + 1
  /\ tickets' = SeedTickets
  /\ offset' = FirstOffset
  /\ audit' = <<>>
  /\ lock' = NoThread
  /\ pc' = [r \in Requests |->
              IF pc[r] \in Running THEN "lost"
              ELSE IF pc[r] = "answered" THEN "outlived"
              ELSE pc[r]]
  /\ UNCHANGED <<tid, body>>

(* Nothing left to handle: the service waits.                              *)
Quiesced ==
  /\ \A r \in Requests : pc[r] \notin Running \cup {"arrived"}
  /\ UNCHANGED vars

Handle(r) ==
  \/ Reject(r)
  \/ IncrementOffset(r)
  \/ ReturnId(r)
  \/ FailValidation(r)
  \/ Create(r)
  \/ AppendAudit(r)
  \/ Answer(r)

Next ==
  \/ \E r \in Requests : Handle(r)
  \/ Restart
  \/ Quiesced

Spec == Init /\ [][Next]_vars

(* Threads are scheduled by the operating system: one that can take its    *)
(* next step eventually does.  Nothing forces a restart.                   *)
Fairness == \A r \in Requests : WF_vars(Handle(r))

FairSpec == Spec /\ Fairness

-----------------------------------------------------------------------------
(* GET /tickets/audit?limit=n: the first n rows, with the full count.      *)
AuditPage(limit) ==
  [items |-> SubSeq(audit, 1, IF limit < Len(audit) THEN limit ELSE Len(audit)),
   total |-> Len(audit)]

-----------------------------------------------------------------------------
(* Properties.                                                             *)

HasTicket == {"stored", "audited", "answered"}
HasRow    == {"audited", "answered"}

Ticket == {Seeded} \cup
          [seeded : {FALSE}, incident : Incidents, created_at : Requests]

AuditEntry == [ticket_id : Nat, request_id : Requests, approved_at : Requests,
               incident : Incidents]

(* Every variable has its type; the seed is always there, and no id is     *)
(* beyond the counter that allocates them.                                 *)
TypeOK ==
  /\ tickets \in [DOMAIN tickets -> Ticket]
  /\ SeedIds \subseteq DOMAIN tickets
  /\ offset \in Nat
  /\ offset >= FirstOffset
  /\ DOMAIN tickets \subseteq 0..offset
  /\ audit \in Seq(AuditEntry)
  /\ lock \in Requests \cup {NoThread}
  /\ pc \in [Requests -> Status]
  /\ tid \in [Requests -> Nat]
  /\ body \in [Requests -> Body]
  /\ restarts \in 0..MaxRestarts

(* Whatever handlers interleave and whenever the process dies: a row of    *)
(* the audit list names a ticket that is in the table, made from the same  *)
(* incident at the time the row calls approved_at, and no two rows name    *)
(* one ticket.                                                             *)
AuditIntegrity ==
  /\ \A i \in DOMAIN audit :
        /\ audit[i].ticket_id \in DOMAIN tickets \ SeedIds
        /\ LET t == tickets[audit[i].ticket_id]
           IN  /\ t.incident = audit[i].incident
               /\ t.created_at = audit[i].approved_at
  /\ \A i, j \in DOMAIN audit :
        audit[i].ticket_id = audit[j].ticket_id => i = j

(* A ticket without an audit row belongs to a handler between create and   *)
(* append_audit: no handler leaves one behind, so a service with no        *)
(* request in flight shows exactly one row for each ticket it created.     *)
NoOrphanTicket ==
  \A id \in DOMAIN tickets \ SeedIds :
    \/ \E i \in DOMAIN audit : audit[i].ticket_id = id
    \/ \E r \in Requests : pc[r] = "stored" /\ tid[r] = id

(* A caller that was answered 200 finds, until the process dies, its       *)
(* ticket under the id it was told and the row that sanctions it.          *)
AnswerIsBacked ==
  \A r \in Requests : pc[r] = "answered" =>
    /\ tid[r] \in DOMAIN tickets
    /\ tickets[tid[r]] = TicketOf(r)
    /\ \E i \in DOMAIN audit : audit[i] = RowOf(r)

(* create assigns into a dict; it never lands on a ticket that is there.   *)
(* Only the death of the process takes a ticket away.                      *)
NeverOverwritten ==
  [][ restarts' = restarts =>
        \A id \in DOMAIN tickets :
          id \in DOMAIN tickets' /\ tickets'[id] = tickets[id] ]_vars

(* A reader that fetches the same page of GET /tickets/audit twice sees    *)
(* the rows of the first answer again, at the same places, before any new  *)
(* one: rows are never dropped, moved or rewritten while the process lives. *)
AuditPagesGrow ==
  [][ restarts' = restarts =>
        \A limit \in 1..MaxLimit :
          \A i \in DOMAIN AuditPage(limit).items :
            /\ i \in DOMAIN AuditPage(limit).items'
            /\ AuditPage(limit).items'[i] = AuditPage(limit).items[i] ]_vars

(* Every request the service takes up ends: answered, refused, or lost in  *)
(* a restart; no handler waits for the lock for ever.                      *)
EveryRequestEnds ==
  \A r \in Requests : <>(pc[r] \notin Running \cup {"arrived"})

(* The doc of list_audit says its limit parameter lets a reader page       *)
(* through the log: then every row is on some page.                        *)
EveryRowOnSomePage ==
  \A i \in DOMAIN audit : \E limit \in 1..MaxLimit :
    i \in DOMAIN AuditPage(limit).items

-----------------------------------------------------------------------------
(* The service implements the atomic ledger.  A row enters the ledger when *)
(* append_audit runs; its incident is read from the ticket, so the mapping *)
(* holds only if the ticket of every audited id stays what it was.         *)
LedgerRows ==
  {[id       |-> audit[i].ticket_id,
    request  |-> audit[i].request_id,
    incident |-> tickets[audit[i].ticket_id].incident] : i \in DOMAIN audit}

OutcomeOf(status) ==
  CASE status = "answered"               -> "created"
    [] status \in {"rejected", "failed"} -> "refused"
    [] status \in {"lost", "outlived"}   -> "lost"
    [] OTHER                             -> "pending"

Ledger == INSTANCE TicketLedger
            WITH ledger <- LedgerRows, outcome <- [r \in Requests |-> OutcomeOf(pc[r])]

(* Two tables and three separate critical sections behave as one atomic   *)
(* ledger: no caller, and no reader of the joined tables, can tell.        *)
ImplementsLedger == Ledger!Spec
=============================================================================
