-------------------------- MODULE TicketStoreProofs --------------------------
(***************************************************************************)
(* What TicketStore and the search on its table promise, for every number  *)
(* of requests, every seed and every number of restarts.                   *)
(***************************************************************************)
EXTENDS TicketSearch, RowsProofs

HasId == {"allocated", "stored", "audited", "answered"}

(* next_id is exclusive: the handler inside it holds the lock.             *)
LockInv == \A r \in Requests : pc[r] = "incremented" => lock = r

(* Only approved requests get past the gate.                               *)
GateInv ==
  \A r \in Requests : pc[r] \in {"incremented"} \cup HasId => body[r].approved

(* Ids handed out lie between the seed and the counter, and below the      *)
(* counter while a handler is inside next_id.                              *)
IdRange ==
  /\ \A r \in Requests : pc[r] \in HasId => tid[r] > FirstOffset /\ tid[r] <= offset
  /\ \A r \in Requests : pc[r] = "incremented" =>
       /\ offset > FirstOffset
       /\ \A s \in Requests : pc[s] \in HasId => tid[s] < offset

IdsDistinct ==
  \A r, s \in Requests :
    pc[r] \in HasId /\ pc[s] \in HasId /\ tid[r] = tid[s] => r = s

(* The table holds the seed and the tickets of the handlers past create.   *)
TableInv ==
  /\ \A r \in Requests : pc[r] = "allocated" => tid[r] \notin DOMAIN tickets
  /\ \A r \in Requests : pc[r] \in HasTicket =>
       tid[r] \in DOMAIN tickets /\ tickets[tid[r]] = TicketOf(r)
  /\ \A id \in DOMAIN tickets \ SeedIds :
       \E r \in Requests : pc[r] \in HasTicket /\ tid[r] = id

(* The audit list holds one row of each handler past append_audit.         *)
AuditInv ==
  /\ \A i \in DOMAIN audit :
       \E r \in Requests : pc[r] \in HasRow /\ audit[i] = RowOf(r)
  /\ \A i, j \in DOMAIN audit : audit[i].request_id = audit[j].request_id => i = j
  /\ \A r \in Requests : pc[r] \in HasRow => \E i \in DOMAIN audit : audit[i] = RowOf(r)

IInv == TypeOK /\ LockInv /\ GateInv /\ IdRange /\ IdsDistinct /\ TableInv /\ AuditInv

-----------------------------------------------------------------------------
LEMMA InitIInv == Init => IInv
<1> SUFFICES ASSUME Init PROVE IInv
  OBVIOUS
<1>1. TypeOK
  BY StoreAssumption
  DEF Init, TypeOK, SeedTickets, Ticket, AuditEntry, Status
<1>2. LockInv /\ GateInv /\ IdRange /\ IdsDistinct
  BY DEF Init, LockInv, GateInv, IdRange, IdsDistinct, HasId
<1>3. TableInv /\ AuditInv
  BY DEF Init, TableInv, AuditInv, SeedTickets, HasTicket, HasRow
<1> QED
  BY <1>1, <1>2, <1>3 DEF IInv

(* Each step keeps every variable in its type.                             *)
LEMMA TypeStep ==
  ASSUME IInv, [Next]_vars
  PROVE  TypeOK'
<1> USE StoreAssumption DEF IInv, TypeOK
<1>1. ASSUME NEW r \in Requests, Reject(r) PROVE TypeOK'
  BY <1>1 DEF Reject, Step, store, Status
<1>2. ASSUME NEW r \in Requests, IncrementOffset(r) PROVE TypeOK'
  BY <1>2 DEF IncrementOffset, Step, Status
<1>3. ASSUME NEW r \in Requests, ReturnId(r) PROVE TypeOK'
  BY <1>3 DEF ReturnId, Step, Status
<1>4. ASSUME NEW r \in Requests, FailValidation(r) PROVE TypeOK'
  BY <1>4 DEF FailValidation, Step, store, Status
<1>5. ASSUME NEW r \in Requests, Create(r) PROVE TypeOK'
  <2>1. TicketOf(r) \in Ticket
    BY DEF TicketOf, Ticket, Body
  <2>2. tid[r] \in 0..offset
    BY <1>5 DEF Create, Step, IdRange, HasId
  <2>3. tickets' \in [DOMAIN tickets' -> Ticket]
    BY <1>5, <2>1 DEF Create
  <2> QED
    BY <1>5, <2>2, <2>3 DEF Create, Step, Status
<1>6. ASSUME NEW r \in Requests, AppendAudit(r) PROVE TypeOK'
  <2>1. RowOf(r) \in AuditEntry
    BY DEF RowOf, AuditEntry, Body
  <2>2. audit' \in Seq(AuditEntry)
    BY <1>6, <2>1, AppendProperties DEF AppendAudit
  <2> QED
    BY <1>6, <2>2 DEF AppendAudit, Step, Status
<1>7. ASSUME NEW r \in Requests, Answer(r) PROVE TypeOK'
  BY <1>7 DEF Answer, Step, store, Status
<1>8. CASE Restart
  BY <1>8 DEF Restart, SeedTickets, Ticket, Status, Running
<1>9. CASE UNCHANGED vars
  BY <1>9 DEF vars
<1> QED
  BY <1>1, <1>2, <1>3, <1>4, <1>5, <1>6, <1>7, <1>8, <1>9
  DEF Next, Handle, Quiesced

(* Requests past the gate stay approved: the body never changes.           *)
LEMMA GateStep ==
  ASSUME IInv, [Next]_vars
  PROVE  GateInv'
<1> USE DEF IInv, TypeOK, GateInv, HasId
<1>1. ASSUME NEW r \in Requests, Handle(r) PROVE GateInv'
  BY <1>1
  DEF Handle, Reject, IncrementOffset, ReturnId, FailValidation, Create,
      AppendAudit, Answer, Step
<1>2. CASE Restart
  BY <1>2 DEF Restart, Running
<1>3. CASE UNCHANGED vars
  BY <1>3 DEF vars
<1> QED
  BY <1>1, <1>2, <1>3 DEF Next, Quiesced

(* Allocation of ids: only next_id and a restart touch lock and counter.   *)
LEMMA IdStep ==
  ASSUME IInv, [Next]_vars
  PROVE  (LockInv /\ IdRange /\ IdsDistinct)'
<1> USE StoreAssumption DEF IInv, TypeOK, LockInv, IdRange, IdsDistinct, HasId
<1> DEFINE Goal == (LockInv /\ IdRange /\ IdsDistinct)'
<1>1. ASSUME NEW r \in Requests, IncrementOffset(r) PROVE Goal
  BY <1>1 DEF IncrementOffset, Step
<1>2. ASSUME NEW r \in Requests, ReturnId(r) PROVE Goal
  <2>1. /\ lock = r
        /\ \A s \in Requests : pc[s] = "incremented" => s = r
        /\ offset > FirstOffset
        /\ \A s \in Requests : pc[s] \in HasId => tid[s] < offset
    BY <1>2 DEF ReturnId, Step
  <2>2. /\ tid' = [tid EXCEPT ![r] = offset]
        /\ pc' = [pc EXCEPT ![r] = "allocated"]
        /\ offset' = offset
    BY <1>2 DEF ReturnId, Step
  <2>3. LockInv' /\ IdRange'
    BY <2>1, <2>2
  <2>4. IdsDistinct'
    BY <2>1, <2>2
  <2> QED
    BY <2>3, <2>4
<1>3. ASSUME NEW r \in Requests,
             Reject(r) \/ FailValidation(r) \/ Create(r) \/ AppendAudit(r) \/ Answer(r)
      PROVE  Goal
  <2>1. /\ UNCHANGED <<tid, offset, lock>>
        /\ \A s \in Requests : pc'[s] \in HasId => pc[s] \in HasId
        /\ \A s \in Requests : pc'[s] = "incremented" => pc[s] = "incremented"
    BY <1>3 DEF Reject, FailValidation, Create, AppendAudit, Answer, Step, store
  <2> QED
    BY <2>1
<1>4. CASE Restart
  BY <1>4 DEF Restart, Running
<1>5. CASE UNCHANGED vars
  BY <1>5 DEF vars
<1> QED
  BY <1>1, <1>2, <1>3, <1>4, <1>5 DEF Next, Handle, Quiesced

(* The table: create lands on an id nobody else has.                       *)
LEMMA TableStep ==
  ASSUME IInv, [Next]_vars
  PROVE  TableInv'
<1> USE StoreAssumption DEF IInv, TypeOK, TableInv, HasTicket
<1>1. ASSUME NEW r \in Requests, IncrementOffset(r) PROVE TableInv'
  BY <1>1 DEF IncrementOffset, Step, TicketOf
<1>2. ASSUME NEW r \in Requests, ReturnId(r) PROVE TableInv'
  <2>1. /\ tid' = [tid EXCEPT ![r] = offset]
        /\ pc[r] = "incremented"
        /\ pc' = [pc EXCEPT ![r] = "allocated"]
        /\ UNCHANGED <<tickets, body>>
    BY <1>2 DEF ReturnId, Step
  <2>2. offset \notin DOMAIN tickets
    <3> SUFFICES ASSUME offset \in DOMAIN tickets PROVE FALSE
      OBVIOUS
    <3>1. offset \notin SeedIds
      BY <2>1 DEF IdRange
    <3>2. PICK s \in Requests : pc[s] \in HasTicket /\ tid[s] = offset
      BY <3>1
    <3> QED
      BY <3>2, <2>1 DEF IdRange, HasId
  <2>3. \A s \in Requests : pc'[s] \in HasTicket => s # r /\ pc[s] \in HasTicket
    BY <2>1
  <2>4. \A s \in Requests : pc[s] \in HasTicket => s # r /\ pc'[s] \in HasTicket
    BY <2>1
  <2> QED
    BY <2>1, <2>2, <2>3, <2>4 DEF TicketOf
<1>3. ASSUME NEW r \in Requests, Create(r) PROVE TableInv'
  <2>1. /\ pc[r] = "allocated"
        /\ pc' = [pc EXCEPT ![r] = "stored"]
        /\ tickets' = [i \in DOMAIN tickets \cup {tid[r]} |->
                         IF i = tid[r] THEN TicketOf(r) ELSE tickets[i]]
        /\ UNCHANGED <<tid, body>>
    BY <1>3 DEF Create, Step
  <2>2. \A s \in Requests : s # r /\ pc[s] \in HasId => tid[s] # tid[r]
    BY <2>1 DEF IdsDistinct, HasId
  <2>3. \A s \in Requests : TicketOf(s)' = TicketOf(s)
    BY <2>1 DEF TicketOf
  <2>4. ASSUME NEW s \in Requests, pc'[s] = "allocated"
        PROVE  tid'[s] \notin DOMAIN tickets'
    BY <2>1, <2>2, <2>4 DEF HasId
  <2>5. ASSUME NEW s \in Requests, pc'[s] \in HasTicket
        PROVE  tid'[s] \in DOMAIN tickets' /\ tickets'[tid'[s]] = TicketOf(s)'
    <3>1. CASE s = r
      BY <2>1, <2>3, <3>1
    <3>2. CASE s # r
      <4>1. pc[s] \in HasTicket
        BY <2>1, <2>5, <3>2
      <4>2. tid[s] # tid[r]
        BY <2>2, <3>2, <4>1 DEF HasId
      <4> QED
        BY <2>1, <2>3, <4>1, <4>2
    <3> QED
      BY <3>1, <3>2
  <2>6. ASSUME NEW id \in DOMAIN tickets' \ SeedIds
        PROVE  \E s \in Requests : pc'[s] \in HasTicket /\ tid'[s] = id
    <3>1. CASE id = tid[r]
      BY <2>1, <3>1
    <3>2. CASE id # tid[r]
      BY <2>1, <2>6, <3>2
    <3> QED
      BY <3>1, <3>2
  <2> QED
    BY <2>4, <2>5, <2>6
<1>4. ASSUME NEW r \in Requests,
             Reject(r) \/ FailValidation(r) \/ AppendAudit(r) \/ Answer(r)
      PROVE  TableInv'
  <2>1. /\ UNCHANGED <<tid, tickets, body>>
        /\ \A s \in Requests : pc'[s] = "allocated" => pc[s] = "allocated"
        /\ \A s \in Requests : pc'[s] \in HasTicket <=> pc[s] \in HasTicket
    BY <1>4 DEF Reject, FailValidation, AppendAudit, Answer, Step, store
  <2> QED
    BY <2>1 DEF TicketOf
<1>5. CASE Restart
  BY <1>5 DEF Restart, Running, SeedTickets
<1>6. CASE UNCHANGED vars
  BY <1>6 DEF vars, TicketOf
<1> QED
  BY <1>1, <1>2, <1>3, <1>4, <1>5, <1>6 DEF Next, Handle, Quiesced

(* The audit list: a handler appends its row once, after its ticket.       *)
LEMMA AuditStep ==
  ASSUME IInv, [Next]_vars
  PROVE  AuditInv'
<1> USE DEF IInv, TypeOK, AuditInv, HasRow
<1>1. ASSUME NEW r \in Requests, AppendAudit(r) PROVE AuditInv'
  <2>1. /\ pc[r] = "stored"
        /\ pc' = [pc EXCEPT ![r] = "audited"]
        /\ audit' = Append(audit, RowOf(r))
        /\ UNCHANGED <<tid, body>>
    BY <1>1 DEF AppendAudit, Step
  <2>2. RowOf(r) \in AuditEntry
    BY DEF RowOf, AuditEntry, Body
  <2>3. /\ DOMAIN audit = 1..Len(audit)
        /\ DOMAIN audit' = 1..(Len(audit) + 1)
        /\ \A i \in 1..Len(audit) : audit'[i] = audit[i]
        /\ audit'[Len(audit) + 1] = RowOf(r)
        /\ Len(audit) \in Nat
    BY <2>1, <2>2, AppendProperties, LenProperties
  <2>4. \A s \in Requests : RowOf(s)' = RowOf(s) /\ RowOf(s).request_id = s
    BY <2>1 DEF RowOf
  <2>5. \A i \in 1..Len(audit) : audit[i].request_id # r
    <3> SUFFICES ASSUME NEW i \in 1..Len(audit), audit[i].request_id = r
                 PROVE  FALSE
      OBVIOUS
    <3>1. PICK s \in Requests : pc[s] \in HasRow /\ audit[i] = RowOf(s)
      BY <2>3
    <3> QED
      BY <2>1, <2>4, <3>1
  <2>6. \A i \in DOMAIN audit' :
          \E s \in Requests : pc'[s] \in HasRow /\ audit'[i] = RowOf(s)'
    <3> TAKE i \in DOMAIN audit'
    <3>1. CASE i = Len(audit) + 1
      BY <2>1, <2>3, <2>4, <3>1
    <3>2. CASE i \in 1..Len(audit)
      <4>1. PICK s \in Requests : pc[s] \in HasRow /\ audit[i] = RowOf(s)
        BY <2>3, <3>2
      <4> QED
        BY <2>1, <2>3, <2>4, <3>2, <4>1
    <3> QED
      BY <2>3, <3>1, <3>2
  <2>7. \A i, j \in DOMAIN audit' :
          audit'[i].request_id = audit'[j].request_id => i = j
    <3>1. \A i, j \in 1..Len(audit) :
            audit'[i].request_id = audit'[j].request_id => i = j
      BY <2>3
    <3>2. \A i \in 1..Len(audit) :
            audit'[i].request_id # audit'[Len(audit) + 1].request_id
      BY <2>3, <2>4, <2>5
    <3>3. \A i \in DOMAIN audit' : i \in 1..Len(audit) \/ i = Len(audit) + 1
      BY <2>3
    <3> HIDE DEF IInv, TypeOK, AuditInv
    <3> QED
      BY <3>1, <3>2, <3>3
  <2>8. ASSUME NEW s \in Requests, pc'[s] \in HasRow
        PROVE  \E i \in DOMAIN audit' : audit'[i] = RowOf(s)'
    <3>1. CASE s = r
      <4>1. Len(audit) + 1 \in DOMAIN audit'
        BY <2>3
      <4> QED
        BY <2>3, <2>4, <3>1, <4>1
    <3>2. CASE s # r
      <4>1. PICK i \in DOMAIN audit : audit[i] = RowOf(s)
        BY <2>1, <2>8, <3>2
      <4>2. i \in DOMAIN audit' /\ audit'[i] = audit[i]
        BY <2>3, <4>1
      <4> QED
        BY <2>4, <4>1, <4>2
    <3> QED
      BY <3>1, <3>2
  <2> QED
    BY <2>6, <2>7, <2>8
<1>2. ASSUME NEW r \in Requests,
             \/ Reject(r)
             \/ IncrementOffset(r)
             \/ ReturnId(r)
             \/ FailValidation(r)
             \/ Create(r)
             \/ Answer(r)
      PROVE  AuditInv'
  <2>1. /\ UNCHANGED <<audit, body>>
        /\ \A s \in Requests : pc'[s] \in HasRow <=> pc[s] \in HasRow
        /\ \A s \in Requests : pc[s] \in HasRow => tid'[s] = tid[s]
    BY <1>2
    DEF Reject, IncrementOffset, ReturnId, FailValidation, Create, Answer, Step, store
  <2>2. \A s \in Requests : pc[s] \in HasRow => RowOf(s)' = RowOf(s)
    BY <2>1 DEF RowOf
  <2> QED
    BY <2>1, <2>2
<1>3. CASE Restart
  BY <1>3 DEF Restart, Running
<1>4. CASE UNCHANGED vars
  BY <1>4 DEF vars, RowOf
<1> QED
  BY <1>1, <1>2, <1>3, <1>4 DEF Next, Handle, Quiesced

-----------------------------------------------------------------------------
(* The inductive invariant holds in every reachable state.                 *)
THEOREM Inductive == Spec => []IInv
<1>1. IInv /\ [Next]_vars => IInv'
  BY TypeStep, GateStep, IdStep, TableStep, AuditStep DEF IInv
<1> QED
  BY InitIInv, <1>1, PTL DEF Spec

(* Every variable keeps its type, the seed is never lost, and no ticket    *)
(* has an id beyond the counter.                                           *)
THEOREM TypeCorrect == Spec => []TypeOK
<1>1. IInv => TypeOK
  BY DEF IInv
<1> QED
  BY Inductive, <1>1, PTL

(* Every audit row sanctions one ticket of its own that is in the table.   *)
THEOREM AuditIsSound == Spec => []AuditIntegrity
<1>1. IInv => AuditIntegrity
  <2> SUFFICES ASSUME IInv PROVE AuditIntegrity
    OBVIOUS
  <2> USE StoreAssumption
  <2>1. ASSUME NEW i \in DOMAIN audit
        PROVE  /\ audit[i].ticket_id \in DOMAIN tickets \ SeedIds
               /\ tickets[audit[i].ticket_id].incident = audit[i].incident
               /\ tickets[audit[i].ticket_id].created_at = audit[i].approved_at
    <3>1. PICK r \in Requests : pc[r] \in HasRow /\ audit[i] = RowOf(r)
      BY DEF IInv, AuditInv
    <3>2. tid[r] \in DOMAIN tickets /\ tickets[tid[r]] = TicketOf(r)
      BY <3>1 DEF IInv, TableInv, HasRow, HasTicket
    <3>3. tid[r] \notin SeedIds
      BY <3>1 DEF IInv, TypeOK, IdRange, HasId, HasRow
    <3> QED
      BY <3>1, <3>2, <3>3 DEF RowOf, TicketOf
  <2>2. ASSUME NEW i \in DOMAIN audit, NEW j \in DOMAIN audit,
               audit[i].ticket_id = audit[j].ticket_id
        PROVE  i = j
    <3>1. PICK r \in Requests : pc[r] \in HasRow /\ audit[i] = RowOf(r)
      BY DEF IInv, AuditInv
    <3>2. PICK s \in Requests : pc[s] \in HasRow /\ audit[j] = RowOf(s)
      BY DEF IInv, AuditInv
    <3>3. r = s
      BY <2>2, <3>1, <3>2 DEF IInv, IdsDistinct, RowOf, HasRow, HasId
    <3> QED
      BY <3>1, <3>2, <3>3 DEF IInv, AuditInv, RowOf
  <2> QED
    BY <2>1, <2>2 DEF AuditIntegrity
<1> QED
  BY Inductive, <1>1, PTL

(* Only a handler between create and append_audit has a ticket without a   *)
(* row.                                                                    *)
THEOREM NoOrphans == Spec => []NoOrphanTicket
<1>1. IInv => NoOrphanTicket
  <2> SUFFICES ASSUME IInv, NEW id \in DOMAIN tickets \ SeedIds
               PROVE  \/ \E i \in DOMAIN audit : audit[i].ticket_id = id
                      \/ \E r \in Requests : pc[r] = "stored" /\ tid[r] = id
    BY DEF NoOrphanTicket
  <2>1. PICK r \in Requests : pc[r] \in HasTicket /\ tid[r] = id
    BY DEF IInv, TableInv
  <2>2. CASE pc[r] = "stored"
    BY <2>1, <2>2
  <2>3. CASE pc[r] \in HasRow
    <3>1. PICK i \in DOMAIN audit : audit[i] = RowOf(r)
      BY <2>3 DEF IInv, AuditInv
    <3> QED
      BY <2>1, <3>1 DEF RowOf
  <2> QED
    BY <2>1, <2>2, <2>3 DEF HasTicket, HasRow
<1> QED
  BY Inductive, <1>1, PTL

(* A 200 is backed by its ticket and its row until the process dies.       *)
THEOREM AnswersAreBacked == Spec => []AnswerIsBacked
<1>1. IInv => AnswerIsBacked
  BY DEF IInv, TableInv, AuditInv, AnswerIsBacked, HasTicket, HasRow
<1> QED
  BY Inductive, <1>1, PTL

(* While the process lives no ticket is dropped or rewritten.              *)
LEMMA TicketsKept ==
  ASSUME IInv, [Next]_vars, restarts' = restarts
  PROVE  \A id \in DOMAIN tickets :
           id \in DOMAIN tickets' /\ tickets'[id] = tickets[id]
<1>1. ASSUME NEW r \in Requests, Create(r)
      PROVE  \A id \in DOMAIN tickets :
               id \in DOMAIN tickets' /\ tickets'[id] = tickets[id]
  <2>1. tid[r] \notin DOMAIN tickets
    BY <1>1 DEF IInv, TableInv, Create, Step
  <2> QED
    BY <1>1, <2>1 DEF Create
<1>2. ~Restart
  BY DEF Restart, IInv, TypeOK
<1> QED
  BY <1>1, <1>2
  DEF Next, Handle, Quiesced, vars, store, Reject, IncrementOffset, ReturnId,
      FailValidation, AppendAudit, Answer

THEOREM TicketsAreNeverOverwritten == Spec => NeverOverwritten
<1>1. IInv /\ [Next]_vars =>
        [restarts' = restarts =>
           \A id \in DOMAIN tickets :
             id \in DOMAIN tickets' /\ tickets'[id] = tickets[id]]_vars
  BY TicketsKept
<1> QED
  BY Inductive, <1>1, PTL DEF Spec, NeverOverwritten

(* What a page of a list is: its first rows, each at its place.            *)
LEMMA PageOfList ==
  ASSUME NEW S, NEW s \in Seq(S), NEW limit \in Nat,
         NEW n, n = IF limit < Len(s) THEN limit ELSE Len(s)
  PROVE  /\ DOMAIN SubSeq(s, 1, n) = 1..n
         /\ \A i \in 1..n : i \in 1..Len(s) /\ SubSeq(s, 1, n)[i] = s[i]
<1>1. Len(s) \in Nat /\ n \in Nat /\ n <= Len(s)
  OBVIOUS
<1>2. \A i \in 1..n : s[i] \in S
  BY <1>1
<1>3. /\ SubSeq(s, 1, n) \in Seq(S)
      /\ Len(SubSeq(s, 1, n)) = n
      /\ \A i \in 1..n : SubSeq(s, 1, n)[i] = s[i]
  BY <1>1, <1>2, SubSeqProperties
<1> QED
  BY <1>1, <1>3

(* The audit list is only appended to.                                     *)
LEMMA AuditKept ==
  ASSUME IInv, [Next]_vars, restarts' = restarts
  PROVE  /\ audit' \in Seq(AuditEntry)
         /\ Len(audit) <= Len(audit')
         /\ \A i \in 1..Len(audit) : audit'[i] = audit[i]
<1>1. audit \in Seq(AuditEntry) /\ Len(audit) \in Nat
  BY DEF IInv, TypeOK
<1>2. ASSUME NEW r \in Requests, AppendAudit(r)
      PROVE  audit' = Append(audit, RowOf(r)) /\ RowOf(r) \in AuditEntry
  BY <1>2 DEF AppendAudit, RowOf, AuditEntry, Body, IInv, TypeOK
<1>3. ASSUME NEW row \in AuditEntry, audit' = Append(audit, row)
      PROVE  /\ audit' \in Seq(AuditEntry)
             /\ Len(audit) <= Len(audit')
             /\ \A i \in 1..Len(audit) : audit'[i] = audit[i]
  BY <1>1, <1>3, AppendProperties
<1>4. ~Restart
  BY DEF Restart, IInv, TypeOK
<1>5. audit' = audit \/ \E r \in Requests : AppendAudit(r)
  BY <1>4
  DEF Next, Handle, Quiesced, vars, store, Reject, IncrementOffset, ReturnId,
      FailValidation, Create, Answer
<1> QED
  BY <1>1, <1>2, <1>3, <1>5

(* A page of the audit list fetched again shows the rows it showed, at the *)
(* same places.                                                            *)
LEMMA PageKept ==
  ASSUME IInv, [Next]_vars, restarts' = restarts, NEW limit \in Nat
  PROVE  \A i \in DOMAIN AuditPage(limit).items :
           /\ i \in DOMAIN AuditPage(limit).items'
           /\ AuditPage(limit).items'[i] = AuditPage(limit).items[i]
<1> DEFINE n == IF limit < Len(audit) THEN limit ELSE Len(audit)
           m == IF limit < Len(audit') THEN limit ELSE Len(audit')
<1>1. /\ audit \in Seq(AuditEntry) /\ audit' \in Seq(AuditEntry)
      /\ Len(audit) <= Len(audit')
      /\ \A i \in 1..Len(audit) : audit'[i] = audit[i]
  BY AuditKept DEF IInv, TypeOK
<1>2. n \in Nat /\ m \in Nat /\ n <= m
  BY <1>1
<1>3. /\ AuditPage(limit).items = SubSeq(audit, 1, n)
      /\ AuditPage(limit).items' = SubSeq(audit', 1, m)
  BY DEF AuditPage
<1>4. /\ DOMAIN SubSeq(audit, 1, n) = 1..n
      /\ \A i \in 1..n : i \in 1..Len(audit) /\ SubSeq(audit, 1, n)[i] = audit[i]
  BY <1>1, PageOfList
<1>5. /\ DOMAIN SubSeq(audit', 1, m) = 1..m
      /\ \A i \in 1..m : SubSeq(audit', 1, m)[i] = audit'[i]
  BY <1>1, PageOfList
<1> HIDE DEF n, m
<1> QED
  BY <1>1, <1>2, <1>3, <1>4, <1>5

(* GET /tickets/audit: pages only grow while the process lives.             *)
THEOREM AuditPagesOnlyGrow == Spec => AuditPagesGrow
<1>1. MaxLimit \in Nat
  BY StoreAssumption
<1>2. \A limit \in 1..MaxLimit : limit \in Nat
  BY <1>1
<1>3. IInv /\ [Next]_vars =>
        [restarts' = restarts =>
           \A limit \in 1..MaxLimit :
             \A i \in DOMAIN AuditPage(limit).items :
               /\ i \in DOMAIN AuditPage(limit).items'
               /\ AuditPage(limit).items'[i] = AuditPage(limit).items[i]]_vars
  BY <1>2, PageKept
<1> QED
  BY Inductive, <1>3, PTL DEF Spec, AuditPagesGrow

-----------------------------------------------------------------------------
(* Refinement: the rows of the ledger and the requests they are of.        *)
RowAt(i) == [id       |-> audit[i].ticket_id,
             request  |-> audit[i].request_id,
             incident |-> tickets[audit[i].ticket_id].incident]

Outcomes == [r \in Requests |-> OutcomeOf(pc[r])]

(* A request has a row in the ledger exactly when it is past append_audit. *)
LEMMA RowsOfRequests ==
  ASSUME IInv, NEW r \in Requests
  PROVE  /\ pc[r] \in HasRow => Ledger!RowsOf(r) # {}
         /\ pc[r] \notin HasRow => Ledger!RowsOf(r) = {}
<1>1. ASSUME NEW i \in DOMAIN audit, audit[i].request_id = r
      PROVE  pc[r] \in HasRow
  <2>1. PICK s \in Requests : pc[s] \in HasRow /\ audit[i] = RowOf(s)
    BY DEF IInv, AuditInv
  <2> QED
    BY <1>1, <2>1 DEF RowOf
<1>2. ASSUME pc[r] \in HasRow
      PROVE  \E i \in DOMAIN audit : audit[i].request_id = r
  BY <1>2 DEF IInv, AuditInv, RowOf
<1>3. \A row \in LedgerRows : \E i \in DOMAIN audit : row = RowAt(i)
  BY DEF LedgerRows, RowAt
<1>4. \A i \in DOMAIN audit : RowAt(i) \in LedgerRows /\ RowAt(i).request = audit[i].request_id
  BY DEF LedgerRows, RowAt
<1> QED
  BY <1>1, <1>2, <1>3, <1>4 DEF Ledger!RowsOf

(* A step that keeps the audit list keeps the ledger: audited tickets are  *)
(* never rewritten.                                                        *)
LEMMA LedgerKept ==
  ASSUME IInv, [Next]_vars, restarts' = restarts, audit' = audit
  PROVE  LedgerRows' = LedgerRows
<1>1. \A i \in DOMAIN audit : audit[i].ticket_id \in DOMAIN tickets
  BY DEF IInv, TableInv, AuditInv, RowOf, HasRow, HasTicket
<1>2. \A i \in DOMAIN audit :
        tickets'[audit[i].ticket_id] = tickets[audit[i].ticket_id]
  BY <1>1, TicketsKept
<1> QED
  BY <1>2 DEF LedgerRows

(* append_audit is the step in which a row enters the ledger.              *)
LEMMA AppendRecords ==
  ASSUME IInv, NEW r \in Requests, AppendAudit(r)
  PROVE  Ledger!Record(r)
<1> DEFINE new == [id |-> tid[r], request |-> r, incident |-> body[r].incident]
<1> USE StoreAssumption
<1>1. /\ pc[r] = "stored"
      /\ pc' = [pc EXCEPT ![r] = "audited"]
      /\ audit' = Append(audit, RowOf(r))
      /\ UNCHANGED <<tid, body, tickets>>
  BY DEF AppendAudit, Step
<1>2. RowOf(r) \in AuditEntry /\ audit \in Seq(AuditEntry)
  BY DEF RowOf, AuditEntry, Body, IInv, TypeOK
<1>3. /\ DOMAIN audit = 1..Len(audit)
      /\ DOMAIN audit' = 1..(Len(audit) + 1)
      /\ \A i \in 1..Len(audit) : audit'[i] = audit[i]
      /\ audit'[Len(audit) + 1] = RowOf(r)
      /\ Len(audit) \in Nat
  BY <1>1, <1>2, AppendProperties, LenProperties
<1>4. tickets[tid[r]] = TicketOf(r)
  BY <1>1 DEF IInv, TableInv, HasTicket
<1>5. LedgerRows' = LedgerRows \cup {new}
  <2>1. PICK n \in Nat : n = Len(audit) + 1
    BY <1>3
  <2>2. \A i \in 1..(n-1) : RowAt(i)' = RowAt(i)
    BY <1>1, <1>3, <2>1 DEF RowAt
  <2>3. RowAt(n)' = new
    BY <1>1, <1>3, <1>4, <2>1 DEF RowAt, RowOf, TicketOf
  <2>4. /\ LedgerRows = {RowAt(i) : i \in 1..(n-1)}
        /\ LedgerRows' = {RowAt(i)' : i \in 1..n}
    BY <1>3, <2>1 DEF LedgerRows, RowAt
  <2>5. 1..n = 1..(n-1) \cup {n}
    BY <2>1, <1>3
  <2> HIDE DEF new, RowAt
  <2> QED
    BY <2>2, <2>3, <2>4, <2>5
<1>6. \A old \in LedgerRows : old.id # tid[r]
  <2> SUFFICES ASSUME NEW i \in DOMAIN audit, audit[i].ticket_id = tid[r]
               PROVE  FALSE
    BY DEF LedgerRows
  <2>1. PICK s \in Requests : pc[s] \in HasRow /\ audit[i] = RowOf(s)
    BY DEF IInv, AuditInv
  <2> QED
    BY <1>1, <2>1 DEF IInv, IdsDistinct, RowOf, HasRow, HasId
<1>7. tid[r] \notin SeedIds
  BY <1>1 DEF IInv, IdRange, TypeOK, HasId
<1>8. Ledger!RowsOf(r) = {}
  BY <1>1, RowsOfRequests DEF HasRow
<1>9. Outcomes' = Outcomes /\ Outcomes[r] = "pending"
  BY <1>1 DEF Outcomes, OutcomeOf, IInv, TypeOK
<1>10. body[r].approved
  BY <1>1 DEF IInv, GateInv, HasId
<1> QED
  BY <1>1, <1>5, <1>6, <1>7, <1>8, <1>9, <1>10 DEF Ledger!Record, Outcomes

LEMMA InitLedger == Init => Ledger!Init
  BY DEF Init, Ledger!Init, LedgerRows, OutcomeOf

(* Every step of the service is a step of the ledger or leaves it alone.   *)
LEMMA StepLedger ==
  ASSUME IInv, [Next]_vars
  PROVE  [Ledger!Next]_Ledger!vars
<1> DEFINE Stutter == UNCHANGED <<body, LedgerRows, Outcomes>>
<1>t. pc \in [Requests -> Status] /\ restarts \in Nat
  BY DEF IInv, TypeOK
<1>1. ASSUME NEW r \in Requests, AppendAudit(r) PROVE Ledger!Next
  BY <1>1, AppendRecords DEF Ledger!Next
<1>2. ASSUME NEW r \in Requests, Answer(r) PROVE Ledger!Next
  <2>1. /\ pc[r] = "audited"
        /\ pc' = [pc EXCEPT ![r] = "answered"]
        /\ UNCHANGED <<body, tickets, audit, restarts>>
    BY <1>2 DEF Answer, Step, store
  <2>2. UNCHANGED LedgerRows
    BY <2>1, LedgerKept
  <2>3. Ledger!RowsOf(r) # {}
    BY <2>1, RowsOfRequests DEF HasRow
  <2>4. Outcomes[r] = "pending" /\ Outcomes' = [Outcomes EXCEPT ![r] = "created"]
    BY <1>t, <2>1 DEF Outcomes, OutcomeOf
  <2> QED
    BY <2>1, <2>2, <2>3, <2>4 DEF Ledger!Next, Ledger!Confirm, Outcomes
<1>3. ASSUME NEW r \in Requests, Reject(r) \/ FailValidation(r) PROVE Ledger!Next
  <2>1. /\ pc[r] \in {"arrived", "allocated"}
        /\ \/ pc' = [pc EXCEPT ![r] = "rejected"]
           \/ pc' = [pc EXCEPT ![r] = "failed"]
        /\ ~body[r].approved \/ ~body[r].wellTyped
        /\ UNCHANGED <<body, tickets, audit, restarts>>
    BY <1>3 DEF Reject, FailValidation, Step, store
  <2>2. UNCHANGED LedgerRows
    BY <2>1, LedgerKept
  <2>3. Ledger!RowsOf(r) = {}
    BY <2>1, RowsOfRequests DEF HasRow
  <2>4. Outcomes[r] = "pending" /\ Outcomes' = [Outcomes EXCEPT ![r] = "refused"]
    BY <1>t, <2>1 DEF Outcomes, OutcomeOf
  <2> QED
    BY <2>1, <2>2, <2>3, <2>4 DEF Ledger!Next, Ledger!Refuse, Outcomes
<1>4. ASSUME NEW r \in Requests, IncrementOffset(r) \/ ReturnId(r) \/ Create(r)
      PROVE  Stutter
  <2>1. /\ pc[r] \in {"arrived", "incremented", "allocated"}
        /\ \E to \in {"incremented", "allocated", "stored"} : pc' = [pc EXCEPT ![r] = to]
        /\ UNCHANGED <<body, audit, restarts>>
    BY <1>4 DEF IncrementOffset, ReturnId, Create, Step
  <2>2. UNCHANGED LedgerRows
    BY <2>1, LedgerKept
  <2>3. UNCHANGED Outcomes
    BY <1>t, <2>1 DEF Outcomes, OutcomeOf
  <2> QED
    BY <2>1, <2>2, <2>3
<1>5. CASE Restart
  <2> DEFINE gone == {r \in Requests : pc[r] \in Running}
  <2>1. /\ audit' = <<>>
        /\ UNCHANGED body
        /\ pc' = [r \in Requests |->
                    IF pc[r] \in Running THEN "lost"
                    ELSE IF pc[r] = "answered" THEN "outlived"
                    ELSE pc[r]]
    BY <1>5 DEF Restart
  <2>2. LedgerRows' = {}
    BY <2>1 DEF LedgerRows
  <2>3. gone \in SUBSET {r \in Requests : Outcomes[r] = "pending"}
    BY DEF Running, Outcomes, OutcomeOf
  <2>4. {r \in Requests : Ledger!RowsOf(r) # {} /\ Outcomes[r] = "pending"} \subseteq gone
    <3> SUFFICES ASSUME NEW r \in Requests, Ledger!RowsOf(r) # {},
                        Outcomes[r] = "pending"
                 PROVE  pc[r] \in Running
      OBVIOUS
    <3>1. pc[r] \in HasRow
      BY RowsOfRequests
    <3> QED
      BY <3>1 DEF HasRow, Running, Outcomes, OutcomeOf
  <2>5. Outcomes' = [r \in Requests |->
                       IF r \in gone \/ Outcomes[r] = "created"
                         THEN "lost" ELSE Outcomes[r]]
    BY <1>t, <2>1 DEF Outcomes, OutcomeOf, Running, Status
  <2> QED
    BY <2>1, <2>2, <2>3, <2>4, <2>5 DEF Ledger!Next, Ledger!Wipe, Outcomes
<1>6. ASSUME UNCHANGED vars PROVE Stutter
  BY <1>6 DEF vars, LedgerRows, Outcomes, OutcomeOf
<1>7. Stutter => UNCHANGED Ledger!vars
  BY DEF Ledger!vars, Outcomes
<1> HIDE DEF Stutter
<1> QED
  BY <1>1, <1>2, <1>3, <1>4, <1>5, <1>6, <1>7 DEF Next, Handle, Quiesced

(* The two tables and three critical sections behave as one atomic ledger.  *)
THEOREM Refinement == Spec => ImplementsLedger
<1> QED
  BY InitLedger, StepLedger, Inductive, PTL DEF Spec, ImplementsLedger, Ledger!Spec

-----------------------------------------------------------------------------
(* Search.                                                                 *)

(* The order lists the ids of the table, each of them once.                *)
OrderInv ==
  /\ order \in Seq(DOMAIN tickets)
  /\ \A id \in DOMAIN tickets : \E i \in DOMAIN order : order[i] = id
  /\ \A i, j \in DOMAIN order : order[i] = order[j] => i = j

(* A finite set as a sequence has each of its elements once.               *)
LEMMA SetAsSequence ==
  ASSUME NEW S, IsFiniteSet(S)
  PROVE  /\ SetToSeq(S) \in Seq(S)
         /\ \A x \in S : \E i \in DOMAIN SetToSeq(S) : SetToSeq(S)[i] = x
         /\ \A i, j \in DOMAIN SetToSeq(S) : SetToSeq(S)[i] = SetToSeq(S)[j] => i = j
<1> DEFINE n == Cardinality(S)
           seq == SetToSeq(S)
<1>1. n \in Nat /\ ExistsBijection(1..n, S)
  BY FS_CardinalityType
<1>2. \E f \in [1..n -> S] : IsInjective(f)
  BY <1>1 DEF ExistsBijection, Bijection, Injection
<1>3. seq \in [1..n -> S] /\ IsInjective(seq)
  BY <1>2 DEF SetToSeq
<1> HIDE DEF seq, n
<1>4. IsFiniteSet(1..n) /\ Cardinality(1..n) = n
  BY <1>1, FS_Interval
<1>5. seq \in Injection(1..n, S)
  BY <1>3 DEF Injection
<1>6. seq \in Surjection(1..n, S)
  BY <1>4, <1>5, FS_Injection DEF n
<1>7. \A x \in S : \E i \in 1..n : seq[i] = x
  BY <1>6 DEF Surjection
<1>8. seq \in Seq(S) /\ DOMAIN seq = 1..n
  BY <1>1, <1>3, SeqDef
<1>9. \A i, j \in DOMAIN seq : seq[i] = seq[j] => i = j
  BY <1>3 DEF IsInjective
<1> QED
  BY <1>7, <1>8, <1>9 DEF seq

(* A step that is not a restart keeps every id of the table.               *)
LEMMA IdsStay ==
  ASSUME [Next]_vars
  PROVE  DOMAIN tickets' = SeedIds \/ DOMAIN tickets \subseteq DOMAIN tickets'
<1>1. ASSUME NEW r \in Requests, Handle(r) PROVE DOMAIN tickets \subseteq DOMAIN tickets'
  <2>1. CASE Create(r)
    BY <2>1 DEF Create
  <2>2. CASE ~Create(r)
    BY <1>1, <2>2 DEF Handle, Reject, IncrementOffset, ReturnId, FailValidation, AppendAudit,
                      Answer, store
  <2> QED
    BY <2>1, <2>2
<1>2. CASE Restart
  BY <1>2 DEF Restart, SeedTickets
<1>3. CASE UNCHANGED vars
  BY <1>3 DEF vars
<1> QED
  BY <1>1, <1>2, <1>3 DEF Next, Quiesced

LEMMA OrderInit == SearchInit => OrderInv
<1> SUFFICES ASSUME SearchInit PROVE OrderInv
  OBVIOUS
<1>1. order = SeedOrder /\ DOMAIN tickets = SeedIds
  BY DEF SearchInit, Init, SeedTickets
<1> QED
  BY <1>1, SearchAssumption DEF OrderInv

LEMMA OrderStep ==
  ASSUME TypeOK', OrderInv, [SearchNext]_<<vars, order>>
  PROVE  OrderInv'
<1>1. CASE UNCHANGED <<vars, order>>
  <2>1. UNCHANGED <<tickets, order>>
    BY <1>1 DEF vars
  <2> QED
    BY <2>1 DEF OrderInv
<1>2. CASE SearchNext /\ DOMAIN tickets' = SeedIds
  <2>1. order' = SeedOrder
    BY <1>2 DEF SearchNext, OrderFollows
  <2> QED
    BY <1>2, <2>1, SearchAssumption DEF OrderInv
<1>3. CASE SearchNext /\ DOMAIN tickets' # SeedIds
  <2> DEFINE old == DOMAIN tickets
             all == DOMAIN tickets'
             new == SetToSeq(all \ old)
  <2>1. order' = order \o new
    BY <1>3 DEF SearchNext, OrderFollows
  <2>2. old \subseteq all
    BY <1>3, IdsStay DEF SearchNext
  <2>3. IsFiniteSet(all \ old)
    <3>1. all \subseteq 0..offset' /\ offset' \in Nat
      BY DEF TypeOK
    <3>2. IsFiniteSet(0..offset')
      BY <3>1, FS_Interval
    <3> QED
      BY <3>1, <3>2, FS_Subset
  <2>4. /\ new \in Seq(all \ old)
        /\ \A x \in all \ old : \E i \in DOMAIN new : new[i] = x
        /\ \A i, j \in DOMAIN new : new[i] = new[j] => i = j
    BY <2>3, SetAsSequence
  <2>5. /\ order \in Seq(old)
        /\ \A id \in old : \E i \in DOMAIN order : order[i] = id
        /\ \A i, j \in DOMAIN order : order[i] = order[j] => i = j
    BY DEF OrderInv
  <2> DEFINE longer == order \o new
             m == Len(order)
             n == Len(new)
  <2> HIDE DEF old, all, new
  <2>6. /\ m \in Nat /\ DOMAIN order = 1..m /\ \A i \in 1..m : order[i] \in old
        /\ n \in Nat /\ DOMAIN new = 1..n /\ \A i \in 1..n : new[i] \in all \ old
    BY <2>4, <2>5, LenProperties, ElementOfSeq
  <2>7. order \in Seq(all) /\ new \in Seq(all)
    BY <2>2, <2>4, <2>5
  <2>8. /\ longer \in Seq(all) /\ Len(longer) = m + n
        /\ \A i \in 1..m + n : longer[i] = IF i <= m THEN order[i] ELSE new[i - m]
    BY <2>7, ConcatProperties
  <2> HIDE DEF longer, m, n
  <2>9. DOMAIN longer = 1..m + n
    BY <2>8, LenProperties
  <2>10. /\ \A i \in 1..m : i \in 1..m + n /\ longer[i] = order[i]
         /\ \A i \in 1..n : m + i \in 1..m + n /\ longer[m + i] = new[i]
         /\ \A i \in 1..m + n : i \in 1..m \/ (i - m \in 1..n /\ i = m + (i - m))
    BY <2>6, <2>8
  <2>11. ASSUME NEW id \in all PROVE \E i \in DOMAIN longer : longer[i] = id
    <3>1. CASE id \in old
      BY <2>5, <2>6, <2>9, <2>10, <3>1
    <3>2. CASE id \notin old
      <4>1. PICK i \in 1..n : new[i] = id
        BY <2>4, <2>6, <3>2
      <4>2. m + i \in 1..m + n /\ longer[m + i] = id
        BY <2>10, <4>1
      <4> QED
        BY <2>9, <4>2
    <3> QED
      BY <3>1, <3>2
  <2>12. ASSUME NEW i \in 1..m + n, NEW j \in 1..m + n, longer[i] = longer[j] PROVE i = j
    <3>a. /\ \A k \in 1..m : longer[k] \in old
          /\ \A k \in 1..m + n : k \notin 1..m => longer[k] \notin old
      <4>1. \A k \in 1..m : longer[k] \in old
        BY <2>6, <2>10
      <4>2. ASSUME NEW k \in 1..m + n, k \notin 1..m PROVE longer[k] \notin old
        <5>1. k - m \in 1..n /\ k = m + (k - m)
          BY <2>10, <4>2
        <5>2. longer[k] = new[k - m]
          BY <2>10, <5>1
        <5> QED
          BY <2>6, <5>1, <5>2
      <4> QED
        BY <4>1, <4>2
    <3>1. CASE i \in 1..m /\ j \in 1..m
      BY <2>5, <2>6, <2>10, <2>12, <3>1
    <3>2. CASE i \in 1..m /\ j \notin 1..m
      BY <2>12, <3>a, <3>2
    <3>3. CASE i \notin 1..m /\ j \in 1..m
      BY <2>12, <3>a, <3>3
    <3>4. CASE i \notin 1..m /\ j \notin 1..m
      <4>1. i - m \in 1..n /\ j - m \in 1..n /\ i = m + (i - m) /\ j = m + (j - m)
        BY <2>10, <3>4
      <4>2. new[i - m] = new[j - m]
        BY <2>10, <2>12, <4>1
      <4>3. i - m = j - m
        BY <2>4, <2>6, <4>1, <4>2
      <4> QED
        BY <4>1, <4>3
    <3> QED
      BY <3>1, <3>2, <3>3, <3>4
  <2> QED
    BY <2>1, <2>8, <2>9, <2>11, <2>12 DEF OrderInv, longer, all
<1> QED
  BY <1>1, <1>2, <1>3

(* What a search returns: the positions, in the table, of the rows that    *)
(* fit, best first and of two as good the older first.                     *)
Precedes(i, j, f) ==
  LET mine   == Score(Details(order[j]), f)
      theirs == Score(Details(order[i]), f)
  IN  theirs > mine \/ (theirs = mine /\ i < j)

LEMMA ScoreIsNumber == \A t, f : Score(t, f) \in Nat
<1> SUFFICES ASSUME NEW t, NEW f PROVE Score(t, f) \in Nat
  OBVIOUS
<1> DEFINE a == IF f.asset_id # None /\ t.asset_id = f.asset_id THEN 10 ELSE 0
           b == IF f.site # None /\ t.site = f.site THEN 2 ELSE 0
           c == IF f.status # None /\ t.status = f.status THEN 5 ELSE 0
           d == IF f.text # None /\ f.text \in t.fragments THEN 5 ELSE 0
<1>1. a \in Nat /\ b \in Nat /\ c \in Nat /\ d \in Nat
  OBVIOUS
<1>2. Score(t, f) = a + b + c + d
  BY DEF Score
<1> HIDE DEF a, b, c, d
<1> QED
  BY <1>1, <1>2

LEMMA SearchedRows ==
  ASSUME OrderInv, NEW f
  PROVE  LET S    == {i \in DOMAIN order : Fits(order[i], f)}
             page == Search(f, Len(order))
         IN  \E at :
               /\ Chooses(at, Len(page), S)
               /\ DOMAIN page = 1..Len(page)
               /\ \A k \in 1..Len(page) : page[k] = order[at[k]]
               /\ \A k, l \in 1..Len(page) : k < l => Precedes(at[k], at[l], f)
<1> DEFINE S == {i \in DOMAIN order : Fits(order[i], f)}
           T == DOMAIN tickets
           n == Cardinality(S)
           kept == KeptAt(order, S)
           raw == [i \in DOMAIN kept |-> Score(Details(kept[i]), f)]
           key == Once(raw)
           ranked == SortedBy(kept, key)
           page == Search(f, Len(order))
<1>1. order \in Seq(T) /\ S \in SUBSET DOMAIN order /\ DOMAIN order = 1..Len(order)
      /\ Len(order) \in Nat
  BY LenProperties DEF OrderInv
<1>2. page = Limit(ranked, Len(order))
  BY DEF Search, Kept, Descending
<1> HIDE DEF S, kept, T, page
<1>3. PICK at :
           /\ Chooses(at, n, S)
           /\ \A k, l \in 1..n : k < l => at[k] < at[l]
           /\ kept \in Seq(T)
           /\ Len(kept) = n
           /\ \A k \in 1..n : kept[k] = order[at[k]]
  BY <1>1, KeptAtPositions DEF kept
<1> HIDE DEF n
<1>4. n \in Nat /\ at \in [1..n -> S] /\ DOMAIN kept = 1..n
  <2>1. at \in [1..n -> S]
    BY <1>3 DEF Chooses
  <2>2. Len(kept) \in Nat /\ DOMAIN kept = 1..Len(kept)
    BY <1>3, LenProperties
  <2> QED
    BY <1>3, <2>1, <2>2
<1>5. /\ key = raw
      /\ \A i \in 1..n : key[i] = Score(Details(kept[i]), f) /\ key[i] \in Nat
  <2>1. raw \in [1..n -> Nat]
    BY <1>4, ScoreIsNumber
  <2>2. key = raw
    <3> HIDE DEF raw
    <3> QED
      BY <1>4, <2>1, OnceIsNothing
  <2> QED
    BY <1>4, <2>1, <2>2
<1> HIDE DEF key, raw, ranked
<1>6. PICK to :
           /\ Chooses(to, n, 1..n)
           /\ BestFirst(to, n, key)
           /\ ranked \in Seq(T)
           /\ Len(ranked) = n
           /\ \A k \in 1..n : ranked[k] = kept[to[k]]
  <2>1. \A i \in DOMAIN kept : key[i] \in Int
    BY <1>4, <1>5
  <2> QED
    BY <1>3, <1>4, <2>1, SortedPositions DEF ranked
<1>7. n <= Len(order)
  <2>1. \A m \in Nat : IsFiniteSet(1..m) /\ Cardinality(1..m) = m
    BY FS_Interval
  <2>2. IsFiniteSet(1..Len(order)) /\ Cardinality(1..Len(order)) = Len(order)
    BY <1>1, <2>1
  <2> QED
    BY <1>1, <2>2, FS_Subset DEF n
<1>8. page = ranked /\ Len(page) = n /\ DOMAIN page = 1..n
  BY <1>1, <1>2, <1>6, <1>7, LenProperties DEF Limit
<1> DEFINE both == [k \in 1..n |-> at[to[k]]]
<1>9. to \in [1..n -> 1..n] /\ \A k, l \in 1..n : to[k] = to[l] => k = l
  BY <1>6 DEF Chooses
<1>10. Chooses(both, n, S)
  <2>1. \A i \in S : \E k \in 1..n : both[k] = i
    <3> TAKE i \in S
    <3>1. PICK j \in 1..n : at[j] = i
      BY <1>3 DEF Chooses
    <3>2. PICK k \in 1..n : to[k] = j
      BY <1>6 DEF Chooses
    <3> QED
      BY <3>1, <3>2
  <2>2. \A k, l \in 1..n : both[k] = both[l] => k = l
    BY <1>3, <1>9 DEF Chooses
  <2>3. both \in [1..n -> S]
    BY <1>4, <1>9
  <2> QED
    BY <1>4, <2>1, <2>2, <2>3 DEF Chooses
<1>11. \A k \in 1..n : page[k] = order[both[k]] /\ kept[to[k]] = order[both[k]]
  BY <1>3, <1>6, <1>8, <1>9
<1>12. ASSUME NEW k \in 1..n, NEW l \in 1..n, k < l PROVE Precedes(both[k], both[l], f)
  <2>1. \/ key[to[k]] > key[to[l]]
        \/ key[to[k]] = key[to[l]] /\ to[k] < to[l]
    BY <1>6, <1>12 DEF BestFirst
  <2>2. /\ to[k] \in 1..n /\ to[l] \in 1..n
        /\ both[k] = at[to[k]] /\ both[l] = at[to[l]]
    BY <1>9
  <2>3. /\ key[to[k]] = Score(Details(order[both[k]]), f)
        /\ key[to[l]] = Score(Details(order[both[l]]), f)
    BY <1>5, <1>11, <2>2
  <2>4. to[k] < to[l] => both[k] < both[l]
    BY <1>3, <2>2
  <2> HIDE DEF both
  <2> QED
    BY <2>1, <2>3, <2>4 DEF Precedes
<1> HIDE DEF both
<1> QED
  BY <1>8, <1>10, <1>11, <1>12 DEF S, page

(* A ticket that was filed fits every search for its incident.             *)
LEMMA FiledFits ==
  ASSUME IInv, NEW r \in Requests, pc[r] = "answered", NEW f \in SearchesFor(body[r].incident)
  PROVE  Fits(tid[r], f)
<1> DEFINE p == Profile(body[r].incident)
           t == [asset_id |-> p.asset_id, site |-> p.site, fragments |-> p.fragments,
                 status |-> "open"]
<1>1. tid[r] \notin SeedIds /\ tickets[tid[r]].incident = body[r].incident
  <2>1. tid[r] > FirstOffset /\ tid[r] \in Nat /\ FirstOffset \in Nat /\ SeedIds \subseteq 0..FirstOffset
    BY StoreAssumption DEF IInv, TypeOK, IdRange, HasId
  <2>2. tickets[tid[r]] = TicketOf(r)
    BY DEF IInv, TableInv, HasTicket
  <2> QED
    BY <2>1, <2>2 DEF TicketOf
<1>2. Details(tid[r]) = t
  BY <1>1 DEF Details
<1>3. /\ f.asset_id \in {None, t.asset_id} /\ f.site \in {None, t.site}
      /\ f.status \in {None, t.status} /\ f.text \in {None} \cup t.fragments
      /\ f.asset_id # None \/ f.site # None \/ f.status # None \/ f.text # None
  BY DEF SearchesFor
<1> HIDE DEF t
<1>4. f.text = None => Score(t, f) > 0
  BY <1>3 DEF Score
<1> QED
  BY <1>2, <1>3, <1>4 DEF Fits, Candidate

LEMMA FoundWhereItRanks == IInv /\ OrderInv => FiledIsFound
<1> SUFFICES ASSUME IInv, OrderInv, NEW r \in Requests, pc[r] = "answered",
                    NEW f \in SearchesFor(body[r].incident)
             PROVE  LET page  == Search(f, Len(order))
                        place(id) == CHOOSE i \in DOMAIN order : order[i] = id
                        mine  == Score(Details(tid[r]), f)
                        Ahead(id) == LET theirs == Score(Details(id), f)
                                     IN  theirs > mine \/ (theirs = mine /\ place(id) < place(tid[r]))
                    IN  \E k \in DOMAIN page : page[k] = tid[r] /\ \A j \in 1..k - 1 : Ahead(page[j])
  BY DEF FiledIsFound
<1> DEFINE page == Search(f, Len(order))
           S == {i \in DOMAIN order : Fits(order[i], f)}
           n == Len(page)
           Place(id) == CHOOSE i \in DOMAIN order : order[i] = id
           mine == Score(Details(tid[r]), f)
<1>1. PICK at :
        /\ Chooses(at, n, S)
        /\ DOMAIN page = 1..n
        /\ \A k \in 1..n : page[k] = order[at[k]]
        /\ \A k, l \in 1..n : k < l => Precedes(at[k], at[l], f)
  BY SearchedRows
<1>2. PICK p \in DOMAIN order : order[p] = tid[r]
  BY DEF OrderInv, IInv, TableInv, HasTicket
<1>3. p \in S
  BY <1>2, FiledFits
<1>4. \A i \in DOMAIN order : Place(order[i]) = i
  BY DEF OrderInv
<1> HIDE DEF page, S, n, Place
<1>5. n \in Nat /\ at \in [1..n -> S] /\ \A i \in S : i \in DOMAIN order
  BY <1>1 DEF Chooses, S
<1>6. PICK k \in 1..n : at[k] = p
  BY <1>1, <1>3 DEF Chooses
<1>7. page[k] = tid[r] /\ k \in DOMAIN page
  BY <1>1, <1>2, <1>6
<1>8. ASSUME NEW j \in 1..k - 1
      PROVE  \/ Score(Details(page[j]), f) > mine
             \/ Score(Details(page[j]), f) = mine /\ Place(page[j]) < Place(tid[r])
  <2>1. j \in 1..n /\ j < k
    BY <1>5
  <2>2. page[j] = order[at[j]] /\ Precedes(at[j], p, f)
    BY <1>1, <1>6, <2>1
  <2>3. Place(page[j]) = at[j] /\ Place(tid[r]) = p
    BY <1>2, <1>4, <1>5, <2>1, <2>2
  <2> QED
    BY <1>2, <2>2, <2>3 DEF Precedes
<1> QED
  BY <1>7, <1>8 DEF page, Place

(* A search changes nothing and adds no step to the service.               *)
LEMMA SearchIsTheService == SearchSpec => Spec
<1>1. SearchInit => Init
  BY DEF SearchInit
<1>2. [SearchNext]_<<vars, order>> => [Next]_vars
  BY DEF SearchNext
<1> QED
  BY <1>1, <1>2, PTL DEF SearchSpec, Spec

(* The order of the dict lists the table, each id once, whatever handlers  *)
(* interleave: so every search ranks what it ought to.                     *)
THEOREM OrderIsTheTable == SearchSpec => []OrderInv
<1>1. SearchSpec => []IInv
  BY SearchIsTheService, Inductive, PTL
<1>2. IInv => TypeOK
  BY DEF IInv
<1>3. TypeOK' /\ OrderInv /\ [SearchNext]_<<vars, order>> => OrderInv'
  BY OrderStep
<1> QED
  BY <1>1, <1>2, <1>3, OrderInit, PTL DEF SearchSpec

(* A caller that was answered finds its ticket by whatever it knows of the *)
(* incident, behind only those that score more or are as good and older:   *)
(* search_tickets neither drops nor misplaces what POST /tickets/draft     *)
(* has filed.                                                              *)
THEOREM FiledTicketsAreFound == SearchSpec => []FiledIsFound
<1>1. SearchSpec => []IInv
  BY SearchIsTheService, Inductive, PTL
<1> QED
  BY <1>1, OrderIsTheTable, FoundWhereItRanks, PTL
=============================================================================
