---------------------------- MODULE TicketSearch ----------------------------
(***************************************************************************)
(* GET /tickets/search on the table that POST /tickets/draft fills.        *)
(*                                                                         *)
(* A search takes a snapshot of the table under the lock and ranks it; it  *)
(* changes nothing.  Rows of equal score keep the order of the dict, which *)
(* is the order the ids were inserted in, so that order is tracked beside  *)
(* the table.  Scores are counted in tenths.  Every id the model reaches   *)
(* is as long as the others, so the length in the sort key decides nothing.*)
(***************************************************************************)
EXTENDS TicketStore, Rows, SequencesExt

CONSTANTS Profile(_),    \* asset_id, site and fragments of an incident
          SeedTicket(_), \* the same of a seeded ticket, and its status
          SeedOrder      \* the seeded ids as _SEED_TICKETS lists them

(* The seed lists every seeded id, and none twice.                         *)
ASSUME SearchAssumption ==
  /\ SeedOrder \in Seq(SeedIds)
  /\ \A id \in SeedIds : \E i \in DOMAIN SeedOrder : SeedOrder[i] = id
  /\ \A i, j \in DOMAIN SeedOrder : SeedOrder[i] = SeedOrder[j] => i = j

VARIABLE order   \* the keys of TicketStore._tickets, as the dict yields them

SearchInit == Init /\ order = SeedOrder

(* A new key goes last; a key that is assigned again keeps its place; a    *)
(* new process starts from the seed.                                       *)
OrderFollows ==
  order' = IF DOMAIN tickets' = SeedIds THEN SeedOrder
           ELSE order \o SetToSeq(DOMAIN tickets' \ DOMAIN tickets)

SearchNext == Next /\ OrderFollows

SearchSpec == SearchInit /\ [][SearchNext]_<<vars, order>> /\ Fairness

-----------------------------------------------------------------------------
(* What search reads of a ticket; a drafted ticket is open.                *)
Details(id) ==
  IF id \in SeedIds THEN SeedTicket(id)
  ELSE LET p == Profile(tickets[id].incident)
       IN  [asset_id |-> p.asset_id, site |-> p.site, fragments |-> p.fragments,
            status |-> "open"]

Score(t, f) ==
    (IF f.asset_id # None /\ t.asset_id = f.asset_id THEN 10 ELSE 0)
  + (IF f.site # None /\ t.site = f.site THEN 2 ELSE 0)
  + (IF f.status # None /\ t.status = f.status THEN 5 ELSE 0)
  + (IF f.text # None /\ f.text \in t.fragments THEN 5 ELSE 0)

Candidate(t, f) ==
  /\ f.asset_id \in {None, t.asset_id}
  /\ f.site \in {None, t.site}
  /\ f.status \in {None, t.status}

(* Every filter but the text is hard.  Without a text, a row that scores   *)
(* nothing is left out; with one, a row that does not hold it stays.       *)
Fits(id, f) ==
  /\ Candidate(Details(id), f)
  /\ f.text = None => Score(Details(id), f) > 0

(* Mutant: a lone site match is taken for noise.                           *)
SearchAboveSite(f, limit) ==
  LET kept == Kept(order, LAMBDA id : Fits(id, f) /\ Score(Details(id), f) > 2)
  IN  Limit(Descending(kept, LAMBDA id : Score(Details(id), f)), limit)

Search(f, limit) ==
  LET kept == Kept(order, LAMBDA id : Fits(id, f))
  IN  Limit(Descending(kept, LAMBDA id : Score(Details(id), f)), limit)

-----------------------------------------------------------------------------
(* The searches that ask for a ticket of an incident by what is known of   *)
(* it, in any combination.                                                 *)
SearchesFor(incident) ==
  LET p == Profile(incident)
      all == [asset_id : {None, p.asset_id}, site : {None, p.site},
              status : {None, "open"}, text : {None} \cup p.fragments]
  IN  {f \in all : f # [asset_id |-> None, site |-> None, status |-> None, text |-> None]}

(* A caller that was answered 200 finds its ticket by whatever it knows of *)
(* the incident: the limit only cuts it off behind tickets that score more *)
(* or, of those that score the same, older ones.  So an operator who looks *)
(* before filing again is not told that there is nothing.                  *)
FiledIsFound ==
  \A r \in Requests : pc[r] = "answered" =>
    \A f \in SearchesFor(body[r].incident) :
      LET page  == Search(f, Len(order))
          place(id) == CHOOSE i \in DOMAIN order : order[i] = id
          mine  == Score(Details(tid[r]), f)
          Ahead(id) == LET theirs == Score(Details(id), f)
                       IN  theirs > mine \/ (theirs = mine /\ place(id) < place(tid[r]))
      IN  \E k \in DOMAIN page : page[k] = tid[r] /\ \A j \in 1..k - 1 : Ahead(page[j])
=============================================================================
