------------------------------ MODULE AlarmApi ------------------------------
(***************************************************************************)
(* The alarm API simulator: the seeded assets, alarms and past tickets,    *)
(* and what its routes answer.  All of it is read-only but for the         *)
(* calculations, which no tool of the MCP server reaches.                  *)
(*                                                                         *)
(* A text is the set of the lower-case fragments a query may look for, and *)
(* a query is one fragment.  An instant is counted in quarters of an hour  *)
(* from 15 June 2026, 00:00 UTC.  Naive stands for a time without a zone,  *)
(* which Python cannot compare with the seeded ones, all in UTC.           *)
(***************************************************************************)
EXTENDS Integers, Sequences, FiniteSets, Functions, Rows

CONSTANTS Naive,   \* an instant without a time zone
          Blank    \* the empty string

ASSUME ApiAssumption == Cardinality({None, Naive, Blank}) = 3

-----------------------------------------------------------------------------
(* The seed.                                                               *)
AnAsset(id, site, unit, fragments) ==
  [id |-> id, site |-> site, unit |-> unit, fragments |-> fragments]

SeedAssets ==
  << AnAsset("bfp-101",  "EastRefinery", "Unit 1", {"boiler", "bfp 101", "refinery"}),
     AnAsset("bfp-102",  "EastRefinery", "Unit 1", {"boiler", "bfp 102", "refinery"}),
     AnAsset("comp-c1",  "NorthPlant",   "Unit 2", {"compressor", "plant"}),
     AnAsset("motor-m1", "SouthPlant",   "Unit 5", {"motor", "plant"}),
     AnAsset("motor-m2", "SouthPlant",   "Unit 5", {"motor", "plant"}),
     AnAsset("motor-m3", "SouthPlant",   "Unit 5", {"motor", "plant"}),
     AnAsset("bfp-201",  "WestRefinery", "Unit 4", {"boiler", "bfp 201", "refinery"}) >>

At(day, hour, quarter) == 96 * (day - 15) + 4 * hour + quarter

AnAlarm(id, asset, severity, raised, acknowledged) ==
  [id |-> id, asset_id |-> asset, severity |-> severity,
   raised_at |-> raised, acknowledged |-> acknowledged]

SeedAlarms ==
  << AnAlarm("bfp-101-001",  "bfp-101",  "critical", At(15, 8, 0),  FALSE),
     AnAlarm("bfp-101-002",  "bfp-101",  "high",     At(15, 9, 0),  FALSE),
     AnAlarm("bfp-101-003",  "bfp-101",  "medium",   At(16, 10, 0), TRUE),
     AnAlarm("comp-c1-001",  "comp-c1",  "high",     At(17, 11, 0), FALSE),
     AnAlarm("comp-c1-002",  "comp-c1",  "low",      At(18, 12, 0), TRUE),
     AnAlarm("motor-m1-001", "motor-m1", "medium",   At(19, 13, 0), FALSE),
     AnAlarm("motor-m2-001", "motor-m2", "medium",   At(22, 9, 2),  FALSE),
     AnAlarm("motor-m3-001", "motor-m3", "low",      At(23, 14, 1), TRUE),
     AnAlarm("bfp-201-001",  "bfp-201",  "high",     At(20, 14, 0), FALSE),
     AnAlarm("bfp-201-002",  "bfp-201",  "low",      At(21, 15, 0), TRUE) >>

ATicket(id, site, class, similarity) ==
  [id |-> id, site |-> site, asset_class |-> class, similarity |-> similarity]

SeedTickets ==
  << ATicket("TKT-1042", "EastRefinery", "boiler",        86),
     ATicket("TKT-1108", "EastRefinery", "boiler",        79),
     ATicket("TKT-1231", "NorthPlant",   "compressor",    71),
     ATicket("TKT-1349", "WestRefinery", "cooling_water", 62),
     ATicket("TKT-1410", "EastRefinery", "site",          55) >>

Severities == {"low", "medium", "high", "critical"}
Assets == Range(SeedAssets)
Alarms == Range(SeedAlarms)

-----------------------------------------------------------------------------
(* The time filters run one after the other, and comparing with a naive    *)
(* instant raises a TypeError as soon as there is a row to compare.        *)
Since(rows, start) ==
  IF start \in {None, Naive} THEN rows
                             ELSE Kept(rows, LAMBDA a : a.raised_at >= start)

Until(rows, end) ==
  IF end \in {None, Naive} THEN rows
                           ELSE Kept(rows, LAMBDA a : a.raised_at <= end)

TimeRaises(rows, start, end) ==
  \/ start = Naive /\ rows # << >>
  \/ end = Naive /\ Since(rows, start) # << >>

-----------------------------------------------------------------------------
(* GET /assets/search.  The unit of a query is compared with the unit of   *)
(* the asset, then with the end of its name - no seeded name ends in a     *)
(* unit - for which a blank one has no last word.                          *)
SearchAssets(p) ==
  LET found == Kept(SeedAssets, LAMBDA a : p.query \in a.fragments)
  IN  Limit(Kept(found, LAMBDA a : p.unit \in {None, a.unit}), p.limit)

SearchRaises(p) ==
  p.unit = Blank /\ \E a \in Assets : p.query \in a.fragments

(* GET /alarms: the rows before the time filters, and the page of those    *)
(* the time filters leave, newest first.                                   *)
AssetIdsIn(site, unit) ==
  {a.id : a \in {b \in Assets : site \in {None, b.site} /\ unit \in {None, b.unit}}}

ListScope(p) ==
  Kept(SeedAlarms, LAMBDA a : /\ p.asset_id \in {None, a.asset_id}
                              /\ p.severity \in {None, a.severity}
                              /\ p.site # None => a.asset_id \in AssetIdsIn(p.site, None))

ListFiltered(p) == Until(Since(ListScope(p), p.start_time), p.end_time)

(* Mutant: the oldest rows make the page.                                  *)
ListPageAscending(p) ==
  Limit(Descending(ListFiltered(p), LAMBDA a : 0 - a.raised_at), p.page_size)

ListPage(p) ==
  Limit(Descending(ListFiltered(p), LAMBDA a : a.raised_at), p.page_size)

(* GET /alarms/{alarm_id} and POST /recommendations/operator-actions.      *)
AlarmOf(id) == CHOOSE a \in Alarms : a.id = id
Known(id) == \E a \in Alarms : a.id = id

PriorityScore(a) ==
  [low |-> 25, medium |-> 50, high |-> 75, critical |-> 100][a.severity]

Recommendation(a) ==
  [alarm_id |-> a.id,
   priority_score |-> PriorityScore(a),
   actions |-> (IF a.severity \in {"high", "critical"} THEN <<"dispatch">> ELSE << >>)
               \o (IF a.severity = "critical" THEN <<"escalate">> ELSE << >>)
               \o <<"history">>]

(* GET /tickets/similar: the text ranks nothing, the seed is ranked.       *)
SimilarTickets(p) ==
  LET kept == Kept(SeedTickets, LAMBDA t : /\ p.site \in {None, t.site}
                                           /\ p.asset_class \in {None, t.asset_class})
  IN  Limit(Descending(kept, LAMBDA t : t.similarity), p.limit)
=============================================================================
