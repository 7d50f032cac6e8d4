--------------------------- MODULE MCTicketStore ---------------------------
(* Three concurrent approvals, two incidents of one site, one seeded ticket *)
(* of that site and one restart of the service.                             *)
EXTENDS TicketSearch

CONSTANTS r1, r2, r3, i1, i2

MCRequests  == {r1, r2, r3}
MCIncidents == {i1, i2}
MCSeedIds   == {1}
MCSeedOrder == <<1>>

MCProfile(i) == [asset_id |-> IF i = i1 THEN "bfp-101" ELSE "comp-c1",
                 site |-> "EastRefinery", fragments |-> {IF i = i1 THEN "trip" ELSE "surge"}]

MCSeedTicket(id) == [asset_id |-> "bfp-101", site |-> "EastRefinery",
                     fragments |-> {"trip"}, status |-> "closed"]
=============================================================================
