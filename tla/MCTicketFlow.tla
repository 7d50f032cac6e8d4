---------------------------- MODULE MCTicketFlow ----------------------------
(* Two runs of the create step over two incidents, so that the late end of *)
(* one the operator gave up on overlaps with the other.                    *)
EXTENDS TicketFlow, TLC

CONSTANTS i1, i2, alice

MCIncidents == {i1, i2}
MCAssignees == {alice}
Perms       == Permutations(MCIncidents)
=============================================================================
