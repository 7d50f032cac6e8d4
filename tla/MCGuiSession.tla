---------------------------- MODULE MCGuiSession ----------------------------
(* Two incidents and two stagings: a dismissed dialog can come back over    *)
(* another incident, and an approval can be made after another.             *)
EXTENDS GuiSession, TLC

CONSTANTS i1, i2

MCIncidents == {i1, i2}
Perms       == Permutations(MCIncidents)
=============================================================================
