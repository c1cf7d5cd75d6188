---------------------------- MODULE MCCatalogue ----------------------------
(* The whole catalogue, on every release from 5.0 to 8.0 and a pre-release of 8.0. *)
EXTENDS Catalogue

Release(at) == [at |-> at, pre |-> FALSE]
MCVersion ==
  {Release(at) : at \in {50, 52, 54, 60, 62, 64, 70, 72, 74, 80}} \cup {[at |-> 80, pre |-> TRUE]}

Config(tools, disabled, writeTools) ==
  [tools |-> tools, disabled |-> disabled, writeTools |-> writeTools]
MCChoice == {Config(All, {}, TRUE), Config(DOMAIN ToolGroups, {"users"}, TRUE),
             Config(DOMAIN ToolGroups, {}, FALSE)}
=============================================================================
