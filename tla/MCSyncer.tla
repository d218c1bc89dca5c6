------------------------------ MODULE MCSyncer ------------------------------
(* The instances of Syncer that TLC checks. *)
EXTENDS Syncer

Scenario(hazards, n) == [hazards |-> hazards, writes |-> n]

MCScenarios ==
  {Scenario({}, 3),
   Scenario({"busy", "slow", "net", "open"}, 2),
   Scenario({"busy", "slow", "delete", "net", "open"}, 2),
   Scenario({"busy", "slow", "delete", "net", "xmpp"}, 2)}
BusyScenarios == {Scenario({"busy"}, 3)}
LogoutScenarios == {Scenario({"busy", "xmpp"}, 2)}
=============================================================================
