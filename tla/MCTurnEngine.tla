---------------------------- MODULE MCTurnEngine ----------------------------
(* The turn engine on small instances; the .cfg files give the constants.   *)
EXTENDS TurnEngine

ToolsAndQuestions == {"tool", "ask"}
ToolsAndRejects   == {"tool", "bad"}
ToolsOnly         == {"tool"}
=============================================================================
