------------------------------ MODULE MCOutputs ------------------------------
(***************************************************************************)
(* A laptop and one external output: a profile for the panel alone, and a  *)
(* better one for the desk, in force at the start.  The user edits the     *)
(* desk's eDP policy; its layout keeps the panel on, as `profile save`     *)
(* with the lid open writes it.                                            *)
(***************************************************************************)
EXTENDS Outputs

Two       == {"laptop", "desk"}
TwoNeeds  == [p \in Two |-> IF p = "laptop" THEN {"eDP"} ELSE {"ext"}]
TwoRank   == [p \in Two |-> IF p = "laptop" THEN 1 ELSE 2]
TwoLayout == [p \in Two |-> "on"]
TwoPolicy == [p \in Two |-> "auto"]
DeskEdits == {<<"desk", "disable">>, <<"desk", "enable">>}
DeskLink  == {"desk"}
=============================================================================
