------------------------ MODULE MCSessionCommands ------------------------
(* One reply of the person that names its runtime, one control that names  *)
(* none; the parent's reply and escalation, all about the first decision.  *)
EXTENDS SessionCommands

MCAbout == [r \in Reply \cup Direct |-> 1]
=============================================================================
