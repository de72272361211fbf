------------------------------ MODULE MCDecision ------------------------------
(* Small instances of the decision service.                                *)
EXTENDS DecisionService
=============================================================================
