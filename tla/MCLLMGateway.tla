---------------------------- MODULE MCLLMGateway ----------------------------
(***************************************************************************)
(* Instances of LLMGateway: up to three prompts in a row, each similar to  *)
(* the next one only.                                                      *)
(***************************************************************************)
EXTENDS LLMGateway

CONSTANTS p1, p2, p3

MCNear == {e \in Prompts \X Prompts :
             e[1] = e[2] \/ e \in {<<p1, p2>>, <<p2, p1>>, <<p2, p3>>, <<p3, p2>>}}
=============================================================================
