------------------------------- MODULE MC_Agents -------------------------------
(* An agent, and the flush worker, which does not leave.  They have one stream
   less than their pools would take. *)
EXTENDS Agents, TLC

CONSTANTS agent, flush

MCUsers == {agent, flush}
MCAgents == {agent}
MCPoolSize == (agent :> 2) @@ (flush :> 1)

===============================================================================
