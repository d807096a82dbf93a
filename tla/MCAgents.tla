------------------------------ MODULE MCAgents ------------------------------
(* Instances of Agents for TLC, with a session of one frame.                *)
EXTENDS Agents
=============================================================================
