---------------------------- MODULE MCAgentDelivery ----------------------------
(* Calls that are alike may be exchanged, and so may files.                *)
EXTENDS AgentDelivery, TLC

DeliverySymmetry == Permutations(Agents) \union Permutations(Files)
=============================================================================
