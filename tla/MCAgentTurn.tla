---------------------------- MODULE MCAgentTurn ----------------------------
(* Instances of AgentTurn for TLC. *)
EXTENDS AgentTurn, TLC

CONSTANTS k1, k2

Call(parses, claims) == [parses |-> parses, claims |-> claims]
Reads(k) == Call(TRUE, {[key |-> k, access |-> "read"]})
Writes(k) == Call(TRUE, {[key |-> k, access |-> "write"]})
Plain == Call(TRUE, {})
Malformed == Call(FALSE, {})

MCResponses ==
    {<<>>,
     << Writes(k1), Writes(k2), Reads(k1) >>,
     << Malformed, Plain >>}
============================================================================
