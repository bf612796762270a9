---------------------------- MODULE MCAgentGateway ----------------------------
(* Instances of AgentGateway for TLC: one agent, one assignment that may be *)
(* asked for in two versions, two proposals, and a NO_TRADE under the id of *)
(* the second.                                                              *)
EXTENDS AgentGateway, TLC

Proposal(id, context, confident) ==
    [id |-> id, kind |-> "TRADE_PROPOSAL", agent |-> "trader", assignment |-> "A",
     artifact |-> "v1", side |-> "BUY", stop |-> 1, reference |-> 2, target |-> 3, risk |-> 1, reasons |-> TRUE, cites |-> TRUE, confident |-> confident,
     submitted |-> 0, expires |-> 3, context |-> context]

MCDecisions ==
    {Proposal(1, 1, FALSE), Proposal(2, 2, TRUE),
     [id |-> 2, kind |-> "NO_TRADE", agent |-> "trader", assignment |-> "A", context |-> 1]}

MCAssignments ==
    {[id |-> "A", agent |-> "trader", artifact |-> v, from |-> 0, until |-> 3, max |-> 1,
      minRisk |-> 1, maxRisk |-> 2, needsEvidence |-> TRUE] : v \in {"v1", "v2"}}
===============================================================================
