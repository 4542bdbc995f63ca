------------------------------- MODULE MCEdge -------------------------------
(***************************************************************************)
(* The parts at the edge, each explored by itself: a managed device        *)
(* (AgentPlane), the Linux tunnel service (TunnelService) and the panel's  *)
(* own core (ManagedCore).  `part' says which one moves; the others keep   *)
(* a state in which nothing is due.                                        *)
(***************************************************************************)
EXTENDS AgentPlane, TunnelService, ManagedCore

VARIABLE part

edgeVars == <<agentVars, tunnelVars, selfVars, part>>

EdgeInit ==
    /\ part \in {"agent", "tunnel", "self"}
    /\ AgentInit /\ (part # "agent" => disk.cred = 0 /\ panel.target = 11 /\ disk.settings = 21)
    /\ TunnelInit
    /\ SelfInit /\ (part # "self" => self = [conf |-> 1, on |-> FALSE])

AgentMoves  == part = "agent" /\ AgentNext /\ UNCHANGED <<tunnelVars, selfVars, part>>
TunnelMoves == part = "tunnel" /\ TunnelNext /\ UNCHANGED <<agentVars, selfVars, part>>
SelfMoves   == part = "self" /\ SelfNext /\ UNCHANGED <<agentVars, tunnelVars, part>>

\* The fairness of the agent and of the panel's core, while one of them moves.
EdgeFairness ==
    /\ WF_agentVars(part = "agent" /\ AgentWork) /\ WF_agentVars(part = "agent" /\ UISwap)
    /\ WF_selfVars(part = "self" /\ LoopCycle) /\ WF_selfVars(part = "self" /\ BackoffEnds)
    /\ WF_selfVars(part = "self" /\ ChildReloads)

EdgeSpec == EdgeInit /\ [][AgentMoves \/ TunnelMoves \/ SelfMoves]_edgeVars /\ EdgeFairness
=============================================================================
