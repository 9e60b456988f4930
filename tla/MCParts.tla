------------------------------- MODULE MCParts -------------------------------
(***************************************************************************)
(* The gateway sinks, the operator's files and the operations that keep no *)
(* state: three parts of the runtime with no variable in common.  They are *)
(* checked side by side, a behaviour being one of any of them: what two    *)
(* parts did in turn would show nothing that each does not show alone.     *)
(* The properties stand with the parts.                                    *)
(***************************************************************************)
EXTENDS MCGatewaySink, MCOperatorState, MCOperations

VARIABLE part   \* the part that this behaviour is of

PartsInit ==
    /\ part \in {"sinks", "operator", "operation"}
    /\ SinkInit /\ Init /\ OperationInit

PartsNext ==
    /\ UNCHANGED part
    /\ \/ part = "sinks" /\ SinkNext /\ UNCHANGED <<vars, done>>
       \/ part = "operator" /\ Next /\ UNCHANGED <<sinkVars, done>>
       \/ part = "operation" /\ OperationNext /\ UNCHANGED <<sinkVars, vars>>

PartsSpec == PartsInit /\ [][PartsNext]_<<sinkVars, vars, done, part>>
==============================================================================
