----------------------------- MODULE MCTelemetry -----------------------------
(***************************************************************************)
(* Telemetry with the constants of the sample; q and m are the interfaces  *)
(* of the IPC itself.                                                      *)
(***************************************************************************)
EXTENDS Telemetry

CONSTANTS q, m

MCFamily == [d \in Descriptors |->
  CASE d = sensors_1 -> "sensors" [] d = q -> "query" [] OTHER -> "manager"]
MCVersion == [d \in Descriptors |-> 1]
MCRequest == [c \in Clients |-> [family |-> "sensors", version |-> AnyVersion]]
QueryAndManager == <<q, m>>
=============================================================================
