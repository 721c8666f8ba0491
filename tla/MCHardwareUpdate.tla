-------------------------- MODULE MCHardwareUpdate --------------------------
(***************************************************************************)
(* HardwareUpdate with the constants of the sample: the displays are two   *)
(* versions of one package, q and m the interfaces of the IPC itself.      *)
(***************************************************************************)
EXTENDS HardwareUpdate

CONSTANTS q, m

MCFamily == [d \in Descriptors |-> IF d \in Displays THEN "contoso" ELSE IF d = q THEN "query" ELSE "manager"]
MCVersion == [d \in Descriptors |->
  CASE d = contoso_200401 -> 200401 [] d = contoso_480401 -> 480401 [] OTHER -> 1]
MCRequest == [c \in Clients |-> [family |-> "contoso", version |-> AnyVersion]]
QueryAndManager == <<q, m>>
=============================================================================
