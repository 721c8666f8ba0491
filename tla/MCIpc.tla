------------------------------- MODULE MCIpc -------------------------------
(***************************************************************************)
(* Small instances of Ipc.  a1, a2 are versions 1 and 2 of package "a"     *)
(* exposing the same interface; b1 is the only version of package "b"; q   *)
(* and m are the query and manager interfaces of the IPC itself.           *)
(***************************************************************************)
EXTENDS Ipc

CONSTANTS a1, a2, b1, q, m, t1, t2, c1, c2

MCFamily == [d \in Descriptors |->
  CASE d \in {a1, a2} -> "a" [] d = b1 -> "b" [] d = q -> "query" [] OTHER -> "manager"]
MCVersion == [d \in Descriptors |-> IF d = a2 THEN 2 ELSE 1]

\* c1 asks for a version, c2 for the default package.
MCRequest == [c \in Clients |->
  [family |-> "a", version |-> IF c = c2 THEN AnyVersion ELSE 2]]

NoOwned == <<>>
QueryAndManager == <<q, m>>

Pair == {[family |-> "a", version |-> 1], [family |-> "a", version |-> 2]}
=============================================================================
