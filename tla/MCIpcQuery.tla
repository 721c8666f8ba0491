----------------------------- MODULE MCIpcQuery -----------------------------
(***************************************************************************)
(* A small instance of IpcQuery: versions 1 and 2 of package "a", the      *)
(* query and the manager interface.  c1 uses the query interface, c2 asks  *)
(* for the default of "a".  A page holds two entries of the three or four. *)
(***************************************************************************)
EXTENDS IpcQuery, TLC

CONSTANTS a1, a2, q, m, t1, t2, c1, c2

Interface(package, interface) ==
  [package_name |-> package, interface_name |-> interface, interface_version |-> 1]

MCFamily == [d \in Descriptors |->
  CASE d \in {a1, a2} -> Interface("a", "cipher")
    [] d = q -> Interface("ipc", "query") [] OTHER -> Interface("ipc", "interface_manager")]
MCVersion == [d \in Descriptors |-> IF d = a2 THEN 2 ELSE 1]

MCRequest == [c \in Clients |->
  [family |-> IF c = c1 THEN Interface("ipc", "query") ELSE Interface("a", "cipher"),
   version |-> IF c = c1 THEN 1 ELSE AnyVersion]]

QueryAndManager == <<q, m>>

MCWords == {"a", "cipher", "ipc", "query", "interface_manager"}
MCNumeral == <<"1", "2">>
MCEntrySize == [d \in Descriptors |-> IF d \in {a1, a2} THEN 10 ELSE 12]

\* Either version of "a" becomes the default; a wildcard is refused.
MCCommands ==
  {<< <<"interface", concat_full_name("a", v, "cipher", 1)>> >> : v \in {1, 2}}
    \cup {<< <<"interface", <<"a", ".", "*", ".", "cipher", ".", "1">> >> >>}

MCSymmetry == Permutations(Threads)
=============================================================================
