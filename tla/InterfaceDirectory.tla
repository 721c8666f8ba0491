------------------------- MODULE InterfaceDirectory -------------------------
(***************************************************************************)
(* What the IPC promises its users: a directory of interfaces in which a   *)
(* name is published at most once, a client is given an interface that     *)
(* answers the name it asked for, and an interface stays in the directory  *)
(* as long as a client uses it.                                            *)
(***************************************************************************)
CONSTANTS Clients, Descriptors, Family, Version, Request, NoDescriptor

VARIABLES
  published,     \* the descriptors a client can find
  users          \* the interface each client uses, or NoDescriptor

vars == <<published, users>>

AnyVersion == 0
SameName(d, e) == Family[d] = Family[e] /\ Version[d] = Version[e]
Fits(c, d) == /\ Family[d] = Request[c].family
              /\ Request[c].version \in {AnyVersion, Version[d]}

Init == published = {} /\ users = [c \in Clients |-> NoDescriptor]

Publish(d) ==
  /\ \A e \in published : ~SameName(d, e)
  /\ published' = published \cup {d}
  /\ UNCHANGED users

Withdraw(d) ==
  /\ d \in published
  /\ \A c \in Clients : users[c] # d
  /\ published' = published \ {d}
  /\ UNCHANGED users

Acquire(c, d) ==
  /\ users[c] = NoDescriptor
  /\ d \in published /\ Fits(c, d)
  /\ users' = [users EXCEPT ![c] = d]
  /\ UNCHANGED published

Release(c) ==
  /\ users[c] # NoDescriptor
  /\ users' = [users EXCEPT ![c] = NoDescriptor]
  /\ UNCHANGED published

\* A power cycle empties the directory and its users with it.
PowerCycle == published' = {} /\ users' = [c \in Clients |-> NoDescriptor]

Next ==
  \/ \E d \in Descriptors : Publish(d) \/ Withdraw(d)
  \/ \E c \in Clients : Release(c) \/ \E d \in Descriptors : Acquire(c, d)
  \/ PowerCycle

Spec == Init /\ [][Next]_vars
=============================================================================
