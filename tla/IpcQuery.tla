------------------------------- MODULE IpcQuery -------------------------------
(***************************************************************************)
(* The interfaces the IPC itself publishes, on top of module Ipc: the      *)
(* query interface, whose clients list the table page by page while it     *)
(* changes between the pages, and the interface manager interface, whose   *)
(* command names the new default in JSON fields.                           *)
(***************************************************************************)
EXTENDS Ipc, MethodName, FiniteSetsExt

CONSTANTS
  EntrySize,            \* descriptor -> bytes of its quoted name in a page
  ResultSize,           \* bytes of the buffer for a page
  Commands              \* the JSON objects sent to the interface manager

\* A name in Ipc, spelled out: a family is a package and interface name.version.  An
\* interface version is not 0: az_ulib_ipc_publish refuses it.
ASSUME FamilyIsSpelledOut ==
  /\ Family \in [Descriptors -> [package_name : Words, interface_name : Words,
                                interface_version : DOMAIN Numeral \ {AZ_ULIB_VERSION_DEFAULT}]]
  /\ \A d \in Descriptors : Version[d] \in DOMAIN Numeral

Query == Owned[1]

VARIABLE listing        \* client -> its listing

\* next is the count of the continuation token, 0 before query and after EOF;
\* steady are the interfaces published ever since query, reported says how often
\* each interface was in a page.
NoListing == [next |-> 0, steady |-> {}, reported |-> [d \in Descriptors |-> 0]]

queryVars == <<vars, listing>>

-----------------------------------------------------------------------------
(***************************************************************************)
(* report_interfaces: as many entries as fit, in the order of the slots.   *)
(***************************************************************************)
Listed == {descriptor[s] : s \in Slots} \ {NoDescriptor}

Occupied(from, to) == {s \in Slots : s \in from..to /\ descriptor[s] # NoDescriptor}

\* The bytes of a page with these slots: the entries and the commas between them.
PageBytes(S) == MapThenSumSet(LAMBDA s : EntrySize[descriptor[s]], S) + Cardinality(S) - 1

\* The slot whose entry does not fit any more.
PageEnd(start) ==
  Min({e \in start..MaxInterfaces + 1 :
         e = MaxInterfaces + 1
           \/ (descriptor[e] # NoDescriptor /\ PageBytes(Occupied(start, e)) > ResultSize)})

Page(start) == Occupied(start, PageEnd(start) - 1)

\* The next page begins with it.
\* Mutant: the next page begins behind it.
NextPage_Skips(start) == PageEnd(start) + 1
NextPage(start) == PageEnd(start)

report_interfaces(start) ==
  IF Occupied(start, MaxInterfaces) = {} THEN "AZ_ULIB_EOF"
  ELSE IF Page(start) = {} THEN "AZ_ERROR_NOT_ENOUGH_SPACE"
  ELSE "AZ_OK"

-----------------------------------------------------------------------------
(***************************************************************************)
(* query and query_next, called through a handle of the query interface.   *)
(***************************************************************************)

\* A page goes to the client, and the token with it.
Report(c, start, base) ==
  listing' = [listing EXCEPT ![c] =
    [base EXCEPT !.next = NextPage(start),
                 !.reported = [d \in Descriptors |->
                    @[d] + Cardinality({s \in Page(start) : descriptor[s] = d})]]]

az_ulib_ipc_query(c) ==
  /\ LockFree
  /\ report_interfaces(1) = "AZ_OK"
  /\ Report(c, 1, [NoListing EXCEPT !.steady = Listed])
  /\ UNCHANGED vars

\* Without space for one entry the token stays as it is.
az_ulib_ipc_query_next(c) ==
  /\ LockFree
  /\ listing[c].next > 0
  /\ \/ /\ report_interfaces(listing[c].next) = "AZ_OK"
        /\ Report(c, listing[c].next, listing[c])
     \/ /\ report_interfaces(listing[c].next) = "AZ_ULIB_EOF"
        /\ listing' = [listing EXCEPT ![c] = NoListing]
  /\ UNCHANGED vars

\* az_ulib_ipc_call and az_ulib_ipc_call_with_str: only who holds the interface.
MayCall(c, d) == phase = "up" /\ holding[c] /\ CallTarget(c) = d

query_1_query(c) == MayCall(c, Query) /\ az_ulib_ipc_query(c)
query_1_next(c) == MayCall(c, Query) /\ az_ulib_ipc_query_next(c)

-----------------------------------------------------------------------------
(***************************************************************************)
(* The set_default command of the interface manager.  A field of the JSON  *)
(* object is a pair <<name, value>>; later fields overwrite earlier ones.  *)
(***************************************************************************)
EmptyModel ==
  [result |-> "AZ_OK",
   package_name |-> << >>, package_version |-> AZ_ULIB_VERSION_DEFAULT,
   interface_name |-> << >>, interface_version |-> AZ_ULIB_VERSION_DEFAULT]

\* An error ends the loop over the fields.
Unmarshal(model, field) ==
  IF model.result # "AZ_OK" THEN model
  ELSE IF field[1] = "interface"
  THEN LET split == az_ulib_ipc_split_method_name(field[2]) IN
       IF split.result = "AZ_OK" THEN [f \in DOMAIN model |-> split[f]]
       ELSE [model EXCEPT !.result = split.result]
  ELSE [model EXCEPT ![field[1]] = field[2]]

ModelIn(command) ==
  LET model[n \in 0..Len(command)] ==
        IF n = 0 THEN EmptyModel ELSE Unmarshal(model[n - 1], command[n])
  IN model[Len(command)]

\* Else AZ_ERROR_ARG, or what split_method_name returned.
IsComplete(model) ==
  /\ model.result = "AZ_OK"
  /\ model.package_name # << >> /\ model.package_version # AZ_ULIB_VERSION_DEFAULT
  /\ model.interface_name # << >> /\ model.interface_version # AZ_ULIB_VERSION_DEFAULT

TargetName(model) ==
  [family |-> [package_name |-> model.package_name[1],
               interface_name |-> model.interface_name[1],
               interface_version |-> model.interface_version],
   version |-> model.package_version]

SetDefaultCommand(t, command) ==
  /\ IsComplete(ModelIn(command))
  /\ set_default(t, TargetName(ModelIn(command)))

-----------------------------------------------------------------------------
QueryInit == Init /\ listing = [c \in Clients |-> NoListing]

\* An interface that leaves the table is not steady any more.
Observe ==
  listing' = [c \in Clients |->
    [listing[c] EXCEPT !.steady = @ \cap {descriptor'[s] : s \in Slots}]]

QueryNext ==
  \/ \E c \in Clients : query_1_query(c) \/ query_1_next(c)
  \/ (Next \/ \E t \in Threads, command \in Commands : SetDefaultCommand(t, command)) /\ Observe

QuerySpec == QueryInit /\ [][QueryNext]_queryVars

-----------------------------------------------------------------------------
\* However the table changes between two pages, when query_next answers EOF every
\* interface that was published all the time has been in exactly one page.
ListingIsComplete ==
  [][\A c \in Clients :
       listing[c].next # 0 /\ listing'[c].next = 0 =>
         \A d \in listing[c].steady : listing[c].reported[d] = 1]_queryVars

\* The ways to write the name of an interface to the manager: with a device or a
\* capability around it, or field by field in any order.
WaysToWrite(d) ==
  LET f == Family[d]
      full == concat_full_name(f.package_name, Version[d], f.interface_name, f.interface_version)
      fields == << <<"package_name", <<f.package_name>> >>, <<"package_version", Version[d]>>,
                   <<"interface_name", <<f.interface_name>> >>,
                   <<"interface_version", f.interface_version>> >>
  IN {<< <<"interface", full>> >>,
      << <<"interface", <<"device", "@">> \o full>> >>,
      << <<"interface", full \o <<":", "capability">> >> >>,
      << <<"interface", <<"device", "@">> \o full \o <<":", "capability">> >> >>}
      \cup {[n \in 1..4 |-> fields[order[n]]] : order \in Injection(1..4, 1..4)}

Understood == [d \in Descriptors |-> {ModelIn(command) : command \in WaysToWrite(d)}]

\* The names query reports, and that are the keys of the registry, are names
\* split_method_name takes apart: the command reaches the interface they are of.
NamesLeadBack ==
  \A s \in Slots : Published(s) =>
    \A model \in Understood[descriptor[s]] :
      IsComplete(model) /\ lookup_interface(TargetName(model)) = s
===============================================================================
