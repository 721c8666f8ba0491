-------------------------------- MODULE Ipc --------------------------------
(***************************************************************************)
(* The IPC of azure-ulib-c: one singleton control block holding a fixed    *)
(* table of published interfaces, guarded by one lock and backed by a few  *)
(* flag words in the registry (flash).                                     *)
(*                                                                         *)
(* Threads publish, unpublish and choose default packages; clients get,    *)
(* use and release an interface through an az_ulib_ipc_interface_handle.   *)
(* A critical section is one step, except where it writes the registry     *)
(* more than once: then every registry write is a step of its own, so that *)
(* a power cycle or a flash error can fall between two writes.             *)
(***************************************************************************)
EXTENDS Integers, FiniteSets

CONSTANTS
  Threads,              \* callers of publish, unpublish and set_default
  Clients,              \* one element per az_ulib_ipc_interface_handle variable
  Descriptors,          \* az_ulib_interface_descriptor objects
  PublishedByUser,      \* the descriptors the application publishes
  Owned,                \* <<query, manager>>: published by az_ulib_ipc_init
  Family,               \* descriptor -> its package name and interface name.version
  Version,              \* descriptor -> its package version
  Request,              \* client -> the [family, version] it asks for
  DefaultTargets,       \* the [family, version] names given to set_default
  WaitOptions,          \* unpublish waits: a number of polls, or Forever
  MaxInterfaces,        \* AZ_ULIB_CONFIG_MAX_IPC_INTERFACE
  MaxInstances,         \* AZ_ULIB_CONFIG_MAX_IPC_INSTANCES
  MaxPublishCount,      \* bound of the model on publish_count
  LockIsRecursive,      \* ThreadX mutex: TRUE; pthread mutex, SRW lock: FALSE
  MayCrash,             \* power cycles happen
  MayDeinit,            \* the application de-initializes the IPC
  RegistryMayFail,      \* a flash write can return an error
  Forever, NoThread, NoDescriptor

(***************************************************************************)
(* Slots of interface_list are numbered from 1; 0 stands for NULL.         *)
(***************************************************************************)
Slots == 1..MaxInterfaces
NoSlot == 0
AnyVersion == 0                       \* AZ_ULIB_VERSION_DEFAULT

Flags == {"DEFAULT", "ON_HOLD"}
Families == {Family[d] : d \in Descriptors}
NameOf(d) == [family |-> Family[d], version |-> Version[d]]
Names == {NameOf(d) : d \in Descriptors}
OwnedSet == {Owned[i] : i \in DOMAIN Owned}

NoHandle == [slot |-> NoSlot, hash |-> 0]
Handles == [slot : Slots \cup {NoSlot}, hash : Nat]

Waits == Nat \cup {Forever}
IdleCall == [slot |-> NoSlot, old |-> NoSlot, desc |-> NoDescriptor, polls |-> 0]
Calls == [slot : Slots \cup {NoSlot}, old : Slots \cup {NoSlot},
          desc : Descriptors \cup {NoDescriptor}, polls : Waits]

Locations == {"idle", "nested_acquire", "update_old", "add_old",
              "mark_new", "add_new", "poll"}
LockedLocations == Locations \ {"idle", "poll"}

ASSUME ConstantsAssumption ==
  /\ MaxInterfaces \in Nat
  /\ MaxInstances \in Nat \ {0}
  /\ MaxPublishCount \in Nat
  /\ Family \in [Descriptors -> Families]
  /\ Version \in [Descriptors -> Nat]
  /\ DOMAIN Owned \subseteq 1..MaxInterfaces
  /\ OwnedSet \subseteq Descriptors
  /\ \A i, j \in DOMAIN Owned : Owned[i] = Owned[j] => i = j
  /\ PublishedByUser \subseteq Descriptors \ OwnedSet
  /\ \A c \in Clients : Request[c].version \in Nat
  /\ DefaultTargets \subseteq [family : Families, version : Nat]
  /\ WaitOptions \subseteq Waits
  /\ {LockIsRecursive, MayCrash, MayDeinit, RegistryMayFail} \subseteq BOOLEAN
  /\ Forever \notin Nat
  /\ NoThread \notin Threads
  /\ NoDescriptor \notin Descriptors
  /\ IsFiniteSet(Clients)

VARIABLES
  phase,          \* "down": no control block; "init", "deinit": inside those calls; "up"
  descriptor,     \* interface_list[s].interface_descriptor
  hash,           \* interface_list[s].hash
  flags,          \* interface_list[s].flags
  ref_count,      \* interface_list[s].ref_count
  publish_count,
  lock,           \* the thread that owns the lock, or NoThread
  registry,       \* durable: "absent", "plain" (flags 0) or "default" per name
  pc, call,       \* where each thread is inside its IPC call, and its locals
  handle,         \* the clients' az_ulib_ipc_interface_handle variables
  holding         \* the client got the interface and has not released it

table == <<descriptor, hash, flags, ref_count, publish_count>>
clients == <<handle, holding>>
vars == <<phase, table, lock, registry, pc, call, clients>>

-----------------------------------------------------------------------------
(***************************************************************************)
(* Lookups.                                                                *)
(***************************************************************************)
First(S) == IF S = {} THEN NoSlot ELSE CHOOSE s \in S : \A x \in S : s <= x

\* Mutant: an interface on hold counts as gone.
Matches_NotOnHold(name, s) ==
  /\ descriptor[s] # NoDescriptor /\ "ON_HOLD" \notin flags[s]
  /\ Family[descriptor[s]] = name.family
  /\ IF name.version = AnyVersion THEN "DEFAULT" \in flags[s]
                                  ELSE Version[descriptor[s]] = name.version

Matches(name, s) ==
  /\ descriptor[s] # NoDescriptor
  /\ Family[descriptor[s]] = name.family
  /\ IF name.version = AnyVersion THEN "DEFAULT" \in flags[s]
                                  ELSE Version[descriptor[s]] = name.version

lookup_interface(name) == First({s \in Slots : Matches(name, s)})

DefaultOf(family) == lookup_interface([family |-> family, version |-> AnyVersion])

find_interface_descriptor(d) == First({s \in Slots : descriptor[s] = d})

get_first_free == First({s \in Slots : ref_count[s] = 0})

\* flags & !X: in C the logical negation of a non-zero flag is 0, and the
\* conjunction clears the whole word.
\* Mutant: the flag is not cleared.
AndLogicalNot_Forgotten(set, flag) == set
AndLogicalNot(set, flag) == {}

\* Mutants: the hold is ignored; the publisher's reference is not counted.
try_lock_DespiteHold(s) ==
  IF ref_count[s] < 1 THEN "AZ_ERROR_ITEM_NOT_FOUND"
  ELSE IF ref_count[s] > MaxInstances THEN "AZ_ERROR_NOT_ENOUGH_SPACE"
  ELSE "AZ_OK"

try_lock_OneMore(s) ==
  IF "ON_HOLD" \in flags[s] \/ ref_count[s] < 1 THEN "AZ_ERROR_ITEM_NOT_FOUND"
  ELSE IF ref_count[s] > MaxInstances + 1 THEN "AZ_ERROR_NOT_ENOUGH_SPACE"
  ELSE "AZ_OK"

try_lock_interface(s) ==
  IF "ON_HOLD" \in flags[s] \/ ref_count[s] < 1 THEN "AZ_ERROR_ITEM_NOT_FOUND"
  ELSE IF ref_count[s] > MaxInstances THEN "AZ_ERROR_NOT_ENOUGH_SPACE"
  ELSE "AZ_OK"

\* Nobody but the publisher refers to the slot.  Mutant: users do not count.
Unused_IfPublished(s) == ref_count[s] >= 1
Unused(s) == ref_count[s] = 1

\* The published slots, and the clients that hold a reference to a slot.
Published(s) == ref_count[s] > 0
Holders(s) == {c \in Clients : holding[c] /\ handle[c].slot = s}

LockFree == lock = NoThread

-----------------------------------------------------------------------------
(***************************************************************************)
(* Registry accesses of the IPC.  A write happens, or fails and leaves the *)
(* entry as it was.                                                        *)
(***************************************************************************)
\* Mutant: az_ulib_registry_delete reports success and deletes nothing.
RegistryWrite_NeverDeletes(name, value) ==
  registry' = IF value = "absent" THEN registry ELSE [registry EXCEPT ![name] = value]
RegistryWrite(name, value) == registry' = [registry EXCEPT ![name] = value]
RegistryFailure == RegistryMayFail /\ UNCHANGED registry

Goto(t, location) == pc' = [pc EXCEPT ![t] = location]

\* The call returns: az_ulib_ipc_publish stores ref_count = 1 after its nested
\* az_ulib_ipc_set_default, whatever that returned, then the lock is released.
Return(t) ==
  /\ Goto(t, "idle")
  /\ lock' = NoThread
  /\ call' = [call EXCEPT ![t] = IdleCall]
  /\ ref_count' = IF call[t].desc = NoDescriptor THEN ref_count
                  ELSE [ref_count EXCEPT ![call[t].slot] = 1]

InCriticalSection(t, location) == pc[t] = location /\ lock = t

-----------------------------------------------------------------------------
(***************************************************************************)
(* az_ulib_ipc_set_default, and the part of az_ulib_ipc_publish that calls *)
(* it for an interface the registry remembers as the default.              *)
(***************************************************************************)

\* The new default is slot s: an old default loses its flags and its hash.
ChangeDefault(t, s, d) ==
  LET old == DefaultOf(Family[descriptor[s]]) IN
  /\ lock' = t
  /\ call' = [call EXCEPT ![t] = [IdleCall EXCEPT !.slot = s, !.old = old, !.desc = d]]
  /\ IF old = NoSlot
     THEN /\ Goto(t, "mark_new")
          /\ UNCHANGED table
     ELSE /\ publish_count < MaxPublishCount
          /\ flags' = [flags EXCEPT ![old] = AndLogicalNot(@, "DEFAULT")]
          /\ hash' = [hash EXCEPT ![old] = publish_count]
          /\ publish_count' = publish_count + 1
          /\ Goto(t, "update_old")
          /\ UNCHANGED <<descriptor, ref_count>>
  /\ UNCHANGED <<phase, registry, clients>>

set_default(t, name) ==
  /\ phase = "up" /\ pc[t] = "idle" /\ LockFree
  /\ LET s == lookup_interface(name) IN
     IF \/ name.version = AnyVersion
        \/ s = NoSlot                           \* AZ_ERROR_ITEM_NOT_FOUND
        \/ DefaultOf(name.family) = s           \* AZ_ERROR_ARG
     THEN UNCHANGED vars
     ELSE ChangeDefault(t, s, NoDescriptor)

\* publish already owns the lock when it calls set_default.
NestedAcquire(t) ==
  /\ InCriticalSection(t, "nested_acquire")
  /\ LockIsRecursive
  /\ ChangeDefault(t, call[t].slot, call[t].desc)

\* Mutant: the entry is compared with the flag before the flag is cleared.
UpdateOld_TooEarly(t) ==
  /\ InCriticalSection(t, "update_old")
  /\ Goto(t, "mark_new")
  /\ UNCHANGED <<phase, table, registry, lock, call, clients>>

\* update_interface_information_in_registry for the old default: its entry is
\* deleted and added again without the flag.
UpdateOld(t) ==
  LET name == NameOf(descriptor[call[t].old]) IN
  /\ InCriticalSection(t, "update_old")
  /\ \/ /\ registry[name] = "plain"
        /\ Goto(t, "mark_new")
        /\ UNCHANGED <<registry, lock, call, ref_count>>
     \/ /\ registry[name] # "plain"
        /\ RegistryWrite(name, "absent")
        /\ Goto(t, "add_old")
        /\ UNCHANGED <<lock, call, ref_count>>
     \/ /\ registry[name] = "default"
        /\ RegistryFailure
        /\ Return(t)
  /\ UNCHANGED <<phase, descriptor, hash, flags, publish_count, clients>>

AddOld(t) ==
  LET name == NameOf(descriptor[call[t].old]) IN
  /\ InCriticalSection(t, "add_old")
  /\ \/ /\ RegistryWrite(name, "plain")
        /\ Goto(t, "mark_new")
        /\ UNCHANGED <<lock, call, ref_count>>
     \/ RegistryFailure /\ Return(t)
  /\ UNCHANGED <<phase, descriptor, hash, flags, publish_count, clients>>

\* The new default gets its flag; an entry that says otherwise is deleted.
MarkNew(t) ==
  LET name == NameOf(descriptor[call[t].slot]) IN
  /\ InCriticalSection(t, "mark_new")
  /\ flags' = [flags EXCEPT ![call[t].slot] = @ \cup {"DEFAULT"}]
  /\ \/ /\ registry[name] = "default"
        /\ Return(t)
        /\ UNCHANGED registry
     \/ /\ registry[name] # "default"
        /\ RegistryWrite(name, "absent")
        /\ Goto(t, "add_new")
        /\ UNCHANGED <<lock, call, ref_count>>
     \/ /\ registry[name] = "plain"
        /\ RegistryFailure
        /\ Return(t)
  /\ UNCHANGED <<phase, descriptor, hash, publish_count, clients>>

AddNew(t) ==
  /\ InCriticalSection(t, "add_new")
  /\ \/ RegistryWrite(NameOf(descriptor[call[t].slot]), "default")
     \/ RegistryFailure
  /\ Return(t)
  /\ UNCHANGED <<phase, descriptor, hash, flags, publish_count, clients>>

-----------------------------------------------------------------------------
(***************************************************************************)
(* az_ulib_ipc_publish.                                                    *)
(***************************************************************************)
Publish(t, d) ==
  LET s == get_first_free IN
  /\ pc[t] = "idle" /\ LockFree
  /\ IF \/ Version[d] = AnyVersion                      \* AZ_ERROR_ARG
        \/ lookup_interface(NameOf(d)) # NoSlot         \* AZ_ERROR_ULIB_ELEMENT_DUPLICATE
        \/ s = NoSlot                                   \* AZ_ERROR_NOT_ENOUGH_SPACE
     THEN UNCHANGED vars
     ELSE /\ publish_count + 2 <= MaxPublishCount
          /\ descriptor' = [descriptor EXCEPT ![s] = d]
          /\ hash' = [hash EXCEPT ![s] = publish_count]
          /\ publish_count' = publish_count + 1
          /\ \/ \* registered as the default: call set_default, lock owned
                /\ registry[NameOf(d)] = "default"
                /\ flags' = [flags EXCEPT ![s] = {}]
                /\ lock' = t
                /\ Goto(t, "nested_acquire")
                /\ call' = [call EXCEPT ![t] = [IdleCall EXCEPT !.slot = s, !.desc = d]]
                /\ UNCHANGED <<registry, ref_count>>
             \/ \* known, or the family has a default already
                /\ \/ registry[NameOf(d)] = "plain"
                   \/ registry[NameOf(d)] = "absent" /\ DefaultOf(Family[d]) # NoSlot
                /\ flags' = [flags EXCEPT ![s] = {}]
                /\ ref_count' = [ref_count EXCEPT ![s] = 1]
                /\ UNCHANGED <<registry, lock, pc, call>>
             \/ \* first of its family: becomes the default, saved or not
                /\ registry[NameOf(d)] = "absent"
                /\ DefaultOf(Family[d]) = NoSlot
                /\ flags' = [flags EXCEPT ![s] = {"DEFAULT"}]
                /\ ref_count' = [ref_count EXCEPT ![s] = 1]
                /\ RegistryWrite(NameOf(d), "default") \/ RegistryFailure
                /\ UNCHANGED <<lock, pc, call>>
          /\ UNCHANGED <<phase, clients>>

az_ulib_ipc_publish(t, d) == phase = "up" /\ Publish(t, d)

-----------------------------------------------------------------------------
(***************************************************************************)
(* az_ulib_ipc_unpublish: find the slot without the lock, then poll.       *)
(***************************************************************************)
FindToUnpublish(t, d, wait) ==
  LET s == find_interface_descriptor(d) IN
  /\ phase = "up" /\ pc[t] = "idle"
  /\ s # NoSlot                                          \* else AZ_ERROR_ITEM_NOT_FOUND
  /\ Goto(t, "poll")
  /\ call' = [call EXCEPT ![t] =
                [slot |-> s, old |-> NoSlot, desc |-> d, polls |-> wait]]
  /\ UNCHANGED <<phase, table, lock, registry, clients>>

\* The thread leaves az_ulib_ipc_unpublish; the lock was taken and released.
ReturnFromPoll(t) ==
  /\ Goto(t, "idle")
  /\ call' = [call EXCEPT ![t] = IdleCall]
  /\ UNCHANGED lock

\* Mutant: the slot is freed but keeps its descriptor.
Remove_KeepsDescriptor(s) ==
  /\ UNCHANGED descriptor
  /\ ref_count' = [ref_count EXCEPT ![s] = 0]

Remove(s) ==
  /\ descriptor' = [descriptor EXCEPT ![s] = NoDescriptor]
  /\ ref_count' = [ref_count EXCEPT ![s] = 0]

Poll(t) ==
  LET s == call[t].slot
      d == call[t].desc
  IN
  /\ pc[t] = "poll" /\ LockFree
  /\ \/ \* somebody else unpublished it
        /\ descriptor[s] # d
        /\ ReturnFromPoll(t)
        /\ UNCHANGED <<table, registry>>
     \/ \* nobody uses it: forget it, in the registry first
        /\ descriptor[s] = d /\ Unused(s)
        /\ ReturnFromPoll(t)
        /\ \/ RegistryWrite(NameOf(d), "absent") /\ Remove(s)
           \/ /\ registry[NameOf(d)] # "absent"
              /\ RegistryFailure
              /\ UNCHANGED <<descriptor, ref_count>>
        /\ UNCHANGED <<hash, flags, publish_count>>
     \/ \* in use, time left: stop new clients, release the lock and sleep
        /\ descriptor[s] = d /\ ~Unused(s) /\ call[t].polls # 0
        /\ flags' = [flags EXCEPT ![s] = @ \cup {"ON_HOLD"}]
        /\ call' = [call EXCEPT ![t].polls = IF @ = Forever THEN Forever ELSE @ - 1]
        /\ UNCHANGED <<descriptor, hash, ref_count, publish_count, lock, registry, pc>>
     \/ \* in use, time is up: AZ_ERROR_ULIB_BUSY
        /\ descriptor[s] = d /\ ~Unused(s) /\ call[t].polls = 0
        /\ flags' = [flags EXCEPT ![s] = AndLogicalNot(@, "ON_HOLD")]
        /\ ReturnFromPoll(t)
        /\ UNCHANGED <<descriptor, hash, ref_count, publish_count, registry>>
  /\ UNCHANGED <<phase, clients>>

-----------------------------------------------------------------------------
(***************************************************************************)
(* Clients: get, use and release an interface.                             *)
(***************************************************************************)

\* The slot az_ulib_ipc_try_get_interface settles on: the one in the handle if
\* the hash still fits, else the one the name leads to.
\* Mutant: any handle that was used before is taken for current.
HandleIsCurrent_ByAddress(c) == handle[c].slot # NoSlot

HandleIsCurrent(c) ==
  handle[c].slot # NoSlot /\ handle[c].hash = hash[handle[c].slot]

SlotFor(c) == IF HandleIsCurrent(c) THEN handle[c].slot ELSE lookup_interface(Request[c])

TryGetResult(c) ==
  IF SlotFor(c) = NoSlot THEN "AZ_ERROR_ITEM_NOT_FOUND"
  ELSE try_lock_interface(SlotFor(c))

try_get_interface(c) ==
  /\ phase = "up" /\ LockFree
  /\ ~holding[c]
  /\ IF TryGetResult(c) = "AZ_OK"
     THEN /\ ref_count' = [ref_count EXCEPT ![SlotFor(c)] = @ + 1]
          /\ handle' = [handle EXCEPT ![c] = [slot |-> SlotFor(c), hash |-> hash[SlotFor(c)]]]
          /\ holding' = [holding EXCEPT ![c] = TRUE]
     ELSE UNCHANGED <<ref_count, clients>>
  /\ UNCHANGED <<phase, descriptor, hash, flags, publish_count, lock, registry, pc, call>>

\* What az_ulib_ipc_call and az_ulib_ipc_try_get_capability dereference, without the lock.
CallTarget(c) == descriptor[handle[c].slot]

release_interface(c) ==
  /\ phase = "up" /\ LockFree
  /\ holding[c]
  /\ ref_count' = [ref_count EXCEPT ![handle[c].slot] = @ - 1]
  /\ holding' = [holding EXCEPT ![c] = FALSE]
  /\ UNCHANGED <<phase, descriptor, hash, flags, publish_count, lock, registry, pc, call, handle>>

-----------------------------------------------------------------------------
(***************************************************************************)
(* Life cycle of the singleton.  init and deinit run alone.                *)
(***************************************************************************)
OwnedPublished == {i \in DOMAIN Owned : find_interface_descriptor(Owned[i]) # NoSlot}
AllIdle == LockFree /\ \A t \in Threads : pc[t] = "idle"

ipc_init ==
  /\ phase = "down"
  /\ phase' = "init"
  /\ publish_count' = 1
  /\ descriptor' = [s \in Slots |-> NoDescriptor]
  /\ ref_count' = [s \in Slots |-> 0]
  /\ flags' = [s \in Slots |-> {}]
  /\ UNCHANGED <<hash, lock, registry, pc, call, clients>>

publish_ipc_owned_interfaces(t) ==
  /\ phase = "init" /\ AllIdle
  /\ \E i \in DOMAIN Owned \ OwnedPublished :
       /\ 1..(i - 1) \subseteq OwnedPublished
       /\ Publish(t, Owned[i])

InitDone ==
  /\ phase = "init" /\ AllIdle
  /\ OwnedPublished = DOMAIN Owned
  /\ phase' = "up"
  /\ UNCHANGED <<table, lock, registry, pc, call, clients>>

deinit ==
  /\ MayDeinit
  /\ phase = "up" /\ AllIdle
  /\ \A s \in Slots : IF s \in DOMAIN Owned THEN ref_count[s] = 1
                                            ELSE descriptor[s] = NoDescriptor
  /\ phase' = "deinit"
  /\ UNCHANGED <<table, lock, registry, pc, call, clients>>

\* A flash error ends the loop: the result is ignored and the IPC goes down.
unpublish_ipc_owned_interfaces ==
  /\ phase = "deinit"
  /\ \E i \in OwnedPublished :
       /\ 1..(i - 1) \cap OwnedPublished = {}
       /\ \/ /\ RegistryWrite(NameOf(Owned[i]), "absent")
             /\ Remove(find_interface_descriptor(Owned[i]))
             /\ UNCHANGED phase
          \/ /\ RegistryFailure
             /\ phase' = "down"
             /\ UNCHANGED <<descriptor, ref_count>>
  /\ UNCHANGED <<hash, flags, publish_count, lock, pc, call, clients>>

DeinitDone ==
  /\ phase = "deinit"
  /\ OwnedPublished = {}
  /\ phase' = "down"
  /\ UNCHANGED <<table, lock, registry, pc, call, clients>>

\* A power cycle: memory is gone, flash stays.
Crash ==
  /\ MayCrash
  /\ phase # "down"
  /\ phase' = "down"
  /\ descriptor' = [s \in Slots |-> NoDescriptor]
  /\ hash' = [s \in Slots |-> 0]
  /\ flags' = [s \in Slots |-> {}]
  /\ ref_count' = [s \in Slots |-> 0]
  /\ publish_count' = 0
  /\ lock' = NoThread
  /\ pc' = [t \in Threads |-> "idle"]
  /\ call' = [t \in Threads |-> IdleCall]
  /\ handle' = [c \in Clients |-> NoHandle]
  /\ holding' = [c \in Clients |-> FALSE]
  /\ UNCHANGED registry

-----------------------------------------------------------------------------
Init ==
  /\ phase = "down"
  /\ descriptor = [s \in Slots |-> NoDescriptor]
  /\ hash = [s \in Slots |-> 0]
  /\ flags = [s \in Slots |-> {}]
  /\ ref_count = [s \in Slots |-> 0]
  /\ publish_count = 0
  /\ lock = NoThread
  /\ registry = [name \in Names |-> "absent"]
  /\ pc = [t \in Threads |-> "idle"]
  /\ call = [t \in Threads |-> IdleCall]
  /\ handle = [c \in Clients |-> NoHandle]
  /\ holding = [c \in Clients |-> FALSE]

ThreadStep(t) ==
  \/ NestedAcquire(t)
  \/ UpdateOld(t)
  \/ AddOld(t)
  \/ MarkNew(t)
  \/ AddNew(t)
  \/ Poll(t)

ThreadCall(t) ==
  \/ \E d \in PublishedByUser : az_ulib_ipc_publish(t, d)
  \/ \E d \in PublishedByUser, w \in WaitOptions : FindToUnpublish(t, d, w)
  \/ \E name \in DefaultTargets : set_default(t, name)
  \/ publish_ipc_owned_interfaces(t)

Next ==
  \/ \E t \in Threads : ThreadCall(t) \/ ThreadStep(t)
  \/ \E c \in Clients : try_get_interface(c) \/ release_interface(c)
  \/ ipc_init
  \/ InitDone
  \/ deinit
  \/ unpublish_ipc_owned_interfaces
  \/ DeinitDone
  \/ Crash

Spec == Init /\ [][Next]_vars

\* A call in progress is scheduled until it returns (the sleep of a poll ends,
\* the lock is held for a bounded time only), and a client that got an
\* interface releases it, as az_ulib_ipc_try_get_interface asks of its callers.
Fairness ==
  /\ \A t \in Threads : WF_vars(ThreadStep(t))
  /\ \A c \in Clients : WF_vars(release_interface(c))

FairSpec == Spec /\ Fairness

-----------------------------------------------------------------------------
(***************************************************************************)
(* Invariants and action properties.                                       *)
(***************************************************************************)
TypeOK ==
  /\ phase \in {"down", "init", "up", "deinit"}
  /\ descriptor \in [Slots -> Descriptors \cup {NoDescriptor}]
  /\ hash \in [Slots -> Nat]
  /\ flags \in [Slots -> SUBSET Flags]
  /\ ref_count \in [Slots -> Nat]
  /\ publish_count \in Nat
  /\ lock \in Threads \cup {NoThread}
  /\ registry \in [Names -> {"absent", "plain", "default"}]
  /\ pc \in [Threads -> Locations]
  /\ call \in [Threads -> Calls]
  /\ handle \in [Clients -> Handles]
  /\ holding \in [Clients -> BOOLEAN]

\* ref_count is one for being published plus one per client that holds the
\* interface, so unpublish (ref_count = 1) never frees a slot in use, and a
\* free slot (ref_count = 0) has no user left.
RefCountsHolders ==
  \A s \in Slots :
    IF ref_count[s] = 0 THEN Holders(s) = {}
                        ELSE ref_count[s] = 1 + Cardinality(Holders(s))

\* d is an interface a client asking for name may be given.
Answers(name, d) ==
  /\ d # NoDescriptor
  /\ Family[d] = name.family
  /\ name.version \in {AnyVersion, Version[d]}

\* Whatever was published, unpublished and republished in the slot since the
\* client last resolved its name, a handle it holds leads az_ulib_ipc_call to
\* an interface of the name it asked for.
HeldAnswersRequest ==
  \A c \in Clients : holding[c] => Answers(Request[c], CallTarget(c))

\* A name is published at most once, also while publish is half done.
UniqueNames ==
  \A s1, s2 \in Slots :
    s1 # s2 /\ descriptor[s1] # NoDescriptor /\ descriptor[s2] # NoDescriptor
      => NameOf(descriptor[s1]) # NameOf(descriptor[s2])

\* Two packages are never the default of one family at once, not even between
\* the steps of set_default, which lookup_interface relies on.
AtMostOneDefault ==
  \A s1, s2 \in Slots :
    /\ s1 # s2 /\ descriptor[s1] # NoDescriptor /\ descriptor[s2] # NoDescriptor
    /\ "DEFAULT" \in flags[s1] \cap flags[s2]
    => Family[descriptor[s1]] # Family[descriptor[s2]]

\* Whenever no call is inside the lock, the default flag in memory and the one
\* the registry will restore after a power cycle are the same.
DefaultAgreesWithRegistry ==
  LockFree => \A s \in Slots :
    Published(s) =>
      ("DEFAULT" \in flags[s] <=> registry[NameOf(descriptor[s])] = "default")

\* The registry remembers published interfaces only: whatever sequence of
\* set_default calls an interface went through, unpublishing forgets it.
RegistryTracksPublished ==
  LockFree /\ phase = "up" => \A name \in Names :
    registry[name] # "absent" => \E s \in Slots :
      Published(s) /\ NameOf(descriptor[s]) = name

\* An interface is on hold only while somebody waits to unpublish it; otherwise
\* no client could ever get it again.
OnHoldHasWaiter ==
  \A s \in Slots : Published(s) /\ "ON_HOLD" \in flags[s] =>
    \E t \in Threads : pc[t] = "poll" /\ call[t].slot = s /\ call[t].desc = descriptor[s]

\* publish never waits for the lock it already owns.
NoSelfDeadlock ==
  \A t \in Threads : InCriticalSection(t, "nested_acquire") => LockIsRecursive

\* At most MAX_IPC_INSTANCES handles of an interface are out.
InstanceLimit == \A s \in Slots : Cardinality(Holders(s)) <= MaxInstances

\* A client that asks for the default package and gets an interface, with a
\* fresh lookup or through the hash of an old handle, gets the default of now.
StarGetsDefault ==
  [][\A c \in Clients :
       Request[c].version = AnyVersion /\ ~holding[c] /\ holding'[c]
         => "DEFAULT" \in flags[handle'[c].slot]]_vars

\* An interface that is published while no other package of its family is
\* becomes the default of the family.
PublishMakesFirstDefault ==
  [][\A s \in Slots :
       /\ ref_count[s] = 0 /\ ref_count'[s] = 1
       /\ \A x \in Slots \ {s} : Published(x) => Family[descriptor[x]] # Family[descriptor'[s]]
       => "DEFAULT" \in flags'[s]]_vars

\* Clients cannot hold off an unpublish that waits forever.  MaxPublishCount makes
\* publications and changes of the default end some day, which is the premise here:
\* set_default lifts the hold of the old default, and who republishes what was just
\* unpublished gives the waiting unpublish another interface to wait for.
UnpublishCompletes == \A t \in Threads : pc[t] = "poll" ~> pc[t] = "idle"

-----------------------------------------------------------------------------
(***************************************************************************)
(* The inductive invariant: what holds of the threads inside a call, of    *)
(* the slots and of the handles in every state.                            *)
(***************************************************************************)

\* Only the lock owner is inside a critical section.
LockOwner ==
  \A t \in Threads : lock = t <=> pc[t] \in LockedLocations

\* No package of the family of slot s other than the one in s is the default.
NoOtherDefault(s) ==
  \A x \in Slots \ {s} :
    descriptor[x] # NoDescriptor /\ Family[descriptor[x]] = Family[descriptor[s]]
      => "DEFAULT" \notin flags[x]

\* A thread changing the default works on a slot in use (set_default) or on one
\* it is publishing, whose ref_count is still 0 (publish).
CallConsistent(t) ==
  LET s == call[t].slot
      d == call[t].desc
  IN
  /\ pc[t] \in LockedLocations =>
       /\ s \in Slots /\ descriptor[s] # NoDescriptor
       /\ IF d = NoDescriptor THEN Published(s)
                              ELSE ~Published(s) /\ descriptor[s] = d
  /\ pc[t] = "nested_acquire" => d # NoDescriptor /\ "DEFAULT" \notin flags[s]
  /\ pc[t] \in {"update_old", "add_old"} =>
       call[t].old \in Slots \ {s} /\ descriptor[call[t].old] # NoDescriptor
  /\ pc[t] \in LockedLocations \ {"nested_acquire"} => NoOtherDefault(s)
  /\ pc[t] = "poll" => s \in Slots /\ d # NoDescriptor

CallsConsistent == \A t \in Threads : CallConsistent(t)

\* A slot has a descriptor exactly while it is published or being published.
SlotsConsistent ==
  \A s \in Slots :
    /\ descriptor[s] = NoDescriptor => ~Published(s)
    /\ descriptor[s] # NoDescriptor /\ ~Published(s) =>
         /\ lock \in Threads
         /\ call[lock].slot = s /\ call[lock].desc # NoDescriptor
    /\ ref_count[s] <= MaxInstances + 1

\* Whoever holds an interface has a slot, and nobody is busy with an IPC that is
\* down or going down.
HoldersAreBusy ==
  /\ \A c \in Clients : holding[c] => handle[c].slot \in Slots
  /\ phase \in {"down", "deinit"} => AllIdle /\ \A c \in Clients : ~holding[c]

\* A handle whose hash is current leads to an interface of the requested name,
\* because every hash in use is below the next one to be given out.  A second
\* az_ulib_ipc_init starts over with the hashes, so this is true of an IPC that
\* is not de-initialized only.
HandlesConsistent ==
  /\ phase # "deinit"
  /\ phase = "down" => /\ \A s \in Slots : hash[s] = 0 /\ descriptor[s] = NoDescriptor
                       /\ \A c \in Clients : handle[c] = NoHandle
  /\ phase # "down" => /\ \A s \in Slots : hash[s] < publish_count
                       /\ \A c \in Clients : handle[c].hash < publish_count
  /\ \A c \in Clients :
       HandleIsCurrent(c) /\ CallTarget(c) # NoDescriptor => Answers(Request[c], CallTarget(c))

HandlesAreSound == ~MayDeinit => HandlesConsistent /\ HeldAnswersRequest

IInv ==
  /\ TypeOK
  /\ LockOwner
  /\ CallsConsistent
  /\ SlotsConsistent
  /\ RefCountsHolders
  /\ HoldersAreBusy
  /\ UniqueNames
  /\ AtMostOneDefault
  /\ HandlesAreSound

-----------------------------------------------------------------------------
(***************************************************************************)
(* What the IPC promises, without slots, hashes, flags or a lock.          *)
(***************************************************************************)
PublishedDescriptors == {descriptor[s] : s \in {x \in Slots : Published(x)}}
Users == [c \in Clients |-> IF holding[c] THEN CallTarget(c) ELSE NoDescriptor]

Directory == INSTANCE InterfaceDirectory WITH published <- PublishedDescriptors, users <- Users

DirectorySpec == Directory!Spec
=============================================================================
