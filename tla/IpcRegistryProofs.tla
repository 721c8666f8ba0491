--------------------------- MODULE IpcRegistryProofs ---------------------------
(***************************************************************************)
(* Proofs about the flags of a slot and about what the registry remembers  *)
(* of them.  Whoever put an interface on hold waits for it, the default    *)
(* flag agrees with the registry, and a handle got for the default package *)
(* leads to the default package.  While no power cycle and no flash error  *)
(* strikes, the entries are those of the interfaces in the table, so       *)
(* az_ulib_ipc_publish never finds one of the interface it is asked to     *)
(* publish.                                                                *)
(***************************************************************************)
EXTENDS IpcProofs

-----------------------------------------------------------------------------
(***************************************************************************)
(* What the steps do to the other threads.                                 *)
(***************************************************************************)

\* The threads that wait in az_ulib_ipc_unpublish stay where they are.
PollersStay ==
  \A u \in Threads : pc[u] = "poll" =>
    pc'[u] = "poll" /\ call'[u].slot = call[u].slot /\ call'[u].desc = call[u].desc

\* A step inside a critical section, which moves its own thread only.
LEMMA CriticalMoves ==
  ASSUME IInv, NEW t \in Threads,
         UpdateOld(t) \/ AddOld(t) \/ MarkNew(t) \/ AddNew(t)
  PROVE  /\ pc[t] \in LockedLocations /\ lock = t
         /\ \A u \in Threads \ {t} : pc[u] \in {"idle", "poll"} /\ pc'[u] = pc[u] /\ call'[u] = call[u]
         /\ PollersStay
         /\ \/ pc'[t] = "idle" /\ Return(t)
            \/ UNCHANGED <<lock, call, ref_count>> /\ pc'[t] \in {"add_old", "mark_new", "add_new"}
         /\ UNCHANGED <<phase, descriptor, hash, publish_count, clients>>
<1>1. pc[t] \in LockedLocations /\ pc[t] # "poll"
  BY DEF UpdateOld, AddOld, MarkNew, AddNew, InCriticalSection, LockedLocations, Locations
<1>2. pc \in [Threads -> Locations]
  BY DEF IInv, TypeOK
<1>3. \/ Return(t)
      \/ /\ UNCHANGED <<lock, call, ref_count>>
         /\ \E location \in {"add_old", "mark_new", "add_new"} : Goto(t, location)
  BY DEF UpdateOld, AddOld, MarkNew, AddNew
<1>4. /\ \A u \in Threads \ {t} : pc'[u] = pc[u] /\ call'[u] = call[u]
      /\ \/ pc'[t] = "idle" /\ Return(t)
         \/ UNCHANGED <<lock, call, ref_count>> /\ pc'[t] \in {"add_old", "mark_new", "add_new"}
  <2>1. CASE Return(t)
    BY <1>1, <2>1, ReturnFacts
  <2>2. CASE /\ UNCHANGED <<lock, call, ref_count>>
             /\ \E location \in {"add_old", "mark_new", "add_new"} : Goto(t, location)
    BY <1>2, <2>2 DEF Goto
  <2> QED BY <1>3, <2>1, <2>2
<1>5. PollersStay
  BY <1>1, <1>4 DEF PollersStay
<1>6. UNCHANGED <<phase, descriptor, hash, publish_count, clients>>
  BY DEF UpdateOld, AddOld, MarkNew, AddNew
<1> QED BY <1>1, <1>4, <1>5, <1>6, InsideLock

\* A change of the default takes the flags and the hash of the old default away.
LEMMA ChangeDefaultMoves ==
  ASSUME IInv, NEW t \in Threads, NEW s \in Slots, NEW d \in Descriptors \cup {NoDescriptor},
         descriptor[s] # NoDescriptor, pc[t] # "poll",
         \A u \in Threads : u # t => pc[u] \in {"idle", "poll"},
         ChangeDefault(t, s, d)
  PROVE  LET old == DefaultOf(Family[descriptor[s]]) IN
         /\ \A u \in Threads \ {t} : pc[u] \in {"idle", "poll"} /\ pc'[u] = pc[u] /\ call'[u] = call[u]
         /\ PollersStay
         /\ lock' = t
         /\ call'[t].slot = s /\ call'[t].old = old /\ call'[t].desc = d
         /\ UNCHANGED <<phase, descriptor, ref_count, registry, clients>>
         /\ \/ /\ old = NoSlot /\ pc'[t] = "mark_new"
               /\ UNCHANGED <<flags, hash, publish_count>>
            \/ /\ old \in Slots /\ pc'[t] = "update_old"
               /\ descriptor[old] # NoDescriptor /\ "DEFAULT" \in flags[old]
               /\ flags'[old] = {} /\ hash'[old] = publish_count
               /\ \A x \in Slots \ {old} : flags'[x] = flags[x] /\ hash'[x] = hash[x]
<1> DEFINE old == DefaultOf(Family[descriptor[s]])
           new == [IdleCall EXCEPT !.slot = s, !.old = old, !.desc = d]
<1>1. \/ old = NoSlot
      \/ old \in Slots /\ descriptor[old] # NoDescriptor /\ "DEFAULT" \in flags[old]
  BY LookupFinds DEF DefaultOf, Matches, AnyVersion
<1>2. new.slot = s /\ new.old = old /\ new.desc = d
  BY DEF IdleCall
<1>3. /\ lock' = t /\ call' = [call EXCEPT ![t] = new]
      /\ pc' = [pc EXCEPT ![t] = IF old = NoSlot THEN "mark_new" ELSE "update_old"]
      /\ UNCHANGED <<phase, registry, clients, descriptor, ref_count>>
      /\ IF old = NoSlot
         THEN UNCHANGED <<flags, hash, publish_count>>
         ELSE /\ flags' = [flags EXCEPT ![old] = {}]
              /\ hash' = [hash EXCEPT ![old] = publish_count]
  BY DEF ChangeDefault, Goto, table, AndLogicalNot
<1> HIDE DEF old, new
<1>4. /\ pc \in [Threads -> Locations] /\ call \in [Threads -> Calls]
      /\ flags \in [Slots -> SUBSET Flags] /\ hash \in [Slots -> Nat]
  BY DEF IInv, TypeOK
<1>5. /\ \A u \in Threads \ {t} : pc'[u] = pc[u] /\ call'[u] = call[u]
      /\ call'[t] = new /\ pc'[t] = IF old = NoSlot THEN "mark_new" ELSE "update_old"
  BY <1>3, <1>4
<1>6. PollersStay
  BY <1>5 DEF PollersStay
<1>7. \/ /\ old = NoSlot /\ pc'[t] = "mark_new"
         /\ UNCHANGED <<flags, hash, publish_count>>
      \/ /\ old \in Slots /\ pc'[t] = "update_old"
         /\ descriptor[old] # NoDescriptor /\ "DEFAULT" \in flags[old]
         /\ flags'[old] = {} /\ hash'[old] = publish_count
         /\ \A x \in Slots \ {old} : flags'[x] = flags[x] /\ hash'[x] = hash[x]
  BY <1>1, <1>3, <1>4, <1>5, ValueTypes
<1> QED BY <1>2, <1>3, <1>5, <1>6, <1>7 DEF old

\* Who changes the default: az_ulib_ipc_set_default for a published interface, or
\* az_ulib_ipc_publish for the one it is publishing.
LEMMA DefaultChangers ==
  ASSUME IInv, NEW t \in Threads,
         NestedAcquire(t) \/ SetsDefault(t)
  PROVE  \/ UNCHANGED vars
         \/ \E s \in Slots, d \in Descriptors \cup {NoDescriptor} :
              /\ ChangeDefault(t, s, d)
              /\ descriptor[s] # NoDescriptor /\ pc[t] # "poll"
              /\ \A u \in Threads : u # t => pc[u] \in {"idle", "poll"}
              /\ DefaultOf(Family[descriptor[s]]) # s
              /\ \/ LockFree /\ pc[t] = "idle" /\ d = NoDescriptor /\ Published(s)
                 \/ /\ pc[t] = "nested_acquire" /\ call[t].slot = s /\ call[t].desc = d
                    /\ d # NoDescriptor /\ ~Published(s)
<1>1. CASE NestedAcquire(t)
  <2> DEFINE s == call[t].slot
             d == call[t].desc
  <2>1. pc[t] = "nested_acquire" /\ pc[t] \in LockedLocations /\ ChangeDefault(t, s, d)
    BY <1>1 DEF NestedAcquire, InCriticalSection, LockedLocations, Locations
  <2>2. d # NoDescriptor /\ "DEFAULT" \notin flags[s]
    BY <2>1 DEF IInv, CallsConsistent, CallConsistent
  <2>3. /\ \A u \in Threads : u # t => pc[u] \in {"idle", "poll"}
        /\ s \in Slots /\ d \in Descriptors \cup {NoDescriptor}
        /\ descriptor[s] # NoDescriptor /\ ~Published(s)
    BY <2>1, <2>2, InsideLock, ConstantsAssumption DEF Published
  <2>4. DefaultOf(Family[descriptor[s]]) # s
    BY <2>2, <2>3, LookupFinds, ValueTypes DEF DefaultOf, Matches, AnyVersion
  <2> QED BY <2>1, <2>2, <2>3, <2>4
<1>2. ASSUME NEW name, set_default(t, name), ~UNCHANGED vars
      PROVE  \E s \in Slots :
               /\ ChangeDefault(t, s, NoDescriptor)
               /\ descriptor[s] # NoDescriptor /\ pc[t] = "idle"
               /\ \A u \in Threads : u # t => pc[u] \in {"idle", "poll"}
               /\ DefaultOf(Family[descriptor[s]]) # s
               /\ LockFree /\ Published(s)
  <2> DEFINE s == lookup_interface(name)
  <2>1. /\ pc[t] = "idle" /\ LockFree /\ s # NoSlot /\ DefaultOf(name.family) # s
        /\ ChangeDefault(t, s, NoDescriptor)
    BY <1>2 DEF set_default
  <2>2. s \in Slots /\ descriptor[s] # NoDescriptor /\ Family[descriptor[s]] = name.family
    BY <2>1, LookupFinds DEF Matches
  <2>3. Published(s) /\ \A u \in Threads : pc[u] \in {"idle", "poll"}
    BY <2>1, <2>2, OutsideLock DEF Published
  <2> QED BY <2>1, <2>2, <2>3
<1> QED BY <1>1, <1>2 DEF SetsDefault

\* az_ulib_ipc_publish fills a free slot, under a name no slot in use has, and
\* leaves the other slots and the other threads alone.
LEMMA PublishMoves ==
  ASSUME IInv, NEW t \in Threads, NEW d \in Descriptors, Publish(t, d), ~UNCHANGED vars
  PROVE  /\ pc[t] = "idle" /\ LockFree /\ PollersStay
         /\ \A x \in Slots : descriptor[x] # NoDescriptor => NameOf(descriptor[x]) # NameOf(d)
         /\ UNCHANGED <<phase, clients>>
         /\ \A u \in Threads \ {t} : pc'[u] = pc[u] /\ call'[u] = call[u]
         /\ \E s \in Slots :
              /\ s = get_first_free
              /\ ref_count[s] = 0 /\ descriptor[s] = NoDescriptor
              /\ descriptor'[s] = d /\ hash'[s] = publish_count
              /\ \A x \in Slots \ {s} : /\ descriptor'[x] = descriptor[x] /\ hash'[x] = hash[x]
                                       /\ flags'[x] = flags[x] /\ ref_count'[x] = ref_count[x]
              /\ \/ /\ registry[NameOf(d)] = "default" /\ flags'[s] = {} /\ ref_count'[s] = 0
                    /\ UNCHANGED registry
                    /\ lock' = t /\ pc'[t] = "nested_acquire"
                    /\ call'[t].slot = s /\ call'[t].desc = d
                 \/ /\ \/ registry[NameOf(d)] = "plain"
                       \/ registry[NameOf(d)] = "absent" /\ DefaultOf(Family[d]) # NoSlot
                    /\ flags'[s] = {} /\ ref_count'[s] = 1
                    /\ UNCHANGED <<registry, lock, pc, call>>
                 \/ /\ registry[NameOf(d)] = "absent" /\ DefaultOf(Family[d]) = NoSlot
                    /\ flags'[s] = {"DEFAULT"} /\ ref_count'[s] = 1
                    /\ RegistryWrite(NameOf(d), "default") \/ RegistryFailure
                    /\ UNCHANGED <<lock, pc, call>>
<1> DEFINE s == get_first_free
           new == [IdleCall EXCEPT !.slot = s, !.desc = d]
<1>1. /\ pc[t] = "idle" /\ LockFree
      /\ Version[d] # AnyVersion /\ lookup_interface(NameOf(d)) = NoSlot /\ s # NoSlot
      /\ descriptor' = [descriptor EXCEPT ![s] = d]
      /\ hash' = [hash EXCEPT ![s] = publish_count]
      /\ UNCHANGED <<phase, clients>>
      /\ \/ /\ registry[NameOf(d)] = "default" /\ flags' = [flags EXCEPT ![s] = {}]
            /\ lock' = t /\ pc' = [pc EXCEPT ![t] = "nested_acquire"]
            /\ call' = [call EXCEPT ![t] = new]
            /\ UNCHANGED <<registry, ref_count>>
         \/ /\ \/ registry[NameOf(d)] = "plain"
               \/ registry[NameOf(d)] = "absent" /\ DefaultOf(Family[d]) # NoSlot
            /\ flags' = [flags EXCEPT ![s] = {}] /\ ref_count' = [ref_count EXCEPT ![s] = 1]
            /\ UNCHANGED <<registry, lock, pc, call>>
         \/ /\ registry[NameOf(d)] = "absent" /\ DefaultOf(Family[d]) = NoSlot
            /\ flags' = [flags EXCEPT ![s] = {"DEFAULT"}] /\ ref_count' = [ref_count EXCEPT ![s] = 1]
            /\ RegistryWrite(NameOf(d), "default") \/ RegistryFailure
            /\ UNCHANGED <<lock, pc, call>>
  BY DEF Publish, Goto
<1>2. s \in Slots /\ ref_count[s] = 0
  BY <1>1, FreeSlotIsFree
<1>3. /\ descriptor \in [Slots -> Descriptors \cup {NoDescriptor}] /\ hash \in [Slots -> Nat]
      /\ flags \in [Slots -> SUBSET Flags] /\ ref_count \in [Slots -> Nat]
      /\ pc \in [Threads -> Locations] /\ call \in [Threads -> Calls]
  BY DEF IInv, TypeOK
<1>4. new.slot = s /\ new.desc = d
  BY DEF IdleCall
<1>5. descriptor[s] = NoDescriptor
  BY <1>1, <1>2, OutsideLock
<1>6. \A x \in Slots : descriptor[x] # NoDescriptor => NameOf(descriptor[x]) # NameOf(d)
  <2>1. \A x \in Slots : ~Matches(NameOf(d), x)
    BY <1>1, LookupFinds
  <2> QED BY <1>1, <2>1 DEF Matches, NameOf
<1> HIDE DEF s, new
<1>7. \A u \in Threads \ {t} : pc'[u] = pc[u] /\ call'[u] = call[u]
  BY <1>1, <1>3
<1>8. PollersStay
  BY <1>1, <1>7 DEF PollersStay
<1>9. /\ descriptor'[s] = d /\ hash'[s] = publish_count
      /\ \A x \in Slots \ {s} : /\ descriptor'[x] = descriptor[x] /\ hash'[x] = hash[x]
                               /\ flags'[x] = flags[x] /\ ref_count'[x] = ref_count[x]
  BY <1>1, <1>2, <1>3
<1>10. \/ /\ registry[NameOf(d)] = "default" /\ flags'[s] = {} /\ ref_count'[s] = 0
          /\ UNCHANGED registry
          /\ lock' = t /\ pc'[t] = "nested_acquire"
          /\ call'[t].slot = s /\ call'[t].desc = d
       \/ /\ \/ registry[NameOf(d)] = "plain"
             \/ registry[NameOf(d)] = "absent" /\ DefaultOf(Family[d]) # NoSlot
          /\ flags'[s] = {} /\ ref_count'[s] = 1
          /\ UNCHANGED <<registry, lock, pc, call>>
       \/ /\ registry[NameOf(d)] = "absent" /\ DefaultOf(Family[d]) = NoSlot
          /\ flags'[s] = {"DEFAULT"} /\ ref_count'[s] = 1
          /\ RegistryWrite(NameOf(d), "default") \/ RegistryFailure
          /\ UNCHANGED <<lock, pc, call>>
  BY <1>1, <1>2, <1>3, <1>4
<1> QED BY <1>1, <1>2, <1>5, <1>6, <1>7, <1>8, <1>9, <1>10 DEF s

\* The outcomes of one poll of az_ulib_ipc_unpublish.
LEMMA PollMoves ==
  ASSUME IInv, NEW t \in Threads, Poll(t)
  PROVE  LET s == call[t].slot
             d == call[t].desc
         IN
         /\ s \in Slots /\ d \in Descriptors /\ LockFree
         /\ UNCHANGED <<phase, hash, publish_count, lock, clients>>
         /\ \A u \in Threads \ {t} : pc'[u] = pc[u] /\ call'[u] = call[u]
         /\ pc'[t] \in {"idle", "poll"}
         /\ \/ /\ descriptor[s] # d
               /\ UNCHANGED <<descriptor, flags, ref_count, registry>>
            \/ /\ descriptor[s] = d /\ Unused(s) /\ Remove(s)
               /\ RegistryWrite(NameOf(d), "absent")
               /\ UNCHANGED flags
            \/ /\ descriptor[s] = d /\ RegistryFailure
               /\ UNCHANGED <<descriptor, flags, ref_count>>
            \/ /\ descriptor[s] = d /\ flags'[s] = flags[s] \cup {"ON_HOLD"}
               /\ \A x \in Slots \ {s} : flags'[x] = flags[x]
               /\ pc'[t] = "poll" /\ call'[t].slot = s /\ call'[t].desc = d
               /\ call[t].polls = Forever => call'[t].polls = Forever
               /\ UNCHANGED <<descriptor, ref_count, registry>>
            \/ /\ descriptor[s] = d /\ call[t].polls = 0 /\ flags'[s] = {}
               /\ \A x \in Slots \ {s} : flags'[x] = flags[x]
               /\ UNCHANGED <<descriptor, ref_count, registry>>
         /\ pc'[t] = "poll" => (call[t].polls = Forever => call'[t].polls = Forever)
<1> DEFINE s == call[t].slot
           d == call[t].desc
<1>1. /\ pc \in [Threads -> Locations] /\ call \in [Threads -> Calls]
      /\ flags \in [Slots -> SUBSET Flags] /\ call[t] \in Calls
  BY DEF IInv, TypeOK
<1>2. s \in Slots /\ d \in Descriptors /\ LockFree
  BY <1>1 DEF Poll, IInv, CallsConsistent, CallConsistent, Calls
<1>3. UNCHANGED <<phase, hash, publish_count, lock, clients>>
  BY DEF Poll, ReturnFromPoll, table
<1>4. ASSUME ReturnFromPoll(t)
      PROVE  /\ \A u \in Threads \ {t} : pc'[u] = pc[u] /\ call'[u] = call[u]
             /\ pc'[t] = "idle"
  BY <1>1, <1>4 DEF ReturnFromPoll, Goto
<1>5. ASSUME call' = [call EXCEPT ![t].polls = IF @ = Forever THEN Forever ELSE @ - 1], UNCHANGED pc,
             pc[t] = "poll"
      PROVE  /\ \A u \in Threads \ {t} : pc'[u] = pc[u] /\ call'[u] = call[u]
             /\ pc'[t] = "poll" /\ call'[t].slot = s /\ call'[t].desc = d
             /\ call[t].polls = Forever => call'[t].polls = Forever
  BY <1>1, <1>5 DEF Calls
<1>6. CASE descriptor[s] # d /\ ReturnFromPoll(t) /\ UNCHANGED <<table, registry>>
  BY <1>2, <1>3, <1>4, <1>6 DEF table
<1>7. CASE /\ descriptor[s] = d /\ Unused(s) /\ ReturnFromPoll(t) /\ UNCHANGED flags
           /\ RegistryWrite(NameOf(d), "absent") /\ Remove(s)
  BY <1>2, <1>3, <1>4, <1>7
<1>8. CASE /\ descriptor[s] = d /\ ReturnFromPoll(t) /\ UNCHANGED flags
           /\ RegistryFailure /\ UNCHANGED <<descriptor, ref_count>>
  BY <1>2, <1>3, <1>4, <1>8
<1>9. CASE /\ descriptor[s] = d /\ pc[t] = "poll"
           /\ flags' = [flags EXCEPT ![s] = @ \cup {"ON_HOLD"}]
           /\ call' = [call EXCEPT ![t].polls = IF @ = Forever THEN Forever ELSE @ - 1]
           /\ UNCHANGED <<descriptor, ref_count, registry, pc>>
  <2>1. flags'[s] = flags[s] \cup {"ON_HOLD"} /\ \A x \in Slots \ {s} : flags'[x] = flags[x]
    BY <1>1, <1>2, <1>9
  <2> QED BY <1>2, <1>3, <1>5, <1>9, <2>1
<1>10. CASE /\ descriptor[s] = d /\ call[t].polls = 0 /\ ReturnFromPoll(t)
            /\ flags' = [flags EXCEPT ![s] = {}]
            /\ UNCHANGED <<descriptor, ref_count, registry>>
  <2>1. flags'[s] = {} /\ \A x \in Slots \ {s} : flags'[x] = flags[x]
    BY <1>1, <1>2, <1>10
  <2> QED BY <1>2, <1>3, <1>4, <1>10, <2>1
<1> QED BY <1>6, <1>7, <1>8, <1>9, <1>10 DEF Poll, AndLogicalNot

\* What a step makes of a slot.
Emptied(s) == descriptor'[s] = NoDescriptor /\ ref_count'[s] = 0
Kept(s) == descriptor'[s] = descriptor[s] /\ ref_count'[s] = ref_count[s]

\* The steps of the life cycle: the table is emptied, slot by slot or at once, or
\* stays as it is.
LEMMA LifeCycleMoves ==
  ASSUME IInv, ipc_init \/ InitDone \/ deinit \/ unpublish_ipc_owned_interfaces \/ DeinitDone \/ Crash
  PROVE  \/ \A s \in Slots : Emptied(s)
         \/ UNCHANGED <<table, pc, call, clients>>
         \/ /\ \A s \in Slots : Emptied(s) \/ Kept(s)
            /\ UNCHANGED <<flags, hash, pc, call, clients>>
<1>1. CASE ipc_init \/ Crash
  BY <1>1 DEF ipc_init, Crash, Emptied
<1>2. CASE InitDone \/ deinit \/ DeinitDone
  BY <1>2 DEF InitDone, deinit, DeinitDone
<1>3. CASE unpublish_ipc_owned_interfaces
  <2>1. UNCHANGED <<flags, hash, pc, call, clients>>
    BY <1>3 DEF unpublish_ipc_owned_interfaces
  <2>2. CASE UNCHANGED <<descriptor, ref_count>>
    BY <2>1, <2>2 DEF Kept
  <2>3. ASSUME NEW i \in OwnedPublished, Remove(find_interface_descriptor(Owned[i]))
        PROVE  \A s \in Slots : Emptied(s) \/ Kept(s)
    <3>1. descriptor \in [Slots -> Descriptors \cup {NoDescriptor}] /\ ref_count \in [Slots -> Nat]
      BY DEF IInv, TypeOK
    <3> QED BY <2>3, <3>1 DEF Remove, Emptied, Kept
  <2> QED BY <1>3, <2>1, <2>2, <2>3 DEF unpublish_ipc_owned_interfaces
<1> QED BY <1>1, <1>2, <1>3

-----------------------------------------------------------------------------
(***************************************************************************)
(* An interface on hold has somebody waiting for it.                       *)
(***************************************************************************)

\* The inductive form of OnHoldHasWaiter, which also covers a slot that is being
\* published.
HoldsAreAwaited ==
  \A s \in Slots : descriptor[s] # NoDescriptor /\ "ON_HOLD" \in flags[s] =>
    \E t \in Threads : pc[t] = "poll" /\ call[t].slot = s /\ call[t].desc = descriptor[s]

\* A step that puts nothing on hold, and after which those who waited still wait.
LEMMA HoldsStayAwaited ==
  ASSUME HoldsAreAwaited, PollersStay,
         \A s \in Slots : descriptor'[s] # NoDescriptor /\ "ON_HOLD" \in flags'[s] =>
           descriptor'[s] = descriptor[s] /\ "ON_HOLD" \in flags[s]
  PROVE  HoldsAreAwaited'
<1> SUFFICES ASSUME NEW s \in Slots, descriptor'[s] # NoDescriptor, "ON_HOLD" \in flags'[s]
             PROVE  \E t \in Threads : /\ pc'[t] = "poll" /\ call'[t].slot = s
                                       /\ call'[t].desc = descriptor'[s]
  BY DEF HoldsAreAwaited
<1>1. PICK t \in Threads : pc[t] = "poll" /\ call[t].slot = s /\ call[t].desc = descriptor[s]
  BY DEF HoldsAreAwaited
<1> QED BY <1>1 DEF PollersStay

LEMMA PollHolds ==
  ASSUME IInv, HoldsAreAwaited, ~RegistryMayFail, NEW t \in Threads, Poll(t)
  PROVE  HoldsAreAwaited'
<1> DEFINE s == call[t].slot
           d == call[t].desc
<1>1. /\ s \in Slots /\ d \in Descriptors
      /\ \A u \in Threads \ {t} : pc'[u] = pc[u] /\ call'[u] = call[u]
  BY PollMoves
<1>2. /\ descriptor \in [Slots -> Descriptors \cup {NoDescriptor}]
      /\ \A x \in Slots \ {s} : descriptor'[x] = descriptor[x] /\ flags'[x] = flags[x]
  <2>1. descriptor \in [Slots -> Descriptors \cup {NoDescriptor}]
    BY DEF IInv, TypeOK
  <2> QED BY <2>1, PollMoves DEF Remove
<1>3. \/ descriptor[s] # d /\ UNCHANGED <<descriptor, flags>>
      \/ descriptor'[s] = NoDescriptor
      \/ flags'[s] = {}
      \/ /\ descriptor'[s] = d
         /\ pc'[t] = "poll" /\ call'[t].slot = s /\ call'[t].desc = d
  BY <1>1, <1>2, PollMoves DEF Remove, RegistryFailure
<1> SUFFICES ASSUME NEW x \in Slots, descriptor'[x] # NoDescriptor, "ON_HOLD" \in flags'[x]
             PROVE  \E u \in Threads : /\ pc'[u] = "poll" /\ call'[u].slot = x
                                       /\ call'[u].desc = descriptor'[x]
  BY DEF HoldsAreAwaited
<1> HIDE DEF s, d
<1>4. CASE x = s /\ ~(descriptor[s] # d /\ UNCHANGED <<descriptor, flags>>)
  BY <1>3, <1>4
<1>5. CASE x # s \/ (descriptor[s] # d /\ UNCHANGED <<descriptor, flags>>)
  <2>1. descriptor'[x] = descriptor[x] /\ flags'[x] = flags[x]
    BY <1>2, <1>5
  <2>2. PICK u \in Threads : pc[u] = "poll" /\ call[u].slot = x /\ call[u].desc = descriptor[x]
    BY <2>1 DEF HoldsAreAwaited
  <2>3. u # t
    BY <1>5, <2>2 DEF s, d
  <2> QED BY <1>1, <2>1, <2>2, <2>3
<1> QED BY <1>4, <1>5

\* A change of the default puts nothing on hold and disturbs no thread that waits.
LEMMA ChangeDefaultHolds ==
  ASSUME IInv, HoldsAreAwaited, NEW t \in Threads,
         NestedAcquire(t) \/ SetsDefault(t), ~UNCHANGED vars
  PROVE  HoldsAreAwaited'
<1>1. PICK s \in Slots, d \in Descriptors \cup {NoDescriptor} :
        /\ ChangeDefault(t, s, d)
        /\ descriptor[s] # NoDescriptor /\ pc[t] # "poll"
        /\ \A u \in Threads : u # t => pc[u] \in {"idle", "poll"}
  BY DefaultChangers
<1>2. /\ PollersStay /\ UNCHANGED descriptor
      /\ \A x \in Slots : flags'[x] = flags[x] \/ flags'[x] = {}
  BY <1>1, ChangeDefaultMoves
<1>3. \A x \in Slots : descriptor'[x] # NoDescriptor /\ "ON_HOLD" \in flags'[x] =>
        descriptor'[x] = descriptor[x] /\ "ON_HOLD" \in flags[x]
  BY <1>2
<1> QED BY <1>2, <1>3, HoldsStayAwaited

LEMMA NextHolds ==
  ASSUME IInv, HoldsAreAwaited, ~RegistryMayFail, [Next]_vars
  PROVE  HoldsAreAwaited'
<1> DEFINE Quiet == \A s \in Slots : descriptor'[s] # NoDescriptor /\ "ON_HOLD" \in flags'[s] =>
                      descriptor'[s] = descriptor[s] /\ "ON_HOLD" \in flags[s]
<1>1. CASE UNCHANGED vars
  BY <1>1 DEF HoldsAreAwaited, vars, table
<1>2. ASSUME NEW t \in Threads, NEW d \in Descriptors, Publish(t, d), ~UNCHANGED vars
      PROVE  PollersStay /\ Quiet
  BY <1>2, PublishMoves
<1>3. ASSUME NEW t \in Threads, NestedAcquire(t) \/ SetsDefault(t), ~UNCHANGED vars
      PROVE  HoldsAreAwaited'
  BY <1>3, ChangeDefaultHolds
<1>4. ASSUME NEW t \in Threads, UpdateOld(t) \/ AddOld(t) \/ MarkNew(t) \/ AddNew(t)
      PROVE  PollersStay /\ Quiet
  <2>1. PollersStay /\ UNCHANGED descriptor
    BY <1>4, CriticalMoves
  <2>2. flags \in [Slots -> SUBSET Flags]
    BY DEF IInv, TypeOK
  <2>3. \A x \in Slots : "ON_HOLD" \in flags'[x] => "ON_HOLD" \in flags[x]
    BY <1>4, <2>2 DEF UpdateOld, AddOld, MarkNew, AddNew
  <2> QED BY <2>1, <2>3
<1>5. ASSUME NEW t \in Threads, NEW d \in PublishedByUser, NEW w \in WaitOptions, FindToUnpublish(t, d, w)
      PROVE  PollersStay /\ Quiet
  <2>1. pc \in [Threads -> Locations] /\ call \in [Threads -> Calls]
    BY DEF IInv, TypeOK
  <2>2. PollersStay
    BY <1>5, <2>1 DEF PollersStay, FindToUnpublish, Goto
  <2> QED BY <1>5, <2>2 DEF FindToUnpublish, table
<1>6. ASSUME NEW c \in Clients, try_get_interface(c) \/ release_interface(c)
      PROVE  PollersStay /\ Quiet
  BY <1>6 DEF try_get_interface, release_interface, PollersStay
<1>7. CASE ipc_init \/ InitDone \/ deinit \/ unpublish_ipc_owned_interfaces \/ DeinitDone \/ Crash
  <2>1. CASE \A s \in Slots : descriptor'[s] = NoDescriptor
    BY <2>1 DEF HoldsAreAwaited
  <2>2. CASE /\ UNCHANGED <<flags, pc, call>>
             /\ \A s \in Slots : descriptor'[s] \in {NoDescriptor, descriptor[s]}
    BY <2>2 DEF HoldsAreAwaited
  <2> QED BY <1>7, <2>1, <2>2, LifeCycleMoves DEF table, Emptied, Kept
<1>8. ASSUME NEW t \in Threads, Poll(t)
      PROVE  HoldsAreAwaited'
  BY <1>8, PollHolds
<1>9. PollersStay /\ Quiet => HoldsAreAwaited'
  BY HoldsStayAwaited
<1> HIDE DEF Quiet
<1>10. ASSUME NEW t \in Threads, publish_ipc_owned_interfaces(t)
       PROVE  \E d \in Descriptors : Publish(t, d)
  BY <1>10, ConstantsAssumption DEF publish_ipc_owned_interfaces, OwnedSet
<1>11. ASSUME NEW t \in Threads, NEW d \in PublishedByUser, az_ulib_ipc_publish(t, d)
       PROVE  d \in Descriptors /\ Publish(t, d)
  BY <1>11, ConstantsAssumption DEF az_ulib_ipc_publish
<1> QED BY <1>1, <1>2, <1>3, <1>4, <1>5, <1>6, <1>7, <1>8, <1>9, <1>10, <1>11
  DEF Next, ThreadCall, ThreadStep, SetsDefault

\* Without flash errors an interface is on hold only while a thread waits in
\* az_ulib_ipc_unpublish for that very interface: no client is refused for good,
\* also after a power cycle, a timeout or a change of the default.
THEOREM HoldsHaveWaiters == ASSUME ~RegistryMayFail PROVE Spec => []OnHoldHasWaiter
<1>1. Init => HoldsAreAwaited
  BY DEF Init, HoldsAreAwaited
<1>2. IInv /\ HoldsAreAwaited /\ [Next]_vars => HoldsAreAwaited'
  BY NextHolds
<1>3. IInv /\ HoldsAreAwaited => OnHoldHasWaiter
  BY DEF IInv, SlotsConsistent, HoldsAreAwaited, OnHoldHasWaiter
<1> QED BY <1>1, <1>2, <1>3, InductiveInvariant, PTL DEF Spec

-----------------------------------------------------------------------------
(***************************************************************************)
(* The default flag and the registry.                                      *)
(***************************************************************************)
Agrees(s) == "DEFAULT" \in flags[s] <=> registry[NameOf(descriptor[s])] = "default"

\* Thread t has changed the flag of s and not yet the registry, or the reverse.
ChangesFlagOf(t, s) ==
  \/ pc[t] \in {"update_old", "add_old", "mark_new", "add_new"} /\ s = call[t].slot
  \/ pc[t] = "update_old" /\ s = call[t].old

\* The inductive form of DefaultAgreesWithRegistry: the exceptions inside
\* az_ulib_ipc_set_default, and how far each of its steps has got.
DefaultsAgree ==
  \A s \in Slots : Published(s) => Agrees(s) \/ \E t \in Threads : ChangesFlagOf(t, s)
OldHasLostFlag ==
  \A t \in Threads : pc[t] \in {"update_old", "add_old"} => "DEFAULT" \notin flags[call[t].old]
NewHasFlag == \A t \in Threads : pc[t] = "add_new" => "DEFAULT" \in flags[call[t].slot]
PollersWaitForever == \A t \in Threads : pc[t] = "poll" => call[t].polls = Forever

DefaultInv == DefaultsAgree /\ OldHasLostFlag /\ NewHasFlag /\ PollersWaitForever

\* A registry write for the interface in a slot leaves the entries of the
\* others alone.
LEMMA WriteTouchesOne ==
  ASSUME IInv, NEW s \in Slots, descriptor[s] # NoDescriptor,
         NEW value, RegistryWrite(NameOf(descriptor[s]), value)
  PROVE  /\ registry'[NameOf(descriptor[s])] = value
         /\ \A x \in Slots : x # s /\ descriptor[x] # NoDescriptor =>
              registry'[NameOf(descriptor[x])] = registry[NameOf(descriptor[x])]
<1>1. registry \in [Names -> {"absent", "plain", "default"}] /\ NameOf(descriptor[s]) \in Names
  BY NameOfSlot DEF IInv, TypeOK
<1>2. \A x \in Slots : x # s /\ descriptor[x] # NoDescriptor =>
        NameOf(descriptor[x]) # NameOf(descriptor[s]) /\ NameOf(descriptor[x]) \in Names
  BY NameOfSlot DEF IInv, UniqueNames
<1> QED BY <1>1, <1>2 DEF RegistryWrite

\* A published slot has a descriptor.
LEMMA PublishedHasDescriptor ==
  ASSUME IInv, NEW s \in Slots, Published(s)
  PROVE  descriptor[s] # NoDescriptor
BY DEF IInv, SlotsConsistent

\* While the lock is free all published slots agree with the registry.
LEMMA AgreeOutsideLock ==
  ASSUME IInv, DefaultInv, LockFree
  PROVE  \A s \in Slots : Published(s) => Agrees(s)
BY OutsideLock DEF DefaultInv, DefaultsAgree, ChangesFlagOf

\* A thread inside the lock is the only one that changes flags.
LEMMA AgreeInsideLock ==
  ASSUME IInv, DefaultInv, NEW t \in Threads, pc[t] \in LockedLocations
  PROVE  \A s \in Slots : Published(s) => Agrees(s) \/ ChangesFlagOf(t, s)
BY InsideLock DEF DefaultInv, DefaultsAgree, ChangesFlagOf

LEMMA PublishAgrees ==
  ASSUME IInv, DefaultInv, ~RegistryMayFail, NEW t \in Threads, NEW d \in Descriptors,
         Publish(t, d), ~UNCHANGED vars
  PROVE  DefaultInv'
<1>1. PICK s \in Slots :
        /\ ref_count[s] = 0 /\ descriptor[s] = NoDescriptor /\ descriptor'[s] = d
        /\ \A x \in Slots \ {s} : /\ descriptor'[x] = descriptor[x]
                                 /\ flags'[x] = flags[x] /\ ref_count'[x] = ref_count[x]
        /\ \/ /\ flags'[s] = {} /\ ref_count'[s] = 0 /\ UNCHANGED registry
              /\ pc'[t] = "nested_acquire"
           \/ /\ registry[NameOf(d)] \in {"plain", "absent"}
              /\ flags'[s] = {} /\ ref_count'[s] = 1
              /\ UNCHANGED <<registry, lock, pc, call>>
           \/ /\ flags'[s] = {"DEFAULT"} /\ ref_count'[s] = 1
              /\ RegistryWrite(NameOf(d), "default")
              /\ UNCHANGED <<lock, pc, call>>
  BY PublishMoves DEF RegistryFailure
<1>2. /\ LockFree /\ pc[t] = "idle"
      /\ \A x \in Slots : descriptor[x] # NoDescriptor => NameOf(descriptor[x]) # NameOf(d)
      /\ \A u \in Threads \ {t} : pc'[u] = pc[u] /\ call'[u] = call[u]
  BY PublishMoves
<1>3. registry \in [Names -> {"absent", "plain", "default"}] /\ NameOf(d) \in Names
  BY DEF IInv, TypeOK, Names
<1>4. \A u \in Threads : pc[u] \in {"idle", "poll"}
  BY <1>2, OutsideLock
<1>5. DefaultsAgree'
  <2> SUFFICES ASSUME NEW x \in Slots, Published(x)'
               PROVE  Agrees(x)'
    BY DEF DefaultsAgree
  <2>1. CASE x = s
    BY <1>1, <1>3, <2>1 DEF Published, Agrees, RegistryWrite
  <2>2. CASE x # s
    <3>1. Published(x) /\ Agrees(x) /\ descriptor[x] # NoDescriptor
      BY <1>1, <1>2, <2>2, AgreeOutsideLock, PublishedHasDescriptor DEF Published
    <3>2. registry'[NameOf(descriptor[x])] = registry[NameOf(descriptor[x])]
      <4>1. NameOf(descriptor[x]) \in Names /\ NameOf(descriptor[x]) # NameOf(d)
        BY <1>2, <3>1, NameOfSlot
      <4> QED BY <1>1, <1>3, <4>1 DEF RegistryWrite
    <3> QED BY <1>1, <2>2, <3>1, <3>2 DEF Agrees
  <2> QED BY <2>1, <2>2
<1>6. \A u \in Threads : pc'[u] \in {"idle", "poll", "nested_acquire"}
  BY <1>1, <1>2, <1>4
<1>7. PollersWaitForever'
  BY <1>1, <1>2 DEF DefaultInv, PollersWaitForever
<1> QED BY <1>5, <1>6, <1>7 DEF DefaultInv, OldHasLostFlag, NewHasFlag

LEMMA ChangeDefaultAgrees ==
  ASSUME IInv, DefaultInv, NEW t \in Threads,
         NestedAcquire(t) \/ SetsDefault(t), ~UNCHANGED vars
  PROVE  DefaultInv'
<1>1. PICK s \in Slots, d \in Descriptors \cup {NoDescriptor} :
        /\ ChangeDefault(t, s, d)
        /\ descriptor[s] # NoDescriptor /\ pc[t] \in {"idle", "nested_acquire"}
        /\ \A u \in Threads : u # t => pc[u] \in {"idle", "poll"}
  BY DefaultChangers
<1> DEFINE old == DefaultOf(Family[descriptor[s]])
<1>2. /\ \A u \in Threads \ {t} : pc[u] \in {"idle", "poll"} /\ pc'[u] = pc[u] /\ call'[u] = call[u]
      /\ call'[t].slot = s /\ call'[t].old = old
      /\ UNCHANGED <<descriptor, ref_count, registry>>
      /\ \/ pc'[t] = "mark_new" /\ UNCHANGED flags
         \/ /\ old \in Slots /\ pc'[t] = "update_old" /\ flags'[old] = {}
            /\ \A x \in Slots \ {old} : flags'[x] = flags[x]
  BY <1>1, ChangeDefaultMoves
<1> HIDE DEF old
<1>3. \A x \in Slots : Published(x) => Agrees(x)
  BY <1>1, <1>2 DEF DefaultInv, DefaultsAgree, ChangesFlagOf
<1>4. DefaultsAgree'
  <2> SUFFICES ASSUME NEW x \in Slots, Published(x)', ~ChangesFlagOf(t, x)'
               PROVE  Agrees(x)'
    BY DEF DefaultsAgree
  <2>1. Agrees(x) /\ flags'[x] = flags[x]
    BY <1>2, <1>3 DEF Published, ChangesFlagOf
  <2> QED BY <1>2, <2>1 DEF Agrees
<1>5. OldHasLostFlag' /\ NewHasFlag'
  BY <1>2 DEF OldHasLostFlag, NewHasFlag
<1>6. PollersWaitForever'
  BY <1>2 DEF DefaultInv, PollersWaitForever
<1> QED BY <1>4, <1>5, <1>6 DEF DefaultInv

LEMMA CriticalAgrees ==
  ASSUME IInv, DefaultInv, ~RegistryMayFail, NEW t \in Threads,
         UpdateOld(t) \/ AddOld(t) \/ MarkNew(t) \/ AddNew(t)
  PROVE  DefaultInv'
<1> DEFINE s == call[t].slot
           old == call[t].old
<1>1. /\ pc[t] \in LockedLocations /\ UNCHANGED <<phase, descriptor, hash, publish_count, clients>>
      /\ \A u \in Threads \ {t} : pc[u] \in {"idle", "poll"} /\ pc'[u] = pc[u] /\ call'[u] = call[u]
  BY CriticalMoves
<1>2. s \in Slots /\ descriptor[s] # NoDescriptor
  BY <1>1, InsideLock, ConstantsAssumption
<1>3. /\ flags \in [Slots -> SUBSET Flags] /\ ref_count \in [Slots -> Nat]
      /\ registry \in [Names -> {"absent", "plain", "default"}]
  BY DEF IInv, TypeOK
<1>4. \A x \in Slots : Published(x) => Agrees(x) \/ ChangesFlagOf(t, x)
  BY <1>1, AgreeInsideLock
<1>5. \/ pc'[t] = "idle"
      \/ UNCHANGED <<call, ref_count>> /\ pc'[t] \in {"add_old", "mark_new", "add_new"}
  BY CriticalMoves
<1>6. PollersWaitForever'
  BY <1>1, <1>5 DEF DefaultInv, PollersWaitForever
\* Only the slot itself can be published by the end of the section.
<1>7. \A x \in Slots \ {s} : Published(x)' => Published(x)
  <2>1. CASE UNCHANGED ref_count
    BY <2>1 DEF Published
  <2>2. CASE Return(t)
    BY <1>3, <2>2 DEF Return, Published
  <2> QED BY <1>5, <2>1, <2>2, CriticalMoves
<1>8. CASE UpdateOld(t) \/ AddOld(t)
  <2>1. pc[t] \in {"update_old", "add_old"} /\ UNCHANGED flags
    BY <1>8 DEF UpdateOld, AddOld, InCriticalSection
  <2>2. /\ old \in Slots \ {s} /\ descriptor[old] # NoDescriptor
        /\ "DEFAULT" \notin flags[old]
    BY <2>1 DEF IInv, CallsConsistent, CallConsistent, DefaultInv, OldHasLostFlag
  <2>3. /\ pc'[t] \in {"add_old", "mark_new"}
        /\ UNCHANGED <<call, ref_count>>
        /\ \/ UNCHANGED registry /\ registry[NameOf(descriptor[old])] = "plain"
           \/ RegistryWrite(NameOf(descriptor[old]), "absent")
           \/ RegistryWrite(NameOf(descriptor[old]), "plain")
    <3>1. pc \in [Threads -> Locations]
      BY DEF IInv, TypeOK
    <3> QED BY <1>8, <3>1 DEF UpdateOld, AddOld, RegistryFailure, Goto
  <2> HIDE DEF old, s
  <2>4. /\ registry'[NameOf(descriptor[old])] # "default"
        /\ \A x \in Slots : x # old /\ descriptor[x] # NoDescriptor =>
             registry'[NameOf(descriptor[x])] = registry[NameOf(descriptor[x])]
    <3>1. CASE UNCHANGED registry /\ registry[NameOf(descriptor[old])] = "plain"
      BY <3>1
    <3>2. CASE RegistryWrite(NameOf(descriptor[old]), "absent")
      BY <2>2, <3>2, WriteTouchesOne
    <3>3. CASE RegistryWrite(NameOf(descriptor[old]), "plain")
      BY <2>2, <3>3, WriteTouchesOne
    <3> QED BY <2>3, <3>1, <3>2, <3>3
  <2>5. DefaultsAgree'
    <3> SUFFICES ASSUME NEW x \in Slots, Published(x)', x # s
                 PROVE  Agrees(x)'
      BY <2>3 DEF DefaultsAgree, ChangesFlagOf, s
    <3>1. CASE x = old
      BY <1>1, <2>1, <2>2, <2>4, <3>1 DEF Agrees
    <3>2. CASE x # old
      <4>1. Published(x) /\ Agrees(x) /\ descriptor[x] # NoDescriptor
        BY <1>4, <1>7, <3>2, PublishedHasDescriptor DEF ChangesFlagOf, s, old
      <4> QED BY <1>1, <2>1, <2>4, <3>2, <4>1 DEF Agrees
    <3> QED BY <3>1, <3>2
  <2>6. OldHasLostFlag' /\ NewHasFlag'
    BY <1>1, <2>1, <2>2, <2>3 DEF OldHasLostFlag, NewHasFlag, old
  <2> QED BY <1>6, <2>5, <2>6 DEF DefaultInv
<1>9. CASE MarkNew(t)
  <2>1. /\ pc[t] = "mark_new" /\ flags' = [flags EXCEPT ![s] = @ \cup {"DEFAULT"}]
        /\ \/ registry[NameOf(descriptor[s])] = "default" /\ UNCHANGED registry /\ Return(t)
           \/ /\ RegistryWrite(NameOf(descriptor[s]), "absent")
              /\ UNCHANGED call /\ Goto(t, "add_new")
    BY <1>9 DEF MarkNew, RegistryFailure, InCriticalSection
  <2> HIDE DEF s
  <2>2. /\ "DEFAULT" \in flags'[s] /\ \A x \in Slots \ {s} : flags'[x] = flags[x]
    BY <1>2, <1>3, <2>1
  <2>3. \A x \in Slots : x # s /\ descriptor[x] # NoDescriptor =>
             registry'[NameOf(descriptor[x])] = registry[NameOf(descriptor[x])]
    BY <1>2, <2>1, WriteTouchesOne
  <2>4. \/ registry'[NameOf(descriptor[s])] = "default" /\ pc'[t] = "idle"
        \/ pc'[t] = "add_new" /\ UNCHANGED call
    <3>1. pc \in [Threads -> Locations]
      BY DEF IInv, TypeOK
    <3> QED BY <2>1, <3>1 DEF Return, Goto
  <2>5. DefaultsAgree'
    <3> SUFFICES ASSUME NEW x \in Slots, Published(x)', ~ChangesFlagOf(t, x)'
                 PROVE  Agrees(x)'
      BY DEF DefaultsAgree
    <3>1. CASE x = s
      <4>1. registry'[NameOf(descriptor[s])] = "default"
        BY <2>4, <3>1 DEF ChangesFlagOf, s
      <4> QED BY <1>1, <2>2, <3>1, <4>1 DEF Agrees
    <3>2. CASE x # s
      <4>1. Published(x) /\ Agrees(x) /\ descriptor[x] # NoDescriptor
        BY <1>4, <1>7, <2>1, <3>2, PublishedHasDescriptor DEF ChangesFlagOf, s
      <4> QED BY <1>1, <2>2, <2>3, <3>2, <4>1 DEF Agrees
    <3> QED BY <3>1, <3>2
  <2>6. OldHasLostFlag' /\ NewHasFlag'
    BY <1>1, <2>2, <2>4 DEF OldHasLostFlag, NewHasFlag, s
  <2> QED BY <1>6, <2>5, <2>6 DEF DefaultInv
<1>10. CASE AddNew(t)
  <2>1. /\ pc[t] = "add_new" /\ UNCHANGED flags /\ "DEFAULT" \in flags[s]
        /\ RegistryWrite(NameOf(descriptor[s]), "default") /\ Return(t)
    BY <1>10 DEF AddNew, RegistryFailure, InCriticalSection, DefaultInv, NewHasFlag
  <2> HIDE DEF s
  <2>2. /\ registry'[NameOf(descriptor[s])] = "default"
        /\ \A x \in Slots : x # s /\ descriptor[x] # NoDescriptor =>
             registry'[NameOf(descriptor[x])] = registry[NameOf(descriptor[x])]
    BY <1>2, <2>1, WriteTouchesOne
  <2>3. pc'[t] = "idle"
    BY <1>1, <2>1, ReturnFacts
  <2>4. DefaultsAgree'
    <3> SUFFICES ASSUME NEW x \in Slots, Published(x)'
                 PROVE  Agrees(x)'
      BY DEF DefaultsAgree
    <3>1. CASE x = s
      BY <1>1, <2>1, <2>2, <3>1 DEF Agrees
    <3>2. CASE x # s
      <4>1. Published(x) /\ Agrees(x) /\ descriptor[x] # NoDescriptor
        BY <1>4, <1>7, <2>1, <3>2, PublishedHasDescriptor DEF ChangesFlagOf, s
      <4> QED BY <1>1, <2>1, <2>2, <3>2, <4>1 DEF Agrees
    <3> QED BY <3>1, <3>2
  <2>5. OldHasLostFlag' /\ NewHasFlag'
    BY <1>1, <2>3 DEF OldHasLostFlag, NewHasFlag
  <2> QED BY <1>6, <2>4, <2>5 DEF DefaultInv
<1> QED BY <1>8, <1>9, <1>10

LEMMA PollAgrees ==
  ASSUME IInv, DefaultInv, ~RegistryMayFail, NEW t \in Threads, Poll(t)
  PROVE  DefaultInv'
<1> DEFINE s == call[t].slot
           d == call[t].desc
<1>1. /\ s \in Slots /\ d \in Descriptors /\ LockFree /\ pc[t] = "poll"
      /\ \A u \in Threads \ {t} : pc'[u] = pc[u] /\ call'[u] = call[u]
      /\ pc'[t] \in {"idle", "poll"}
      /\ pc'[t] = "poll" => (call[t].polls = Forever => call'[t].polls = Forever)
  BY PollMoves DEF Poll
<1>2. call[t].polls = Forever
  BY <1>1 DEF DefaultInv, PollersWaitForever
<1>3. \/ /\ UNCHANGED <<descriptor, ref_count, registry>>
         /\ \A x \in Slots : flags'[x] = flags[x] \/ flags'[x] = flags[x] \cup {"ON_HOLD"}
      \/ /\ descriptor[s] = d /\ Remove(s)
         /\ RegistryWrite(NameOf(d), "absent") /\ UNCHANGED flags
  BY <1>1, <1>2, PollMoves, ConstantsAssumption DEF RegistryFailure
<1>4. \A x \in Slots : Published(x) => Agrees(x)
  BY <1>1, AgreeOutsideLock
<1>5. \A u \in Threads : pc'[u] \in {"idle", "poll"}
  BY <1>1, OutsideLock
<1> HIDE DEF s, d
<1>6. DefaultsAgree'
  <2> SUFFICES ASSUME NEW x \in Slots, Published(x)'
               PROVE  Agrees(x)'
    BY DEF DefaultsAgree
  <2>1. CASE UNCHANGED <<descriptor, ref_count, registry>>
    <3>1. \A y \in Slots : flags'[y] = flags[y] \/ flags'[y] = flags[y] \cup {"ON_HOLD"}
      BY <1>3
    <3> QED BY <1>4, <2>1, <3>1 DEF Agrees, Published
  <2>2. CASE descriptor[s] = d /\ Remove(s) /\ RegistryWrite(NameOf(d), "absent") /\ UNCHANGED flags
    <3>1. /\ descriptor \in [Slots -> Descriptors \cup {NoDescriptor}]
          /\ ref_count \in [Slots -> Nat] /\ d # NoDescriptor
      BY <1>1, ConstantsAssumption DEF IInv, TypeOK
    <3>2. x # s /\ descriptor'[x] = descriptor[x] /\ Published(x)
      BY <1>1, <2>2, <3>1 DEF Remove, Published
    <3>3. descriptor[x] # NoDescriptor /\ Agrees(x)
      BY <1>4, <3>2, PublishedHasDescriptor
    <3>4. registry'[NameOf(descriptor[x])] = registry[NameOf(descriptor[x])]
      BY <1>1, <2>2, <3>1, <3>2, <3>3, WriteTouchesOne
    <3> QED BY <2>2, <3>2, <3>3, <3>4 DEF Agrees
  <2> QED BY <1>3, <2>1, <2>2
<1>7. PollersWaitForever'
  BY <1>1, <1>2 DEF DefaultInv, PollersWaitForever
<1> QED BY <1>5, <1>6, <1>7 DEF DefaultInv, OldHasLostFlag, NewHasFlag

\* A client that gets or releases an interface publishes and unpublishes nothing.
LEMMA ClientMoves ==
  ASSUME IInv, NEW c \in Clients, try_get_interface(c) \/ release_interface(c)
  PROVE  /\ UNCHANGED <<phase, descriptor, hash, flags, publish_count, lock, registry, pc, call>>
         /\ \A s \in Slots : ref_count'[s] > 0 <=> ref_count[s] > 0
         /\ \A s \in Slots : ref_count[s] = 0 <=> ref_count'[s] = 0
<1>1. UNCHANGED <<phase, descriptor, hash, flags, publish_count, lock, registry, pc, call>>
  BY DEF try_get_interface, release_interface
<1>2. ref_count \in [Slots -> Nat]
  BY DEF IInv, TypeOK
<1>3. CASE try_get_interface(c)
  <2>1. CASE TryGetResult(c) = "AZ_OK"
    <3> DEFINE s == SlotFor(c)
    <3>1. /\ ref_count' = [ref_count EXCEPT ![s] = @ + 1] /\ s # NoSlot
          /\ ~(ref_count[s] < 1)
      BY <1>3, <2>1 DEF try_get_interface, TryGetResult, try_lock_interface
    <3> HIDE DEF s
    <3> QED BY <1>1, <1>2, <3>1 DEF Published
  <2>2. CASE TryGetResult(c) # "AZ_OK"
    BY <1>1, <1>3, <2>2 DEF try_get_interface, Published
  <2> QED BY <2>1, <2>2
<1>4. CASE release_interface(c)
  <2> DEFINE s == handle[c].slot
  <2>1. ref_count' = [ref_count EXCEPT ![s] = @ - 1] /\ s \in Slots /\ c \in Holders(s)
    BY <1>4 DEF release_interface, IInv, HoldersAreBusy, Holders
  <2> HIDE DEF s
  <2>2. ref_count[s] = 1 + Cardinality(Holders(s)) /\ Cardinality(Holders(s)) \in Nat \ {0}
    BY <2>1, HoldersFinite, FS_EmptySet DEF IInv, RefCountsHolders
  <2>3. ref_count[s] > 1
    BY <2>2
  <2> QED BY <1>1, <1>2, <2>1, <2>3 DEF Published
<1> QED BY <1>3, <1>4

LEMMA NextAgrees ==
  ASSUME IInv, DefaultInv, ~RegistryMayFail, WaitOptions \subseteq {Forever}, [Next]_vars
  PROVE  DefaultInv'
<1> USE DEF DefaultInv
<1>1. CASE UNCHANGED vars
  BY <1>1 DEF DefaultsAgree, OldHasLostFlag, NewHasFlag, PollersWaitForever, Agrees, ChangesFlagOf,
      Published, vars, table
<1>2. ASSUME NEW t \in Threads, NEW d \in PublishedByUser, az_ulib_ipc_publish(t, d)
      PROVE  DefaultInv'
  BY <1>1, <1>2, PublishAgrees, ConstantsAssumption DEF az_ulib_ipc_publish
<1>3. ASSUME NEW t \in Threads, publish_ipc_owned_interfaces(t)
      PROVE  DefaultInv'
  <2>1. PICK d \in Descriptors : Publish(t, d)
    BY <1>3, ConstantsAssumption DEF publish_ipc_owned_interfaces, OwnedSet
  <2> QED BY <1>1, <2>1, PublishAgrees
<1>4. ASSUME NEW t \in Threads, NestedAcquire(t) \/ SetsDefault(t)
      PROVE  DefaultInv'
  BY <1>1, <1>4, ChangeDefaultAgrees
<1>5. ASSUME NEW t \in Threads, UpdateOld(t) \/ AddOld(t) \/ MarkNew(t) \/ AddNew(t)
      PROVE  DefaultInv'
  BY <1>5, CriticalAgrees
<1>6. ASSUME NEW t \in Threads, Poll(t)
      PROVE  DefaultInv'
  BY <1>6, PollAgrees
<1>7. ASSUME NEW t \in Threads, NEW d \in PublishedByUser, NEW w \in WaitOptions, FindToUnpublish(t, d, w)
      PROVE  DefaultInv'
  <2>1. /\ UNCHANGED <<table, registry>> /\ pc[t] = "idle"
        /\ pc'[t] = "poll" /\ call'[t].polls = Forever
        /\ \A u \in Threads \ {t} : pc'[u] = pc[u] /\ call'[u] = call[u]
    <3>1. pc \in [Threads -> Locations] /\ call \in [Threads -> Calls]
      BY DEF IInv, TypeOK
    <3> QED BY <1>7, <3>1 DEF FindToUnpublish, Goto
  <2>2. \A s \in Slots, u \in Threads : ChangesFlagOf(u, s) => ChangesFlagOf(u, s)'
    BY <2>1 DEF ChangesFlagOf
  <2>3. DefaultsAgree'
    BY <2>1, <2>2 DEF DefaultsAgree, Agrees, Published, table
  <2> QED BY <2>1, <2>3 DEF OldHasLostFlag, NewHasFlag, PollersWaitForever, table
<1>8. ASSUME NEW c \in Clients, try_get_interface(c) \/ release_interface(c)
      PROVE  DefaultInv'
  <2>1. /\ UNCHANGED <<descriptor, flags, registry, pc, call>>
        /\ \A s \in Slots : ref_count'[s] > 0 <=> ref_count[s] > 0
    BY <1>8, ClientMoves
  <2> QED BY <2>1 DEF DefaultsAgree, OldHasLostFlag, NewHasFlag, PollersWaitForever, Agrees,
           ChangesFlagOf, Published
<1>9. CASE ipc_init \/ Crash
  <2>1. \A s \in Slots : ~Published(s)'
    BY <1>9 DEF ipc_init, Crash, Published
  <2>2. \A u \in Threads : pc'[u] = "idle"
    BY <1>9 DEF ipc_init, Crash, IInv, HoldersAreBusy, AllIdle
  <2> QED BY <2>1, <2>2 DEF DefaultsAgree, OldHasLostFlag, NewHasFlag, PollersWaitForever
<1>10. CASE InitDone \/ deinit \/ DeinitDone
  BY <1>10 DEF InitDone, deinit, DeinitDone, DefaultsAgree, OldHasLostFlag, NewHasFlag, PollersWaitForever,
      Agrees, ChangesFlagOf, Published, table
<1>11. CASE unpublish_ipc_owned_interfaces
  <2>1. AllIdle /\ UNCHANGED <<flags, pc, call>>
    BY <1>11 DEF unpublish_ipc_owned_interfaces, IInv, HoldersAreBusy
  <2>2. PICK i \in OwnedPublished : /\ RegistryWrite(NameOf(Owned[i]), "absent")
                                   /\ Remove(find_interface_descriptor(Owned[i]))
    BY <1>11 DEF unpublish_ipc_owned_interfaces, RegistryFailure
  <2> DEFINE s == find_interface_descriptor(Owned[i])
  <2>3. s \in Slots /\ descriptor[s] = Owned[i] /\ Owned[i] # NoDescriptor
    BY FindDescriptorFinds, ConstantsAssumption DEF OwnedPublished, OwnedSet
  <2> HIDE DEF s
  <2>4. DefaultsAgree'
    <3> SUFFICES ASSUME NEW x \in Slots, Published(x)'
                 PROVE  Agrees(x)'
      BY DEF DefaultsAgree
    <3>1. x # s /\ descriptor'[x] = descriptor[x] /\ Published(x)
      <4>1. descriptor \in [Slots -> Descriptors \cup {NoDescriptor}] /\ ref_count \in [Slots -> Nat]
        BY DEF IInv, TypeOK
      <4> QED BY <2>2, <4>1 DEF Remove, Published, s
    <3>2. descriptor[x] # NoDescriptor /\ Agrees(x)
      BY <2>1, <3>1, AgreeOutsideLock, PublishedHasDescriptor DEF AllIdle
    <3>3. registry'[NameOf(descriptor[x])] = registry[NameOf(descriptor[x])]
      BY <2>2, <2>3, <3>1, <3>2, WriteTouchesOne
    <3> QED BY <2>1, <3>1, <3>2, <3>3 DEF Agrees
  <2> QED BY <2>1, <2>4 DEF OldHasLostFlag, NewHasFlag, PollersWaitForever, AllIdle
<1> QED BY <1>1, <1>2, <1>3, <1>4, <1>5, <1>6, <1>7, <1>8, <1>9, <1>10, <1>11
  DEF Next, ThreadCall, ThreadStep, SetsDefault

\* While the lock is free, what the registry will restore after a power cycle is
\* what the flags say now, if no flash write fails and every unpublish waits
\* until it succeeds; power cycles may fall between the writes of a change.
THEOREM DefaultsFollowRegistry ==
  ASSUME ~RegistryMayFail, WaitOptions \subseteq {Forever}
  PROVE  Spec => []DefaultAgreesWithRegistry
<1>1. Init => DefaultInv
  BY DEF Init, DefaultInv, DefaultsAgree, OldHasLostFlag, NewHasFlag, PollersWaitForever, Published
<1>2. IInv /\ DefaultInv /\ [Next]_vars => DefaultInv'
  BY NextAgrees
<1>3. IInv /\ DefaultInv => DefaultAgreesWithRegistry
  BY AgreeOutsideLock DEF DefaultAgreesWithRegistry, Agrees
<1> QED BY <1>1, <1>2, <1>3, InductiveInvariant, PTL DEF Spec

-----------------------------------------------------------------------------
(***************************************************************************)
(* Clients of the default package.                                         *)
(***************************************************************************)

\* A handle that was resolved for the default package and is current leads to
\* the default package: az_ulib_ipc_set_default changes the hash of the old one.
StarHandles ==
  \A c \in Clients :
    /\ Request[c].version = AnyVersion /\ HandleIsCurrent(c)
    /\ descriptor[handle[c].slot] # NoDescriptor
    => "DEFAULT" \in flags[handle[c].slot]

\* The slot got a new hash, or kept its hash and did not lose the default flag.
Rehashed(s) == hash'[s] = publish_count
KeptFlag(s) ==
  /\ hash'[s] = hash[s]
  /\ descriptor'[s] # NoDescriptor =>
       /\ descriptor[s] # NoDescriptor
       /\ "DEFAULT" \in flags[s] => "DEFAULT" \in flags'[s]

LEMMA StarHandlesStay ==
  ASSUME IInv, StarHandles, ~MayDeinit, phase # "down", UNCHANGED handle,
         \A s \in Slots : Rehashed(s) \/ KeptFlag(s)
  PROVE  StarHandles'
<1> SUFFICES ASSUME NEW c \in Clients, Request[c].version = AnyVersion, HandleIsCurrent(c)',
                    descriptor'[handle[c].slot] # NoDescriptor
             PROVE  "DEFAULT" \in flags'[handle[c].slot]
  BY DEF StarHandles
<1> DEFINE s == handle[c].slot
<1>1. handle[c].hash < publish_count /\ handle[c] \in Handles /\ publish_count \in Nat
  BY DEF IInv, TypeOK, HandlesAreSound, HandlesConsistent
<1>2. s \in Slots /\ s # NoSlot /\ hash'[s] = handle[c].hash
  BY <1>1 DEF HandleIsCurrent, Handles
<1>3. KeptFlag(s)
  BY <1>1, <1>2 DEF Rehashed, Handles
<1> QED BY <1>2, <1>3 DEF StarHandles, HandleIsCurrent, KeptFlag

\* A client that asks for the default package and gets an interface gets the default.
LEMMA StarTryGet ==
  ASSUME IInv, IInv', StarHandles, NEW c \in Clients, try_get_interface(c)
  PROVE  /\ ~holding[c] /\ holding'[c] /\ Request[c].version = AnyVersion =>
              "DEFAULT" \in flags[handle'[c].slot]
         /\ handle'[c] = handle[c] \/ holding'[c]
         /\ \A x \in Clients \ {c} : handle'[x] = handle[x] /\ holding'[x] = holding[x]
<1> DEFINE s == SlotFor(c)
<1>1. /\ handle \in [Clients -> Handles] /\ holding \in [Clients -> BOOLEAN]
      /\ ref_count \in [Slots -> Nat] /\ ~holding[c] /\ LockFree
  BY DEF IInv, TypeOK, try_get_interface
<1>2. CASE UNCHANGED clients
  BY <1>1, <1>2 DEF clients
<1>3. CASE /\ TryGetResult(c) = "AZ_OK"
           /\ handle' = [handle EXCEPT ![c] = [slot |-> s, hash |-> hash[s]]]
           /\ holding' = [holding EXCEPT ![c] = TRUE]
  <2>1. /\ holding'[c] /\ handle'[c].slot = s
        /\ \A x \in Clients \ {c} : holding'[x] = holding[x] /\ handle'[x] = handle[x]
    BY <1>1, <1>3
  <2>2. s \in Slots
    BY <2>1 DEF IInv, HoldersAreBusy
  <2>3. descriptor[s] # NoDescriptor
    <3>1. ~(ref_count[s] < 1)
      BY <1>3 DEF TryGetResult, try_lock_interface
    <3> QED BY <1>1, <2>2, <3>1, OutsideLock
  <2>4. ASSUME Request[c].version = AnyVersion PROVE "DEFAULT" \in flags[s]
    <3>1. CASE HandleIsCurrent(c)
      BY <2>3, <2>4, <3>1 DEF SlotFor, StarHandles
    <3>2. CASE ~HandleIsCurrent(c)
      <4>1. Matches(Request[c], s)
        BY <2>2, <3>2, LookupFinds, ValueTypes DEF SlotFor
      <4> HIDE DEF s
      <4> QED BY <2>4, <4>1 DEF Matches
    <3> QED BY <3>1, <3>2
  <2> QED BY <2>1, <2>4
<1> QED BY <1>2, <1>3 DEF try_get_interface

LEMMA NextWaits ==
  ASSUME IInv, PollersWaitForever, WaitOptions \subseteq {Forever}, [Next]_vars
  PROVE  PollersWaitForever'
<1> DEFINE Stay == \A u \in Threads : pc'[u] = "poll" => pc[u] = "poll" /\ call'[u] = call[u]
<1>1. CASE UNCHANGED vars
  BY <1>1 DEF PollersWaitForever, vars
<1>2. ASSUME NEW t \in Threads, NEW d \in Descriptors, Publish(t, d), ~UNCHANGED vars
      PROVE  Stay
  BY <1>2, PublishMoves
<1>3. ASSUME NEW t \in Threads, NestedAcquire(t) \/ SetsDefault(t),
             ~UNCHANGED vars
      PROVE  Stay
  BY <1>3, DefaultChangers, ChangeDefaultMoves
<1>4. ASSUME NEW t \in Threads, UpdateOld(t) \/ AddOld(t) \/ MarkNew(t) \/ AddNew(t)
      PROVE  Stay
  BY <1>4, CriticalMoves
<1>5. ASSUME NEW t \in Threads, NEW d \in PublishedByUser, NEW w \in WaitOptions, FindToUnpublish(t, d, w)
      PROVE  PollersWaitForever'
  <2>1. pc \in [Threads -> Locations] /\ call \in [Threads -> Calls]
    BY DEF IInv, TypeOK
  <2> QED BY <1>5, <2>1 DEF PollersWaitForever, FindToUnpublish, Goto
<1>6. ASSUME NEW t \in Threads, Poll(t)
      PROVE  PollersWaitForever'
  <2>1. pc[t] = "poll"
    BY <1>6 DEF Poll
  <2> QED BY <1>6, <2>1, PollMoves DEF PollersWaitForever
<1>7. CASE \/ \E c \in Clients : try_get_interface(c) \/ release_interface(c)
           \/ ipc_init \/ InitDone \/ deinit \/ unpublish_ipc_owned_interfaces \/ DeinitDone
  BY <1>7 DEF PollersWaitForever, try_get_interface, release_interface, ipc_init, InitDone, deinit,
      unpublish_ipc_owned_interfaces, DeinitDone
<1>8. CASE Crash
  BY <1>8 DEF PollersWaitForever, Crash
<1>9. Stay => PollersWaitForever'
  BY DEF PollersWaitForever
<1> HIDE DEF Stay
<1>10. ASSUME NEW t \in Threads, publish_ipc_owned_interfaces(t)
       PROVE  \E d \in Descriptors : Publish(t, d)
  BY <1>10, ConstantsAssumption DEF publish_ipc_owned_interfaces, OwnedSet
<1>11. ASSUME NEW t \in Threads, NEW d \in PublishedByUser, az_ulib_ipc_publish(t, d)
       PROVE  d \in Descriptors /\ Publish(t, d)
  BY <1>11, ConstantsAssumption DEF az_ulib_ipc_publish
<1> QED BY <1>1, <1>2, <1>3, <1>4, <1>5, <1>6, <1>7, <1>8, <1>9, <1>10, <1>11
  DEF Next, ThreadCall, ThreadStep, SetsDefault

LEMMA NextStarHandles ==
  ASSUME IInv, IInv', StarHandles, PollersWaitForever, ~MayDeinit, [Next]_vars
  PROVE  StarHandles'
<1> DEFINE Good == \A s \in Slots : Rehashed(s) \/ KeptFlag(s)
<1>1. CASE UNCHANGED vars
  BY <1>1 DEF StarHandles, HandleIsCurrent, vars, table, clients
<1>2. Good /\ UNCHANGED handle /\ phase # "down" => StarHandles'
  BY StarHandlesStay
<1>3. ASSUME NEW t \in Threads, NEW d \in Descriptors, Publish(t, d), ~UNCHANGED vars
      PROVE  Good /\ UNCHANGED handle
  <2>1. PICK s \in Slots :
          /\ hash'[s] = publish_count
          /\ \A x \in Slots \ {s} : /\ descriptor'[x] = descriptor[x] /\ hash'[x] = hash[x]
                                   /\ flags'[x] = flags[x]
    BY <1>3, PublishMoves
  <2>2. Good
    BY <2>1 DEF Rehashed, KeptFlag
  <2> QED BY <1>3, <2>2, PublishMoves DEF clients
<1>4. ASSUME NEW t \in Threads, NestedAcquire(t) \/ SetsDefault(t),
             ~UNCHANGED vars
      PROVE  Good /\ UNCHANGED handle
  <2>1. PICK s \in Slots, d \in Descriptors \cup {NoDescriptor} :
          /\ ChangeDefault(t, s, d)
          /\ descriptor[s] # NoDescriptor /\ pc[t] # "poll"
          /\ \A u \in Threads : u # t => pc[u] \in {"idle", "poll"}
    BY <1>4, DefaultChangers
  <2> DEFINE old == DefaultOf(Family[descriptor[s]])
  <2>2. /\ UNCHANGED <<descriptor, clients>>
        /\ \/ UNCHANGED <<flags, hash>>
           \/ /\ old \in Slots /\ hash'[old] = publish_count
              /\ \A x \in Slots \ {old} : flags'[x] = flags[x] /\ hash'[x] = hash[x]
    BY <2>1, ChangeDefaultMoves
  <2> HIDE DEF old
  <2> QED BY <2>2 DEF Rehashed, KeptFlag, clients
<1>5. ASSUME NEW t \in Threads, UpdateOld(t) \/ AddOld(t) \/ MarkNew(t) \/ AddNew(t)
      PROVE  Good /\ UNCHANGED handle
  <2>1. UNCHANGED <<descriptor, hash, handle>>
    BY <1>5 DEF UpdateOld, AddOld, MarkNew, AddNew, clients
  <2>2. flags \in [Slots -> SUBSET Flags]
    BY DEF IInv, TypeOK
  <2>3. \A x \in Slots : "DEFAULT" \in flags[x] => "DEFAULT" \in flags'[x]
    BY <1>5, <2>2 DEF UpdateOld, AddOld, MarkNew, AddNew
  <2> QED BY <2>1, <2>3 DEF KeptFlag
<1>6. ASSUME NEW t \in Threads, Poll(t)
      PROVE  Good /\ UNCHANGED handle
  <2> DEFINE s == call[t].slot
  <2>1. call[t].polls = Forever /\ UNCHANGED <<hash, clients>> /\ s \in Slots
    BY <1>6, PollMoves DEF PollersWaitForever, Poll
  <2>2. \/ /\ UNCHANGED descriptor
           /\ \A x \in Slots : flags[x] \subseteq flags'[x]
        \/ Remove(s) /\ UNCHANGED flags
    BY <1>6, <2>1, PollMoves, ConstantsAssumption
  <2> HIDE DEF s
  <2>3. descriptor \in [Slots -> Descriptors \cup {NoDescriptor}]
    BY DEF IInv, TypeOK
  <2>4. Good
    BY <2>1, <2>2, <2>3 DEF KeptFlag, Remove
  <2> QED BY <2>1, <2>4 DEF clients
<1>7. ASSUME NEW t \in Threads, NEW d \in PublishedByUser, NEW w \in WaitOptions, FindToUnpublish(t, d, w)
      PROVE  Good /\ UNCHANGED handle
  BY <1>7 DEF FindToUnpublish, table, clients, KeptFlag
<1>8. ASSUME NEW c \in Clients, release_interface(c)
      PROVE  Good /\ UNCHANGED handle
  BY <1>8 DEF release_interface, KeptFlag
<1>9. ASSUME NEW c \in Clients, try_get_interface(c)
      PROVE  StarHandles'
  <2>1. UNCHANGED <<descriptor, hash, flags>>
    BY <1>9 DEF try_get_interface
  <2> SUFFICES ASSUME NEW x \in Clients, Request[x].version = AnyVersion, HandleIsCurrent(x)',
                      descriptor[handle'[x].slot] # NoDescriptor
               PROVE  "DEFAULT" \in flags[handle'[x].slot]
    BY <2>1 DEF StarHandles
  <2>2. CASE handle'[x] = handle[x]
    BY <2>1, <2>2 DEF StarHandles, HandleIsCurrent
  <2>3. CASE handle'[x] # handle[x]
    <3>1. x = c /\ holding'[c] /\ ~holding[c]
      BY <1>9, <2>3, StarTryGet DEF try_get_interface
    <3> QED BY <1>9, <3>1, StarTryGet
  <2> QED BY <2>2, <2>3
<1>10. CASE ipc_init
  BY <1>10, ValueTypes DEF ipc_init, StarHandles, HandleIsCurrent, clients, IInv, HandlesAreSound, HandlesConsistent
<1>11. CASE InitDone
  BY <1>11 DEF InitDone, StarHandles, HandleIsCurrent, table, clients
<1>12. CASE Crash
  BY <1>12, ValueTypes DEF Crash, StarHandles, HandleIsCurrent
<1>13. CASE deinit \/ unpublish_ipc_owned_interfaces \/ DeinitDone
  BY <1>13 DEF deinit, unpublish_ipc_owned_interfaces, DeinitDone, IInv, HandlesAreSound, HandlesConsistent
<1> HIDE DEF Good
\* Threads and clients are busy with an IPC that is up only.
<1>14. ASSUME NEW t \in Threads, ThreadStep(t)
       PROVE  phase # "down"
  <2>1. pc[t] # "idle"
    BY <1>14 DEF ThreadStep, NestedAcquire, UpdateOld, AddOld, MarkNew, AddNew, Poll, InCriticalSection
  <2> QED BY <2>1 DEF IInv, HoldersAreBusy, AllIdle
<1>15. ASSUME NEW t \in Threads, ThreadStep(t)
       PROVE  StarHandles'
  BY <1>1, <1>2, <1>4, <1>5, <1>6, <1>14, <1>15 DEF ThreadStep
<1>16. ASSUME NEW t \in Threads, ThreadCall(t)
       PROVE  StarHandles'
  <2>1. ASSUME NEW d \in PublishedByUser, az_ulib_ipc_publish(t, d)
        PROVE  StarHandles'
    BY <1>1, <1>2, <1>3, <2>1, ConstantsAssumption DEF az_ulib_ipc_publish
  <2>2. ASSUME NEW d \in PublishedByUser, NEW w \in WaitOptions, FindToUnpublish(t, d, w)
        PROVE  StarHandles'
    BY <1>2, <1>7, <2>2 DEF FindToUnpublish
  <2>3. ASSUME NEW name, set_default(t, name)
        PROVE  StarHandles'
    BY <1>1, <1>2, <1>4, <2>3 DEF set_default, SetsDefault
  <2>4. CASE publish_ipc_owned_interfaces(t)
    <3>1. phase = "init" /\ \E d \in Descriptors : Publish(t, d)
      BY <2>4, ConstantsAssumption DEF publish_ipc_owned_interfaces, OwnedSet
    <3> QED BY <1>1, <1>2, <1>3, <3>1
  <2> QED BY <1>16, <2>1, <2>2, <2>3, <2>4 DEF ThreadCall
<1>17. ASSUME NEW c \in Clients, release_interface(c)
       PROVE  StarHandles'
  BY <1>2, <1>8, <1>17 DEF release_interface
<1> QED BY <1>1, <1>9, <1>10, <1>11, <1>12, <1>13, <1>15, <1>16, <1>17 DEF Next

\* A client that asks for the default package and gets an interface, by a lookup
\* or through a handle it kept, gets the package that is the default now.  Not so
\* after an unpublish that timed out, which clears the flag, or a second init,
\* which starts over with the hashes.
THEOREM StarClientsGetDefault ==
  ASSUME ~MayDeinit, WaitOptions \subseteq {Forever}
  PROVE  Spec => StarGetsDefault
<1> DEFINE Gets == \A c \in Clients :
                     Request[c].version = AnyVersion /\ ~holding[c] /\ holding'[c]
                       => "DEFAULT" \in flags[handle'[c].slot]
<1>1. Init => StarHandles /\ PollersWaitForever
  BY ValueTypes DEF Init, StarHandles, HandleIsCurrent, PollersWaitForever
<1>2. IInv /\ IInv' /\ StarHandles /\ PollersWaitForever /\ [Next]_vars
        => StarHandles' /\ PollersWaitForever'
  BY NextStarHandles, NextWaits
<1>3. ASSUME IInv, IInv', StarHandles, [Next]_vars
      PROVE  Gets
  <2>1. ASSUME NEW c \in Clients, try_get_interface(c)
        PROVE  Gets
    BY <1>3, <2>1, StarTryGet
  <2>2. CASE \A c \in Clients : holding'[c] => holding[c]
    BY <2>2
  <2>3. (\E c \in Clients : try_get_interface(c)) \/ \A c \in Clients : holding'[c] => holding[c]
    <3>1. CASE UNCHANGED holding
      BY <3>1
    <3>2. ASSUME NEW c \in Clients, release_interface(c)
          PROVE  \A x \in Clients : holding'[x] => holding[x]
      BY <1>3, <3>2 DEF release_interface, IInv, TypeOK
    <3>3. CASE Crash
      BY <3>3 DEF Crash
    <3>4. ASSUME NEW t \in Threads, ThreadCall(t) \/ ThreadStep(t)
          PROVE  UNCHANGED holding
      BY <3>4 DEF ThreadCall, ThreadStep, az_ulib_ipc_publish, publish_ipc_owned_interfaces, Publish,
          FindToUnpublish, set_default, NestedAcquire, ChangeDefault, UpdateOld, AddOld, MarkNew,
          AddNew, Poll, vars, clients
    <3>5. CASE \/ ipc_init \/ InitDone \/ deinit \/ unpublish_ipc_owned_interfaces \/ DeinitDone
               \/ UNCHANGED vars
      BY <3>5 DEF ipc_init, InitDone, deinit, unpublish_ipc_owned_interfaces, DeinitDone, vars, clients
    <3> QED BY <1>3, <3>1, <3>2, <3>3, <3>4, <3>5 DEF Next
  <2> QED BY <2>1, <2>2, <2>3
<1>4. IInv /\ IInv' /\ StarHandles /\ [Next]_vars =>
        [\A c \in Clients :
            Request[c].version = AnyVersion /\ ~holding[c] /\ holding'[c]
              => "DEFAULT" \in flags[handle'[c].slot]]_vars
  BY <1>3
<1> QED BY <1>1, <1>2, <1>4, InductiveInvariant, PTL DEF Spec, StarGetsDefault

-----------------------------------------------------------------------------
(***************************************************************************)
(* The entries of the registry.                                            *)
(***************************************************************************)
\* A name with an entry is the name of an interface in the table.
EntriesAreListed ==
  \A name \in Names : registry[name] # "absent" =>
    \E s \in Slots : descriptor[s] # NoDescriptor /\ NameOf(descriptor[s]) = name

\* az_ulib_ipc_set_default is not called by az_ulib_ipc_publish, and
\* az_ulib_ipc_unpublish removes interfaces of the application only.
CallsAreOfUser ==
  \A t \in Threads :
    /\ pc[t] \in LockedLocations => call[t].desc = NoDescriptor
    /\ pc[t] = "poll" => call[t].desc \in PublishedByUser

\* az_ulib_ipc_init fills the first slots in order with the interfaces the IPC
\* owns, and they stay there until az_ulib_ipc_deinit, which finds no others.
OwnedInPlace ==
  /\ phase = "down" => \A s \in Slots : descriptor[s] = NoDescriptor
  /\ phase = "up" => \A i \in DOMAIN Owned : descriptor[i] = Owned[i]
  /\ phase \in {"init", "deinit"} =>
       \A s \in Slots : descriptor[s] # NoDescriptor =>
         s \in DOMAIN Owned /\ descriptor[s] = Owned[s]

TrackInv == EntriesAreListed /\ CallsAreOfUser /\ OwnedInPlace

-----------------------------------------------------------------------------
(***************************************************************************)
(* Publishing.                                                             *)
(***************************************************************************)

\* An interface that is not in the table has no entry: az_ulib_ipc_publish
\* decides about the default by what is in the table alone.
LEMMA PublishFindsNoEntry ==
  ASSUME IInv, EntriesAreListed, NEW t \in Threads, NEW d \in Descriptors,
         Publish(t, d), ~UNCHANGED vars
  PROVE  registry[NameOf(d)] = "absent"
<1>1. NameOf(d) \in Names
  BY DEF Names
<1> QED BY <1>1, PublishMoves DEF EntriesAreListed

\* What is left of PublishMoves: the slot is published at once.
LEMMA PublishTracked ==
  ASSUME IInv, EntriesAreListed, CallsAreOfUser, NEW t \in Threads, NEW d \in Descriptors,
         Publish(t, d), ~UNCHANGED vars
  PROVE  /\ EntriesAreListed' /\ CallsAreOfUser'
         /\ get_first_free \in Slots /\ ref_count[get_first_free] = 0
         /\ descriptor[get_first_free] = NoDescriptor /\ descriptor'[get_first_free] = d
         /\ \A x \in Slots \ {get_first_free} :
              descriptor'[x] = descriptor[x] /\ ref_count'[x] = ref_count[x]
         /\ \/ DefaultOf(Family[d]) # NoSlot
            \/ "DEFAULT" \in flags'[get_first_free]
<1>1. registry[NameOf(d)] = "absent" /\ NameOf(d) \in Names
  BY PublishFindsNoEntry DEF Names
<1>2. PICK s \in Slots :
        /\ s = get_first_free
        /\ ref_count[s] = 0 /\ descriptor[s] = NoDescriptor /\ descriptor'[s] = d
        /\ \A x \in Slots \ {s} : descriptor'[x] = descriptor[x] /\ ref_count'[x] = ref_count[x]
        /\ UNCHANGED <<lock, pc, call>>
        /\ \/ DefaultOf(Family[d]) # NoSlot /\ UNCHANGED registry
           \/ /\ flags'[s] = {"DEFAULT"}
              /\ RegistryWrite(NameOf(d), "default") \/ RegistryFailure
  BY <1>1, PublishMoves
<1>3. CallsAreOfUser'
  BY <1>2 DEF CallsAreOfUser
<1>4. EntriesAreListed'
  <2>1. registry \in [Names -> {"absent", "plain", "default"}] /\ d # NoDescriptor
    BY ConstantsAssumption DEF IInv, TypeOK
  <2> SUFFICES ASSUME NEW name \in Names, registry'[name] # "absent"
               PROVE  \E x \in Slots : descriptor'[x] # NoDescriptor /\ NameOf(descriptor'[x]) = name
    BY DEF EntriesAreListed
  <2>2. CASE name = NameOf(d)
    BY <1>2, <2>1, <2>2
  <2>3. CASE name # NameOf(d)
    <3>1. registry[name] # "absent"
      BY <1>1, <1>2, <2>1, <2>3 DEF RegistryWrite, RegistryFailure
    <3>2. PICK x \in Slots : descriptor[x] # NoDescriptor /\ NameOf(descriptor[x]) = name
      BY <3>1 DEF EntriesAreListed
    <3> QED BY <1>2, <3>2
  <2> QED BY <2>2, <2>3
<1> QED BY <1>2, <1>3, <1>4

\* Inside az_ulib_ipc_init the first free slot is that of the next interface.
LEMMA OwnedFillsItsSlot ==
  ASSUME IInv, OwnedInPlace, phase = "init", LockFree,
         NEW i \in DOMAIN Owned \ OwnedPublished, 1..(i - 1) \subseteq OwnedPublished
  PROVE  get_first_free = i
<1> DEFINE S == {x \in Slots : ref_count[x] = 0}
<1>1. i \in Slots /\ i \in Nat /\ Slots \subseteq Nat
  BY ConstantsAssumption DEF Slots
<1>2. i \in S
  <2>1. descriptor[i] = NoDescriptor
    <3>1. find_interface_descriptor(Owned[i]) = NoSlot
      BY DEF OwnedPublished
    <3>2. descriptor[i] # Owned[i]
      BY <1>1, <3>1, FindDescriptorFinds
    <3> QED BY <1>1, <3>2 DEF OwnedInPlace
  <2>2. ref_count[i] \in Nat /\ ~(ref_count[i] > 0)
    BY <1>1, <2>1, OutsideLock DEF IInv, TypeOK
  <2> QED BY <1>1, <2>2
<1>3. ASSUME NEW j \in 1..(i - 1)
      PROVE  j \notin S
  <2>1. j \in DOMAIN Owned /\ j \in Slots /\ find_interface_descriptor(Owned[j]) # NoSlot
    BY ConstantsAssumption DEF OwnedPublished, Slots
  <2>2. PICK s \in Slots : descriptor[s] = Owned[j]
    BY <2>1, FindDescriptorFinds
  <2>3. s = j /\ descriptor[j] # NoDescriptor
    BY <2>1, <2>2, ConstantsAssumption DEF OwnedInPlace, OwnedSet
  <2>4. ref_count[j] > 0
    BY <2>1, <2>3, OutsideLock
  <2> QED BY <2>4
<1>4. S \in SUBSET Slots /\ get_first_free = First(S)
  BY DEF get_first_free
<1> HIDE DEF S
<1>5. First(S) \in S /\ First(S) <= i /\ First(S) \in Slots
  BY <1>2, <1>4, FirstSlot
<1>6. First(S) \notin 1..(i - 1) /\ First(S) \in Nat /\ First(S) >= 1
  BY <1>1, <1>3, <1>5 DEF Slots
<1> QED BY <1>1, <1>4, <1>5, <1>6

LEMMA PublishOwnedTracked ==
  ASSUME IInv, TrackInv, NEW t \in Threads, publish_ipc_owned_interfaces(t), ~UNCHANGED vars
  PROVE  TrackInv'
<1>1. PICK i \in DOMAIN Owned \ OwnedPublished :
        phase = "init" /\ LockFree /\ 1..(i - 1) \subseteq OwnedPublished /\ Publish(t, Owned[i])
  BY DEF publish_ipc_owned_interfaces, AllIdle
<1>2. Owned[i] \in Descriptors /\ get_first_free = i
  BY <1>1, OwnedFillsItsSlot, ConstantsAssumption DEF TrackInv, OwnedSet
<1>3. EntriesAreListed' /\ CallsAreOfUser'
  BY <1>1, <1>2, PublishTracked DEF TrackInv
<1>4. /\ descriptor'[i] = Owned[i]
      /\ \A x \in Slots \ {i} : descriptor'[x] = descriptor[x]
  BY <1>1, <1>2, PublishTracked DEF TrackInv
<1>5. phase' = "init"
  BY <1>1, <1>2, PublishMoves
<1>6. OwnedInPlace'
  BY <1>1, <1>4, <1>5 DEF TrackInv, OwnedInPlace
<1> QED BY <1>3, <1>6 DEF TrackInv

LEMMA PublishUserTracked ==
  ASSUME IInv, TrackInv, NEW t \in Threads, NEW d \in PublishedByUser,
         az_ulib_ipc_publish(t, d), ~UNCHANGED vars
  PROVE  TrackInv'
<1> DEFINE s == get_first_free
<1>1. d \in Descriptors /\ phase = "up" /\ Publish(t, d)
  BY ConstantsAssumption DEF az_ulib_ipc_publish
<1>2. /\ EntriesAreListed' /\ CallsAreOfUser'
      /\ s \in Slots /\ descriptor[s] = NoDescriptor
      /\ \A x \in Slots \ {s} : descriptor'[x] = descriptor[x]
  BY <1>1, PublishTracked DEF TrackInv
<1>3. phase' = "up"
  BY <1>1, PublishMoves
<1> HIDE DEF s
<1>4. OwnedInPlace'
  <2> SUFFICES ASSUME NEW i \in DOMAIN Owned
               PROVE  descriptor'[i] = Owned[i]
    BY <1>3 DEF OwnedInPlace
  <2>1. descriptor[i] = Owned[i] /\ Owned[i] # NoDescriptor /\ i \in Slots
    BY <1>1, ConstantsAssumption DEF TrackInv, OwnedInPlace, OwnedSet, Slots
  <2> QED BY <1>2, <2>1
<1> QED BY <1>2, <1>4 DEF TrackInv

-----------------------------------------------------------------------------
(***************************************************************************)
(* The other steps.                                                        *)
(***************************************************************************)

\* A write for an interface in the table leaves the other entries alone.
LEMMA WriteListed ==
  ASSUME IInv, EntriesAreListed, UNCHANGED descriptor,
         NEW s \in Slots, descriptor[s] # NoDescriptor,
         NEW value, RegistryWrite(NameOf(descriptor[s]), value)
  PROVE  EntriesAreListed'
<1>1. registry \in [Names -> {"absent", "plain", "default"}]
  BY DEF IInv, TypeOK
<1> SUFFICES ASSUME NEW name \in Names, registry'[name] # "absent"
             PROVE  \E x \in Slots : descriptor[x] # NoDescriptor /\ NameOf(descriptor[x]) = name
  BY DEF EntriesAreListed
<1>2. CASE name = NameOf(descriptor[s])
  BY <1>2
<1>3. CASE name # NameOf(descriptor[s])
  BY <1>1, <1>3 DEF RegistryWrite, EntriesAreListed
<1> QED BY <1>2, <1>3

\* An interface that leaves the table loses its entry.
LEMMA RemoveListed ==
  ASSUME IInv, EntriesAreListed, NEW s \in Slots, descriptor[s] # NoDescriptor,
         Remove(s), RegistryWrite(NameOf(descriptor[s]), "absent")
  PROVE  EntriesAreListed'
<1>1. /\ registry \in [Names -> {"absent", "plain", "default"}]
      /\ descriptor \in [Slots -> Descriptors \cup {NoDescriptor}]
  BY DEF IInv, TypeOK
<1> SUFFICES ASSUME NEW name \in Names, registry'[name] # "absent"
             PROVE  \E x \in Slots : descriptor'[x] # NoDescriptor /\ NameOf(descriptor'[x]) = name
  BY DEF EntriesAreListed
<1>2. name # NameOf(descriptor[s]) /\ registry[name] # "absent"
  BY <1>1 DEF RegistryWrite
<1>3. PICK x \in Slots : descriptor[x] # NoDescriptor /\ NameOf(descriptor[x]) = name
  BY <1>2 DEF EntriesAreListed
<1> QED BY <1>1, <1>2, <1>3 DEF Remove

LEMMA ChangeDefaultTracked ==
  ASSUME IInv, TrackInv, NEW t \in Threads,
         NestedAcquire(t) \/ SetsDefault(t), ~UNCHANGED vars
  PROVE  TrackInv'
<1>1. PICK s \in Slots, d \in Descriptors \cup {NoDescriptor} :
        /\ ChangeDefault(t, s, d)
        /\ descriptor[s] # NoDescriptor /\ pc[t] # "poll"
        /\ \A u \in Threads : u # t => pc[u] \in {"idle", "poll"}
        /\ \/ d = NoDescriptor
           \/ pc[t] = "nested_acquire" /\ call[t].desc = d
  BY DefaultChangers
<1>2. d = NoDescriptor
  BY <1>1 DEF TrackInv, CallsAreOfUser, LockedLocations, Locations
<1>3. /\ \A u \in Threads \ {t} : pc'[u] = pc[u] /\ call'[u] = call[u]
      /\ call'[t].desc = d /\ pc'[t] \in {"mark_new", "update_old"}
      /\ UNCHANGED <<phase, descriptor, registry>>
  BY <1>1, ChangeDefaultMoves
<1>4. CallsAreOfUser'
  BY <1>2, <1>3 DEF TrackInv, CallsAreOfUser
<1> QED BY <1>3, <1>4 DEF TrackInv, EntriesAreListed, OwnedInPlace

LEMMA CriticalTracked ==
  ASSUME IInv, TrackInv, ~RegistryMayFail, NEW t \in Threads,
         UpdateOld(t) \/ AddOld(t) \/ MarkNew(t) \/ AddNew(t)
  PROVE  TrackInv' /\ UNCHANGED ref_count
<1>1. /\ pc[t] \in LockedLocations /\ UNCHANGED <<phase, descriptor>>
      /\ \A u \in Threads \ {t} : pc'[u] = pc[u] /\ call'[u] = call[u]
      /\ \/ pc'[t] = "idle" /\ Return(t)
         \/ UNCHANGED <<lock, call, ref_count>> /\ pc'[t] \in {"add_old", "mark_new", "add_new"}
  BY CriticalMoves
<1>2. call[t].desc = NoDescriptor
  BY <1>1 DEF TrackInv, CallsAreOfUser
<1>3. UNCHANGED ref_count
  BY <1>1, <1>2 DEF Return
<1>4. CallsAreOfUser'
  BY <1>1, <1>2 DEF TrackInv, CallsAreOfUser, LockedLocations, Locations
<1>5. EntriesAreListed'
  <2>1. CASE UNCHANGED registry
    BY <1>1, <2>1 DEF TrackInv, EntriesAreListed
  <2>2. CASE MarkNew(t) \/ AddNew(t)
    <3> DEFINE s == call[t].slot
    <3>1. s \in Slots /\ descriptor[s] # NoDescriptor
      BY <1>1, InsideLock, ConstantsAssumption
    <3>2. UNCHANGED registry \/ \E value \in {"absent", "default"} : RegistryWrite(NameOf(descriptor[s]), value)
      BY <2>2 DEF MarkNew, AddNew, RegistryFailure
    <3> HIDE DEF s
    <3> QED BY <1>1, <2>1, <3>1, <3>2, WriteListed DEF TrackInv
  <2>3. CASE UpdateOld(t) \/ AddOld(t)
    <3> DEFINE s == call[t].old
    <3>1. s \in Slots /\ descriptor[s] # NoDescriptor
      BY <2>3 DEF UpdateOld, AddOld, InCriticalSection, IInv, CallsConsistent, CallConsistent
    <3>2. UNCHANGED registry \/ \E value \in {"absent", "plain"} : RegistryWrite(NameOf(descriptor[s]), value)
      BY <2>3 DEF UpdateOld, AddOld, RegistryFailure
    <3> HIDE DEF s
    <3> QED BY <1>1, <2>1, <3>1, <3>2, WriteListed DEF TrackInv
  <2> QED BY <2>2, <2>3
<1> QED BY <1>1, <1>3, <1>4, <1>5 DEF TrackInv, OwnedInPlace

LEMMA PollTracked ==
  ASSUME IInv, TrackInv, ~RegistryMayFail, NEW t \in Threads, Poll(t)
  PROVE  TrackInv'
<1> DEFINE s == call[t].slot
           d == call[t].desc
<1>1. /\ s \in Slots /\ d \in Descriptors /\ pc[t] = "poll" /\ phase' = phase
      /\ \A u \in Threads \ {t} : pc'[u] = pc[u] /\ call'[u] = call[u]
      /\ pc'[t] \in {"idle", "poll"}
      /\ \/ UNCHANGED <<descriptor, registry>>
         \/ descriptor[s] = d /\ Remove(s) /\ RegistryWrite(NameOf(d), "absent")
  BY PollMoves DEF Poll, RegistryFailure
<1>2. d \in PublishedByUser /\ d # NoDescriptor
  BY <1>1, ConstantsAssumption DEF TrackInv, CallsAreOfUser
<1>3. pc'[t] = "poll" => call'[t].desc = d
  <2>1. call \in [Threads -> Calls] /\ pc \in [Threads -> Locations] /\ call[t] \in Calls
    BY DEF IInv, TypeOK
  <2> QED BY <2>1 DEF Poll, ReturnFromPoll, Goto, Calls
<1> HIDE DEF s, d
<1>4. CallsAreOfUser'
  BY <1>1, <1>2, <1>3 DEF TrackInv, CallsAreOfUser, LockedLocations
<1>5. CASE UNCHANGED <<descriptor, registry>>
  BY <1>1, <1>4, <1>5 DEF TrackInv, EntriesAreListed, OwnedInPlace
<1>6. CASE descriptor[s] = d /\ Remove(s) /\ RegistryWrite(NameOf(d), "absent")
  <2>1. EntriesAreListed'
    BY <1>1, <1>2, <1>6, RemoveListed DEF TrackInv
  <2>2. descriptor \in [Slots -> Descriptors \cup {NoDescriptor}]
    BY DEF IInv, TypeOK
  <2>3. phase = "up"
    BY <1>1, <1>2, <1>6, ConstantsAssumption DEF TrackInv, OwnedInPlace, OwnedSet, IInv, TypeOK
  <2>4. \A i \in DOMAIN Owned : i # s
    BY <1>2, <1>6, <2>3, ConstantsAssumption DEF TrackInv, OwnedInPlace, OwnedSet
  <2>5. OwnedInPlace'
    BY <1>1, <1>6, <2>2, <2>3, <2>4, ConstantsAssumption DEF TrackInv, OwnedInPlace, Remove, Slots
  <2> QED BY <1>4, <2>1, <2>5 DEF TrackInv
<1> QED BY <1>1, <1>5, <1>6

LEMMA FindToUnpublishTracked ==
  ASSUME IInv, TrackInv, NEW t \in Threads, NEW d \in PublishedByUser, NEW w \in WaitOptions,
         FindToUnpublish(t, d, w)
  PROVE  TrackInv'
<1>1. pc \in [Threads -> Locations] /\ call \in [Threads -> Calls]
  BY DEF IInv, TypeOK
<1>2. /\ UNCHANGED <<phase, descriptor, registry>>
      /\ pc'[t] = "poll" /\ call'[t].desc = d
      /\ \A u \in Threads \ {t} : pc'[u] = pc[u] /\ call'[u] = call[u]
  BY <1>1 DEF FindToUnpublish, Goto, table
<1>3. CallsAreOfUser'
  BY <1>2 DEF TrackInv, CallsAreOfUser, LockedLocations
<1> QED BY <1>2, <1>3 DEF TrackInv, EntriesAreListed, OwnedInPlace

LEMMA LifeCycleTracked ==
  ASSUME IInv, TrackInv, ~RegistryMayFail,
         ipc_init \/ InitDone \/ deinit \/ unpublish_ipc_owned_interfaces \/ DeinitDone
  PROVE  TrackInv'
<1> DEFINE Same == UNCHANGED <<descriptor, registry, pc, call>>
<1>1. CASE ipc_init
  <2>1. /\ phase = "down" /\ phase' = "init" /\ UNCHANGED <<registry, pc, call>>
        /\ \A s \in Slots : descriptor[s] = NoDescriptor /\ descriptor'[s] = NoDescriptor
    BY <1>1 DEF ipc_init, TrackInv, OwnedInPlace
  <2> QED BY <2>1 DEF TrackInv, EntriesAreListed, CallsAreOfUser, OwnedInPlace
<1>2. CASE InitDone
  <2>1. phase = "init" /\ phase' = "up" /\ Same /\ OwnedPublished = DOMAIN Owned
    BY <1>2 DEF InitDone, table
  <2>2. \A i \in DOMAIN Owned : descriptor[i] = Owned[i]
    <3> SUFFICES ASSUME NEW i \in DOMAIN Owned PROVE descriptor[i] = Owned[i]
      OBVIOUS
    <3>1. PICK s \in Slots : descriptor[s] = Owned[i]
      BY <2>1, FindDescriptorFinds DEF OwnedPublished
    <3>2. s = i
      BY <2>1, <3>1, ConstantsAssumption DEF TrackInv, OwnedInPlace, OwnedSet
    <3> QED BY <3>1, <3>2
  <2> QED BY <2>1, <2>2 DEF TrackInv, EntriesAreListed, CallsAreOfUser, OwnedInPlace
<1>3. CASE deinit
  <2>1. /\ phase = "up" /\ phase' = "deinit" /\ Same
        /\ \A s \in Slots : descriptor[s] # NoDescriptor => s \in DOMAIN Owned
    BY <1>3 DEF deinit, table
  <2> QED BY <2>1 DEF TrackInv, EntriesAreListed, CallsAreOfUser, OwnedInPlace
<1>4. CASE DeinitDone
  <2>1. phase = "deinit" /\ phase' = "down" /\ Same /\ OwnedPublished = {}
    BY <1>4 DEF DeinitDone, table
  <2>2. \A s \in Slots : descriptor[s] = NoDescriptor
    BY <2>1, FindDescriptorFinds DEF TrackInv, OwnedInPlace, OwnedPublished
  <2> QED BY <2>1, <2>2 DEF TrackInv, EntriesAreListed, CallsAreOfUser, OwnedInPlace
<1>5. CASE unpublish_ipc_owned_interfaces
  <2>1. PICK i \in OwnedPublished :
          /\ RegistryWrite(NameOf(Owned[i]), "absent")
          /\ Remove(find_interface_descriptor(Owned[i]))
          /\ phase = "deinit" /\ UNCHANGED <<phase, pc, call>>
    BY <1>5 DEF unpublish_ipc_owned_interfaces, RegistryFailure
  <2> DEFINE s == find_interface_descriptor(Owned[i])
  <2>2. s \in Slots /\ descriptor[s] = Owned[i] /\ Owned[i] # NoDescriptor
    BY FindDescriptorFinds, ConstantsAssumption DEF OwnedPublished, OwnedSet
  <2> HIDE DEF s
  <2>3. EntriesAreListed'
    BY <2>1, <2>2, RemoveListed DEF TrackInv, s
  <2>4. descriptor \in [Slots -> Descriptors \cup {NoDescriptor}]
    BY DEF IInv, TypeOK
  <2>5. OwnedInPlace'
    BY <2>1, <2>2, <2>4 DEF TrackInv, OwnedInPlace, Remove, s
  <2> QED BY <2>1, <2>3, <2>5 DEF TrackInv, CallsAreOfUser
<1> QED BY <1>1, <1>2, <1>3, <1>4, <1>5

LEMMA NextTracked ==
  ASSUME IInv, TrackInv, ~RegistryMayFail, ~MayCrash, [Next]_vars
  PROVE  TrackInv'
<1>1. CASE UNCHANGED vars
  BY <1>1 DEF TrackInv, EntriesAreListed, CallsAreOfUser, OwnedInPlace, vars, table
<1>2. ASSUME NEW t \in Threads, ThreadCall(t)
      PROVE  TrackInv'
  BY <1>1, <1>2, PublishUserTracked, PublishOwnedTracked, FindToUnpublishTracked, ChangeDefaultTracked
     DEF ThreadCall, SetsDefault
<1>3. ASSUME NEW t \in Threads, ThreadStep(t)
      PROVE  TrackInv'
  BY <1>1, <1>3, ChangeDefaultTracked, CriticalTracked, PollTracked DEF ThreadStep
<1>4. ASSUME NEW c \in Clients, try_get_interface(c) \/ release_interface(c)
      PROVE  TrackInv'
  <2>1. UNCHANGED <<phase, descriptor, registry, pc, call>>
    BY <1>4, ClientMoves
  <2> QED BY <2>1 DEF TrackInv, EntriesAreListed, CallsAreOfUser, OwnedInPlace
<1>5. ~Crash
  BY DEF Crash
<1> QED BY <1>1, <1>2, <1>3, <1>4, <1>5, LifeCycleTracked DEF Next

LEMMA InitTracked ==
  ASSUME Init
  PROVE  TrackInv
BY ValueTypes DEF Init, TrackInv, EntriesAreListed, CallsAreOfUser, OwnedInPlace, LockedLocations

LEMMA Tracked ==
  ASSUME ~RegistryMayFail, ~MayCrash
  PROVE  Spec => []TrackInv
<1>1. Init => TrackInv
  BY InitTracked
<1>2. IInv /\ TrackInv /\ [Next]_vars => TrackInv'
  BY NextTracked
<1> QED BY <1>1, <1>2, InductiveInvariant, PTL DEF Spec

-----------------------------------------------------------------------------
(***************************************************************************)
(* The theorems.                                                           *)
(***************************************************************************)

\* The registry remembers published interfaces only, whatever was published,
\* unpublished and made the default, with any waits and over any number of
\* de-initializations, as long as power and flash do not fail.
THEOREM RegistryRemembersPublished ==
  ASSUME ~RegistryMayFail, ~MayCrash
  PROVE  Spec => []RegistryTracksPublished
<1>1. IInv /\ TrackInv => RegistryTracksPublished
  BY OutsideLock DEF TrackInv, EntriesAreListed, RegistryTracksPublished, Published
<1> QED BY <1>1, InductiveInvariant, Tracked, PTL

\* Without power cycles and flash errors az_ulib_ipc_publish never waits for the
\* lock it owns, whatever kind of lock the platform has: it would have to find
\* the entry of an interface that is not published.
THEOREM PublishDoesNotBlockItself ==
  ASSUME ~RegistryMayFail, ~MayCrash
  PROVE  Spec => []NoSelfDeadlock
<1>1. IInv /\ TrackInv => NoSelfDeadlock
  <2> SUFFICES ASSUME IInv, TrackInv, NEW t \in Threads, pc[t] = "nested_acquire"
               PROVE  FALSE
    BY DEF NoSelfDeadlock, InCriticalSection
  <2>1. call[t].desc # NoDescriptor
    BY DEF IInv, CallsConsistent, CallConsistent
  <2> QED BY <2>1 DEF TrackInv, CallsAreOfUser, LockedLocations, Locations
<1> QED BY <1>1, InductiveInvariant, Tracked, PTL

\* Only az_ulib_ipc_publish brings the count of a free slot to one.
LEMMA SlotsFilledByPublish ==
  ASSUME IInv, TrackInv, ~RegistryMayFail, ~MayCrash, [Next]_vars,
         NEW s \in Slots, ref_count[s] = 0, ref_count'[s] = 1
  PROVE  \E t \in Threads, d \in Descriptors : Publish(t, d) /\ ~UNCHANGED vars
<1> SUFFICES ASSUME \A t \in Threads, d \in Descriptors : Publish(t, d) => UNCHANGED ref_count
             PROVE  FALSE
  BY DEF vars, table
<1>1. ref_count \in [Slots -> Nat]
  BY DEF IInv, TypeOK
<1>2. ASSUME NEW t \in Threads, ThreadCall(t)
      PROVE  UNCHANGED ref_count
  <2>1. ASSUME NEW d \in PublishedByUser, az_ulib_ipc_publish(t, d)
        PROVE  UNCHANGED ref_count
    BY <2>1, ConstantsAssumption DEF az_ulib_ipc_publish
  <2>2. CASE publish_ipc_owned_interfaces(t)
    BY <2>2, ConstantsAssumption DEF publish_ipc_owned_interfaces, OwnedSet
  <2>3. CASE \E d \in PublishedByUser, w \in WaitOptions : FindToUnpublish(t, d, w)
    BY <2>3 DEF FindToUnpublish, table
  <2>4. CASE SetsDefault(t)
    BY <2>4 DEF SetsDefault, set_default, ChangeDefault, vars, table
  <2> QED BY <1>2, <2>1, <2>2, <2>3, <2>4 DEF ThreadCall, SetsDefault
<1>3. ASSUME NEW t \in Threads, ThreadStep(t)
      PROVE  UNCHANGED ref_count \/ \E x \in Slots : Remove(x)
  <2>1. CASE NestedAcquire(t)
    BY <2>1 DEF NestedAcquire, ChangeDefault, table
  <2>2. CASE UpdateOld(t) \/ AddOld(t) \/ MarkNew(t) \/ AddNew(t)
    BY <2>2, CriticalTracked
  <2>3. CASE Poll(t)
    BY <2>3, PollMoves
  <2> QED BY <1>3, <2>1, <2>2, <2>3 DEF ThreadStep
<1>4. ASSUME NEW x, Remove(x)
      PROVE  FALSE
  BY <1>1, <1>4 DEF Remove
<1>5. ASSUME NEW c \in Clients, try_get_interface(c) \/ release_interface(c)
      PROVE  FALSE
  BY <1>5, ClientMoves
<1>6. CASE ipc_init \/ InitDone \/ deinit \/ unpublish_ipc_owned_interfaces \/ DeinitDone
  BY <1>4, <1>6 DEF ipc_init, InitDone, deinit, unpublish_ipc_owned_interfaces, DeinitDone, table
<1>7. ~Crash
  BY DEF Crash
<1> QED BY <1>2, <1>3, <1>4, <1>5, <1>6, <1>7 DEF Next, vars, table

\* An interface published while no other package of its family is becomes the
\* default of the family: no entry is left from earlier that says otherwise.
THEOREM FirstPackagesAreDefault ==
  ASSUME ~RegistryMayFail, ~MayCrash
  PROVE  Spec => PublishMakesFirstDefault
<1>1. ASSUME IInv, TrackInv, [Next]_vars, NEW s \in Slots, ref_count[s] = 0, ref_count'[s] = 1,
             \A x \in Slots \ {s} : Published(x) => Family[descriptor[x]] # Family[descriptor'[s]]
      PROVE  "DEFAULT" \in flags'[s]
  <2>1. PICK t \in Threads, d \in Descriptors : Publish(t, d) /\ ~UNCHANGED vars
    BY <1>1, SlotsFilledByPublish
  <2>2. s = get_first_free /\ descriptor'[s] = d
    BY <1>1, <2>1, PublishTracked DEF TrackInv
  <2>3. DefaultOf(Family[d]) = NoSlot
    <3> SUFFICES ASSUME DefaultOf(Family[d]) # NoSlot PROVE FALSE
      OBVIOUS
    <3>1. PICK x \in Slots : descriptor[x] # NoDescriptor /\ Family[descriptor[x]] = Family[d]
      BY LookupFinds DEF DefaultOf, Matches
    <3>2. Published(x)
      BY <1>1, <2>1, <3>1, PublishMoves, OutsideLock DEF Published
    <3>3. x # s
      BY <1>1, <3>2 DEF Published
    <3> QED BY <1>1, <2>2, <3>1, <3>2, <3>3
  <2> QED BY <1>1, <2>1, <2>2, <2>3, PublishTracked DEF TrackInv
<1>2. IInv /\ TrackInv /\ [Next]_vars =>
        [\A s \in Slots :
           /\ ref_count[s] = 0 /\ ref_count'[s] = 1
           /\ \A x \in Slots \ {s} : Published(x) => Family[descriptor[x]] # Family[descriptor'[s]]
           => "DEFAULT" \in flags'[s]]_vars
  BY <1>1
<1> QED BY <1>2, InductiveInvariant, Tracked, PTL DEF Spec, PublishMakesFirstDefault
=============================================================================
