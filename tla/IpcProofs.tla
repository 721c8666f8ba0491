----------------------------- MODULE IpcProofs -----------------------------
(***************************************************************************)
(* Proofs about Ipc, for every value of its constants.                     *)
(***************************************************************************)
EXTENDS Ipc, TLAPS, FiniteSetTheorems, WellFoundedInduction

-----------------------------------------------------------------------------
(***************************************************************************)
(* Lemmas about the operators.                                             *)
(***************************************************************************)

\* First returns the smallest of a set of slots, or NoSlot if it is empty.
LEMMA FirstSlot ==
  ASSUME NEW S \in SUBSET Slots
  PROVE  /\ S = {} => First(S) = NoSlot
         /\ S # {} => First(S) \in S
         /\ First(S) \in Slots \cup {NoSlot}
         /\ First(S) = NoSlot => S = {}
         /\ \A x \in S : First(S) <= x
<1>1. CASE S = {}
  BY <1>1 DEF First
<1>2. CASE S # {}
  <2>1. S \subseteq Nat /\ NoSlot \notin S
    BY ConstantsAssumption DEF Slots, NoSlot
  <2>2. \E s \in S : \A x \in S : s <= x
    <3> DEFINE R == {ss \in Nat \X Nat : ss[1] < ss[2]}
    <3>1. IsWellFoundedOn(R, Nat)
      BY NatLessThanWellFounded, Zenon DEF OpToRel
    <3>2. \A x, s \in Nat : <<x, s>> \in R <=> x < s
      OBVIOUS
    <3> HIDE DEF R
    <3>3. PICK s \in S : \A x \in S : ~(<<x, s>> \in R)
      BY <1>2, <2>1, <3>1, WFMin
    <3>4. ASSUME NEW x \in S PROVE s <= x
      <4>1. x \in Nat /\ s \in Nat /\ ~(<<x, s>> \in R)
        BY <2>1, <3>3
      <4>2. ~(x < s)
        BY <3>2, <4>1
      <4> QED BY <4>1, <4>2
    <3> QED BY <3>4
  <2>3. First(S) \in S /\ \A x \in S : First(S) <= x
    BY <1>2, <2>2 DEF First
  <2> QED BY <1>2, <2>1, <2>3
<1> QED BY <1>1, <1>2

\* lookup_interface returns a matching slot, and NoSlot only if none matches.
LEMMA LookupFinds ==
  ASSUME NEW name
  PROVE  LET s == lookup_interface(name) IN
         /\ s \in Slots \cup {NoSlot}
         /\ s # NoSlot => s \in Slots /\ Matches(name, s)
         /\ s = NoSlot => \A x \in Slots : ~Matches(name, x)
<1> DEFINE S == {x \in Slots : Matches(name, x)}
<1>1. S \in SUBSET Slots
  OBVIOUS
<1>2. lookup_interface(name) = First(S)
  BY DEF lookup_interface
<1> HIDE DEF S
<1>3. /\ S = {} => First(S) = NoSlot
      /\ S # {} => First(S) \in S
      /\ First(S) \in Slots \cup {NoSlot}
      /\ First(S) = NoSlot => S = {}
  BY <1>1, FirstSlot
<1> QED BY <1>2, <1>3 DEF S

\* find_interface_descriptor returns a slot with the descriptor, or NoSlot.
LEMMA FindDescriptorFinds ==
  ASSUME NEW d
  PROVE  LET s == find_interface_descriptor(d) IN
         /\ s # NoSlot => s \in Slots /\ descriptor[s] = d
         /\ s = NoSlot => \A x \in Slots : descriptor[x] # d
<1> DEFINE S == {x \in Slots : descriptor[x] = d}
<1>1. S \in SUBSET Slots /\ find_interface_descriptor(d) = First(S)
  BY DEF find_interface_descriptor
<1> HIDE DEF S
<1>2. /\ S # {} => First(S) \in S
      /\ First(S) \in Slots \cup {NoSlot}
      /\ First(S) = NoSlot => S = {}
      /\ S = {} => First(S) = NoSlot
  BY <1>1, FirstSlot
<1> QED BY <1>1, <1>2 DEF S

\* get_first_free returns a slot nobody refers to, or NoSlot.
LEMMA FreeSlotIsFree ==
  get_first_free # NoSlot => get_first_free \in Slots /\ ref_count[get_first_free] = 0
<1> DEFINE S == {x \in Slots : ref_count[x] = 0}
<1>1. S \in SUBSET Slots /\ get_first_free = First(S)
  BY DEF get_first_free
<1> HIDE DEF S
<1>2. First(S) # NoSlot => First(S) \in S
  BY <1>1, FirstSlot
<1> QED BY <1>1, <1>2 DEF S

\* The holders of a slot are finitely many clients.
LEMMA HoldersFinite ==
  ASSUME NEW s
  PROVE  IsFiniteSet(Holders(s)) /\ Cardinality(Holders(s)) \in Nat
<1>1. Holders(s) \in SUBSET Clients
  BY DEF Holders
<1>2. IsFiniteSet(Holders(s))
  BY <1>1, ConstantsAssumption, FS_Subset
<1> QED BY <1>2, FS_CardinalityType

-----------------------------------------------------------------------------
(***************************************************************************)
(* Facts about a thread inside a critical section.                         *)
(***************************************************************************)

\* The values the actions store are of their types.
LEMMA ValueTypes ==
  /\ IdleCall \in Calls /\ IdleCall.desc = NoDescriptor
  /\ NoHandle \in Handles /\ NoHandle.slot = NoSlot /\ NoHandle.hash = 0
  /\ NoSlot \notin Slots
  /\ Slots \subseteq Nat
BY ConstantsAssumption DEF IdleCall, Calls, NoHandle, Handles, Waits, NoSlot, Slots

\* A thread inside a critical section owns the lock, is alone there, and is the
\* only one that can have a half-published slot.
LEMMA InsideLock ==
  ASSUME IInv, NEW t \in Threads, pc[t] \in LockedLocations
  PROVE  /\ lock = t
         /\ \A u \in Threads : u # t => pc[u] \in {"idle", "poll"}
         /\ call[t].slot \in Slots
         /\ call[t].desc \in Descriptors \cup {NoDescriptor}
         /\ descriptor[call[t].slot] \in Descriptors
         /\ IF call[t].desc = NoDescriptor
            THEN ref_count[call[t].slot] > 0
            ELSE ref_count[call[t].slot] = 0 /\ descriptor[call[t].slot] = call[t].desc
         /\ \A s \in Slots : descriptor[s] # NoDescriptor /\ ref_count[s] = 0 =>
              s = call[t].slot /\ call[t].desc # NoDescriptor
<1>1. lock = t
  BY DEF IInv, LockOwner
<1>2. \A u \in Threads : u # t => pc[u] \in {"idle", "poll"}
  BY <1>1 DEF IInv, TypeOK, LockOwner, LockedLocations
<1>3. call[t] \in Calls /\ descriptor \in [Slots -> Descriptors \cup {NoDescriptor}]
  BY DEF IInv, TypeOK
<1>4. /\ call[t].slot \in Slots /\ descriptor[call[t].slot] # NoDescriptor
      /\ IF call[t].desc = NoDescriptor THEN Published(call[t].slot)
         ELSE ~Published(call[t].slot) /\ descriptor[call[t].slot] = call[t].desc
  BY DEF IInv, CallsConsistent, CallConsistent
<1>5. ref_count \in [Slots -> Nat]
  BY DEF IInv, TypeOK
<1>6. \A s \in Slots : descriptor[s] # NoDescriptor /\ ref_count[s] = 0 =>
        s = call[t].slot /\ call[t].desc # NoDescriptor
  BY <1>1, <1>5 DEF IInv, SlotsConsistent, Published
<1> QED BY <1>1, <1>2, <1>3, <1>4, <1>5, <1>6 DEF Published, Calls

\* What the end of a critical section does.
LEMMA ReturnFacts ==
  ASSUME IInv, NEW t \in Threads, pc[t] \in LockedLocations, Return(t)
  PROVE  /\ pc' \in [Threads -> Locations] /\ pc'[t] = "idle"
         /\ \A u \in Threads : u # t => pc'[u] = pc[u] /\ call'[u] = call[u]
         /\ call' \in [Threads -> Calls]
         /\ lock' = NoThread
         /\ ref_count' \in [Slots -> Nat]
         /\ \A s \in Slots : \/ ref_count'[s] = ref_count[s]
                             \/ ref_count[s] = 0 /\ ref_count'[s] = 1 /\ descriptor[s] # NoDescriptor
         /\ \A s \in Slots : descriptor[s] # NoDescriptor => ref_count'[s] > 0
<1>1. TypeOK
  BY DEF IInv
<1>2. pc' \in [Threads -> Locations] /\ pc'[t] = "idle" /\ \A u \in Threads : u # t => pc'[u] = pc[u]
  BY <1>1 DEF TypeOK, Return, Goto, Locations
<1>3. call' \in [Threads -> Calls] /\ \A u \in Threads : u # t => call'[u] = call[u]
  BY <1>1, ValueTypes DEF TypeOK, Return
<1>4. ref_count \in [Slots -> Nat] /\ lock' = NoThread
  BY <1>1 DEF TypeOK, Return
<1>5. ref_count' \in [Slots -> Nat]
  BY <1>4, InsideLock DEF Return
<1>6. ASSUME NEW s \in Slots
      PROVE  /\ \/ ref_count'[s] = ref_count[s]
                \/ ref_count[s] = 0 /\ ref_count'[s] = 1 /\ descriptor[s] # NoDescriptor
             /\ descriptor[s] # NoDescriptor => ref_count'[s] > 0
  <2>1. CASE call[t].desc = NoDescriptor
    BY <1>4, <2>1, InsideLock DEF Return
  <2>2. CASE call[t].desc # NoDescriptor
    <3>1. ref_count' = [ref_count EXCEPT ![call[t].slot] = 1]
      BY <2>2 DEF Return
    <3>2. descriptor[call[t].slot] # NoDescriptor
      BY InsideLock, ConstantsAssumption
    <3> QED BY <1>4, <2>2, <3>1, <3>2, InsideLock
  <2> QED BY <2>1, <2>2
<1> QED BY <1>2, <1>3, <1>4, <1>5, <1>6

\* Storing ref_count = 1 in a slot without holders keeps the count right.
LEMMA ReturnKeepsCounts ==
  ASSUME IInv, NEW t \in Threads, pc[t] \in LockedLocations, Return(t), UNCHANGED clients
  PROVE  RefCountsHolders'
<1> SUFFICES ASSUME NEW s \in Slots
             PROVE  IF ref_count'[s] = 0 THEN Holders(s)' = {}
                    ELSE ref_count'[s] = 1 + Cardinality(Holders(s)')
  BY DEF RefCountsHolders
<1>1. Holders(s)' = Holders(s)
  BY DEF Holders, clients
<1>2. IF ref_count[s] = 0 THEN Holders(s) = {} ELSE ref_count[s] = 1 + Cardinality(Holders(s))
  BY DEF IInv, RefCountsHolders
<1>3. \/ ref_count'[s] = ref_count[s]
      \/ ref_count[s] = 0 /\ ref_count'[s] = 1
  BY ReturnFacts
<1>4. CASE ref_count'[s] = ref_count[s]
  BY <1>1, <1>2, <1>4
<1>5. CASE ref_count[s] = 0 /\ ref_count'[s] = 1
  BY <1>1, <1>2, <1>5, FS_EmptySet
<1> QED BY <1>3, <1>4, <1>5

\* After Return no slot is half published, and every thread is outside the lock.
LEMMA ReturnKeepsCallsAndSlots ==
  ASSUME IInv, NEW t \in Threads, pc[t] \in LockedLocations, Return(t), UNCHANGED descriptor
  PROVE  LockOwner' /\ CallsConsistent' /\ SlotsConsistent'
<1>1. \A u \in Threads : pc'[u] \in {"idle", "poll"}
  BY ReturnFacts, InsideLock
<1>2. LockOwner'
  BY <1>1, ReturnFacts, ConstantsAssumption DEF LockOwner, LockedLocations
<1>3. CallsConsistent'
  <2> SUFFICES ASSUME NEW u \in Threads, pc'[u] = "poll"
               PROVE  call'[u].slot \in Slots /\ call'[u].desc # NoDescriptor
    BY <1>1 DEF CallsConsistent, CallConsistent, LockedLocations
  <2>1. u # t /\ pc[u] = "poll" /\ call'[u] = call[u]
    BY ReturnFacts
  <2> QED BY <2>1 DEF IInv, CallsConsistent, CallConsistent
<1>4. SlotsConsistent'
  <2> SUFFICES ASSUME NEW s \in Slots
               PROVE  /\ descriptor[s] = NoDescriptor => ~(ref_count'[s] > 0)
                      /\ descriptor[s] # NoDescriptor => ref_count'[s] > 0
                      /\ ref_count'[s] <= MaxInstances + 1
    BY DEF SlotsConsistent, Published
  <2>1. /\ descriptor[s] = NoDescriptor => ~(ref_count[s] > 0)
        /\ ref_count[s] <= MaxInstances + 1
    BY DEF IInv, SlotsConsistent, Published
  <2>2. \/ ref_count'[s] = ref_count[s]
        \/ ref_count[s] = 0 /\ ref_count'[s] = 1 /\ descriptor[s] # NoDescriptor
    BY ReturnFacts
  <2>3. descriptor[s] # NoDescriptor => ref_count'[s] > 0
    BY ReturnFacts
  <2> QED BY <2>1, <2>2, <2>3, ConstantsAssumption
<1> QED BY <1>2, <1>3, <1>4

-----------------------------------------------------------------------------
(***************************************************************************)
(* One lemma per action: it preserves the inductive invariant.             *)
(***************************************************************************)

\* A step inside a critical section that leaves the descriptors, the hashes and
\* the clients alone keeps everything but the flags and the locals in order.
LEMMA CriticalStep ==
  ASSUME IInv, NEW t \in Threads, pc[t] \in LockedLocations,
         UNCHANGED <<phase, descriptor, hash, publish_count, clients>>,
         flags' \in [Slots -> SUBSET Flags],
         registry' \in [Names -> {"absent", "plain", "default"}],
         \/ Return(t)
         \/ /\ UNCHANGED <<lock, call, ref_count>>
            /\ \E location \in LockedLocations : Goto(t, location)
  PROVE  /\ TypeOK' /\ LockOwner' /\ SlotsConsistent' /\ RefCountsHolders'
         /\ HoldersAreBusy' /\ HandlesAreSound' /\ UniqueNames'
<1>1. TypeOK'
  <2>1. CASE Return(t)
    <3>1. /\ pc' \in [Threads -> Locations] /\ call' \in [Threads -> Calls]
          /\ lock' = NoThread /\ ref_count' \in [Slots -> Nat]
      BY <2>1, ReturnFacts
    <3> QED BY <3>1 DEF IInv, TypeOK, clients
  <2>2. CASE UNCHANGED <<lock, call, ref_count>> /\ \E location \in LockedLocations : Goto(t, location)
    BY <2>2 DEF IInv, TypeOK, clients, Goto, LockedLocations
  <2> QED BY <2>1, <2>2
<1>2. LockOwner' /\ SlotsConsistent'
  <2>1. CASE Return(t)
    BY <2>1, ReturnKeepsCallsAndSlots
  <2>2. CASE UNCHANGED <<lock, call, ref_count>> /\ \E location \in LockedLocations : Goto(t, location)
    <3>1. LockOwner'
      BY <2>2 DEF IInv, TypeOK, LockOwner, Goto
    <3>2. SlotsConsistent'
      BY <2>2 DEF IInv, SlotsConsistent, Published
    <3> QED BY <3>1, <3>2
  <2> QED BY <2>1, <2>2
<1>3. RefCountsHolders'
  <2>1. CASE Return(t)
    BY <2>1, ReturnKeepsCounts
  <2>2. CASE UNCHANGED ref_count
    BY <2>2 DEF IInv, RefCountsHolders, Holders, clients
  <2> QED BY <2>1, <2>2
<1>4. HoldersAreBusy'
  <2>1. phase \notin {"down", "deinit"}
    BY InsideLock, ConstantsAssumption DEF IInv, HoldersAreBusy, AllIdle, LockFree
  <2> QED BY <2>1 DEF IInv, HoldersAreBusy, clients
<1>5. HandlesAreSound'
  BY DEF IInv, HandlesAreSound, HandlesConsistent, HandleIsCurrent, HeldAnswersRequest,
      CallTarget, Answers, clients
<1>6. UniqueNames'
  BY DEF IInv, UniqueNames
<1> QED BY <1>1, <1>2, <1>3, <1>4, <1>5, <1>6

\* The names of the descriptors in use are names of the registry.
LEMMA NameOfSlot ==
  ASSUME IInv, NEW s \in Slots, descriptor[s] # NoDescriptor
  PROVE  NameOf(descriptor[s]) \in Names
BY DEF IInv, TypeOK, Names

LEMMA UpdateOldInv ==
  ASSUME IInv, NEW t \in Threads, UpdateOld(t)
  PROVE  IInv'
<1>1. pc[t] = "update_old" /\ pc[t] \in LockedLocations
  BY DEF UpdateOld, InCriticalSection, LockedLocations, Locations
<1>2. flags' \in [Slots -> SUBSET Flags] /\ registry' \in [Names -> {"absent", "plain", "default"}]
  BY DEF UpdateOld, RegistryWrite, RegistryFailure, IInv, TypeOK
<1>3. UNCHANGED <<phase, descriptor, hash, flags, publish_count, clients>>
  BY DEF UpdateOld
<1>4. \/ Return(t)
      \/ UNCHANGED <<lock, call, ref_count>> /\ (Goto(t, "mark_new") \/ Goto(t, "add_old"))
  BY DEF UpdateOld
<1>5. \/ Return(t)
      \/ /\ UNCHANGED <<lock, call, ref_count>>
         /\ \E location \in LockedLocations : Goto(t, location)
  BY <1>4 DEF LockedLocations, Locations
<1>6. /\ TypeOK' /\ LockOwner' /\ SlotsConsistent' /\ RefCountsHolders'
      /\ HoldersAreBusy' /\ HandlesAreSound' /\ UniqueNames'
  BY <1>1, <1>2, <1>3, <1>5, CriticalStep
<1>7. AtMostOneDefault'
  BY <1>3 DEF IInv, AtMostOneDefault
<1>8. CallsConsistent'
  <2>1. CASE Return(t)
    BY <1>1, <1>3, <2>1, ReturnKeepsCallsAndSlots
  <2>2. CASE UNCHANGED <<lock, call, ref_count>> /\ (Goto(t, "mark_new") \/ Goto(t, "add_old"))
    BY <1>1, <1>3, <2>2 DEF IInv, TypeOK, CallsConsistent, CallConsistent, NoOtherDefault, Published, Goto, LockedLocations, Locations
  <2> QED BY <1>4, <2>1, <2>2
<1> QED BY <1>6, <1>7, <1>8 DEF IInv

LEMMA AddOldInv ==
  ASSUME IInv, NEW t \in Threads, AddOld(t)
  PROVE  IInv'
<1>1. pc[t] = "add_old" /\ pc[t] \in LockedLocations
  BY DEF AddOld, InCriticalSection, LockedLocations, Locations
<1>2. flags' \in [Slots -> SUBSET Flags] /\ registry' \in [Names -> {"absent", "plain", "default"}]
  BY DEF AddOld, RegistryWrite, RegistryFailure, IInv, TypeOK
<1>3. UNCHANGED <<phase, descriptor, hash, flags, publish_count, clients>>
  BY DEF AddOld
<1>4. \/ Return(t)
      \/ UNCHANGED <<lock, call, ref_count>> /\ Goto(t, "mark_new")
  BY DEF AddOld
<1>5. \/ Return(t)
      \/ /\ UNCHANGED <<lock, call, ref_count>>
         /\ \E location \in LockedLocations : Goto(t, location)
  BY <1>4 DEF LockedLocations, Locations
<1>6. /\ TypeOK' /\ LockOwner' /\ SlotsConsistent' /\ RefCountsHolders'
      /\ HoldersAreBusy' /\ HandlesAreSound' /\ UniqueNames'
  BY <1>1, <1>2, <1>3, <1>5, CriticalStep
<1>7. AtMostOneDefault'
  BY <1>3 DEF IInv, AtMostOneDefault
<1>8. CallsConsistent'
  <2>1. CASE Return(t)
    BY <1>1, <1>3, <2>1, ReturnKeepsCallsAndSlots
  <2>2. CASE UNCHANGED <<lock, call, ref_count>> /\ Goto(t, "mark_new")
    BY <1>1, <1>3, <2>2 DEF IInv, TypeOK, CallsConsistent, CallConsistent, NoOtherDefault, Published, Goto, LockedLocations, Locations
  <2> QED BY <1>4, <2>1, <2>2
<1> QED BY <1>6, <1>7, <1>8 DEF IInv

LEMMA MarkNewInv ==
  ASSUME IInv, NEW t \in Threads, MarkNew(t)
  PROVE  IInv'
<1> DEFINE s == call[t].slot
<1>1. pc[t] = "mark_new" /\ pc[t] \in LockedLocations
  BY DEF MarkNew, InCriticalSection, LockedLocations, Locations
<1>2. s \in Slots /\ NoOtherDefault(s)
  BY <1>1 DEF IInv, CallsConsistent, CallConsistent, LockedLocations, Locations
<1>3. flags' = [flags EXCEPT ![s] = @ \cup {"DEFAULT"}]
  BY DEF MarkNew
<1>4. flags' \in [Slots -> SUBSET Flags]
  BY <1>3 DEF IInv, TypeOK, Flags
<1>5. registry' \in [Names -> {"absent", "plain", "default"}]
  BY DEF MarkNew, RegistryWrite, RegistryFailure, IInv, TypeOK
<1>6. UNCHANGED <<phase, descriptor, hash, publish_count, clients>>
  BY DEF MarkNew
<1>7. \/ Return(t)
      \/ UNCHANGED <<lock, call, ref_count>> /\ Goto(t, "add_new")
  BY DEF MarkNew
<1>8. \/ Return(t)
      \/ /\ UNCHANGED <<lock, call, ref_count>>
         /\ \E location \in LockedLocations : Goto(t, location)
  BY <1>7 DEF LockedLocations, Locations
<1>9. /\ TypeOK' /\ LockOwner' /\ SlotsConsistent' /\ RefCountsHolders'
      /\ HoldersAreBusy' /\ HandlesAreSound' /\ UniqueNames'
  BY <1>1, <1>4, <1>5, <1>6, <1>8, CriticalStep
<1>10. AtMostOneDefault'
  <2> SUFFICES ASSUME NEW s1 \in Slots, NEW s2 \in Slots, s1 # s2,
                      descriptor[s1] # NoDescriptor, descriptor[s2] # NoDescriptor,
                      "DEFAULT" \in flags'[s1], "DEFAULT" \in flags'[s2]
               PROVE  Family[descriptor[s1]] # Family[descriptor[s2]]
    BY <1>6 DEF AtMostOneDefault
  <2>1. flags \in [Slots -> SUBSET Flags]
    BY DEF IInv, TypeOK
  <2> HIDE DEF s
  <2>2. CASE s1 = s
    BY <1>2, <1>3, <2>1, <2>2 DEF NoOtherDefault
  <2>3. CASE s2 = s
    BY <1>2, <1>3, <2>1, <2>3 DEF NoOtherDefault
  <2>4. CASE s1 # s /\ s2 # s
    BY <1>3, <2>1, <2>4 DEF IInv, AtMostOneDefault
  <2> QED BY <2>2, <2>3, <2>4
<1>11. CallsConsistent'
  <2>1. CASE Return(t)
    BY <1>1, <1>6, <2>1, ReturnKeepsCallsAndSlots
  <2>2. CASE UNCHANGED <<lock, call, ref_count>> /\ Goto(t, "add_new")
    <3>1. \A u \in Threads : u # t => pc[u] \in {"idle", "poll"}
      BY <1>1, InsideLock
    <3>2. pc' = [pc EXCEPT ![t] = "add_new"] /\ pc \in [Threads -> Locations]
      BY <2>2 DEF Goto, IInv, TypeOK
    <3>3. NoOtherDefault(s)'
      BY <1>2, <1>3, <1>6, <2>2 DEF NoOtherDefault, IInv, TypeOK
    <3> SUFFICES ASSUME NEW u \in Threads
                 PROVE  CallConsistent(u)'
      BY DEF CallsConsistent
    <3>4. CASE u = t
      BY <1>1, <1>6, <2>2, <3>2, <3>3, <3>4 DEF IInv, CallsConsistent, CallConsistent, Published, LockedLocations, Locations
    <3>5. CASE u # t
      BY <1>1, <1>6, <2>2, <3>1, <3>2, <3>5 DEF IInv, CallsConsistent, CallConsistent, LockedLocations
    <3> QED BY <3>4, <3>5
  <2> QED BY <1>7, <2>1, <2>2
<1> QED BY <1>9, <1>10, <1>11 DEF IInv

LEMMA AddNewInv ==
  ASSUME IInv, NEW t \in Threads, AddNew(t)
  PROVE  IInv'
<1>1. pc[t] \in LockedLocations
  BY DEF AddNew, InCriticalSection, LockedLocations, Locations
<1>2. flags' \in [Slots -> SUBSET Flags] /\ registry' \in [Names -> {"absent", "plain", "default"}]
  BY DEF AddNew, RegistryWrite, RegistryFailure, IInv, TypeOK
<1>3. UNCHANGED <<phase, descriptor, hash, flags, publish_count, clients>> /\ Return(t)
  BY DEF AddNew
<1>4. /\ TypeOK' /\ LockOwner' /\ SlotsConsistent' /\ RefCountsHolders'
      /\ HoldersAreBusy' /\ HandlesAreSound' /\ UniqueNames'
  BY <1>1, <1>2, <1>3, CriticalStep
<1>5. CallsConsistent'
  BY <1>1, <1>3, ReturnKeepsCallsAndSlots
<1>6. AtMostOneDefault'
  BY <1>3 DEF IInv, AtMostOneDefault
<1> QED BY <1>4, <1>5, <1>6 DEF IInv

\* While the lock is free nobody is inside a critical section, and the slots
\* with a descriptor are the published ones.
LEMMA OutsideLock ==
  ASSUME IInv, LockFree
  PROVE  /\ \A u \in Threads : pc[u] \in {"idle", "poll"}
         /\ \A s \in Slots : descriptor[s] # NoDescriptor <=> ref_count[s] > 0
<1>1. \A u \in Threads : pc[u] \in {"idle", "poll"}
  BY ConstantsAssumption DEF IInv, TypeOK, LockOwner, LockFree, LockedLocations
<1>2. \A s \in Slots : descriptor[s] # NoDescriptor <=> ref_count[s] > 0
  BY ConstantsAssumption DEF IInv, SlotsConsistent, LockFree, Published
<1> QED BY <1>1, <1>2

LEMMA StutterInv ==
  ASSUME IInv, UNCHANGED vars
  PROVE  IInv'
<1> USE DEF IInv, vars, table, clients
<1>1. TypeOK' /\ LockOwner'
  BY DEF TypeOK, LockOwner
<1>2. CallsConsistent'
  BY DEF CallsConsistent, CallConsistent, NoOtherDefault, Published
<1>3. SlotsConsistent'
  BY DEF SlotsConsistent, Published
<1>4. RefCountsHolders'
  BY DEF RefCountsHolders, Holders
<1>5. HoldersAreBusy' /\ HandlesAreSound'
  BY DEF HoldersAreBusy, AllIdle, LockFree, HandlesAreSound, HandlesConsistent, HandleIsCurrent,
      HeldAnswersRequest, CallTarget, Answers
<1>6. UniqueNames' /\ AtMostOneDefault'
  BY DEF UniqueNames, AtMostOneDefault
<1> QED BY <1>1, <1>2, <1>3, <1>4, <1>5, <1>6

LEMMA ChangeDefaultInv ==
  ASSUME IInv, NEW t \in Threads, NEW s \in Slots, NEW d \in Descriptors \cup {NoDescriptor},
         \/ LockFree /\ d = NoDescriptor /\ phase = "up"
         \/ lock = t /\ pc[t] \in LockedLocations,
         \A u \in Threads : u # t => pc[u] \in {"idle", "poll"},
         descriptor[s] # NoDescriptor,
         IF d = NoDescriptor THEN Published(s) ELSE ~Published(s) /\ descriptor[s] = d,
         \A x \in Slots : descriptor[x] # NoDescriptor /\ ~Published(x) => x = s /\ d # NoDescriptor,
         DefaultOf(Family[descriptor[s]]) # s,
         ChangeDefault(t, s, d)
  PROVE  IInv'
<1> DEFINE old == DefaultOf(Family[descriptor[s]])
           new == [IdleCall EXCEPT !.slot = s, !.old = old, !.desc = d]
           location == IF old = NoSlot THEN "mark_new" ELSE "update_old"
<1>1. /\ old \in Slots \cup {NoSlot}
      /\ old # NoSlot =>
           /\ old \in Slots /\ descriptor[old] # NoDescriptor
           /\ Family[descriptor[old]] = Family[descriptor[s]] /\ "DEFAULT" \in flags[old]
      /\ old = NoSlot => \A x \in Slots : descriptor[x] # NoDescriptor /\ Family[descriptor[x]] = Family[descriptor[s]]
                                            => "DEFAULT" \notin flags[x]
  BY LookupFinds DEF DefaultOf, Matches, AnyVersion
<1>2. /\ new \in Calls /\ new.slot = s /\ new.old = old /\ new.desc = d
  BY <1>1, ConstantsAssumption DEF Calls, IdleCall, Waits
<1>3. /\ lock' = t /\ call' = [call EXCEPT ![t] = new] /\ pc' = [pc EXCEPT ![t] = location]
      /\ UNCHANGED <<phase, registry, clients, descriptor, ref_count>>
      /\ IF old = NoSlot
         THEN UNCHANGED <<flags, hash, publish_count>>
         ELSE /\ flags' = [flags EXCEPT ![old] = {}]
              /\ hash' = [hash EXCEPT ![old] = publish_count]
              /\ publish_count' = publish_count + 1
  BY DEF ChangeDefault, Goto, table, AndLogicalNot
<1>4. TypeOK
  BY DEF IInv
<1>5. phase \notin {"down", "deinit"}
  BY InsideLock, ConstantsAssumption DEF IInv, HoldersAreBusy, AllIdle, LockFree
<1> HIDE DEF old, new
<1>6. TypeOK'
  <2>1. flags' \in [Slots -> SUBSET Flags] /\ hash' \in [Slots -> Nat] /\ publish_count' \in Nat
    BY <1>3, <1>4 DEF TypeOK
  <2>2. call' \in [Threads -> Calls] /\ pc' \in [Threads -> Locations]
    BY <1>2, <1>3, <1>4 DEF TypeOK, Locations
  <2> QED BY <1>3, <1>4, <2>1, <2>2 DEF TypeOK, clients
<1>7. LockOwner'
  BY <1>3, <1>4 DEF TypeOK, LockOwner, LockedLocations, Locations
<1>8. ASSUME NEW x \in Slots, x # s, descriptor[x] # NoDescriptor,
             Family[descriptor[x]] = Family[descriptor[s]]
      PROVE  "DEFAULT" \notin flags'[x]
  <2>1. CASE old = NoSlot
    BY <1>1, <1>3, <1>8, <2>1
  <2>2. CASE old # NoSlot /\ x = old
    BY <1>1, <1>3, <1>4, <2>2 DEF TypeOK
  <2>3. CASE old # NoSlot /\ x # old
    <3>1. "DEFAULT" \notin flags[x]
      BY <1>1, <1>4, <1>8, <2>3 DEF IInv, AtMostOneDefault, TypeOK
    <3> QED BY <1>1, <1>3, <1>4, <2>3, <3>1 DEF TypeOK
  <2> QED BY <2>1, <2>2, <2>3
<1>9. CallsConsistent'
  <2>1. ASSUME NEW u \in Threads, u # t
        PROVE  pc'[u] = pc[u] /\ call'[u] = call[u] /\ pc[u] \in {"idle", "poll"}
    BY <1>3, <1>4, <2>1 DEF TypeOK
  <2>2. pc'[t] = location /\ call'[t] = new
    BY <1>3, <1>4 DEF TypeOK
  <2>3. NoOtherDefault(s)'
    BY <1>3, <1>8 DEF NoOtherDefault
  <2>4. location = "update_old" => old \in Slots \ {s} /\ descriptor[old] # NoDescriptor
    BY <1>1 DEF old
  <2>5. Published(s)' <=> Published(s)
    BY <1>3 DEF Published
  <2> SUFFICES ASSUME NEW u \in Threads
               PROVE  CallConsistent(u)'
    BY DEF CallsConsistent
  <2>6. CASE u = t
    BY <1>2, <1>3, <2>2, <2>3, <2>4, <2>5, <2>6 DEF CallConsistent
  <2>7. CASE u # t
    BY <2>1, <2>7 DEF IInv, CallsConsistent, CallConsistent, LockedLocations
  <2> QED BY <2>6, <2>7
<1>10. SlotsConsistent'
  <2>1. call'[t].slot = s /\ call'[t].desc = d
    BY <1>2, <1>3, <1>4 DEF TypeOK
  <2> QED BY <1>3, <2>1 DEF IInv, SlotsConsistent, Published
<1>11. RefCountsHolders' /\ HoldersAreBusy' /\ UniqueNames'
  BY <1>3, <1>5 DEF IInv, RefCountsHolders, Holders, HoldersAreBusy, UniqueNames, clients
<1>12. HandlesAreSound'
  <2> SUFFICES ASSUME ~MayDeinit PROVE HandlesConsistent' /\ HeldAnswersRequest'
    BY DEF HandlesAreSound
  <2>1. /\ \A x \in Slots : hash[x] < publish_count
        /\ \A c \in Clients : handle[c].hash < publish_count
        /\ publish_count \in Nat /\ handle \in [Clients -> Handles]
        /\ hash \in [Slots -> Nat]
    BY <1>4, <1>5 DEF IInv, HandlesAreSound, HandlesConsistent, TypeOK
  <2>2. /\ \A x \in Slots : hash'[x] < publish_count'
        /\ \A c \in Clients : handle[c].hash < publish_count'
    BY <1>3, <2>1 DEF Handles
  <2>3. ASSUME NEW c \in Clients, HandleIsCurrent(c)'
        PROVE  HandleIsCurrent(c)
    BY <1>3, <2>1, <2>3 DEF HandleIsCurrent, clients, Handles
  <2>4. HandlesConsistent'
    BY <1>3, <1>5, <2>2, <2>3 DEF IInv, HandlesAreSound, HandlesConsistent, CallTarget, Answers, clients
  <2>5. HeldAnswersRequest'
    BY <1>3 DEF IInv, HandlesAreSound, HeldAnswersRequest, CallTarget, Answers, clients
  <2> QED BY <2>4, <2>5
<1>13. AtMostOneDefault'
  <2>1. \A x \in Slots : flags'[x] \subseteq flags[x]
    BY <1>1, <1>3, <1>4 DEF TypeOK
  <2> QED BY <1>3, <2>1 DEF IInv, AtMostOneDefault
<1> QED BY <1>6, <1>7, <1>9, <1>10, <1>11, <1>12, <1>13 DEF IInv

\* A call of az_ulib_ipc_set_default, whatever name it is given.
SetsDefault(t) == \E name : set_default(t, name)

LEMMA SetDefaultInv ==
  ASSUME IInv, NEW t \in Threads, NEW name, set_default(t, name)
  PROVE  IInv'
<1> DEFINE s == lookup_interface(name)
<1>1. CASE UNCHANGED vars
  BY <1>1, StutterInv
<1>2. CASE /\ phase = "up" /\ pc[t] = "idle" /\ LockFree
           /\ name.version # AnyVersion /\ s # NoSlot /\ DefaultOf(name.family) # s
           /\ ChangeDefault(t, s, NoDescriptor)
  <2>1. s \in Slots /\ descriptor[s] # NoDescriptor /\ Family[descriptor[s]] = name.family
    BY <1>2, LookupFinds DEF Matches
  <2>2. Published(s) /\ \A x \in Slots : descriptor[x] # NoDescriptor => Published(x)
    BY <1>2, <2>1, OutsideLock DEF Published
  <2>3. \A u \in Threads : pc[u] \in {"idle", "poll"}
    BY <1>2, OutsideLock
  <2> HIDE DEF s
  <2> QED BY <1>2, <2>1, <2>2, <2>3, ChangeDefaultInv
<1> QED BY <1>1, <1>2 DEF set_default

LEMMA NestedAcquireInv ==
  ASSUME IInv, NEW t \in Threads, NestedAcquire(t)
  PROVE  IInv'
<1> DEFINE s == call[t].slot
           d == call[t].desc
<1>1. pc[t] = "nested_acquire" /\ pc[t] \in LockedLocations /\ ChangeDefault(t, s, d)
  BY DEF NestedAcquire, InCriticalSection, LockedLocations, Locations
<1>2. d # NoDescriptor /\ "DEFAULT" \notin flags[s]
  BY <1>1 DEF IInv, CallsConsistent, CallConsistent
<1>3. /\ lock = t
      /\ \A u \in Threads : u # t => pc[u] \in {"idle", "poll"}
      /\ s \in Slots /\ d \in Descriptors \cup {NoDescriptor}
      /\ descriptor[s] # NoDescriptor
      /\ ref_count[s] = 0 /\ descriptor[s] = d
      /\ \A x \in Slots : descriptor[x] # NoDescriptor /\ ref_count[x] = 0 => x = s
  BY <1>1, <1>2, InsideLock, ConstantsAssumption
<1>4. \A x \in Slots : ~Published(x) <=> ref_count[x] = 0
  BY DEF IInv, TypeOK, Published
<1>5. DefaultOf(Family[descriptor[s]]) # s
  BY <1>2, <1>3, LookupFinds, ValueTypes DEF DefaultOf, Matches, AnyVersion
<1> QED BY <1>1, <1>2, <1>3, <1>4, <1>5, ChangeDefaultInv

LEMMA PublishInv ==
  ASSUME IInv, NEW t \in Threads, NEW d \in Descriptors, phase \in {"init", "up"}, Publish(t, d)
  PROVE  IInv'
<1> DEFINE s == get_first_free
           new == [IdleCall EXCEPT !.slot = s, !.desc = d]
<1>1. CASE UNCHANGED vars
  BY <1>1, StutterInv
<1>2. CASE /\ Version[d] # AnyVersion /\ lookup_interface(NameOf(d)) = NoSlot /\ s # NoSlot
           /\ descriptor' = [descriptor EXCEPT ![s] = d]
           /\ hash' = [hash EXCEPT ![s] = publish_count]
           /\ publish_count' = publish_count + 1
           /\ UNCHANGED <<phase, clients>>
           /\ \/ /\ flags' = [flags EXCEPT ![s] = {}]
                 /\ lock' = t
                 /\ Goto(t, "nested_acquire")
                 /\ call' = [call EXCEPT ![t] = new]
                 /\ UNCHANGED <<registry, ref_count>>
              \/ /\ \/ flags' = [flags EXCEPT ![s] = {}]
                    \/ flags' = [flags EXCEPT ![s] = {"DEFAULT"}] /\ DefaultOf(Family[d]) = NoSlot
                 /\ ref_count' = [ref_count EXCEPT ![s] = 1]
                 /\ registry' \in [Names -> {"absent", "plain", "default"}]
                 /\ UNCHANGED <<lock, pc, call>>
  <2>1. pc[t] = "idle" /\ LockFree
    BY DEF Publish
  <2>2. s \in Slots /\ ref_count[s] = 0
    BY <1>2, FreeSlotIsFree
  <2>3. TypeOK /\ ref_count \in [Slots -> Nat] /\ descriptor \in [Slots -> Descriptors \cup {NoDescriptor}]
    BY DEF IInv, TypeOK
  <2>4. /\ descriptor[s] = NoDescriptor
        /\ \A x \in Slots : descriptor[x] # NoDescriptor <=> ref_count[x] > 0
        /\ \A u \in Threads : pc[u] \in {"idle", "poll"}
    BY <2>1, <2>2, OutsideLock
  <2>5. \A x \in Slots : descriptor[x] # NoDescriptor => NameOf(descriptor[x]) # NameOf(d)
    <3>1. \A x \in Slots : ~Matches(NameOf(d), x)
      BY <1>2, LookupFinds
    <3> QED BY <1>2, <3>1 DEF Matches, NameOf
  <2>6. DefaultOf(Family[d]) = NoSlot =>
          \A x \in Slots : descriptor[x] # NoDescriptor /\ Family[descriptor[x]] = Family[d]
                             => "DEFAULT" \notin flags[x]
    BY LookupFinds DEF DefaultOf, Matches
  <2>7. new \in Calls /\ new.slot = s /\ new.desc = d
    BY <2>2, ConstantsAssumption DEF Calls, IdleCall, Waits
  <2>8. Holders(s) = {} /\ d # NoDescriptor
    BY <2>2, ConstantsAssumption DEF IInv, RefCountsHolders
  <2>9. \A c \in Clients : holding[c] => handle[c].slot \in Slots \ {s}
    BY <2>8 DEF Holders, IInv, HoldersAreBusy
  <2> HIDE DEF s, new
  <2>10. TypeOK'
    <3>1. /\ hash' \in [Slots -> Nat] /\ publish_count' \in Nat
          /\ descriptor' \in [Slots -> Descriptors \cup {NoDescriptor}]
          /\ flags' \in [Slots -> SUBSET Flags]
      BY <1>2, <2>2, <2>3 DEF TypeOK, Flags
    <3>2. ref_count' \in [Slots -> Nat] /\ registry' \in [Names -> {"absent", "plain", "default"}]
      BY <1>2, <2>2, <2>3 DEF TypeOK
    <3>3. /\ lock' \in Threads \cup {NoThread} /\ pc' \in [Threads -> Locations]
          /\ call' \in [Threads -> Calls]
      BY <1>2, <2>3, <2>7 DEF TypeOK, Goto, Locations
    <3> QED BY <1>2, <2>3, <3>1, <3>2, <3>3 DEF TypeOK, clients
  <2>11. LockOwner'
    BY <1>2, <2>1, <2>3, <2>4, ConstantsAssumption DEF TypeOK, IInv, LockOwner, LockFree, Goto, LockedLocations, Locations
  <2>12. CallsConsistent'
    <3> SUFFICES ASSUME NEW u \in Threads
                 PROVE  CallConsistent(u)'
      BY DEF CallsConsistent
    <3>1. CASE pc'[u] \notin LockedLocations
      <4>1. pc'[u] = pc[u] /\ call'[u] = call[u]
        BY <1>2, <2>1, <2>3, <3>1 DEF TypeOK, Goto, LockedLocations, Locations
      <4> QED BY <2>2, <3>1, <4>1 DEF IInv, CallsConsistent, CallConsistent, LockedLocations, Locations
    <3>2. CASE pc'[u] \in LockedLocations
      <4>1. /\ u = t /\ pc'[u] = "nested_acquire" /\ call'[u] = new
            /\ UNCHANGED ref_count /\ flags' = [flags EXCEPT ![s] = {}]
        BY <1>2, <2>3, <2>4, <3>2 DEF TypeOK, Goto, LockedLocations
      <4>2. descriptor'[s] = d /\ flags'[s] = {} /\ ref_count'[s] = 0
        BY <1>2, <2>2, <2>3, <4>1 DEF TypeOK
      <4> QED BY <2>2, <2>7, <2>8, <4>1, <4>2 DEF CallConsistent, Published
    <3> QED BY <3>1, <3>2
  <2>13. SlotsConsistent'
    <3>1. CASE ref_count' = [ref_count EXCEPT ![s] = 1]
      <4>1. \A x \in Slots : ref_count'[x] <= MaxInstances + 1
        BY <2>2, <2>3, <3>1, ConstantsAssumption DEF IInv, SlotsConsistent
      <4>2. \A x \in Slots : descriptor'[x] # NoDescriptor <=> ref_count'[x] > 0
        BY <1>2, <2>2, <2>3, <2>4, <2>8, <3>1
      <4> QED BY <4>1, <4>2 DEF SlotsConsistent, Published
    <3>2. CASE lock' = t /\ call' = [call EXCEPT ![t] = new] /\ UNCHANGED ref_count
      <4>1. call'[t].slot = s /\ call'[t].desc = d
        BY <2>3, <2>7, <3>2 DEF TypeOK
      <4>2. \A x \in Slots \ {s} : descriptor'[x] = descriptor[x]
        BY <1>2, <2>2, <2>3
      <4>3. descriptor'[s] # NoDescriptor
        BY <1>2, <2>2, <2>3, <2>8
      <4>4. \A x \in Slots : ref_count'[x] = ref_count[x] /\ ref_count[x] <= MaxInstances + 1
        BY <3>2 DEF IInv, SlotsConsistent
      <4> QED BY <2>4, <2>8, <3>2, <4>1, <4>2, <4>3, <4>4 DEF SlotsConsistent, Published
    <3> QED BY <1>2, <3>1, <3>2
  <2>14. RefCountsHolders'
    <3>1. \A x \in Slots : Holders(x)' = Holders(x)
      BY <1>2 DEF Holders, clients
    <3>2. CASE ref_count' = [ref_count EXCEPT ![s] = 1]
      <4>1. ASSUME NEW x \in Slots
            PROVE  IF ref_count'[x] = 0 THEN Holders(x)' = {}
                   ELSE ref_count'[x] = 1 + Cardinality(Holders(x)')
        <5>1. CASE x = s
          BY <2>2, <2>3, <2>8, <3>1, <3>2, <5>1, FS_EmptySet
        <5>2. CASE x # s
          BY <2>3, <3>1, <3>2, <5>2 DEF IInv, RefCountsHolders
        <5> QED BY <5>1, <5>2
      <4> QED BY <4>1 DEF RefCountsHolders
    <3>3. CASE UNCHANGED ref_count
      BY <3>1, <3>3 DEF IInv, RefCountsHolders
    <3> QED BY <1>2, <3>2, <3>3
  <2>15. HoldersAreBusy'
    BY <1>2, <2>9 DEF HoldersAreBusy, clients
  <2>16. HandlesAreSound'
    <3> SUFFICES ASSUME ~MayDeinit PROVE HandlesConsistent' /\ HeldAnswersRequest'
      BY DEF HandlesAreSound
    <3>1. /\ \A x \in Slots : hash[x] < publish_count
          /\ \A c \in Clients : handle[c].hash < publish_count
          /\ publish_count \in Nat /\ handle \in [Clients -> Handles]
          /\ hash \in [Slots -> Nat]
      BY DEF IInv, HandlesAreSound, HandlesConsistent, TypeOK
    <3>2. /\ \A x \in Slots : hash'[x] < publish_count'
          /\ \A c \in Clients : handle[c].hash < publish_count'
      BY <1>2, <3>1 DEF Handles
    <3>3. ASSUME NEW c \in Clients, HandleIsCurrent(c)'
          PROVE  HandleIsCurrent(c) /\ handle[c].slot # s
      <4>1. handle[c].slot \in Slots
        BY <1>2, <3>1, <3>3 DEF HandleIsCurrent, clients, Handles
      <4> QED BY <1>2, <2>2, <3>1, <3>3, <4>1 DEF HandleIsCurrent, clients
    <3>4. ASSUME NEW c \in Clients, HandleIsCurrent(c)', CallTarget(c)' # NoDescriptor
          PROVE  Answers(Request[c], CallTarget(c))'
      <4>1. HandleIsCurrent(c) /\ handle[c].slot \in Slots \ {s}
        BY <3>1, <3>3, <3>4 DEF HandleIsCurrent, Handles
      <4>2. CallTarget(c)' = CallTarget(c)
        BY <1>2, <2>3, <4>1 DEF CallTarget, clients
      <4> QED BY <3>4, <4>1, <4>2 DEF IInv, HandlesAreSound, HandlesConsistent, Answers
    <3>5. HandlesConsistent'
      <4>1. phase' \in {"init", "up"} /\ handle' = handle
        BY <1>2 DEF clients
      <4> QED BY <3>2, <3>4, <4>1 DEF HandlesConsistent
    <3>6. HeldAnswersRequest'
      BY <1>2, <2>2, <2>3, <2>9 DEF IInv, HandlesAreSound, HeldAnswersRequest, CallTarget, Answers, clients
    <3> QED BY <3>5, <3>6
  <2>17. UniqueNames'
    BY <1>2, <2>2, <2>3, <2>5 DEF IInv, UniqueNames
  <2>18. AtMostOneDefault'
    <3>1. descriptor'[s] = d /\ \A x \in Slots \ {s} : descriptor'[x] = descriptor[x] /\ flags'[x] = flags[x]
      BY <1>2, <2>2, <2>3 DEF TypeOK
    <3>2. "DEFAULT" \in flags'[s] => DefaultOf(Family[d]) = NoSlot
      BY <1>2, <2>2, <2>3 DEF TypeOK
    <3> QED BY <2>6, <3>1, <3>2 DEF IInv, AtMostOneDefault
  <2> QED BY <2>10, <2>11, <2>12, <2>13, <2>14, <2>15, <2>16, <2>17, <2>18 DEF IInv
<1>3. RegistryWrite(NameOf(d), "default") \/ UNCHANGED registry
        => registry' \in [Names -> {"absent", "plain", "default"}]
  BY DEF IInv, TypeOK, RegistryWrite
<1> QED BY <1>1, <1>2, <1>3 DEF Publish, RegistryFailure

LEMMA FindToUnpublishInv ==
  ASSUME IInv, NEW t \in Threads, NEW d \in Descriptors, NEW wait \in WaitOptions,
         FindToUnpublish(t, d, wait)
  PROVE  IInv'
<1> DEFINE s == find_interface_descriptor(d)
           new == [slot |-> s, old |-> NoSlot, desc |-> d, polls |-> wait]
<1>1. /\ phase = "up" /\ pc[t] = "idle" /\ s \in Slots
      /\ pc' = [pc EXCEPT ![t] = "poll"] /\ call' = [call EXCEPT ![t] = new]
      /\ UNCHANGED <<phase, table, lock, registry, clients>>
  BY FindDescriptorFinds DEF FindToUnpublish, Goto
<1>2. TypeOK
  BY DEF IInv
<1> HIDE DEF s
<1>3. new \in Calls /\ d # NoDescriptor
  BY <1>1, ConstantsAssumption DEF Calls
<1> HIDE DEF new
<1>4. TypeOK' /\ LockOwner'
  <2>1. pc' \in [Threads -> Locations] /\ call' \in [Threads -> Calls]
    BY <1>1, <1>2, <1>3 DEF TypeOK, Locations
  <2>2. TypeOK'
    BY <1>1, <1>2, <2>1 DEF TypeOK, table, clients
  <2>3. LockOwner'
    BY <1>1, <1>2 DEF TypeOK, IInv, LockOwner, LockedLocations
  <2> QED BY <2>2, <2>3
<1>5. CallsConsistent'
  <2> SUFFICES ASSUME NEW u \in Threads
               PROVE  CallConsistent(u)'
    BY DEF CallsConsistent
  <2>1. CASE u = t
    BY <1>1, <1>2, <1>3, <2>1 DEF TypeOK, CallConsistent, LockedLocations, new
  <2>2. CASE u # t
    <3>1. pc'[u] = pc[u] /\ call'[u] = call[u]
      BY <1>1, <1>2, <2>2 DEF TypeOK
    <3> QED BY <1>1, <3>1 DEF IInv, CallsConsistent, CallConsistent, NoOtherDefault, Published, table
  <2> QED BY <2>1, <2>2
<1>6. SlotsConsistent'
  <2> SUFFICES ASSUME NEW x \in Slots, descriptor[x] # NoDescriptor, ~Published(x)
               PROVE  lock \in Threads /\ call'[lock].slot = x /\ call'[lock].desc # NoDescriptor
    BY <1>1 DEF IInv, SlotsConsistent, Published, table
  <2>1. lock \in Threads /\ call[lock].slot = x /\ call[lock].desc # NoDescriptor
    BY DEF IInv, SlotsConsistent
  <2>2. lock # t
    BY <1>1, <2>1 DEF IInv, LockOwner, LockedLocations
  <2> QED BY <1>1, <1>2, <2>1, <2>2 DEF TypeOK
<1>7. RefCountsHolders' /\ HoldersAreBusy' /\ UniqueNames' /\ AtMostOneDefault'
  BY <1>1 DEF IInv, RefCountsHolders, Holders, HoldersAreBusy, UniqueNames, AtMostOneDefault, table, clients
<1>8. HandlesAreSound'
  BY <1>1 DEF IInv, HandlesAreSound, HandlesConsistent, HandleIsCurrent, HeldAnswersRequest,
      CallTarget, Answers, table, clients
<1> QED BY <1>4, <1>5, <1>6, <1>7, <1>8 DEF IInv

\* A slot that is unpublished has no holder, so forgetting it harms nobody.
LEMMA RemoveInv ==
  ASSUME IInv, NEW s \in Slots, ref_count[s] = 1, LockFree,
         descriptor' = [descriptor EXCEPT ![s] = NoDescriptor],
         ref_count' = [ref_count EXCEPT ![s] = 0],
         UNCHANGED <<hash, flags, publish_count, lock, clients>>, phase' = phase
  PROVE  SlotsConsistent' /\ RefCountsHolders' /\ HandlesAreSound'
         /\ UniqueNames' /\ AtMostOneDefault'
<1>1. TypeOK /\ ref_count \in [Slots -> Nat] /\ descriptor \in [Slots -> Descriptors \cup {NoDescriptor}]
  BY DEF IInv, TypeOK
<1>2. Holders(s) = {}
  <2>1. 1 = 1 + Cardinality(Holders(s))
    BY DEF IInv, RefCountsHolders
  <2>2. Cardinality(Holders(s)) = 0
    BY <2>1, HoldersFinite
  <2> QED BY <2>2, HoldersFinite, FS_EmptySet
<1>3. \A x \in Slots : Holders(x)' = Holders(x)
  BY DEF Holders, clients
<1>4. \A c \in Clients : holding[c] => handle[c].slot \in Slots \ {s}
  BY <1>2 DEF Holders, IInv, HoldersAreBusy
<1>5. SlotsConsistent'
  <2>1. \A x \in Slots : descriptor[x] # NoDescriptor <=> ref_count[x] > 0
    BY OutsideLock
  <2>2. \A x \in Slots : descriptor'[x] # NoDescriptor <=> ref_count'[x] > 0
    BY <1>1, <2>1
  <2>3. \A x \in Slots : ref_count'[x] <= MaxInstances + 1
    BY <1>1, ConstantsAssumption DEF IInv, SlotsConsistent
  <2> QED BY <2>2, <2>3 DEF SlotsConsistent, Published
<1>6. RefCountsHolders'
  BY <1>1, <1>2, <1>3 DEF IInv, RefCountsHolders
<1>7. ~MayDeinit => HeldAnswersRequest'
  BY <1>1, <1>4 DEF IInv, HandlesAreSound, HeldAnswersRequest, CallTarget, Answers, clients
<1>8. ASSUME ~MayDeinit PROVE HandlesConsistent'
  <2>1. ASSUME NEW c \in Clients, HandleIsCurrent(c)', CallTarget(c)' # NoDescriptor
        PROVE  Answers(Request[c], CallTarget(c))'
    <3>1. HandleIsCurrent(c)
      BY <2>1 DEF HandleIsCurrent, clients
    <3>2. handle[c].slot \in Slots
      BY <1>1, <3>1 DEF HandleIsCurrent, TypeOK, Handles
    <3>3. CallTarget(c)' = CallTarget(c)
      BY <1>1, <2>1, <3>2 DEF CallTarget, clients
    <3> QED BY <1>8, <2>1, <3>1, <3>3 DEF IInv, HandlesAreSound, HandlesConsistent, Answers
  <2>2. phase = "down" => \A x \in Slots : descriptor'[x] = NoDescriptor
    BY <1>1, <1>8 DEF IInv, HandlesAreSound, HandlesConsistent
  <2> QED BY <1>8, <2>1, <2>2 DEF IInv, HandlesAreSound, HandlesConsistent, clients
<1>9. UniqueNames' /\ AtMostOneDefault'
  <2>1. \A x \in Slots : descriptor'[x] # NoDescriptor => descriptor'[x] = descriptor[x]
    BY <1>1
  <2> QED BY <2>1 DEF IInv, UniqueNames, AtMostOneDefault
<1> QED BY <1>5, <1>6, <1>7, <1>8, <1>9 DEF HandlesAreSound

LEMMA PollInv ==
  ASSUME IInv, NEW t \in Threads, Poll(t)
  PROVE  IInv'
<1> DEFINE s == call[t].slot
<1>1. pc[t] = "poll" /\ LockFree /\ UNCHANGED <<phase, lock, hash, publish_count, clients>>
  BY DEF Poll, table, ReturnFromPoll
<1>2. TypeOK /\ \A u \in Threads : pc[u] \in {"idle", "poll"}
  BY <1>1, OutsideLock DEF IInv
<1>3. s \in Slots /\ call[t].desc # NoDescriptor
  BY <1>1 DEF IInv, CallsConsistent, CallConsistent
<1>4. /\ pc' \in [Threads -> Locations] /\ pc'[t] \in {"idle", "poll"}
      /\ \A u \in Threads : u # t => pc'[u] = pc[u] /\ call'[u] = call[u]
      /\ call' \in [Threads -> Calls]
      /\ pc'[t] = "poll" => call'[t].slot = s /\ call'[t].desc = call[t].desc
  <2>1. CASE ReturnFromPoll(t)
    BY <1>2, <2>1, ValueTypes DEF TypeOK, ReturnFromPoll, Goto, Locations
  <2>2. CASE /\ call' = [call EXCEPT ![t].polls = IF @ = Forever THEN Forever ELSE @ - 1]
             /\ call[t].polls # 0
             /\ UNCHANGED pc
    <3>1. call[t] \in Calls
      BY <1>2 DEF TypeOK
    <3>2. (IF call[t].polls = Forever THEN Forever ELSE call[t].polls - 1) \in Waits
      BY <2>2, <3>1 DEF Calls, Waits
    <3>3. [call[t] EXCEPT !.polls = IF @ = Forever THEN Forever ELSE @ - 1] \in Calls
      BY <3>1, <3>2 DEF Calls
    <3> QED BY <1>1, <1>2, <2>2, <3>1, <3>3 DEF TypeOK, Calls
  <2> QED BY <2>1, <2>2 DEF Poll
<1>5. LockOwner' /\ CallsConsistent'
  <2>1. LockOwner'
    BY <1>1, <1>2, <1>4, ConstantsAssumption DEF LockOwner, LockFree, LockedLocations
  <2>2. ASSUME NEW u \in Threads
        PROVE  CallConsistent(u)'
    <3>1. CASE u = t
      BY <1>3, <1>4, <3>1 DEF CallConsistent, LockedLocations
    <3>2. CASE u # t
      BY <1>2, <1>4, <3>2 DEF IInv, CallsConsistent, CallConsistent, LockedLocations
    <3> QED BY <3>1, <3>2
  <2> QED BY <2>1, <2>2 DEF CallsConsistent
<1>8. HoldersAreBusy'
  BY <1>1 DEF IInv, HoldersAreBusy, AllIdle, clients
<1>6. CASE UNCHANGED <<descriptor, ref_count>> /\ (UNCHANGED registry \/ RegistryFailure)
  <2>1. \A x \in Slots : flags'[x] \subseteq flags[x] \cup {"ON_HOLD"}
    BY <1>1, <1>2, <1>3, <1>6 DEF Poll, table, TypeOK, AndLogicalNot, ReturnFromPoll
  <2>2. flags' \in [Slots -> SUBSET Flags]
    BY <1>1, <1>2, <1>3 DEF Poll, table, TypeOK, AndLogicalNot, Flags
  <2>3. TypeOK'
    BY <1>1, <1>2, <1>4, <1>6, <2>2 DEF TypeOK, clients, RegistryFailure
  <2>4. SlotsConsistent'
    BY <1>1, <1>6, OutsideLock DEF IInv, SlotsConsistent, Published
  <2>5. RefCountsHolders' /\ UniqueNames'
    BY <1>1, <1>6 DEF IInv, RefCountsHolders, Holders, UniqueNames, clients
  <2>6. HandlesAreSound'
    BY <1>1, <1>6 DEF IInv, HandlesAreSound, HandlesConsistent, HandleIsCurrent, HeldAnswersRequest,
        CallTarget, Answers, clients
  <2>7. AtMostOneDefault'
    BY <1>6, <2>1 DEF IInv, AtMostOneDefault
  <2> QED BY <1>5, <1>8, <2>3, <2>4, <2>5, <2>6, <2>7 DEF IInv
<1>7. CASE /\ Unused(s) /\ Remove(s) /\ UNCHANGED flags
           /\ RegistryWrite(NameOf(call[t].desc), "absent")
  <2>1. TypeOK'
    <3>1. /\ descriptor' \in [Slots -> Descriptors \cup {NoDescriptor}]
          /\ ref_count' \in [Slots -> Nat] /\ registry' \in [Names -> {"absent", "plain", "default"}]
      BY <1>2, <1>7 DEF TypeOK, Remove, RegistryWrite
    <3> QED BY <1>1, <1>2, <1>4, <1>7, <3>1 DEF TypeOK, clients
  <2>2. SlotsConsistent' /\ RefCountsHolders' /\ HandlesAreSound'
        /\ UniqueNames' /\ AtMostOneDefault'
    BY <1>1, <1>3, <1>7, RemoveInv DEF Remove, Unused
  <2> QED BY <1>5, <1>8, <2>1, <2>2 DEF IInv
<1> QED BY <1>6, <1>7 DEF Poll, table

LEMMA TryGetInv ==
  ASSUME IInv, NEW c \in Clients, try_get_interface(c)
  PROVE  IInv'
<1> DEFINE s == SlotFor(c)
           new == [slot |-> s, hash |-> hash[s]]
<1>1. CASE UNCHANGED vars
  BY <1>1, StutterInv
<1>2. CASE TryGetResult(c) = "AZ_OK"
  <2>1. /\ phase = "up" /\ LockFree /\ ~holding[c]
        /\ ref_count' = [ref_count EXCEPT ![s] = @ + 1]
        /\ handle' = [handle EXCEPT ![c] = new]
        /\ holding' = [holding EXCEPT ![c] = TRUE]
        /\ UNCHANGED <<phase, descriptor, hash, flags, publish_count, lock, registry, pc, call>>
    BY <1>2 DEF try_get_interface
  <2>2. TypeOK
    BY DEF IInv
  <2>3. s # NoSlot /\ ref_count[s] >= 1 /\ ref_count[s] <= MaxInstances
    <3>1. s # NoSlot /\ ~(ref_count[s] < 1) /\ ~(ref_count[s] > MaxInstances)
      BY <1>2 DEF TryGetResult, try_lock_interface
    <3>2. s \in Slots
      BY <2>2, <3>1, LookupFinds DEF SlotFor, HandleIsCurrent, TypeOK, Handles
    <3> QED BY <2>2, <3>1, <3>2, ConstantsAssumption DEF TypeOK
  <2>4. s \in Slots
    BY <2>2, <2>3, LookupFinds DEF SlotFor, HandleIsCurrent, TypeOK, Handles
  <2>5. descriptor[s] # NoDescriptor
    BY <2>1, <2>3, <2>4, OutsideLock DEF IInv, TypeOK
  <2>6. ~MayDeinit => Answers(Request[c], descriptor[s])
    <3>1. CASE HandleIsCurrent(c)
      BY <2>5, <3>1 DEF SlotFor, CallTarget, IInv, HandlesAreSound, HandlesConsistent
    <3>2. CASE ~HandleIsCurrent(c)
      <4>1. Matches(Request[c], s)
        BY <2>3, <3>2, LookupFinds DEF SlotFor
      <4> HIDE DEF s
      <4> QED BY <4>1 DEF Matches, Answers
    <3> QED BY <3>1, <3>2
  <2>7. new \in Handles /\ new.slot = s /\ new.hash = hash[s]
    BY <2>2, <2>4 DEF TypeOK, Handles
  <2> HIDE DEF s, new
  <2>8. /\ handle'[c] = new /\ holding'[c]
        /\ \A x \in Clients \ {c} : handle'[x] = handle[x] /\ holding'[x] = holding[x]
    BY <2>1, <2>2 DEF TypeOK
  <2>9. TypeOK'
    BY <2>1, <2>2, <2>4, <2>7 DEF TypeOK
  <2>10. LockOwner' /\ UniqueNames' /\ AtMostOneDefault'
    BY <2>1 DEF IInv, LockOwner, UniqueNames, AtMostOneDefault
  <2>11. \A x \in Slots : ref_count'[x] > 0 <=> ref_count[x] > 0
    BY <2>1, <2>2, <2>3, <2>4 DEF TypeOK
  <2>12. CallsConsistent'
    <3>1. \A u \in Threads : pc[u] \in {"idle", "poll"}
      BY <2>1, OutsideLock
    <3> QED BY <2>1, <3>1 DEF IInv, CallsConsistent, CallConsistent, LockedLocations
  <2>13. SlotsConsistent'
    <3>1. \A x \in Slots : ref_count'[x] <= MaxInstances + 1
      BY <2>1, <2>2, <2>3, <2>4, ConstantsAssumption DEF TypeOK, IInv, SlotsConsistent
    <3> QED BY <2>1, <2>11, <3>1 DEF IInv, SlotsConsistent, Published
  <2>14. RefCountsHolders'
    <3> SUFFICES ASSUME NEW x \in Slots
                 PROVE  IF ref_count'[x] = 0 THEN Holders(x)' = {}
                        ELSE ref_count'[x] = 1 + Cardinality(Holders(x)')
      BY DEF RefCountsHolders
    <3>1. IF ref_count[x] = 0 THEN Holders(x) = {} ELSE ref_count[x] = 1 + Cardinality(Holders(x))
      BY DEF IInv, RefCountsHolders
    <3>2. CASE x = s
      <4>1. Holders(x)' = Holders(x) \cup {c}
        BY <2>7, <2>8, <3>2 DEF Holders
      <4>2. c \notin Holders(x)
        BY <2>1 DEF Holders
      <4>3. Cardinality(Holders(x)') = Cardinality(Holders(x)) + 1
        BY <4>1, <4>2, HoldersFinite, FS_AddElement
      <4>4. ref_count'[x] = ref_count[x] + 1 /\ ref_count[x] # 0
        BY <2>1, <2>2, <2>3, <2>4, <3>2 DEF TypeOK
      <4> QED BY <2>2, <3>1, <4>3, <4>4, HoldersFinite DEF TypeOK
    <3>3. CASE x # s
      <4>1. Holders(x)' = Holders(x)
        BY <2>1, <2>7, <2>8, <3>3 DEF Holders
      <4> QED BY <2>1, <2>2, <3>1, <3>3, <4>1 DEF TypeOK
    <3> QED BY <3>2, <3>3
  <2>17. HoldersAreBusy'
    BY <2>1, <2>4, <2>7, <2>8 DEF IInv, HoldersAreBusy
  <2>15. ASSUME ~MayDeinit PROVE HeldAnswersRequest'
    <3> SUFFICES ASSUME NEW x \in Clients, holding'[x]
                 PROVE  Answers(Request[x], descriptor[handle'[x].slot])
      BY <2>1 DEF HeldAnswersRequest, CallTarget, Answers
    <3>1. CASE x = c
      BY <2>6, <2>7, <2>8, <2>15, <3>1
    <3>2. CASE x # c
      BY <2>8, <2>15, <3>2 DEF IInv, HandlesAreSound, HeldAnswersRequest, CallTarget
    <3> QED BY <3>1, <3>2
  <2>16. ASSUME ~MayDeinit PROVE HandlesConsistent'
    <3>1. /\ phase = "up" /\ phase' = "up"
          /\ \A x \in Slots : hash[x] < publish_count
          /\ \A x \in Clients : handle[x].hash < publish_count
      BY <2>1, <2>16 DEF IInv, HandlesAreSound, HandlesConsistent
    <3>2. \A x \in Clients : handle'[x].hash < publish_count
      BY <2>4, <2>7, <2>8, <3>1
    <3>3. ASSUME NEW x \in Clients
          PROVE  HandleIsCurrent(x)' /\ CallTarget(x)' # NoDescriptor
                   => Answers(Request[x], CallTarget(x))'
      <4>1. CASE x = c
        BY <2>1, <2>4, <2>6, <2>7, <2>8, <2>16, <4>1 DEF CallTarget, Answers
      <4>2. CASE x # c
        BY <2>1, <2>8, <2>16, <4>2 DEF IInv, HandlesAreSound, HandlesConsistent, HandleIsCurrent, CallTarget, Answers
      <4> QED BY <4>1, <4>2
    <3> QED BY <2>1, <3>1, <3>2, <3>3 DEF HandlesConsistent
  <2> QED BY <2>9, <2>10, <2>12, <2>13, <2>14, <2>15, <2>16, <2>17 DEF IInv, HandlesAreSound
<1> QED BY <1>1, <1>2 DEF try_get_interface, vars, table, clients

LEMMA ReleaseInv ==
  ASSUME IInv, NEW c \in Clients, release_interface(c)
  PROVE  IInv'
<1> DEFINE s == handle[c].slot
<1>1. /\ phase = "up" /\ LockFree /\ holding[c]
      /\ ref_count' = [ref_count EXCEPT ![s] = @ - 1]
      /\ holding' = [holding EXCEPT ![c] = FALSE]
      /\ UNCHANGED <<phase, descriptor, hash, flags, publish_count, lock, registry, pc, call, handle>>
  BY DEF release_interface
<1>2. TypeOK
  BY DEF IInv
<1>3. s \in Slots /\ c \in Holders(s)
  BY <1>1 DEF IInv, HoldersAreBusy, Holders
<1>4. /\ ref_count[s] = 1 + Cardinality(Holders(s)) /\ Cardinality(Holders(s)) \in Nat \ {0}
  BY <1>3, HoldersFinite, FS_EmptySet DEF IInv, RefCountsHolders
<1>5. /\ ~holding'[c]
      /\ \A x \in Clients \ {c} : holding'[x] = holding[x]
  BY <1>1, <1>2 DEF TypeOK
<1> HIDE DEF s
<1>6. ref_count'[s] = ref_count[s] - 1 /\ \A x \in Slots \ {s} : ref_count'[x] = ref_count[x]
  BY <1>1, <1>2, <1>3 DEF TypeOK
<1>7. TypeOK'
  <2>1. ref_count[s] - 1 \in Nat
    BY <1>4
  <2>2. ref_count' \in [Slots -> Nat]
    BY <1>1, <1>2, <1>3, <2>1 DEF TypeOK
  <2> QED BY <1>1, <1>2, <2>2 DEF TypeOK
<1>8. \A x \in Slots : (ref_count'[x] > 0 <=> ref_count[x] > 0) /\ ref_count'[x] <= MaxInstances + 1
  <2>1. \A x \in Slots : ref_count[x] <= MaxInstances + 1 /\ ref_count[x] \in Nat
    BY <1>2 DEF TypeOK, IInv, SlotsConsistent
  <2> QED BY <1>4, <1>6, <2>1, ConstantsAssumption
<1>9. LockOwner' /\ UniqueNames' /\ AtMostOneDefault'
  BY <1>1 DEF IInv, LockOwner, UniqueNames, AtMostOneDefault
<1>10. CallsConsistent'
  <2>1. \A u \in Threads : pc[u] \in {"idle", "poll"}
    BY <1>1, OutsideLock
  <2> QED BY <1>1, <2>1 DEF IInv, CallsConsistent, CallConsistent, LockedLocations
<1>11. SlotsConsistent'
  BY <1>1, <1>8 DEF IInv, SlotsConsistent, Published
<1>12. RefCountsHolders'
  <2> SUFFICES ASSUME NEW x \in Slots
               PROVE  IF ref_count'[x] = 0 THEN Holders(x)' = {}
                      ELSE ref_count'[x] = 1 + Cardinality(Holders(x)')
    BY DEF RefCountsHolders
  <2>1. CASE x = s
    <3>1. Holders(x)' = Holders(x) \ {c}
      BY <1>1, <1>5, <2>1 DEF Holders
    <3>2. Cardinality(Holders(x)') = Cardinality(Holders(x)) - 1
      BY <1>3, <2>1, <3>1, HoldersFinite, FS_RemoveElement
    <3> QED BY <1>4, <1>6, <2>1, <3>2
  <2>2. CASE x # s
    <3>1. Holders(x)' = Holders(x)
      BY <1>1, <1>5, <2>2 DEF Holders, s
    <3> QED BY <1>6, <2>2, <3>1 DEF IInv, RefCountsHolders
  <2> QED BY <2>1, <2>2
<1>13. HoldersAreBusy' /\ HandlesAreSound'
  BY <1>1, <1>5 DEF IInv, HoldersAreBusy, HandlesAreSound, HeldAnswersRequest, HandlesConsistent,
      HandleIsCurrent, CallTarget, Answers
<1> QED BY <1>7, <1>9, <1>10, <1>11, <1>12, <1>13 DEF IInv

LEMMA InitInv ==
  ASSUME Init
  PROVE  IInv
<1>1. TypeOK
  BY ValueTypes DEF Init, TypeOK, Locations
<1>2. LockOwner /\ CallsConsistent /\ SlotsConsistent
  BY ConstantsAssumption, ValueTypes DEF Init, LockOwner, CallsConsistent, CallConsistent,
      SlotsConsistent, Published, LockedLocations
<1>3. \A s \in Slots : Holders(s) = {}
  BY DEF Init, Holders
<1>4. RefCountsHolders
  BY <1>3 DEF Init, RefCountsHolders
<1>5. HoldersAreBusy /\ HandlesAreSound
  BY ValueTypes DEF Init, HoldersAreBusy, AllIdle, LockFree, HandlesAreSound, HandlesConsistent,
      HeldAnswersRequest, HandleIsCurrent, CallTarget, Answers
<1>6. UniqueNames /\ AtMostOneDefault
  BY DEF Init, UniqueNames, AtMostOneDefault
<1> QED BY <1>1, <1>2, <1>4, <1>5, <1>6 DEF IInv

LEMMA IpcInitInv ==
  ASSUME IInv, ipc_init
  PROVE  IInv'
<1>1. /\ phase = "down" /\ phase' = "init" /\ publish_count' = 1
      /\ descriptor' = [s \in Slots |-> NoDescriptor]
      /\ ref_count' = [s \in Slots |-> 0]
      /\ flags' = [s \in Slots |-> {}]
      /\ UNCHANGED <<hash, lock, registry, pc, call, clients>>
  BY DEF ipc_init
<1>2. TypeOK /\ lock = NoThread /\ \A c \in Clients : ~holding[c]
  BY <1>1 DEF IInv, HoldersAreBusy, AllIdle, LockFree
<1>3. ~MayDeinit => (\A s \in Slots : hash[s] = 0) /\ \A c \in Clients : handle[c] = NoHandle
  BY <1>1 DEF IInv, HandlesAreSound, HandlesConsistent
<1>4. TypeOK'
  BY <1>1, <1>2 DEF TypeOK, clients
<1>5. LockOwner' /\ CallsConsistent' /\ SlotsConsistent'
  <2>1. \A u \in Threads : pc[u] \in {"idle", "poll"}
    BY <1>2, OutsideLock DEF LockFree
  <2>2. LockOwner'
    BY <1>1 DEF IInv, LockOwner
  <2>3. CallsConsistent'
    BY <1>1, <2>1 DEF IInv, CallsConsistent, CallConsistent, LockedLocations
  <2>4. SlotsConsistent'
    BY <1>1, ConstantsAssumption DEF SlotsConsistent, Published
  <2> QED BY <2>2, <2>3, <2>4
<1>6. RefCountsHolders'
  BY <1>1, <1>2 DEF RefCountsHolders, Holders, clients
<1>7. HoldersAreBusy' /\ HandlesAreSound'
  BY <1>1, <1>2, <1>3, ValueTypes DEF HoldersAreBusy, HandlesAreSound, HandlesConsistent, HeldAnswersRequest,
      HandleIsCurrent, CallTarget, Answers, clients, TypeOK
<1>8. UniqueNames' /\ AtMostOneDefault'
  BY <1>1 DEF UniqueNames, AtMostOneDefault
<1> QED BY <1>4, <1>5, <1>6, <1>7, <1>8 DEF IInv

LEMMA InitDoneInv ==
  ASSUME IInv, InitDone
  PROVE  IInv'
<1>1. phase = "init" /\ phase' = "up" /\ UNCHANGED <<table, lock, registry, pc, call, clients>>
  BY DEF InitDone
<1> USE <1>1 DEF IInv, table, clients
<1>2. TypeOK' /\ LockOwner' /\ SlotsConsistent'
  BY DEF TypeOK, LockOwner, SlotsConsistent, Published
<1>3. CallsConsistent'
  BY DEF CallsConsistent, CallConsistent, NoOtherDefault, Published
<1>4. RefCountsHolders' /\ UniqueNames' /\ AtMostOneDefault'
  BY DEF RefCountsHolders, Holders, UniqueNames, AtMostOneDefault
<1>5. HoldersAreBusy' /\ HandlesAreSound'
  BY DEF HoldersAreBusy, HandlesAreSound, HandlesConsistent, HandleIsCurrent, HeldAnswersRequest, CallTarget, Answers
<1> QED BY <1>2, <1>3, <1>4, <1>5

LEMMA CrashInv ==
  ASSUME IInv, Crash
  PROVE  IInv'
<1>1. TypeOK'
  BY ValueTypes DEF IInv, TypeOK, Crash, Locations
<1>2. LockOwner' /\ CallsConsistent' /\ SlotsConsistent'
  BY ConstantsAssumption, ValueTypes DEF Crash, LockOwner, CallsConsistent, CallConsistent,
      SlotsConsistent, Published, LockedLocations
<1>3. \A s \in Slots : Holders(s)' = {}
  BY DEF Crash, Holders
<1>4. RefCountsHolders'
  BY <1>3 DEF Crash, RefCountsHolders
<1>5. HoldersAreBusy' /\ HandlesAreSound'
  BY ValueTypes DEF Crash, HoldersAreBusy, AllIdle, LockFree, HandlesAreSound, HandlesConsistent,
      HeldAnswersRequest, HandleIsCurrent, CallTarget, Answers
<1>6. UniqueNames' /\ AtMostOneDefault'
  BY DEF Crash, UniqueNames, AtMostOneDefault
<1> QED BY <1>1, <1>2, <1>4, <1>5, <1>6 DEF IInv

\* az_ulib_ipc_deinit goes ahead only when nobody is inside the IPC or holds an
\* interface: a slot of the IPC's own interfaces has ref_count = 1, the others
\* are empty.
LEMMA DeinitInv ==
  ASSUME IInv, deinit
  PROVE  IInv'
<1>1. /\ MayDeinit /\ AllIdle /\ phase' = "deinit"
      /\ \A s \in Slots : ref_count[s] = 1 \/ descriptor[s] = NoDescriptor
      /\ UNCHANGED <<table, lock, registry, pc, call, clients>>
  BY DEF deinit
<1>2. \A s \in Slots : Holders(s) = {}
  <2> SUFFICES ASSUME NEW s \in Slots PROVE Holders(s) = {}
    OBVIOUS
  <2>1. CASE ref_count[s] = 1
    <3>1. 1 = 1 + Cardinality(Holders(s))
      BY <2>1 DEF IInv, RefCountsHolders
    <3>2. Cardinality(Holders(s)) = 0
      BY <3>1, HoldersFinite
    <3> QED BY <3>2, HoldersFinite, FS_EmptySet
  <2>2. CASE descriptor[s] = NoDescriptor
    <3>1. ref_count[s] = 0
      BY <2>2 DEF IInv, TypeOK, SlotsConsistent, Published
    <3> QED BY <3>1 DEF IInv, RefCountsHolders
  <2> QED BY <1>1, <2>1, <2>2
<1>3. HoldersAreBusy' /\ HandlesAreSound'
  BY <1>1, <1>2 DEF IInv, HoldersAreBusy, AllIdle, LockFree, Holders, clients, HandlesAreSound
<1> USE <1>1 DEF IInv, table, clients
<1>4. TypeOK' /\ LockOwner' /\ SlotsConsistent'
  BY DEF TypeOK, LockOwner, SlotsConsistent, Published
<1>5. CallsConsistent'
  BY DEF CallsConsistent, CallConsistent, NoOtherDefault, Published
<1>6. RefCountsHolders' /\ UniqueNames' /\ AtMostOneDefault'
  BY DEF RefCountsHolders, Holders, UniqueNames, AtMostOneDefault
<1> QED BY <1>3, <1>4, <1>5, <1>6

LEMMA UnpublishOwnedInv ==
  ASSUME IInv, unpublish_ipc_owned_interfaces, MayDeinit
  PROVE  IInv'
<1>1. /\ phase = "deinit" /\ phase' \in {"deinit", "down"}
      /\ UNCHANGED <<hash, flags, publish_count, lock, pc, call, clients>>
  BY DEF unpublish_ipc_owned_interfaces
<1>2. TypeOK /\ AllIdle /\ \A c \in Clients : ~holding[c]
  BY <1>1 DEF IInv, HoldersAreBusy
<1>3. HoldersAreBusy' /\ HandlesAreSound'
  BY <1>1, <1>2 DEF HoldersAreBusy, AllIdle, LockFree, HandlesAreSound, clients
<1>4. LockOwner' /\ CallsConsistent'
  BY <1>1, <1>2 DEF IInv, LockOwner, CallsConsistent, CallConsistent, AllIdle, LockedLocations
<1>5. CASE UNCHANGED <<registry, descriptor, ref_count>>
  <2>1. TypeOK' /\ SlotsConsistent'
    BY <1>1, <1>2, <1>5 DEF TypeOK, IInv, SlotsConsistent, Published, clients
  <2>2. RefCountsHolders' /\ UniqueNames' /\ AtMostOneDefault'
    BY <1>1, <1>5 DEF IInv, RefCountsHolders, Holders, UniqueNames, AtMostOneDefault, clients
  <2> QED BY <1>3, <1>4, <2>1, <2>2 DEF IInv
<1>6. ASSUME NEW i \in OwnedPublished,
             RegistryWrite(NameOf(Owned[i]), "absent"),
             Remove(find_interface_descriptor(Owned[i])),
             UNCHANGED phase
      PROVE  IInv'
  <2> DEFINE s == find_interface_descriptor(Owned[i])
  <2>1. s \in Slots /\ descriptor[s] = Owned[i] /\ Owned[i] \in Descriptors
    BY FindDescriptorFinds, ConstantsAssumption DEF OwnedPublished, OwnedSet
  <2> HIDE DEF s
  <2>2. LockFree /\ \A c \in Clients : Holders(c) = {}
    BY <1>2 DEF AllIdle, Holders
  <2>3. ref_count[s] = 1
    <3>1. ref_count[s] > 0
      BY <2>1, <2>2, OutsideLock, ConstantsAssumption
    <3>2. Cardinality(Holders(s)) = 0
      BY <1>2, FS_EmptySet DEF Holders
    <3>3. ref_count[s] # 0 => ref_count[s] = 1 + Cardinality(Holders(s))
      BY <2>1 DEF IInv, RefCountsHolders
    <3> QED BY <3>1, <3>2, <3>3
  <2>4. /\ descriptor' = [descriptor EXCEPT ![s] = NoDescriptor]
        /\ ref_count' = [ref_count EXCEPT ![s] = 0]
        /\ registry' = [registry EXCEPT ![NameOf(Owned[i])] = "absent"]
    BY <1>6 DEF Remove, RegistryWrite, s
  <2>5. TypeOK'
    BY <1>1, <1>2, <1>6, <2>1, <2>4 DEF TypeOK, clients
  <2>6. SlotsConsistent' /\ RefCountsHolders' /\ HandlesAreSound' /\ UniqueNames' /\ AtMostOneDefault'
    BY <1>1, <1>6, <2>1, <2>2, <2>3, <2>4, RemoveInv
  <2> QED BY <1>3, <1>4, <2>5, <2>6 DEF IInv
<1> QED BY <1>5, <1>6 DEF unpublish_ipc_owned_interfaces, RegistryFailure

LEMMA DeinitDoneInv ==
  ASSUME IInv, DeinitDone, MayDeinit
  PROVE  IInv'
<1>1. /\ phase = "deinit" /\ phase' = "down"
      /\ UNCHANGED <<table, lock, registry, pc, call, clients>>
  BY DEF DeinitDone
<1> USE <1>1 DEF IInv, table, clients
<1>2. TypeOK' /\ LockOwner' /\ SlotsConsistent'
  BY DEF TypeOK, LockOwner, SlotsConsistent, Published
<1>3. CallsConsistent'
  BY DEF CallsConsistent, CallConsistent, NoOtherDefault, Published
<1>4. RefCountsHolders' /\ UniqueNames' /\ AtMostOneDefault'
  BY DEF RefCountsHolders, Holders, UniqueNames, AtMostOneDefault
<1>5. HoldersAreBusy' /\ HandlesAreSound'
  BY DEF HoldersAreBusy, AllIdle, LockFree, HandlesAreSound
<1> QED BY <1>2, <1>3, <1>4, <1>5

-----------------------------------------------------------------------------
(***************************************************************************)
(* The theorems.  That a handle is sound is true of an IPC that is not     *)
(* de-initialized only: after az_ulib_ipc_deinit and a second              *)
(* az_ulib_ipc_init the hashes start over, and a handle of the first life  *)
(* can pass for one of the second.                                         *)
(***************************************************************************)

\* Every step preserves the inductive invariant.
LEMMA NextInv ==
  ASSUME IInv, [Next]_vars
  PROVE  IInv'
<1>1. CASE UNCHANGED vars
  BY <1>1, StutterInv
<1>2. ASSUME NEW t \in Threads, ThreadCall(t)
      PROVE  IInv'
  <2>1. ASSUME NEW d \in PublishedByUser, az_ulib_ipc_publish(t, d)
        PROVE  IInv'
    BY <2>1, PublishInv, ConstantsAssumption DEF az_ulib_ipc_publish
  <2>2. ASSUME NEW d \in PublishedByUser, NEW w \in WaitOptions, FindToUnpublish(t, d, w)
        PROVE  IInv'
    BY <2>2, FindToUnpublishInv, ConstantsAssumption
  <2>3. ASSUME NEW name, set_default(t, name)
        PROVE  IInv'
    BY <2>3, SetDefaultInv
  <2>4. CASE publish_ipc_owned_interfaces(t)
    <3>1. PICK i \in DOMAIN Owned : Publish(t, Owned[i]) /\ phase = "init"
      BY <2>4 DEF publish_ipc_owned_interfaces
    <3>2. Owned[i] \in Descriptors
      BY ConstantsAssumption DEF OwnedSet
    <3> QED BY <3>1, <3>2, PublishInv
  <2> QED BY <1>2, <2>1, <2>2, <2>3, <2>4 DEF ThreadCall
<1>3. ASSUME NEW t \in Threads, ThreadStep(t)
      PROVE  IInv'
  BY <1>3, NestedAcquireInv, UpdateOldInv, AddOldInv, MarkNewInv, AddNewInv, PollInv DEF ThreadStep
<1>4. ASSUME NEW c \in Clients, try_get_interface(c) \/ release_interface(c)
      PROVE  IInv'
  BY <1>4, TryGetInv, ReleaseInv
<1>5. CASE ipc_init \/ InitDone \/ Crash
  BY <1>5, IpcInitInv, InitDoneInv, CrashInv
<1>6. CASE deinit
  BY <1>6, DeinitInv
<1>7. CASE unpublish_ipc_owned_interfaces \/ DeinitDone
  <2>1. MayDeinit
    BY <1>7 DEF unpublish_ipc_owned_interfaces, DeinitDone, IInv, HandlesAreSound, HandlesConsistent
  <2> QED BY <1>7, <2>1, UnpublishOwnedInv, DeinitDoneInv
<1> QED BY <1>1, <1>2, <1>3, <1>4, <1>5, <1>6, <1>7 DEF Next

\* The inductive invariant holds in every reachable state, whatever the numbers
\* of threads, clients, slots and instances, with power cycles, flash
\* errors, and de-initializations.
THEOREM InductiveInvariant == Spec => []IInv
<1>1. Init => IInv
  BY InitInv
<1>2. IInv /\ [Next]_vars => IInv'
  BY NextInv
<1> QED BY <1>1, <1>2, PTL DEF Spec

\* Every variable of the control block keeps its type, ref_count included: it
\* never goes below zero.
THEOREM TypeCorrect == Spec => []TypeOK
<1>1. IInv => TypeOK
  BY DEF IInv
<1> QED BY <1>1, InductiveInvariant, PTL

\* ref_count counts the clients that hold the interface: az_ulib_ipc_unpublish
\* never takes a slot away from a client.
THEOREM RefCountCorrect == Spec => []RefCountsHolders
<1>1. IInv => RefCountsHolders
  BY DEF IInv
<1> QED BY <1>1, InductiveInvariant, PTL

\* The handle of a client leads to an interface of the name the client asked
\* for, however its slot was reused in the meantime.
THEOREM HandlesAnswerRequests == ASSUME ~MayDeinit PROVE Spec => []HeldAnswersRequest
<1>1. IInv => HeldAnswersRequest
  BY DEF IInv, HandlesAreSound
<1> QED BY <1>1, InductiveInvariant, PTL

\* A name leads to one interface, also while publish is half done.
THEOREM NamesAreUnique == Spec => []UniqueNames
<1>1. IInv => UniqueNames
  BY DEF IInv
<1> QED BY <1>1, InductiveInvariant, PTL

\* A family has one default at most, at every step of set_default and whatever
\* a power cycle or a flash error leaves of it.
THEOREM DefaultsAreUnique == Spec => []AtMostOneDefault
<1>1. IInv => AtMostOneDefault
  BY DEF IInv
<1> QED BY <1>1, InductiveInvariant, PTL

\* No more than MAX_IPC_INSTANCES clients hold an interface at once.
THEOREM InstancesAreLimited == Spec => []InstanceLimit
<1>1. ASSUME IInv PROVE InstanceLimit
  <2> SUFFICES ASSUME NEW s \in Slots PROVE Cardinality(Holders(s)) <= MaxInstances
    BY DEF InstanceLimit
  <2>1. IF ref_count[s] = 0 THEN Holders(s) = {} ELSE ref_count[s] = 1 + Cardinality(Holders(s))
    BY <1>1 DEF IInv, RefCountsHolders
  <2>2. ref_count[s] <= MaxInstances + 1
    BY <1>1 DEF IInv, SlotsConsistent
  <2>3. Cardinality({}) = 0
    BY FS_EmptySet
  <2>4. Cardinality(Holders(s)) \in Nat /\ MaxInstances \in Nat
    BY HoldersFinite, ConstantsAssumption
  <2>5. CASE ref_count[s] = 0
    BY <2>1, <2>3, <2>4, <2>5
  <2>6. CASE ref_count[s] # 0
    BY <2>1, <2>2, <2>4, <2>6
  <2> QED BY <2>5, <2>6
<1> QED BY <1>1, InductiveInvariant, PTL

-----------------------------------------------------------------------------
(***************************************************************************)
(* The IPC implements InterfaceDirectory: every step publishes, withdraws, *)
(* acquires or releases one interface, empties the directory, or leaves    *)
(* what its users can see as it was.                                       *)
(***************************************************************************)

\* A step of the directory, or none.
DirectoryStep == [Directory!Next]_(Directory!vars)

-----------------------------------------------------------------------------
(***************************************************************************)
(* What the directory's variables are.                                     *)
(***************************************************************************)

\* A descriptor is in the directory exactly while a slot is published with it.
LEMMA PublishedMembers ==
  /\ \A d : d \in PublishedDescriptors <=> \E s \in Slots : ref_count[s] > 0 /\ descriptor[s] = d
  /\ \A d : d \in PublishedDescriptors' <=> \E s \in Slots : ref_count'[s] > 0 /\ descriptor'[s] = d
BY DEF PublishedDescriptors, Published

\* Two slots in use have different descriptors, because they have different names.
LEMMA DescriptorsAreUnique ==
  ASSUME IInv, NEW s1 \in Slots, NEW s2 \in Slots,
         descriptor[s1] = descriptor[s2], descriptor[s1] # NoDescriptor
  PROVE  s1 = s2
BY DEF IInv, UniqueNames

\* A client in the directory's books holds a published interface.
LEMMA HolderFacts ==
  ASSUME IInv, NEW c \in Clients, holding[c]
  PROVE  /\ handle[c].slot \in Slots
         /\ ref_count[handle[c].slot] > 0
         /\ CallTarget(c) \in Descriptors
         /\ CallTarget(c) # NoDescriptor
<1> DEFINE s == handle[c].slot
<1>1. s \in Slots /\ c \in Holders(s)
  BY DEF IInv, HoldersAreBusy, Holders
<1> HIDE DEF s
<1>2. ref_count[s] # 0 /\ ref_count[s] \in Nat
  BY <1>1 DEF IInv, RefCountsHolders, TypeOK
<1>3. descriptor[s] # NoDescriptor /\ descriptor[s] \in Descriptors \cup {NoDescriptor}
  BY <1>1, <1>2 DEF IInv, SlotsConsistent, Published, TypeOK
<1> QED BY <1>1, <1>2, <1>3, ConstantsAssumption DEF CallTarget, s

\* Nothing changes for the users when no slot changes hands.
LEMMA DirectoryStutters ==
  ASSUME IInv, UNCHANGED clients,
         \A s \in Slots : ref_count'[s] > 0 <=> ref_count[s] > 0,
         \A s \in Slots : ref_count[s] > 0 => descriptor'[s] = descriptor[s]
  PROVE  UNCHANGED <<PublishedDescriptors, Users>>
<1>1. PublishedDescriptors' = PublishedDescriptors
  BY PublishedMembers
<1>2. ASSUME NEW c \in Clients, holding[c]
      PROVE  CallTarget(c)' = CallTarget(c)
  BY <1>2, HolderFacts DEF CallTarget, clients
<1>3. Users' = Users
  BY <1>2 DEF Users, clients
<1> QED BY <1>1, <1>3

\* Slot s comes into use with a name no other slot has: d is published.
LEMMA DirectoryPublishes ==
  ASSUME IInv, UNCHANGED clients, NEW s \in Slots, NEW d \in Descriptors,
         ref_count[s] = 0, ref_count'[s] = 1, descriptor'[s] = d,
         \A x \in Slots \ {s} : ref_count'[x] = ref_count[x] /\ descriptor'[x] = descriptor[x],
         UniqueNames'
  PROVE  Directory!Publish(d)
<1>1. d # NoDescriptor
  BY ConstantsAssumption
<1>2. PublishedDescriptors' = PublishedDescriptors \cup {d}
  <2>1. ASSUME NEW e PROVE e \in PublishedDescriptors' <=> e \in PublishedDescriptors \/ e = d
    BY PublishedMembers
  <2> QED BY <2>1
<1>3. ASSUME NEW e \in PublishedDescriptors
      PROVE  ~(Family[d] = Family[e] /\ Version[d] = Version[e])
  <2>1. PICK x \in Slots : ref_count[x] > 0 /\ descriptor[x] = e
    BY PublishedMembers
  <2>2. x # s /\ descriptor'[x] = e /\ e # NoDescriptor
    BY <2>1 DEF IInv, SlotsConsistent, Published
  <2>3. NameOf(e) # NameOf(d)
    BY <1>1, <2>2 DEF UniqueNames
  <2> QED BY <2>3 DEF NameOf
<1>4. Users' = Users
  <2>1. ASSUME NEW c \in Clients, holding[c]
        PROVE  CallTarget(c)' = CallTarget(c)
    BY <2>1, HolderFacts DEF CallTarget, clients
  <2> QED BY <2>1 DEF Users, clients
<1> QED BY <1>2, <1>3, <1>4 DEF Directory!Publish, Directory!SameName

\* An unused slot is given back: its descriptor is withdrawn.
LEMMA DirectoryWithdraws ==
  ASSUME IInv, UNCHANGED clients, NEW s \in Slots, ref_count[s] = 1,
         descriptor' = [descriptor EXCEPT ![s] = NoDescriptor],
         ref_count' = [ref_count EXCEPT ![s] = 0]
  PROVE  /\ descriptor[s] \in Descriptors
         /\ Directory!Withdraw(descriptor[s])
<1> DEFINE d == descriptor[s]
<1>1. /\ descriptor \in [Slots -> Descriptors \cup {NoDescriptor}]
      /\ ref_count \in [Slots -> Nat]
      /\ d # NoDescriptor
  BY DEF IInv, TypeOK, SlotsConsistent, Published
<1>2. Holders(s) = {}
  <2>1. 1 = 1 + Cardinality(Holders(s))
    BY DEF IInv, RefCountsHolders
  <2>2. Cardinality(Holders(s)) = 0
    BY <2>1, HoldersFinite
  <2> QED BY <2>2, HoldersFinite, FS_EmptySet
<1>3. d \in PublishedDescriptors
  BY PublishedMembers
<1>4. ASSUME NEW c \in Clients PROVE Users[c] # d
  <2>1. CASE holding[c]
    <3>1. handle[c].slot \in Slots \ {s} /\ Users[c] = descriptor[handle[c].slot]
      BY <1>2, <2>1, HolderFacts DEF Holders, Users, CallTarget
    <3> QED BY <1>1, <3>1, DescriptorsAreUnique
  <2>2. CASE ~holding[c]
    BY <1>1, <2>2 DEF Users
  <2> QED BY <2>1, <2>2
<1>5. PublishedDescriptors' = PublishedDescriptors \ {d}
  <2>1. ASSUME NEW e PROVE e \in PublishedDescriptors' <=> e \in PublishedDescriptors /\ e # d
    <3>1. ASSUME NEW x \in Slots, ref_count'[x] > 0, descriptor'[x] = e
          PROVE  x # s /\ ref_count[x] > 0 /\ descriptor[x] = e /\ e # d
      <4>1. x # s /\ ref_count[x] > 0 /\ descriptor[x] = e
        BY <1>1, <3>1
      <4> QED BY <1>1, <4>1, DescriptorsAreUnique
    <3>2. ASSUME NEW x \in Slots, ref_count[x] > 0, descriptor[x] = e, e # d
          PROVE  ref_count'[x] > 0 /\ descriptor'[x] = e
      BY <1>1, <3>2
    <3> QED BY <3>1, <3>2, PublishedMembers
  <2> QED BY <2>1
<1>6. Users' = Users
  <2>1. ASSUME NEW c \in Clients, holding[c]
        PROVE  CallTarget(c)' = CallTarget(c)
    <3>1. handle[c].slot \in Slots \ {s}
      BY <1>2, <2>1, HolderFacts DEF Holders
    <3> QED BY <1>1, <3>1 DEF CallTarget, clients
  <2> QED BY <2>1 DEF Users, clients
<1>7. d \in Descriptors
  BY <1>1
<1> QED BY <1>3, <1>4, <1>5, <1>6, <1>7 DEF Directory!Withdraw

\* The steps of a directory.
LEMMA DirectorySteps ==
  /\ UNCHANGED <<PublishedDescriptors, Users>> => DirectoryStep
  /\ \A d \in Descriptors : Directory!Publish(d) \/ Directory!Withdraw(d) => DirectoryStep
  /\ \A c \in Clients : Directory!Release(c) => DirectoryStep
  /\ \A c \in Clients, d \in Descriptors : Directory!Acquire(c, d) => DirectoryStep
  /\ Directory!PowerCycle => DirectoryStep
BY DEF DirectoryStep, Directory!Next, Directory!vars

-----------------------------------------------------------------------------
(***************************************************************************)
(* One lemma per action that changes what the users see.                   *)
(***************************************************************************)

\* The end of a critical section publishes the interface of a nested
\* az_ulib_ipc_set_default, or nothing.
LEMMA ReturnDirectory ==
  ASSUME IInv, UniqueNames', NEW t \in Threads, pc[t] \in LockedLocations, Return(t),
         UNCHANGED <<descriptor, clients>>
  PROVE  DirectoryStep
<1> DEFINE s == call[t].slot
           d == call[t].desc
<1>1. /\ s \in Slots /\ d \in Descriptors \cup {NoDescriptor}
      /\ d # NoDescriptor => ref_count[s] = 0 /\ descriptor[s] = d
      /\ ref_count \in [Slots -> Nat]
  BY InsideLock DEF IInv, TypeOK
<1>2. CASE d = NoDescriptor
  <2>1. UNCHANGED ref_count
    BY <1>2 DEF Return
  <2>2. UNCHANGED <<PublishedDescriptors, Users>>
    BY <2>1, DirectoryStutters
  <2> QED BY <2>2, DirectorySteps
<1>3. CASE d # NoDescriptor
  <2>1. ref_count' = [ref_count EXCEPT ![s] = 1]
    BY <1>3 DEF Return
  <2> HIDE DEF s, d
  <2>2. d \in Descriptors /\ ref_count[s] = 0 /\ ref_count'[s] = 1 /\ descriptor'[s] = d
    BY <1>1, <1>3, <2>1
  <2>3. \A x \in Slots \ {s} : ref_count'[x] = ref_count[x] /\ descriptor'[x] = descriptor[x]
    BY <1>1, <2>1
  <2>4. Directory!Publish(d)
    BY <1>1, <2>2, <2>3, DirectoryPublishes
  <2> QED BY <2>2, <2>4, DirectorySteps
<1> QED BY <1>2, <1>3

\* A step inside az_ulib_ipc_set_default.
LEMMA CriticalDirectory ==
  ASSUME IInv, UniqueNames', NEW t \in Threads,
         UpdateOld(t) \/ AddOld(t) \/ MarkNew(t) \/ AddNew(t)
  PROVE  DirectoryStep
<1>1. pc[t] \in LockedLocations /\ UNCHANGED <<descriptor, clients>>
  BY DEF UpdateOld, AddOld, MarkNew, AddNew, InCriticalSection, LockedLocations, Locations
<1>2. CASE Return(t)
  BY <1>1, <1>2, ReturnDirectory
<1>3. CASE UNCHANGED ref_count
  BY <1>1, <1>3, DirectoryStutters, DirectorySteps
<1> QED BY <1>2, <1>3 DEF UpdateOld, AddOld, MarkNew, AddNew

\* Taking the default away from an interface is nothing a user sees.
LEMMA ChangeDefaultDirectory ==
  ASSUME IInv, NEW t \in Threads,
         NestedAcquire(t) \/ SetsDefault(t)
  PROVE  DirectoryStep
<1>1. UNCHANGED <<descriptor, ref_count, clients>>
  BY DEF NestedAcquire, SetsDefault, set_default, ChangeDefault, vars, table
<1> QED BY <1>1, DirectoryStutters, DirectorySteps

LEMMA PublishDirectory ==
  ASSUME IInv, UniqueNames', NEW t \in Threads, NEW d \in Descriptors, Publish(t, d)
  PROVE  DirectoryStep
<1> DEFINE s == get_first_free
<1>1. CASE UNCHANGED vars
  BY <1>1, DirectoryStutters, DirectorySteps DEF vars, table
<1>2. CASE /\ s # NoSlot
           /\ descriptor' = [descriptor EXCEPT ![s] = d]
           /\ UNCHANGED clients
           /\ UNCHANGED ref_count \/ ref_count' = [ref_count EXCEPT ![s] = 1]
  <2>1. /\ s \in Slots /\ ref_count[s] = 0 /\ ref_count \in [Slots -> Nat]
        /\ descriptor \in [Slots -> Descriptors \cup {NoDescriptor}]
    BY <1>2, FreeSlotIsFree DEF IInv, TypeOK
  <2> HIDE DEF s
  <2>2. descriptor'[s] = d /\ \A x \in Slots \ {s} : descriptor'[x] = descriptor[x]
    BY <1>2, <2>1
  <2>3. CASE UNCHANGED ref_count
    BY <1>2, <2>1, <2>2, <2>3, DirectoryStutters, DirectorySteps
  <2>4. CASE ref_count' = [ref_count EXCEPT ![s] = 1]
    <3>1. ref_count'[s] = 1 /\ \A x \in Slots \ {s} : ref_count'[x] = ref_count[x]
      BY <2>1, <2>4
    <3>2. Directory!Publish(d)
      BY <1>2, <2>1, <2>2, <3>1, DirectoryPublishes
    <3> QED BY <3>2, DirectorySteps
  <2> QED BY <1>2, <2>3, <2>4
<1> QED BY <1>1, <1>2 DEF Publish

LEMMA PollDirectory ==
  ASSUME IInv, NEW t \in Threads, Poll(t)
  PROVE  DirectoryStep
<1> DEFINE s == call[t].slot
<1>1. s \in Slots /\ UNCHANGED clients
  BY DEF Poll, IInv, CallsConsistent, CallConsistent
<1>2. CASE UNCHANGED <<descriptor, ref_count>>
  BY <1>1, <1>2, DirectoryStutters, DirectorySteps
<1>3. CASE Unused(s) /\ Remove(s)
  <2>1. descriptor[s] \in Descriptors /\ Directory!Withdraw(descriptor[s])
    BY <1>1, <1>3, DirectoryWithdraws DEF Unused, Remove
  <2> QED BY <2>1, DirectorySteps
<1> QED BY <1>2, <1>3 DEF Poll, table

LEMMA TryGetDirectory ==
  ASSUME IInv, IInv', ~MayDeinit, NEW c \in Clients, try_get_interface(c)
  PROVE  DirectoryStep
<1> DEFINE s == SlotFor(c)
           d == descriptor[s]
<1>1. CASE UNCHANGED <<ref_count, clients>>
  <2>1. UNCHANGED descriptor
    BY DEF try_get_interface
  <2> QED BY <1>1, <2>1, DirectoryStutters, DirectorySteps
<1>2. CASE /\ TryGetResult(c) = "AZ_OK"
           /\ ref_count' = [ref_count EXCEPT ![s] = @ + 1]
           /\ handle' = [handle EXCEPT ![c] = [slot |-> s, hash |-> hash[s]]]
           /\ holding' = [holding EXCEPT ![c] = TRUE]
  <2>1. /\ ~holding[c] /\ UNCHANGED descriptor
        /\ holding \in [Clients -> BOOLEAN] /\ handle \in [Clients -> Handles]
        /\ ref_count \in [Slots -> Nat]
    BY DEF try_get_interface, IInv, TypeOK
  <2>2. /\ holding'[c] /\ handle'[c].slot = s
        /\ \A x \in Clients \ {c} : holding'[x] = holding[x] /\ handle'[x] = handle[x]
    BY <1>2, <2>1
  <2>3. s \in Slots
    BY <2>2 DEF IInv, HoldersAreBusy
  <2>4. ref_count[s] > 0
    <3>1. ~(ref_count[s] < 1)
      BY <1>2 DEF TryGetResult, try_lock_interface
    <3> QED BY <2>1, <2>3, <3>1
  <2>5. Answers(Request[c], d)
    BY <2>1, <2>2 DEF IInv, HandlesAreSound, HeldAnswersRequest, CallTarget, Answers
  <2>6. d \in PublishedDescriptors /\ d \in Descriptors
    <3>1. d \in Descriptors \cup {NoDescriptor} /\ d # NoDescriptor
      BY <2>3, <2>5 DEF IInv, TypeOK, Answers
    <3> QED BY <2>3, <2>4, <3>1, PublishedMembers
  <2> HIDE DEF s
  <2>7. \A x \in Slots : ref_count'[x] > 0 <=> ref_count[x] > 0
    BY <1>2, <2>1, <2>3, <2>4
  <2>8. PublishedDescriptors' = PublishedDescriptors
    BY <2>1, <2>7, PublishedMembers
  <2>9. Users[c] = NoDescriptor
    BY <2>1 DEF Users
  <2>10. Users' = [Users EXCEPT ![c] = d]
    BY <2>1, <2>2 DEF Users, CallTarget
  <2>11. Directory!Acquire(c, d)
    BY <2>5, <2>6, <2>8, <2>9, <2>10 DEF Directory!Acquire, Directory!Fits, Directory!AnyVersion, Answers, AnyVersion
  <2> QED BY <2>6, <2>11, DirectorySteps
<1> QED BY <1>1, <1>2 DEF try_get_interface

LEMMA ReleaseDirectory ==
  ASSUME IInv, IInv', NEW c \in Clients, release_interface(c)
  PROVE  DirectoryStep
<1> DEFINE s == handle[c].slot
<1>1. /\ holding[c] /\ UNCHANGED <<descriptor, handle>>
      /\ ref_count' = [ref_count EXCEPT ![s] = @ - 1]
      /\ holding' = [holding EXCEPT ![c] = FALSE]
      /\ holding \in [Clients -> BOOLEAN] /\ ref_count \in [Slots -> Nat]
  BY DEF release_interface, IInv, TypeOK
<1>2. s \in Slots /\ c \in Holders(s) /\ CallTarget(c) # NoDescriptor
  BY <1>1, HolderFacts DEF Holders
<1> HIDE DEF s
<1>3. ref_count[s] > 1
  <2>1. ref_count[s] = 1 + Cardinality(Holders(s)) /\ Cardinality(Holders(s)) # 0
    BY <1>2, HoldersFinite, FS_EmptySet DEF IInv, RefCountsHolders
  <2> QED BY <2>1, HoldersFinite
<1>4. \A x \in Slots : ref_count'[x] > 0 <=> ref_count[x] > 0
  BY <1>1, <1>2, <1>3
<1>5. PublishedDescriptors' = PublishedDescriptors
  <2>1. \A d : d \in PublishedDescriptors' <=> d \in PublishedDescriptors
    BY <1>1, <1>4, PublishedMembers
  <2> QED BY <2>1
<1>6. Users[c] # NoDescriptor /\ Users' = [Users EXCEPT ![c] = NoDescriptor]
  BY <1>1, <1>2 DEF Users, CallTarget
<1>7. Directory!Release(c)
  BY <1>5, <1>6 DEF Directory!Release
<1> QED BY <1>7, DirectorySteps

LEMMA CrashDirectory ==
  ASSUME Crash
  PROVE  DirectoryStep
<1>1. PublishedDescriptors' = {}
  BY PublishedMembers DEF Crash
<1>2. Users' = [c \in Clients |-> NoDescriptor]
  BY DEF Crash, Users
<1> QED BY <1>1, <1>2, DirectorySteps DEF Directory!PowerCycle

\* az_ulib_ipc_init starts from an empty table.
LEMMA IpcInitDirectory ==
  ASSUME IInv, ~MayDeinit, ipc_init
  PROVE  DirectoryStep
<1>1. /\ \A s \in Slots : ~(ref_count[s] > 0) /\ ~(ref_count'[s] > 0)
      /\ UNCHANGED clients
  BY DEF ipc_init, IInv, HandlesAreSound, HandlesConsistent, SlotsConsistent, Published
<1> QED BY <1>1, DirectoryStutters, DirectorySteps

-----------------------------------------------------------------------------
\* Every step of the IPC is a step of the directory, or none.
LEMMA NextDirectory ==
  ASSUME IInv, IInv', ~MayDeinit, [Next]_vars
  PROVE  DirectoryStep
<1>1. CASE UNCHANGED vars
  BY <1>1, DirectoryStutters, DirectorySteps DEF vars, table
<1>2. ASSUME NEW t \in Threads, ThreadCall(t)
      PROVE  DirectoryStep
  <2>1. ASSUME NEW d \in PublishedByUser, az_ulib_ipc_publish(t, d)
        PROVE  DirectoryStep
    BY <2>1, PublishDirectory, ConstantsAssumption DEF az_ulib_ipc_publish, IInv
  <2>2. ASSUME NEW d \in PublishedByUser, NEW w \in WaitOptions, FindToUnpublish(t, d, w)
        PROVE  DirectoryStep
    BY <2>2, DirectoryStutters, DirectorySteps DEF FindToUnpublish, table
  <2>3. ASSUME NEW name, set_default(t, name)
        PROVE  DirectoryStep
    BY <2>3, ChangeDefaultDirectory DEF SetsDefault
  <2>4. CASE publish_ipc_owned_interfaces(t)
    <3>1. PICK i \in DOMAIN Owned : Publish(t, Owned[i])
      BY <2>4 DEF publish_ipc_owned_interfaces
    <3>2. Owned[i] \in Descriptors /\ UniqueNames'
      BY ConstantsAssumption DEF OwnedSet, IInv
    <3> QED BY <3>1, <3>2, PublishDirectory
  <2> QED BY <1>2, <2>1, <2>2, <2>3, <2>4 DEF ThreadCall
<1>3. ASSUME NEW t \in Threads, ThreadStep(t)
      PROVE  DirectoryStep
  BY <1>3, CriticalDirectory, ChangeDefaultDirectory, PollDirectory DEF ThreadStep, IInv
<1>4. ASSUME NEW c \in Clients, try_get_interface(c) \/ release_interface(c)
      PROVE  DirectoryStep
  BY <1>4, TryGetDirectory, ReleaseDirectory
<1>5. CASE ipc_init \/ Crash
  BY <1>5, IpcInitDirectory, CrashDirectory
<1>6. CASE InitDone
  BY <1>6, DirectoryStutters, DirectorySteps DEF InitDone, table
<1>7. CASE deinit \/ unpublish_ipc_owned_interfaces \/ DeinitDone
  BY <1>7 DEF deinit, unpublish_ipc_owned_interfaces, DeinitDone, IInv, HandlesAreSound, HandlesConsistent
<1> QED BY <1>1, <1>2, <1>3, <1>4, <1>5, <1>6, <1>7 DEF Next

\* The IPC is a directory of interfaces: names are published at most once, a
\* client gets an interface that answers its request, and az_ulib_ipc_unpublish
\* withdraws no interface that is in use.
THEOREM ImplementsDirectory == ASSUME ~MayDeinit PROVE Spec => DirectorySpec
<1>1. Init => Directory!Init
  <2> SUFFICES ASSUME Init PROVE Directory!Init
    OBVIOUS
  <2>1. PublishedDescriptors = {}
    BY PublishedMembers DEF Init
  <2>2. Users = [c \in Clients |-> NoDescriptor]
    BY DEF Init, Users
  <2> QED BY <2>1, <2>2 DEF Directory!Init
<1>2. IInv /\ IInv' /\ [Next]_vars => [Directory!Next]_(Directory!vars)
  BY NextDirectory DEF DirectoryStep
<1> QED BY <1>1, <1>2, InductiveInvariant, PTL DEF Spec, DirectorySpec, Directory!Spec
=============================================================================
