--------------------------- MODULE IpcQueryProofs ---------------------------
(***************************************************************************)
(* What IpcQuery adds to the IPC leaves its promises alone, a listing is   *)
(* complete however the table changes between its pages, and the names in  *)
(* it lead the interface manager back to the interfaces.                   *)
(***************************************************************************)
EXTENDS IpcQuery, IpcRegistryProofs, SequenceTheorems

-----------------------------------------------------------------------------
(***************************************************************************)
(* The IPC below: a step of IpcQuery is a step of Ipc, a set_default of    *)
(* some name, or reads the table only.                                     *)
(***************************************************************************)
IpcStep == [Next]_vars \/ \E t \in Threads : SetsDefault(t)

LEMMA QueryStepIsIpcStep ==
  ASSUME [QueryNext]_queryVars
  PROVE  IpcStep
<1>1. CASE UNCHANGED queryVars
  BY <1>1 DEF queryVars, IpcStep
<1>2. ASSUME NEW c \in Clients, query_1_query(c) \/ query_1_next(c)
      PROVE  IpcStep
  <2>1. UNCHANGED vars
    BY <1>2 DEF query_1_query, query_1_next, az_ulib_ipc_query, az_ulib_ipc_query_next
  <2> QED BY <2>1 DEF IpcStep
<1>3. ASSUME NEW t \in Threads, NEW command \in Commands, SetDefaultCommand(t, command)
      PROVE  IpcStep
  BY <1>3 DEF SetDefaultCommand, SetsDefault, IpcStep
<1>4. CASE Next
  BY <1>4 DEF IpcStep
<1> QED BY <1>1, <1>2, <1>3, <1>4 DEF QueryNext

\* Every step preserves the inductive invariant of the IPC.
LEMMA IpcStepInv ==
  ASSUME IInv, IpcStep
  PROVE  IInv'
BY NextInv, SetDefaultInv DEF IpcStep, SetsDefault

LEMMA IpcStepHolds ==
  ASSUME IInv, HoldsAreAwaited, ~RegistryMayFail, IpcStep
  PROVE  HoldsAreAwaited'
<1>1. CASE [Next]_vars
  BY <1>1, NextHolds
<1>2. ASSUME NEW t \in Threads, SetsDefault(t), ~UNCHANGED vars
      PROVE  HoldsAreAwaited'
  BY <1>2, ChangeDefaultHolds
<1> QED BY <1>1, <1>2 DEF IpcStep

LEMMA IpcStepTracked ==
  ASSUME IInv, TrackInv, ~RegistryMayFail, ~MayCrash, IpcStep
  PROVE  TrackInv'
<1>1. CASE [Next]_vars
  BY <1>1, NextTracked
<1>2. ASSUME NEW t \in Threads, SetsDefault(t), ~UNCHANGED vars
      PROVE  TrackInv'
  BY <1>2, ChangeDefaultTracked
<1> QED BY <1>1, <1>2 DEF IpcStep

LEMMA QueryKeepsIpc == QuerySpec => []IInv
<1>1. QueryInit => IInv
  BY InitInv DEF QueryInit
<1>2. IInv /\ [QueryNext]_queryVars => IInv'
  BY QueryStepIsIpcStep, IpcStepInv
<1> QED BY <1>1, <1>2, PTL DEF QuerySpec

\* The promises of the IPC hold as well while clients list its table, and while the
\* interface manager sets defaults by any names its commands spell.
THEOREM PromisesHoldWithCommands ==
  ASSUME ~RegistryMayFail, ~MayCrash
  PROVE  QuerySpec => [](OnHoldHasWaiter /\ RegistryTracksPublished /\ NoSelfDeadlock)
<1>1. QueryInit => HoldsAreAwaited /\ TrackInv
  BY InitTracked DEF QueryInit, Init, HoldsAreAwaited
<1>2. IInv /\ HoldsAreAwaited /\ TrackInv /\ [QueryNext]_queryVars => HoldsAreAwaited' /\ TrackInv'
  BY QueryStepIsIpcStep, IpcStepHolds, IpcStepTracked
<1>3. ASSUME IInv, HoldsAreAwaited, TrackInv
      PROVE  OnHoldHasWaiter /\ RegistryTracksPublished /\ NoSelfDeadlock
  <2>1. OnHoldHasWaiter
    BY <1>3 DEF IInv, SlotsConsistent, HoldsAreAwaited, OnHoldHasWaiter
  <2>2. RegistryTracksPublished
    BY <1>3, OutsideLock DEF TrackInv, EntriesAreListed, RegistryTracksPublished, Published
  <2>3. NoSelfDeadlock
    <3> SUFFICES ASSUME NEW t \in Threads, pc[t] = "nested_acquire"
                 PROVE  FALSE
      BY DEF NoSelfDeadlock, InCriticalSection
    <3>1. call[t].desc # NoDescriptor
      BY <1>3 DEF IInv, CallsConsistent, CallConsistent
    <3> QED BY <1>3, <3>1 DEF TrackInv, CallsAreOfUser, LockedLocations, Locations
  <2> QED BY <2>1, <2>2, <2>3
<1> QED BY <1>1, <1>2, <1>3, QueryKeepsIpc, PTL DEF QuerySpec

-----------------------------------------------------------------------------
(***************************************************************************)
(* How the table changes: a step empties slots, or fills one.              *)
(***************************************************************************)
SlotsEmptied == \A s \in Slots : descriptor'[s] \in {NoDescriptor, descriptor[s]}

SlotFilled ==
  \E s \in Slots : /\ descriptor[s] = NoDescriptor
                   /\ \A x \in Slots \ {s} : descriptor'[x] = descriptor[x]
                   /\ Version[descriptor'[s]] # AnyVersion
                   /\ \A x \in Slots : descriptor[x] # descriptor'[s] \/ descriptor[x] = NoDescriptor

LEMMA TableChanges ==
  ASSUME IInv, IpcStep
  PROVE  SlotsEmptied \/ SlotFilled
<1>1. CASE UNCHANGED descriptor
  BY <1>1 DEF SlotsEmptied
<1>2. ASSUME NEW t \in Threads, NEW d \in Descriptors, Publish(t, d), ~UNCHANGED vars
      PROVE  SlotFilled
  <2>1. PICK s \in Slots : /\ descriptor[s] = NoDescriptor /\ descriptor'[s] = d
                           /\ \A x \in Slots \ {s} : descriptor'[x] = descriptor[x]
    BY <1>2, PublishMoves
  <2>2. \A x \in Slots : descriptor[x] # NoDescriptor => descriptor[x] # d
    BY <1>2, PublishMoves
  <2>3. Version[d] # AnyVersion
    BY <1>2 DEF Publish
  <2> QED BY <2>1, <2>2, <2>3 DEF SlotFilled
<1>3. ASSUME NEW t \in Threads, NestedAcquire(t) \/ SetsDefault(t)
      PROVE  UNCHANGED descriptor
  BY <1>3 DEF NestedAcquire, SetsDefault, set_default, ChangeDefault, vars, table
<1>4. ASSUME NEW t \in Threads, UpdateOld(t) \/ AddOld(t) \/ MarkNew(t) \/ AddNew(t)
      PROVE  UNCHANGED descriptor
  BY <1>4, CriticalMoves
<1>5. ASSUME NEW t \in Threads, Poll(t)
      PROVE  SlotsEmptied
  <2>1. descriptor \in [Slots -> Descriptors \cup {NoDescriptor}]
    BY DEF IInv, TypeOK
  <2>2. CASE UNCHANGED descriptor
    BY <2>2 DEF SlotsEmptied
  <2>3. ASSUME NEW s \in Slots, Remove(s)
        PROVE  SlotsEmptied
    BY <2>1, <2>3 DEF Remove, SlotsEmptied
  <2> QED BY <1>5, <2>2, <2>3, PollMoves
<1>6. CASE ipc_init \/ InitDone \/ deinit \/ unpublish_ipc_owned_interfaces \/ DeinitDone \/ Crash
  BY <1>6, LifeCycleMoves DEF Emptied, Kept, SlotsEmptied, table
<1>7. ASSUME NEW c \in Clients, try_get_interface(c) \/ release_interface(c)
      PROVE  UNCHANGED descriptor
  BY <1>7, ClientMoves
<1>8. ASSUME NEW t \in Threads, ThreadCall(t)
      PROVE  SlotsEmptied \/ SlotFilled
  <2>1. ASSUME NEW d \in Descriptors, Publish(t, d)
        PROVE  UNCHANGED descriptor \/ SlotFilled
    BY <1>2, <2>1 DEF vars, table
  <2>2. ASSUME NEW d \in PublishedByUser, az_ulib_ipc_publish(t, d)
        PROVE  d \in Descriptors /\ Publish(t, d)
    BY <2>2, ConstantsAssumption DEF az_ulib_ipc_publish
  <2>3. publish_ipc_owned_interfaces(t) => \E d \in Descriptors : Publish(t, d)
    BY ConstantsAssumption DEF publish_ipc_owned_interfaces, OwnedSet
  <2>4. ASSUME NEW d \in PublishedByUser, NEW w \in WaitOptions, FindToUnpublish(t, d, w)
        PROVE  UNCHANGED descriptor
    BY <2>4 DEF FindToUnpublish, table
  <2> QED BY <1>1, <1>3, <1>8, <2>1, <2>2, <2>3, <2>4 DEF ThreadCall, SetsDefault
<1> QED BY <1>1, <1>3, <1>4, <1>5, <1>6, <1>7, <1>8 DEF IpcStep, Next, ThreadStep, vars, table

-----------------------------------------------------------------------------
(***************************************************************************)
(* Pages.                                                                  *)
(***************************************************************************)

\* A set of numbers from a number on has a least one.
LEMMA LeastOf ==
  ASSUME NEW n \in Nat, NEW S \in SUBSET Nat, n \in S
  PROVE  Min(S) \in S /\ \A x \in S : Min(S) <= x
<1>1. \E m \in S : \A x \in S : m <= x
  <2> DEFINE R == {ss \in Nat \X Nat : ss[1] < ss[2]}
  <2>1. IsWellFoundedOn(R, Nat)
    BY NatLessThanWellFounded, Zenon DEF OpToRel
  <2>2. \A x, m \in Nat : <<x, m>> \in R <=> x < m
    OBVIOUS
  <2> HIDE DEF R
  <2>3. PICK m \in S : \A x \in S : ~(<<x, m>> \in R)
    BY <2>1, WFMin
  <2>4. ASSUME NEW x \in S PROVE m <= x
    <3>1. x \in Nat /\ m \in Nat /\ ~(<<x, m>> \in R)
      BY <2>3
    <3>2. ~(x < m)
      BY <2>2, <3>1
    <3> QED BY <3>1, <3>2
  <2> QED BY <2>4
<1> QED BY <1>1 DEF Min

\* A page ends behind its beginning, at the end of the table at the latest.
LEMMA PageEndIs ==
  ASSUME NEW start \in 0 .. MaxInterfaces + 1
  PROVE  PageEnd(start) \in start .. MaxInterfaces + 1
<1> DEFINE S == {e \in start..MaxInterfaces + 1 :
                   e = MaxInterfaces + 1
                     \/ (descriptor[e] # NoDescriptor
                           /\ PageBytes(Occupied(start, e)) > ResultSize)}
<1>1. MaxInterfaces + 1 \in Nat /\ S \subseteq start .. MaxInterfaces + 1
  BY ConstantsAssumption
<1>2. MaxInterfaces + 1 \in S
  BY <1>1
<1>3. PageEnd(start) = Min(S)
  BY DEF PageEnd
<1> HIDE DEF S
<1>4. S \in SUBSET Nat
  BY <1>1
<1>5. Min(S) \in S
  BY <1>1, <1>2, <1>4, LeastOf
<1> QED BY <1>1, <1>3, <1>5

LEMMA OneDescriptorOneSlot ==
  ASSUME IInv, NEW x \in Slots, NEW y \in Slots,
         descriptor[x] = descriptor[y], descriptor[x] # NoDescriptor
  PROVE  x = y
BY DEF IInv, UniqueNames

\* A page holds an interface once, if its slot is among those of the page.
LEMMA ReportedInPage ==
  ASSUME IInv, NEW start \in 0 .. MaxInterfaces + 1,
         NEW x \in Slots, descriptor[x] # NoDescriptor
  PROVE  Cardinality({s \in Page(start) : descriptor[s] = descriptor[x]})
           = IF start <= x /\ x < PageEnd(start) THEN 1 ELSE 0
<1> DEFINE S == {s \in Page(start) : descriptor[s] = descriptor[x]}
<1>1. /\ PageEnd(start) \in start .. MaxInterfaces + 1
      /\ start \in Int /\ x \in Int /\ MaxInterfaces \in Int
  BY PageEndIs, ConstantsAssumption DEF Slots
<1>2. \A s \in S : s = x
  BY OneDescriptorOneSlot DEF Page, Occupied
<1>3. x \in S <=> start <= x /\ x < PageEnd(start)
  BY <1>1 DEF Page, Occupied
<1>4. CASE start <= x /\ x < PageEnd(start)
  <2>1. S = {x}
    BY <1>2, <1>3, <1>4
  <2> HIDE DEF S
  <2>2. Cardinality({x}) = 1
    BY FS_Singleton
  <2> QED BY <1>4, <2>1, <2>2 DEF S
<1>5. CASE ~(start <= x /\ x < PageEnd(start))
  <2>1. S = {}
    BY <1>2, <1>3, <1>5
  <2> HIDE DEF S
  <2>2. Cardinality({}) = 0
    BY FS_EmptySet
  <2> QED BY <1>5, <2>1, <2>2 DEF S
<1> QED BY <1>4, <1>5

-----------------------------------------------------------------------------
(***************************************************************************)
(* Listings.  An interface that is steady keeps its slot, and was in a     *)
(* page if the slot is before the token, and was not if it is behind.      *)
(***************************************************************************)
Listings ==
  [next : 0 .. MaxInterfaces + 1, steady : SUBSET Descriptors, reported : [Descriptors -> Int]]

Counted(l) ==
  \A d \in l.steady : \E s \in Slots :
    descriptor[s] = d /\ l.reported[d] = IF s < l.next THEN 1 ELSE 0

ListingInv ==
  /\ listing \in [Clients -> Listings]
  /\ \A c \in Clients : Counted(listing[c])

LEMMA NoListingIs == NoListing \in Listings /\ NoListing.steady = {} /\ NoListing.next = 0
<1>1. 0 \in 0 .. MaxInterfaces + 1
  BY ConstantsAssumption
<1> QED BY <1>1 DEF NoListing, Listings

\* The next page counts what it shows.
LEMMA ReportCounts ==
  ASSUME IInv, ListingInv, NEW c \in Clients, NEW start \in 0 .. MaxInterfaces + 1,
         NEW base \in Listings, Report(c, start, base), UNCHANGED descriptor,
         \A d \in base.steady : \E s \in Slots :
           descriptor[s] = d /\ base.reported[d] = IF s < start THEN 1 ELSE 0
  PROVE  ListingInv'
<1> DEFINE shown(d) == Cardinality({s \in Page(start) : descriptor[s] = d})
           counts == [d \in Descriptors |-> base.reported[d] + shown(d)]
           new == [base EXCEPT !.next = PageEnd(start), !.reported = counts]
<1>1. listing' = [listing EXCEPT ![c] = new]
  BY DEF Report, NextPage
<1>2. PageEnd(start) \in start .. MaxInterfaces + 1 /\ PageEnd(start) \in 0 .. MaxInterfaces + 1
  <2>1. PageEnd(start) \in start .. MaxInterfaces + 1
    BY PageEndIs
  <2> QED BY <2>1, ConstantsAssumption
<1>3. \A d \in Descriptors : shown(d) \in Int
  <2> SUFFICES ASSUME NEW d \in Descriptors PROVE shown(d) \in Int
    OBVIOUS
  <2>1. {s \in Page(start) : descriptor[s] = d} \in SUBSET (1..MaxInterfaces)
    BY DEF Page, Occupied, Slots
  <2>2. IsFiniteSet(1..MaxInterfaces)
    BY ConstantsAssumption, FS_Interval
  <2>3. IsFiniteSet({s \in Page(start) : descriptor[s] = d})
    BY <2>1, <2>2, FS_Subset
  <2> QED BY <2>3, FS_CardinalityType
<1>4. base.reported \in [Descriptors -> Int] /\ base.steady \subseteq Descriptors
  BY DEF Listings
<1>5. counts \in [Descriptors -> Int]
  <2> HIDE DEF shown
  <2> QED BY <1>3, <1>4
<1>6. new \in Listings /\ new.next = PageEnd(start) /\ new.reported = counts /\ new.steady = base.steady
  <2> HIDE DEF counts
  <2> QED BY <1>2, <1>5 DEF Listings
<1>7. Counted(new)
  <2> SUFFICES ASSUME NEW d \in base.steady
               PROVE  \E s \in Slots : /\ descriptor[s] = d
                                       /\ counts[d] = IF s < PageEnd(start) THEN 1 ELSE 0
    <3> HIDE DEF counts, new
    <3> QED BY <1>6 DEF Counted
  <2>1. PICK s \in Slots : descriptor[s] = d /\ base.reported[d] = IF s < start THEN 1 ELSE 0
    OBVIOUS
  <2>2. d \in Descriptors /\ d # NoDescriptor
    BY <1>4, ConstantsAssumption
  <2>3. shown(d) = IF start <= s /\ s < PageEnd(start) THEN 1 ELSE 0
    BY <2>1, <2>2, ReportedInPage
  <2>4. counts[d] = base.reported[d] + shown(d)
    BY <2>2
  <2> HIDE DEF shown, counts
  <2>5. s \in Int /\ start \in Int /\ PageEnd(start) \in Int /\ start <= PageEnd(start)
    BY <1>2, ConstantsAssumption DEF Slots
  <2> QED BY <2>1, <2>3, <2>4, <2>5
<1> HIDE DEF new
<1>8. listing' \in [Clients -> Listings]
  BY <1>1, <1>6 DEF ListingInv
<1>9. \A k \in Clients : Counted(listing'[k])
  BY <1>1, <1>7 DEF ListingInv
<1>10. \A k \in Clients : Counted(listing[k])'
  BY <1>9 DEF Counted
<1> QED BY <1>8, <1>10 DEF ListingInv

LEMMA QueryCounts ==
  ASSUME IInv, ListingInv, NEW c \in Clients, query_1_query(c)
  PROVE  ListingInv'
<1> DEFINE base == [NoListing EXCEPT !.steady = Listed]
<1>1. Report(c, 1, base) /\ UNCHANGED descriptor
  BY DEF query_1_query, az_ulib_ipc_query, vars, table
<1>2. base \in Listings /\ base.steady = Listed /\ \A d \in Descriptors : base.reported[d] = 0
  <2>1. Listed \subseteq Descriptors
    BY DEF Listed, IInv, TypeOK
  <2>2. 0 \in 0 .. MaxInterfaces + 1
    BY ConstantsAssumption
  <2> QED BY <2>1, <2>2 DEF NoListing, Listings
<1>3. \A d \in base.steady : \E s \in Slots :
        descriptor[s] = d /\ base.reported[d] = IF s < 1 THEN 1 ELSE 0
  <2> SUFFICES ASSUME NEW d \in Listed
               PROVE  \E s \in Slots : descriptor[s] = d /\ base.reported[d] = IF s < 1 THEN 1 ELSE 0
    BY <1>2
  <2>1. PICK s \in Slots : descriptor[s] = d /\ d # NoDescriptor
    BY DEF Listed
  <2>2. d \in Descriptors
    BY <2>1 DEF IInv, TypeOK
  <2>3. ~(s < 1)
    BY DEF Slots
  <2> HIDE DEF base
  <2> QED BY <1>2, <2>1, <2>2, <2>3
<1>4. 1 \in 0 .. MaxInterfaces + 1
  BY ConstantsAssumption
<1> HIDE DEF base
<1> QED BY <1>1, <1>2, <1>3, <1>4, ReportCounts

LEMMA QueryNextCounts ==
  ASSUME IInv, ListingInv, NEW c \in Clients, query_1_next(c)
  PROVE  ListingInv'
<1> DEFINE l == listing[c]
<1>1. l \in Listings /\ Counted(l) /\ UNCHANGED descriptor
  BY DEF query_1_next, az_ulib_ipc_query_next, vars, table, ListingInv
<1>2. CASE Report(c, l.next, l)
  <2>1. l.next \in 0 .. MaxInterfaces + 1
    BY <1>1 DEF Listings
  <2>2. \A d \in l.steady : \E s \in Slots :
          descriptor[s] = d /\ l.reported[d] = IF s < l.next THEN 1 ELSE 0
    BY <1>1 DEF Counted
  <2> HIDE DEF l
  <2> QED BY <1>1, <1>2, <2>1, <2>2, ReportCounts
<1>3. CASE listing' = [listing EXCEPT ![c] = NoListing]
  BY <1>1, <1>3, NoListingIs DEF ListingInv, Counted
<1> QED BY <1>2, <1>3 DEF query_1_next, az_ulib_ipc_query_next

\* While the table changes, the interfaces that stay are where they were.
LEMMA ObserveCounts ==
  ASSUME IInv, ListingInv, IpcStep, Observe
  PROVE  ListingInv'
<1> DEFINE stays(l) == [l EXCEPT !.steady = @ \cap {descriptor'[s] : s \in Slots}]
<1>1. listing' = [c \in Clients |-> stays(listing[c])]
  BY DEF Observe
<1>2. ASSUME NEW c \in Clients
      PROVE  /\ stays(listing[c]) \in Listings
             /\ \A d \in stays(listing[c]).steady : \E s \in Slots :
                  /\ descriptor'[s] = d
                  /\ stays(listing[c]).reported[d] = IF s < stays(listing[c]).next THEN 1 ELSE 0
  <2> DEFINE l == listing[c]
  <2>1. l \in Listings /\ Counted(l)
    BY DEF ListingInv
  <2> HIDE DEF l
  <2>2. /\ stays(l) \in Listings
        /\ stays(l).next = l.next /\ stays(l).reported = l.reported
        /\ stays(l).steady = l.steady \cap {descriptor'[s] : s \in Slots}
    BY <2>1 DEF Listings
  <2> HIDE DEF stays
  <2>3. ASSUME NEW d \in l.steady, NEW y \in Slots, descriptor'[y] = d
        PROVE  \E s \in Slots : /\ descriptor'[s] = d
                                /\ l.reported[d] = IF s < l.next THEN 1 ELSE 0
    <3>1. PICK x \in Slots : descriptor[x] = d /\ l.reported[d] = IF x < l.next THEN 1 ELSE 0
      BY <2>1 DEF Counted
    <3>2. d # NoDescriptor
      BY <2>1, ConstantsAssumption DEF Listings
    <3>3. CASE SlotsEmptied
      <4>1. descriptor[y] = d
        BY <2>3, <3>2, <3>3 DEF SlotsEmptied
      <4> QED BY <2>3, <3>1, <3>2, <4>1, OneDescriptorOneSlot
    <3>4. CASE SlotFilled
      <4>1. descriptor'[x] = d
        BY <3>1, <3>2, <3>4 DEF SlotFilled
      <4> QED BY <3>1, <4>1
    <3> QED BY <3>3, <3>4, TableChanges
  <2>4. \A d \in stays(l).steady : \E s \in Slots :
          descriptor'[s] = d /\ stays(l).reported[d] = IF s < stays(l).next THEN 1 ELSE 0
    BY <2>2, <2>3
  <2> QED BY <2>2, <2>4 DEF l
<1> HIDE DEF stays
<1>3. listing' \in [Clients -> Listings]
  BY <1>1, <1>2
<1>4. \A c \in Clients : \A d \in listing'[c].steady : \E s \in Slots :
        descriptor'[s] = d /\ listing'[c].reported[d] = IF s < listing'[c].next THEN 1 ELSE 0
  BY <1>1, <1>2
<1> QED BY <1>3, <1>4 DEF ListingInv, Counted

LEMMA NextCounts ==
  ASSUME IInv, ListingInv, [QueryNext]_queryVars
  PROVE  ListingInv'
<1>1. CASE UNCHANGED queryVars
  BY <1>1 DEF queryVars, vars, table, ListingInv, Counted
<1>2. ASSUME NEW c \in Clients, query_1_query(c) \/ query_1_next(c)
      PROVE  ListingInv'
  BY <1>2, QueryCounts, QueryNextCounts
<1>3. CASE QueryNext /\ Observe
  BY <1>3, QueryStepIsIpcStep, ObserveCounts
<1> QED BY <1>1, <1>2, <1>3 DEF QueryNext

-----------------------------------------------------------------------------
(***************************************************************************)
(* Only query_next's EOF sets the token to 0, and then the slots of all    *)
(* steady interfaces are before it.                                        *)
(***************************************************************************)
LEMMA TokenIsPositive ==
  ASSUME NEW c \in Clients, ListingInv, NEW start \in 1 .. MaxInterfaces + 1,
         NEW base, DOMAIN base = {"next", "steady", "reported"}, Report(c, start, base)
  PROVE  \A k \in Clients : listing'[k].next = listing[k].next \/ listing'[k].next # 0
<1> DEFINE new == [base EXCEPT !.next = NextPage(start),
                 !.reported = [d \in Descriptors |->
                    @[d] + Cardinality({s \in Page(start) : descriptor[s] = d})]]
<1>1. listing' = [listing EXCEPT ![c] = new]
  BY DEF Report
<1>2. new.next = NextPage(start)
  OBVIOUS
<1> HIDE DEF new
<1>3. PageEnd(start) \in start .. MaxInterfaces + 1
  <2>1. start \in 0 .. MaxInterfaces + 1
    BY ConstantsAssumption
  <2> QED BY <2>1, PageEndIs
<1>4. new.next # 0
  BY <1>2, <1>3, ConstantsAssumption DEF NextPage
<1> QED BY <1>1, <1>4 DEF ListingInv

LEMMA CompleteAtEof ==
  ASSUME IInv, ListingInv, NEW c \in Clients,
         report_interfaces(listing[c].next) = "AZ_ULIB_EOF"
  PROVE  \A d \in listing[c].steady : listing[c].reported[d] = 1
<1> DEFINE l == listing[c]
<1>1. l \in Listings /\ Counted(l)
  BY DEF ListingInv
<1>2. Occupied(l.next, MaxInterfaces) = {}
  BY DEF report_interfaces
<1> HIDE DEF l
<1> SUFFICES ASSUME NEW d \in l.steady
             PROVE  l.reported[d] = 1
  BY DEF l
<1>3. PICK s \in Slots : descriptor[s] = d /\ l.reported[d] = IF s < l.next THEN 1 ELSE 0
  BY <1>1 DEF Counted
<1>4. d # NoDescriptor
  BY <1>1, ConstantsAssumption DEF Listings
<1>5. ~(s \in l.next .. MaxInterfaces)
  BY <1>2, <1>3, <1>4 DEF Occupied
<1>6. l.next \in Int /\ MaxInterfaces \in Int /\ s \in Int /\ s <= MaxInterfaces
  BY <1>1, ConstantsAssumption DEF Listings, Slots
<1>7. s < l.next
  BY <1>5, <1>6
<1> QED BY <1>3, <1>7

LEMMA EndOfListing ==
  ASSUME IInv, ListingInv, [QueryNext]_queryVars, NEW k \in Clients,
         listing[k].next # 0, listing'[k].next = 0
  PROVE  \A d \in listing[k].steady : listing[k].reported[d] = 1
<1>1. CASE UNCHANGED queryVars
  BY <1>1 DEF queryVars
<1>2. ASSUME NEW c \in Clients, query_1_query(c)
      PROVE  FALSE
  <2>1. DOMAIN [NoListing EXCEPT !.steady = Listed] = {"next", "steady", "reported"}
    BY DEF NoListing
  <2>2. 1 \in 1 .. MaxInterfaces + 1
    BY ConstantsAssumption
  <2> QED BY <1>2, <2>1, <2>2, TokenIsPositive DEF query_1_query, az_ulib_ipc_query
<1>3. ASSUME NEW c \in Clients, query_1_next(c), Report(c, listing[c].next, listing[c])
      PROVE  FALSE
  <2>1. listing[c] \in Listings /\ listing[c].next > 0
    BY <1>3 DEF ListingInv, query_1_next, az_ulib_ipc_query_next
  <2>2. DOMAIN listing[c] = {"next", "steady", "reported"}
    BY <2>1 DEF Listings
  <2>3. listing[c].next \in 1 .. MaxInterfaces + 1
    BY <2>1, ConstantsAssumption DEF Listings
  <2> QED BY <1>3, <2>2, <2>3, TokenIsPositive
<1>4. ASSUME NEW c \in Clients, query_1_next(c), ~Report(c, listing[c].next, listing[c])
      PROVE  \A d \in listing[k].steady : listing[k].reported[d] = 1
  <2>1. /\ report_interfaces(listing[c].next) = "AZ_ULIB_EOF"
        /\ listing' = [listing EXCEPT ![c] = NoListing]
    BY <1>4 DEF query_1_next, az_ulib_ipc_query_next
  <2>2. k = c
    BY <2>1 DEF ListingInv
  <2> QED BY <2>1, <2>2, CompleteAtEof
<1>5. CASE Observe
  <2>1. listing'[k] = [listing[k] EXCEPT !.steady = @ \cap {descriptor'[s] : s \in Slots}]
    BY <1>5 DEF Observe
  <2>2. listing[k] \in Listings
    BY DEF ListingInv
  <2>3. listing'[k].next = listing[k].next
    BY <2>1, <2>2 DEF Listings
  <2> QED BY <2>3
<1> QED BY <1>1, <1>2, <1>3, <1>4, <1>5 DEF QueryNext

\* However many interfaces come and go between its pages, a listing that ends with EOF
\* had every interface that was published all the time in exactly one of them.
THEOREM ListingsAreComplete == QuerySpec => ListingIsComplete
<1>1. QueryInit => ListingInv
  BY NoListingIs DEF QueryInit, ListingInv, Counted
<1>2. IInv /\ ListingInv /\ [QueryNext]_queryVars => ListingInv'
  BY NextCounts
<1>3. IInv /\ ListingInv /\ [QueryNext]_queryVars =>
        [\A c \in Clients : listing[c].next # 0 /\ listing'[c].next = 0 =>
           \A d \in listing[c].steady : listing[c].reported[d] = 1]_queryVars
  BY EndOfListing
<1> QED BY <1>1, <1>2, <1>3, QueryKeepsIpc, PTL DEF QuerySpec, ListingIsComplete

-----------------------------------------------------------------------------
(***************************************************************************)
(* Names as text.                                                          *)
(***************************************************************************)

\* The text is l, the token t, which is not in l, and r.
Joins(text, l, t, r) ==
  /\ Len(text) = Len(l) + 1 + Len(r)
  /\ \A k \in 1 .. Len(l) : text[k] = l[k] /\ l[k] # t
  /\ text[Len(l) + 1] = t
  /\ \A k \in 1 .. Len(r) : text[Len(l) + 1 + k] = r[k]

\* A text is cut at the first place of the token.
LEMMA Cut ==
  ASSUME NEW T, NEW text \in Seq(T), NEW l \in Seq(T), NEW t \in T, NEW r \in Seq(T),
         Joins(text, l, t, r)
  PROVE  /\ az_span_find(text, t) = Len(l) + 1
         /\ Before(text, t) = l
         /\ After(text, t) = r
<1> DEFINE L == Len(l)
<1>1. L \in Nat /\ Len(r) \in Nat /\ DOMAIN text = 1 .. L + 1 + Len(r)
  BY DEF Joins
<1>2. /\ \A k \in 1 .. L : text[k] = l[k] /\ l[k] # t
      /\ text[L + 1] = t
      /\ \A k \in 1 .. Len(r) : text[L + 1 + k] = r[k]
      /\ Len(text) = L + 1 + Len(r)
  BY DEF Joins
<1> HIDE DEF L
<1>3. az_span_find(text, t) = L + 1
  <2>1. L + 1 \in DOMAIN text /\ text[L + 1] = t /\ \A h \in 1 .. (L + 1) - 1 : text[h] # t
    <3>1. L + 1 \in DOMAIN text
      BY <1>1
    <3>2. (L + 1) - 1 = L
      BY <1>1
    <3>3. \A h \in 1 .. L : text[h] # t
      BY <1>2
    <3> QED BY <1>2, <3>1, <3>2, <3>3
  <2>2. ASSUME NEW k \in DOMAIN text, text[k] = t, \A h \in 1 .. k - 1 : text[h] # t
        PROVE  k = L + 1
    <3>1. k \in Nat /\ k > 0
      BY <1>1
    <3>2. ASSUME k < L + 1 PROVE FALSE
      <4>1. k \in 1 .. L
        BY <1>1, <3>1, <3>2
      <4> QED BY <1>2, <2>2, <4>1
    <3>3. ASSUME L + 1 < k PROVE FALSE
      <4>1. L + 1 \in 1 .. k - 1
        BY <1>1, <3>1, <3>3
      <4> QED BY <1>2, <2>2, <4>1
    <3> QED BY <1>1, <3>1, <3>2, <3>3
  <2> QED BY <2>1, <2>2 DEF az_span_find
<1>4. Before(text, t) = l
  <2>1. Before(text, t) = SubSeq(text, 1, L)
    BY <1>1, <1>3 DEF Before
  <2>2. SubSeq(text, 1, L) \in Seq(T) /\ Len(SubSeq(text, 1, L)) = L
    BY <1>1, <1>2, SubSeqProperties
  <2>3. \A k \in 1 .. L : SubSeq(text, 1, L)[k] = l[k]
    BY <1>1, <1>2, SubSeqProperties
  <2> QED BY <2>1, <2>2, <2>3, SeqEqual DEF L
<1>5. After(text, t) = r
  <2>1. After(text, t) = SubSeq(text, L + 2, L + 1 + Len(r))
    BY <1>1, <1>2, <1>3 DEF After
  <2> DEFINE s == SubSeq(text, L + 2, L + 1 + Len(r))
  <2>2. \A k \in L + 2 .. L + 1 + Len(r) : text[k] \in T
    BY <1>1
  <2>3. s \in Seq(T) /\ Len(s) = Len(r) /\ \A k \in 1 .. Len(r) : s[k] = text[L + 2 + k - 1]
    BY <1>1, <2>2, SubSeqProperties
  <2>4. \A k \in 1 .. Len(r) : s[k] = r[k]
    <3> HIDE DEF s
    <3> TAKE k \in 1 .. Len(r)
    <3>1. L + 2 + k - 1 = L + 1 + k
      BY <1>1
    <3> QED BY <1>2, <2>3, <3>1
  <2> QED BY <2>1, <2>3, <2>4, SeqEqual
<1> QED BY <1>3, <1>4, <1>5 DEF L

LEMMA CutBehindOne ==
  ASSUME NEW T, NEW text \in Seq(T), NEW a \in T, NEW t \in T, NEW r \in Seq(T),
         Joins(text, <<a>>, t, r)
  PROVE  Cuts(text, t) /\ Before(text, t) = <<a>> /\ After(text, t) = r
<1> DEFINE l == <<a>>
<1>1. l \in Seq(T) /\ Len(l) = 1
  OBVIOUS
<1>2. Joins(text, l, t, r)
  OBVIOUS
<1> HIDE DEF l
<1>3. az_span_find(text, t) = Len(l) + 1 /\ Before(text, t) = l /\ After(text, t) = r
  BY <1>1, <1>2, Cut, ZenonT(60)
<1>4. az_span_find(text, t) > 1
  BY <1>1, <1>3
<1> QED BY <1>3, <1>4 DEF Cuts, l

LEMMA NoCut ==
  ASSUME NEW text, NEW t, \A k \in DOMAIN text : text[k] # t
  PROVE  ~Cuts(text, t)
BY DEF Cuts, az_span_find

\* package.version.interface.version
Spelled(p, v, i, w) == <<p, ".", v, ".", i, ".", w>>

LEMMA SpelledJoins ==
  ASSUME NEW p, NEW v, NEW i, NEW w
  PROVE  <<p, ".", v>> \o <<".">> \o <<i, ".", w>> = Spelled(p, v, i, w)
<1> DEFINE T == {p, ".", v, i, w}
           text == <<p, ".", v>> \o <<".">> \o <<i, ".", w>>
           front == <<p, ".", v>> \o <<".">>
<1>1. front \in Seq(T) /\ Len(front) = 4
      /\ front[1] = p /\ front[2] = "." /\ front[3] = v /\ front[4] = "."
  OBVIOUS
<1>2. text = front \o <<i, ".", w>>
  OBVIOUS
<1> HIDE DEF front
<1>3. text \in Seq(T) /\ Len(text) = 7
  BY <1>1, <1>2
<1>4. /\ text[1] = p /\ text[2] = "." /\ text[3] = v /\ text[4] = "."
      /\ text[5] = i /\ text[6] = "." /\ text[7] = w
  BY <1>1, <1>2
<1> HIDE DEF text
<1>5. text = <<p, ".", v, ".", i, ".", w>>
  BY <1>3, <1>4
<1> QED BY <1>5 DEF Spelled, text

LEMMA FullName ==
  ASSUME NEW p, NEW v, NEW i, NEW w
  PROVE  concat_full_name(p, v, i, w) = Spelled(p, Numeral[v], i, Numeral[w])
BY SpelledJoins DEF concat_full_name, concat_name_version

\* The three cuts at dots.
LEMMA Dots ==
  ASSUME NEW p, NEW v, NEW i, NEW w, p # ".", v # ".", i # "."
  PROVE  LET text == Spelled(p, v, i, w)
             versioned == After(text, ".")
             rest == After(versioned, ".") IN
         /\ Cuts(text, ".") /\ Before(text, ".") = <<p>>
         /\ Cuts(versioned, ".") /\ Before(versioned, ".") = <<v>>
         /\ Cuts(rest, ".") /\ Before(rest, ".") = <<i>> /\ After(rest, ".") = <<w>>
<1> DEFINE T == {p, ".", v, i, w}
           text == <<p, ".", v, ".", i, ".", w>>
           versioned == <<v, ".", i, ".", w>>
           rest == <<i, ".", w>>
<1>1. "." \in T /\ text \in Seq(T) /\ versioned \in Seq(T) /\ rest \in Seq(T)
      /\ <<p>> \in Seq(T) /\ <<v>> \in Seq(T) /\ <<i>> \in Seq(T) /\ <<w>> \in Seq(T)
  OBVIOUS
<1>2. Joins(text, <<p>>, ".", versioned)
  BY DEF Joins
<1>3. Joins(versioned, <<v>>, ".", rest)
  BY DEF Joins
<1>4. Joins(rest, <<i>>, ".", <<w>>)
  <2>1. Len(rest) = Len(<<i>>) + 1 + Len(<<w>>)
    OBVIOUS
  <2>2. \A k \in 1 .. Len(<<i>>) : rest[k] = <<i>>[k] /\ <<i>>[k] # "."
    OBVIOUS
  <2>3. rest[Len(<<i>>) + 1] = "."
    OBVIOUS
  <2>4. \A k \in 1 .. Len(<<w>>) : rest[Len(<<i>>) + 1 + k] = <<w>>[k]
    OBVIOUS
  <2> HIDE DEF rest
  <2> QED BY <2>1, <2>2, <2>3, <2>4, Zenon DEF Joins
<1>5. p \in T /\ v \in T /\ i \in T
  OBVIOUS
<1> HIDE DEF T, text, versioned, rest
<1>6. Cuts(text, ".") /\ Before(text, ".") = <<p>> /\ After(text, ".") = versioned
  BY <1>1, <1>2, <1>5, CutBehindOne
<1>7. Cuts(versioned, ".") /\ Before(versioned, ".") = <<v>> /\ After(versioned, ".") = rest
  BY <1>1, <1>3, <1>5, CutBehindOne
<1>8. Cuts(rest, ".") /\ Before(rest, ".") = <<i>> /\ After(rest, ".") = <<w>>
  <2> DEFINE last == <<w>>
  <2>1. last \in Seq(T) /\ Joins(rest, <<i>>, ".", last)
    BY <1>1, <1>4
  <2> HIDE DEF last
  <2>2. Cuts(rest, ".") /\ Before(rest, ".") = <<i>> /\ After(rest, ".") = last
    BY <1>1, <1>5, <2>1, CutBehindOne
  <2> QED BY <2>2 DEF last
<1>9. Spelled(p, v, i, w) = text
  BY DEF Spelled, text
<1> QED BY <1>6, <1>7, <1>8, <1>9

\* A device in front of the name, and a capability behind it, are cut off.
LEMMA Around ==
  ASSUME NEW p, NEW v, NEW i, NEW w, {p, v, i, w} \cap Separators = {}
  PROVE  LET text == Spelled(p, v, i, w)
             called == text \o <<":", "capability">> IN
         /\ ~Cuts(text, "@") /\ ~Cuts(text, ":")
         /\ Cuts(called, ":") /\ Before(called, ":") = text /\ ~Cuts(called, "@")
         /\ \A t \in {text, called} :
              Cuts(<<"device", "@">> \o t, "@") /\ After(<<"device", "@">> \o t, "@") = t
<1> DEFINE T == {p, ".", v, i, w, ":", "capability", "@", "device"}
           text == <<p, ".", v, ".", i, ".", w>>
           called == text \o <<":", "capability">>
<1>1. p \notin {":", "@"} /\ v \notin {":", "@"} /\ i \notin {":", "@"} /\ w \notin {":", "@"}
  BY DEF Separators
<1>2. text \in Seq(T) /\ Len(text) = 7
      /\ \A k \in DOMAIN text : text[k] # ":" /\ text[k] # "@"
  BY <1>1
<1> HIDE DEF text
<1>3. called \in Seq(T) /\ Len(called) = 9
      /\ \A k \in 1 .. 7 : called[k] = text[k]
      /\ called[8] = ":" /\ called[9] = "capability"
  <2> DEFINE end == <<":", "capability">>
  <2>1. end \in Seq(T) /\ Len(end) = 2 /\ end[1] = ":" /\ end[2] = "capability"
    OBVIOUS
  <2> HIDE DEF end
  <2>2. text \o end \in Seq(T) /\ Len(text \o end) = Len(text) + Len(end)
        /\ \A k \in 1 .. Len(text) + Len(end) :
             (text \o end)[k] = IF k <= Len(text) THEN text[k] ELSE end[k - Len(text)]
    BY <1>2, <2>1, ConcatProperties
  <2> QED BY <1>2, <2>1, <2>2 DEF end
<1>4. <<"device">> \in Seq(T) /\ <<"capability">> \in Seq(T) /\ ":" \in T /\ "@" \in T
      /\ "device" \in T
  OBVIOUS
<1>5. Joins(called, text, ":", <<"capability">>)
  BY <1>2, <1>3 DEF Joins
<1> HIDE DEF called, T
<1>6. Cuts(called, ":") /\ Before(called, ":") = text
  <2>1. az_span_find(called, ":") = Len(text) + 1 /\ Before(called, ":") = text
    <3>1. /\ called \in Seq(T) /\ text \in Seq(T) /\ ":" \in T /\ <<"capability">> \in Seq(T)
      BY <1>2, <1>3, <1>4
    <3> QED BY ZenonT(60), <1>5, <3>1, Cut
  <2> QED BY <1>2, <2>1 DEF Cuts
<1>7. ~Cuts(text, "@") /\ ~Cuts(text, ":")
  BY <1>2, NoCut
<1>8. ~Cuts(called, "@")
  <2>1. \A k \in DOMAIN called : called[k] # "@"
    BY <1>2, <1>3
  <2> QED BY <2>1, NoCut
<1>9. ASSUME NEW t \in {text, called}
      PROVE  Cuts(<<"device", "@">> \o t, "@") /\ After(<<"device", "@">> \o t, "@") = t
  <2> DEFINE full == <<"device", "@">> \o t
  <2>1. t \in Seq(T)
    BY <1>2, <1>3
  <2>2. full \in Seq(T) /\ Joins(full, <<"device">>, "@", t)
    BY <1>4, <2>1 DEF Joins
  <2> HIDE DEF full
  <2>3. Cuts(full, "@") /\ After(full, "@") = t
    BY <1>4, <2>1, <2>2, CutBehindOne
  <2> QED BY <2>3 DEF full
<1>10. Spelled(p, v, i, w) = text
  BY DEF Spelled, text
<1> QED BY <1>6, <1>7, <1>8, <1>9, <1>10 DEF called

-----------------------------------------------------------------------------
(***************************************************************************)
(* The ways to write the name of an interface.                             *)
(***************************************************************************)

\* What was read says the name of the interface.
Says(model, d) ==
  /\ model.result = "AZ_OK"
  /\ model.package_name = <<Family[d].package_name>> /\ model.package_version = Version[d]
  /\ model.interface_name = <<Family[d].interface_name>>
  /\ model.interface_version = Family[d].interface_version

LEMMA TokensOf ==
  ASSUME NEW d \in Descriptors
  PROVE  /\ Version[d] \in DOMAIN Numeral /\ Family[d].interface_version \in DOMAIN Numeral
         /\ {Family[d].package_name, Numeral[Version[d]], Family[d].interface_name,
             Numeral[Family[d].interface_version]} \cap Separators = {}
<1>1. /\ Family[d].package_name \in Words /\ Family[d].interface_name \in Words
      /\ Family[d].interface_version \in DOMAIN Numeral /\ Version[d] \in DOMAIN Numeral
  BY FamilyIsSpelledOut
<1> QED BY <1>1, TokensAssumption

LEMMA ReadsNumeral ==
  ASSUME NEW v \in DOMAIN Numeral
  PROVE  IsNumber(<<Numeral[v]>>) /\ az_span_atou32(<<Numeral[v]>>) = v
<1>1. \A w \in DOMAIN Numeral : <<Numeral[v]>> = <<Numeral[w]>> => w = v
  BY TokensAssumption
<1> QED BY <1>1 DEF IsNumber, az_span_atou32

LEMMA SplitSays ==
  ASSUME NEW d \in Descriptors, NEW full_name, NEW named,
         named = IF Cuts(full_name, "@") THEN After(full_name, "@") ELSE full_name,
         Spelled(Family[d].package_name, Numeral[Version[d]], Family[d].interface_name,
                 Numeral[Family[d].interface_version])
           = IF Cuts(named, ":") THEN Before(named, ":") ELSE named
  PROVE  Says(az_ulib_ipc_split_method_name(full_name), d)
<1> DEFINE p == Family[d].package_name
           v == Numeral[Version[d]]
           i == Family[d].interface_name
           w == Numeral[Family[d].interface_version]
           interface == IF Cuts(named, ":") THEN Before(named, ":") ELSE named
           versioned == After(interface, ".")
           rest == After(versioned, ".")
<1>1. p # "." /\ v # "." /\ i # "." /\ v # "*"
  BY TokensOf DEF Separators
<1>2. interface = Spelled(p, v, i, w)
  OBVIOUS
<1> HIDE DEF interface, p, v, i, w
<1>3. /\ Cuts(interface, ".") /\ Before(interface, ".") = <<p>>
      /\ Cuts(versioned, ".") /\ Before(versioned, ".") = <<v>>
      /\ Cuts(rest, ".") /\ Before(rest, ".") = <<i>> /\ After(rest, ".") = <<w>>
  BY <1>1, <1>2, Dots
<1>4. <<v>> # Wildcard
  BY <1>1 DEF Wildcard
<1>5. /\ IsNumber(<<v>>) /\ az_span_atou32(<<v>>) = Version[d]
      /\ IsNumber(<<w>>) /\ az_span_atou32(<<w>>) = Family[d].interface_version
  BY TokensOf, ReadsNumeral DEF v, w
<1> HIDE DEF versioned, rest
<1>6. az_ulib_ipc_split_method_name(full_name) =
        [result |-> "AZ_OK",
         device_name |-> IF Cuts(full_name, "@") THEN Before(full_name, "@") ELSE << >>,
         package_name |-> <<p>>, package_version |-> Version[d],
         interface_name |-> <<i>>, interface_version |-> Family[d].interface_version,
         capability_name |-> IF Cuts(named, ":") THEN After(named, ":") ELSE << >>]
  BY <1>3, <1>4, <1>5 DEF az_ulib_ipc_split_method_name, interface, versioned, rest
<1> QED BY <1>6 DEF Says, p, i

\* A command of one field, and one of four.
LEMMA ModelOfOne ==
  ASSUME NEW field
  PROVE  ModelIn(<<field>>) = Unmarshal(EmptyModel, field)
<1> DEFINE command == <<field>>
           Reads(m) == m = [n \in 0..Len(command) |->
                              IF n = 0 THEN EmptyModel ELSE Unmarshal(m[n - 1], command[n])]
           model == CHOOSE m : Reads(m)
           g == [n \in 0..1 |-> IF n = 0 THEN EmptyModel ELSE Unmarshal(EmptyModel, field)]
<1>1. Len(command) = 1 /\ command[1] = field
  OBVIOUS
<1>2. Reads(g)
  OBVIOUS
<1>3. Reads(model)
  BY <1>2
<1> HIDE DEF model
<1>4. model[Len(command)] = Unmarshal(EmptyModel, field)
  BY <1>1, <1>3
<1> QED BY <1>4 DEF model, ModelIn

LEMMA ModelOfFour ==
  ASSUME NEW command, Len(command) = 4
  PROVE  ModelIn(command) =
           Unmarshal(Unmarshal(Unmarshal(Unmarshal(EmptyModel, command[1]), command[2]),
                               command[3]), command[4])
<1> DEFINE Reads(m) == m = [n \in 0..Len(command) |->
                              IF n = 0 THEN EmptyModel ELSE Unmarshal(m[n - 1], command[n])]
           model == CHOOSE m : Reads(m)
           m1 == Unmarshal(EmptyModel, command[1])
           m2 == Unmarshal(m1, command[2])
           m3 == Unmarshal(m2, command[3])
           m4 == Unmarshal(m3, command[4])
           g == [n \in 0..4 |-> CASE n = 0 -> EmptyModel [] n = 1 -> m1 [] n = 2 -> m2
                                  [] n = 3 -> m3 [] OTHER -> m4]
<1>1. Reads(g)
  <2>1. g[0] = EmptyModel /\ g[1] = m1 /\ g[2] = m2 /\ g[3] = m3 /\ g[4] = m4
    OBVIOUS
  <2>2. \A n \in 0..4 : g[n] = IF n = 0 THEN EmptyModel ELSE Unmarshal(g[n - 1], command[n])
    BY <2>1
  <2> QED BY <2>2
<1>2. Reads(model)
  BY <1>1
<1> HIDE DEF model
<1>3. /\ model[0] = EmptyModel
      /\ model[1] = Unmarshal(model[0], command[1]) /\ model[2] = Unmarshal(model[1], command[2])
      /\ model[3] = Unmarshal(model[2], command[3]) /\ model[4] = Unmarshal(model[3], command[4])
  BY <1>2
<1> QED BY <1>3 DEF model, ModelIn

\* The name in the field "interface".
LEMMA InterfaceField ==
  ASSUME NEW d \in Descriptors, NEW text, Says(az_ulib_ipc_split_method_name(text), d)
  PROVE  Says(ModelIn(<< <<"interface", text>> >>), d)
<1> DEFINE split == az_ulib_ipc_split_method_name(text)
<1>1. ModelIn(<< <<"interface", text>> >>) = Unmarshal(EmptyModel, <<"interface", text>>)
  BY ModelOfOne
<1>2. Says(split, d) /\ split.result = "AZ_OK"
  BY DEF Says
<1> HIDE DEF split
<1>3. Unmarshal(EmptyModel, <<"interface", text>>) = [f \in DOMAIN EmptyModel |-> split[f]]
  BY <1>2 DEF Unmarshal, EmptyModel, split
<1>4. DOMAIN EmptyModel = {"result", "package_name", "package_version", "interface_name", "interface_version"}
  BY DEF EmptyModel
<1> QED BY <1>1, <1>2, <1>3, <1>4 DEF Says

\* The fields of the name one by one.
ModelFields == {"result", "package_name", "package_version", "interface_name", "interface_version"}

FieldsOf(d) ==
  << <<"package_name", <<Family[d].package_name>> >>, <<"package_version", Version[d]>>,
     <<"interface_name", <<Family[d].interface_name>> >>,
     <<"interface_version", Family[d].interface_version>> >>

\* The fields of a set have been read.
HasRead(model, d, S) ==
  /\ model = [f \in ModelFields |-> model[f]] /\ model["result"] = "AZ_OK"
  /\ \A k \in S : model[FieldsOf(d)[k][1]] = FieldsOf(d)[k][2]

LEMMA FieldNames ==
  ASSUME NEW d
  PROVE  /\ \A k \in 1..4 : FieldsOf(d)[k][1] \in ModelFields \ {"result"}
         /\ \A k \in 1..4 : FieldsOf(d)[k][1] # "interface"
         /\ \A j, k \in 1..4 : FieldsOf(d)[j][1] = FieldsOf(d)[k][1] => j = k
BY DEF FieldsOf, ModelFields

LEMMA ReadsField ==
  ASSUME NEW d, NEW model, NEW S \in SUBSET (1..4), HasRead(model, d, S), NEW k \in 1..4
  PROVE  HasRead(Unmarshal(model, FieldsOf(d)[k]), d, S \cup {k})
<1> DEFINE field == FieldsOf(d)[k]
<1>1. /\ model = [f \in ModelFields |-> model[f]] /\ model.result = "AZ_OK"
      /\ \A j \in S : model[FieldsOf(d)[j][1]] = FieldsOf(d)[j][2]
  BY DEF HasRead
<1>2. field[1] \in ModelFields /\ field[1] # "result" /\ field[1] # "interface"
  BY FieldNames
<1>3. \A j \in 1..4 : FieldsOf(d)[j][1] = field[1] => j = k
  BY FieldNames
<1> HIDE DEF field
<1>4. Unmarshal(model, field) = [model EXCEPT ![field[1]] = field[2]]
  BY <1>1, <1>2 DEF Unmarshal
<1> DEFINE new == [model EXCEPT ![field[1]] = field[2]]
<1>5. /\ new = [f \in ModelFields |-> new[f]] /\ new["result"] = "AZ_OK" /\ new[field[1]] = field[2]
      /\ \A f \in ModelFields : f # field[1] => new[f] = model[f]
  <2>1. "result" \in ModelFields
    BY DEF ModelFields
  <2> QED BY <1>1, <1>2, <2>1
<1> HIDE DEF new
<1>6. ASSUME NEW j \in S \cup {k}
      PROVE  new[FieldsOf(d)[j][1]] = FieldsOf(d)[j][2]
  <2>1. CASE j = k
    BY <1>5, <2>1 DEF field
  <2>2. CASE j # k
    BY <1>1, <1>3, <1>5, <2>2, FieldNames
  <2> QED BY <2>1, <2>2
<1>7. HasRead(new, d, S \cup {k})
  BY <1>5, <1>6 DEF HasRead
<1> QED BY <1>4, <1>7 DEF field, new

LEMMA FieldByField ==
  ASSUME NEW d, NEW order \in Injection(1..4, 1..4)
  PROVE  Says(ModelIn([n \in 1..4 |-> FieldsOf(d)[order[n]]]), d)
<1> DEFINE command == [n \in 1..4 |-> FieldsOf(d)[order[n]]]
           o(n) == order[n]
           m1 == Unmarshal(EmptyModel, FieldsOf(d)[o(1)])
           m2 == Unmarshal(m1, FieldsOf(d)[o(2)])
           m3 == Unmarshal(m2, FieldsOf(d)[o(3)])
           m4 == Unmarshal(m3, FieldsOf(d)[o(4)])
<1>1. /\ order \in [1..4 -> 1..4] /\ \A a, b \in 1..4 : order[a] = order[b] => a = b
  BY DEF Injection, IsInjective
<1>2. {o(1), o(2), o(3), o(4)} = 1..4
  <2>1. /\ o(1) \in 1..4 /\ o(2) \in 1..4 /\ o(3) \in 1..4 /\ o(4) \in 1..4
        /\ o(1) # o(2) /\ o(1) # o(3) /\ o(1) # o(4) /\ o(2) # o(3) /\ o(2) # o(4) /\ o(3) # o(4)
    BY <1>1
  <2> QED BY <2>1
<1>3. o(1) \in 1..4 /\ o(2) \in 1..4 /\ o(3) \in 1..4 /\ o(4) \in 1..4
  BY <1>1
<1>4. Len(command) = 4 /\ \A n \in 1..4 : command[n] = FieldsOf(d)[o(n)]
  OBVIOUS
<1>5. ModelIn(command) = m4
  <2> HIDE DEF command
  <2> QED BY <1>4, ModelOfFour
<1> HIDE DEF o
<1>6. HasRead(EmptyModel, d, {})
  BY DEF HasRead, EmptyModel, ModelFields
<1>7. HasRead(m1, d, {} \cup {o(1)})
  BY <1>3, <1>6, ReadsField
<1> HIDE DEF m1
<1>8. HasRead(m2, d, ({} \cup {o(1)}) \cup {o(2)})
  <2>1. {} \cup {o(1)} \in SUBSET (1..4)
    BY <1>3
  <2> QED BY <1>3, <1>7, <2>1, ReadsField
<1> HIDE DEF m2
<1>9. HasRead(m3, d, (({} \cup {o(1)}) \cup {o(2)}) \cup {o(3)})
  <2>1. ({} \cup {o(1)}) \cup {o(2)} \in SUBSET (1..4)
    BY <1>3
  <2> QED BY <1>3, <1>8, <2>1, ReadsField
<1> HIDE DEF m3
<1>10. HasRead(m4, d, ((({} \cup {o(1)}) \cup {o(2)}) \cup {o(3)}) \cup {o(4)})
  <2>1. (({} \cup {o(1)}) \cup {o(2)}) \cup {o(3)} \in SUBSET (1..4)
    BY <1>3
  <2> QED BY <1>3, <1>9, <2>1, ReadsField
<1> HIDE DEF m4
<1>11. ((({} \cup {o(1)}) \cup {o(2)}) \cup {o(3)}) \cup {o(4)} = 1..4
  BY <1>2
<1>12. HasRead(m4, d, 1..4)
  BY <1>10, <1>11
<1>13. Says(m4, d)
  BY <1>12 DEF HasRead, FieldsOf, Says
<1> QED BY <1>5, <1>13 DEF command

\* Whichever way the name is written, it is read as it is.
LEMMA EveryWaySays ==
  ASSUME NEW d \in Descriptors, NEW command \in WaysToWrite(d)
  PROVE  Says(ModelIn(command), d)
<1> DEFINE f == Family[d]
           full == concat_full_name(f.package_name, Version[d], f.interface_name, f.interface_version)
           text == Spelled(f.package_name, Numeral[Version[d]], f.interface_name,
                           Numeral[f.interface_version])
           called == text \o <<":", "capability">>
           device == <<"device", "@">>
<1>1. full = text
  BY FullName
<1>2. \/ command \in {<< <<"interface", t>> >> : t \in {text, device \o text, called, device \o called}}
      \/ \E order \in Injection(1..4, 1..4) : command = [n \in 1..4 |-> FieldsOf(d)[order[n]]]
  <2>1. device \o text \o <<":", "capability">> = device \o called
    BY DEF Spelled
  <2> HIDE DEF text, full
  <2> QED BY <1>1, <2>1 DEF WaysToWrite, FieldsOf, full
<1>3. ASSUME NEW t \in {text, device \o text, called, device \o called}
      PROVE  Says(az_ulib_ipc_split_method_name(t), d)
  <2>1. /\ ~Cuts(text, "@") /\ ~Cuts(text, ":")
        /\ Cuts(called, ":") /\ Before(called, ":") = text /\ ~Cuts(called, "@")
        /\ \A u \in {text, called} : Cuts(device \o u, "@") /\ After(device \o u, "@") = u
    <3>1. {f.package_name, Numeral[Version[d]], f.interface_name, Numeral[f.interface_version]}
            \cap Separators = {}
      BY TokensOf
    <3> HIDE DEF f
    <3> QED BY <3>1, Around, ZenonT(60)
  <2> HIDE DEF text, called, device
  <2>2. ASSUME NEW u \in {text, called}
        PROVE  text = IF Cuts(u, ":") THEN Before(u, ":") ELSE u
    BY <2>1
  <2>3. \E u \in {text, called} : u = IF Cuts(t, "@") THEN After(t, "@") ELSE t
    BY <1>3, <2>1
  <2> QED BY <2>2, <2>3, SplitSays DEF text
<1>4. CASE \E order \in Injection(1..4, 1..4) : command = [n \in 1..4 |-> FieldsOf(d)[order[n]]]
  BY <1>4, FieldByField
<1> HIDE DEF text, called, device
<1> QED BY <1>2, <1>3, <1>4, InterfaceField

-----------------------------------------------------------------------------
(***************************************************************************)
(* What is published has a version, and its name leads to its slot.        *)
(***************************************************************************)
VersionsAreGiven == \A s \in Slots : descriptor[s] # NoDescriptor => Version[descriptor[s]] # AnyVersion

LEMMA NextVersions ==
  ASSUME IInv, VersionsAreGiven, IpcStep
  PROVE  VersionsAreGiven'
<1>1. CASE SlotsEmptied
  BY <1>1 DEF SlotsEmptied, VersionsAreGiven
<1>2. CASE SlotFilled
  BY <1>2 DEF SlotFilled, VersionsAreGiven
<1> QED BY <1>1, <1>2, TableChanges

LEMMA NameLeadsToSlot ==
  ASSUME IInv, VersionsAreGiven, NEW s \in Slots, descriptor[s] # NoDescriptor
  PROVE  lookup_interface(NameOf(descriptor[s])) = s
<1> DEFINE name == NameOf(descriptor[s])
           x == lookup_interface(name)
<1>1. name.family = Family[descriptor[s]] /\ name.version = Version[descriptor[s]] /\ name.version # AnyVersion
  BY DEF NameOf, VersionsAreGiven
<1>2. Matches(name, s)
  BY <1>1 DEF Matches
<1>3. x \in Slots /\ Matches(name, x)
  <2> HIDE DEF name
  <2>1. x # NoSlot
    BY <1>2, LookupFinds
  <2> QED BY <2>1, LookupFinds
<1> HIDE DEF x
<1>4. descriptor[x] # NoDescriptor /\ NameOf(descriptor[x]) = name
  BY <1>1, <1>3 DEF Matches, NameOf
<1>5. x = s
  BY <1>3, <1>4 DEF IInv, UniqueNames
<1> QED BY <1>5 DEF x

LEMMA TargetIsName ==
  ASSUME NEW d \in Descriptors, NEW model, Says(model, d), Version[d] # AnyVersion
  PROVE  IsComplete(model) /\ TargetName(model) = NameOf(d)
<1> DEFINE f == Family[d]
<1>1. f = [package_name |-> f.package_name, interface_name |-> f.interface_name,
           interface_version |-> f.interface_version]
  BY FamilyIsSpelledOut
<1>2. f.interface_version # AZ_ULIB_VERSION_DEFAULT /\ Version[d] # AZ_ULIB_VERSION_DEFAULT
  BY FamilyIsSpelledOut DEF AnyVersion, AZ_ULIB_VERSION_DEFAULT
<1>3. model.package_name # << >> /\ model.interface_name # << >>
  BY DEF Says
<1>4. IsComplete(model)
  BY <1>2, <1>3 DEF Says, IsComplete
<1>5. TargetName(model) = [family |-> [package_name |-> f.package_name,
                                       interface_name |-> f.interface_name,
                                       interface_version |-> f.interface_version],
                           version |-> Version[d]]
  BY DEF Says, TargetName
<1> QED BY <1>1, <1>4, <1>5 DEF NameOf

\* The names that query reports and that the registry has for keys, written to the
\* interface manager in any of the ways, lead it to the interface they are of.
THEOREM NamesLeadToInterfaces == QuerySpec => []NamesLeadBack
<1>1. QueryInit => VersionsAreGiven
  BY DEF QueryInit, Init, VersionsAreGiven
<1>2. IInv /\ VersionsAreGiven /\ [QueryNext]_queryVars => VersionsAreGiven'
  BY QueryStepIsIpcStep, NextVersions
<1>3. ASSUME IInv, VersionsAreGiven
      PROVE  NamesLeadBack
  <2> SUFFICES ASSUME NEW s \in Slots, Published(s), NEW model \in Understood[descriptor[s]]
               PROVE  IsComplete(model) /\ lookup_interface(TargetName(model)) = s
    BY DEF NamesLeadBack
  <2>1. descriptor[s] # NoDescriptor /\ descriptor[s] \in Descriptors
    BY <1>3 DEF Published, IInv, TypeOK, SlotsConsistent
  <2>2. PICK command \in WaysToWrite(descriptor[s]) : model = ModelIn(command)
    BY <2>1 DEF Understood
  <2>3. Says(model, descriptor[s])
    BY <2>1, <2>2, EveryWaySays
  <2>4. IsComplete(model) /\ TargetName(model) = NameOf(descriptor[s])
    BY <1>3, <2>1, <2>3, TargetIsName DEF VersionsAreGiven
  <2>5. lookup_interface(NameOf(descriptor[s])) = s
    BY <1>3, <2>1, NameLeadsToSlot
  <2> QED BY <2>4, <2>5
<1> QED BY <1>1, <1>2, <1>3, QueryKeepsIpc, PTL DEF QuerySpec
=============================================================================
