------------------------------- MODULE UStream -------------------------------
(***************************************************************************)
(* The uStreams of azure-ulib-c: instances over reference-counted control  *)
(* blocks.  A control block holds a buffer (ustream.c) or the two          *)
(* instances of a concatenation (ustream_aux.c), which all instances of    *)
(* the concatenation share.                                                *)
(*                                                                         *)
(* An instance is used by one thread only, the control blocks by all: a    *)
(* call that touches its instance alone is one step; a read takes a step   *)
(* for each critical section, dispose one for each access to a counter.    *)
(***************************************************************************)
EXTENDS UStreamBuffer, Sequences, FiniteSets

CONSTANTS
  Instances,            \* az_ulib_ustream variables
  Buffers, Multis,      \* control blocks of buffers and of concatenations
  Content,              \* buffer -> its bytes
  Offsets,              \* offsets callers pass to az_ulib_ustream_clone
  Targets,              \* positions callers pass to set_position, release and split
  ReadSizes,            \* sizes of the local buffers
  AnyCaller,            \* callers split and concatenate where the code goes wrong too
  Overlapping,          \* control blocks whose instances are disposed of concurrently
  NoBlock

Blocks == Buffers \cup Multis
NoInstance == Instance(NoBlock, 0)
Sides == {"one", "two"}

\* A buffer has data, and no more than a size_t counts (az_ulib_ustream.c:250).
ASSUME BlocksAssumption ==
  /\ Buffers \cap Multis = {}
  /\ NoBlock \notin Blocks
  /\ \A b \in Buffers :
       /\ Content[b] \in Seq({Content[b][k] : k \in DOMAIN Content[b]})
       /\ Len(Content[b]) \in 1..UINT32_MAX
  /\ Offsets \cup Targets \subseteq Positions
  /\ ReadSizes \subseteq Nat \ {0}
  /\ AnyCaller \in BOOLEAN
  /\ Overlapping \subseteq Blocks
  /\ IsFiniteSet(Instances) /\ IsFiniteSet(Multis)

NoRead == [side |-> "one", left |-> 0, bytes |-> << >>]
Disposing == {"drop_two", "check_one", "recheck_one", "check_two", "recheck_two", "drop", "recheck"}
Locations == {"idle", "reading"} \cup Disposing

VARIABLES
  made,                 \* the control blocks that were initialized
  ref_count,            \* of each control block
  part,                 \* the two instances inside each concatenation
  part_refs,            \* ustream_one_ref_count and ustream_two_ref_count
  stream,               \* the instances
  pc,                   \* where the thread of each instance is
  local,                \* the read of a concatenation in progress
  read,                 \* the bytes of the read that has just returned
  released              \* how often data_release was called for each block

shared == <<made, ref_count, part, part_refs, released>>
vars == <<shared, stream, pc, local, read>>

-----------------------------------------------------------------------------
Open(i) == stream[i].control_block # NoBlock /\ pc[i] = "idle"
Vacant(i) == stream[i] = NoInstance
IsMulti(i) == stream[i].control_block \in Multis
BlockOf(i) == stream[i].control_block
PartBlock(m, side) == part[m][side].control_block

Update(i, u) == stream' = [stream EXCEPT ![i] = u]
Goto(i, location) == pc' = [pc EXCEPT ![i] = location]
NothingRead == read' = << >>

\* AZ_ULIB_PORT_ATOMIC_INC_W and _DEC_W.
\* Mutant: the increment is forgotten.
Inc_Forgotten(count, b) == count
Inc(count, b) == [count EXCEPT ![b] = @ + 1]
Dec(count, b) == [count EXCEPT ![b] = @ - 1]

\* data_release and control_block_release.
Destroy(b) == released' = [released EXCEPT ![b] = @ + 1]

-----------------------------------------------------------------------------
(***************************************************************************)
(* Creating, moving and releasing.                                         *)
(***************************************************************************)
az_ulib_ustream_init(i, b) ==
  /\ Vacant(i) /\ b \notin made
  /\ made' = made \cup {b}
  /\ ref_count' = [ref_count EXCEPT ![b] = 1]
  /\ Update(i, Instance(b, Len(Content[b])))
  /\ NothingRead /\ UNCHANGED <<part, part_refs, pc, local, released>>

SetPosition(i, position) ==
  /\ Open(i)
  /\ Update(i, set_position(stream[i], position))
  /\ NothingRead /\ UNCHANGED <<shared, pc, local>>

Reset(i) ==
  /\ Open(i)
  /\ Update(i, reset(stream[i]))
  /\ NothingRead /\ UNCHANGED <<shared, pc, local>>

Release(i, position) ==
  /\ Open(i)
  /\ Update(i, release(stream[i], position))
  /\ NothingRead /\ UNCHANGED <<shared, pc, local>>

\* The counters a clone of u increments.
\* Mutant: the parts are not counted.
CloneRefs_OwnOnly(u) ==
  /\ ref_count' = Inc(ref_count, u.control_block)
  /\ UNCHANGED part_refs
CloneRefs(u) ==
  /\ ref_count' = Inc(ref_count, u.control_block)
  /\ part_refs' = IF u.control_block \in Multis
                  THEN [part_refs EXCEPT ![u.control_block] = [s \in Sides |-> @[s] + 1]]
                  ELSE part_refs

Clone(j, i, offset) ==
  /\ Open(i) /\ Vacant(j)
  /\ Clonable(stream[i], offset)                         \* else AZ_ERROR_ARG
  /\ Update(j, clone(stream[i], offset))
  /\ CloneRefs(stream[i])
  /\ NothingRead /\ UNCHANGED <<made, part, pc, local, released>>

-----------------------------------------------------------------------------
(***************************************************************************)
(* Reading.  A buffer is copied at once; a concatenation is read part      *)
(* after part, each in a critical section that first moves the part, which *)
(* other instances move too.                                               *)
(***************************************************************************)
Bytes(u, n) ==
  [k \in 1..CopySize(u, n) |-> Content[u.control_block][u.inner_current_position + k]]

ReadBuffer(i, n) ==
  LET bytes == Bytes(stream[i], n) IN
  /\ Open(i) /\ ~IsMulti(i)
  /\ Update(i, Advance(stream[i], Len(bytes)))
  /\ read' = bytes
  /\ UNCHANGED <<shared, pc, local>>

StartRead(i, n) ==
  /\ Open(i) /\ IsMulti(i)
  /\ Goto(i, "reading")
  /\ local' = [local EXCEPT ![i] = [bytes |-> << >>, left |-> n,
       side |-> IF stream[i].inner_current_position < part[BlockOf(i)].one.length
                THEN "one" ELSE "two"]]
  /\ NothingRead /\ UNCHANGED <<shared, stream>>

\* set_position on the part; its result is not looked at.
\* Mutant: the part is read from wherever it was left.
Moved_Not(i) == part[BlockOf(i)][local[i].side]
Moved(i) ==
  set_position(part[BlockOf(i)][local[i].side],
               stream[i].inner_current_position + Len(local[i].bytes))

ReadPart(i) ==
  LET u == Moved(i)
      bytes == local[i].bytes \o Bytes(u, local[i].left)
      left == local[i].left - CopySize(u, local[i].left)
  IN
  /\ pc[i] = "reading"
  /\ u.control_block # NoBlock
  /\ part' = [part EXCEPT ![BlockOf(i)][local[i].side] = Advance(u, CopySize(u, local[i].left))]
  /\ \/ \* the first part is exhausted: go on with the second
        /\ left > 0 /\ local[i].side = "one"
        /\ local' = [local EXCEPT ![i] = [side |-> "two", left |-> left, bytes |-> bytes]]
        /\ NothingRead /\ UNCHANGED <<stream, pc>>
     \/ \* the buffer is full or there is no more data
        /\ left = 0 \/ local[i].side = "two"
        /\ local' = [local EXCEPT ![i] = NoRead]
        /\ read' = bytes
        /\ Update(i, Advance(stream[i], Len(bytes)))
        /\ Goto(i, "idle")
  /\ UNCHANGED <<made, ref_count, part_refs, released>>

-----------------------------------------------------------------------------
(***************************************************************************)
(* az_ulib_ustream_concat and az_ulib_ustream_split.                       *)
(***************************************************************************)

\* The instance to append to and the one to append are of single buffers: this
\* bounds the nesting of concatenations.  A base with an offset of its own goes
\* wrong, since reads pass inner positions where the base expects logical ones.
ConcatIsSound(i, j) ==
  /\ stream[i].offset_diff = 0
  /\ Clonable(stream[j], stream[i].length)

Concat(i, j, m) ==
  LET u == stream[i]
      two == clone(stream[j], u.length)
  IN
  /\ i # j /\ Open(i) /\ Open(j) /\ ~IsMulti(i) /\ ~IsMulti(j)
  /\ m \notin made
  /\ AnyCaller \/ ConcatIsSound(i, j)
  /\ made' = made \cup {m}
  /\ IF Clonable(stream[j], u.length)
     THEN /\ part' = [part EXCEPT ![m] = [one |-> u, two |-> two]]
          /\ part_refs' = [part_refs EXCEPT ![m] = [one |-> 1, two |-> 1]]
          /\ ref_count' = Inc([ref_count EXCEPT ![m] = 1], two.control_block)
          /\ Update(i, [u EXCEPT !.control_block = m,
                                 !.length = Wrap(@ + get_remaining_size(two))])
     ELSE \* AZ_ERROR_ARG, but the instance is a concatenation with nothing now
          /\ part' = [part EXCEPT ![m] = [one |-> u, two |-> NoInstance]]
          /\ part_refs' = [part_refs EXCEPT ![m] = [one |-> 1, two |-> 0]]
          /\ ref_count' = [ref_count EXCEPT ![m] = 1]
          /\ Update(i, [u EXCEPT !.control_block = m])
  /\ NothingRead /\ UNCHANGED <<pc, local, released>>

\* Where the length split computes is the inner position of the split, where it
\* is not below the current position, and where a read looks at it.
SplitIsSound(i, position) ==
  /\ stream[i].offset_diff = stream[i].inner_first_valid_position
  /\ Inner(stream[i], position) > stream[i].inner_current_position
  /\ ~IsMulti(i)

Split(i, j, position) ==
  LET u == stream[i]
      moved == set_position(u, position)
  IN
  /\ Open(i) /\ Vacant(j)
  /\ position \notin {get_position(u), Wrap(get_position(u) + get_remaining_size(u))}  \* AZ_ERROR_ARG
  /\ Reaches(u, position)                                \* else AZ_ERROR_ITEM_NOT_FOUND
  /\ Clonable(u, position)                               \* else AZ_ERROR_ARG
  /\ AnyCaller \/ SplitIsSound(i, position)
  /\ stream' = [stream EXCEPT
       ![i] = [u EXCEPT !.length = Wrap(position - u.inner_first_valid_position)],
       ![j] = clone(moved, position)]
  /\ CloneRefs(u)
  /\ NothingRead /\ UNCHANGED <<made, part, pc, local, released>>

-----------------------------------------------------------------------------
(***************************************************************************)
(* az_ulib_ustream_dispose: every decrement is followed by a second read   *)
(* of the counter.                                                         *)
(***************************************************************************)
MayDispose(i) ==
  /\ Open(i)
  /\ \A j \in Instances : pc[j] \in Disposing => {BlockOf(i), BlockOf(j)} \subseteq Overlapping

DisposeBuffer(i) ==
  /\ MayDispose(i) /\ ~IsMulti(i)
  /\ ref_count' = Dec(ref_count, BlockOf(i))
  /\ Goto(i, "recheck")
  /\ NothingRead /\ UNCHANGED <<made, part, part_refs, stream, local, released>>

DisposeMulti(i) ==
  /\ MayDispose(i) /\ IsMulti(i)
  /\ part_refs' = [part_refs EXCEPT ![BlockOf(i)].one = @ - 1]
  /\ Goto(i, "drop_two")
  /\ NothingRead /\ UNCHANGED <<made, ref_count, part, stream, local, released>>

DropTwo(i) ==
  /\ pc[i] = "drop_two"
  /\ part_refs' = [part_refs EXCEPT ![BlockOf(i)].two = @ - 1]
  /\ Goto(i, "check_one")
  /\ NothingRead /\ UNCHANGED <<made, ref_count, part, stream, local, released>>

\* The nested dispose of a part nobody refers to any more.
\* Mutant: the part is disposed of by everybody.
LastUser_Always(m, side) == PartBlock(m, side) # NoBlock
LastUser(m, side) == part_refs[m][side] = 0 /\ PartBlock(m, side) # NoBlock

CheckPart(i, side, here, recheck, next) ==
  /\ pc[i] = here
  /\ IF LastUser(BlockOf(i), side)
     THEN ref_count' = Dec(ref_count, PartBlock(BlockOf(i), side)) /\ Goto(i, recheck)
     ELSE Goto(i, next) /\ UNCHANGED ref_count
  /\ NothingRead /\ UNCHANGED <<made, part, part_refs, stream, local, released>>

\* Mutants: compared with the count before the decrement; off by one.
Unused_Before(b) == ref_count[b] = 1
Unused_OffByOne(b) == ref_count[b] <= 1
Unused(b) == ref_count[b] = 0

RecheckPart(i, side, here, next) ==
  /\ pc[i] = here
  /\ IF Unused(PartBlock(BlockOf(i), side))
     THEN Destroy(PartBlock(BlockOf(i), side)) ELSE UNCHANGED released
  /\ Goto(i, next)
  /\ NothingRead /\ UNCHANGED <<made, ref_count, part, part_refs, stream, local>>

Drop(i) ==
  /\ pc[i] = "drop"
  /\ ref_count' = Dec(ref_count, BlockOf(i))
  /\ Goto(i, "recheck")
  /\ NothingRead /\ UNCHANGED <<made, part, part_refs, stream, local, released>>

Recheck(i) ==
  /\ pc[i] = "recheck"
  /\ IF Unused(BlockOf(i)) THEN Destroy(BlockOf(i)) ELSE UNCHANGED released
  /\ Update(i, NoInstance)
  /\ Goto(i, "idle")
  /\ NothingRead /\ UNCHANGED <<made, ref_count, part, part_refs, local>>

DisposeStep(i) ==
  \/ DropTwo(i)
  \/ CheckPart(i, "one", "check_one", "recheck_one", "check_two")
  \/ RecheckPart(i, "one", "recheck_one", "check_two")
  \/ CheckPart(i, "two", "check_two", "recheck_two", "drop")
  \/ RecheckPart(i, "two", "recheck_two", "drop")
  \/ Drop(i)
  \/ Recheck(i)

-----------------------------------------------------------------------------
Init ==
  /\ made = {}
  /\ ref_count = [b \in Blocks |-> 0]
  /\ part = [m \in Multis |-> [s \in Sides |-> NoInstance]]
  /\ part_refs = [m \in Multis |-> [s \in Sides |-> 0]]
  /\ stream = [i \in Instances |-> NoInstance]
  /\ pc = [i \in Instances |-> "idle"]
  /\ local = [i \in Instances |-> NoRead]
  /\ read = << >>
  /\ released = [b \in Blocks |-> 0]

Next ==
  \E i \in Instances :
    \/ \E b \in Buffers : az_ulib_ustream_init(i, b)
    \/ \E p \in Targets : SetPosition(i, p) \/ Release(i, p)
    \/ Reset(i)
    \/ \E n \in ReadSizes : ReadBuffer(i, n) \/ StartRead(i, n)
    \/ ReadPart(i)
    \/ \E j \in Instances :
         \/ \E offset \in Offsets : Clone(j, i, offset)
         \/ \E m \in Multis : Concat(i, j, m)
         \/ \E p \in Targets : Split(i, j, p)
    \/ DisposeBuffer(i)
    \/ DisposeMulti(i)
    \/ DisposeStep(i)

Spec == Init /\ [][Next]_vars

\* A call that was started is scheduled until it returns.
Fairness == \A i \in Instances : WF_vars(ReadPart(i)) /\ WF_vars(DisposeStep(i))
FairSpec == Spec /\ Fairness

-----------------------------------------------------------------------------
(***************************************************************************)
(* Who refers to what.  An instance gives up its own block with its last   *)
(* decrement, and the parts of its concatenation one after the other.      *)
(***************************************************************************)
Refers(i, b) == BlockOf(i) = b /\ pc[i] # "recheck"

NotYet(side) ==
  CASE side = "one" -> {"idle", "reading"}
    [] side = "two" -> {"idle", "reading", "drop_two"}

PartUsers(m, side) == {i \in Instances : BlockOf(i) = m /\ pc[i] \in NotYet(side)}

\* The block of a part is still counted until the last user has disposed of it.
Undisposed(side) ==
  CASE side = "one" -> {"drop_two", "check_one"}
    [] side = "two" -> {"drop_two", "check_one", "recheck_one", "check_two"}

PartHolds(m, side) ==
  \/ PartUsers(m, side) # {}
  \/ \E i \in Instances : BlockOf(i) = m /\ pc[i] \in Undisposed(side)

Users(b) == {i \in Instances : Refers(i, b)}
HeldParts(b) ==
  {r \in Multis \X Sides : PartBlock(r[1], r[2]) = b /\ PartHolds(r[1], r[2])}

-----------------------------------------------------------------------------
TypeOK ==
  /\ made \subseteq Blocks
  /\ ref_count \in [Blocks -> Nat]
  /\ part \in [Multis -> [Sides -> InstancesOf(Buffers \cup {NoBlock})]]
  /\ part_refs \in [Multis -> [Sides -> Nat]]
  /\ stream \in [Instances -> InstancesOf(Blocks \cup {NoBlock})]
  /\ pc \in [Instances -> Locations]
  /\ \A i \in Instances : local[i].side \in Sides /\ local[i].left \in Nat
  /\ released \in [Blocks -> Nat]

\* A control block is counted once by each instance and by each part of a
\* concatenation that refers to it: clone, split and concat count what they
\* create, dispose what it ends (ustream.c:66, 229; ustream_aux.c:231-240, 260-276).
RefCounts ==
  /\ \A b \in made : ref_count[b] = Cardinality(Users(b)) + Cardinality(HeldParts(b))
  /\ \A m \in Multis \cap made, s \in Sides :
       PartBlock(m, s) # NoBlock => part_refs[m][s] = Cardinality(PartUsers(m, s))

\* data_release is not called while an instance that is not being disposed of
\* can still read the data, directly or as part of a concatenation.
Reachable(i) ==
  {BlockOf(i)} \cup (IF IsMulti(i) THEN {PartBlock(BlockOf(i), s) : s \in Sides} ELSE {})

NoReadAfterRelease ==
  \A i \in Instances :
    pc[i] \notin Disposing => \A b \in Reachable(i) \cap made : released[b] = 0

\* data_release is called once (ustream_base.h:165-167: access to what instances
\* share is thread safe).  Not true when two disposals overlap.
ReleasedOnce == \A b \in Blocks : released[b] <= 1

\* What nobody refers to any more is released in the end.
DataIsReleased == \A b \in Blocks : (b \in made /\ ref_count[b] = 0) ~> released[b] # 0

-----------------------------------------------------------------------------
(***************************************************************************)
(* Each instance is a ByteStream.                                          *)
(***************************************************************************)
ByteAt(u, k) ==
  LET m == u.control_block
      p == IF m \in Buffers THEN u
           ELSE IF k < part[m].one.length THEN part[m].one ELSE part[m].two
  IN Content[p.control_block][(IF m \in Buffers THEN k ELSE Inner(p, k)) + 1]

View(i) ==
  IF BlockOf(i) = NoBlock \/ pc[i] \in Disposing THEN NoInstance
  ELSE LET u == stream[i] IN
       [bytes |-> [k \in 1..(u.length - u.inner_first_valid_position) |->
                     ByteAt(u, u.inner_first_valid_position + k - 1)],
        first |-> Wrap(u.inner_first_valid_position + u.offset_diff),
        at |-> get_position(u)]

Abstract == INSTANCE ByteStream WITH
  stream <- [i \in Instances |-> View(i)],
  Contents <- {Content[b] : b \in Buffers},
  Numbers <- Positions, Closed <- NoInstance

StreamSpec == Abstract!Spec
=============================================================================
