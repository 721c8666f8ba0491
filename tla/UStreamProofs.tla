---------------------------- MODULE UStreamProofs ----------------------------
(***************************************************************************)
(* Proofs about UStream.                                                   *)
(*                                                                         *)
(* First about its reference counts: what is counted, when the data of a   *)
(* control block is released, and who can still read it then.              *)
(*                                                                         *)
(* Then about what the uStreams show their callers: that each instance is  *)
(* a ByteStream of its own, although instances share control blocks, a     *)
(* concatenation moves its parts while others read them, and positions are *)
(* computed modulo UINT32_MAX + 1.                                         *)
(***************************************************************************)
EXTENDS UStream, TLAPS, FiniteSetTheorems, SequenceTheorems

-----------------------------------------------------------------------------
(***************************************************************************)
(* The fields of an instance.  The counts do not depend on positions: they *)
(* are integers here, whatever callers pass.                               *)
(***************************************************************************)
InstanceValues ==
  [control_block : Blocks \cup {NoBlock}, offset_diff : Int,
   inner_current_position : Int, inner_first_valid_position : Int, length : Int]

Byte == UNION {{Content[b][k] : k \in Int} : b \in Blocks \cup {NoBlock}}

LEMMA WrapType ==
  ASSUME NEW n \in Int
  PROVE  Wrap(n) \in Positions
BY PositionAssumption DEF Wrap, Positions

LEMMA InstanceType ==
  ASSUME NEW b \in Blocks \cup {NoBlock}, NEW n \in Int
  PROVE  Instance(b, n) \in InstanceValues /\ Instance(b, n).control_block = b
BY DEF Instance, InstanceValues

\* The calls on an instance keep its control block.
LEMMA CallTypes ==
  ASSUME NEW u \in InstanceValues, NEW n \in Int
  PROVE  /\ set_position(u, n) \in InstanceValues /\ set_position(u, n).control_block = u.control_block
         /\ reset(u) \in InstanceValues /\ reset(u).control_block = u.control_block
         /\ release(u, n) \in InstanceValues /\ release(u, n).control_block = u.control_block
         /\ clone(u, n) \in InstanceValues /\ clone(u, n).control_block = u.control_block
         /\ Advance(u, n) \in InstanceValues /\ Advance(u, n).control_block = u.control_block
         /\ Inner(u, n) \in Positions /\ get_remaining_size(u) \in Positions
<1>1. \A k \in Int : Wrap(k) \in Int /\ Wrap(k) \in Positions
  BY WrapType DEF Positions
<1>2. Inner(u, n) \in Positions /\ Inner(u, n) \in Int /\ get_remaining_size(u) \in Positions
  BY <1>1 DEF Inner, InstanceValues, get_remaining_size
<1>3. set_position(u, n) \in InstanceValues /\ set_position(u, n).control_block = u.control_block
  BY <1>2 DEF set_position, InstanceValues
<1>4. release(u, n) \in InstanceValues /\ release(u, n).control_block = u.control_block
  BY <1>2 DEF release, InstanceValues
<1>5. clone(u, n) \in InstanceValues /\ clone(u, n).control_block = u.control_block
  <2>1. Wrap(n - u.inner_current_position) \in Int
    BY <1>1 DEF InstanceValues
  <2> QED BY <2>1 DEF clone, InstanceValues
<1>6. reset(u) \in InstanceValues /\ reset(u).control_block = u.control_block
  BY DEF reset, InstanceValues
<1>7. Advance(u, n) \in InstanceValues /\ Advance(u, n).control_block = u.control_block
  BY DEF Advance, InstanceValues
<1> QED BY <1>2, <1>3, <1>4, <1>5, <1>6, <1>7

\* A read into a buffer of n bytes returns no more than that.
LEMMA BytesType ==
  ASSUME NEW u \in InstanceValues, NEW n \in Nat
  PROVE  /\ CopySize(u, n) \in 0..n
         /\ Bytes(u, n) \in Seq(Byte) /\ Len(Bytes(u, n)) = CopySize(u, n)
<1>1. CopySize(u, n) \in 0..n
  <2>1. get_remaining_size(u) \in Nat
    BY CallTypes DEF Positions
  <2> QED BY <2>1 DEF CopySize
<1>2. \A k \in 1..CopySize(u, n) : Content[u.control_block][u.inner_current_position + k] \in Byte
  <2>1. u.control_block \in Blocks \cup {NoBlock} /\ u.inner_current_position \in Int
    BY DEF InstanceValues
  <2> SUFFICES ASSUME NEW k \in 1..CopySize(u, n)
               PROVE  Content[u.control_block][u.inner_current_position + k] \in Byte
    OBVIOUS
  <2>2. u.inner_current_position + k \in Int
    BY <1>1, <2>1
  <2>3. \A b \in Blocks \cup {NoBlock}, x \in Int : Content[b][x] \in Byte
    BY DEF Byte
  <2> HIDE DEF Byte
  <2> QED BY <2>1, <2>2, <2>3
<1>3. CopySize(u, n) \in Nat
  BY <1>1
<1> HIDE DEF Byte
<1> QED BY <1>1, <1>2, <1>3 DEF Bytes

-----------------------------------------------------------------------------
(***************************************************************************)
(* The inductive invariant.                                                *)
(***************************************************************************)
Shapes ==
  /\ made \subseteq Blocks
  /\ ref_count \in [Blocks -> Int]
  /\ part \in [Multis -> [Sides -> InstanceValues]]
  /\ part_refs \in [Multis -> [Sides -> Int]]
  /\ stream \in [Instances -> InstanceValues]
  /\ pc \in [Instances -> Locations]
  /\ local \in [Instances -> [side : Sides, left : Nat, bytes : Seq(Byte)]]
  /\ released \in [Blocks -> Nat]

\* Instances and parts are of control blocks that were initialized.
BlocksAreMade ==
  /\ \A i \in Instances : BlockOf(i) \in made \cup {NoBlock}
  /\ \A m \in Multis, s \in Sides :
       /\ PartBlock(m, s) \in (made \cap Buffers) \cup {NoBlock}
       /\ m \notin made => PartBlock(m, s) = NoBlock

\* What a thread inside a call works on.
CallsAreOnBlocks ==
  \A i \in Instances :
    /\ BlockOf(i) = NoBlock => pc[i] = "idle"
    /\ pc[i] \in Locations \ {"idle", "recheck"} => BlockOf(i) \in Multis
    /\ pc[i] = "recheck_one" => PartBlock(BlockOf(i), "one") # NoBlock
    /\ pc[i] = "recheck_two" => PartBlock(BlockOf(i), "two") # NoBlock

\* Disposals overlap only for the control blocks they may overlap for.
DisposalsApart ==
  \A i, j \in Instances :
    i # j /\ pc[i] \in Disposing /\ pc[j] \in Disposing =>
      {BlockOf(i), BlockOf(j)} \subseteq Overlapping

\* Nobody refers to what was released.
ReleasedIsUnused == \A b \in Blocks : released[b] # 0 => b \in made /\ ref_count[b] = 0

CountInv ==
  /\ Shapes
  /\ BlocksAreMade
  /\ CallsAreOnBlocks
  /\ DisposalsApart
  /\ ReleasedIsUnused
  /\ RefCounts

-----------------------------------------------------------------------------
(***************************************************************************)
(* Lemmas about the counts.                                                *)
(***************************************************************************)
LEMMA NoInstanceType == NoInstance \in InstanceValues /\ NoInstance.control_block = NoBlock
BY InstanceType DEF NoInstance

\* The sets that are counted are finite.
LEMMA CountedFinite ==
  ASSUME NEW b, NEW s
  PROVE  /\ IsFiniteSet(Users(b)) /\ Cardinality(Users(b)) \in Nat
         /\ IsFiniteSet(HeldParts(b)) /\ Cardinality(HeldParts(b)) \in Nat
         /\ IsFiniteSet(PartUsers(b, s)) /\ Cardinality(PartUsers(b, s)) \in Nat
<1>1. Users(b) \in SUBSET Instances /\ PartUsers(b, s) \in SUBSET Instances
  BY DEF Users, PartUsers
<1>2. IsFiniteSet(Users(b)) /\ IsFiniteSet(PartUsers(b, s))
  BY <1>1, BlocksAssumption, FS_Subset
<1>3. IsFiniteSet(Multis \X Sides)
  <2>1. IsFiniteSet(Sides)
    <3>1. IsFiniteSet({"one"} \cup {"two"})
      BY FS_Singleton, FS_AddElement
    <3>2. Sides = {"one"} \cup {"two"}
      BY DEF Sides
    <3> QED BY <3>1, <3>2
  <2> QED BY <2>1, BlocksAssumption, FS_Product
<1>4. HeldParts(b) \in SUBSET (Multis \X Sides)
  BY DEF HeldParts
<1>5. IsFiniteSet(HeldParts(b))
  BY <1>3, <1>4, FS_Subset
<1> QED BY <1>2, <1>5, FS_CardinalityType

\* A block in use is counted.
LEMMA InUseIsCounted ==
  ASSUME CountInv, NEW b \in made
  PROVE  /\ ref_count[b] \in Nat
         /\ \A i \in Users(b) : ref_count[b] > 0
         /\ \A r \in HeldParts(b) : ref_count[b] > 0
         /\ ref_count[b] = 0 => Users(b) = {} /\ HeldParts(b) = {}
<1>1. ref_count[b] = Cardinality(Users(b)) + Cardinality(HeldParts(b))
  BY DEF CountInv, RefCounts
<1>2. /\ Cardinality(Users(b)) \in Nat /\ Cardinality(HeldParts(b)) \in Nat
      /\ Cardinality(Users(b)) = 0 => Users(b) = {}
      /\ Cardinality(HeldParts(b)) = 0 => HeldParts(b) = {}
  BY CountedFinite, FS_EmptySet
<1> QED BY <1>1, <1>2

-----------------------------------------------------------------------------
(***************************************************************************)
(* Steps that move positions only.                                         *)
(***************************************************************************)

\* Every instance and every part keeps its control block.
BlocksStay ==
  /\ \A i \in Instances : BlockOf(i)' = BlockOf(i)
  /\ \A m \in Multis, s \in Sides : PartBlock(m, s)' = PartBlock(m, s)

\* A thread starts or ends a read of a concatenation, or stays where it is.
StaysOrReads(i) ==
  \/ pc'[i] = pc[i]
  \/ {pc[i], pc'[i]} \subseteq {"idle", "reading"} /\ BlockOf(i) \in Multis

QuietMove ==
  /\ Shapes' /\ BlocksStay /\ UNCHANGED <<made, ref_count, part_refs, released>>
  /\ \A i \in Instances : StaysOrReads(i)

LEMMA QuietStep ==
  ASSUME CountInv, QuietMove
  PROVE  CountInv'
<1> USE DEF CountInv, QuietMove
<1>1. \A i \in Instances : {pc[i], pc'[i]} \subseteq {"idle", "reading"} \/ pc'[i] = pc[i]
  BY DEF StaysOrReads
<1>2. \A b \in Blocks : Users(b)' = Users(b)
  BY <1>1 DEF Users, Refers, BlocksStay
<1>3. \A m \in Multis, s \in Sides : PartUsers(m, s)' = PartUsers(m, s)
  BY <1>1 DEF PartUsers, NotYet, Sides, BlocksStay
<1>4. \A m \in Multis, s \in Sides : PartHolds(m, s)' <=> PartHolds(m, s)
  <2>1. \A i \in Instances, s \in Sides : pc'[i] \in Undisposed(s) <=> pc[i] \in Undisposed(s)
    BY <1>1 DEF Undisposed, Sides
  <2> QED BY <1>3, <2>1 DEF PartHolds, BlocksStay
<1>5. \A b \in Blocks : HeldParts(b)' = HeldParts(b)
  BY <1>4 DEF HeldParts, BlocksStay
<1>6. RefCounts'
  BY <1>2, <1>3, <1>5 DEF RefCounts, BlocksStay, Shapes
<1>7. BlocksAreMade' /\ ReleasedIsUnused'
  BY DEF BlocksAreMade, ReleasedIsUnused, BlocksStay
<1>8. CallsAreOnBlocks'
  <2> SUFFICES ASSUME NEW i \in Instances
               PROVE  /\ BlockOf(i) = NoBlock => pc'[i] = "idle"
                      /\ pc'[i] \in Locations \ {"idle", "recheck"} => BlockOf(i) \in Multis
                      /\ pc'[i] = "recheck_one" => part'[BlockOf(i)]["one"].control_block # NoBlock
                      /\ pc'[i] = "recheck_two" => part'[BlockOf(i)]["two"].control_block # NoBlock
    BY DEF CallsAreOnBlocks, BlocksStay, PartBlock
  <2>1. CASE pc'[i] = pc[i]
    <3>1. pc[i] \in {"recheck_one", "recheck_two"} => BlockOf(i) \in Multis
      BY DEF CallsAreOnBlocks, Locations, Disposing
    <3> QED BY <2>1, <3>1 DEF CallsAreOnBlocks, BlocksStay, PartBlock, Sides
  <2>2. CASE {pc[i], pc'[i]} \subseteq {"idle", "reading"} /\ BlockOf(i) \in Multis
    BY <2>2, BlocksAssumption DEF Blocks
  <2> QED BY <2>1, <2>2 DEF StaysOrReads
<1>9. DisposalsApart'
  BY <1>1 DEF DisposalsApart, BlocksStay, Disposing
<1> QED BY <1>6, <1>7, <1>8, <1>9

\* An instance gets another value with the same control block.
LEMMA UpdateShapes ==
  ASSUME Shapes, NEW i \in Instances, NEW u \in InstanceValues,
         u.control_block = BlockOf(i), Update(i, u), UNCHANGED <<shared, pc, local>>
  PROVE  Shapes' /\ BlocksStay /\ \A j \in Instances : StaysOrReads(j)
BY DEF Shapes, Update, BlocksStay, BlockOf, PartBlock, StaysOrReads, shared

LEMMA PositionCalls ==
  ASSUME CountInv, NEW i \in Instances,
         \/ \E p \in Targets : SetPosition(i, p) \/ Release(i, p)
         \/ Reset(i)
         \/ \E n \in ReadSizes : ReadBuffer(i, n)
  PROVE  QuietMove
<1>1. /\ Shapes /\ stream[i] \in InstanceValues
      /\ UNCHANGED <<made, part, ref_count, part_refs, released, pc, local>>
  BY DEF CountInv, Shapes, SetPosition, Release, Reset, ReadBuffer, shared
<1>2. \E u \in InstanceValues : u.control_block = BlockOf(i) /\ Update(i, u)
  <2>1. ASSUME NEW p \in Targets, SetPosition(i, p) \/ Release(i, p)
        PROVE  \E u \in InstanceValues : u.control_block = BlockOf(i) /\ Update(i, u)
    <3>1. p \in Int
      BY BlocksAssumption DEF Positions
    <3> QED BY <1>1, <2>1, <3>1, CallTypes DEF SetPosition, Release, BlockOf
  <2>2. CASE Reset(i)
    BY <1>1, <2>2, CallTypes DEF Reset, BlockOf
  <2>3. ASSUME NEW n \in ReadSizes, ReadBuffer(i, n)
        PROVE  \E u \in InstanceValues : u.control_block = BlockOf(i) /\ Update(i, u)
    <3>1. n \in Nat
      BY BlocksAssumption
    <3>2. Len(Bytes(stream[i], n)) \in Int
      BY <1>1, <3>1, BytesType
    <3>3. Update(i, Advance(stream[i], Len(Bytes(stream[i], n))))
      BY <2>3 DEF ReadBuffer
    <3> QED BY <1>1, <3>2, <3>3, CallTypes DEF BlockOf
  <2> QED BY <2>1, <2>2, <2>3
<1> QED BY <1>1, <1>2, UpdateShapes DEF shared, QuietMove

LEMMA StartReadQuiet ==
  ASSUME CountInv, NEW i \in Instances, NEW n \in ReadSizes, StartRead(i, n)
  PROVE  QuietMove
<1>1. /\ pc[i] = "idle" /\ BlockOf(i) \in Multis
      /\ pc' = [pc EXCEPT ![i] = "reading"]
      /\ local' = [local EXCEPT ![i] = [bytes |-> << >>, left |-> n,
           side |-> IF stream[i].inner_current_position < part[BlockOf(i)].one.length
                    THEN "one" ELSE "two"]]
      /\ UNCHANGED <<made, ref_count, part, part_refs, released, stream>>
  BY DEF StartRead, Open, IsMulti, Goto, BlockOf, shared
<1>2. n \in Nat /\ << >> \in Seq(Byte)
  BY BlocksAssumption
<1> HIDE DEF Byte
<1>3. Shapes'
  BY <1>1, <1>2 DEF CountInv, Shapes, Sides, Locations
<1>4. BlocksStay /\ \A j \in Instances : StaysOrReads(j)
  BY <1>1 DEF CountInv, Shapes, BlocksStay, BlockOf, PartBlock, StaysOrReads
<1> QED BY <1>1, <1>3, <1>4 DEF QuietMove

LEMMA ReadPartQuiet ==
  ASSUME CountInv, NEW i \in Instances, ReadPart(i)
  PROVE  QuietMove
<1> DEFINE m == BlockOf(i)
           side == local[i].side
           u == Moved(i)
           bytes == local[i].bytes \o Bytes(u, local[i].left)
           left == local[i].left - CopySize(u, local[i].left)
           new == Advance(u, CopySize(u, local[i].left))
<1>1. /\ Shapes /\ pc[i] = "reading" /\ m \in Multis
      /\ local[i] \in [side : Sides, left : Nat, bytes : Seq(Byte)] /\ stream[i] \in InstanceValues
      /\ part[m][side] \in InstanceValues
  <2>1. pc[i] = "reading" /\ m \in Multis
    BY DEF ReadPart, CountInv, CallsAreOnBlocks, Locations
  <2> QED BY <2>1 DEF CountInv, Shapes
<1>2. Len(local[i].bytes) \in Nat /\ local[i].left \in Nat /\ side \in Sides
  BY <1>1
<1>3. u \in InstanceValues /\ u.control_block = PartBlock(m, side)
  <2>1. stream[i].inner_current_position + Len(local[i].bytes) \in Int
    BY <1>1, <1>2 DEF InstanceValues
  <2> QED BY <1>1, <2>1, CallTypes DEF Moved, PartBlock
<1>4. /\ CopySize(u, local[i].left) \in 0..local[i].left
      /\ Bytes(u, local[i].left) \in Seq(Byte)
  BY <1>2, <1>3, BytesType
<1>5. left \in Nat /\ bytes \in Seq(Byte) /\ Len(bytes) \in Nat
  <2>1. left \in Nat
    BY <1>2, <1>4
  <2> HIDE DEF Byte
  <2>2. local[i].bytes \in Seq(Byte)
    BY <1>1
  <2>3. \A s, t \in Seq(Byte) : s \o t \in Seq(Byte) /\ Len(s \o t) \in Nat
    OBVIOUS
  <2> QED BY <1>4, <2>1, <2>2, <2>3
<1>6. new \in InstanceValues /\ new.control_block = PartBlock(m, side)
  <2>1. CopySize(u, local[i].left) \in Int
    BY <1>2, <1>4
  <2> QED BY <1>3, <2>1, CallTypes
<1>7. /\ part' = [part EXCEPT ![m][side] = new]
      /\ UNCHANGED <<made, ref_count, part_refs, released>>
      /\ \/ /\ local' = [local EXCEPT ![i] = [side |-> "two", left |-> left, bytes |-> bytes]]
            /\ UNCHANGED <<stream, pc>>
         \/ /\ local' = [local EXCEPT ![i] = NoRead]
            /\ stream' = [stream EXCEPT ![i] = Advance(stream[i], Len(bytes))]
            /\ pc' = [pc EXCEPT ![i] = "idle"]
  BY DEF ReadPart, Update, Goto
<1>8. /\ Advance(stream[i], Len(bytes)) \in InstanceValues
      /\ Advance(stream[i], Len(bytes)).control_block = m
  <2> HIDE DEF Byte, bytes
  <2>1. Len(bytes) \in Int /\ stream[i].control_block = m
    BY <1>5 DEF BlockOf
  <2> QED BY <1>1, <2>1, CallTypes
<1>9. NoRead \in [side : Sides, left : Nat, bytes : Seq(Byte)]
  BY DEF NoRead, Sides
<1> HIDE DEF Byte, u, bytes, left, new, side
<1>10. /\ part' \in [Multis -> [Sides -> InstanceValues]]
       /\ \A x \in Multis, s \in Sides : PartBlock(x, s)' = PartBlock(x, s)
  BY <1>1, <1>2, <1>6, <1>7 DEF Shapes, PartBlock
<1>11. /\ local' \in [Instances -> [side : Sides, left : Nat, bytes : Seq(Byte)]]
       /\ stream' \in [Instances -> InstanceValues] /\ pc' \in [Instances -> Locations]
       /\ \A j \in Instances : BlockOf(j)' = BlockOf(j) /\ StaysOrReads(j)
  <2>1. CASE /\ local' = [local EXCEPT ![i] = [side |-> "two", left |-> left, bytes |-> bytes]]
             /\ UNCHANGED <<stream, pc>>
    BY <1>1, <1>5, <2>1 DEF Shapes, BlockOf, StaysOrReads, Sides
  <2>2. CASE /\ local' = [local EXCEPT ![i] = NoRead]
             /\ stream' = [stream EXCEPT ![i] = Advance(stream[i], Len(bytes))]
             /\ pc' = [pc EXCEPT ![i] = "idle"]
    BY <1>1, <1>8, <1>9, <2>2 DEF Shapes, BlockOf, StaysOrReads, Locations
  <2> QED BY <1>7, <2>1, <2>2
<1>12. Shapes'
  BY <1>1, <1>7, <1>10, <1>11 DEF Shapes
<1> QED BY <1>7, <1>10, <1>11, <1>12 DEF BlocksStay, QuietMove

-----------------------------------------------------------------------------
(***************************************************************************)
(* Steps that create instances.                                            *)
(***************************************************************************)

\* az_ulib_ustream_clone and az_ulib_ustream_split: j becomes another instance of
\* the block of i, and of its parts.
LEMMA CopyCount ==
  ASSUME CountInv, Shapes', NEW i \in Instances, NEW j \in Instances,
         Open(i), Vacant(j), CloneRefs(stream[i]),
         BlockOf(j)' = BlockOf(i), \A k \in Instances \ {j} : BlockOf(k)' = BlockOf(k),
         UNCHANGED <<made, part, pc, released>>
  PROVE  CountInv'
<1> USE DEF CountInv
<1>0. PICK own \in made : own = BlockOf(i)
  BY DEF Open, BlocksAreMade, BlockOf
<1>1. /\ own = BlockOf(i) /\ own \in Blocks /\ own # NoBlock /\ pc[i] = "idle"
      /\ BlockOf(j) = NoBlock /\ pc[j] = "idle" /\ j # i
  BY <1>0, NoInstanceType DEF Open, Vacant, BlocksAreMade, CallsAreOnBlocks, Shapes, BlockOf
<1>2. /\ ref_count' = [ref_count EXCEPT ![own] = @ + 1]
      /\ part_refs' = IF own \in Multis THEN [part_refs EXCEPT ![own] = [s \in Sides |-> @[s] + 1]]
                                        ELSE part_refs
  BY <1>1 DEF CloneRefs, Inc, BlockOf
<1>3. i \in Users(own) /\ j \notin Users(own)
  BY <1>1 DEF Users, Refers
<1>4. /\ Users(own)' = Users(own) \cup {j}
      /\ \A b \in Blocks \ {own} : Users(b)' = Users(b)
  BY <1>1, BlocksAssumption DEF Users, Refers
<1>5. \A m \in Multis, s \in Sides :
        /\ j \notin PartUsers(m, s)
        /\ PartUsers(m, s)' = IF m = own THEN PartUsers(m, s) \cup {j} ELSE PartUsers(m, s)
  <2>1. \A s \in Sides : "idle" \in NotYet(s)
    BY DEF NotYet, Sides
  <2> QED BY <1>1, <2>1, BlocksAssumption DEF PartUsers, Blocks
<1>6. \A m \in Multis, s \in Sides : PartHolds(m, s)' <=> PartHolds(m, s)
  <2>1. \A s \in Sides : "idle" \in NotYet(s) /\ "idle" \notin Undisposed(s)
    BY DEF NotYet, Undisposed, Sides
  <2>2. \A m \in Multis, s \in Sides : m = own => i \in PartUsers(m, s)
    BY <1>1, <2>1 DEF PartUsers
  <2>3. \A m \in Multis, s \in Sides, k \in Instances :
          BlockOf(k)' = m /\ pc[k] \in Undisposed(s) <=> BlockOf(k) = m /\ pc[k] \in Undisposed(s)
    BY <1>1, <2>1
  <2> QED BY <1>5, <2>2, <2>3 DEF PartHolds
<1>7. \A b \in Blocks : HeldParts(b)' = HeldParts(b)
  BY <1>6 DEF HeldParts, PartBlock
<1>8. RefCounts'
  <2>1. ASSUME NEW b \in made
        PROVE  ref_count'[b] = Cardinality(Users(b)') + Cardinality(HeldParts(b)')
    <3>1. b \in Blocks /\ ref_count[b] = Cardinality(Users(b)) + Cardinality(HeldParts(b))
      BY DEF Shapes, RefCounts
    <3>2. CASE b = own
      <4>1. Cardinality(Users(b)') = Cardinality(Users(b)) + 1
        BY <1>3, <1>4, <3>2, CountedFinite, FS_AddElement
      <4>2. ref_count'[b] = ref_count[b] + 1
        BY <1>2, <3>1, <3>2 DEF Shapes
      <4>3. Cardinality(Users(b)) \in Nat /\ Cardinality(HeldParts(b)) \in Nat
        BY CountedFinite
      <4> QED BY <1>7, <3>1, <4>1, <4>2, <4>3
    <3>3. CASE b # own
      BY <1>2, <1>4, <1>7, <3>1, <3>3 DEF Shapes
    <3> QED BY <3>2, <3>3
  <2>2. ASSUME NEW m \in Multis \cap made, NEW s \in Sides, PartBlock(m, s) # NoBlock
        PROVE  part_refs'[m][s] = Cardinality(PartUsers(m, s)')
    <3>1. part_refs[m][s] = Cardinality(PartUsers(m, s)) /\ part_refs \in [Multis -> [Sides -> Int]]
      BY <2>2 DEF Shapes, RefCounts
    <3>2. CASE m = own
      <4>1. part_refs'[m][s] = part_refs[m][s] + 1
        BY <1>2, <3>1, <3>2
      <4>2. Cardinality(PartUsers(m, s)') = Cardinality(PartUsers(m, s)) + 1
        BY <1>5, <3>2, CountedFinite, FS_AddElement
      <4> QED BY <3>1, <4>1, <4>2
    <3>3. CASE m # own
      BY <1>2, <1>5, <3>1, <3>3
    <3> QED BY <3>2, <3>3
  <2> QED BY <2>1, <2>2 DEF RefCounts, PartBlock
<1>9. BlocksAreMade'
  BY <1>1 DEF BlocksAreMade, PartBlock
<1>10. ReleasedIsUnused'
  <2>1. released[own] = 0
    BY <1>1, <1>3, InUseIsCounted DEF ReleasedIsUnused
  <2> QED BY <1>2, <2>1 DEF ReleasedIsUnused, Shapes
<1>11. CallsAreOnBlocks'
  BY <1>1 DEF CallsAreOnBlocks, PartBlock
<1>12. DisposalsApart'
  BY <1>1 DEF DisposalsApart, Disposing
<1> QED BY <1>8, <1>9, <1>10, <1>11, <1>12

LEMMA CloneShapes ==
  ASSUME Shapes, NEW u \in InstanceValues, u.control_block # NoBlock, CloneRefs(u),
         stream' \in [Instances -> InstanceValues], UNCHANGED <<made, part, pc, local, released>>
  PROVE  Shapes'
<1>1. u.control_block \in Blocks
  BY DEF InstanceValues
<1>2. ref_count' \in [Blocks -> Int] /\ part_refs' \in [Multis -> [Sides -> Int]]
  BY <1>1 DEF Shapes, CloneRefs, Inc
<1> QED BY <1>2 DEF Shapes

LEMMA CloneCount ==
  ASSUME CountInv, NEW i \in Instances, NEW j \in Instances, NEW offset \in Offsets, Clone(j, i, offset)
  PROVE  CountInv'
<1> DEFINE u == clone(stream[i], offset)
<1>1. /\ Open(i) /\ Vacant(j) /\ stream' = [stream EXCEPT ![j] = u] /\ CloneRefs(stream[i])
      /\ UNCHANGED <<made, part, pc, local, released>>
  BY DEF Clone, Update
<1>2. stream[i] \in InstanceValues /\ stream \in [Instances -> InstanceValues] /\ offset \in Int
  BY BlocksAssumption DEF CountInv, Shapes, Positions
<1>3. u \in InstanceValues /\ u.control_block = BlockOf(i)
  BY <1>2, CallTypes DEF BlockOf
<1> HIDE DEF u
<1>4. stream' \in [Instances -> InstanceValues]
  BY <1>1, <1>2, <1>3
<1>5. Shapes'
  BY <1>1, <1>2, <1>4, CloneShapes DEF CountInv, Open
<1>6. BlockOf(j)' = BlockOf(i) /\ \A k \in Instances \ {j} : BlockOf(k)' = BlockOf(k)
  BY <1>1, <1>2, <1>3 DEF BlockOf
<1> QED BY <1>1, <1>5, <1>6, CopyCount

LEMMA SplitCount ==
  ASSUME CountInv, NEW i \in Instances, NEW j \in Instances, NEW p \in Targets, Split(i, j, p)
  PROVE  CountInv'
<1> DEFINE head == [stream[i] EXCEPT !.length = Wrap(p - stream[i].inner_first_valid_position)]
           tail == clone(set_position(stream[i], p), p)
<1>1. /\ Open(i) /\ Vacant(j) /\ stream' = [stream EXCEPT ![i] = head, ![j] = tail]
      /\ CloneRefs(stream[i]) /\ UNCHANGED <<made, part, pc, local, released>>
  BY DEF Split
<1>2. stream[i] \in InstanceValues /\ stream \in [Instances -> InstanceValues] /\ p \in Int
  BY BlocksAssumption DEF CountInv, Shapes, Positions
<1>3. head \in InstanceValues /\ head.control_block = BlockOf(i)
  <2>1. p - stream[i].inner_first_valid_position \in Int
    BY <1>2 DEF InstanceValues
  <2>2. Wrap(p - stream[i].inner_first_valid_position) \in Int
    BY <2>1, WrapType DEF Positions
  <2> QED BY <1>2, <2>2 DEF InstanceValues, BlockOf
<1>4. tail \in InstanceValues /\ tail.control_block = BlockOf(i)
  <2>1. set_position(stream[i], p) \in InstanceValues
        /\ set_position(stream[i], p).control_block = BlockOf(i)
    BY <1>2, CallTypes DEF BlockOf
  <2> QED BY <1>2, <2>1, CallTypes
<1> HIDE DEF head, tail
<1>5. i # j
  BY <1>1, NoInstanceType DEF Open, Vacant
<1>6. stream' \in [Instances -> InstanceValues]
  BY <1>1, <1>2, <1>3, <1>4
<1>7. Shapes'
  BY <1>1, <1>2, <1>6, CloneShapes DEF CountInv, Open
<1>8. BlockOf(j)' = BlockOf(i) /\ \A k \in Instances \ {j} : BlockOf(k)' = BlockOf(k)
  BY <1>1, <1>2, <1>3, <1>4, <1>5 DEF BlockOf
<1> QED BY <1>1, <1>7, <1>8, CopyCount

LEMMA CreateCount ==
  ASSUME CountInv, NEW i \in Instances, NEW b \in Buffers, az_ulib_ustream_init(i, b)
  PROVE  CountInv'
<1> DEFINE u == Instance(b, Len(Content[b]))
<1>1. /\ Vacant(i) /\ b \notin made
      /\ made' = made \cup {b} /\ ref_count' = [ref_count EXCEPT ![b] = 1]
      /\ stream' = [stream EXCEPT ![i] = u]
      /\ UNCHANGED <<part, part_refs, pc, local, released>>
  BY DEF az_ulib_ustream_init, Update
<1>2. u \in InstanceValues /\ u.control_block = b
  BY BlocksAssumption, InstanceType DEF Positions, Blocks
<1> HIDE DEF u
<1> USE DEF CountInv
<1>3. Shapes'
  BY <1>1, <1>2 DEF Shapes, Blocks
<1>4. /\ BlockOf(i) = NoBlock /\ pc[i] = "idle" /\ BlockOf(i)' = b
      /\ \A k \in Instances \ {i} : BlockOf(k)' = BlockOf(k)
      /\ b \in Blocks /\ b \notin Multis /\ b # NoBlock
  BY <1>1, <1>2, NoInstanceType, BlocksAssumption DEF Vacant, BlockOf, CallsAreOnBlocks, Shapes, Blocks
<1>5. Users(b) = {} /\ HeldParts(b) = {}
  BY <1>1, <1>4 DEF Users, Refers, HeldParts, BlocksAreMade
<1>6. Users(b)' = {i}
  BY <1>1, <1>4, <1>5 DEF Users, Refers
<1>7. \A x \in Blocks \ {b} : Users(x)' = Users(x)
  BY <1>1, <1>4, BlocksAssumption DEF Users, Refers
<1>8. \A m \in Multis, s \in Sides : PartUsers(m, s)' = PartUsers(m, s)
  BY <1>1, <1>4, BlocksAssumption DEF PartUsers, Blocks
<1>9. \A m \in Multis, s \in Sides : PartHolds(m, s)' <=> PartHolds(m, s)
  BY <1>1, <1>4, <1>8, BlocksAssumption DEF PartHolds, Blocks
<1>10. \A x \in Blocks : HeldParts(x)' = HeldParts(x)
  BY <1>1, <1>9 DEF HeldParts, PartBlock
<1>11. RefCounts'
  <2>1. ASSUME NEW x \in made'
        PROVE  ref_count'[x] = Cardinality(Users(x)') + Cardinality(HeldParts(x)')
    <3>1. CASE x = b
      <4>1. ref_count'[b] = 1
        BY <1>1, <1>4 DEF Shapes
      <4>2. Cardinality(Users(b)') = 1 /\ Cardinality(HeldParts(b)') = 0
        BY <1>4, <1>5, <1>6, <1>10, FS_Singleton, FS_EmptySet
      <4> QED BY <3>1, <4>1, <4>2
    <3>2. CASE x # b
      BY <1>1, <1>7, <1>10, <3>2 DEF Shapes, RefCounts
    <3> QED BY <3>1, <3>2
  <2>2. ASSUME NEW m \in Multis \cap made', NEW s \in Sides, PartBlock(m, s)' # NoBlock
        PROVE  part_refs'[m][s] = Cardinality(PartUsers(m, s)')
    BY <1>1, <1>4, <1>8, <2>2 DEF RefCounts, PartBlock
  <2> QED BY <2>1, <2>2 DEF RefCounts
<1>12. BlocksAreMade'
  BY <1>1, <1>4 DEF BlocksAreMade, PartBlock
<1>13. ReleasedIsUnused'
  BY <1>1 DEF ReleasedIsUnused, Shapes
<1>14. CallsAreOnBlocks'
  BY <1>1, <1>4 DEF CallsAreOnBlocks, PartBlock
<1>15. DisposalsApart'
  BY <1>1, <1>4 DEF DisposalsApart, Disposing
<1> QED BY <1>3, <1>11, <1>12, <1>13, <1>14, <1>15

\* az_ulib_ustream_concat: the reference of instance i becomes that of part one;
\* part two counts anew, if there is a second part.
ConcatMoves(i, m, one, two) ==
  /\ Shapes' /\ m \in Multis \ made /\ made' = made \cup {m}
  /\ one \in made \cap Buffers /\ two \in (made \cap Buffers) \cup {NoBlock}
  /\ BlockOf(i) = one /\ pc[i] = "idle" /\ BlockOf(i)' = m
  /\ \A k \in Instances \ {i} : BlockOf(k)' = BlockOf(k)
  /\ two # NoBlock => Users(two) # {}
  /\ PartBlock(m, "one")' = one /\ PartBlock(m, "two")' = two
  /\ \A x \in Multis \ {m}, s \in Sides :
       PartBlock(x, s)' = PartBlock(x, s) /\ part_refs'[x][s] = part_refs[x][s]
  /\ part_refs'[m]["one"] = 1 /\ (two # NoBlock => part_refs'[m]["two"] = 1)
  /\ ref_count'[m] = 1
  /\ \A b \in Blocks \ {m} : ref_count'[b] = IF b = two THEN ref_count[b] + 1 ELSE ref_count[b]
  /\ UNCHANGED <<pc, released>>

LEMMA ConcatMoved ==
  ASSUME CountInv, NEW i \in Instances, NEW j \in Instances, NEW m \in Multis, Concat(i, j, m)
  PROVE  \E one, two : ConcatMoves(i, m, one, two)
<1> DEFINE u == stream[i]
           v == clone(stream[j], u.length)
           w == [u EXCEPT !.control_block = m, !.length = Wrap(@ + get_remaining_size(v))]
           x == [u EXCEPT !.control_block = m]
<1> USE DEF CountInv
<1>1. /\ Open(i) /\ Open(j) /\ ~IsMulti(i) /\ ~IsMulti(j) /\ m \notin made /\ made' = made \cup {m}
      /\ UNCHANGED <<pc, local, released>>
      /\ \/ /\ part' = [part EXCEPT ![m] = [one |-> u, two |-> v]]
            /\ part_refs' = [part_refs EXCEPT ![m] = [one |-> 1, two |-> 1]]
            /\ ref_count' = Inc([ref_count EXCEPT ![m] = 1], v.control_block)
            /\ stream' = [stream EXCEPT ![i] = w]
         \/ /\ part' = [part EXCEPT ![m] = [one |-> u, two |-> NoInstance]]
            /\ part_refs' = [part_refs EXCEPT ![m] = [one |-> 1, two |-> 0]]
            /\ ref_count' = [ref_count EXCEPT ![m] = 1]
            /\ stream' = [stream EXCEPT ![i] = x]
  BY DEF Concat, Update
<1>2. /\ u \in InstanceValues /\ u.control_block \in made \cap Buffers /\ u.control_block = BlockOf(i)
      /\ pc[i] = "idle" /\ m \in Blocks /\ m \notin Buffers
  BY <1>1, BlocksAssumption DEF Open, IsMulti, BlocksAreMade, BlockOf, Shapes, Blocks
<1>3. /\ v \in InstanceValues /\ v.control_block \in made \cap Buffers
      /\ v.control_block = BlockOf(j)
  <2>1. stream[j] \in InstanceValues /\ stream[j].control_block \in made \cap Buffers
    BY <1>1 DEF Open, IsMulti, BlocksAreMade, BlockOf, Shapes, Blocks
  <2>2. u.length \in Int
    BY <1>2 DEF InstanceValues
  <2> QED BY <2>1, <2>2, CallTypes DEF BlockOf
<1>4. w \in InstanceValues /\ w.control_block = m /\ x \in InstanceValues /\ x.control_block = m
  <2>1. Wrap(u.length + get_remaining_size(v)) \in Int
    <3>1. u.length \in Int
      BY <1>2 DEF InstanceValues
    <3> HIDE DEF v
    <3>2. get_remaining_size(v) \in Int
      BY <1>3, <3>1, CallTypes DEF Positions
    <3>3. u.length + get_remaining_size(v) \in Int
      BY <3>1, <3>2
    <3> QED BY <3>3, WrapType DEF Positions
  <2> QED BY <1>2, <2>1 DEF InstanceValues
<1> HIDE DEF u, v, w, x
<1>5. CASE /\ part' = [part EXCEPT ![m] = [one |-> u, two |-> v]]
           /\ part_refs' = [part_refs EXCEPT ![m] = [one |-> 1, two |-> 1]]
           /\ ref_count' = Inc([ref_count EXCEPT ![m] = 1], v.control_block)
           /\ stream' = [stream EXCEPT ![i] = w]
  <2>1. Shapes'
    <3>1. ref_count' \in [Blocks -> Int]
      <4> DEFINE count == [ref_count EXCEPT ![m] = 1]
      <4>1. count \in [Blocks -> Int]
        BY <1>2 DEF Shapes
      <4>2. ref_count' = [count EXCEPT ![v.control_block] = @ + 1]
        BY <1>5 DEF Inc
      <4>3. v.control_block \in Blocks
        BY <1>3 DEF Shapes
      <4> HIDE DEF count
      <4> QED BY <4>1, <4>2, <4>3
    <3>2. part' \in [Multis -> [Sides -> InstanceValues]]
      BY <1>2, <1>3, <1>5 DEF Shapes, Sides
    <3>3. part_refs' \in [Multis -> [Sides -> Int]]
      BY <1>5 DEF Shapes, Sides
    <3>4. stream' \in [Instances -> InstanceValues]
      BY <1>4, <1>5 DEF Shapes
    <3>5. made' \subseteq Blocks /\ UNCHANGED <<pc, local, released>>
      BY <1>1, <1>2 DEF Shapes
    <3> QED BY <3>1, <3>2, <3>3, <3>4, <3>5 DEF Shapes
  <2>2. \A b \in Blocks \ {m} : ref_count'[b] = IF b = v.control_block THEN ref_count[b] + 1 ELSE ref_count[b]
    BY <1>2, <1>3, <1>5 DEF Inc, Shapes
  <2>3. ref_count'[m] = 1
    BY <1>2, <1>3, <1>5 DEF Inc, Shapes
  <2>4. BlockOf(i)' = m /\ \A k \in Instances \ {i} : BlockOf(k)' = BlockOf(k)
    BY <1>4, <1>5 DEF Shapes, BlockOf
  <2>5. PartBlock(m, "one")' = u.control_block /\ PartBlock(m, "two")' = v.control_block
    BY <1>5 DEF Shapes, PartBlock
  <2>6. j \in Users(v.control_block)
    BY <1>1, <1>3 DEF Users, Refers, Open
  <2>7. /\ \A y \in Multis \ {m}, s \in Sides :
             PartBlock(y, s)' = PartBlock(y, s) /\ part_refs'[y][s] = part_refs[y][s]
        /\ part_refs'[m]["one"] = 1 /\ part_refs'[m]["two"] = 1
    BY <1>5 DEF Shapes, PartBlock
  <2>8. ConcatMoves(i, m, u.control_block, v.control_block)
    BY <1>1, <1>2, <1>3, <2>1, <2>2, <2>3, <2>4, <2>5, <2>6, <2>7 DEF ConcatMoves
  <2> QED BY <2>8
<1>6. CASE /\ part' = [part EXCEPT ![m] = [one |-> u, two |-> NoInstance]]
           /\ part_refs' = [part_refs EXCEPT ![m] = [one |-> 1, two |-> 0]]
           /\ ref_count' = [ref_count EXCEPT ![m] = 1]
           /\ stream' = [stream EXCEPT ![i] = x]
  <2>1. Shapes'
    <3>1. ref_count' \in [Blocks -> Int]
      BY <1>2, <1>6 DEF Shapes
    <3>2. part' \in [Multis -> [Sides -> InstanceValues]]
      BY <1>2, <1>6, NoInstanceType DEF Shapes, Sides
    <3>3. part_refs' \in [Multis -> [Sides -> Int]]
      BY <1>6 DEF Shapes, Sides
    <3>4. stream' \in [Instances -> InstanceValues]
      BY <1>4, <1>6 DEF Shapes
    <3>5. made' \subseteq Blocks /\ UNCHANGED <<pc, local, released>>
      BY <1>1, <1>2 DEF Shapes
    <3> QED BY <3>1, <3>2, <3>3, <3>4, <3>5 DEF Shapes
  <2>2. BlockOf(i)' = m /\ \A k \in Instances \ {i} : BlockOf(k)' = BlockOf(k)
    BY <1>4, <1>6 DEF Shapes, BlockOf
  <2>3. PartBlock(m, "one")' = u.control_block /\ PartBlock(m, "two")' = NoBlock
    BY <1>6, NoInstanceType DEF Shapes, PartBlock
  <2>4. /\ \A y \in Multis \ {m}, s \in Sides :
             PartBlock(y, s)' = PartBlock(y, s) /\ part_refs'[y][s] = part_refs[y][s]
        /\ part_refs'[m]["one"] = 1
    BY <1>6 DEF Shapes, PartBlock
  <2>5. ref_count'[m] = 1 /\ \A b \in Blocks \ {m} : ref_count'[b] = ref_count[b]
    BY <1>2, <1>6 DEF Shapes
  <2>6. ConcatMoves(i, m, u.control_block, NoBlock)
    BY <1>1, <1>2, <2>1, <2>2, <2>3, <2>4, <2>5, BlocksAssumption DEF ConcatMoves
  <2> QED BY <2>6
<1> QED BY <1>1, <1>5, <1>6

LEMMA ConcatCount ==
  ASSUME CountInv, NEW i \in Instances, NEW m, NEW one, NEW two, ConcatMoves(i, m, one, two)
  PROVE  CountInv'
<1> USE DEF CountInv, ConcatMoves
<1>1. /\ m \in Blocks /\ m \notin Buffers /\ m # NoBlock /\ one # m /\ two # m
      /\ one \in Blocks /\ one # NoBlock
      /\ \A k \in Instances : BlockOf(k) # m
      /\ \A s \in Sides : PartBlock(m, s) = NoBlock
  BY BlocksAssumption DEF Blocks, BlocksAreMade
<1>2. Users(m)' = {i}
  BY <1>1 DEF Users, Refers
<1>3. /\ i \in Users(one) /\ Users(one)' = Users(one) \ {i}
      /\ \A b \in Blocks \ {one, m} : Users(b)' = Users(b)
  BY <1>1, BlocksAssumption DEF Users, Refers
<1>4. \A x \in Multis \ {m}, s \in Sides : PartUsers(x, s)' = PartUsers(x, s)
  BY <1>1, BlocksAssumption DEF PartUsers
<1>5. \A s \in Sides : PartUsers(m, s)' = {i} /\ PartHolds(m, s)'
  <2>1. \A s \in Sides : "idle" \in NotYet(s)
    BY DEF NotYet, Sides
  <2> QED BY <1>1, <2>1 DEF PartUsers, PartHolds
<1>6. \A x \in Multis \ {m}, s \in Sides : PartHolds(x, s)' <=> PartHolds(x, s)
  BY <1>1, <1>4, BlocksAssumption DEF PartHolds
<1>7. ASSUME NEW b \in made
      PROVE  /\ <<m, "one">> \notin HeldParts(b) /\ <<m, "two">> \notin HeldParts(b)
             /\ \A r : r \in HeldParts(b)' <=> \/ r \in HeldParts(b)
                                               \/ (r = <<m, "one">> /\ b = one)
                                               \/ (r = <<m, "two">> /\ b = two)
  <2>1. b # NoBlock /\ b \in Blocks /\ b # m
    BY BlocksAssumption DEF Shapes
  <2>2. <<m, "one">> \notin HeldParts(b) /\ <<m, "two">> \notin HeldParts(b)
    BY <1>1, <2>1 DEF HeldParts, Sides
  <2>3. ASSUME NEW x \in Multis, NEW s \in Sides
        PROVE  <<x, s>> \in HeldParts(b)' <=> \/ <<x, s>> \in HeldParts(b)
                                             \/ (<<x, s>> = <<m, "one">> /\ b = one)
                                             \/ (<<x, s>> = <<m, "two">> /\ b = two)
    <3>1. /\ <<x, s>> \in HeldParts(b)' <=> PartBlock(x, s)' = b /\ PartHolds(x, s)'
          /\ <<x, s>> \in HeldParts(b) <=> PartBlock(x, s) = b /\ PartHolds(x, s)
      BY DEF HeldParts
    <3>2. CASE x = m
      BY <1>1, <1>5, <2>1, <3>1, <3>2 DEF Sides
    <3>3. CASE x # m
      BY <1>6, <3>1, <3>3
    <3> QED BY <3>2, <3>3
  <2>4. HeldParts(b)' \subseteq Multis \X Sides /\ HeldParts(b) \subseteq Multis \X Sides
    BY DEF HeldParts
  <2>5. <<m, "one">> \in Multis \X Sides /\ <<m, "two">> \in Multis \X Sides
    BY DEF Sides
  <2>6. \A r \in Multis \X Sides : r \in HeldParts(b)' <=> \/ r \in HeldParts(b)
                                                      \/ (r = <<m, "one">> /\ b = one)
                                                      \/ (r = <<m, "two">> /\ b = two)
    BY <2>3
  <2> QED BY <2>2, <2>4, <2>5, <2>6
<1>8. HeldParts(m)' = {}
  BY <1>1 DEF HeldParts, BlocksAreMade, Sides
<1>9. RefCounts'
  <2>1. ASSUME NEW b \in made
        PROVE  ref_count'[b] = Cardinality(Users(b)') + Cardinality(HeldParts(b)')
    <3> DEFINE first == IF b = one THEN HeldParts(b) \cup {<<m, "one">>} ELSE HeldParts(b)
               second == IF b = two THEN first \cup {<<m, "two">>} ELSE first
    <3>1. b \in Blocks /\ b # m /\ ref_count[b] = Cardinality(Users(b)) + Cardinality(HeldParts(b))
      BY DEF Shapes, RefCounts
    <3>2. /\ Cardinality(Users(b)) \in Nat /\ Cardinality(HeldParts(b)) \in Nat
          /\ IsFiniteSet(Users(b)) /\ IsFiniteSet(HeldParts(b))
      BY CountedFinite
    <3>3. Cardinality(Users(b)') = Cardinality(Users(b)) - (IF b = one THEN 1 ELSE 0)
      BY <1>3, <3>1, <3>2, FS_RemoveElement
    <3>4. IsFiniteSet(first) /\ Cardinality(first) = Cardinality(HeldParts(b)) + (IF b = one THEN 1 ELSE 0)
      <4>1. CASE b = one
        BY <1>7, <3>2, <4>1, FS_AddElement
      <4>2. CASE b # one
        BY <3>2, <4>2
      <4> QED BY <4>1, <4>2
    <3>5. <<m, "two">> \notin first /\ HeldParts(b)' = second
      BY <1>7
    <3> HIDE DEF first
    <3>6. Cardinality(second) = Cardinality(first) + (IF b = two THEN 1 ELSE 0)
      <4>1. CASE b = two
        BY <3>2, <3>4, <3>5, <4>1, FS_AddElement
      <4>2. CASE b # two
        BY <3>2, <3>4, <4>2
      <4> QED BY <4>1, <4>2
    <3>7. ref_count'[b] = ref_count[b] + (IF b = two THEN 1 ELSE 0)
      BY SMTT(30), <3>1 DEF Shapes
    <3> HIDE DEF second
    <3> QED BY <3>1, <3>2, <3>3, <3>4, <3>5, <3>6, <3>7
  <2>2. ref_count'[m] = Cardinality(Users(m)') + Cardinality(HeldParts(m)')
    <3>1. Cardinality(Users(m)') = 1
      BY <1>2, FS_Singleton
    <3>2. Cardinality(HeldParts(m)') = 0
      BY <1>8, FS_EmptySet
    <3> QED BY <3>1, <3>2
  <2>3. ASSUME NEW x \in Multis \cap made', NEW s \in Sides, PartBlock(x, s)' # NoBlock
        PROVE  part_refs'[x][s] = Cardinality(PartUsers(x, s)')
    <3>1. CASE x = m
      <4>1. Cardinality(PartUsers(x, s)') = 1
        BY <1>5, <3>1, FS_Singleton
      <4>2. part_refs'[m][s] = 1
        BY <2>3, <3>1 DEF Sides
      <4> QED BY <3>1, <4>1, <4>2
    <3>2. CASE x # m
      BY <1>4, <2>3, <3>2 DEF RefCounts
    <3> QED BY <3>1, <3>2
  <2> QED BY <2>1, <2>2, <2>3 DEF RefCounts
<1>10. BlocksAreMade'
  <2>1. \A k \in Instances : BlockOf(k)' \in made' \cup {NoBlock}
    BY DEF BlocksAreMade
  <2>2. \A x \in Multis, s \in Sides :
          /\ PartBlock(x, s)' \in (made' \cap Buffers) \cup {NoBlock}
          /\ x \notin made' => PartBlock(x, s)' = NoBlock
    BY DEF BlocksAreMade, Sides
  <2> QED BY <2>1, <2>2 DEF BlocksAreMade
<1>11. ReleasedIsUnused'
  <2> SUFFICES ASSUME NEW b \in Blocks, released[b] # 0
               PROVE  b \in made' /\ ref_count'[b] = 0
    BY DEF ReleasedIsUnused
  <2>1. b \in made /\ ref_count[b] = 0 /\ b # m
    BY DEF ReleasedIsUnused
  <2>2. b # two
    <3>1. Users(b) = {}
      BY <2>1, InUseIsCounted
    <3>2. b # NoBlock
      BY BlocksAssumption
    <3> QED BY <3>1, <3>2
  <2> QED BY <2>1, <2>2
<1>12. CallsAreOnBlocks'
  <2> SUFFICES ASSUME NEW k \in Instances
               PROVE  /\ BlockOf(k)' = NoBlock => pc[k] = "idle"
                      /\ pc[k] \in Locations \ {"idle", "recheck"} => BlockOf(k)' \in Multis
                      /\ pc[k] = "recheck_one" => PartBlock(BlockOf(k), "one")' # NoBlock
                      /\ pc[k] = "recheck_two" => PartBlock(BlockOf(k), "two")' # NoBlock
    BY DEF CallsAreOnBlocks
  <2>1. CASE k = i
    BY <2>1
  <2>2. CASE k # i
    BY <1>1, <2>2 DEF CallsAreOnBlocks, PartBlock, Locations, Disposing, Sides
  <2> QED BY <2>1, <2>2
<1>13. DisposalsApart'
  BY DEF DisposalsApart, Disposing
<1> QED BY <1>9, <1>10, <1>11, <1>12, <1>13

-----------------------------------------------------------------------------
(***************************************************************************)
(* Disposal.                                                               *)
(***************************************************************************)

\* Where a user of a concatenation still keeps the block of a part counted.
Keeps(side) == NotYet(side) \cup Undisposed(side)

LEMMA LocationsOfSides ==
  /\ NotYet("one") = {"idle", "reading"}
  /\ NotYet("two") = {"idle", "reading", "drop_two"}
  /\ Keeps("one") = {"idle", "reading", "drop_two", "check_one"}
  /\ Keeps("two") = {"idle", "reading", "drop_two", "check_one", "recheck_one", "check_two"}
BY DEF NotYet, Undisposed, Keeps

LEMMA PartHoldsWhileKept ==
  ASSUME NEW m, NEW s
  PROVE  PartHolds(m, s) <=> \E i \in Instances : BlockOf(i) = m /\ pc[i] \in Keeps(s)
BY DEF PartHolds, PartUsers, Keeps

\* What the step of one thread leaves of the sets that are counted.
LEMMA StepSets ==
  ASSUME CountInv, NEW i \in Instances, NEW next \in Locations, Goto(i, next), UNCHANGED <<part, stream>>
  PROVE  /\ \A b \in Blocks : b # BlockOf(i) \/ "recheck" \notin {pc[i], next} => Users(b)' = Users(b)
         /\ \A m \in Multis, s \in Sides :
              m # BlockOf(i) \/ (pc[i] \in NotYet(s) <=> next \in NotYet(s)) =>
                PartUsers(m, s)' = PartUsers(m, s)
         /\ \A m \in Multis, s \in Sides :
              m # BlockOf(i) \/ (pc[i] \in Keeps(s) <=> next \in Keeps(s)) =>
                (PartHolds(m, s)' <=> PartHolds(m, s))
         /\ \A b \in Blocks :
              (\A m \in Multis, s \in Sides : PartHolds(m, s)' <=> PartHolds(m, s)) =>
                HeldParts(b)' = HeldParts(b)
<1>1. /\ pc'[i] = next /\ \A k \in Instances \ {i} : pc'[k] = pc[k]
      /\ \A k \in Instances : BlockOf(k)' = BlockOf(k)
  BY DEF Goto, CountInv, Shapes, BlockOf
<1>2. \A b \in Blocks : b # BlockOf(i) \/ "recheck" \notin {pc[i], next} => Users(b)' = Users(b)
  BY <1>1 DEF Users, Refers
<1>3. ASSUME NEW m \in Multis, NEW s \in Sides, m # BlockOf(i) \/ (pc[i] \in NotYet(s) <=> next \in NotYet(s))
      PROVE  PartUsers(m, s)' = PartUsers(m, s)
  <2>1. NotYet(s)' = NotYet(s)
    BY DEF NotYet
  <2> QED BY <1>1, <1>3, <2>1 DEF PartUsers
<1>4. ASSUME NEW m \in Multis, NEW s \in Sides, m # BlockOf(i) \/ (pc[i] \in Keeps(s) <=> next \in Keeps(s))
      PROVE  PartHolds(m, s)' <=> PartHolds(m, s)
  <2>1. PartHolds(m, s)' <=> \E k \in Instances : BlockOf(k)' = m /\ pc'[k] \in Keeps(s)
    BY DEF PartHolds, PartUsers, Keeps, NotYet, Undisposed
  <2> QED BY <1>1, <1>4, <2>1, PartHoldsWhileKept
<1>5. \A b \in Blocks :
        (\A m \in Multis, s \in Sides : PartHolds(m, s)' <=> PartHolds(m, s)) =>
          HeldParts(b)' = HeldParts(b)
  BY DEF HeldParts, PartBlock
<1> QED BY <1>2, <1>3, <1>4, <1>5

\* A thread that disposes goes on to next.
Disposes(i, next) ==
  /\ pc[i] \in Disposing \/ MayDispose(i)
  /\ next \in Disposing /\ Goto(i, next)
  /\ BlockOf(i) # NoBlock /\ (next # "recheck" => BlockOf(i) \in Multis)
  /\ next = "recheck_one" => PartBlock(BlockOf(i), "one") # NoBlock
  /\ next = "recheck_two" => PartBlock(BlockOf(i), "two") # NoBlock
  /\ UNCHANGED <<made, part, stream, local>>

LEMMA DisposesKeeps ==
  ASSUME CountInv, NEW i \in Instances, NEW next, Disposes(i, next)
  PROVE  /\ BlocksAreMade' /\ CallsAreOnBlocks' /\ DisposalsApart'
         /\ pc' \in [Instances -> Locations] /\ next \in Locations
<1>1. /\ pc'[i] = next /\ \A k \in Instances \ {i} : pc'[k] = pc[k]
      /\ \A k \in Instances : BlockOf(k)' = BlockOf(k)
      /\ pc' \in [Instances -> Locations] /\ next \in Locations
  BY DEF Disposes, Goto, CountInv, Shapes, BlockOf, Locations
<1>2. BlocksAreMade'
  BY DEF Disposes, CountInv, BlocksAreMade, BlockOf, PartBlock
<1>3. CallsAreOnBlocks'
  <2> SUFFICES ASSUME NEW k \in Instances
               PROVE  /\ BlockOf(k) = NoBlock => pc'[k] = "idle"
                      /\ pc'[k] \in Locations \ {"idle", "recheck"} => BlockOf(k) \in Multis
                      /\ pc'[k] = "recheck_one" => PartBlock(BlockOf(k), "one") # NoBlock
                      /\ pc'[k] = "recheck_two" => PartBlock(BlockOf(k), "two") # NoBlock
    BY <1>1 DEF CallsAreOnBlocks, Disposes, PartBlock
  <2>1. CASE k = i
    BY <1>1, <2>1 DEF Disposes
  <2>2. CASE k # i
    BY <1>1, <2>2 DEF CountInv, CallsAreOnBlocks
  <2> QED BY <2>1, <2>2
<1>4. DisposalsApart'
  <2> SUFFICES ASSUME NEW k \in Instances, k # i, pc[k] \in Disposing
               PROVE  {BlockOf(i), BlockOf(k)} \subseteq Overlapping
    BY <1>1 DEF CountInv, DisposalsApart
  <2> QED BY DEF Disposes, MayDispose, CountInv, DisposalsApart
<1> QED BY <1>1, <1>2, <1>3, <1>4

\* A reference to block b is given up.
GivesUp(i, b) ==
  /\ b \in made /\ ref_count' = [ref_count EXCEPT ![b] = @ - 1]
  /\ UNCHANGED <<part_refs, released>>

LEMMA GivenUpIsUnreleased ==
  ASSUME CountInv, NEW i, NEW b, GivesUp(i, b), UNCHANGED made, ref_count[b] > 0
  PROVE  ReleasedIsUnused' /\ ref_count' \in [Blocks -> Int]
BY DEF GivesUp, CountInv, ReleasedIsUnused, Shapes

\* An instance gives up its own block.
LEMMA GiveUpOwn ==
  ASSUME CountInv, NEW i \in Instances, NEW b, b = BlockOf(i), b # NoBlock,
         \/ MayDispose(i) /\ b \in Buffers
         \/ pc[i] = "drop",
         Goto(i, "recheck"), ref_count' = Dec(ref_count, b),
         UNCHANGED <<made, part, part_refs, stream, local, released>>
  PROVE  CountInv'
<1>1. Disposes(i, "recheck")
  BY DEF Disposes, Disposing
<1>2. /\ b \in made /\ b \in Blocks /\ GivesUp(i, b) /\ "recheck" \in Locations
      /\ pc'[i] = "recheck" /\ \A k \in Instances \ {i} : pc'[k] = pc[k]
      /\ pc[i] # "recheck" /\ \A k \in Instances : BlockOf(k)' = BlockOf(k)
      /\ pc[i] \in {"idle", "drop"} /\ (pc[i] = "idle" => b \notin Multis)
  BY BlocksAssumption DEF CountInv, BlocksAreMade, Shapes, GivesUp, Dec, Goto, Locations, Disposing, BlockOf,
     MayDispose, Open
<1>3. i \in Users(b) /\ Users(b)' = Users(b) \ {i}
  BY <1>2 DEF Users, Refers
<1>4. \A x \in Blocks \ {b} : Users(x)' = Users(x)
  BY <1>2, StepSets
<1>5. \A m \in Multis, s \in Sides :
        PartUsers(m, s)' = PartUsers(m, s) /\ (PartHolds(m, s)' <=> PartHolds(m, s))
  <2>1. \A m \in Multis, s \in Sides :
          m = b => (pc[i] \notin NotYet(s) /\ pc[i] \notin Keeps(s))
    BY <1>2, LocationsOfSides DEF Sides
  <2>2. \A s \in Sides : "recheck" \notin NotYet(s) /\ "recheck" \notin Keeps(s)
    BY LocationsOfSides DEF Sides
  <2> QED BY <1>2, <2>1, <2>2, StepSets
<1>6. \A x \in Blocks : HeldParts(x)' = HeldParts(x)
  BY <1>2, <1>5, StepSets
<1>7. ref_count[b] > 0 /\ ReleasedIsUnused' /\ ref_count' \in [Blocks -> Int]
  BY <1>2, <1>3, InUseIsCounted, GivenUpIsUnreleased
<1>8. Shapes'
  BY <1>1, <1>7, DisposesKeeps DEF CountInv, Shapes
<1>9. RefCounts'
  <2>1. ASSUME NEW x \in made
        PROVE  ref_count'[x] = Cardinality(Users(x)') + Cardinality(HeldParts(x)')
    <3>1. x \in Blocks /\ ref_count[x] = Cardinality(Users(x)) + Cardinality(HeldParts(x))
      BY DEF CountInv, Shapes, RefCounts
    <3>2. CASE x = b
      <4>1. Cardinality(Users(b)') = Cardinality(Users(b)) - 1
        BY <1>3, CountedFinite, FS_RemoveElement
      <4>2. ref_count'[b] = ref_count[b] - 1
        BY <1>2 DEF GivesUp, CountInv, Shapes
      <4>3. Cardinality(Users(b)) \in Nat /\ Cardinality(HeldParts(b)) \in Nat
        BY CountedFinite
      <4>4. Cardinality(HeldParts(b)') = Cardinality(HeldParts(b))
        BY <1>2, <1>6
      <4> QED BY <3>1, <3>2, <4>1, <4>2, <4>3, <4>4
    <3>3. CASE x # b
      BY <1>2, <1>4, <1>6, <3>1, <3>3 DEF GivesUp, CountInv, Shapes
    <3> QED BY <3>2, <3>3
  <2>2. ASSUME NEW m \in Multis \cap made, NEW s \in Sides, PartBlock(m, s)' # NoBlock
        PROVE  part_refs'[m][s] = Cardinality(PartUsers(m, s)')
    BY <1>5, <2>2 DEF CountInv, RefCounts, PartBlock
  <2> QED BY <2>1, <2>2 DEF RefCounts
<1> QED BY <1>1, <1>7, <1>8, <1>9, DisposesKeeps DEF CountInv

LEMMA DisposeBufferCount ==
  ASSUME CountInv, NEW i \in Instances, DisposeBuffer(i)
  PROVE  CountInv'
<1>1. BlockOf(i) # NoBlock /\ BlockOf(i) \in Buffers
  BY DEF DisposeBuffer, MayDispose, Open, IsMulti, BlockOf, CountInv, BlocksAreMade, Shapes, Blocks
<1> QED BY <1>1, GiveUpOwn DEF DisposeBuffer

LEMMA DropCount ==
  ASSUME CountInv, NEW i \in Instances, Drop(i)
  PROVE  CountInv'
<1>1. BlockOf(i) # NoBlock
  BY DEF Drop, CountInv, CallsAreOnBlocks
<1> QED BY <1>1, GiveUpOwn DEF Drop

\* A user of a concatenation counts one part less.
LEMMA UsesPartNoMore ==
  ASSUME CountInv, NEW i \in Instances, NEW next, NEW m, NEW side \in Sides,
         Disposes(i, next), m = BlockOf(i), m \in Multis,
         pc[i] \in NotYet(side), next \notin NotYet(side),
         \A s \in Sides : /\ pc[i] \in Keeps(s) /\ next \in Keeps(s)
                          /\ s # side => (pc[i] \in NotYet(s) <=> next \in NotYet(s)),
         "recheck" \notin {pc[i], next},
         part_refs' = [part_refs EXCEPT ![m][side] = @ - 1],
         UNCHANGED <<ref_count, released>>
  PROVE  CountInv'
<1>1. /\ next \in Locations /\ Goto(i, next) /\ UNCHANGED <<made, part, stream, local>>
      /\ BlocksAreMade' /\ CallsAreOnBlocks' /\ DisposalsApart' /\ pc' \in [Instances -> Locations]
  BY DisposesKeeps DEF Disposes
<1>2. /\ \A b \in Blocks : Users(b)' = Users(b)
      /\ \A x \in Multis, s \in Sides : x # m \/ s # side => PartUsers(x, s)' = PartUsers(x, s)
      /\ \A x \in Multis, s \in Sides : PartHolds(x, s)' <=> PartHolds(x, s)
  BY <1>1, StepSets
<1>3. \A b \in Blocks : HeldParts(b)' = HeldParts(b)
  BY <1>1, <1>2, StepSets
<1>4. i \in PartUsers(m, side) /\ PartUsers(m, side)' = PartUsers(m, side) \ {i}
  <2>1. /\ pc'[i] = next /\ \A k \in Instances \ {i} : pc'[k] = pc[k]
        /\ \A k \in Instances : BlockOf(k)' = BlockOf(k)
    BY <1>1 DEF Goto, CountInv, Shapes, BlockOf
  <2>2. NotYet(side)' = NotYet(side)
    BY DEF NotYet
  <2> QED BY <2>1, <2>2 DEF PartUsers
<1>5. Shapes' /\ ReleasedIsUnused'
  BY <1>1 DEF CountInv, Shapes, ReleasedIsUnused
<1>6. RefCounts'
  <2>1. \A b \in made : ref_count'[b] = Cardinality(Users(b)') + Cardinality(HeldParts(b)')
    BY <1>2, <1>3 DEF CountInv, RefCounts, Shapes
  <2>2. ASSUME NEW x \in Multis \cap made, NEW s \in Sides, PartBlock(x, s)' # NoBlock
        PROVE  part_refs'[x][s] = Cardinality(PartUsers(x, s)')
    <3>1. part_refs[x][s] = Cardinality(PartUsers(x, s))
      BY <1>1, <2>2 DEF CountInv, RefCounts, PartBlock
    <3>2. CASE x = m /\ s = side
      <4>1. Cardinality(PartUsers(m, side)') = Cardinality(PartUsers(m, side)) - 1
        <5>1. IsFiniteSet(PartUsers(m, side))
          BY CountedFinite
        <5>2. Cardinality(PartUsers(m, side) \ {i}) = Cardinality(PartUsers(m, side)) - 1
          BY <1>4, <5>1, FS_RemoveElement
        <5> QED BY Zenon, <1>4, <5>2
      <4>2. part_refs'[m][side] = part_refs[m][side] - 1
        BY DEF CountInv, Shapes
      <4> QED BY <3>1, <3>2, <4>1, <4>2
    <3>3. CASE x # m \/ s # side
      <4>1. part_refs'[x][s] = part_refs[x][s]
        BY <3>3 DEF CountInv, Shapes
      <4>2. PartUsers(x, s)' = PartUsers(x, s)
        BY <1>2, <3>3
      <4> QED BY <3>1, <4>1, <4>2
    <3> QED BY <3>2, <3>3
  <2> QED BY <1>1, <2>1, <2>2 DEF RefCounts
<1> QED BY <1>1, <1>5, <1>6 DEF CountInv

LEMMA DisposeMultiCount ==
  ASSUME CountInv, NEW i \in Instances, DisposeMulti(i)
  PROVE  CountInv'
<1>1. /\ BlockOf(i) \in Multis /\ BlockOf(i) # NoBlock /\ pc[i] = "idle" /\ "one" \in Sides
      /\ Disposes(i, "drop_two")
  BY BlocksAssumption DEF DisposeMulti, MayDispose, Open, IsMulti, BlockOf, Disposes, Disposing, Blocks, Sides
<1>2. \A s \in Sides : /\ pc[i] \in Keeps(s) /\ "drop_two" \in Keeps(s)
                       /\ s # "one" => (pc[i] \in NotYet(s) <=> "drop_two" \in NotYet(s))
  BY <1>1, LocationsOfSides DEF Sides
<1>3. /\ pc[i] \in NotYet("one") /\ "drop_two" \notin NotYet("one")
      /\ "recheck" \notin {pc[i], "drop_two"}
  BY <1>1, LocationsOfSides
<1>4. /\ part_refs' = [part_refs EXCEPT ![BlockOf(i)]["one"] = @ - 1]
      /\ UNCHANGED <<ref_count, released>>
  BY DEF DisposeMulti
<1>5. PICK m : m = BlockOf(i)
  OBVIOUS
<1> HIDE DEF CountInv
<1> QED BY <1>1, <1>2, <1>3, <1>4, <1>5, UsesPartNoMore

LEMMA DropTwoCount ==
  ASSUME CountInv, NEW i \in Instances, DropTwo(i)
  PROVE  CountInv'
<1>1. /\ BlockOf(i) \in Multis /\ BlockOf(i) # NoBlock /\ pc[i] = "drop_two" /\ "two" \in Sides
      /\ Disposes(i, "check_one")
  BY BlocksAssumption DEF DropTwo, CountInv, CallsAreOnBlocks, Disposes, Disposing, Locations, Blocks, Sides
<1>2. \A s \in Sides : /\ pc[i] \in Keeps(s) /\ "check_one" \in Keeps(s)
                       /\ s # "two" => (pc[i] \in NotYet(s) <=> "check_one" \in NotYet(s))
  BY <1>1, LocationsOfSides DEF Sides
<1>3. /\ pc[i] \in NotYet("two") /\ "check_one" \notin NotYet("two")
      /\ "recheck" \notin {pc[i], "check_one"}
  BY <1>1, LocationsOfSides
<1>4. /\ part_refs' = [part_refs EXCEPT ![BlockOf(i)]["two"] = @ - 1]
      /\ UNCHANGED <<ref_count, released>>
  BY DEF DropTwo
<1>5. PICK m : m = BlockOf(i)
  OBVIOUS
<1> HIDE DEF CountInv
<1> QED BY <1>1, <1>2, <1>3, <1>4, <1>5, UsesPartNoMore

\* The last user of a part: nobody else can still keep it, since only instances
\* of buffers are disposed of concurrently.
LEMMA LastUserIsAlone ==
  ASSUME CountInv, Overlapping \subseteq Buffers,
         NEW i \in Instances, NEW side \in Sides, NEW m, m = BlockOf(i), m \in Multis, m \in made,
         pc[i] \in Disposing, LastUser(m, side)
  PROVE  \A k \in Instances \ {i} : BlockOf(k) # m \/ pc[k] \notin Keeps(side)
<1>1. PartUsers(m, side) = {}
  <2>1. Cardinality(PartUsers(m, side)) = 0
    BY DEF LastUser, CountInv, RefCounts
  <2> QED BY <2>1, CountedFinite, FS_EmptySet
<1>2. ASSUME NEW k \in Instances \ {i}, BlockOf(k) = m, pc[k] \in Disposing
      PROVE  FALSE
  BY <1>2, BlocksAssumption DEF CountInv, DisposalsApart
<1>3. Keeps(side) \subseteq NotYet(side) \cup Disposing
  BY LocationsOfSides DEF Sides, Disposing
<1> QED BY <1>1, <1>2, <1>3 DEF PartUsers

\* The nested dispose of a part.
LEMMA CheckPartCount ==
  ASSUME CountInv, Overlapping \subseteq Buffers, NEW i \in Instances, NEW side \in Sides,
         NEW here, NEW recheck, NEW next,
         \/ side = "one" /\ here = "check_one" /\ recheck = "recheck_one" /\ next = "check_two"
         \/ side = "two" /\ here = "check_two" /\ recheck = "recheck_two" /\ next = "drop",
         CheckPart(i, side, here, recheck, next)
  PROVE  CountInv'
<1>1. PICK m : m = BlockOf(i)
  OBVIOUS
<1>2. PICK b : b = PartBlock(m, side)
  OBVIOUS
<1>3. PICK to : to = IF LastUser(m, side) THEN recheck ELSE next
  OBVIOUS
<1>4. /\ pc[i] = here /\ Goto(i, to)
      /\ IF LastUser(m, side) THEN ref_count' = Dec(ref_count, b) ELSE UNCHANGED ref_count
      /\ UNCHANGED <<made, part, part_refs, stream, local, released>>
  BY <1>1, <1>2, <1>3 DEF CheckPart
<1>5. m \in Multis /\ m \in made /\ m # NoBlock /\ here \in Disposing /\ to \in Disposing \ {"recheck"}
  <2>1. m \in Multis /\ m # NoBlock
    BY <1>1, <1>4, BlocksAssumption DEF CountInv, CallsAreOnBlocks, Locations, Disposing, Blocks
  <2>2. m \in made
    BY <1>1, <2>1 DEF CountInv, BlocksAreMade
  <2> QED BY <1>3, <2>1, <2>2 DEF Disposing
<1>6. Disposes(i, to)
  <2>1. to = "recheck_one" => PartBlock(m, "one") # NoBlock
    BY <1>3 DEF LastUser
  <2>2. to = "recheck_two" => PartBlock(m, "two") # NoBlock
    BY <1>3 DEF LastUser
  <2> QED BY <1>1, <1>4, <1>5, <2>1, <2>2 DEF Disposes
<1>7. /\ BlocksAreMade' /\ CallsAreOnBlocks' /\ DisposalsApart'
      /\ pc' \in [Instances -> Locations] /\ to \in Locations
      /\ pc'[i] = to /\ \A k \in Instances \ {i} : pc'[k] = pc[k]
      /\ \A k \in Instances : BlockOf(k)' = BlockOf(k)
  <2>1. pc \in [Instances -> Locations]
    BY DEF CountInv, Shapes
  <2> QED BY <1>4, <1>6, <2>1, DisposesKeeps DEF Goto, BlockOf
<1>8. /\ (pc[i] \in Keeps(side) /\ to \notin Keeps(side)) \/ ~LastUser(m, side)
      /\ \A s \in Sides : /\ s # side => (pc[i] \in Keeps(s) <=> to \in Keeps(s))
                          /\ pc[i] \notin NotYet(s) /\ to \notin NotYet(s)
  BY <1>3, <1>4, LocationsOfSides DEF Sides
<1>9. /\ \A x \in Blocks : Users(x)' = Users(x)
      /\ \A x \in Multis, s \in Sides : PartUsers(x, s)' = PartUsers(x, s)
      /\ \A x \in Multis, s \in Sides : x # m \/ s # side => (PartHolds(x, s)' <=> PartHolds(x, s))
  <2>1. "recheck" \notin {pc[i], to}
    BY <1>4, <1>5 DEF Disposing
  <2> QED BY <1>1, <1>4, <1>7, <1>8, <2>1, StepSets
<1>10. \A x \in Multis \cap made, s \in Sides :
         PartBlock(x, s)' # NoBlock => part_refs'[x][s] = Cardinality(PartUsers(x, s)')
  BY <1>4, <1>9 DEF CountInv, RefCounts, PartBlock
<1>11. CASE LastUser(m, side)
  <2>1. b # NoBlock /\ b \in made /\ b \in Blocks
    BY <1>2, <1>5, <1>11 DEF LastUser, CountInv, BlocksAreMade, Shapes
  <2>2. PartHolds(m, side) /\ ~PartHolds(m, side)'
    <3>1. PartHolds(m, side)
      BY <1>1, <1>8, <1>11, PartHoldsWhileKept
    <3>2. \A k \in Instances : BlockOf(k)' # m \/ pc'[k] \notin Keeps(side)
      BY <1>1, <1>4, <1>5, <1>7, <1>8, <1>11, LastUserIsAlone
    <3>3. PartHolds(m, side)' <=> \E k \in Instances : BlockOf(k)' = m /\ pc'[k] \in Keeps(side)
      BY DEF PartHolds, PartUsers, Keeps, NotYet, Undisposed
    <3> QED BY <3>1, <3>2, <3>3
  <2>3. /\ <<m, side>> \in HeldParts(b) /\ HeldParts(b)' = HeldParts(b) \ {<<m, side>>}
        /\ \A x \in Blocks \ {b} : HeldParts(x)' = HeldParts(x)
    <3>1. \A x \in Multis, s \in Sides : PartBlock(x, s)' = PartBlock(x, s)
      BY <1>4 DEF PartBlock
    <3>2. <<m, side>> \in HeldParts(b)
      BY <1>2, <1>5, <2>2 DEF HeldParts
    <3>3. ASSUME NEW y \in Blocks, NEW x \in Multis, NEW s \in Sides
          PROVE  <<x, s>> \in HeldParts(y)' <=> <<x, s>> \in HeldParts(y) /\ ~(x = m /\ s = side)
      <4>1. /\ <<x, s>> \in HeldParts(y)' <=> PartBlock(x, s)' = y /\ PartHolds(x, s)'
            /\ <<x, s>> \in HeldParts(y) <=> PartBlock(x, s) = y /\ PartHolds(x, s)
        BY DEF HeldParts
      <4> QED BY <1>9, <2>2, <3>1, <4>1
    <3>4. \A y \in Blocks : HeldParts(y)' \subseteq Multis \X Sides /\ HeldParts(y) \subseteq Multis \X Sides
      BY DEF HeldParts
    <3>5. \A y \in Blocks : \A r \in Multis \X Sides :
            r \in HeldParts(y)' <=> r \in HeldParts(y) /\ r # <<m, side>>
      BY <3>3
    <3>6. \A y \in Blocks : HeldParts(y)' = HeldParts(y) \ {<<m, side>>}
      BY <3>4, <3>5
    <3>7. \A y \in Blocks \ {b} : <<m, side>> \notin HeldParts(y)
      BY <1>2 DEF HeldParts
    <3>8. \A y \in Blocks \ {b} : HeldParts(y)' = HeldParts(y)
      BY <3>6, <3>7
    <3>9. HeldParts(b)' = HeldParts(b) \ {<<m, side>>}
      BY <2>1, <3>6
    <3> QED BY <3>2, <3>8, <3>9
  <2>4. GivesUp(i, b) /\ ref_count[b] > 0
    <3>1. ref_count[b] > 0
      BY <2>1, <2>3, InUseIsCounted
    <3> QED BY <1>4, <1>11, <2>1, <3>1 DEF GivesUp, Dec
  <2>5. ReleasedIsUnused' /\ ref_count' \in [Blocks -> Int]
    BY <1>4, <2>4, GivenUpIsUnreleased
  <2>6. ASSUME NEW x \in made
        PROVE  ref_count'[x] = Cardinality(Users(x)') + Cardinality(HeldParts(x)')
    <3>1. x \in Blocks /\ ref_count[x] = Cardinality(Users(x)) + Cardinality(HeldParts(x))
      BY DEF CountInv, Shapes, RefCounts
    <3>2. CASE x = b
      <4>1. Cardinality(HeldParts(b)') = Cardinality(HeldParts(b)) - 1
        <5>1. IsFiniteSet(HeldParts(b))
          BY CountedFinite
        <5> QED BY <2>3, <5>1, FS_RemoveElement
      <4>2. ref_count'[b] = ref_count[b] - 1
        BY <2>1, <2>4 DEF GivesUp, CountInv, Shapes
      <4>3. Cardinality(Users(b)) \in Nat /\ Cardinality(HeldParts(b)) \in Nat
        BY CountedFinite
      <4>4. Cardinality(Users(b)') = Cardinality(Users(b))
        BY <1>9, <2>1
      <4> QED BY <3>1, <3>2, <4>1, <4>2, <4>3, <4>4
    <3>3. CASE x # b
      BY <1>9, <2>3, <2>4, <3>1, <3>3 DEF GivesUp, CountInv, Shapes
    <3> QED BY <3>2, <3>3
  <2>7. RefCounts'
    BY <1>4, <1>10, <2>6 DEF RefCounts
  <2>8. Shapes'
    BY <1>4, <1>7, <2>5 DEF CountInv, Shapes
  <2> QED BY <1>7, <2>5, <2>7, <2>8 DEF CountInv
<1>12. CASE ~LastUser(m, side)
  <2>1. PartBlock(m, side) = NoBlock \/ (PartHolds(m, side)' <=> PartHolds(m, side))
    <3> SUFFICES ASSUME PartBlock(m, side) # NoBlock
                 PROVE  PartHolds(m, side)' /\ PartHolds(m, side)
      OBVIOUS
    <3>1. PartUsers(m, side) # {}
      <4>1. part_refs[m][side] # 0
        BY <1>12 DEF LastUser
      <4>2. part_refs[m][side] = Cardinality(PartUsers(m, side))
        BY <1>5 DEF CountInv, RefCounts
      <4> QED BY <4>1, <4>2, FS_EmptySet
    <3>2. PartUsers(m, side)' # {}
      BY <1>5, <1>9, <3>1
    <3> QED BY <3>1, <3>2 DEF PartHolds
  <2>2. \A x \in made : HeldParts(x)' = HeldParts(x)
    <3> SUFFICES ASSUME NEW x \in made, NEW y \in Multis, NEW s \in Sides, PartBlock(y, s) = x
                 PROVE  PartHolds(y, s)' <=> PartHolds(y, s)
      BY <1>4 DEF HeldParts, PartBlock
    <3>1. x # NoBlock
      BY BlocksAssumption DEF CountInv, Shapes
    <3> QED BY <1>9, <2>1, <3>1
  <2>3. RefCounts'
    <3>1. \A x \in made : ref_count'[x] = Cardinality(Users(x)') + Cardinality(HeldParts(x)')
      BY <1>4, <1>9, <1>12, <2>2 DEF CountInv, RefCounts, Shapes
    <3> QED BY <1>4, <1>10, <3>1 DEF RefCounts
  <2>4. Shapes' /\ ReleasedIsUnused'
    BY <1>4, <1>7, <1>12 DEF CountInv, Shapes, ReleasedIsUnused
  <2> QED BY <1>7, <2>3, <2>4 DEF CountInv
<1> QED BY <1>11, <1>12

\* Releasing is for blocks nobody refers to.
LEMMA ReleaseIsOfUnused ==
  ASSUME CountInv, NEW b \in made,
         IF Unused(b) THEN Destroy(b) ELSE UNCHANGED released, UNCHANGED <<made, ref_count>>
  PROVE  ReleasedIsUnused' /\ released' \in [Blocks -> Nat]
<1>1. b \in Blocks /\ released \in [Blocks -> Nat]
  BY DEF CountInv, Shapes
<1>2. CASE Unused(b)
  <2>1. released' = [released EXCEPT ![b] = @ + 1] /\ ref_count[b] = 0
    BY <1>2 DEF Unused, Destroy
  <2>2. released' \in [Blocks -> Nat] /\ \A x \in Blocks \ {b} : released'[x] = released[x]
    BY <1>1, <2>1
  <2> QED BY <2>1, <2>2 DEF CountInv, ReleasedIsUnused
<1>3. CASE ~Unused(b)
  BY <1>1, <1>3 DEF CountInv, ReleasedIsUnused
<1> QED BY <1>2, <1>3

LEMMA RecheckPartCount ==
  ASSUME CountInv, NEW i \in Instances, NEW side \in Sides, NEW here, NEW next,
         \/ side = "one" /\ here = "recheck_one" /\ next = "check_two"
         \/ side = "two" /\ here = "recheck_two" /\ next = "drop",
         RecheckPart(i, side, here, next)
  PROVE  CountInv'
<1>1. PICK m : m = BlockOf(i)
  OBVIOUS
<1>2. /\ pc[i] = here /\ Goto(i, next) /\ here \in Disposing /\ next \in Disposing \ {"recheck"}
      /\ UNCHANGED <<made, ref_count, part, part_refs, stream, local>>
  BY DEF RecheckPart, Disposing
<1>3. m \in Multis /\ m # NoBlock /\ PartBlock(m, side) \in made
  <2>1. m \in Multis /\ m # NoBlock /\ PartBlock(m, side) # NoBlock
    BY <1>1, <1>2, BlocksAssumption DEF CountInv, CallsAreOnBlocks, Locations, Disposing, Blocks
  <2> QED BY <2>1 DEF CountInv, BlocksAreMade
<1>4. Disposes(i, next)
  BY <1>1, <1>2, <1>3 DEF Disposes
<1>5. /\ BlocksAreMade' /\ CallsAreOnBlocks' /\ DisposalsApart'
      /\ pc' \in [Instances -> Locations] /\ next \in Locations
  BY <1>4, DisposesKeeps
<1>6. ReleasedIsUnused' /\ released' \in [Blocks -> Nat]
  BY <1>1, <1>2, <1>3, ReleaseIsOfUnused DEF RecheckPart
<1>7. \A s \in Sides : (pc[i] \in Keeps(s) <=> next \in Keeps(s)) /\ (pc[i] \in NotYet(s) <=> next \in NotYet(s))
  BY <1>2, LocationsOfSides DEF Sides
<1>8. /\ \A x \in Blocks : Users(x)' = Users(x)
      /\ \A x \in Multis, s \in Sides :
           PartUsers(x, s)' = PartUsers(x, s) /\ (PartHolds(x, s)' <=> PartHolds(x, s))
  <2>1. "recheck" \notin {pc[i], next}
    BY <1>2 DEF Disposing
  <2> QED BY <1>2, <1>5, <1>7, <2>1, StepSets
<1>9. \A x \in Blocks : HeldParts(x)' = HeldParts(x)
  BY <1>2, <1>5, <1>8, StepSets
<1>10. Shapes' /\ RefCounts'
  BY <1>2, <1>5, <1>6, <1>8, <1>9 DEF CountInv, Shapes, RefCounts, PartBlock
<1> QED BY <1>5, <1>6, <1>10 DEF CountInv

\* Dispose returns: the instance is gone, and had been counted no more before.
LEMMA RecheckCount ==
  ASSUME CountInv, NEW i \in Instances, Recheck(i)
  PROVE  CountInv'
<1>1. /\ pc[i] = "recheck" /\ pc' = [pc EXCEPT ![i] = "idle"]
      /\ stream' = [stream EXCEPT ![i] = NoInstance]
      /\ UNCHANGED <<made, ref_count, part, part_refs, local>>
  BY DEF Recheck, Goto, Update
<1>2. /\ pc'[i] = "idle" /\ \A k \in Instances \ {i} : pc'[k] = pc[k]
      /\ BlockOf(i)' = NoBlock /\ \A k \in Instances \ {i} : BlockOf(k)' = BlockOf(k)
      /\ pc' \in [Instances -> Locations] /\ stream' \in [Instances -> InstanceValues]
  BY <1>1, NoInstanceType DEF CountInv, Shapes, BlockOf, Locations
<1>3. BlockOf(i) \in made /\ made \subseteq Blocks
  BY <1>1 DEF CountInv, CallsAreOnBlocks, BlocksAreMade, Shapes
<1>4. ReleasedIsUnused' /\ released' \in [Blocks -> Nat]
  BY <1>1, <1>3, ReleaseIsOfUnused DEF Recheck
<1>5. \A b \in Blocks : Users(b)' = Users(b)
  BY <1>1, <1>2, BlocksAssumption DEF Users, Refers
<1>6. \A s \in Sides : "recheck" \notin NotYet(s) /\ "recheck" \notin Keeps(s)
  BY LocationsOfSides DEF Sides
<1>7. ASSUME NEW m \in Multis, NEW s \in Sides
      PROVE  PartUsers(m, s)' = PartUsers(m, s) /\ (PartHolds(m, s)' <=> PartHolds(m, s))
  <2>1. m # NoBlock
    BY BlocksAssumption DEF Blocks
  <2>2. NotYet(s)' = NotYet(s)
    BY DEF NotYet
  <2>3. PartUsers(m, s)' = PartUsers(m, s)
    BY <1>1, <1>2, <1>6, <2>1, <2>2 DEF PartUsers
  <2>4. PartHolds(m, s)' <=> \E k \in Instances : BlockOf(k)' = m /\ pc'[k] \in Keeps(s)
    BY DEF PartHolds, PartUsers, Keeps, NotYet, Undisposed
  <2> QED BY <1>1, <1>2, <1>6, <2>1, <2>3, <2>4, PartHoldsWhileKept
<1>8. \A b \in Blocks : HeldParts(b)' = HeldParts(b)
  BY <1>1, <1>7 DEF HeldParts, PartBlock
<1>9. Shapes' /\ RefCounts'
  BY <1>1, <1>2, <1>4, <1>5, <1>7, <1>8 DEF CountInv, Shapes, RefCounts, PartBlock
<1>10. BlocksAreMade'
  BY <1>1, <1>2 DEF CountInv, BlocksAreMade, PartBlock
<1>11. CallsAreOnBlocks'
  <2> SUFFICES ASSUME NEW k \in Instances
               PROVE  /\ BlockOf(k)' = NoBlock => pc'[k] = "idle"
                      /\ pc'[k] \in Locations \ {"idle", "recheck"} => BlockOf(k)' \in Multis
                      /\ pc'[k] = "recheck_one" => PartBlock(BlockOf(k), "one")' # NoBlock
                      /\ pc'[k] = "recheck_two" => PartBlock(BlockOf(k), "two")' # NoBlock
    BY DEF CallsAreOnBlocks
  <2>1. CASE k = i
    BY <1>2, <2>1
  <2>2. CASE k # i
    BY <1>1, <1>2, <2>2 DEF CountInv, CallsAreOnBlocks, PartBlock
  <2> QED BY <2>1, <2>2
<1>12. DisposalsApart'
  <2>1. "idle" \notin Disposing
    BY DEF Disposing
  <2> QED BY <1>2, <2>1 DEF CountInv, DisposalsApart, Disposing
<1> QED BY <1>4, <1>9, <1>10, <1>11, <1>12 DEF CountInv

-----------------------------------------------------------------------------
(***************************************************************************)
(* The theorems.                                                           *)
(***************************************************************************)
LEMMA InitCount == Init => CountInv
<1> SUFFICES ASSUME Init PROVE CountInv
  OBVIOUS
<1> USE DEF Init
<1>1. Shapes
  <2>1. NoRead \in [side : Sides, left : Nat, bytes : Seq(Byte)]
    <3> HIDE DEF Byte
    <3> QED BY DEF NoRead, Sides
  <2> HIDE DEF Byte
  <2> QED BY <2>1, NoInstanceType DEF Shapes, Locations
<1>2. BlocksAreMade /\ \A i \in Instances : BlockOf(i) = NoBlock
  BY NoInstanceType DEF BlocksAreMade, BlockOf, PartBlock
<1>3. CallsAreOnBlocks /\ DisposalsApart
  BY DEF CallsAreOnBlocks, DisposalsApart, Disposing, Locations
<1>4. ReleasedIsUnused
  BY DEF ReleasedIsUnused
<1>5. RefCounts
  BY DEF RefCounts
<1> QED BY <1>1, <1>2, <1>3, <1>4, <1>5 DEF CountInv

LEMMA StutterCount ==
  ASSUME CountInv, UNCHANGED vars
  PROVE  CountInv'
<1>1. Shapes' /\ BlocksStay /\ \A i \in Instances : StaysOrReads(i)
  BY DEF CountInv, Shapes, vars, shared, BlocksStay, StaysOrReads, BlockOf, PartBlock
<1> QED BY <1>1, QuietStep DEF vars, shared, QuietMove

LEMMA DisposeStepCount ==
  ASSUME CountInv, Overlapping \subseteq Buffers, NEW i \in Instances, DisposeStep(i)
  PROVE  CountInv'
<1>1. "one" \in Sides /\ "two" \in Sides
  BY DEF Sides
<1>2. CASE DropTwo(i)
  BY <1>2, DropTwoCount
<1>3. CASE CheckPart(i, "one", "check_one", "recheck_one", "check_two")
  BY <1>1, <1>3, CheckPartCount
<1>4. CASE RecheckPart(i, "one", "recheck_one", "check_two")
  BY <1>1, <1>4, RecheckPartCount
<1>5. CASE CheckPart(i, "two", "check_two", "recheck_two", "drop")
  BY <1>1, <1>5, CheckPartCount
<1>6. CASE RecheckPart(i, "two", "recheck_two", "drop")
  BY <1>1, <1>6, RecheckPartCount
<1>7. CASE Drop(i)
  BY <1>7, DropCount
<1>8. CASE Recheck(i)
  BY <1>8, RecheckCount
<1> QED BY <1>2, <1>3, <1>4, <1>5, <1>6, <1>7, <1>8 DEF DisposeStep

LEMMA NextCount ==
  ASSUME CountInv, Overlapping \subseteq Buffers, Next
  PROVE  CountInv'
<1>1. PICK i \in Instances :
        \/ \E b \in Buffers : az_ulib_ustream_init(i, b)
        \/ \E p \in Targets : SetPosition(i, p) \/ Release(i, p)
        \/ Reset(i)
        \/ \E n \in ReadSizes : ReadBuffer(i, n) \/ StartRead(i, n)
        \/ ReadPart(i)
        \/ \E j \in Instances :
             \/ \E offset \in Offsets : Clone(j, i, offset)
             \/ \E m \in Multis : Concat(i, j, m)
             \/ \E p \in Targets : Split(i, j, p)
        \/ DisposeBuffer(i)
        \/ DisposeMulti(i)
        \/ DisposeStep(i)
  BY DEF Next
<1>2. ASSUME NEW b \in Buffers, az_ulib_ustream_init(i, b) PROVE CountInv'
  BY <1>2, CreateCount
<1>3. CASE \/ \E p \in Targets : SetPosition(i, p) \/ Release(i, p)
           \/ Reset(i)
           \/ \E n \in ReadSizes : ReadBuffer(i, n)
  BY <1>3, PositionCalls, QuietStep
<1>4. ASSUME NEW n \in ReadSizes, StartRead(i, n) PROVE CountInv'
  BY <1>4, StartReadQuiet, QuietStep
<1>5. CASE ReadPart(i)
  BY <1>5, ReadPartQuiet, QuietStep
<1>6. ASSUME NEW j \in Instances, NEW offset \in Offsets, Clone(j, i, offset) PROVE CountInv'
  BY <1>6, CloneCount
<1>7. ASSUME NEW j \in Instances, NEW m \in Multis, Concat(i, j, m) PROVE CountInv'
  BY <1>7, ConcatMoved, ConcatCount
<1>8. ASSUME NEW j \in Instances, NEW p \in Targets, Split(i, j, p) PROVE CountInv'
  BY <1>8, SplitCount
<1>9. CASE DisposeBuffer(i)
  BY <1>9, DisposeBufferCount
<1>10. CASE DisposeMulti(i)
  BY <1>10, DisposeMultiCount
<1>11. CASE DisposeStep(i)
  BY <1>11, DisposeStepCount
<1> QED BY <1>1, <1>2, <1>3, <1>4, <1>5, <1>6, <1>7, <1>8, <1>9, <1>10, <1>11

LEMMA Counted == ASSUME Overlapping \subseteq Buffers PROVE Spec => []CountInv
<1>1. Init => CountInv
  BY InitCount
<1>2. CountInv /\ [Next]_vars => CountInv'
  BY NextCount, StutterCount
<1> QED BY <1>1, <1>2, PTL DEF Spec

\* The counter of every control block is the number of instances and of parts of
\* concatenations that refer to it, and the counters of the parts of a concatenation
\* the number of its instances, in every state of every interleaving of the calls
\* (az_ulib_ustream_clone, _split, _concat and _dispose; ustream.c, ustream_aux.c),
\* provided that only instances of buffers are disposed of concurrently.
THEOREM CountsAreReferences ==
  ASSUME Overlapping \subseteq Buffers
  PROVE  Spec => []RefCounts
BY Counted, PTL DEF CountInv

\* Nobody who may still read the data of a control block, directly or as part of a
\* concatenation, finds it released (data_release in ustream.c and ustream_aux.c).
THEOREM NobodyReadsReleased ==
  ASSUME Overlapping \subseteq Buffers
  PROVE  Spec => []NoReadAfterRelease
<1>1. CountInv => NoReadAfterRelease
  <2> SUFFICES ASSUME CountInv, NEW i \in Instances, pc[i] \notin Disposing,
                      NEW b \in Reachable(i) \cap made
               PROVE  released[b] = 0
    BY DEF NoReadAfterRelease
  <2>1. b \in Blocks /\ (ref_count[b] > 0 => released[b] = 0) /\ pc[i] \in {"idle", "reading"}
    BY DEF CountInv, Shapes, ReleasedIsUnused, Locations
  <2>2. CASE b = BlockOf(i)
    <3>1. i \in Users(b)
      BY <2>1, <2>2 DEF Users, Refers
    <3> QED BY <2>1, <3>1, InUseIsCounted
  <2>3. ASSUME NEW s \in Sides, IsMulti(i), b = PartBlock(BlockOf(i), s)
        PROVE  released[b] = 0
    <3>1. PICK m \in Multis : m = BlockOf(i)
      BY <2>3 DEF IsMulti, BlockOf
    <3>2. {"idle", "reading"} \subseteq NotYet(s)
      BY LocationsOfSides DEF Sides
    <3>3. PartHolds(m, s)
      BY <2>1, <3>1, <3>2 DEF PartHolds, PartUsers
    <3>4. <<m, s>> \in HeldParts(b)
      BY <2>3, <3>1, <3>3 DEF HeldParts
    <3> QED BY <2>1, <3>4, InUseIsCounted
  <2> QED BY <2>2, <2>3 DEF Reachable
<1> QED BY <1>1, Counted, PTL

-----------------------------------------------------------------------------
(***************************************************************************)
(* Where disposals do not overlap, data is released once: when a thread    *)
(* reads the counter again, it is the one that decremented it.             *)
(***************************************************************************)
Rechecks == {"recheck_one", "recheck_two", "recheck"}

\* Block b is the one whose counter thread k is about to read again.
Releases(k, b) ==
  \/ pc[k] = "recheck_one" /\ b = PartBlock(BlockOf(k), "one")
  \/ pc[k] = "recheck_two" /\ b = PartBlock(BlockOf(k), "two")
  \/ pc[k] = "recheck" /\ b = BlockOf(k)

OnceInv ==
  /\ ReleasedOnce
  /\ \A k \in Instances, b \in Blocks : Releases(k, b) => released[b] = 0

\* A step that leaves the disposals in progress alone.
DisposalsStay ==
  /\ UNCHANGED released
  /\ \A k \in Instances :
       \/ pc'[k] \notin Rechecks
       \/ /\ pc'[k] = pc[k] /\ BlockOf(k)' = BlockOf(k)
          /\ pc[k] # "recheck" =>
               \A s \in Sides : PartBlock(BlockOf(k), s)' = PartBlock(BlockOf(k), s)

LEMMA StayOnce ==
  ASSUME OnceInv, DisposalsStay
  PROVE  OnceInv'
<1>1. ReleasedOnce'
  BY DEF OnceInv, ReleasedOnce, DisposalsStay
<1>2. ASSUME NEW k \in Instances, NEW b \in Blocks, Releases(k, b)'
      PROVE  released'[b] = 0
  <2>1. pc'[k] \in Rechecks
    BY <1>2 DEF Releases, Rechecks
  <2>2. Releases(k, b)
    BY <1>2, <2>1 DEF Releases, DisposalsStay, Sides
  <2> QED BY <2>2 DEF OnceInv, DisposalsStay
<1> QED BY <1>1, <1>2 DEF OnceInv

LEMMA QuietStays ==
  ASSUME CountInv, QuietMove
  PROVE  DisposalsStay
<1>1. \A k \in Instances : pc'[k] \notin Rechecks \/ pc'[k] = pc[k]
  BY DEF QuietMove, StaysOrReads, Rechecks
<1>2. \A k \in Instances : BlockOf(k)' = BlockOf(k)
  BY DEF QuietMove, BlocksStay
<1>3. ASSUME NEW k \in Instances, pc[k] \in Rechecks, pc[k] # "recheck", NEW s \in Sides
      PROVE  PartBlock(BlockOf(k), s)' = PartBlock(BlockOf(k), s)
  <2>1. PICK m \in Multis : m = BlockOf(k)
    BY <1>3 DEF CountInv, CallsAreOnBlocks, Locations, Disposing, Rechecks
  <2>2. PartBlock(m, s)' = PartBlock(m, s) /\ BlockOf(k)' = m
    BY <1>2, <2>1 DEF QuietMove, BlocksStay
  <2> QED BY <2>1, <2>2 DEF PartBlock
<1> QED BY <1>1, <1>2, <1>3 DEF DisposalsStay, QuietMove

\* Creating an instance is a matter of idle threads.
LEMMA CreationStays ==
  ASSUME CountInv, NEW i \in Instances, NEW j \in Instances,
         \A k \in Instances \ {i, j} : BlockOf(k)' = BlockOf(k),
         pc[i] = "idle", pc[j] = "idle", UNCHANGED <<pc, released>>,
         \A m \in Multis \cap made, s \in Sides : PartBlock(m, s)' = PartBlock(m, s)
  PROVE  DisposalsStay
<1> SUFFICES ASSUME NEW k \in Instances, pc[k] \in Rechecks
             PROVE  /\ BlockOf(k)' = BlockOf(k)
                    /\ pc[k] # "recheck" =>
                         \A s \in Sides : PartBlock(BlockOf(k), s)' = PartBlock(BlockOf(k), s)
  BY DEF DisposalsStay
<1>1. BlockOf(k)' = BlockOf(k)
  BY DEF Rechecks
<1>2. ASSUME pc[k] # "recheck", NEW s \in Sides
      PROVE  PartBlock(BlockOf(k), s)' = PartBlock(BlockOf(k), s)
  <2>1. PICK m \in Multis : m = BlockOf(k) /\ m \in made
    <3>1. BlockOf(k) \in Multis /\ BlockOf(k) # NoBlock
      BY <1>2, BlocksAssumption
         DEF CountInv, CallsAreOnBlocks, Locations, Disposing, Rechecks, Blocks
    <3> QED BY <3>1 DEF CountInv, BlocksAreMade
  <2>2. PartBlock(m, s)' = PartBlock(m, s) /\ BlockOf(k)' = m
    BY <1>1, <2>1
  <2> QED BY <2>1, <2>2 DEF PartBlock
<1> QED BY <1>1, <1>2

LEMMA CreateStays ==
  ASSUME CountInv, NEW i \in Instances, NEW b \in Buffers, az_ulib_ustream_init(i, b)
  PROVE  DisposalsStay
<1>1. pc[i] = "idle"
  BY NoInstanceType DEF az_ulib_ustream_init, Vacant, CountInv, CallsAreOnBlocks, BlockOf
<1>2. UNCHANGED <<pc, part, released>> /\ \A k \in Instances \ {i} : BlockOf(k)' = BlockOf(k)
  BY DEF az_ulib_ustream_init, Update, BlockOf, CountInv, Shapes
<1> QED BY <1>1, <1>2, CreationStays DEF PartBlock

LEMMA CopyStays ==
  ASSUME CountInv, NEW i \in Instances, NEW j \in Instances,
         \/ \E offset \in Offsets : Clone(j, i, offset)
         \/ \E p \in Targets : Split(i, j, p)
  PROVE  DisposalsStay
<1>1. pc[i] = "idle" /\ Vacant(j)
  BY DEF Clone, Split, Open
<1>2. pc[j] = "idle"
  BY <1>1, NoInstanceType DEF Vacant, CountInv, CallsAreOnBlocks, BlockOf
<1>3. UNCHANGED <<pc, part, released>> /\ \A k \in Instances \ {i, j} : BlockOf(k)' = BlockOf(k)
  BY DEF Clone, Split, Update, BlockOf, CountInv, Shapes
<1> QED BY <1>1, <1>2, <1>3, CreationStays DEF PartBlock

LEMMA ConcatStays ==
  ASSUME CountInv, NEW i \in Instances, NEW j \in Instances, NEW m \in Multis, Concat(i, j, m)
  PROVE  DisposalsStay
<1>1. PICK one, two : ConcatMoves(i, m, one, two)
  BY ConcatMoved
<1> QED BY <1>1, CreationStays DEF ConcatMoves

\* A step of a disposal that decrements a counter.
LEMMA DecrementOnce ==
  ASSUME CountInv, OnceInv, NEW i \in Instances, NEW next \in Locations, Goto(i, next),
         next = "recheck" => BlockOf(i) \in made /\ ref_count[BlockOf(i)] > 0,
         next = "recheck_one" =>
           PartBlock(BlockOf(i), "one") \in made /\ ref_count[PartBlock(BlockOf(i), "one")] > 0,
         next = "recheck_two" =>
           PartBlock(BlockOf(i), "two") \in made /\ ref_count[PartBlock(BlockOf(i), "two")] > 0,
         UNCHANGED <<part, stream, released>>
  PROVE  OnceInv'
<1>1. /\ pc'[i] = next /\ \A k \in Instances \ {i} : pc'[k] = pc[k]
      /\ \A k \in Instances : BlockOf(k)' = BlockOf(k)
      /\ \A k \in Instances, s \in Sides : PartBlock(BlockOf(k), s)' = PartBlock(BlockOf(k), s)
  BY DEF Goto, CountInv, Shapes, BlockOf, PartBlock
<1>2. ASSUME NEW k \in Instances, NEW b \in Blocks, Releases(k, b)'
      PROVE  released[b] = 0
  <2>1. CASE k = i
    <3>1. ref_count[b] > 0
      BY <1>1, <1>2, <2>1 DEF Releases, Sides
    <3> QED BY <3>1 DEF CountInv, ReleasedIsUnused
  <2>2. CASE k # i
    BY <1>1, <1>2, <2>2 DEF Releases, Sides, OnceInv
  <2> QED BY <2>1, <2>2
<1>3. ReleasedOnce'
  BY DEF OnceInv, ReleasedOnce
<1> QED BY <1>2, <1>3 DEF OnceInv

\* A step of a disposal that reads the counter again.
LEMMA RecheckOnce ==
  ASSUME CountInv, OnceInv, Overlapping = {},
         NEW i \in Instances, NEW b \in Blocks, Releases(i, b), NEW next, Goto(i, next), next \notin Rechecks,
         IF Unused(b) THEN Destroy(b) ELSE UNCHANGED released
  PROVE  OnceInv'
<1>1. released[b] = 0 /\ released \in [Blocks -> Nat] /\ pc \in [Instances -> Locations]
  BY DEF OnceInv, CountInv, Shapes
<1>2. \A x \in Blocks : released'[x] <= 1
  BY <1>1 DEF Destroy, OnceInv, ReleasedOnce
<1>3. \A k \in Instances : pc'[k] \notin Rechecks
  <2>1. pc[i] \in Disposing /\ Rechecks \subseteq Disposing
    BY DEF Releases, Rechecks, Disposing
  <2>2. \A k \in Instances \ {i} : pc[k] \notin Disposing
    BY <2>1 DEF CountInv, DisposalsApart
  <2> QED BY <1>1, <2>1, <2>2 DEF Goto
<1> QED BY <1>2, <1>3 DEF OnceInv, ReleasedOnce, Releases, Rechecks

LEMMA DisposeBeginsOnce ==
  ASSUME CountInv, OnceInv, NEW i \in Instances, DisposeBuffer(i) \/ DisposeMulti(i) \/ DropTwo(i) \/ Drop(i)
  PROVE  OnceInv'
<1>1. CASE DisposeBuffer(i) \/ Drop(i)
  <2>1. Goto(i, "recheck") /\ "recheck" \in Locations /\ UNCHANGED <<part, stream, released>> /\ pc[i] # "recheck"
    BY <1>1 DEF DisposeBuffer, Drop, MayDispose, Open, Locations, Disposing
  <2>2. BlockOf(i) # NoBlock
    BY <1>1 DEF DisposeBuffer, Drop, MayDispose, Open, BlockOf, CountInv, CallsAreOnBlocks
  <2>3. BlockOf(i) \in made /\ i \in Users(BlockOf(i))
    BY <2>1, <2>2 DEF CountInv, BlocksAreMade, Users, Refers
  <2>4. ref_count[BlockOf(i)] > 0
    BY <2>3, InUseIsCounted
  <2> QED BY <2>1, <2>3, <2>4, DecrementOnce
<1>2. CASE DisposeMulti(i) \/ DropTwo(i)
  <2>1. PICK next \in Locations \ Rechecks : Goto(i, next)
    BY <1>2 DEF DisposeMulti, DropTwo, Locations, Disposing, Rechecks
  <2>2. UNCHANGED <<part, stream, released>>
    BY <1>2 DEF DisposeMulti, DropTwo
  <2> QED BY <2>1, <2>2, DecrementOnce DEF Rechecks
<1> QED BY <1>1, <1>2

LEMMA CheckPartOnce ==
  ASSUME CountInv, OnceInv, Overlapping \subseteq Buffers, NEW i \in Instances, NEW side \in Sides,
         NEW here, NEW recheck, NEW next,
         \/ side = "one" /\ here = "check_one" /\ recheck = "recheck_one" /\ next = "check_two"
         \/ side = "two" /\ here = "check_two" /\ recheck = "recheck_two" /\ next = "drop",
         CheckPart(i, side, here, recheck, next)
  PROVE  OnceInv'
<1>1. UNCHANGED <<part, stream, released>> /\ pc[i] = here
  BY DEF CheckPart
<1>2. CASE LastUser(BlockOf(i), side)
  <2>1. PICK m \in Multis : m = BlockOf(i)
    BY <1>1 DEF CountInv, CallsAreOnBlocks, Locations, Disposing
  <2>2. PICK b : b = PartBlock(m, side)
    OBVIOUS
  <2>3. b \in made
    BY <1>2, <2>1, <2>2 DEF LastUser, CountInv, BlocksAreMade
  <2>4. PartHolds(m, side)
    BY <1>1, <2>1, LocationsOfSides, PartHoldsWhileKept
  <2>5. <<m, side>> \in HeldParts(b)
    BY <2>2, <2>4 DEF HeldParts
  <2>6. ref_count[b] > 0
    BY <2>3, <2>5, InUseIsCounted
  <2>7. Goto(i, recheck) /\ recheck \in Locations
    BY <1>2 DEF CheckPart, Locations, Disposing
  <2> QED BY <1>1, <2>1, <2>2, <2>3, <2>6, <2>7, DecrementOnce
<1>3. CASE ~LastUser(BlockOf(i), side)
  <2>1. Goto(i, next) /\ next \in Locations \ Rechecks
    BY <1>3 DEF CheckPart, Locations, Disposing, Rechecks
  <2> QED BY <1>1, <2>1, DecrementOnce DEF Rechecks
<1> QED BY <1>2, <1>3

LEMMA DisposeStepOnce ==
  ASSUME CountInv, OnceInv, Overlapping = {}, NEW i \in Instances, DisposeStep(i)
  PROVE  OnceInv'
<1>1. "one" \in Sides /\ "two" \in Sides /\ Overlapping \subseteq Buffers
  BY DEF Sides
<1>2. CASE DropTwo(i) \/ Drop(i)
  BY <1>2, DisposeBeginsOnce
<1>3. CASE CheckPart(i, "one", "check_one", "recheck_one", "check_two")
  BY <1>1, <1>3, CheckPartOnce
<1>4. CASE CheckPart(i, "two", "check_two", "recheck_two", "drop")
  BY <1>1, <1>4, CheckPartOnce
<1>5. CASE \/ RecheckPart(i, "one", "recheck_one", "check_two")
           \/ RecheckPart(i, "two", "recheck_two", "drop")
  <2>1. PICK side \in Sides, next \in {"check_two", "drop"} :
          /\ \/ pc[i] = "recheck_one" /\ side = "one"
             \/ pc[i] = "recheck_two" /\ side = "two"
          /\ IF Unused(PartBlock(BlockOf(i), side))
             THEN Destroy(PartBlock(BlockOf(i), side)) ELSE UNCHANGED released
          /\ Goto(i, next)
    BY <1>1, <1>5 DEF RecheckPart
  <2>2. PICK b : b = PartBlock(BlockOf(i), side)
    OBVIOUS
  <2>3. b \in Blocks
    <3>1. BlockOf(i) \in Multis /\ b # NoBlock
      BY <2>1, <2>2 DEF CountInv, CallsAreOnBlocks, Locations, Disposing
    <3> QED BY <2>2, <3>1 DEF CountInv, BlocksAreMade, Shapes
  <2>4. Releases(i, b) /\ next \notin Rechecks
    BY <2>1, <2>2 DEF Releases, Rechecks
  <2> QED BY <2>1, <2>2, <2>3, <2>4, RecheckOnce
<1>6. CASE Recheck(i)
  <2>1. PICK b : b = BlockOf(i)
    OBVIOUS
  <2>2. b \in Blocks
    BY <1>6, <2>1 DEF Recheck, CountInv, CallsAreOnBlocks, BlocksAreMade, Shapes
  <2>3. /\ Releases(i, b) /\ "idle" \notin Rechecks /\ Goto(i, "idle")
        /\ IF Unused(b) THEN Destroy(b) ELSE UNCHANGED released
    BY <1>6, <2>1 DEF Recheck, Releases, Rechecks
  <2> QED BY <2>2, <2>3, RecheckOnce
<1> QED BY <1>2, <1>3, <1>4, <1>5, <1>6 DEF DisposeStep

LEMMA NextOnce ==
  ASSUME CountInv, OnceInv, Overlapping = {}, Next
  PROVE  OnceInv'
<1>1. PICK i \in Instances :
        \/ \E b \in Buffers : az_ulib_ustream_init(i, b)
        \/ \E p \in Targets : SetPosition(i, p) \/ Release(i, p)
        \/ Reset(i)
        \/ \E n \in ReadSizes : ReadBuffer(i, n) \/ StartRead(i, n)
        \/ ReadPart(i)
        \/ \E j \in Instances :
             \/ \E offset \in Offsets : Clone(j, i, offset)
             \/ \E m \in Multis : Concat(i, j, m)
             \/ \E p \in Targets : Split(i, j, p)
        \/ DisposeBuffer(i)
        \/ DisposeMulti(i)
        \/ DisposeStep(i)
  BY DEF Next
<1>2. ASSUME NEW b \in Buffers, az_ulib_ustream_init(i, b) PROVE OnceInv'
  BY <1>2, CreateStays, StayOnce
<1>3. CASE \/ \E p \in Targets : SetPosition(i, p) \/ Release(i, p)
           \/ Reset(i)
           \/ \E n \in ReadSizes : ReadBuffer(i, n)
  BY <1>3, PositionCalls, QuietStays, StayOnce
<1>4. ASSUME NEW n \in ReadSizes, StartRead(i, n) PROVE OnceInv'
  BY <1>4, StartReadQuiet, QuietStays, StayOnce
<1>5. CASE ReadPart(i)
  BY <1>5, ReadPartQuiet, QuietStays, StayOnce
<1>6. ASSUME NEW j \in Instances, \/ \E offset \in Offsets : Clone(j, i, offset)
                                  \/ \E p \in Targets : Split(i, j, p)
      PROVE  OnceInv'
  BY <1>6, CopyStays, StayOnce
<1>7. ASSUME NEW j \in Instances, NEW m \in Multis, Concat(i, j, m) PROVE OnceInv'
  BY <1>7, ConcatStays, StayOnce
<1>8. CASE DisposeBuffer(i) \/ DisposeMulti(i)
  BY <1>8, DisposeBeginsOnce
<1>9. CASE DisposeStep(i)
  BY <1>9, DisposeStepOnce
<1> QED BY <1>1, <1>2, <1>3, <1>4, <1>5, <1>6, <1>7, <1>8, <1>9

\* data_release is called once for each control block, whoever disposes of the last
\* instance and whatever that instance was, as long as disposals do not overlap
\* (two that do may both find the counter at zero; see ustream_dispose_race).
THEOREM DataIsReleasedOnce ==
  ASSUME Overlapping = {}
  PROVE  Spec => []ReleasedOnce
<1>1. Init => OnceInv
  BY DEF Init, OnceInv, ReleasedOnce, Releases
<1>2. ASSUME CountInv, OnceInv, UNCHANGED vars PROVE OnceInv'
  BY <1>2 DEF OnceInv, ReleasedOnce, Releases, BlockOf, PartBlock, vars, shared
<1>3. CountInv /\ OnceInv /\ [Next]_vars => OnceInv'
  BY <1>2, NextOnce
<1>4. Spec => []CountInv
  BY Counted
<1>5. OnceInv => ReleasedOnce
  BY DEF OnceInv
<1> QED BY <1>1, <1>3, <1>4, <1>5, PTL DEF Spec

-----------------------------------------------------------------------------
(***************************************************************************)
(* The arithmetic of positions.                                            *)
(***************************************************************************)

\* What wraps at most once.
LEMMA WrapValue ==
  ASSUME NEW n \in Int, -UINT32_MAX <= n, n <= 2 * UINT32_MAX
  PROVE  Wrap(n) = IF n < 0 THEN n + UINT32_MAX + 1
                   ELSE IF n <= UINT32_MAX THEN n ELSE n - UINT32_MAX - 1
<1>1. UINT32_MAX + 1 \in Nat \ {0}
  BY PositionAssumption
<1>2. CASE n < 0
  BY <1>1, <1>2, PositionAssumption, SMT DEF Wrap
<1>3. CASE n >= 0 /\ n <= UINT32_MAX
  BY <1>1, <1>3, PositionAssumption, SMT DEF Wrap
<1>4. CASE n > UINT32_MAX
  BY <1>1, <1>4, PositionAssumption, SMT DEF Wrap
<1> QED BY <1>2, <1>3, <1>4, PositionAssumption

\* The position of the first byte that is still there.
First(u) == Wrap(u.inner_first_valid_position + u.offset_diff)

Fields == InstancesOf(Blocks \cup {NoBlock})

\* The positions are in order, and no byte has a position beyond UINT32_MAX.
Fits(u) ==
  /\ u \in Fields
  /\ u.inner_first_valid_position <= u.inner_current_position
  /\ u.inner_current_position <= u.length
  /\ First(u) + u.length - u.inner_first_valid_position <= UINT32_MAX

LEMMA FieldTypes ==
  ASSUME NEW u \in Fields
  PROVE  /\ u.control_block \in Blocks \cup {NoBlock}
         /\ u.offset_diff \in Positions /\ u.inner_current_position \in Positions
         /\ u.inner_first_valid_position \in Positions /\ u.length \in Positions
         /\ u \in InstanceValues
BY PositionAssumption DEF Fields, InstancesOf, InstanceValues, Positions

\* Inner positions and positions correspond.
LEMMA PositionOf ==
  ASSUME NEW u, Fits(u)
  PROVE  /\ First(u) \in Positions
         /\ \A k \in u.inner_first_valid_position .. u.length :
              Wrap(k + u.offset_diff) = First(u) + k - u.inner_first_valid_position
         /\ get_position(u) = First(u) + u.inner_current_position - u.inner_first_valid_position
         /\ get_remaining_size(u) = u.length - u.inner_current_position
         /\ \A n \in Nat :
              CopySize(u, n) = IF n < u.length - u.inner_current_position
                               THEN n ELSE u.length - u.inner_current_position
<1> DEFINE f == u.inner_first_valid_position
           c == u.inner_current_position
           o == u.offset_diff
           l == u.length
<1>1. /\ f \in 0..UINT32_MAX /\ c \in 0..UINT32_MAX /\ o \in 0..UINT32_MAX /\ l \in 0..UINT32_MAX
      /\ UINT32_MAX \in Nat /\ f <= c /\ c <= l
      /\ First(u) = Wrap(f + o) /\ First(u) + l - f <= UINT32_MAX
  BY FieldTypes, PositionAssumption DEF Fits, Positions, First
<1> HIDE DEF f, c, o, l
<1>2. First(u) = IF f + o <= UINT32_MAX THEN f + o ELSE f + o - UINT32_MAX - 1
  BY <1>1, WrapValue
<1>3. \A k \in f..l : Wrap(k + o) = First(u) + k - f
  <2> SUFFICES ASSUME NEW k \in f..l PROVE Wrap(k + o) = First(u) + k - f
    OBVIOUS
  <2>1. Wrap(k + o) = IF k + o <= UINT32_MAX THEN k + o ELSE k + o - UINT32_MAX - 1
    BY <1>1, WrapValue
  <2> QED BY <1>1, <1>2, <2>1
<1>4. Wrap(l - c) = l - c
  BY <1>1, WrapValue
<1>5. First(u) \in Positions
  BY <1>1, <1>2 DEF Positions
<1>6. /\ get_position(u) = First(u) + c - f /\ get_remaining_size(u) = l - c
      /\ \A n \in Nat : CopySize(u, n) = IF n < l - c THEN n ELSE l - c
  BY <1>1, <1>3, <1>4 DEF get_position, get_remaining_size, CopySize, f, c, o, l
<1> QED BY <1>3, <1>5, <1>6 DEF f, c, o, l

LEMMA InnerOf ==
  ASSUME NEW u, Fits(u), NEW p \in Positions
  PROVE  /\ Inner(u, p) \in Positions
         /\ Reaches(u, p) <=> p \in First(u) .. First(u) + u.length - u.inner_first_valid_position
         /\ Reaches(u, p) => Inner(u, p) = u.inner_first_valid_position + p - First(u)
<1> DEFINE f == u.inner_first_valid_position
           o == u.offset_diff
           l == u.length
           x == Inner(u, p)
<1>1. /\ f \in 0..UINT32_MAX /\ o \in 0..UINT32_MAX /\ l \in 0..UINT32_MAX /\ f <= l
      /\ UINT32_MAX \in Nat /\ p \in 0..UINT32_MAX
      /\ First(u) = Wrap(f + o) /\ First(u) + l - f <= UINT32_MAX
  BY FieldTypes, PositionAssumption DEF Fits, Positions, First
<1>2. x = Wrap(p - o) /\ (Reaches(u, p) <=> x \in f..l)
  BY DEF Inner, Reaches
<1> HIDE DEF f, o, l, x
<1>3. First(u) = IF f + o <= UINT32_MAX THEN f + o ELSE f + o - UINT32_MAX - 1
  BY <1>1, WrapValue
<1>4. x = IF p - o < 0 THEN p - o + UINT32_MAX + 1 ELSE p - o
  BY <1>1, <1>2, WrapValue
<1>5. /\ x \in Positions /\ (x \in f..l <=> p \in First(u) .. First(u) + l - f)
      /\ x \in f..l => x = f + p - First(u)
  BY <1>1, <1>3, <1>4 DEF Positions
<1> QED BY <1>2, <1>5 DEF f, o, l, x

\* The calls that move an instance, and what is left of it after them.
LEMMA MovesFit ==
  ASSUME NEW u, Fits(u)
  PROVE  /\ \A p \in Positions : Reaches(u, p) =>
              /\ Fits(set_position(u, p))
              /\ set_position(u, p) = [u EXCEPT !.inner_current_position =
                                         u.inner_first_valid_position + p - First(u)]
         /\ Fits(reset(u))
         /\ \A n \in 0 .. u.length - u.inner_current_position :
              /\ Fits(Advance(u, n))
              /\ Advance(u, n) = [u EXCEPT !.inner_current_position = u.inner_current_position + n]
<1>1. /\ u \in Fields /\ u.inner_first_valid_position \in Nat /\ u.inner_current_position \in Nat
      /\ u.length \in 0..UINT32_MAX /\ UINT32_MAX \in Nat
      /\ u.inner_first_valid_position <= u.inner_current_position
      /\ u.inner_current_position <= u.length
      /\ First(u) + u.length - u.inner_first_valid_position <= UINT32_MAX
  BY FieldTypes, PositionAssumption DEF Fits, Positions
<1>2. ASSUME NEW x \in u.inner_first_valid_position .. u.length
      PROVE  Fits([u EXCEPT !.inner_current_position = x])
  <2> DEFINE v == [u EXCEPT !.inner_current_position = x]
  <2>1. x \in Positions
    BY <1>1 DEF Positions
  <2>2. /\ v \in Fields /\ v.inner_first_valid_position = u.inner_first_valid_position
        /\ v.offset_diff = u.offset_diff /\ v.length = u.length /\ v.inner_current_position = x
    BY <1>1, <2>1 DEF Fields, InstancesOf
  <2> HIDE DEF v
  <2>3. First(v) = First(u)
    BY <2>2 DEF First
  <2>4. Fits(v)
    BY <1>1, <2>2, <2>3 DEF Fits
  <2> QED BY <2>4 DEF v
<1>3. ASSUME NEW p \in Positions, Reaches(u, p)
      PROVE  /\ Fits(set_position(u, p))
             /\ set_position(u, p) = [u EXCEPT !.inner_current_position =
                                        u.inner_first_valid_position + p - First(u)]
  <2>1. Inner(u, p) \in u.inner_first_valid_position .. u.length
    BY <1>3 DEF Reaches
  <2>2. set_position(u, p) = [u EXCEPT !.inner_current_position = Inner(u, p)]
    BY <1>3 DEF set_position
  <2>3. Inner(u, p) = u.inner_first_valid_position + p - First(u)
    BY <1>3, InnerOf
  <2>4. Fits([u EXCEPT !.inner_current_position = Inner(u, p)])
    BY <1>2, <2>1
  <2> QED BY <2>2, <2>3, <2>4
<1>4. Fits(reset(u))
  BY <1>1, <1>2 DEF reset
<1>5. ASSUME NEW n \in 0 .. u.length - u.inner_current_position
      PROVE  /\ Fits(Advance(u, n))
             /\ Advance(u, n) = [u EXCEPT !.inner_current_position = u.inner_current_position + n]
  <2>1. u.inner_current_position + n \in u.inner_first_valid_position .. u.length
    BY <1>1
  <2>2. Advance(u, n) = [u EXCEPT !.inner_current_position = u.inner_current_position + n]
    BY DEF Advance
  <2>3. Fits([u EXCEPT !.inner_current_position = u.inner_current_position + n])
    BY <1>2, <2>1
  <2> QED BY <2>2, <2>3
<1> QED BY <1>3, <1>4, <1>5

LEMMA ReleaseFits ==
  ASSUME NEW u, Fits(u), NEW p \in Positions, Releasable(u, p)
  PROVE  LET x == u.inner_first_valid_position + p - First(u) + 1 IN
         /\ release(u, p) = [u EXCEPT !.inner_first_valid_position = x]
         /\ x \in u.inner_first_valid_position + 1 .. u.inner_current_position
         /\ Fits(release(u, p)) /\ First(release(u, p)) = p + 1
<1> DEFINE f == u.inner_first_valid_position
           x == f + p - First(u) + 1
           v == [u EXCEPT !.inner_first_valid_position = x]
<1>1. /\ u \in Fields /\ f \in Nat /\ u.inner_current_position \in Nat
      /\ u.length \in 0..UINT32_MAX /\ UINT32_MAX \in Nat /\ First(u) \in Nat /\ p \in Nat
      /\ f <= u.inner_current_position /\ u.inner_current_position <= u.length
      /\ First(u) + u.length - f <= UINT32_MAX
  BY FieldTypes, PositionOf, PositionAssumption DEF Fits, Positions
<1>2. Inner(u, p) \in f .. u.inner_current_position - 1 /\ Reaches(u, p)
  BY <1>1 DEF Releasable, Reaches
<1>3. Inner(u, p) = f + p - First(u)
  BY <1>2, InnerOf
<1>4. x \in f + 1 .. u.inner_current_position /\ x \in Positions /\ x \in f .. u.length
  BY <1>1, <1>2, <1>3 DEF Positions
<1>5. release(u, p) = v
  BY <1>3 DEF release
<1>6. /\ v \in Fields /\ v.inner_first_valid_position = x /\ v.offset_diff = u.offset_diff
      /\ v.length = u.length /\ v.inner_current_position = u.inner_current_position
  BY <1>1, <1>4 DEF Fields, InstancesOf
<1>7. First(v) = p + 1
  <2>1. First(v) = Wrap(x + u.offset_diff)
    BY <1>6 DEF First
  <2>2. First(v) = First(u) + x - f
    BY <1>4, <2>1, PositionOf
  <2> QED BY <1>1, <2>2
<1>8. Fits(v)
  BY <1>1, <1>4, <1>6, <1>7 DEF Fits
<1> QED BY <1>4, <1>5, <1>7, <1>8

\* A clone begins where the original is, at the position the caller gives it.
LEMMA CloneFits ==
  ASSUME NEW u, Fits(u), NEW p \in Positions, Clonable(u, p)
  PROVE  /\ Fits(clone(u, p)) /\ First(clone(u, p)) = p
         /\ clone(u, p).control_block = u.control_block
         /\ clone(u, p).length = u.length
         /\ clone(u, p).inner_first_valid_position = u.inner_current_position
         /\ clone(u, p).inner_current_position = u.inner_current_position
<1> DEFINE c == u.inner_current_position
           o == Wrap(p - c)
           v == clone(u, p)
<1>1. /\ u \in Fields /\ c \in 0..UINT32_MAX
      /\ u.length \in 0..UINT32_MAX /\ UINT32_MAX \in Nat /\ p \in 0..UINT32_MAX
      /\ c <= u.length /\ p + u.length <= UINT32_MAX
  BY FieldTypes, PositionOf, PositionAssumption DEF Fits, Positions, Clonable
<1>2. o = IF p - c < 0 THEN p - c + UINT32_MAX + 1 ELSE p - c
  BY <1>1, WrapValue
<1>3. o \in Positions /\ o \in 0..UINT32_MAX
  BY <1>1, <1>2 DEF Positions
<1>4. /\ v \in Fields /\ v.inner_first_valid_position = c /\ v.offset_diff = o
      /\ v.length = u.length /\ v.inner_current_position = c /\ v.control_block = u.control_block
  BY <1>1, <1>3, FieldTypes DEF Fields, InstancesOf, clone
<1> HIDE DEF o, v
<1>5. Wrap(c + o) = IF c + o <= UINT32_MAX THEN c + o ELSE c + o - UINT32_MAX - 1
  BY <1>1, <1>3, WrapValue
<1>6. First(v) = p
  BY <1>1, <1>2, <1>4, <1>5 DEF First
<1>7. Fits(v)
  BY <1>1, <1>4, <1>6 DEF Fits
<1> QED BY <1>4, <1>6, <1>7 DEF v

-----------------------------------------------------------------------------
(***************************************************************************)
(* The inductive invariant.                                                *)
(***************************************************************************)

\* The data of an instance of a buffer, or of a part, is in the buffer.
InBuffer(u) == u.control_block \in Buffers /\ u.length <= Len(Content[u.control_block])

\* The second part of a concatenation begins, in positions, where the first ends.
PartsJoin(m) ==
  /\ \A s \in Sides : Fits(part[m][s]) /\ InBuffer(part[m][s])
  /\ part[m].one.offset_diff = 0
  /\ First(part[m].two) = part[m].one.length

\* An instance of a concatenation ends where the second part ends.
SpansParts(u, m) ==
  /\ m \in made
  /\ u.inner_first_valid_position >= part[m].one.inner_first_valid_position
  /\ u.length = part[m].one.length + part[m].two.length - part[m].two.inner_first_valid_position

\* Where a read of a concatenation is, and that what it has copied is what the
\* instance shows, although others have moved the parts meanwhile.
ReadSoFar(u, l) ==
  LET at == u.inner_current_position
      boundary == part[u.control_block].one.length
  IN
  /\ l.left + Len(l.bytes) \in ReadSizes
  /\ l.side = "one" => l.bytes = << >> /\ at < boundary
  /\ l.side = "two" => at + Len(l.bytes) \in boundary .. u.length
  /\ \A k \in 1..Len(l.bytes) : l.bytes[k] = ByteAt(u, at + k - 1)

InstanceSound(i) ==
  /\ Fits(stream[i])
  /\ BlockOf(i) = NoBlock => stream[i] = NoInstance
  /\ BlockOf(i) \in Buffers => InBuffer(stream[i])
  /\ BlockOf(i) \in Multis => SpansParts(stream[i], BlockOf(i))
  /\ pc[i] = "reading" => ReadSoFar(stream[i], local[i])

StreamInv ==
  /\ \A i \in Instances : InstanceSound(i)
  /\ \A m \in Multis \cap made : PartsJoin(m)
  /\ \A m \in Multis \ made, s \in Sides : part[m][s] = NoInstance

-----------------------------------------------------------------------------
(***************************************************************************)
(* What an instance shows.                                                 *)
(***************************************************************************)

\* The bytes of u from inner position a to before inner position b.
Window(u, a, b) == [k \in 1..(b - a) |-> ByteAt(u, a + k - 1)]

Shown(u) ==
  [bytes |-> Window(u, u.inner_first_valid_position, u.length),
   first |-> First(u), at |-> get_position(u)]

LEMMA ViewIsShown ==
  ASSUME NEW i \in Instances
  PROVE  /\ BlockOf(i) # NoBlock /\ pc[i] \notin Disposing =>
              View(i) = Shown(stream[i]) /\ View(i) # NoInstance
         /\ BlockOf(i) = NoBlock \/ pc[i] \in Disposing => View(i) = NoInstance
<1>1. \A u : Shown(u) # NoInstance
  <2>1. \A u : DOMAIN Shown(u) = {"bytes", "first", "at"}
    BY DEF Shown
  <2>2. "length" \in DOMAIN NoInstance
    BY DEF NoInstance, Instance
  <2>3. "length" \notin {"bytes", "first", "at"}
    OBVIOUS
  <2> HIDE DEF Shown
  <2> QED BY <2>1, <2>2, <2>3
<1> QED BY <1>1 DEF View, Shown, Window, First

LEMMA ByteAtPart ==
  ASSUME NEW m \in Multis, PartsJoin(m), NEW u, u.control_block = m, NEW k \in Positions,
         k >= part[m].one.inner_first_valid_position,
         k <= part[m].one.length + part[m].two.length - part[m].two.inner_first_valid_position
  PROVE  ByteAt(u, k) =
           IF k < part[m].one.length THEN Content[part[m].one.control_block][k + 1]
           ELSE Content[part[m].two.control_block]
                  [part[m].two.inner_first_valid_position + k - part[m].one.length + 1]
<1> DEFINE one == part[m].one
           two == part[m].two
<1>1. Fits(one) /\ Fits(two) /\ one.offset_diff = 0 /\ First(two) = one.length
  BY DEF PartsJoin, Sides
<1>2. /\ one.inner_first_valid_position \in 0..UINT32_MAX /\ one.length \in 0..UINT32_MAX
      /\ two.inner_first_valid_position \in 0..UINT32_MAX /\ two.length \in 0..UINT32_MAX
      /\ UINT32_MAX \in Nat /\ k \in 0..UINT32_MAX /\ m \notin Buffers
  BY <1>1, FieldTypes, PositionAssumption, BlocksAssumption DEF Fits, Positions
<1>3. CASE k < one.length
  <2>1. Inner(one, k) = k
    BY <1>1, <1>2, WrapValue DEF Inner
  <2> QED BY <1>2, <1>3, <2>1 DEF ByteAt
<1>4. CASE k >= one.length
  <2>1. k \in First(two) .. First(two) + two.length - two.inner_first_valid_position
    BY <1>1, <1>2, <1>4
  <2>2. Inner(two, k) = two.inner_first_valid_position + k - one.length
    BY <1>1, <2>1, InnerOf
  <2>3. ~(k < one.length)
    BY <1>2, <1>4
  <2> QED BY <1>2, <2>2, <2>3 DEF ByteAt
<1> QED BY <1>2, <1>3, <1>4

\* The control block of u can be read.
Readable(u) == u.control_block \in Blocks /\ (u.control_block \in Multis => PartsJoin(u.control_block))

LEMMA ByteAtType ==
  ASSUME NEW u, Readable(u), NEW k \in Int
  PROVE  ByteAt(u, k) \in Byte
<1> DEFINE m == u.control_block
           p == IF m \in Buffers THEN u
                ELSE IF k < part[m].one.length THEN part[m].one ELSE part[m].two
           x == IF m \in Buffers THEN k ELSE Inner(p, k)
<1>1. p.control_block \in Blocks
  BY DEF Readable, PartsJoin, InBuffer, Blocks, Sides
<1>2. x \in Int
  <2>1. CASE m \in Buffers
    BY <2>1
  <2>2. CASE m \notin Buffers
    <3>1. Fits(p)
      BY <2>2 DEF Readable, PartsJoin, Blocks, Sides
    <3>2. k - p.offset_diff \in Int
      BY <3>1, FieldTypes DEF Fits, Positions
    <3> QED BY <2>2, <3>2, WrapType DEF Inner, Positions
  <2> QED BY <2>1, <2>2
<1>3. ByteAt(u, k) = Content[p.control_block][x + 1]
  BY DEF ByteAt
<1>4. x + 1 \in Int
  BY <1>2
<1> HIDE DEF p, x
<1>5. \A b \in Blocks \cup {NoBlock}, y \in Int : Content[b][y] \in Byte
  BY DEF Byte
<1> HIDE DEF Byte
<1> QED BY <1>1, <1>3, <1>4, <1>5

LEMMA WindowType ==
  ASSUME NEW u, Readable(u), NEW a \in Int, NEW b \in Int, a <= b
  PROVE  /\ Window(u, a, b) \in Seq(Byte) /\ Len(Window(u, a, b)) = b - a
         /\ \A k \in 1..(b - a) : Window(u, a, b)[k] = ByteAt(u, a + k - 1)
<1>1. \A k \in 1..(b - a) : ByteAt(u, a + k - 1) \in Byte
  BY ByteAtType
<1>2. b - a \in Nat
  OBVIOUS
<1> HIDE DEF Byte
<1> QED BY <1>1, <1>2 DEF Window

\* A part of a window is a window, and so are two windows that meet.
LEMMA WindowSlice ==
  ASSUME NEW u, Readable(u), NEW a \in Int, NEW b \in Int,
         NEW c \in a..b, NEW d \in c..b
  PROVE  SubSeq(Window(u, a, b), c - a + 1, d - a) = Window(u, c, d)
<1> DEFINE w == Window(u, a, b)
           s == SubSeq(w, c - a + 1, d - a)
           t == Window(u, c, d)
<1>1. /\ w \in Seq(Byte) /\ Len(w) = b - a
      /\ \A k \in 1..(b - a) : w[k] = ByteAt(u, a + k - 1)
  BY WindowType
<1>2. /\ t \in Seq(Byte) /\ Len(t) = d - c
      /\ \A k \in 1..(d - c) : t[k] = ByteAt(u, c + k - 1)
  BY WindowType
<1> HIDE DEF w, t, Byte
<1>3. \A k \in (c - a + 1)..(d - a) : w[k] \in Byte
  <2> SUFFICES ASSUME NEW k \in (c - a + 1)..(d - a) PROVE w[k] \in Byte
    OBVIOUS
  <2>1. k \in 1..Len(w)
    BY <1>1
  <2> QED BY <1>1, <2>1
<1>4. /\ s \in Seq(Byte)
      /\ Len(s) = IF c - a + 1 <= d - a THEN (d - a) - (c - a + 1) + 1 ELSE 0
      /\ \A k \in 1..((d - a) - (c - a + 1) + 1) : s[k] = w[(c - a + 1) + k - 1]
  <2>1. c - a + 1 \in Int /\ d - a \in Int
    OBVIOUS
  <2> QED BY <1>3, <2>1, SubSeqProperties
<1>5. Len(s) = d - c
  BY <1>4
<1>6. ASSUME NEW k \in 1..(d - c)
      PROVE  s[k] = t[k]
  <2>1. k \in 1..((d - a) - (c - a + 1) + 1) /\ (c - a + 1) + k - 1 \in 1..(b - a)
        /\ a + ((c - a + 1) + k - 1) - 1 = c + k - 1
    OBVIOUS
  <2> HIDE DEF s
  <2>2. s[k] = w[(c - a + 1) + k - 1]
    BY <1>4, <2>1
  <2>3. w[(c - a + 1) + k - 1] = ByteAt(u, c + k - 1)
    BY <1>1, <2>1
  <2> QED BY <1>2, <2>2, <2>3
<1> HIDE DEF s
<1>7. s = t
  BY <1>2, <1>4, <1>5, <1>6, SeqEqual
<1> QED BY <1>7 DEF s, t, w

LEMMA Joined ==
  ASSUME NEW s \in Seq(Byte), NEW t \in Seq(Byte), NEW r \in Seq(Byte),
         Len(r) = Len(s) + Len(t),
         \A k \in 1..Len(s) : r[k] = s[k],
         \A k \in 1..Len(t) : r[Len(s) + k] = t[k]
  PROVE  r = s \o t
<1> HIDE DEF Byte
<1>1. /\ s \o t \in Seq(Byte) /\ Len(s \o t) = Len(s) + Len(t)
      /\ \A k \in 1 .. Len(s) + Len(t) : (s \o t)[k] = IF k <= Len(s) THEN s[k] ELSE t[k - Len(s)]
  BY ConcatProperties
<1>2. ASSUME NEW k \in 1 .. Len(r)
      PROVE  r[k] = (s \o t)[k]
  <2>0. Len(s) \in Nat /\ Len(t) \in Nat
    OBVIOUS
  <2>1. CASE k <= Len(s)
    BY <1>1, <2>1
  <2>2. CASE k > Len(s)
    <3> DEFINE x == k - Len(s)
    <3>1. x \in 1..Len(t) /\ k = Len(s) + x
      BY <2>0, <2>2
    <3>2. (s \o t)[k] = t[k - Len(s)] /\ k - Len(s) = x
      BY <1>1, <2>0, <2>2, <3>1
    <3> QED BY <3>1, <3>2
  <2> QED BY <2>1, <2>2
<1> QED BY <1>1, <1>2, SeqEqual

-----------------------------------------------------------------------------
(***************************************************************************)
(* Steps that leave instances alone.                                       *)
(***************************************************************************)

\* Readers may have moved the parts of m, but not what they show.
PartsAlike(m) ==
  \A s \in Sides :
    /\ Fits(part'[m][s])
    /\ part'[m][s].control_block = part[m][s].control_block
    /\ part'[m][s].offset_diff = part[m][s].offset_diff
    /\ part'[m][s].length = part[m][s].length
    /\ part'[m][s].inner_first_valid_position = part[m][s].inner_first_valid_position

LEMMA UntouchedAlike ==
  ASSUME NEW m \in Multis, PartsJoin(m), part'[m] = part[m]
  PROVE  PartsAlike(m)
BY DEF PartsAlike, PartsJoin

LEMMA BytesStay ==
  ASSUME NEW u, u.control_block \in Blocks, u.control_block \in Multis => PartsAlike(u.control_block)
  PROVE  /\ \A k : ByteAt(u, k)' = ByteAt(u, k)
         /\ \A a, b : Window(u, a, b)' = Window(u, a, b)
         /\ Shown(u)' = Shown(u)
<1>1. \A k : ByteAt(u, k)' = ByteAt(u, k)
  BY DEF ByteAt, PartsAlike, Inner, Sides, Blocks
<1>2. \A a, b : Window(u, a, b)' = Window(u, a, b)
  BY <1>1 DEF Window
<1>3. First(u)' = First(u) /\ get_position(u)' = get_position(u)
  BY DEF First, get_position, Wrap
<1> QED BY <1>1, <1>2, <1>3 DEF Shown

LEMMA JoinStays ==
  ASSUME NEW m \in Multis, PartsJoin(m), PartsAlike(m)
  PROVE  PartsJoin(m)'
<1> QED BY DEF PartsJoin, PartsAlike, Fits, InBuffer, First, Wrap, Sides, Fields, InstancesOf, Blocks, Positions

LEMMA InstanceStays ==
  ASSUME StreamInv, NEW i \in Instances, stream'[i] = stream[i],
         made \subseteq made',
         pc'[i] \in Disposing <=> pc[i] \in Disposing,
         pc'[i] = "reading" => pc[i] = "reading" /\ local'[i] = local[i],
         BlockOf(i) \in Multis => PartsAlike(BlockOf(i)),
         pc[i] = "reading" => BlockOf(i) \in Multis
  PROVE  InstanceSound(i)' /\ View(i)' = View(i)
<1> PICK u : u = stream[i] /\ u = stream'[i]
  OBVIOUS
<1>1. /\ Fits(u) /\ (BlockOf(i) = NoBlock => u = NoInstance)
      /\ (BlockOf(i) \in Buffers => InBuffer(u))
      /\ (BlockOf(i) \in Multis => SpansParts(u, BlockOf(i)))
      /\ (pc[i] = "reading" => ReadSoFar(u, local[i]))
      /\ BlockOf(i) = u.control_block /\ BlockOf(i)' = u.control_block
  BY DEF StreamInv, InstanceSound, BlockOf
<1>2. BlockOf(i) \in Multis => SpansParts(u, u.control_block)'
  BY <1>1 DEF SpansParts, PartsAlike, Sides
<1>3. u.control_block \in Blocks \cup {NoBlock}
  BY <1>1, FieldTypes DEF Fits
<1>4. u.control_block \in Blocks =>
        (\A k : ByteAt(u, k)' = ByteAt(u, k)) /\ Shown(u)' = Shown(u)
  BY <1>1, BytesStay
<1>5. ASSUME pc'[i] = "reading", NEW l, l = local'[i]
      PROVE  ReadSoFar(u, l)'
  <2>1. pc[i] = "reading" /\ local'[i] = local[i] /\ ReadSoFar(u, l)
        /\ u.control_block \in Multis /\ PartsAlike(u.control_block)
    BY <1>1, <1>5
  <2>2. \A k : ByteAt(u, k)' = ByteAt(u, k)
    BY <1>4, <2>1 DEF Blocks
  <2>3. part'[u.control_block].one.length = part[u.control_block].one.length
    BY <2>1 DEF PartsAlike, Sides
  <2> QED BY <2>1, <2>2, <2>3 DEF ReadSoFar
<1>6. InstanceSound(i)'
  <2>1. Fits(u)' /\ (BlockOf(i) \in Buffers => InBuffer(u)')
    BY <1>1 DEF Fits, First, Wrap, InBuffer, Fields, InstancesOf, Blocks, Positions
  <2>2. pc'[i] = "reading" => ReadSoFar(stream[i], local[i])'
    BY <1>5 DEF ReadSoFar
  <2> QED BY <1>1, <1>2, <1>5, <2>1 DEF InstanceSound
<1>7. CASE u.control_block = NoBlock \/ pc[i] \in Disposing
  <2>1. View(i) = NoInstance
    BY <1>1, <1>7, ViewIsShown
  <2>2. View(i)' = NoInstance
    BY <1>1, <1>7 DEF View
  <2> QED BY <1>6, <2>1, <2>2
<1>8. CASE u.control_block # NoBlock /\ pc[i] \notin Disposing
  <2>1. View(i) = Shown(u)
    BY <1>1, <1>8, ViewIsShown
  <2>2. View(i)' = Shown(u)'
    BY <1>1, <1>8 DEF View, Shown, Window, First
  <2> QED BY <1>3, <1>4, <1>6, <1>8, <2>1, <2>2
<1> QED BY <1>7, <1>8

LEMMA ChangeIs ==
  ASSUME NEW i \in Instances, NEW s, View(i)' = s,
         \A k \in Instances \ {i} : View(k)' = View(k), NothingRead
  PROVE  Abstract!Change(i, s)
BY DEF Abstract!Change, NothingRead

LEMMA RefuseIs ==
  ASSUME \A k \in Instances : View(k)' = View(k), NothingRead
  PROVE  Abstract!Next
BY DEF Abstract!Next, Abstract!Refuse, NothingRead

\* What the view of an instance is that no thread disposes of.
InUse(i) == BlockOf(i) # NoBlock /\ pc[i] \in {"idle", "reading"}

LEMMA InUseView ==
  ASSUME StreamInv, NEW i \in Instances, InUse(i), NEW u, u = stream[i]
  PROVE  /\ Fits(u) /\ Readable(u) /\ u.control_block \in Blocks /\ u.control_block = BlockOf(i)
         /\ u.inner_first_valid_position \in 0..UINT32_MAX
         /\ u.inner_current_position \in 0..UINT32_MAX /\ u.length \in 0..UINT32_MAX
         /\ u.inner_first_valid_position <= u.inner_current_position
         /\ u.inner_current_position <= u.length
         /\ First(u) \in 0..UINT32_MAX
         /\ View(i) = Shown(u) /\ Abstract!IsOpen(i)
         /\ View(i).first = First(u)
         /\ View(i).at = First(u) + u.inner_current_position - u.inner_first_valid_position
         /\ View(i).bytes = Window(u, u.inner_first_valid_position, u.length)
         /\ Len(View(i).bytes) = u.length - u.inner_first_valid_position
         /\ Abstract!End(i) = First(u) + u.length - u.inner_first_valid_position
<1>1. /\ Fits(u) /\ u.control_block \in Blocks /\ u.control_block = BlockOf(i)
      /\ pc[i] \notin Disposing
      /\ u.inner_first_valid_position \in 0..UINT32_MAX
      /\ u.inner_current_position \in 0..UINT32_MAX /\ u.length \in 0..UINT32_MAX
      /\ u.inner_first_valid_position <= u.inner_current_position
      /\ u.inner_current_position <= u.length
      /\ First(u) \in 0..UINT32_MAX
  BY FieldTypes, PositionOf DEF StreamInv, InstanceSound, InUse, BlockOf, Fits, Disposing, Positions
<1>2. Readable(u)
  BY <1>1 DEF Readable, StreamInv, InstanceSound, SpansParts
<1>3. View(i) = Shown(u) /\ View(i) # NoInstance
  BY <1>1, ViewIsShown DEF InUse, BlockOf
<1>4. Abstract!IsOpen(i)
  BY <1>3 DEF Abstract!IsOpen
<1>5. /\ Shown(u).first = First(u)
      /\ Shown(u).at = First(u) + u.inner_current_position - u.inner_first_valid_position
      /\ Shown(u).bytes = Window(u, u.inner_first_valid_position, u.length)
  BY <1>1, PositionOf DEF Shown
<1>6. Len(Shown(u).bytes) = u.length - u.inner_first_valid_position
  <2>1. PICK a, b : a = u.inner_first_valid_position /\ b = u.length
    OBVIOUS
  <2>2. a \in Int /\ b \in Int /\ a <= b
    BY <1>1, <2>1
  <2>3. Len(Window(u, a, b)) = b - a
    BY <1>2, <2>2, WindowType
  <2> QED BY <1>5, <2>1, <2>3
<1>7. Abstract!End(i) = First(u) + u.length - u.inner_first_valid_position
  <2>1. Abstract!End(i) = View(i).first + Len(View(i).bytes)
    BY DEF Abstract!End
  <2> QED BY <1>1, <1>3, <1>5, <1>6, <2>1
<1> QED BY <1>1, <1>2, <1>3, <1>4, <1>5, <1>6, <1>7

LEMMA OpenView ==
  ASSUME StreamInv, NEW i \in Instances, Open(i), NEW u, u = stream[i]
  PROVE  /\ Fits(u) /\ Readable(u) /\ u.control_block \in Blocks /\ u.control_block = BlockOf(i)
         /\ u.inner_first_valid_position \in 0..UINT32_MAX
         /\ u.inner_current_position \in 0..UINT32_MAX /\ u.length \in 0..UINT32_MAX
         /\ u.inner_first_valid_position <= u.inner_current_position
         /\ u.inner_current_position <= u.length
         /\ First(u) \in 0..UINT32_MAX
         /\ View(i) = Shown(u) /\ Abstract!IsOpen(i)
         /\ View(i).first = First(u)
         /\ View(i).at = First(u) + u.inner_current_position - u.inner_first_valid_position
         /\ View(i).bytes = Window(u, u.inner_first_valid_position, u.length)
         /\ Len(View(i).bytes) = u.length - u.inner_first_valid_position
         /\ Abstract!End(i) = First(u) + u.length - u.inner_first_valid_position
BY InUseView DEF Open, InUse, BlockOf

\* The positions of an open instance are integers.
LEMMA OpenIntegers ==
  ASSUME StreamInv, NEW i \in Instances, Open(i), NEW u, u = stream[i]
  PROVE  /\ InUse(i) /\ u \in Fields
         /\ u.inner_first_valid_position \in Int /\ u.inner_current_position \in Int
         /\ u.length \in Int /\ First(u) \in Int
<1>1. InUse(i)
  BY DEF Open, InUse, BlockOf
<1>2. /\ Fits(u) /\ First(u) \in 0..UINT32_MAX
      /\ u.inner_first_valid_position \in 0..UINT32_MAX
      /\ u.inner_current_position \in 0..UINT32_MAX /\ u.length \in 0..UINT32_MAX
  BY OpenView, ZenonT(60)
<1>3. u \in Fields
  BY <1>2 DEF Fits
<1>4. \A x \in 0..UINT32_MAX : x \in Int
  OBVIOUS
<1> QED BY <1>1, <1>2, <1>3, <1>4

LEMMA SliceIs ==
  ASSUME StreamInv, NEW i \in Instances, InUse(i), NEW u, u = stream[i],
         NEW c \in u.inner_first_valid_position .. u.length, NEW d \in c .. u.length,
         NEW p, p = First(u) + c - u.inner_first_valid_position,
         NEW e, e = First(u) + d - u.inner_first_valid_position
  PROVE  Abstract!Slice(i, p, e) = Window(u, c, d)
<1>1. /\ Readable(u) /\ View(i).first = First(u) /\ First(u) \in Int
      /\ u.inner_first_valid_position \in Int /\ u.length \in Int
      /\ View(i).bytes = Window(u, u.inner_first_valid_position, u.length)
  <2>1. /\ Readable(u) /\ View(i).first = First(u) /\ First(u) \in 0..UINT32_MAX
        /\ u.inner_first_valid_position \in 0..UINT32_MAX /\ u.length \in 0..UINT32_MAX
        /\ View(i).bytes = Window(u, u.inner_first_valid_position, u.length)
    BY InUseView, ZenonT(60)
  <2>2. \A x \in 0..UINT32_MAX : x \in Int
    OBVIOUS
  <2> QED BY <2>1, <2>2
<1>2. Abstract!Slice(i, p, e) = SubSeq(View(i).bytes, p - View(i).first + 1, e - View(i).first)
  BY DEF Abstract!Slice
<1>3. /\ p - First(u) + 1 = c - u.inner_first_valid_position + 1
      /\ e - First(u) = d - u.inner_first_valid_position
  BY <1>1
<1>4. SubSeq(Window(u, u.inner_first_valid_position, u.length),
             c - u.inner_first_valid_position + 1, d - u.inner_first_valid_position) = Window(u, c, d)
  BY <1>1, WindowSlice
<1> QED BY <1>1, <1>2, <1>3, <1>4

-----------------------------------------------------------------------------
(***************************************************************************)
(* Calls on one instance.                                                  *)
(***************************************************************************)
LEMMA OthersStay ==
  ASSUME StreamInv, CountInv, NEW k \in Instances, stream'[k] = stream[k],
         UNCHANGED part, made \subseteq made', pc'[k] = pc[k], local'[k] = local[k]
  PROVE  InstanceSound(k)' /\ View(k)' = View(k)
<1>1. BlockOf(k) \in Multis => PartsAlike(BlockOf(k))
  BY UntouchedAlike DEF StreamInv, InstanceSound, SpansParts
<1>2. pc[k] = "reading" => BlockOf(k) \in Multis
  BY DEF CountInv, CallsAreOnBlocks, Shapes, Disposing
<1> QED BY <1>1, <1>2, InstanceStays

LEMMA OneMoves ==
  ASSUME StreamInv, CountInv, NEW i \in Instances, Open(i), NEW v, Fits(v),
         v.control_block = BlockOf(i), v.length = stream[i].length,
         v.inner_first_valid_position >= stream[i].inner_first_valid_position,
         Update(i, v), UNCHANGED <<shared, pc, local>>
  PROVE  /\ StreamInv'
         /\ View(i)' = Shown(v)
         /\ \A k \in Instances \ {i} : View(k)' = View(k)
<1>1. \A k \in Instances \ {i} : stream'[k] = stream[k]
  BY DEF CountInv, Shapes, Update
<1>2. \A k \in Instances \ {i} : InstanceSound(k)' /\ View(k)' = View(k)
  BY <1>1, OthersStay DEF shared
<1>3. stream'[i] = v /\ pc'[i] = "idle"
  BY DEF CountInv, Shapes, Update, Open
<1>4. v.control_block \in Blocks /\ v.control_block # NoBlock
  BY OpenView, BlocksAssumption
<1>5. v.control_block \in Multis => PartsAlike(v.control_block) /\ SpansParts(stream[i], v.control_block)
  BY UntouchedAlike DEF StreamInv, InstanceSound, SpansParts, shared
<1>6. Shown(v)' = Shown(v)
  BY <1>4, <1>5, BytesStay
<1>7. View(i)' = Shown(v)
  <2>1. View(i)' = Shown(v)'
    BY <1>3, <1>4 DEF View, Shown, Window, First, BlockOf, Disposing
  <2> QED BY <1>6, <2>1
<1>8. InstanceSound(i)'
  <2>1. Fits(v)'
    BY DEF Fits, First, Wrap, Fields, InstancesOf, Blocks, Positions
  <2>2. v.control_block \in Buffers => InBuffer(v)'
    BY DEF StreamInv, InstanceSound, InBuffer, BlockOf
  <2>3. v.control_block \in Multis => SpansParts(v, v.control_block)'
    <3> SUFFICES ASSUME v.control_block \in Multis PROVE SpansParts(v, v.control_block)'
      OBVIOUS
    <3> DEFINE m == v.control_block
               one == part[m].one
    <3>1. SpansParts(stream[i], m) /\ Fits(one)
      BY <1>5 DEF StreamInv, PartsJoin, SpansParts, Sides
    <3>2. one.inner_first_valid_position \in Int /\ v.inner_first_valid_position \in Int
          /\ stream[i].inner_first_valid_position \in Int
      BY <3>1, OpenView, FieldTypes DEF Fits, Positions
    <3> QED BY <3>1, <3>2 DEF SpansParts, shared
  <2> QED BY <1>3, <1>4, <2>1, <2>2, <2>3 DEF InstanceSound, BlockOf
<1>9. StreamInv'
  <2>1. \A m \in Multis \cap made : PartsJoin(m)'
    BY UntouchedAlike, JoinStays DEF StreamInv, shared
  <2> QED BY <1>2, <1>8, <2>1 DEF StreamInv, shared
<1> QED BY <1>2, <1>7, <1>9

\* The bytes an instance reads at a place depend on its control block only.
LEMMA SameWindow ==
  ASSUME NEW u, NEW v, v.control_block = u.control_block
  PROVE  /\ \A k : ByteAt(v, k) = ByteAt(u, k)
         /\ \A a, b : Window(v, a, b) = Window(u, a, b)
<1>1. \A k : ByteAt(v, k) = ByteAt(u, k)
  BY DEF ByteAt
<1> QED BY <1>1 DEF Window

\* A position moves, the bytes stay.
LEMMA ShownMoves ==
  ASSUME NEW u, u \in Fields, NEW x, NEW v, v = [u EXCEPT !.inner_current_position = x],
         Fits(u), Fits(v)
  PROVE  /\ v.control_block = u.control_block /\ v.length = u.length
         /\ v.inner_first_valid_position = u.inner_first_valid_position
         /\ v.inner_current_position = x
         /\ First(v) = First(u)
         /\ Shown(v) = [Shown(u) EXCEPT !.at = First(u) + x - u.inner_first_valid_position]
<1>1. /\ v.control_block = u.control_block /\ v.length = u.length /\ v.offset_diff = u.offset_diff
      /\ v.inner_first_valid_position = u.inner_first_valid_position
      /\ v.inner_current_position = x
  BY DEF Fields, InstancesOf
<1>2. First(v) = First(u)
  BY <1>1 DEF First
<1>3. \A k : ByteAt(v, k) = ByteAt(u, k)
  BY <1>1 DEF ByteAt
<1>4. \A a, b : Window(v, a, b) = Window(u, a, b)
  BY <1>3 DEF Window
<1>5. get_position(v) = First(u) + x - u.inner_first_valid_position
  BY <1>1, <1>2, PositionOf
<1>6. Shown(v) = [bytes |-> Window(u, u.inner_first_valid_position, u.length), first |-> First(u),
                  at |-> First(u) + x - u.inner_first_valid_position]
  BY <1>1, <1>2, <1>4, <1>5 DEF Shown
<1> QED BY <1>1, <1>2, <1>6 DEF Shown

LEMMA MoveIs ==
  ASSUME StreamInv, CountInv, NEW i \in Instances, Open(i),
         NEW x \in stream[i].inner_first_valid_position .. stream[i].length,
         NEW v, Fits(v), v = [stream[i] EXCEPT !.inner_current_position = x],
         Update(i, v), NothingRead, UNCHANGED <<shared, pc, local>>
  PROVE  StreamInv' /\ Abstract!Next
<1> PICK u : u = stream[i]
  OBVIOUS
<1>1. /\ Fits(u) /\ u \in Fields /\ u.control_block = BlockOf(i)
      /\ First(u) \in Int /\ u.inner_first_valid_position \in Int /\ u.length \in Int
      /\ View(i) = Shown(u) /\ Abstract!IsOpen(i)
      /\ View(i).first = First(u)
      /\ Abstract!End(i) = First(u) + u.length - u.inner_first_valid_position
  BY OpenView, OpenIntegers, ZenonT(60)
<1>2. /\ v.control_block = u.control_block /\ v.length = u.length
      /\ v.inner_first_valid_position = u.inner_first_valid_position
      /\ Shown(v) = [Shown(u) EXCEPT !.at = First(u) + x - u.inner_first_valid_position]
  <2>1. v = [u EXCEPT !.inner_current_position = x] /\ Fits(v) /\ Fits(u) /\ u \in Fields
    BY <1>1
  <2> QED BY <2>1, ShownMoves
<1>3. /\ StreamInv' /\ View(i)' = Shown(v)
      /\ \A k \in Instances \ {i} : View(k)' = View(k)
  <2>1. v.inner_first_valid_position >= u.inner_first_valid_position
    BY <1>1, <1>2
  <2> QED BY <1>1, <1>2, <2>1, OneMoves
<1> DEFINE p == First(u) + x - u.inner_first_valid_position
<1>4. p \in View(i).first .. Abstract!End(i)
  BY <1>1
<1>5. Abstract!Change(i, [View(i) EXCEPT !.at = p])
  BY <1>1, <1>2, <1>3, ChangeIs
<1> HIDE DEF p
<1>6. Abstract!Move(i)
  BY <1>1, <1>4, <1>5 DEF Abstract!Move
<1> QED BY <1>3, <1>6 DEF Abstract!Next

\* A call that is refused leaves the instance as it was.
LEMMA NothingMoves ==
  ASSUME StreamInv, CountInv, NEW i \in Instances, Open(i),
         Update(i, stream[i]), UNCHANGED <<shared, pc, local>>
  PROVE  StreamInv' /\ \A k \in Instances : View(k)' = View(k)
<1>1. \A k \in Instances : stream'[k] = stream[k]
  BY DEF CountInv, Shapes, Update
<1>2. \A k \in Instances : InstanceSound(k)' /\ View(k)' = View(k)
  BY <1>1, OthersStay DEF shared
<1>3. \A m \in Multis \cap made : PartsJoin(m)'
  BY UntouchedAlike, JoinStays DEF StreamInv, shared
<1> QED BY <1>2, <1>3 DEF StreamInv, shared

LEMMA SetPositionShows ==
  ASSUME StreamInv, CountInv, NEW i \in Instances, NEW p \in Targets, SetPosition(i, p)
  PROVE  StreamInv' /\ Abstract!Next
<1> PICK u : u = stream[i]
  OBVIOUS
<1>1. Open(i) /\ NothingRead /\ UNCHANGED <<shared, pc, local>> /\ Update(i, set_position(u, p))
      /\ p \in Positions
  BY BlocksAssumption DEF SetPosition
<1>2. Fits(u)
  BY <1>1, OpenView
<1>3. CASE Reaches(u, p)
  <2>1. /\ Fits(set_position(u, p))
        /\ set_position(u, p) = [u EXCEPT !.inner_current_position = Inner(u, p)]
        /\ Inner(u, p) \in u.inner_first_valid_position .. u.length
    BY <1>1, <1>2, <1>3, MovesFit DEF set_position, Reaches
  <2> QED BY <1>1, <2>1, MoveIs
<1>4. CASE ~Reaches(u, p)
  <2>1. set_position(u, p) = stream[i]
    BY <1>4 DEF set_position
  <2> QED BY <1>1, <2>1, NothingMoves, RefuseIs
<1> QED BY <1>3, <1>4

LEMMA ResetShows ==
  ASSUME StreamInv, CountInv, NEW i \in Instances, Reset(i)
  PROVE  StreamInv' /\ Abstract!Next
<1> PICK u : u = stream[i]
  OBVIOUS
<1>1. Open(i) /\ NothingRead /\ UNCHANGED <<shared, pc, local>> /\ Update(i, reset(u))
  BY DEF Reset
<1>2. /\ Fits(reset(u)) /\ u.inner_first_valid_position \in u.inner_first_valid_position .. u.length
      /\ reset(u) = [u EXCEPT !.inner_current_position = u.inner_first_valid_position]
  BY <1>1, OpenView, MovesFit DEF reset
<1> QED BY <1>1, <1>2, MoveIs

LEMMA ReleaseShows ==
  ASSUME StreamInv, CountInv, NEW i \in Instances, NEW p \in Targets, Release(i, p)
  PROVE  StreamInv' /\ Abstract!Next
<1> PICK u : u = stream[i]
  OBVIOUS
<1> PICK v : v = release(u, p)
  OBVIOUS
<1>1. Open(i) /\ NothingRead /\ UNCHANGED <<shared, pc, local>> /\ Update(i, v)
      /\ p \in Positions /\ p \in Int
  BY BlocksAssumption DEF Release, Positions
<1>2. CASE ~Releasable(u, p)
  <2>1. v = stream[i]
    BY <1>2 DEF release
  <2> QED BY <1>1, <2>1, NothingMoves, RefuseIs
<1>3. CASE Releasable(u, p)
  <2> DEFINE x == u.inner_first_valid_position + p - First(u) + 1
  <2>1. /\ Fits(u) /\ u \in Fields /\ u.control_block = BlockOf(i)
        /\ First(u) \in Int /\ u.inner_first_valid_position \in Int /\ u.length \in Int
        /\ u.inner_current_position \in Int /\ u.inner_current_position <= u.length
        /\ View(i) = Shown(u) /\ Abstract!IsOpen(i)
        /\ View(i).first = First(u)
        /\ View(i).at = First(u) + u.inner_current_position - u.inner_first_valid_position
        /\ Abstract!End(i) = First(u) + u.length - u.inner_first_valid_position
    BY <1>1, OpenView, OpenIntegers, ZenonT(60)
  <2>2. /\ v = [u EXCEPT !.inner_first_valid_position = x]
        /\ x \in u.inner_first_valid_position + 1 .. u.inner_current_position
        /\ Fits(v) /\ First(v) = p + 1
    BY <1>1, <1>3, <2>1, ReleaseFits
  <2>3. /\ v.control_block = u.control_block /\ v.length = u.length
        /\ v.inner_first_valid_position = x
        /\ v.inner_current_position = u.inner_current_position
    BY <2>1, <2>2 DEF Fields, InstancesOf
  <2>4. /\ StreamInv' /\ View(i)' = Shown(v)
        /\ \A k \in Instances \ {i} : View(k)' = View(k)
    <3>1. v.inner_first_valid_position >= u.inner_first_valid_position
      BY <2>1, <2>2, <2>3
    <3> QED BY <1>1, <2>1, <2>2, <2>3, <3>1, OneMoves
  <2>5. p + 1 = First(u) + x - u.inner_first_valid_position
    BY <1>1, <2>1
  <2>6. Abstract!Slice(i, p + 1, Abstract!End(i)) = Window(u, x, u.length)
    <3>1. x \in u.inner_first_valid_position .. u.length /\ u.length \in x .. u.length
      BY <2>1, <2>2
    <3>2. InUse(i)
      BY <1>1 DEF Open, InUse, BlockOf
    <3> HIDE DEF x
    <3> QED BY <1>1, <2>1, <2>5, <3>1, <3>2, SliceIs
  <2>7. Shown(v) = [View(i) EXCEPT !.first = p + 1, !.bytes = Abstract!Slice(i, p + 1, Abstract!End(i))]
    <3>1. \A a, b : Window(v, a, b) = Window(u, a, b)
      BY <2>3, SameWindow
    <3>2. get_position(v) = View(i).at
      <4>1. get_position(v) = First(v) + v.inner_current_position - v.inner_first_valid_position
        BY <2>2, PositionOf
      <4>2. get_position(v) = p + 1 + u.inner_current_position - x
        BY <2>2, <2>3, <4>1
      <4> QED BY <1>1, <2>1, <2>2, <2>5, <4>2
    <3>3. View(i) = [bytes |-> View(i).bytes, first |-> View(i).first, at |-> View(i).at]
      BY <2>1 DEF Shown
    <3> HIDE DEF x
    <3>4. Shown(v) = [bytes |-> Window(u, x, u.length), first |-> p + 1, at |-> View(i).at]
      BY <2>2, <2>3, <3>1, <3>2 DEF Shown
    <3>5. PICK w, s : w = View(i) /\ s = Abstract!Slice(i, p + 1, Abstract!End(i))
      OBVIOUS
    <3>6. [w EXCEPT !.first = p + 1, !.bytes = s] = [bytes |-> s, first |-> p + 1, at |-> w.at]
      <4>1. PICK b, f, a : w = [bytes |-> b, first |-> f, at |-> a]
        BY <3>3, <3>5
      <4>2. PICK v1 : v1 = [w EXCEPT !.first = p + 1]
        OBVIOUS
      <4>3. v1 = [bytes |-> b, first |-> p + 1, at |-> a]
        BY <4>1, <4>2
      <4>4. [v1 EXCEPT !.bytes = s] = [bytes |-> s, first |-> p + 1, at |-> a]
        BY <4>3
      <4> QED BY <4>1, <4>2, <4>4
    <3> QED BY <2>6, <3>4, <3>5, <3>6
  <2>8. p + 1 \in View(i).first + 1 .. View(i).at
    BY <1>1, <2>1, <2>2, <2>5
  <2>9. Abstract!Change(i, Shown(v))
    BY <1>1, <2>4, ChangeIs
  <2>10. Abstract!Forget(i)
    <3> PICK q : q = p + 1
      OBVIOUS
    <3> QED BY <2>1, <2>7, <2>8, <2>9 DEF Abstract!Forget
  <2> QED BY <2>4, <2>10 DEF Abstract!Next
<1> QED BY <1>2, <1>3

-----------------------------------------------------------------------------
(***************************************************************************)
(* Reading.                                                                *)
(***************************************************************************)
LEMMA ReadIs ==
  ASSUME StreamInv, NEW i \in Instances, InUse(i), NEW u, u = stream[i], NEW n \in ReadSizes,
         NEW c, c = IF n < u.length - u.inner_current_position
                    THEN n ELSE u.length - u.inner_current_position,
         NEW v, v = [u EXCEPT !.inner_current_position = u.inner_current_position + c], Fits(v),
         View(i)' = Shown(v), \A k \in Instances \ {i} : View(k)' = View(k),
         read' = Window(u, u.inner_current_position, u.inner_current_position + c)
  PROVE  Abstract!Read(i)
<1>1. /\ Fits(u) /\ u \in Fields
      /\ First(u) \in Int /\ u.inner_first_valid_position \in Int /\ u.length \in Int
      /\ u.inner_current_position \in Int /\ u.inner_current_position <= u.length
      /\ u.inner_first_valid_position <= u.inner_current_position
      /\ View(i) = Shown(u) /\ Abstract!IsOpen(i)
      /\ View(i).first = First(u)
      /\ View(i).at = First(u) + u.inner_current_position - u.inner_first_valid_position
      /\ Abstract!End(i) = First(u) + u.length - u.inner_first_valid_position
  BY InUseView DEF Fits
<1>2. n \in Nat \ {0} /\ c \in Nat
  BY <1>1, BlocksAssumption
<1> DEFINE x == u.inner_current_position + c
           to == First(u) + x - u.inner_first_valid_position
<1>3. x \in u.inner_current_position .. u.length
  BY <1>1, <1>2
<1>4. to = IF View(i).at + n < Abstract!End(i) THEN View(i).at + n ELSE Abstract!End(i)
  BY <1>1, <1>2
<1>5. Shown(v) = [View(i) EXCEPT !.at = to]
  <2>1. v = [u EXCEPT !.inner_current_position = x]
    OBVIOUS
  <2> HIDE DEF x
  <2>2. Fits(u) /\ Fits(v) /\ u \in Fields
    BY <1>1
  <2>3. Shown(v) = [Shown(u) EXCEPT !.at = First(u) + x - u.inner_first_valid_position]
    BY <2>1, <2>2, ShownMoves
  <2> QED BY <1>1, <2>3
<1>6. Abstract!Slice(i, View(i).at, to) = read'
  <2>1. u.inner_current_position \in u.inner_first_valid_position .. u.length
    BY <1>1
  <2> HIDE DEF x
  <2>2. Abstract!Slice(i, View(i).at, to) = Window(u, u.inner_current_position, x)
    BY <1>1, <1>3, <2>1, SliceIs
  <2> QED BY <2>2 DEF x
<1> HIDE DEF to, x
<1>7. PICK t : t = to
  OBVIOUS
<1>8. /\ [k \in Instances |-> View(k)]' = [[k \in Instances |-> View(k)] EXCEPT ![i].at = t]
      /\ read' = Abstract!Slice(i, View(i).at, t)
  <2>1. View(i)' = [View(i) EXCEPT !.at = t]
    BY <1>5, <1>7
  <2> QED BY <1>6, <1>7, <2>1
<1> QED BY <1>1, <1>4, <1>7, <1>8 DEF Abstract!Read

\* A buffer is read at once.
LEMMA BytesAre ==
  ASSUME NEW u, Fits(u), InBuffer(u), NEW n \in Nat
  PROVE  LET c == CopySize(u, n) IN
         /\ c = IF n < u.length - u.inner_current_position
                THEN n ELSE u.length - u.inner_current_position
         /\ c \in 0 .. u.length - u.inner_current_position
         /\ Bytes(u, n) = Window(u, u.inner_current_position, u.inner_current_position + c)
         /\ Len(Bytes(u, n)) = c
<1> DEFINE c == CopySize(u, n)
           at == u.inner_current_position
<1>1. /\ at \in Nat /\ u.length \in Nat /\ at <= u.length
      /\ c = IF n < u.length - at THEN n ELSE u.length - at
  BY FieldTypes, PositionOf DEF Fits, Positions
<1>2. c \in Nat /\ c \in 0 .. u.length - at
  BY <1>1
<1>3. Len(Bytes(u, n)) = c
  BY <1>2 DEF Bytes
<1>4. \A k \in 1..c : ByteAt(u, at + k - 1) = Content[u.control_block][at + k]
  <2> SUFFICES ASSUME NEW k \in 1..c PROVE ByteAt(u, at + k - 1) = Content[u.control_block][at + k]
    OBVIOUS
  <2>1. at + k - 1 + 1 = at + k
    BY <1>1, <1>2
  <2> QED BY <2>1 DEF ByteAt, InBuffer
<1>5. (at + c) - at = c
  BY <1>1, <1>2
<1>6. Bytes(u, n) = Window(u, at, at + c)
  BY <1>4, <1>5 DEF Bytes, Window
<1> QED BY <1>1, <1>2, <1>3, <1>6

LEMMA ReadBufferShows ==
  ASSUME StreamInv, CountInv, NEW i \in Instances, NEW n \in ReadSizes, ReadBuffer(i, n)
  PROVE  StreamInv' /\ Abstract!Next
<1> PICK u : u = stream[i]
  OBVIOUS
<1> PICK c : c = CopySize(u, n)
  OBVIOUS
<1> PICK v : v = Advance(u, c)
  OBVIOUS
<1>1. /\ Open(i) /\ ~IsMulti(i) /\ UNCHANGED <<shared, pc, local>> /\ n \in Nat
      /\ Update(i, Advance(u, Len(Bytes(u, n)))) /\ read' = Bytes(u, n)
  BY BlocksAssumption DEF ReadBuffer
<1>2. /\ Fits(u) /\ InUse(i) /\ u.control_block = BlockOf(i) /\ u \in Fields
      /\ u.inner_first_valid_position \in Int
  BY <1>1, OpenView, OpenIntegers, ZenonT(60)
<1>3. InBuffer(u)
  BY <1>1, <1>2, OpenView DEF IsMulti, StreamInv, InstanceSound, Blocks
<1>4. /\ c = IF n < u.length - u.inner_current_position
             THEN n ELSE u.length - u.inner_current_position
      /\ c \in 0 .. u.length - u.inner_current_position
      /\ Bytes(u, n) = Window(u, u.inner_current_position, u.inner_current_position + c)
      /\ Len(Bytes(u, n)) = c
  BY <1>1, <1>2, <1>3, BytesAre
<1>5. Fits(v) /\ v = [u EXCEPT !.inner_current_position = u.inner_current_position + c]
  BY <1>2, <1>4, MovesFit
<1>6. v.control_block = u.control_block /\ v.length = u.length
      /\ v.inner_first_valid_position = u.inner_first_valid_position
  BY <1>2, <1>5, ShownMoves
<1>7. /\ StreamInv' /\ View(i)' = Shown(v)
      /\ \A k \in Instances \ {i} : View(k)' = View(k)
  <2>1. v.inner_first_valid_position >= u.inner_first_valid_position
    BY <1>2, <1>6
  <2>2. Update(i, v)
    BY <1>1, <1>4
  <2> QED BY <1>1, <1>2, <1>5, <1>6, <2>1, <2>2, OneMoves
<1>8. Abstract!Read(i)
  <2>1. read' = Window(u, u.inner_current_position, u.inner_current_position + c)
    BY <1>1, <1>4
  <2> QED BY <1>2, <1>4, <1>5, <1>7, <2>1, ReadIs
<1> QED BY <1>7, <1>8 DEF Abstract!Next

\* az_ulib_ustream_read on a concatenation: nothing has been read yet.
LEMMA StartReadShows ==
  ASSUME StreamInv, CountInv, NEW i \in Instances, NEW n \in ReadSizes, StartRead(i, n)
  PROVE  StreamInv' /\ Abstract!Next
<1> PICK u : u = stream[i]
  OBVIOUS
<1> PICK m : m = BlockOf(i)
  OBVIOUS
<1>1. /\ Open(i) /\ m \in Multis /\ UNCHANGED <<shared, stream>> /\ n \in Nat /\ NothingRead
      /\ pc'[i] = "reading" /\ \A k \in Instances \ {i} : pc'[k] = pc[k] /\ local'[k] = local[k]
      /\ local'[i].bytes = << >> /\ local'[i].left = n
      /\ local'[i].side = IF u.inner_current_position < part[m].one.length THEN "one" ELSE "two"
  BY BlocksAssumption DEF StartRead, IsMulti, BlockOf, CountInv, Shapes, Goto
<1>2. \A k \in Instances \ {i} : InstanceSound(k)' /\ View(k)' = View(k)
  BY <1>1, OthersStay DEF shared
<1>3. /\ Fits(u) /\ SpansParts(u, m) /\ PartsJoin(m) /\ u.control_block = m
      /\ u.inner_current_position \in Int /\ u.length \in Int /\ u.inner_current_position <= u.length
  BY <1>1, OpenView DEF StreamInv, InstanceSound, SpansParts
<1>4. PartsAlike(m)
  BY <1>1, <1>3, UntouchedAlike DEF shared
<1>5. View(i)' = View(i)
  <2>1. View(i) = Shown(u)
    BY <1>1, OpenView
  <2>2. m # NoBlock /\ m \in Blocks
    BY <1>1, BlocksAssumption DEF Blocks
  <2>3. View(i)' = Shown(u)'
    BY <1>1, <1>3, <2>2 DEF View, Shown, Window, First, BlockOf, Disposing
  <2>4. Shown(u)' = Shown(u)
    BY <1>3, <1>4, <2>2, BytesStay
  <2> QED BY <2>1, <2>3, <2>4
<1>6. InstanceSound(i)'
  <2>1. PICK l : l = local'[i]
    OBVIOUS
  <2>2. Len(l.bytes) = 0 /\ l.bytes = << >>
    BY <1>1, <2>1
  <2>3. part[m].one.length \in Int /\ part[m].one.length <= u.length
    <3>1. Fits(part[m].one) /\ Fits(part[m].two)
      BY <1>3 DEF PartsJoin, Sides
    <3>2. /\ part[m].one.length \in Int /\ part[m].two.length \in Int
          /\ part[m].two.inner_first_valid_position \in Int
          /\ part[m].two.inner_first_valid_position <= part[m].two.length
      BY <3>1, FieldTypes DEF Fits, Positions
    <3> QED BY <1>3, <3>2 DEF SpansParts
  <2>4. ReadSoFar(u, l)
    <3>1. l.left + Len(l.bytes) \in ReadSizes
      BY <1>1, <2>1, <2>2
    <3>2. l.side = "one" => u.inner_current_position < part[m].one.length
      BY <1>1, <2>1
    <3>3. l.side = "two" => u.inner_current_position + Len(l.bytes) \in part[m].one.length .. u.length
      BY <1>1, <1>3, <2>1, <2>2, <2>3
    <3> QED BY <1>3, <2>2, <3>1, <3>2, <3>3 DEF ReadSoFar
  <2>5. ReadSoFar(u, l)'
    BY <1>1, <1>3, <2>4 DEF ReadSoFar, ByteAt, Inner, shared
  <2>6. ReadSoFar(stream[i], local[i])'
    BY <1>1, <2>1, <2>5 DEF ReadSoFar
  <2>7. Fits(u)' /\ SpansParts(u, m)'
    BY <1>1, <1>3 DEF Fits, First, Wrap, SpansParts, Fields, InstancesOf, Blocks, Positions, shared
  <2> QED BY <1>1, <1>3, <2>6, <2>7, BlocksAssumption DEF InstanceSound, BlockOf, Blocks
<1>7. \A x \in Multis \cap made : PartsJoin(x)'
  BY <1>1, UntouchedAlike, JoinStays DEF StreamInv, shared
<1>8. StreamInv'
  BY <1>1, <1>2, <1>6, <1>7 DEF StreamInv, shared
<1>9. Abstract!Next
  BY <1>1, <1>2, <1>5, RefuseIs
<1> QED BY <1>8, <1>9

\* The arithmetic of it: the parts end at l1 and l2, the second begins at f2; f, l
\* and F are the first byte, the end and the first position of the part that is read.
ReadsPart(f1, l1, f2, l2, ul, at, n, side, f, l, F, end) ==
  /\ f1 \in 0..UINT32_MAX /\ l1 \in 0..UINT32_MAX
  /\ f2 \in 0..UINT32_MAX /\ l2 \in 0..UINT32_MAX /\ f2 <= l2
  /\ ul \in 0..UINT32_MAX /\ ul = l1 + l2 - f2
  /\ at \in 0..UINT32_MAX /\ f1 <= at /\ n \in Nat
  /\ side = "one" => n = 0 /\ at < l1 /\ F = f1 /\ f = f1 /\ l = l1 /\ end = l1
  /\ side # "one" => at + n \in l1 .. ul /\ F = l1 /\ f = f2 /\ l = l2 /\ end = ul

LEMMA PartArithmetic ==
  ASSUME NEW f1, NEW l1, NEW f2, NEW l2, NEW ul, NEW at, NEW n, NEW side,
         NEW f, NEW l, NEW F, NEW end,
         ReadsPart(f1, l1, f2, l2, ul, at, n, side, f, l, F, end)
  PROVE  /\ at + n \in 0..UINT32_MAX /\ at + n \in F .. F + l - f
         /\ l - (f + (at + n) - F) = end - (at + n)
         /\ end - (at + n) \in Nat /\ end - (at + n) <= ul - (at + n)
         /\ f + (at + n) - F \in Int
         /\ \A k \in 1 .. end - (at + n) :
              /\ (at + n) + k - 1 \in 0..UINT32_MAX /\ (at + n) + k - 1 >= f1
              /\ (at + n) + k - 1 <= l1 + l2 - f2
              /\ side = "one" => /\ (at + n) + k - 1 < l1
                        /\ (f + (at + n) - F) + k = ((at + n) + k - 1) + 1
              /\ side # "one" => /\ ~((at + n) + k - 1 < l1)
                         /\ (f + (at + n) - F) + k = f2 + ((at + n) + k - 1) - l1 + 1
<1>1. UINT32_MAX \in Nat
  BY PositionAssumption
<1>2. CASE side = "one"
  BY <1>1, <1>2 DEF ReadsPart
<1>3. CASE side # "one"
  BY <1>1, <1>3 DEF ReadsPart
<1> QED BY <1>2, <1>3

\* The read l of instance u goes on at inner position pos: w is the part there, c what
\* it copies from it, end where the part ends.
Reads(m, u, l, pos, end, w, c) ==
  /\ m \in Multis \cap made /\ PartsJoin(m)
  /\ Fits(u) /\ u.control_block = m /\ SpansParts(u, m)
  /\ ReadSoFar(u, l) /\ l.side \in Sides /\ l.left \in Nat /\ l.bytes \in Seq(Byte)
  /\ pos = u.inner_current_position + Len(l.bytes)
  /\ end = IF l.side = "one" THEN part[m].one.length ELSE u.length
  /\ w = set_position(part[m][l.side], u.inner_current_position + Len(l.bytes))
  /\ c = CopySize(w, l.left)

Copies(m, u, l, pos, end, w, c) ==
  /\ c = IF l.left < end - pos THEN l.left ELSE end - pos
  /\ c \in 0 .. u.length - pos
  /\ Fits(Advance(w, c))
  /\ Advance(w, c).control_block = part[m][l.side].control_block
  /\ Advance(w, c).offset_diff = part[m][l.side].offset_diff
  /\ Advance(w, c).length = part[m][l.side].length
  /\ Advance(w, c).inner_first_valid_position = part[m][l.side].inner_first_valid_position
  /\ l.bytes \o Bytes(w, l.left) = Window(u, u.inner_current_position, pos + c)
  /\ Len(l.bytes \o Bytes(w, l.left)) = Len(l.bytes) + c

\* A critical section of the read: the part goes to where the read is, and what it
\* copies is what the instance shows from there on.
LEMMA PartIsRead ==
  ASSUME NEW m, NEW u, NEW l, NEW pos, NEW end, NEW w, NEW c, Reads(m, u, l, pos, end, w, c)
  PROVE  Copies(m, u, l, pos, end, w, c)
<1> /\ m \in Multis /\ m \in made /\ PartsJoin(m) /\ Fits(u) /\ u.control_block = m
    /\ SpansParts(u, m) /\ ReadSoFar(u, l) /\ l.side \in Sides /\ l.left \in Nat
    /\ l.bytes \in Seq(Byte)
  <2> HIDE DEF Byte
  <2> QED BY DEF Reads
<1> DEFINE at == u.inner_current_position
           n == Len(l.bytes)
           one == part[m].one
           two == part[m].two
           p == part[m][l.side]
           x == p.inner_first_valid_position + pos - First(p)
<1>1. /\ Fits(one) /\ InBuffer(one) /\ Fits(two) /\ InBuffer(two) /\ Fits(p) /\ InBuffer(p)
      /\ one.offset_diff = 0 /\ First(two) = one.length
      /\ l.side = "one" => p = one
      /\ l.side = "two" => p = two
  BY DEF PartsJoin, Sides
<1>o. \A v : Fits(v) =>
        /\ v.inner_first_valid_position \in 0..UINT32_MAX /\ v.length \in 0..UINT32_MAX
        /\ v.inner_current_position \in 0..UINT32_MAX
        /\ v.inner_first_valid_position <= v.inner_current_position
        /\ v.inner_current_position <= v.length
        /\ v.inner_first_valid_position <= v.length
  BY FieldTypes, PositionAssumption DEF Fits, Positions
<1>2. /\ one.inner_first_valid_position \in 0..UINT32_MAX /\ one.length \in 0..UINT32_MAX
      /\ two.inner_first_valid_position \in 0..UINT32_MAX /\ two.length \in 0..UINT32_MAX
      /\ one.inner_first_valid_position <= one.length
      /\ two.inner_first_valid_position <= two.length
      /\ u.inner_first_valid_position \in 0..UINT32_MAX /\ u.length \in 0..UINT32_MAX
      /\ at \in 0..UINT32_MAX /\ at <= u.length /\ u.inner_first_valid_position <= at
      /\ u.inner_first_valid_position >= one.inner_first_valid_position
      /\ u.length = one.length + two.length - two.inner_first_valid_position
      /\ UINT32_MAX \in Nat /\ n \in Nat
  <2>1. UINT32_MAX \in Nat /\ n \in Nat
    BY PositionAssumption
  <2>2. /\ u.inner_first_valid_position >= one.inner_first_valid_position
        /\ u.length = one.length + two.length - two.inner_first_valid_position
    BY DEF SpansParts
  <2> HIDE DEF one, two, n
  <2> QED BY <1>1, <1>o, <2>1, <2>2
<1>p. /\ pos = at + n
      /\ l.side = "one" => end = one.length
      /\ l.side # "one" => end = u.length
  BY DEF Reads
<1> HIDE DEF one, two, p, n, at
<1>3. First(one) = one.inner_first_valid_position
  BY <1>1, <1>2, WrapValue DEF First
<1>4. /\ l.side = "one" => n = 0 /\ at < one.length
      /\ l.side = "two" => pos \in one.length .. u.length
      /\ \A k \in 1..n : l.bytes[k] = ByteAt(u, at + k - 1)
  <2>1. Len(<< >>) = 0
    OBVIOUS
  <2> QED BY <2>1, <1>p DEF ReadSoFar, at, n, one
<1>5. l.side = "one" \/ l.side = "two"
  BY DEF Sides
<1>6. /\ pos \in 0..UINT32_MAX /\ pos \in First(p) .. First(p) + p.length - p.inner_first_valid_position
      /\ p.length - x = end - pos
      /\ end - pos \in Nat /\ end - pos <= u.length - pos /\ x \in Int
      /\ \A k \in 1 .. end - pos :
           /\ pos + k - 1 \in 0..UINT32_MAX /\ pos + k - 1 >= one.inner_first_valid_position
           /\ pos + k - 1 <= one.length + two.length - two.inner_first_valid_position
           /\ l.side = "one" => pos + k - 1 < one.length /\ x + k = (pos + k - 1) + 1
           /\ l.side # "one" =>
                /\ ~(pos + k - 1 < one.length)
                /\ x + k = two.inner_first_valid_position + (pos + k - 1) - one.length + 1
  <2>1. l.side = "one" =>
          /\ n = 0 /\ at < one.length /\ First(p) = one.inner_first_valid_position
          /\ p.inner_first_valid_position = one.inner_first_valid_position
          /\ p.length = one.length /\ end = one.length
    BY <1>p, <1>1, <1>3, <1>4
  <2>2. l.side # "one" =>
          /\ pos \in one.length .. u.length /\ First(p) = one.length
          /\ p.inner_first_valid_position = two.inner_first_valid_position
          /\ p.length = two.length /\ end = u.length
    BY <1>p, <1>1, <1>4, <1>5
  <2>3. one.inner_first_valid_position <= at
    BY <1>2
  <2>4. ReadsPart(one.inner_first_valid_position, one.length, two.inner_first_valid_position,
                  two.length, u.length, at, n, l.side,
                  p.inner_first_valid_position, p.length, First(p), end)
    BY <1>p, <1>2, <2>1, <2>2, <2>3 DEF ReadsPart
  <2> QED BY <1>p, <2>4, PartArithmetic
<1>7. Fits(w) /\ w = [p EXCEPT !.inner_current_position = x]
  <2>1. Reaches(p, pos) /\ pos \in Positions
    BY <1>1, <1>6, InnerOf DEF Positions
  <2>2. w = set_position(p, pos)
    BY DEF Reads, p
  <2> QED BY <1>1, <1>6, <2>1, <2>2, MovesFit
<1>8. /\ w.control_block = p.control_block /\ w.length = p.length /\ w.offset_diff = p.offset_diff
      /\ w.inner_first_valid_position = p.inner_first_valid_position /\ w.inner_current_position = x
      /\ w \in Fields
  <2>1. p \in Fields
    BY <1>1 DEF Fits
  <2> HIDE DEF p, x
  <2> QED BY <1>7, <2>1 DEF Fields, InstancesOf, Fits
<1>9. InBuffer(w)
  BY <1>1, <1>8 DEF InBuffer
<1>10. w.length - w.inner_current_position = end - pos
  <2> HIDE DEF x
  <2> QED BY <1>6, <1>8
<1>11. /\ c = IF l.left < end - pos THEN l.left ELSE end - pos
       /\ c \in 0 .. end - pos
       /\ Bytes(w, l.left) = Window(w, x, x + c) /\ Len(Bytes(w, l.left)) = c
  <2>1. c = CopySize(w, l.left)
    BY DEF Reads
  <2> HIDE DEF x
  <2> QED BY <1>7, <1>8, <1>9, <1>10, <2>1, BytesAre
<1>12. /\ Fits(Advance(w, c))
       /\ Advance(w, c) = [w EXCEPT !.inner_current_position = w.inner_current_position + c]
  <2>1. c \in 0 .. w.length - w.inner_current_position
    BY <1>10, <1>11
  <2> HIDE DEF x
  <2> QED BY <1>7, <2>1, MovesFit
<1>13. /\ Advance(w, c).control_block = p.control_block
       /\ Advance(w, c).offset_diff = p.offset_diff
       /\ Advance(w, c).length = p.length
       /\ Advance(w, c).inner_first_valid_position = p.inner_first_valid_position
  <2> HIDE DEF x, p
  <2> QED BY <1>8, <1>12 DEF Fields, InstancesOf
<1>14. \A k \in 1..c : Bytes(w, l.left)[k] = ByteAt(u, pos + k - 1)
  <2> SUFFICES ASSUME NEW k \in 1..c PROVE Bytes(w, l.left)[k] = ByteAt(u, pos + k - 1)
    OBVIOUS
  <2>1. Bytes(w, l.left)[k] = Content[p.control_block][x + k]
    BY <1>8, <1>11 DEF Bytes, Reads
  <2>2. k \in 1 .. end - pos
    <3> HIDE DEF x
    <3> QED BY <1>6, <1>11
  <2> DEFINE q == pos + k - 1
  <2>3. /\ q \in Positions /\ q >= one.inner_first_valid_position
        /\ q <= one.length + two.length - two.inner_first_valid_position
        /\ l.side = "one" => q < one.length /\ x + k = q + 1
        /\ l.side # "one" =>
             /\ ~(q < one.length) /\ x + k = two.inner_first_valid_position + q - one.length + 1
    BY <1>6, <2>2 DEF Positions
  <2> HIDE DEF q, x
  <2>4. ByteAt(u, q) =
          IF q < one.length THEN Content[one.control_block][q + 1]
          ELSE Content[two.control_block][two.inner_first_valid_position + q - one.length + 1]
    BY <2>3, ByteAtPart DEF one, two
  <2>5. ByteAt(u, q) = Content[p.control_block][x + k]
    BY <1>1, <1>5, <2>3, <2>4
  <2> QED BY <2>1, <2>5 DEF q
<1>15. /\ l.bytes \o Bytes(w, l.left) = Window(u, at, pos + c)
       /\ Len(l.bytes \o Bytes(w, l.left)) = n + c
  <2> DEFINE s == l.bytes
             t == Bytes(w, l.left)
             r == Window(u, at, pos + c)
  <2>1. Readable(u) /\ Readable(w)
    BY <1>9, BlocksAssumption DEF Readable, InBuffer, Blocks
  <2>2. /\ c \in Nat /\ x \in Int /\ pos + c \in Int /\ at <= pos + c /\ (pos + c) - at = n + c
        /\ x <= x + c /\ (x + c) - x = c
    <3>1. c \in Nat /\ x \in Int /\ at \in Int /\ n \in Nat
      <4> HIDE DEF x
      <4> QED BY <1>2, <1>6, <1>11
    <3> HIDE DEF x
    <3> QED BY <3>1, <1>p
  <2>3. s \in Seq(Byte) /\ t \in Seq(Byte) /\ r \in Seq(Byte) /\ Len(r) = n + c /\ Len(t) = c
    <3>1. at \in Int
      BY <1>2
    <3>2. r \in Seq(Byte) /\ Len(r) = (pos + c) - at
      <4>z. PICK z : z = pos + c
        OBVIOUS
      <4>1. z \in Int /\ at <= z
        BY <2>2, <4>z
      <4>2. Window(u, at, z) \in Seq(Byte) /\ Len(Window(u, at, z)) = z - at
        <5> HIDE DEF Byte
        <5> QED BY <2>1, <3>1, <4>1, WindowType
      <4> QED BY <4>z, <4>2
    <3>3. t \in Seq(Byte) /\ Len(t) = c
      <4> HIDE DEF x, Byte
      <4> QED BY <1>11, <2>1, <2>2, WindowType
    <3> HIDE DEF r, t, Byte
    <3> QED BY <2>2, <3>2, <3>3
  <2>4. \A k \in 1..(n + c) : r[k] = ByteAt(u, at + k - 1)
    <3>1. at \in Int
      BY <1>2
    <3>2. \A k \in 1..((pos + c) - at) : r[k] = ByteAt(u, at + k - 1)
      <4>z. PICK z : z = pos + c
        OBVIOUS
      <4>1. z \in Int /\ at <= z
        BY <2>2, <4>z
      <4>2. \A k \in 1..(z - at) : Window(u, at, z)[k] = ByteAt(u, at + k - 1)
        <5> QED BY <2>1, <3>1, <4>1, WindowType
      <4> QED BY <4>z, <4>2
    <3> QED BY <2>2, <3>2
  <2>5. \A k \in 1..n : r[k] = s[k]
    <3> HIDE DEF r
    <3>1. \A k \in 1..n : k \in 1..(n + c)
      BY <1>2, <2>2
    <3> QED BY <1>4, <2>4, <3>1
  <2>6. \A k \in 1..c : r[n + k] = t[k]
    <3> SUFFICES ASSUME NEW k \in 1..c PROVE r[n + k] = t[k]
      OBVIOUS
    <3>1. n + k \in 1..(n + c) /\ at + (n + k) - 1 = pos + k - 1
      <4>1. n \in Nat /\ c \in Nat /\ at \in Int /\ k \in 1..c
        BY <1>2, <2>2
      <4> QED BY <4>1, <1>p
    <3> HIDE DEF r, t
    <3>2. r[n + k] = ByteAt(u, pos + k - 1)
      BY <2>4, <3>1
    <3> QED BY <1>14, <3>2 DEF t
  <2>7. Len(s) = n
    BY DEF n
  <2> HIDE DEF s, t, r, Byte
  <2>8. r = s \o t
    <3>1. /\ s \in Seq(Byte) /\ t \in Seq(Byte) /\ r \in Seq(Byte)
          /\ Len(r) = Len(s) + Len(t)
          /\ \A k \in 1..Len(s) : r[k] = s[k]
          /\ \A k \in 1..Len(t) : r[Len(s) + k] = t[k]
      BY <2>3, <2>5, <2>6, <2>7
    <3> QED BY <3>1, Joined
  <2>9. Len(s \o t) = n + c
    BY <2>3, <2>8
  <2> QED BY <2>8, <2>9 DEF s, t, r
<1>16. c \in 0 .. u.length - pos
  <2>1. u.length - pos \in Int
    BY <1>2, <1>6
  <2> HIDE DEF x
  <2> QED BY <1>6, <1>11, <2>1
<1> QED BY <1>11, <1>12, <1>13, <1>15, <1>16 DEF at, n, p, one, Copies

\* Everybody but the reader, after a critical section of a read.
LEMMA PartMoves ==
  ASSUME StreamInv, CountInv, NEW i \in Instances, NEW m \in Multis \cap made, PartsAlike(m),
         \A x \in Multis \ {m} : part'[x] = part[x], UNCHANGED <<made, released>>,
         \A k \in Instances \ {i} :
           stream'[k] = stream[k] /\ pc'[k] = pc[k] /\ local'[k] = local[k]
  PROVE  /\ \A k \in Instances \ {i} : InstanceSound(k)' /\ View(k)' = View(k)
         /\ \A x \in Multis \cap made : PartsAlike(x) /\ PartsJoin(x)'
         /\ InstanceSound(i)' => StreamInv'
<1>1. \A x \in Multis \cap made : PartsAlike(x) /\ PartsJoin(x)'
  <2> SUFFICES ASSUME NEW x \in Multis \cap made PROVE PartsAlike(x) /\ PartsJoin(x)'
    OBVIOUS
  <2>1. PartsAlike(x)
    BY UntouchedAlike DEF StreamInv
  <2> QED BY <2>1, JoinStays DEF StreamInv
<1>2. \A k \in Instances \ {i} : InstanceSound(k)' /\ View(k)' = View(k)
  <2> SUFFICES ASSUME NEW k \in Instances \ {i} PROVE InstanceSound(k)' /\ View(k)' = View(k)
    OBVIOUS
  <2>1. BlockOf(k) \in Multis => PartsAlike(BlockOf(k))
    BY <1>1 DEF StreamInv, InstanceSound, SpansParts
  <2>2. pc[k] = "reading" => BlockOf(k) \in Multis
    BY DEF CountInv, CallsAreOnBlocks, Shapes, Disposing
  <2> QED BY <2>1, <2>2, InstanceStays
<1>3. \A x \in Multis \ made : part'[x] = part[x]
  OBVIOUS
<1> QED BY <1>1, <1>2, <1>3 DEF StreamInv

LEMMA ReadPartShows ==
  ASSUME StreamInv, CountInv, NEW i \in Instances, ReadPart(i)
  PROVE  StreamInv' /\ Abstract!Next
<1> PICK u : u = stream[i]
  OBVIOUS
<1> PICK m : m = BlockOf(i)
  OBVIOUS
<1> PICK l : l = local[i]
  OBVIOUS
<1>a. PICK w, c, bytes :
        w = Moved(i) /\ c = CopySize(w, l.left) /\ bytes = l.bytes \o Bytes(w, l.left)
  OBVIOUS
<1>1. /\ pc[i] = "reading"
      /\ part' = [part EXCEPT ![m][l.side] = Advance(w, c)]
      /\ UNCHANGED <<made, released>>
      /\ \/ /\ l.left - c > 0 /\ l.side = "one"
            /\ local' = [local EXCEPT ![i] = [side |-> "two", left |-> l.left - c, bytes |-> bytes]]
            /\ NothingRead /\ UNCHANGED <<stream, pc>>
         \/ /\ l.left - c = 0 \/ l.side = "two"
            /\ local' = [local EXCEPT ![i] = NoRead]
            /\ read' = bytes
            /\ Update(i, Advance(u, Len(bytes)))
            /\ Goto(i, "idle")
  BY <1>a DEF ReadPart
<1>2. /\ m \in Multis /\ u.control_block = m /\ InUse(i)
      /\ l.side \in Sides /\ l.left \in Nat /\ l.bytes \in Seq(Byte)
      /\ part[m][l.side] \in InstanceValues /\ m # NoBlock /\ m \in Blocks
  BY <1>1, BlocksAssumption DEF CountInv, CallsAreOnBlocks, Shapes, Disposing, BlockOf, InUse, Blocks
<1>3. /\ Fits(u) /\ SpansParts(u, m) /\ m \in made /\ PartsJoin(m) /\ ReadSoFar(u, l)
      /\ u \in Fields
  BY <1>1, <1>2 DEF StreamInv, InstanceSound, SpansParts, Fits
<1>4. /\ u.inner_current_position \in Nat /\ u.length \in Nat
      /\ u.inner_first_valid_position \in Nat
      /\ u.inner_current_position <= u.length
  BY <1>3, FieldTypes DEF Fits, Positions
<1>b. PICK at, n, pos, end :
        /\ at = u.inner_current_position /\ n = Len(l.bytes)
        /\ pos = u.inner_current_position + Len(l.bytes)
        /\ end = IF l.side = "one" THEN part[m].one.length ELSE u.length
  OBVIOUS
<1>5. /\ c = IF l.left < end - pos THEN l.left ELSE end - pos
      /\ c \in 0 .. u.length - pos
      /\ Fits(Advance(w, c))
      /\ Advance(w, c).control_block = part[m][l.side].control_block
      /\ Advance(w, c).offset_diff = part[m][l.side].offset_diff
      /\ Advance(w, c).length = part[m][l.side].length
      /\ Advance(w, c).inner_first_valid_position = part[m][l.side].inner_first_valid_position
      /\ bytes = Window(u, at, pos + c)
      /\ Len(bytes) = n + c
  <2>1. w = set_position(part[m][l.side], u.inner_current_position + Len(l.bytes))
    BY <1>a DEF Moved, BlockOf
  <2> HIDE DEF Byte
  <2>2. Reads(m, u, l, pos, end, w, c)
    BY <1>2, <1>3, <1>a, <1>b, <2>1 DEF Reads
  <2>5. Copies(m, u, l, pos, end, w, c)
    BY <2>2, PartIsRead
  <2> QED BY <1>a, <1>b, <2>5 DEF Copies
<1>6. PartsAlike(m) /\ \A x \in Multis \ {m} : part'[x] = part[x]
  <2>1. \A x \in Multis \ {m} : part'[x] = part[x]
    BY <1>1 DEF CountInv, Shapes
  <2>2. /\ part'[m][l.side] = Advance(w, c)
        /\ \A s \in Sides \ {l.side} : part'[m][s] = part[m][s]
    BY <1>1, <1>2 DEF CountInv, Shapes
  <2>3. \A s \in Sides : Fits(part[m][s])
    BY <1>3 DEF PartsJoin
  <2> QED BY <1>5, <2>1, <2>2, <2>3 DEF PartsAlike
<1>7. /\ \A k \in Instances \ {i} : InstanceSound(k)' /\ View(k)' = View(k)
      /\ InstanceSound(i)' => StreamInv'
  <2>1. \A k \in Instances \ {i} :
          stream'[k] = stream[k] /\ pc'[k] = pc[k] /\ local'[k] = local[k]
    BY <1>1 DEF Update, Goto, CountInv, Shapes
  <2> QED BY <1>1, <1>2, <1>3, <1>6, <2>1, PartMoves
<1>8. /\ n \in Nat /\ c \in Nat /\ at \in Nat /\ u.length \in Nat /\ pos = at + n /\ l.left \in Nat
      /\ pos + c <= u.length /\ c <= l.left
      /\ l.side = "one" => c = IF l.left < part[m].one.length - pos
                               THEN l.left ELSE part[m].one.length - pos
      /\ l.side = "two" => c = IF l.left < u.length - pos THEN l.left ELSE u.length - pos
  <2>1. n \in Nat /\ at \in Nat /\ pos = at + n /\ u.length \in Nat /\ l.left \in Nat
    BY <1>2, <1>4, <1>b
  <2>2. end \in Int
    <3>1. Fits(part[m].one)
      BY <1>3 DEF PartsJoin, Sides
    <3> QED BY <1>b, <2>1, <3>1, FieldTypes DEF Fits, Positions
  <2>3. c <= l.left /\ pos + c <= u.length
    <3>1. /\ c = IF l.left < end - pos THEN l.left ELSE end - pos
          /\ c \in 0 .. u.length - pos
      BY <1>5
    <3>2. pos \in Int /\ c \in Int
      BY <2>1, <3>1
    <3>3. c <= l.left
      BY <2>1, <2>2, <3>1, <3>2
    <3> QED BY <2>1, <3>1, <3>2, <3>3
  <2>4. c \in Nat
    BY <1>5
  <2> QED BY <1>5, <1>b, <2>1, <2>3, <2>4
<1>9. View(i) = Shown(u) /\ Readable(u) /\ InUse(i)
  BY <1>2, InUseView
<1>10. CASE /\ l.left - c > 0 /\ l.side = "one"
            /\ local' = [local EXCEPT ![i] = [side |-> "two", left |-> l.left - c, bytes |-> bytes]]
            /\ NothingRead /\ UNCHANGED <<stream, pc>>
  <2>l. PICK l2 : l2 = [side |-> "two", left |-> l.left - c, bytes |-> bytes]
    OBVIOUS
  <2>1. stream'[i] = u /\ pc'[i] = "reading" /\ local'[i] = l2
    BY <1>1, <1>10, <2>l DEF CountInv, Shapes
  <2>2. /\ part[m].one.length \in Int /\ part[m].one.length <= u.length
    <3>1. Fits(part[m].one) /\ Fits(part[m].two)
      BY <1>3 DEF PartsJoin, Sides
    <3>2. /\ part[m].one.length \in Int /\ part[m].two.length \in Int
          /\ part[m].two.inner_first_valid_position \in Int
          /\ part[m].two.inner_first_valid_position <= part[m].two.length
      BY <3>1, FieldTypes DEF Fits, Positions
    <3> QED BY <1>3, <3>2 DEF SpansParts
  <2>3. at + Len(bytes) = part[m].one.length
    <3>1. c = part[m].one.length - pos
      BY <1>8, <1>10, <2>2
    <3> QED BY <1>5, <1>8, <2>2, <3>1, SMTT(30)
  <2>4. l2.left + Len(l2.bytes) \in ReadSizes
    <3>1. l.left + n \in ReadSizes
      BY <1>3, <1>b DEF ReadSoFar
    <3>2. (l.left - c) + (n + c) = l.left + n
      BY <1>8
    <3> QED BY <1>5, <2>l, <3>1, <3>2
  <2>5. \A k \in 1..Len(l2.bytes) : l2.bytes[k] = ByteAt(u, at + k - 1)
    <3>1. (pos + c) - at = Len(bytes) /\ at \in Int /\ pos + c \in Int /\ at <= pos + c
      BY <1>5, <1>8
    <3>2. \A k \in 1..((pos + c) - at) : Window(u, at, pos + c)[k] = ByteAt(u, at + k - 1)
      BY <1>9, <3>1, WindowType
    <3> QED BY <1>5, <2>l, <3>1, <3>2
  <2>6. /\ \A k : ByteAt(u, k)' = ByteAt(u, k)
        /\ Shown(u)' = Shown(u)
    BY <1>2, <1>6, BytesStay
  <2>7. part'[m].one.length = part[m].one.length
    BY <1>6 DEF PartsAlike, Sides
  <2>8. ReadSoFar(u, l2)'
    <3>1. l2.side = "two" /\ l2.bytes = bytes
      BY <2>l
    <3>2. at + Len(l2.bytes) \in part[m].one.length .. u.length
      BY <2>2, <2>3, <3>1
    <3> QED BY <1>2, <1>b, <2>4, <2>5, <2>6, <2>7, <3>1, <3>2 DEF ReadSoFar
  <2>9. InstanceSound(i)'
    <3>1. ReadSoFar(stream[i], local[i])'
      BY <2>1, <2>8 DEF ReadSoFar
    <3>2. Fits(u)'
      BY <1>3 DEF Fits, First, Wrap, Fields, InstancesOf, Blocks, Positions
    <3>3. SpansParts(u, m)'
      BY <1>1, <1>3, <1>6 DEF SpansParts, PartsAlike, Sides
    <3> QED BY <1>2, <2>1, <3>1, <3>2, <3>3, BlocksAssumption DEF InstanceSound, BlockOf, Blocks
  <2>10. View(i)' = View(i)
    <3>1. View(i)' = Shown(u)'
      BY <1>2, <2>1 DEF View, Shown, Window, First, BlockOf, Disposing
    <3> QED BY <1>9, <2>6, <3>1
  <2> QED BY <1>7, <1>10, <2>9, <2>10, RefuseIs
<1>11. CASE /\ l.left - c = 0 \/ l.side = "two"
            /\ local' = [local EXCEPT ![i] = NoRead]
            /\ read' = bytes
            /\ Update(i, Advance(u, Len(bytes)))
            /\ Goto(i, "idle")
  <2>v. PICK v, r, d : v = Advance(u, d) /\ r = l.left + n /\ d = n + c
    OBVIOUS
  <2>1. stream'[i] = v /\ pc'[i] = "idle"
    BY <1>5, <1>11, <2>v DEF CountInv, Shapes, Update, Goto
  <2>2. /\ d = IF r < u.length - at THEN r ELSE u.length - at
        /\ d \in 0 .. u.length - at /\ pos + c = at + d
    <3>1. CASE l.left - c = 0
      BY <1>8, <2>v, <3>1
    <3>2. CASE l.side = "two"
      <4>1. c = IF l.left < u.length - pos THEN l.left ELSE u.length - pos
        BY <1>8, <3>2
      <4>2. CASE c = l.left
        BY <1>8, <2>v, <4>1, <4>2
      <4>3. CASE c = u.length - pos /\ ~(l.left < u.length - pos)
        BY <1>8, <2>v, <4>3
      <4> QED BY <4>1, <4>2, <4>3
    <3> QED BY <1>11, <3>1, <3>2
  <2>3. r \in ReadSizes
    BY <1>3, <1>b, <2>v DEF ReadSoFar
  <2>4. Fits(v) /\ v = [u EXCEPT !.inner_current_position = u.inner_current_position + d]
    BY <1>3, <1>b, <2>2, <2>v, MovesFit
  <2>5. /\ v.control_block = u.control_block /\ v.length = u.length
        /\ v.inner_first_valid_position = u.inner_first_valid_position
    BY <1>3, <2>4, ShownMoves
  <2>6. View(i)' = Shown(v)
    <3>1. View(i)' = Shown(v)'
      BY <1>2, <2>1, <2>5 DEF View, Shown, Window, First, BlockOf, Disposing
    <3>2. Shown(v)' = Shown(v)
      BY <1>2, <1>6, <2>5, BytesStay
    <3> QED BY <3>1, <3>2
  <2>7. InstanceSound(i)'
    <3>1. Fits(v)'
      BY <2>4 DEF Fits, First, Wrap, Fields, InstancesOf, Blocks, Positions
    <3>2. SpansParts(v, m)'
      BY <1>1, <1>3, <1>6, <2>5 DEF SpansParts, PartsAlike, Sides
    <3> QED BY <1>2, <2>1, <2>5, <3>1, <3>2, BlocksAssumption DEF InstanceSound, BlockOf, Blocks
  <2>8. read' = Window(u, u.inner_current_position, u.inner_current_position + d)
    BY <1>5, <1>11, <1>b, <2>2
  <2>9. d = IF r < u.length - u.inner_current_position
            THEN r ELSE u.length - u.inner_current_position
    BY <1>b, <2>2
  <2>10. Abstract!Read(i)
    BY <1>7, <1>9, <2>3, <2>4, <2>6, <2>8, <2>9, ReadIs
  <2> QED BY <1>7, <2>7, <2>10 DEF Abstract!Next
<1> QED BY <1>1, <1>10, <1>11

-----------------------------------------------------------------------------
(***************************************************************************)
(* Calls that create and end instances.                                    *)
(***************************************************************************)

\* An instance that is idle after a step that leaves the parts it reads alone.
LEMMA IdleSound ==
  ASSUME NEW i \in Instances, NEW v, stream'[i] = v, pc'[i] = "idle", Fits(v),
         v.control_block \in Blocks, v.control_block \in Buffers => InBuffer(v),
         v.control_block \in Multis => PartsAlike(v.control_block) /\ SpansParts(v, v.control_block),
         made \subseteq made'
  PROVE  InstanceSound(i)' /\ View(i)' = Shown(v)
<1>1. Shown(v)' = Shown(v)
  BY BytesStay
<1>2. v.control_block # NoBlock
  BY BlocksAssumption
<1>3. View(i)' = Shown(v)'
  BY <1>2 DEF View, Shown, Window, First, BlockOf, Disposing
<1>4. Fits(v)' /\ (v.control_block \in Buffers => InBuffer(v)')
  BY DEF Fits, First, Wrap, Fields, InstancesOf, Blocks, Positions, InBuffer
<1>5. v.control_block \in Multis => SpansParts(v, v.control_block)'
  BY DEF SpansParts, PartsAlike, Sides
<1> QED BY <1>1, <1>2, <1>3, <1>4, <1>5 DEF InstanceSound, BlockOf

LEMMA ClosedFits == Fits(NoInstance) /\ NoInstance.control_block = NoBlock
<1>1. UINT32_MAX \in Nat
  BY PositionAssumption
<1>2. /\ NoInstance.control_block = NoBlock /\ NoInstance.offset_diff = 0
      /\ NoInstance.inner_current_position = 0 /\ NoInstance.inner_first_valid_position = 0
      /\ NoInstance.length = 0 /\ NoInstance \in Fields
  BY <1>1 DEF NoInstance, Instance, Fields, InstancesOf, Positions
<1>3. Wrap(0) = 0
  BY <1>1, WrapValue
<1> QED BY <1>1, <1>2, <1>3 DEF Fits, First

LEMMA ClosedIsSound ==
  ASSUME NEW i \in Instances, stream'[i] = NoInstance, pc'[i] = "idle"
  PROVE  InstanceSound(i)'
<1>1. Fits(NoInstance)'
  BY ClosedFits DEF Fits, First, Wrap, Fields, InstancesOf, Blocks, Positions
<1> QED BY <1>1, ClosedFits, BlocksAssumption DEF InstanceSound, BlockOf, Blocks

\* A closed instance shows nothing.
LEMMA VacantIsClosed ==
  ASSUME CountInv, NEW i \in Instances, Vacant(i)
  PROVE  BlockOf(i) = NoBlock /\ pc[i] = "idle" /\ View(i) = NoInstance /\ ~Abstract!IsOpen(i)
<1>1. BlockOf(i) = NoBlock /\ pc[i] = "idle"
  BY NoInstanceType DEF Vacant, BlockOf, CountInv, CallsAreOnBlocks
<1>2. View(i) = NoInstance
  BY <1>1, ViewIsShown
<1> QED BY <1>1, <1>2 DEF Abstract!IsOpen

\* Parts of concatenations that are left alone.
LEMMA PartsStay ==
  ASSUME StreamInv, UNCHANGED part
  PROVE  /\ \A m \in Multis \cap made : PartsAlike(m) /\ PartsJoin(m)'
         /\ \A m \in Multis \ made, s \in Sides : part'[m][s] = NoInstance
<1>1. \A m \in Multis \cap made : PartsAlike(m) /\ PartsJoin(m)'
  BY UntouchedAlike, JoinStays DEF StreamInv
<1> QED BY <1>1 DEF StreamInv

LEMMA CreateShows ==
  ASSUME StreamInv, CountInv, NEW i \in Instances, NEW b \in Buffers, az_ulib_ustream_init(i, b)
  PROVE  StreamInv' /\ Abstract!Next
<1> PICK n, v : n = Len(Content[b]) /\ v = Instance(b, n)
  OBVIOUS
<1>1. /\ Vacant(i) /\ made' = made \cup {b} /\ Update(i, v) /\ NothingRead
      /\ UNCHANGED <<part, part_refs, pc, local, released>>
  BY DEF az_ulib_ustream_init
<1>2. b \in Blocks /\ b \notin Multis /\ n \in 1..UINT32_MAX /\ UINT32_MAX \in Nat
  BY BlocksAssumption, PositionAssumption DEF Blocks
<1>3. /\ v.control_block = b /\ v.offset_diff = 0 /\ v.inner_current_position = 0
      /\ v.inner_first_valid_position = 0 /\ v.length = n /\ v \in Fields
  BY <1>2 DEF Instance, Fields, InstancesOf, Positions
<1>4. Wrap(0) = 0
  BY <1>2, WrapValue
<1>5. First(v) = 0 /\ get_position(v) = 0
  BY <1>3, <1>4 DEF First, get_position
<1>6. Fits(v) /\ InBuffer(v)
  BY <1>2, <1>3, <1>5 DEF Fits, InBuffer
<1>7. /\ stream'[i] = v /\ pc'[i] = "idle"
      /\ \A k \in Instances \ {i} : stream'[k] = stream[k]
  BY <1>1, VacantIsClosed DEF CountInv, Shapes, Update
<1>8. \A k \in Instances \ {i} : InstanceSound(k)' /\ View(k)' = View(k)
  BY <1>1, <1>7, OthersStay
<1>9. InstanceSound(i)' /\ View(i)' = Shown(v)
  BY <1>1, <1>2, <1>3, <1>6, <1>7, IdleSound
<1>10. StreamInv'
  <2>1. Multis \cap made' = Multis \cap made /\ Multis \ made' = Multis \ made
    BY <1>1, <1>2
  <2> QED BY <1>1, <1>8, <1>9, <2>1, PartsStay DEF StreamInv
<1>11. Shown(v) = [bytes |-> Content[b], first |-> 0, at |-> 0]
  <2>1. Window(v, 0, n) = Content[b]
    <3>1. n - 0 = n
      BY <1>2
    <3>2. \A k \in 1..n : ByteAt(v, 0 + k - 1) = Content[b][k]
      <4> SUFFICES ASSUME NEW k \in 1..n PROVE ByteAt(v, 0 + k - 1) = Content[b][k]
        OBVIOUS
      <4>1. (0 + k - 1) + 1 = k
        BY <1>2
      <4> QED BY <1>3, <4>1 DEF ByteAt
    <3>3. Content[b] = [k \in 1..n |-> Content[b][k]]
      <4>1. PICK S, s : S = {Content[b][k] : k \in DOMAIN Content[b]} /\ s = Content[b]
        OBVIOUS
      <4>2. s \in Seq(S)
        BY <4>1, BlocksAssumption
      <4>3. s \in [1..Len(s) -> S]
        BY <4>2, LenProperties
      <4> QED BY <4>1, <4>3
    <3> QED BY <3>1, <3>2, <3>3 DEF Window
  <2> QED BY <1>3, <1>5, <2>1 DEF Shown
<1>12. Abstract!Change(i, [bytes |-> Content[b], first |-> 0, at |-> 0])
  BY <1>1, <1>8, <1>9, <1>11, ChangeIs
<1>13. Abstract!Create(i)
  BY <1>1, <1>12, VacantIsClosed DEF Abstract!Create
<1> QED BY <1>10, <1>13 DEF Abstract!Next

LEMMA CloneShows ==
  ASSUME StreamInv, CountInv, NEW i \in Instances, NEW j \in Instances, NEW p \in Offsets,
         Clone(j, i, p)
  PROVE  StreamInv' /\ Abstract!Next
<1> PICK u : u = stream[i]
  OBVIOUS
<1> PICK v : v = clone(u, p)
  OBVIOUS
<1>1. /\ Open(i) /\ Vacant(j) /\ Clonable(u, p) /\ Update(j, v) /\ NothingRead
      /\ UNCHANGED <<made, part, pc, local, released>> /\ p \in Positions
  BY BlocksAssumption DEF Clone
<1>2. /\ Fits(u) /\ u.control_block \in Blocks /\ u.control_block = BlockOf(i)
      /\ u.inner_first_valid_position \in 0..UINT32_MAX
      /\ u.inner_current_position \in 0..UINT32_MAX /\ u.length \in 0..UINT32_MAX
      /\ u.inner_first_valid_position <= u.inner_current_position
      /\ u.inner_current_position <= u.length
      /\ First(u) \in 0..UINT32_MAX /\ Abstract!IsOpen(i)
      /\ View(i).at = First(u) + u.inner_current_position - u.inner_first_valid_position
      /\ Abstract!End(i) = First(u) + u.length - u.inner_first_valid_position
  BY <1>1, OpenView
<1>3. /\ Fits(v) /\ First(v) = p /\ v.control_block = u.control_block /\ v.length = u.length
      /\ v.inner_first_valid_position = u.inner_current_position
      /\ v.inner_current_position = u.inner_current_position
  BY <1>1, <1>2, CloneFits
<1>4. /\ stream'[j] = v /\ pc'[j] = "idle"
      /\ \A k \in Instances \ {j} : stream'[k] = stream[k]
  BY <1>1, VacantIsClosed DEF CountInv, Shapes, Update
<1>5. \A k \in Instances \ {j} : InstanceSound(k)' /\ View(k)' = View(k)
  BY <1>1, <1>4, OthersStay
<1>6. v.control_block \in Buffers => InBuffer(v)
  BY <1>2, <1>3 DEF StreamInv, InstanceSound, InBuffer
<1>7. v.control_block \in Multis =>
        PartsAlike(v.control_block) /\ SpansParts(v, v.control_block)
  <2> SUFFICES ASSUME v.control_block \in Multis
               PROVE  PartsAlike(v.control_block) /\ SpansParts(v, v.control_block)
    OBVIOUS
  <2> PICK m : m = v.control_block
    OBVIOUS
  <2>1. SpansParts(u, m) /\ m \in made
    BY <1>2, <1>3 DEF StreamInv, InstanceSound, SpansParts
  <2>2. part[m].one.inner_first_valid_position \in Int
    <3>1. Fits(part[m].one)
      BY <2>1 DEF StreamInv, PartsJoin, Sides
    <3> QED BY <3>1, FieldTypes DEF Fits, Positions
  <2>3. SpansParts(v, m)
    <3>1. /\ m \in made /\ u.length = part[m].one.length + part[m].two.length
                                           - part[m].two.inner_first_valid_position
          /\ u.inner_first_valid_position >= part[m].one.inner_first_valid_position
      BY <2>1 DEF SpansParts
    <3>2. u.inner_current_position \in Int /\ u.inner_first_valid_position \in Int
      BY <1>2
    <3>3. u.inner_current_position >= part[m].one.inner_first_valid_position
      <4>1. u.inner_first_valid_position <= u.inner_current_position
        BY <1>2
      <4> QED BY <2>2, <3>1, <3>2, <4>1
    <3>4. v.inner_first_valid_position = u.inner_current_position /\ v.length = u.length
      BY <1>3
    <3> QED BY <3>1, <3>3, <3>4 DEF SpansParts
  <2> QED BY <1>1, <2>1, <2>3, PartsStay
<1>8. InstanceSound(j)' /\ View(j)' = Shown(v)
  BY <1>1, <1>2, <1>3, <1>4, <1>6, <1>7, IdleSound
<1>9. StreamInv'
  BY <1>1, <1>5, <1>8, PartsStay DEF StreamInv
<1>10. Shown(v) = Abstract!Rest(i, p)
  <2>1. Abstract!Slice(i, View(i).at, Abstract!End(i)) = Window(u, u.inner_current_position, u.length)
    <3>1. /\ u.inner_current_position \in u.inner_first_valid_position .. u.length
          /\ u.length \in u.inner_current_position .. u.length
      BY <1>2
    <3>2. InUse(i)
      BY <1>1 DEF Open, InUse, BlockOf
    <3> QED BY <1>2, <3>1, <3>2, SliceIs
  <2>2. get_position(v) = p
    <3>1. get_position(v) = First(v) + v.inner_current_position - v.inner_first_valid_position
      BY <1>3, PositionOf
    <3> QED BY <1>1, <1>2, <1>3, <3>1 DEF Positions
  <2>3. Window(v, u.inner_current_position, u.length) = Window(u, u.inner_current_position, u.length)
    BY <1>3, SameWindow
  <2> QED BY <1>3, <2>1, <2>2, <2>3 DEF Shown, Abstract!Rest
<1>11. Abstract!Change(j, Abstract!Rest(i, p))
  BY <1>1, <1>5, <1>8, <1>10, ChangeIs
<1>12. Abstract!Copy(i, j)
  BY <1>1, <1>2, <1>11, VacantIsClosed DEF Abstract!Copy
<1> QED BY <1>9, <1>12 DEF Abstract!Next

LEMMA SplitShows ==
  ASSUME AnyCaller = FALSE, StreamInv, CountInv, NEW i \in Instances, NEW j \in Instances,
         NEW p \in Targets, Split(i, j, p)
  PROVE  StreamInv' /\ Abstract!Next
<1> PICK u : u = stream[i]
  OBVIOUS
<1>x. PICK x : x = Inner(u, p)
  OBVIOUS
<1>m. PICK moved : moved = set_position(u, p)
  OBVIOUS
<1>h. PICK head, tail : head = [u EXCEPT !.length = x] /\ tail = clone(moved, p)
  OBVIOUS
<1>1. /\ Open(i) /\ Vacant(j) /\ Reaches(u, p) /\ Clonable(u, p) /\ p \in Positions
      /\ p # Wrap(get_position(u) + get_remaining_size(u))
      /\ u.offset_diff = u.inner_first_valid_position /\ x > u.inner_current_position
      /\ ~IsMulti(i) /\ NothingRead /\ UNCHANGED <<made, part, pc, local, released>>
      /\ x = Wrap(p - u.inner_first_valid_position)
  BY BlocksAssumption, <1>x DEF Split, SplitIsSound, Inner
<1>2. stream' = [stream EXCEPT ![i] = head, ![j] = tail]
  BY <1>1, <1>h, <1>m DEF Split
<1>3. /\ Fits(u) /\ u \in Fields /\ u.control_block \in Blocks /\ u.control_block = BlockOf(i)
      /\ u.inner_first_valid_position \in 0..UINT32_MAX
      /\ u.inner_current_position \in 0..UINT32_MAX /\ u.length \in 0..UINT32_MAX
      /\ u.inner_first_valid_position <= u.inner_current_position
      /\ u.inner_current_position <= u.length
      /\ First(u) \in 0..UINT32_MAX /\ View(i) = Shown(u) /\ Abstract!IsOpen(i)
      /\ View(i).first = First(u)
      /\ View(i).at = First(u) + u.inner_current_position - u.inner_first_valid_position
      /\ Abstract!End(i) = First(u) + u.length - u.inner_first_valid_position
      /\ First(u) + u.length - u.inner_first_valid_position <= UINT32_MAX
  BY <1>1, OpenView DEF Fits
<1>4. /\ x \in u.inner_current_position + 1 .. u.length - 1 /\ x \in Positions
      /\ p = First(u) + x - u.inner_first_valid_position
  <2>1. /\ x = u.inner_first_valid_position + p - First(u) /\ x \in Positions
        /\ p \in First(u) .. First(u) + u.length - u.inner_first_valid_position
    BY <1>1, <1>3, <1>x, InnerOf
  <2>2. Wrap(get_position(u) + get_remaining_size(u))
          = First(u) + u.length - u.inner_first_valid_position
    <3>1. get_position(u) + get_remaining_size(u) = First(u) + u.length - u.inner_first_valid_position
      <4>1. /\ get_position(u) = First(u) + u.inner_current_position - u.inner_first_valid_position
            /\ get_remaining_size(u) = u.length - u.inner_current_position
        BY <1>3, PositionOf
      <4> QED BY <1>3, <4>1
    <3> QED BY <1>3, <3>1, WrapValue, PositionAssumption
  <2> QED BY <1>1, <1>3, <2>1, <2>2
<1>5. /\ head.control_block = u.control_block /\ head.length = x
      /\ head.offset_diff = u.offset_diff
      /\ head.inner_first_valid_position = u.inner_first_valid_position
      /\ head.inner_current_position = u.inner_current_position /\ head \in Fields
  BY <1>3, <1>4, <1>h DEF Fields, InstancesOf
<1>6. Fits(head) /\ First(head) = First(u) /\ get_position(head) = get_position(u)
  <2>1. First(head) = First(u) /\ get_position(head) = get_position(u)
    BY <1>5 DEF First, get_position
  <2>2. First(head) + x - u.inner_first_valid_position <= UINT32_MAX
    BY <1>3, <1>4, <2>1, PositionAssumption
  <2>3. /\ u.inner_first_valid_position <= u.inner_current_position
        /\ u.inner_current_position <= x
    BY <1>3, <1>4
  <2> QED BY <1>5, <2>1, <2>2, <2>3 DEF Fits
<1>7. /\ Fits(moved) /\ moved.control_block = u.control_block /\ moved.length = u.length
      /\ moved.inner_current_position = x
  <2>1. Fits(moved) /\ moved = [u EXCEPT !.inner_current_position = x]
    BY <1>1, <1>3, <1>m, <1>x, MovesFit DEF set_position
  <2> QED BY <1>3, <2>1, ShownMoves
<1>8. /\ Fits(tail) /\ First(tail) = p /\ tail.control_block = u.control_block
      /\ tail.length = u.length /\ tail.inner_first_valid_position = x
      /\ tail.inner_current_position = x
  <2>1. Clonable(moved, p)
    BY <1>1, <1>7 DEF Clonable
  <2> QED BY <1>1, <1>7, <1>h, <2>1, CloneFits
<1>9. InBuffer(u) /\ u.control_block \notin Multis
  BY <1>1, <1>3 DEF IsMulti, StreamInv, InstanceSound, Blocks, BlockOf
<1>10. InBuffer(head) /\ InBuffer(tail)
  <2>1. Len(Content[u.control_block]) \in Nat
    BY <1>9, BlocksAssumption, PositionAssumption DEF InBuffer
  <2> QED BY <1>3, <1>4, <1>5, <1>8, <1>9, <2>1 DEF InBuffer
<1>11. /\ i # j /\ stream'[i] = head /\ pc'[i] = "idle" /\ stream'[j] = tail /\ pc'[j] = "idle"
       /\ \A k \in Instances \ {i, j} : stream'[k] = stream[k]
  <2>1. i # j /\ pc[i] = "idle" /\ pc[j] = "idle"
    BY <1>1, <1>3, VacantIsClosed DEF Open, BlockOf
  <2> QED BY <1>1, <1>2, <2>1 DEF CountInv, Shapes
<1>12. \A k \in Instances \ {i, j} : InstanceSound(k)' /\ View(k)' = View(k)
  BY <1>1, <1>11, OthersStay
<1>13. /\ InstanceSound(i)' /\ View(i)' = Shown(head)
       /\ InstanceSound(j)' /\ View(j)' = Shown(tail)
  BY <1>1, <1>3, <1>5, <1>6, <1>8, <1>9, <1>10, <1>11, IdleSound
<1>14. StreamInv'
  BY <1>1, <1>12, <1>13, PartsStay DEF StreamInv
<1>v. PICK X, Y : X = Abstract!Slice(i, View(i).first, p) /\ Y = Abstract!Slice(i, p, Abstract!End(i))
  OBVIOUS
<1>15. /\ X = Window(u, u.inner_first_valid_position, x)
       /\ Y = Window(u, x, u.length)
  <2>1. InUse(i)
    BY <1>1 DEF Open, InUse, BlockOf
  <2>2. /\ u.inner_first_valid_position \in u.inner_first_valid_position .. u.length
        /\ x \in u.inner_first_valid_position .. u.length /\ u.length \in x .. u.length
        /\ View(i).first = First(u) + u.inner_first_valid_position - u.inner_first_valid_position
    BY <1>3, <1>4
  <2>3. X = Window(u, u.inner_first_valid_position, x)
    BY <1>4, <1>v, <2>1, <2>2, SliceIs
  <2>4. Y = Window(u, x, u.length)
    <3>1. PICK e : e = Abstract!End(i)
      OBVIOUS
    <3>2. e = First(u) + u.length - u.inner_first_valid_position
      BY <1>3, <3>1
    <3>3. Abstract!Slice(i, p, e) = Window(u, x, u.length)
      BY <1>4, <2>1, <2>2, <3>2, SliceIs
    <3> QED BY <1>v, <3>1, <3>3
  <2> QED BY <2>3, <2>4
<1>16. Shown(head) = [View(i) EXCEPT !.bytes = X]
  <2>1. Window(head, u.inner_first_valid_position, x) = X
    BY <1>5, <1>15, SameWindow
  <2>2. Shown(head) = [bytes |-> X, first |-> First(u), at |-> get_position(u)]
    BY <1>5, <1>6, <2>1 DEF Shown
  <2> QED BY <1>3, <2>2 DEF Shown
<1>17. Shown(tail) = [bytes |-> Y, first |-> p, at |-> p]
  <2>1. Window(tail, x, u.length) = Y
    BY <1>8, <1>15, SameWindow
  <2>2. get_position(tail) = p
    <3>1. get_position(tail) = First(tail) + x - x
      BY <1>8, PositionOf
    <3>2. p \in Int /\ x \in Int
      BY <1>1, <1>4, PositionAssumption DEF Positions
    <3> QED BY <1>8, <3>1, <3>2
  <2> QED BY <1>8, <2>1, <2>2 DEF Shown
<1>18. Abstract!Divide(i, j)
  <2>1. p \in View(i).at + 1 .. Abstract!End(i) - 1
    BY <1>1, <1>3, <1>4 DEF Positions
  <2>2. [k \in Instances |-> View(k)]' =
          [[k \in Instances |-> View(k)] EXCEPT
             ![i].bytes = X, ![j] = [bytes |-> Y, first |-> p, at |-> p]]
    BY <1>11, <1>12, <1>13, <1>16, <1>17
  <2> QED BY <1>1, <1>3, <1>v, <2>1, <2>2, VacantIsClosed DEF Abstract!Divide, NothingRead
<1> QED BY <1>14, <1>18 DEF Abstract!Next

\* The first step of az_ulib_ustream_dispose: the caller has no stream any more.
LEMMA DisposeShows ==
  ASSUME StreamInv, CountInv, NEW i \in Instances, DisposeBuffer(i) \/ DisposeMulti(i)
  PROVE  StreamInv' /\ Abstract!Next
<1>1. /\ Open(i) /\ NothingRead /\ UNCHANGED <<made, part, stream, local>>
      /\ pc'[i] \in Disposing /\ \A k \in Instances \ {i} : pc'[k] = pc[k]
  BY DEF DisposeBuffer, DisposeMulti, MayDispose, CountInv, Shapes, Goto, Disposing
<1>2. \A k \in Instances \ {i} : InstanceSound(k)' /\ View(k)' = View(k)
  BY <1>1, OthersStay
<1>3. View(i)' = NoInstance
  BY <1>1 DEF View
<1>4. InstanceSound(i)'
  <2> PICK u : u = stream[i] /\ u = stream'[i]
    BY <1>1
  <2>1. /\ Fits(u)
        /\ u.control_block \in Buffers => InBuffer(u)
        /\ u.control_block \in Multis => SpansParts(u, u.control_block)
        /\ u.control_block # NoBlock
    BY <1>1 DEF StreamInv, InstanceSound, BlockOf, Open
  <2>2. /\ Fits(u)'
        /\ u.control_block \in Buffers => InBuffer(u)'
        /\ u.control_block \in Multis => SpansParts(u, u.control_block)'
    BY <1>1, <2>1 DEF Fits, First, Wrap, Fields, InstancesOf, Blocks, Positions, InBuffer, SpansParts
  <2> QED BY <1>1, <2>1, <2>2 DEF InstanceSound, BlockOf, Disposing
<1>5. StreamInv'
  BY <1>1, <1>2, <1>4, PartsStay DEF StreamInv
<1>6. Abstract!Dispose(i)
  BY <1>1, <1>2, <1>3, OpenView, ChangeIs DEF Abstract!Dispose
<1> QED BY <1>5, <1>6 DEF Abstract!Next

\* The other steps of it show nothing.
LEMMA DisposeStepShows ==
  ASSUME StreamInv, CountInv, NEW i \in Instances, DisposeStep(i)
  PROVE  StreamInv' /\ Abstract!Next
<1>1. /\ NothingRead /\ UNCHANGED <<made, part, local>> /\ pc[i] \in Disposing
      /\ \A k \in Instances \ {i} : pc'[k] = pc[k] /\ stream'[k] = stream[k]
      /\ \/ pc'[i] \in Disposing /\ stream'[i] = stream[i]
         \/ pc'[i] = "idle" /\ stream'[i] = NoInstance
  BY DEF DisposeStep, DropTwo, CheckPart, RecheckPart, Drop, Recheck, CountInv, Shapes, Goto, Update,
     Disposing
<1>2. \A k \in Instances \ {i} : InstanceSound(k)' /\ View(k)' = View(k)
  BY <1>1, OthersStay
<1>3. View(i) = NoInstance
  BY <1>1, ViewIsShown
<1>4. CASE pc'[i] \in Disposing /\ stream'[i] = stream[i]
  <2> PICK u : u = stream[i] /\ u = stream'[i]
    BY <1>4
  <2>1. View(i)' = NoInstance
    BY <1>4 DEF View
  <2>2. /\ Fits(u)
        /\ u.control_block \in Buffers => InBuffer(u)
        /\ u.control_block \in Multis => SpansParts(u, u.control_block)
        /\ u.control_block = NoBlock => u = NoInstance
    BY DEF StreamInv, InstanceSound, BlockOf
  <2>3. /\ Fits(u)'
        /\ u.control_block \in Buffers => InBuffer(u)'
        /\ u.control_block \in Multis => SpansParts(u, u.control_block)'
    BY <1>1, <2>2 DEF Fits, First, Wrap, Fields, InstancesOf, Blocks, Positions, InBuffer, SpansParts
  <2>4. InstanceSound(i)'
    BY <1>4, <2>2, <2>3 DEF InstanceSound, BlockOf, Disposing
  <2>5. StreamInv'
    BY <1>1, <1>2, <2>4, PartsStay DEF StreamInv
  <2> QED BY <1>1, <1>2, <1>3, <2>1, <2>5, RefuseIs
<1>5. CASE pc'[i] = "idle" /\ stream'[i] = NoInstance
  <2>1. View(i)' = NoInstance
    BY <1>5, NoInstanceType DEF View, BlockOf
  <2>2. InstanceSound(i)'
    BY <1>5, ClosedIsSound
  <2>3. StreamInv'
    BY <1>1, <1>2, <2>2, PartsStay DEF StreamInv
  <2> QED BY <1>1, <1>2, <1>3, <2>1, <2>3, RefuseIs
<1> QED BY <1>1, <1>4, <1>5

-----------------------------------------------------------------------------
(***************************************************************************)
(* az_ulib_ustream_concat.                                                 *)
(***************************************************************************)

\* What the bytes of a new concatenation are: v spans u and, from position p of two
\* on, what is there of two.
LEMMA ConcatBytes ==
  ASSUME NEW m \in Multis, NEW u, Fits(u), InBuffer(u), u.offset_diff = 0,
         NEW two, Fits(two), First(two) = u.length,
         two.inner_first_valid_position = two.inner_current_position,
         part'[m].one = u, part'[m].two = two,
         NEW v, v.control_block = m, NEW k \in u.inner_first_valid_position ..
           (u.length + two.length - two.inner_first_valid_position) - 1
  PROVE  ByteAt(v, k)' =
           IF k < u.length THEN Content[u.control_block][k + 1]
           ELSE Content[two.control_block][two.inner_current_position + k - u.length + 1]
<1>1. /\ u.inner_first_valid_position \in 0..UINT32_MAX /\ u.length \in 0..UINT32_MAX
      /\ two.inner_first_valid_position \in 0..UINT32_MAX /\ two.length \in 0..UINT32_MAX
      /\ UINT32_MAX \in Nat /\ two.inner_first_valid_position <= two.length
      /\ First(two) + two.length - two.inner_first_valid_position <= UINT32_MAX
  BY FieldTypes, PositionAssumption DEF Fits, Positions
<1>2. k \in 0..UINT32_MAX /\ m \notin Buffers
  BY <1>1, BlocksAssumption
<1>3. ByteAt(v, k)' = IF k < u.length THEN Content[u.control_block][Inner(u, k) + 1]
                      ELSE Content[two.control_block][Inner(two, k) + 1]
  BY <1>2 DEF ByteAt, Inner, Wrap
<1>4. CASE k < u.length
  <2>1. Inner(u, k) = k
    BY <1>1, <1>2, WrapValue DEF Inner
  <2> QED BY <1>3, <1>4, <2>1
<1>5. CASE ~(k < u.length)
  <2>1. k \in First(two) .. First(two) + two.length - two.inner_first_valid_position /\ k \in Positions
    BY <1>1, <1>2, <1>5 DEF Positions
  <2>2. Inner(two, k) = two.inner_first_valid_position + k - First(two)
    BY <2>1, InnerOf
  <2> QED BY <1>3, <1>5, <2>2
<1> QED BY <1>4, <1>5

\* Inner positions f to a of one buffer, and at to b of another, are joined in 0 to L.
Joins(f, a, at, b, L) ==
  /\ f \in Nat /\ a \in Nat /\ at \in Nat /\ b \in Nat /\ L \in Nat
  /\ f <= a /\ at <= b /\ L = a + b - at

LEMMA JoinArithmetic ==
  ASSUME NEW f, NEW a, NEW at, NEW b, NEW L, Joins(f, a, at, b, L)
  PROVE  /\ L - f \in Nat /\ L - f = (a - f) + (b - at)
         /\ \A k \in 1..(a - f) : k \in 1..(L - f) /\ f + k - 1 \in f .. L - 1 /\ f + k - 1 < a
         /\ \A k \in 1..(b - at) :
              /\ (a - f) + k \in 1..(L - f) /\ f + ((a - f) + k) - 1 \in f .. L - 1
              /\ ~(f + ((a - f) + k) - 1 < a)
              /\ at + (f + ((a - f) + k) - 1) - a + 1 = (at + k - 1) + 1
         /\ \A k \in 1..(L - f) : ~(k <= a - f) =>
              k - (a - f) \in 1..(b - at) /\ k = (a - f) + (k - (a - f))
BY DEF Joins

LEMMA ConcatShows ==
  ASSUME AnyCaller = FALSE, StreamInv, CountInv, NEW i \in Instances, NEW j \in Instances,
         NEW m \in Multis, Concat(i, j, m)
  PROVE  StreamInv' /\ Abstract!Next
<1> PICK u : u = stream[i]
  OBVIOUS
<1> PICK w : w = stream[j]
  OBVIOUS
<1>t. PICK two : two = clone(w, u.length)
  OBVIOUS
<1>v. PICK v : v = [u EXCEPT !.control_block = m, !.length = Wrap(@ + get_remaining_size(two))]
  OBVIOUS
<1>1. /\ i # j /\ Open(i) /\ Open(j) /\ ~IsMulti(i) /\ ~IsMulti(j) /\ m \notin made
      /\ u.offset_diff = 0 /\ Clonable(w, u.length) /\ made' = made \cup {m}
      /\ part' = [part EXCEPT ![m] = [one |-> u, two |-> two]] /\ Update(i, v) /\ NothingRead
      /\ UNCHANGED <<pc, local, released>>
  BY <1>t, <1>v DEF Concat, ConcatIsSound
<1>2. /\ Fits(u) /\ u \in Fields /\ u.control_block \in Blocks /\ u.control_block = BlockOf(i)
      /\ u.inner_first_valid_position \in 0..UINT32_MAX
      /\ u.inner_current_position \in 0..UINT32_MAX /\ u.length \in 0..UINT32_MAX
      /\ u.inner_first_valid_position <= u.inner_current_position
      /\ u.inner_current_position <= u.length
      /\ Readable(u) /\ View(i) = Shown(u) /\ Abstract!IsOpen(i)
  BY <1>1, OpenView DEF Fits
<1>3. /\ Fits(w) /\ w.control_block \in Blocks /\ w.control_block = BlockOf(j)
      /\ w.inner_first_valid_position \in 0..UINT32_MAX
      /\ w.inner_current_position \in 0..UINT32_MAX /\ w.length \in 0..UINT32_MAX
      /\ w.inner_first_valid_position <= w.inner_current_position
      /\ w.inner_current_position <= w.length
      /\ Readable(w) /\ Abstract!IsOpen(j) /\ First(w) \in 0..UINT32_MAX
      /\ View(j).at = First(w) + w.inner_current_position - w.inner_first_valid_position
      /\ Abstract!End(j) = First(w) + w.length - w.inner_first_valid_position
  BY <1>1, OpenView
<1>4. InBuffer(u) /\ InBuffer(w)
  BY <1>1, <1>2, <1>3 DEF IsMulti, StreamInv, InstanceSound, Blocks, BlockOf
<1>5. /\ Fits(two) /\ First(two) = u.length /\ two.control_block = w.control_block
      /\ two.length = w.length /\ two.inner_first_valid_position = w.inner_current_position
      /\ two.inner_current_position = w.inner_current_position /\ InBuffer(two)
  <2>1. u.length \in Positions
    BY <1>2 DEF Positions
  <2>2. /\ Fits(two) /\ First(two) = u.length /\ two.control_block = w.control_block
        /\ two.length = w.length /\ two.inner_first_valid_position = w.inner_current_position
        /\ two.inner_current_position = w.inner_current_position
    BY <1>1, <1>3, <1>t, <2>1, CloneFits
  <2> QED BY <1>4, <2>2 DEF InBuffer
<1>l. PICK L : L = u.length + w.length - w.inner_current_position
  OBVIOUS
<1>6. /\ L \in 0..UINT32_MAX /\ u.length <= L /\ UINT32_MAX \in Nat
      /\ L = u.length + two.length - two.inner_first_valid_position
      /\ Wrap(u.length + get_remaining_size(two)) = L
  <2>1. u.length + w.length <= UINT32_MAX /\ UINT32_MAX \in Nat
    BY <1>1, <1>2, <1>3, PositionAssumption DEF Clonable
  <2>2. L \in 0..UINT32_MAX /\ u.length <= L
    BY <1>2, <1>3, <1>l, <2>1
  <2>3. get_remaining_size(two) = w.length - w.inner_current_position
    BY <1>5, PositionOf
  <2>4. u.length + get_remaining_size(two) = L
    BY <1>2, <1>3, <1>l, <2>3
  <2>5. Wrap(L) = L
    BY <2>1, <2>2, WrapValue
  <2> QED BY <1>2, <1>3, <1>5, <1>l, <2>1, <2>2, <2>4, <2>5
<1>7. /\ v.control_block = m /\ v.length = L /\ v.offset_diff = 0
      /\ v.inner_first_valid_position = u.inner_first_valid_position
      /\ v.inner_current_position = u.inner_current_position /\ v \in Fields
  <2>1. m \in Blocks /\ L \in Positions
    BY <1>6 DEF Blocks, Positions
  <2>2. PICK x : x = [u EXCEPT !.control_block = m]
    OBVIOUS
  <2>3. /\ x.control_block = m /\ x.length = u.length /\ x.offset_diff = 0
        /\ x.inner_first_valid_position = u.inner_first_valid_position
        /\ x.inner_current_position = u.inner_current_position /\ x \in Fields
    BY <1>1, <1>2, <2>1, <2>2 DEF Fields, InstancesOf
  <2>4. v = [x EXCEPT !.length = L]
    BY <1>2, <1>6, <1>v, <2>2, <2>3 DEF Fields, InstancesOf
  <2> QED BY <2>1, <2>3, <2>4 DEF Fields, InstancesOf
<1>8. First(u) = u.inner_first_valid_position /\ First(v) = First(u) /\ get_position(v) = get_position(u)
  BY <1>1, <1>2, <1>6, <1>7, WrapValue DEF First, get_position
<1>9. Fits(v)
  <2>1. First(v) + v.length - v.inner_first_valid_position <= UINT32_MAX
    BY <1>2, <1>6, <1>7, <1>8
  <2>2. v.inner_current_position <= v.length
    BY <1>2, <1>6, <1>7
  <2> QED BY <1>2, <1>7, <2>1, <2>2 DEF Fits
<1>10. /\ stream'[i] = v /\ pc'[i] = "idle" /\ part'[m].one = u /\ part'[m].two = two
       /\ part'[m]["one"] = u /\ part'[m]["two"] = two
       /\ \A k \in Instances \ {i} : stream'[k] = stream[k]
       /\ \A x \in Multis \ {m} : part'[x] = part[x]
  BY <1>1 DEF CountInv, Shapes, Update, Open
<1>11. \A x \in Multis \cap made : PartsAlike(x) /\ PartsJoin(x)'
  BY <1>1, <1>10, UntouchedAlike, JoinStays DEF StreamInv
<1>12. \A k \in Instances \ {i} : InstanceSound(k)' /\ View(k)' = View(k)
  <2> SUFFICES ASSUME NEW k \in Instances \ {i} PROVE InstanceSound(k)' /\ View(k)' = View(k)
    OBVIOUS
  <2>1. BlockOf(k) \in Multis => PartsAlike(BlockOf(k))
    BY <1>11 DEF StreamInv, InstanceSound, SpansParts
  <2>2. pc[k] = "reading" => BlockOf(k) \in Multis
    BY DEF CountInv, CallsAreOnBlocks, Shapes, Disposing
  <2> QED BY <1>1, <1>10, <2>1, <2>2, InstanceStays
<1>13. InstanceSound(i)'
  <2>1. Fits(v)'
    BY <1>9 DEF Fits, First, Wrap, Fields, InstancesOf, Blocks, Positions
  <2>2. SpansParts(v, m)'
    <3>1. v.length = part'[m].one.length + part'[m].two.length - part'[m].two.inner_first_valid_position
      BY <1>6, <1>7, <1>10
    <3>2. v.inner_first_valid_position >= part'[m].one.inner_first_valid_position
      BY <1>2, <1>7, <1>10
    <3> QED BY <1>1, <3>1, <3>2 DEF SpansParts
  <2> QED BY <1>7, <1>10, <2>1, <2>2, BlocksAssumption DEF InstanceSound, BlockOf, Blocks
<1>14. PartsJoin(m)'
  <2>1. Fits(u)' /\ InBuffer(u)' /\ Fits(two)' /\ InBuffer(two)'
    BY <1>2, <1>4, <1>5 DEF Fits, First, Wrap, Fields, InstancesOf, Blocks, Positions, InBuffer
  <2>2. First(two)' = u.length
    BY <1>5 DEF First, Wrap
  <2>3. \A s \in Sides : part'[m][s] = u \/ part'[m][s] = two
    BY <1>10 DEF Sides
  <2>4. \A s \in Sides : Fits(part[m][s])' /\ InBuffer(part[m][s])'
    BY <2>1, <2>3 DEF Fits, First, Wrap, Fields, InstancesOf, Blocks, Positions, InBuffer
  <2>5. First(part[m].two)' = part'[m].one.length
    BY <1>10, <2>2 DEF First, Wrap
  <2> QED BY <1>1, <1>10, <2>4, <2>5 DEF PartsJoin
<1>15. StreamInv'
  <2>1. Multis \cap made' = (Multis \cap made) \cup {m} /\ Multis \ made' = (Multis \ made) \ {m}
    BY <1>1
  <2>2. \A x \in Multis \ made', s \in Sides : part'[x][s] = NoInstance
    BY <1>10, <2>1 DEF StreamInv
  <2>3. \A x \in Multis \cap made' : PartsJoin(x)'
    BY <1>11, <1>14, <2>1
  <2> QED BY <1>12, <1>13, <2>2, <2>3 DEF StreamInv
<1>f. PICK f, at : f = u.inner_first_valid_position /\ at = w.inner_current_position
  OBVIOUS
<1>s. PICK s, t, r : s = Window(u, f, u.length) /\ t = Window(w, at, w.length) /\ r = Window(v, f, L)'
  OBVIOUS
<1>16. /\ f \in Nat /\ at \in Nat /\ u.length \in Nat /\ w.length \in Nat /\ L \in Nat
       /\ f <= u.length /\ at <= w.length /\ L = u.length + w.length - at
  BY <1>2, <1>3, <1>6, <1>f, <1>l
<1>j. Joins(f, u.length, at, w.length, L)
  BY <1>16 DEF Joins
<1>17. /\ s \in Seq(Byte) /\ Len(s) = u.length - f
       /\ \A k \in 1..(u.length - f) : s[k] = ByteAt(u, f + k - 1)
       /\ t \in Seq(Byte) /\ Len(t) = w.length - at
       /\ \A k \in 1..(w.length - at) : t[k] = ByteAt(w, at + k - 1)
  <2> HIDE DEF Byte
  <2>1. /\ s \in Seq(Byte) /\ Len(s) = u.length - f
        /\ \A k \in 1..(u.length - f) : s[k] = ByteAt(u, f + k - 1)
    <3>1. f \in Int /\ u.length \in Int /\ f <= u.length /\ Readable(u)
      BY <1>2, <1>16
    <3>2. /\ Window(u, f, u.length) \in Seq(Byte) /\ Len(Window(u, f, u.length)) = u.length - f
          /\ \A k \in 1..(u.length - f) : Window(u, f, u.length)[k] = ByteAt(u, f + k - 1)
      BY <3>1, WindowType, ZenonT(60)
    <3> QED BY <1>s, <3>2
  <2>2. /\ t \in Seq(Byte) /\ Len(t) = w.length - at
        /\ \A k \in 1..(w.length - at) : t[k] = ByteAt(w, at + k - 1)
    <3>1. at \in Int /\ w.length \in Int /\ at <= w.length /\ Readable(w)
      BY <1>3, <1>16
    <3>2. /\ Window(w, at, w.length) \in Seq(Byte) /\ Len(Window(w, at, w.length)) = w.length - at
          /\ \A k \in 1..(w.length - at) : Window(w, at, w.length)[k] = ByteAt(w, at + k - 1)
      BY <3>1, WindowType, ZenonT(60)
    <3> QED BY <1>s, <3>2
  <2> QED BY <2>1, <2>2
<1>18. r = [k \in 1..(L - f) |-> ByteAt(v, f + k - 1)']
  BY <1>s DEF Window
<1>19. \A k \in f .. L - 1 :
         ByteAt(v, k)' = IF k < u.length THEN Content[u.control_block][k + 1]
                         ELSE Content[w.control_block][at + k - u.length + 1]
  <2>1. L = u.length + two.length - two.inner_first_valid_position
    BY <1>6
  <2> QED BY <1>1, <1>2, <1>4, <1>5, <1>7, <1>10, <1>f, <2>1, ConcatBytes
<1>20. \A k \in 1..Len(s) : r[k] = s[k]
  <2> SUFFICES ASSUME NEW k \in 1..Len(s) PROVE r[k] = s[k]
    OBVIOUS
  <2>x. PICK q : q = f + k - 1
    OBVIOUS
  <2>1. k \in 1..(u.length - f) /\ k \in 1..(L - f) /\ q \in f .. L - 1 /\ q < u.length
    <3>1. k \in 1..(u.length - f)
      BY <1>17
    <3> QED BY <1>j, <2>x, <3>1, JoinArithmetic
  <2>2. s[k] = ByteAt(u, q)
    BY <1>17, <2>1, <2>x
  <2>3. r[k] = ByteAt(v, q)'
    BY <1>18, <2>1, <2>x
  <2>4. ByteAt(u, q) = Content[u.control_block][q + 1]
    BY <1>4 DEF ByteAt, InBuffer
  <2> QED BY <1>19, <2>1, <2>2, <2>3, <2>4
<1>21. \A k \in 1..Len(t) : r[Len(s) + k] = t[k]
  <2> SUFFICES ASSUME NEW k \in 1..Len(t) PROVE r[Len(s) + k] = t[k]
    OBVIOUS
  <2>x. PICK q, x, z : q = f + z - 1 /\ x = at + k - 1 /\ z = Len(s) + k
    OBVIOUS
  <2>1. /\ k \in 1..(w.length - at) /\ z \in 1..(L - f) /\ q \in f .. L - 1 /\ ~(q < u.length)
        /\ at + q - u.length + 1 = x + 1
    <3>1. k \in 1..(w.length - at) /\ z = (u.length - f) + k
      BY <1>17, <2>x
    <3>2. /\ (u.length - f) + k \in 1..(L - f) /\ f + ((u.length - f) + k) - 1 \in f .. L - 1
          /\ ~(f + ((u.length - f) + k) - 1 < u.length)
          /\ at + (f + ((u.length - f) + k) - 1) - u.length + 1 = (at + k - 1) + 1
      BY <1>j, <3>1, JoinArithmetic, SMTT(30)
    <3> QED BY <2>x, <3>1, <3>2
  <2>2. t[k] = ByteAt(w, x)
    BY <1>17, <2>1, <2>x
  <2>3. r[z] = ByteAt(v, q)'
    BY <1>18, <2>1, <2>x
  <2>4. ByteAt(w, x) = Content[w.control_block][x + 1]
    BY <1>4 DEF ByteAt, InBuffer
  <2>5. ByteAt(v, q)' = Content[w.control_block][at + q - u.length + 1]
    BY <1>19, <2>1
  <2> QED BY <2>1, <2>2, <2>3, <2>4, <2>5, <2>x
<1>22. r = s \o t
  <2> HIDE DEF Byte
  <2>1. \A k \in 1..(L - f) : r[k] \in Byte
    <3> SUFFICES ASSUME NEW k \in 1..(L - f) PROVE r[k] \in Byte
      OBVIOUS
    <3>1. CASE k <= Len(s)
      <4>1. k \in 1..Len(s)
        BY <1>16, <1>17, <3>1
      <4> QED BY <1>17, <1>20, <4>1
    <3>2. CASE ~(k <= Len(s))
      <4>1. PICK x : x = k - Len(s)
        OBVIOUS
      <4>2. x \in 1..Len(t) /\ k = Len(s) + x
        <5>1. ~(k <= u.length - f)
          BY <1>17, <3>2
        <5>2. k - (u.length - f) \in 1..(w.length - at) /\ k = (u.length - f) + (k - (u.length - f))
          BY <1>j, <5>1, JoinArithmetic
        <5> QED BY <1>17, <4>1, <5>2
      <4>3. t[x] \in Byte
        BY <1>17, <4>2
      <4> QED BY <1>21, <4>2, <4>3
    <3> QED BY <3>1, <3>2
  <2>2. L - f \in Nat /\ L - f = Len(s) + Len(t)
    BY <1>17, <1>j, JoinArithmetic
  <2>3. \A k \in 1..(L - f) : ByteAt(v, f + k - 1)' \in Byte
    BY <1>18, <2>1
  <2>4. r \in Seq(Byte) /\ Len(r) = L - f
    BY <1>18, <2>2, <2>3
  <2>5. s \in Seq(Byte) /\ t \in Seq(Byte) /\ Len(r) = Len(s) + Len(t)
    BY <1>17, <2>2, <2>4
  <2>6. r \in Seq(Byte)
    BY <2>4
  <2>7. \A k \in 1..Len(s) : r[k] = s[k]
    BY <1>20
  <2>8. \A k \in 1..Len(t) : r[Len(s) + k] = t[k]
    BY <1>21
  <2> QED BY <2>5, <2>6, <2>7, <2>8, Joined
<1>23. View(i)' = [bytes |-> s \o t, first |-> First(u), at |-> get_position(u)]
  <2>1. m # NoBlock
    BY BlocksAssumption DEF Blocks
  <2>2. View(i)' = Shown(v)'
    BY <1>7, <1>10, <2>1 DEF View, Shown, Window, First, BlockOf, Disposing
  <2>3. Shown(v)' = [bytes |-> r, first |-> First(v)', at |-> get_position(v)']
    BY <1>7, <1>f, <1>s DEF Shown
  <2>4. First(v)' = First(v) /\ get_position(v)' = get_position(v)
    BY DEF First, get_position, Wrap
  <2> QED BY <1>8, <1>22, <2>2, <2>3, <2>4
<1>24. Abstract!Slice(j, View(j).at, Abstract!End(j)) = t
  <2>1. InUse(j)
    BY <1>1 DEF Open, InUse, BlockOf
  <2>2. /\ w.inner_current_position \in w.inner_first_valid_position .. w.length
        /\ w.length \in w.inner_current_position .. w.length
    BY <1>3
  <2>3. PICK p, e : p = View(j).at /\ e = Abstract!End(j)
    OBVIOUS
  <2>4. /\ p = First(w) + w.inner_current_position - w.inner_first_valid_position
        /\ e = First(w) + w.length - w.inner_first_valid_position
    BY <1>3, <2>3
  <2>5. Abstract!Slice(j, p, e) = Window(w, w.inner_current_position, w.length)
    BY <2>1, <2>2, <2>4, SliceIs
  <2> QED BY <1>f, <1>s, <2>3, <2>5
<1>25. Abstract!Extend(i, j)
  <2>1. View(i) = [bytes |-> s, first |-> First(u), at |-> get_position(u)]
    BY <1>2, <1>f, <1>s DEF Shown
  <2>2. View(i)' = [View(i) EXCEPT !.bytes = @ \o Abstract!Slice(j, View(j).at, Abstract!End(j))]
    <3>1. PICK V, y : V = View(i) /\ y = Abstract!Slice(j, View(j).at, Abstract!End(j))
      OBVIOUS
    <3>2. PICK a, b : a = First(u) /\ b = get_position(u)
      OBVIOUS
    <3>3. V = [bytes |-> s, first |-> a, at |-> b]
      BY <2>1, <3>1, <3>2
    <3>4. [V EXCEPT !.bytes = @ \o y] = [bytes |-> s \o y, first |-> a, at |-> b]
      <4>1. V.bytes = s
        BY <3>3
      <4>2. PICK q : q = s \o y
        OBVIOUS
      <4>3. [V EXCEPT !.bytes = q] = [bytes |-> q, first |-> a, at |-> b]
        BY <3>3
      <4>4. [V EXCEPT !.bytes = @ \o y] = [V EXCEPT !.bytes = q]
        BY <4>1, <4>2
      <4> QED BY <4>2, <4>3, <4>4
    <3>5. View(i)' = [bytes |-> s \o y, first |-> a, at |-> b]
      BY <1>23, <1>24, <3>1, <3>2
    <3> QED BY <3>1, <3>4, <3>5
  <2>3. Abstract!Change(i, [View(i) EXCEPT !.bytes = @ \o Abstract!Slice(j, View(j).at, Abstract!End(j))])
    BY <1>1, <1>12, <2>2, ChangeIs
  <2> QED BY <1>2, <1>3, <2>3 DEF Abstract!Extend
<1> QED BY <1>15, <1>25 DEF Abstract!Next

-----------------------------------------------------------------------------
(***************************************************************************)
(* The refinement.                                                         *)
(***************************************************************************)
LEMMA InitShows ==
  ASSUME Init
  PROVE  StreamInv /\ Abstract!Init
<1>1. \A i \in Instances : InstanceSound(i)
  BY ClosedFits, BlocksAssumption DEF Init, InstanceSound, BlockOf, Blocks
<1>2. StreamInv
  BY <1>1 DEF Init, StreamInv
<1>3. \A i \in Instances : View(i) = NoInstance
  BY ClosedFits DEF Init, View, BlockOf
<1> QED BY <1>2, <1>3 DEF Init, Abstract!Init

LEMMA StutterShows ==
  ASSUME StreamInv, CountInv, UNCHANGED vars
  PROVE  StreamInv' /\ UNCHANGED Abstract!vars
<1>1. \A i \in Instances : InstanceSound(i)' /\ View(i)' = View(i)
  BY OthersStay DEF vars, shared
<1>2. StreamInv'
  BY <1>1, PartsStay DEF StreamInv, vars, shared
<1>3. UNCHANGED read
  BY DEF vars
<1> QED BY <1>1, <1>2, <1>3 DEF Abstract!vars

LEMMA NextShows ==
  ASSUME AnyCaller = FALSE, StreamInv, CountInv, Next
  PROVE  StreamInv' /\ Abstract!Next
<1>1. PICK i \in Instances :
        \/ \E b \in Buffers : az_ulib_ustream_init(i, b)
        \/ \E p \in Targets : SetPosition(i, p) \/ Release(i, p)
        \/ Reset(i)
        \/ \E n \in ReadSizes : ReadBuffer(i, n) \/ StartRead(i, n)
        \/ ReadPart(i)
        \/ \E j \in Instances :
             \/ \E offset \in Offsets : Clone(j, i, offset)
             \/ \E m \in Multis : Concat(i, j, m)
             \/ \E p \in Targets : Split(i, j, p)
        \/ DisposeBuffer(i)
        \/ DisposeMulti(i)
        \/ DisposeStep(i)
  BY DEF Next
<1> DEFINE Goal == StreamInv' /\ Abstract!Next
<1>2. ASSUME NEW b \in Buffers, az_ulib_ustream_init(i, b) PROVE Goal
  BY <1>2, CreateShows
<1>3. ASSUME NEW p \in Targets, SetPosition(i, p) PROVE Goal
  BY <1>3, SetPositionShows
<1>4. ASSUME NEW p \in Targets, Release(i, p) PROVE Goal
  BY <1>4, ReleaseShows
<1>5. ASSUME Reset(i) PROVE Goal
  BY <1>5, ResetShows
<1>6. ASSUME NEW n \in ReadSizes, ReadBuffer(i, n) PROVE Goal
  BY <1>6, ReadBufferShows
<1>7. ASSUME NEW n \in ReadSizes, StartRead(i, n) PROVE Goal
  BY <1>7, StartReadShows
<1>8. ASSUME ReadPart(i) PROVE Goal
  BY <1>8, ReadPartShows
<1>9. ASSUME NEW j \in Instances, NEW offset \in Offsets, Clone(j, i, offset) PROVE Goal
  BY <1>9, CloneShows
<1>10. ASSUME NEW j \in Instances, NEW m \in Multis, Concat(i, j, m) PROVE Goal
  BY <1>10, ConcatShows
<1>11. ASSUME NEW j \in Instances, NEW p \in Targets, Split(i, j, p) PROVE Goal
  BY <1>11, SplitShows
<1>12. ASSUME DisposeBuffer(i) \/ DisposeMulti(i) PROVE Goal
  BY <1>12, DisposeShows
<1>13. ASSUME DisposeStep(i) PROVE Goal
  BY <1>13, DisposeStepShows
<1> HIDE DEF Goal
<1>14. \/ \E b \in Buffers : az_ulib_ustream_init(i, b)
       \/ \E p \in Targets : SetPosition(i, p) \/ Release(i, p)
       \/ \E n \in ReadSizes : ReadBuffer(i, n) \/ StartRead(i, n)
       => Goal
  BY <1>2, <1>3, <1>4, <1>6, <1>7
<1>15. (\E j \in Instances :
           \/ \E offset \in Offsets : Clone(j, i, offset)
           \/ \E m \in Multis : Concat(i, j, m)
           \/ \E p \in Targets : Split(i, j, p))
       => Goal
  BY <1>9, <1>10, <1>11
<1>16. Goal
  BY <1>1, <1>5, <1>8, <1>12, <1>13, <1>14, <1>15
<1> QED BY <1>16 DEF Goal

LEMMA Streams ==
  ASSUME AnyCaller = FALSE, Overlapping \subseteq Buffers
  PROVE  Spec => [](CountInv /\ StreamInv)
<1>1. Init => StreamInv
  BY InitShows
<1>2. StreamInv /\ CountInv /\ [Next]_vars => StreamInv'
  BY NextShows, StutterShows
<1>3. Spec => []CountInv
  BY Counted
<1> QED BY <1>1, <1>2, <1>3, PTL DEF Spec

\* Every instance is a stream of bytes of its own: what the calls of one thread do to the
\* control blocks and to the parts of a concatenation that others share never shows in an
\* instance but the one they are called on, a read returns the bytes that come next, and
\* no position a caller sees wraps (az_ulib_ustream_base.h:145, 166-167: instances share the
\* content, and access to what they share is thread safe; az_ulib_ustream_aux.c:92-167).
THEOREM InstancesAreByteStreams ==
  ASSUME AnyCaller = FALSE, Overlapping \subseteq Buffers
  PROVE  Spec => StreamSpec
<1>1. Init => StreamInv /\ Abstract!Init
  BY InitShows
<1>2. StreamInv /\ CountInv /\ [Next]_vars => StreamInv' /\ [Abstract!Next]_(Abstract!vars)
  BY NextShows, StutterShows
<1>3. Spec => []CountInv
  BY Counted
<1> QED BY <1>1, <1>2, <1>3, PTL DEF Spec, StreamSpec, Abstract!Spec

-----------------------------------------------------------------------------
(***************************************************************************)
(* Types.  Counters are never decremented below zero: those of control     *)
(* blocks in use count their users, and nobody touches the others.         *)
(***************************************************************************)
Unmade ==
  /\ \A b \in Blocks \ made : ref_count[b] = 0
  /\ \A m \in Multis \ made, s \in Sides : part_refs[m][s] = 0

LEMMA UnmadeStays ==
  ASSUME Unmade, made \subseteq made',
         \A b \in Blocks \ made' : ref_count'[b] = ref_count[b],
         \A m \in Multis \ made', s \in Sides : part_refs'[m][s] = part_refs[m][s]
  PROVE  Unmade'
BY DEF Unmade

LEMMA CopyUnmade ==
  ASSUME CountInv, Unmade, NEW i \in Instances, Open(i), CloneRefs(stream[i]), UNCHANGED made
  PROVE  Unmade'
<1>1. BlockOf(i) \in made
  BY DEF CountInv, BlocksAreMade, Open, BlockOf
<1>2. \A b \in Blocks \ made' : ref_count'[b] = ref_count[b]
  BY <1>1 DEF CloneRefs, Inc, CountInv, Shapes, BlockOf
<1>3. \A m \in Multis \ made', s \in Sides : part_refs'[m][s] = part_refs[m][s]
  BY <1>1 DEF CloneRefs, CountInv, Shapes, BlockOf
<1> QED BY <1>2, <1>3, UnmadeStays

LEMMA ConcatUnmade ==
  ASSUME CountInv, Unmade, NEW i \in Instances, NEW j \in Instances, NEW m \in Multis, Concat(i, j, m)
  PROVE  Unmade'
<1>1. PICK b : b = clone(stream[j], stream[i].length).control_block
  OBVIOUS
<1>2. b \in made
  <2>1. stream[j] \in InstanceValues /\ stream[i].length \in Int
    BY DEF CountInv, Shapes, InstanceValues
  <2>2. b = BlockOf(j)
    BY <1>1, <2>1, CallTypes DEF BlockOf
  <2> QED BY <2>2 DEF Concat, Open, CountInv, BlocksAreMade, BlockOf
<1>3. made' = made \cup {m}
  BY DEF Concat
<1>4. \/ ref_count' = Inc([ref_count EXCEPT ![m] = 1], b)
      \/ ref_count' = [ref_count EXCEPT ![m] = 1]
  BY <1>1 DEF Concat
<1>5. \A x \in Blocks \ made' : ref_count'[x] = ref_count[x]
  BY <1>2, <1>3, <1>4 DEF Inc, CountInv, Shapes
<1>6. \A x \in Multis \ made', s \in Sides : part_refs'[x][s] = part_refs[x][s]
  BY <1>3 DEF Concat, CountInv, Shapes
<1> QED BY <1>3, <1>5, <1>6, UnmadeStays

LEMMA DisposeUnmade ==
  ASSUME CountInv, Unmade, NEW i \in Instances, DisposeBuffer(i) \/ DisposeMulti(i) \/ DisposeStep(i)
  PROVE  Unmade'
<1>1. UNCHANGED made /\ BlockOf(i) \in made
  BY DEF DisposeBuffer, DisposeMulti, MayDispose, Open, DisposeStep, DropTwo, CheckPart, RecheckPart, Drop,
     Recheck, CountInv, BlocksAreMade, CallsAreOnBlocks, BlockOf
<1>2. \A s \in Sides : PartBlock(BlockOf(i), s) \in made \cup {NoBlock} \/ BlockOf(i) \notin Multis
  BY DEF CountInv, BlocksAreMade
<1>3. "one" \in Sides /\ "two" \in Sides
  BY DEF Sides
<1>4. \/ ref_count' = ref_count
      \/ \E b \in made : ref_count' = Dec(ref_count, b)
  <2>1. CASE \/ CheckPart(i, "one", "check_one", "recheck_one", "check_two")
             \/ CheckPart(i, "two", "check_two", "recheck_two", "drop")
    <3>1. BlockOf(i) \in Multis
      BY <2>1 DEF CheckPart, CountInv, CallsAreOnBlocks, Locations, Disposing
    <3> QED BY <1>2, <1>3, <2>1, <3>1 DEF CheckPart, LastUser
  <2>2. CASE ~(\/ CheckPart(i, "one", "check_one", "recheck_one", "check_two")
               \/ CheckPart(i, "two", "check_two", "recheck_two", "drop"))
    BY <1>1, <2>2 DEF DisposeBuffer, DisposeMulti, DisposeStep, DropTwo, RecheckPart, Drop, Recheck
  <2> QED BY <2>1, <2>2
<1>5. \A b \in Blocks \ made' : ref_count'[b] = ref_count[b]
  BY <1>1, <1>4 DEF Dec, CountInv, Shapes
<1>6. \A m \in Multis \ made', s \in Sides : part_refs'[m][s] = part_refs[m][s]
  BY <1>1 DEF DisposeBuffer, DisposeMulti, DisposeStep, DropTwo, CheckPart, RecheckPart, Drop, Recheck,
     CountInv, Shapes
<1> QED BY <1>1, <1>5, <1>6, UnmadeStays

LEMMA NextUnmade ==
  ASSUME CountInv, Unmade, Next
  PROVE  Unmade'
<1>1. PICK i \in Instances :
        \/ \E b \in Buffers : az_ulib_ustream_init(i, b)
        \/ \E p \in Targets : SetPosition(i, p) \/ Release(i, p)
        \/ Reset(i)
        \/ \E n \in ReadSizes : ReadBuffer(i, n) \/ StartRead(i, n)
        \/ ReadPart(i)
        \/ \E j \in Instances :
             \/ \E offset \in Offsets : Clone(j, i, offset)
             \/ \E m \in Multis : Concat(i, j, m)
             \/ \E p \in Targets : Split(i, j, p)
        \/ DisposeBuffer(i)
        \/ DisposeMulti(i)
        \/ DisposeStep(i)
  BY DEF Next
<1>2. ASSUME NEW b \in Buffers, az_ulib_ustream_init(i, b) PROVE Unmade'
  BY <1>2, UnmadeStays DEF az_ulib_ustream_init, CountInv, Shapes
<1>3. CASE \/ \E p \in Targets : SetPosition(i, p) \/ Release(i, p)
           \/ Reset(i)
           \/ \E n \in ReadSizes : ReadBuffer(i, n) \/ StartRead(i, n)
           \/ ReadPart(i)
  <2>1. UNCHANGED <<made, ref_count, part_refs>>
    BY <1>3 DEF SetPosition, Release, Reset, ReadBuffer, StartRead, ReadPart, shared
  <2> QED BY <2>1, UnmadeStays
<1>4. ASSUME NEW j \in Instances, NEW offset \in Offsets, Clone(j, i, offset) PROVE Unmade'
  BY <1>4, CopyUnmade DEF Clone
<1>5. ASSUME NEW j \in Instances, NEW m \in Multis, Concat(i, j, m) PROVE Unmade'
  BY <1>5, ConcatUnmade
<1>6. ASSUME NEW j \in Instances, NEW p \in Targets, Split(i, j, p) PROVE Unmade'
  BY <1>6, CopyUnmade DEF Split
<1>7. CASE DisposeBuffer(i) \/ DisposeMulti(i) \/ DisposeStep(i)
  BY <1>7, DisposeUnmade
<1> QED BY <1>1, <1>2, <1>3, <1>4, <1>5, <1>6, <1>7

LEMMA InvTypes ==
  ASSUME AnyCaller = FALSE, CountInv, StreamInv, Unmade
  PROVE  TypeOK
<1>1. ref_count \in [Blocks -> Nat]
  <2>1. \A b \in Blocks : ref_count[b] \in Nat
    BY InUseIsCounted DEF Unmade
  <2> QED BY <2>1 DEF CountInv, Shapes
<1>2. \A m \in Multis, s \in Sides :
        /\ part[m][s] \in InstancesOf(Buffers \cup {NoBlock})
        /\ part_refs[m][s] \in Nat
  <2> SUFFICES ASSUME NEW m \in Multis, NEW s \in Sides
               PROVE  /\ part[m][s] \in InstancesOf(Buffers \cup {NoBlock})
                      /\ part_refs[m][s] \in Nat
    OBVIOUS
  <2>1. CASE m \in made
    <3>1. Fits(part[m][s]) /\ part[m][s].control_block \in Buffers
      BY <2>1 DEF StreamInv, PartsJoin, InBuffer
    <3>2. part[m][s] \in InstancesOf(Buffers \cup {NoBlock})
      BY <3>1 DEF Fits, Fields, InstancesOf
    <3>3. PartBlock(m, s) # NoBlock
      BY <3>1, BlocksAssumption DEF PartBlock, Blocks
    <3>4. part_refs[m][s] = Cardinality(PartUsers(m, s))
      BY <2>1, <3>3 DEF CountInv, RefCounts
    <3> QED BY <3>2, <3>4, CountedFinite
  <2>2. CASE m \notin made
    <3>1. part[m][s] = NoInstance /\ part_refs[m][s] = 0
      BY <2>2 DEF StreamInv, Unmade
    <3>2. NoInstance \in InstancesOf(Buffers \cup {NoBlock})
      BY ClosedFits DEF Fits, Fields, InstancesOf
    <3> QED BY <3>1, <3>2
  <2> QED BY <2>1, <2>2
<1>3. part \in [Multis -> [Sides -> InstancesOf(Buffers \cup {NoBlock})]]
  <2> HIDE DEF InstancesOf
  <2> QED BY <1>2 DEF CountInv, Shapes
<1>4. part_refs \in [Multis -> [Sides -> Nat]]
  BY <1>2 DEF CountInv, Shapes
<1>5. stream \in [Instances -> InstancesOf(Blocks \cup {NoBlock})]
  <2>1. \A i \in Instances : stream[i] \in Fields
    BY DEF StreamInv, InstanceSound, Fits
  <2> HIDE DEF InstancesOf
  <2> QED BY <2>1 DEF CountInv, Shapes, Fields
<1>6. \A i \in Instances : local[i].side \in Sides /\ local[i].left \in Nat
  <2> HIDE DEF Byte
  <2> QED BY DEF CountInv, Shapes
<1> QED BY <1>1, <1>3, <1>4, <1>5, <1>6 DEF TypeOK, CountInv, Shapes

\* No counter is decremented below zero, and no position of an instance, or of a part of
\* a concatenation, leaves the range of a size_t (ustream.c, ustream_aux.c).
THEOREM CountersStayNatural ==
  ASSUME AnyCaller = FALSE, Overlapping \subseteq Buffers
  PROVE  Spec => []TypeOK
<1>1. Init => Unmade
  BY DEF Init, Unmade
<1>2. ASSUME CountInv, Unmade, UNCHANGED vars PROVE Unmade'
  BY <1>2, UnmadeStays DEF vars, shared
<1>3. CountInv /\ Unmade /\ [Next]_vars => Unmade'
  BY <1>2, NextUnmade
<1>4. Spec => [](CountInv /\ StreamInv)
  BY Streams
<1>5. CountInv /\ StreamInv /\ Unmade => TypeOK
  BY InvTypes
<1> QED BY <1>1, <1>3, <1>4, <1>5, PTL DEF Spec

=============================================================================
