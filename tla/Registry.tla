------------------------------ MODULE Registry ------------------------------
(***************************************************************************)
(* The device registry: a table of nodes and a data area, both in flash.   *)
(* A node points to its key and its value in the data area and has two     *)
(* flag words, ready and delete; neither table nor data is ever rewritten  *)
(* before az_ulib_registry_clean_all erases both.                          *)
(*                                                                         *)
(* Each call holds registry_lock from begin to end.  A call that writes    *)
(* one word of flash is one step; one that writes more takes a step per    *)
(* word, so that a power cycle or a flash error can fall between any two.  *)
(* Keys and values are bytes, which the flash driver packs into words: a   *)
(* span has its address in words and its size in bytes.                    *)
(***************************************************************************)
EXTENDS FlashDriver, FiniteSets

CONSTANTS
  Keys, Values,
  Content,          \* key or value -> its bytes
  Readers,          \* variables that receive the span of a value
  NodeCount,        \* nodes between registry_info_start and registry_info_end
  DataSize,         \* words between registry_start and registry_end
  MayCrash,         \* power cycles happen
  MayClean,         \* the application calls az_ulib_registry_clean_all
  FlashMayFail,     \* a flash driver call can return an error
  Lost              \* the abstract value of every key while clean_all is not done

Nodes == 1..NodeCount
Cells == 1..DataSize
NoNode == 0

Locations == {"idle", "spans", "key", "value", "ready", "erase_info", "erase_data"}

Span == [ptr : Nat, size : Nat]
NoSpan == [ptr |-> 0, size |-> 0]

\* What a node's key and value spans look like: not written, written in part, written.
SpanStates == {"empty", "torn", "whole"}
NoOp == [slot |-> NoNode, dest |-> 0, adding |-> << >>, flash_cb |-> NotOpen, count |-> 0]
OpType == [slot : Nodes \cup {NoNode}, dest : Nat, adding : {<< >>} \cup (Keys \X Values),
           flash_cb : [destination_ptr : Nat, rest : {SubSeq(Content[x], i, Len(Content[x])) :
                         x \in Keys \cup Values, i \in 1 .. DataSize * WordSize + 1} \cup {<< >>}],
           count : Nat]

EmptyNode == [ready |-> FALSE, deleted |-> FALSE, spans |-> "empty", key |-> NoSpan, value |-> NoSpan]
NodeType == [ready : BOOLEAN, deleted : BOOLEAN, spans : SpanStates, key : Span, value : Span]

ASSUME RegistryAssumption ==
  /\ NodeCount \in Nat /\ DataSize \in Nat
  /\ \A x \in Keys \cup Values : Content[x] \in Seq(Nat) \ {<< >>}
  /\ \A j, k \in Keys : j # k => Content[j] # Content[k]
  /\ {MayCrash, MayClean, FlashMayFail} \subseteq BOOLEAN
  /\ Lost \notin {<< >>} \cup {Content[v] : v \in Values}

VARIABLES
  up,               \* _az_ulib_registry_cb is set
  node, data,       \* the flash: table of nodes and data area
  pc,               \* where the call that owns registry_lock is
  op,               \* its locals: the node, the destination, what it adds, the
                    \* driver's control block, how many pages it has erased
  span,             \* the spans readers got from try_get_value
  dirty             \* history: a clean_all did not erase everything (yet)

vars == <<up, node, data, pc, op, span, dirty>>

-----------------------------------------------------------------------------
(***************************************************************************)
(* Reading the flash.                                                      *)
(***************************************************************************)
Least(S) == CHOOSE i \in S : \A j \in S : i <= j
Greatest(S) == CHOOSE i \in S : \A j \in S : j <= i

\* The content of a span.
Read(s) ==
  [i \in 1..s.size |-> data[s.ptr + (i - 1) \div WordSize][((i - 1) % WordSize) + 1]]

is_empty(i) == node[i] = EmptyNode

\* Mutant: the delete flag is not looked at.
Matches_Deleted(i, k) == node[i].ready /\ Read(node[i].key) = Content[k]
Matches(i, k) == ~node[i].deleted /\ node[i].ready /\ Read(node[i].key) = Content[k]

\* find_node_in_registry stops at the first node that is neither ready nor deleted.
\* Mutant: it stops at a deleted node too.
Stops_Deleted(i) == node[i].deleted \/ ~node[i].ready
Stops(i) == ~node[i].deleted /\ ~node[i].ready

find_node_in_registry(k) ==
  LET seen == {i \in Nodes : Stops(i) \/ Matches(i, k)} IN
  IF seen = {} \/ Stops(Least(seen)) THEN NoNode ELSE Least(seen)

\* get_start_registry_data_free_space: just above the highest word in use.
\* Mutant: the highest word in use itself.
free_space_OffByOne ==
  LET used == {i \in Cells : data[i] # ErasedWord} IN IF used = {} THEN 1 ELSE Greatest(used)
free_space == 1 + Greatest({0} \cup {i \in Cells : data[i] # ErasedWord})

WordsFor(k, v) == NumberOfWords(Len(Content[k])) + NumberOfWords(Len(Content[v]))

\* Mutant: one word too many.
NoRoom_OffByOne(k, v) == free_space + WordsFor(k, v) > DataSize + 2
NoRoom(k, v) == free_space + WordsFor(k, v) > DataSize + 1

free_nodes == {i \in Nodes : is_empty(i)}

Idle == up /\ pc = "idle"

-----------------------------------------------------------------------------
(***************************************************************************)
(* az_ulib_registry_add.                                                   *)
(***************************************************************************)
KeySpan == [ptr |-> op.dest, size |-> Len(Content[op.adding[1]])]
ValueSpan == [ptr |-> op.dest + NumberOfWords(KeySpan.size), size |-> Len(Content[op.adding[2]])]

Done == pc' = "idle" /\ op' = NoOp

FlashError == FlashMayFail /\ Done /\ UNCHANGED <<node, data>>

\* The next word of the key or of the value; after the last one, on to the next part.
Program(next, next_cb) ==
  /\ data' = [data EXCEPT ![op.flash_cb.destination_ptr] = NextWord(op.flash_cb)]
  /\ pc' = IF LastWord(op.flash_cb) THEN next ELSE pc
  /\ op' = [op EXCEPT !.flash_cb = IF LastWord(op.flash_cb) THEN next_cb ELSE Advance(op.flash_cb)]
  /\ UNCHANGED node

add(k, v) ==
  /\ Idle
  /\ IF \/ find_node_in_registry(k) # NoNode            \* AZ_ERROR_ULIB_ELEMENT_DUPLICATE
        \/ NoRoom(k, v)                                 \* AZ_ERROR_OUT_OF_MEMORY
        \/ free_nodes = {}                              \* AZ_ERROR_NOT_ENOUGH_SPACE
     THEN UNCHANGED vars
     ELSE /\ pc' = "spans"
          /\ op' = [slot |-> Least(free_nodes), dest |-> free_space, adding |-> <<k, v>>,
                     flash_cb |-> NotOpen, count |-> 0]
          /\ UNCHANGED <<up, node, data, span, dirty>>

\* store_registry_node writes the two spans, several words.
\* Mutant: the node is ready before its key and value are there.
WriteSpans_Ready ==
  /\ pc = "spans"
  /\ node' = [node EXCEPT ![op.slot].spans = "whole", ![op.slot].ready = TRUE,
                           ![op.slot].key = KeySpan, ![op.slot].value = ValueSpan]
  /\ pc' = "key"
  /\ op' = [op EXCEPT !.flash_cb = open(KeySpan.ptr, Content[op.adding[1]])]
  /\ UNCHANGED <<up, data, span, dirty>>

WriteSpans ==
  /\ pc = "spans"
  /\ \/ /\ node[op.slot].spans = "empty"
        /\ node' = [node EXCEPT ![op.slot].spans = "torn"]
        /\ UNCHANGED <<data, pc, op>>
     \/ /\ node[op.slot].spans = "torn"
        /\ node' = [node EXCEPT ![op.slot].spans = "whole", ![op.slot].key = KeySpan, ![op.slot].value = ValueSpan]
        /\ pc' = "key"
        /\ op' = [op EXCEPT !.flash_cb = open(KeySpan.ptr, Content[op.adding[1]])]
        /\ UNCHANGED data
     \/ FlashError
  /\ UNCHANGED <<up, span, dirty>>

WriteKey ==
  /\ pc = "key"
  /\ \/ Program("value", open(ValueSpan.ptr, Content[op.adding[2]]))
     \/ FlashError
  /\ UNCHANGED <<up, span, dirty>>

WriteValue ==
  /\ pc = "value"
  /\ \/ Program("ready", NotOpen)
     \/ FlashError
  /\ UNCHANGED <<up, span, dirty>>

SetReady ==
  /\ pc = "ready"
  /\ \/ /\ node' = [node EXCEPT ![op.slot].ready = TRUE]
        /\ Done
        /\ UNCHANGED data
     \/ FlashError
  /\ UNCHANGED <<up, span, dirty>>

-----------------------------------------------------------------------------
(***************************************************************************)
(* The other calls.                                                        *)
(***************************************************************************)
delete(k) ==
  LET i == find_node_in_registry(k) IN
  /\ Idle
  /\ \/ i # NoNode /\ node' = [node EXCEPT ![i].deleted = TRUE]
     \/ i = NoNode /\ UNCHANGED node                    \* AZ_ERROR_ITEM_NOT_FOUND
     \/ i # NoNode /\ FlashMayFail /\ UNCHANGED node
  /\ UNCHANGED <<up, data, pc, op, span, dirty>>

\* The caller gets a span into the flash, valid after the lock is released.
try_get_value(r, k) ==
  LET i == find_node_in_registry(k) IN
  /\ Idle
  /\ i # NoNode                                         \* else AZ_ERROR_ITEM_NOT_FOUND
  /\ span' = [span EXCEPT ![r] = node[i].value]
  /\ UNCHANGED <<up, node, data, pc, op, dirty>>

clean_all ==
  /\ MayClean
  /\ Idle
  /\ pc' = "erase_info"
  /\ dirty' = TRUE
  /\ UNCHANGED <<up, node, data, op, span>>

\* The erase of the node table, a page after the other (here a page is one node).
\* An error ends it, and is ignored.
EraseInfo ==
  /\ pc = "erase_info"
  /\ \/ /\ op.count < NodeCount
        /\ node' = [node EXCEPT ![op.count + 1] = EmptyNode]
        /\ op' = [op EXCEPT !.count = @ + 1]
        /\ UNCHANGED pc
     \/ /\ op.count = NodeCount \/ FlashMayFail
        /\ pc' = "erase_data"
        /\ op' = NoOp
        /\ UNCHANGED node
  /\ UNCHANGED <<up, data, span, dirty>>

EraseData ==
  /\ pc = "erase_data"
  /\ \/ /\ op.count < DataSize
        /\ data' = [data EXCEPT ![op.count + 1] = ErasedWord]
        /\ op' = [op EXCEPT !.count = @ + 1]
        /\ UNCHANGED <<pc, dirty>>
     \/ /\ op.count = DataSize \/ FlashMayFail
        /\ Done
        /\ dirty' = ({i \in Nodes : ~is_empty(i)} # {} \/ free_space # 1)
        /\ UNCHANGED data
  /\ UNCHANGED <<up, node, span>>

az_ulib_registry_init ==
  /\ ~up
  /\ up' = TRUE
  /\ UNCHANGED <<node, data, pc, op, span, dirty>>

az_ulib_registry_deinit ==
  /\ Idle
  /\ up' = FALSE
  /\ UNCHANGED <<node, data, pc, op, span, dirty>>

\* A power cycle: the flash stays as it is.
Crash ==
  /\ MayCrash
  /\ up
  /\ up' = FALSE
  /\ Done
  /\ span' = [r \in Readers |-> NoSpan]
  /\ UNCHANGED <<node, data, dirty>>

Init ==
  /\ up = FALSE
  /\ node = [i \in Nodes |-> EmptyNode]
  /\ data = [i \in Cells |-> ErasedWord]
  /\ pc = "idle"
  /\ op = NoOp
  /\ span = [r \in Readers |-> NoSpan]
  /\ dirty = FALSE

Next ==
  \/ \E k \in Keys, v \in Values : add(k, v)
  \/ WriteSpans
  \/ WriteKey
  \/ WriteValue
  \/ SetReady
  \/ \E k \in Keys : delete(k) \/ \E r \in Readers : try_get_value(r, k)
  \/ clean_all
  \/ EraseInfo
  \/ EraseData
  \/ az_ulib_registry_init
  \/ az_ulib_registry_deinit
  \/ Crash

Spec == Init /\ [][Next]_vars

-----------------------------------------------------------------------------
(***************************************************************************)
(* az_ulib_registry_get_info.                                              *)
(***************************************************************************)
Live(i) == node[i].ready /\ ~node[i].deleted
LiveNodes == {i \in Nodes : Live(i)}
\* The words of a node, from its key to the end of its value.
Extent(i) == node[i].key.ptr .. node[i].value.ptr + NumberOfWords(node[i].value.size) - 1

\* Every node counts its words: a word of two nodes would be counted twice.
in_use_registry_data == Cardinality(UNION {{i} \X Extent(i) : i \in LiveNodes})
free_registry_data == DataSize - free_space + 1

-----------------------------------------------------------------------------
(***************************************************************************)
(* Properties.  Those that speak of entries are about a registry that is   *)
(* not dirty: nodes and data left behind by a clean_all that was cut short *)
(* may contradict each other until the next clean_all.                     *)
(***************************************************************************)
TypeOK ==
  /\ {up, dirty} \subseteq BOOLEAN
  /\ node \in [Nodes -> NodeType]
  /\ DOMAIN data = Cells
  /\ pc \in Locations
  /\ op \in OpType
  /\ pc \in {"key", "value"} => op.flash_cb.destination_ptr \in Cells
  /\ span \in [Readers -> Span]

\* The entries in use lie in the data area, apart from each other and below the
\* space the next entry will be written to.
ExtentsDisjoint ==
  ~dirty => \A i \in LiveNodes :
    /\ Extent(i) \subseteq 1 .. free_space - 1
    /\ \A j \in LiveNodes \ {i} : Extent(i) \cap Extent(j) = {}

\* get_info never reports more bytes in use and free than there are, also when
\* calls were cut short by a power cycle or a flash error.
SpaceAccounted == ~dirty => in_use_registry_data + free_registry_data <= DataSize

\* The flash driver assumes that a word is erased when it is programmed: no call
\* writes to a word that an earlier call, complete or not, has written.
ProgramsErasedWords ==
  [][\A c \in Cells : data[c] # ErasedWord => data'[c] \in {data[c], ErasedWord}]_vars

\* What a caller reads through a span it got from try_get_value stays the same
\* until clean_all erases it, also after the entry was deleted and others added.
\* A value that ends with an erased word is left out: its tail looks free to the
\* next add (registry.c:156), which overwrites it.
StillProgrammed(s) == \E c \in Cells : c >= s.ptr + NumberOfWords(s.size) - 1 /\ data[c] # ErasedWord
SpansAreStable ==
  [][\A r \in Readers :
       span'[r] = span[r] /\ StillProgrammed(span[r]) /\ pc # "erase_data"
          => Read(span[r])' = Read(span[r])]_vars

\* A deleted key is gone: no other node with the same key shows up in its place.
DeletedIsGone ==
  [][\A k \in Keys, i \in Nodes :
       ~dirty /\ Matches(i, k) /\ ~node[i].deleted /\ node'[i].deleted
          => find_node_in_registry(k)' = NoNode]_vars

\* An entry whose add went through to the ready flag can be found, unless the node of
\* an add that was cut short is in front of it: find_node_in_registry stops there
\* (registry.c:181), and then an add that returned OK is never found.
BecomesReady(i, k) == ~node[i].ready /\ node'[i].ready /\ k = op.adding[1]
Torn(i) == ~node[i].ready /\ ~node[i].deleted /\ ~is_empty(i)
AddedIsFoundUnlessTorn ==
  [][\A k \in Keys, i \in Nodes :
       BecomesReady(i, k) /\ ~dirty /\ ~(\E j \in 1 .. i - 1 : Torn(j))
          => find_node_in_registry(k)' = i]_vars

(***************************************************************************)
(* The registry implements a map whose changes are atomic.                 *)
(***************************************************************************)
NoContent == << >>
Found == [k \in Keys |-> LET i == find_node_in_registry(k) IN
            IF dirty THEN Lost ELSE IF i = NoNode THEN NoContent ELSE Read(node[i].value)]

Map == INSTANCE DurableMap WITH map <- Found
MapSpec == Map!Spec
=============================================================================
