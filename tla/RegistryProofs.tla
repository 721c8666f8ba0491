--------------------------- MODULE RegistryProofs ---------------------------
(***************************************************************************)
(* Proofs about the registry: whatever power cycles and flash errors cut   *)
(* short, the entries keep apart from each other, and what is found is a   *)
(* map whose changes are atomic.                                           *)
(***************************************************************************)
EXTENDS Registry, TLAPS, FiniteSetTheorems, SequenceTheorems, WellFoundedInduction

\* Word w of what is stored of a key or value, counted from 0.
WordOf(x, w) ==
  [i \in 1..WordSize |-> IF w * WordSize + i <= Len(Content[x]) THEN Content[x][w * WordSize + i] ELSE PadByte]

Words(x) == NumberOfWords(Len(Content[x]))

\* A value whose last word looks erased would be overwritten by the next entry, as
\* get_start_registry_data_free_space takes that word for free.
ValuesEndProgrammed == \A v \in Values : WordOf(v, Words(v) - 1) # ErasedWord

\* The first n words of x are in the flash at ptr.
Holds(ptr, x, n) == \A w \in 0 .. n - 1 : data[ptr + w] = WordOf(x, w)

-----------------------------------------------------------------------------
(***************************************************************************)
(* Arithmetic of words.                                                    *)
(***************************************************************************)
LEMMA LeastNatural ==
  ASSUME NEW T, T \subseteq Nat, T # {}
  PROVE  \E x \in T : \A y \in T : x <= y
<1>1. PICK x \in T : \A y \in T : ~(<<y, x>> \in OpToRel(<, Nat))
  BY WFMin, NatLessThanWellFounded
<1>2. \A y \in T : ~(y < x)
  BY <1>1 DEF OpToRel
<1>3. x \in Nat /\ \A y \in T : y \in Nat
  OBVIOUS
<1> QED BY <1>2, <1>3

LEMMA Division ==
  ASSUME NEW a \in Nat
  PROVE  /\ a \div WordSize \in Nat /\ a % WordSize \in 0 .. WordSize - 1
         /\ WordSize * (a \div WordSize) <= a /\ a < WordSize * (a \div WordSize) + WordSize
         /\ a = WordSize * (a \div WordSize) + (a % WordSize)
BY FlashAssumption

LEMMA Quotient ==
  ASSUME NEW a \in Nat, NEW q \in Nat, WordSize * q <= a, a < WordSize * q + WordSize
  PROVE  a \div WordSize = q
BY FlashAssumption, Division

\* NumberOfWords(n) words are enough for n bytes, and one less is not.
LEMMA WordsEnough ==
  ASSUME NEW n \in Nat
  PROVE  /\ NumberOfWords(n) \in Nat /\ n <= WordSize * NumberOfWords(n)
         /\ WordSize * NumberOfWords(n) < n + WordSize
         /\ n > 0 => NumberOfWords(n) >= 1
<1>1. PICK a \in Nat : a = n + WordSize - 1
  BY FlashAssumption
<1>2. PICK q \in Nat : q = a \div WordSize /\ WordSize * q <= a /\ a < WordSize * q + WordSize
  BY Division
<1>3. NumberOfWords(n) = q
  BY <1>1, <1>2 DEF NumberOfWords
<1>4. n > 0 => q # 0
  BY <1>1, <1>2, FlashAssumption
<1>5. PICK p \in Nat : p = WordSize * q
  BY FlashAssumption
<1> QED BY <1>1, <1>2, <1>3, <1>4, <1>5, FlashAssumption

LEMMA WordsUnique ==
  ASSUME NEW n \in Nat, NEW q \in Nat, n <= WordSize * q, WordSize * q < n + WordSize
  PROVE  NumberOfWords(n) = q
<1>1. PICK p \in Nat : p = WordSize * q
  BY FlashAssumption
<1>2. n + WordSize - 1 \in Nat
  BY FlashAssumption
<1>3. WordSize * q <= n + WordSize - 1 /\ n + WordSize - 1 < WordSize * q + WordSize
  BY <1>1, FlashAssumption
<1> QED BY <1>2, <1>3, Quotient DEF NumberOfWords

\* Byte i of n, counted from 1, is in word (i - 1) \div WordSize.
LEMMA ByteInWord ==
  ASSUME NEW n \in Nat, NEW i \in 1..n
  PROVE  /\ (i - 1) \div WordSize \in 0 .. NumberOfWords(n) - 1
         /\ ((i - 1) % WordSize) + 1 \in 1..WordSize
         /\ ((i - 1) \div WordSize) * WordSize + ((i - 1) % WordSize) + 1 = i
<1>1. PICK a \in Nat : a = i - 1
  OBVIOUS
<1>2. PICK q \in Nat : q = a \div WordSize
  BY Division
<1>3. /\ a % WordSize \in 0 .. WordSize - 1 /\ WordSize * q <= a
      /\ a = WordSize * q + (a % WordSize)
  BY <1>2, Division
<1>4. PICK m \in Nat : m = NumberOfWords(n) /\ n <= WordSize * m
  BY WordsEnough
<1>5. q < m
  <2> SUFFICES ASSUME m <= q PROVE FALSE
    OBVIOUS
  <2>1. WordSize * m <= WordSize * q
    BY FlashAssumption
  <2>2. WordSize * m \in Nat /\ WordSize * q \in Nat
    BY FlashAssumption
  <2> QED BY <1>1, <1>3, <1>4, <2>1, <2>2
<1>6. q * WordSize = WordSize * q /\ WordSize * q \in Nat
  BY FlashAssumption
<1> QED BY <1>1, <1>2, <1>3, <1>4, <1>5, <1>6, FlashAssumption

\* Contents are not empty.
LEMMA ContentType ==
  ASSUME NEW x \in Keys \cup Values
  PROVE  /\ Content[x] \in Seq(Nat) /\ Len(Content[x]) \in Nat \ {0}
         /\ Words(x) \in Nat \ {0}
<1>1. Content[x] \in Seq(Nat) /\ Content[x] # << >>
  BY RegistryAssumption
<1>2. Len(Content[x]) \in Nat \ {0}
  BY <1>1
<1>3. NumberOfWords(Len(Content[x])) \in Nat /\ NumberOfWords(Len(Content[x])) >= 1
  BY <1>2, WordsEnough
<1> QED BY <1>1, <1>2, <1>3 DEF Words

LEMMA WordType ==
  ASSUME NEW x \in Keys \cup Values, NEW w \in Nat
  PROVE  WordOf(x, w) \in [1..WordSize -> Nat]
<1>1. Content[x] \in Seq(Nat) /\ Len(Content[x]) \in Nat /\ PadByte \in Nat
  BY ContentType, FlashAssumption
<1>2. ASSUME NEW i \in 1..WordSize, w * WordSize + i <= Len(Content[x])
      PROVE  Content[x][w * WordSize + i] \in Nat
  <2>1. PICK n \in Nat : n = w * WordSize
    BY FlashAssumption
  <2>2. n + i \in 1 .. Len(Content[x])
    BY <1>1, <1>2, <2>1, FlashAssumption
  <2> QED BY <1>1, <2>1, <2>2
<1> QED BY <1>1, <1>2 DEF WordOf

\* What the driver does with word w of x.
LEMMA DriverWord ==
  ASSUME NEW x \in Keys \cup Values, NEW w \in 0 .. Words(x) - 1, NEW cb,
         cb.rest = SubSeq(Content[x], w * WordSize + 1, Len(Content[x]))
  PROVE  /\ cb.rest \in Seq(Nat)
         /\ LastWord(cb) <=> w + 1 = Words(x)
         /\ NextWord(cb) = WordOf(x, w)
         /\ Advance(cb).destination_ptr = cb.destination_ptr + 1
         /\ w + 1 < Words(x) =>
              Advance(cb).rest = SubSeq(Content[x], (w + 1) * WordSize + 1, Len(Content[x]))
<1> DEFINE c == Content[x]
<1>1. c \in Seq(Nat) /\ Len(c) \in Nat \ {0} /\ Words(x) \in Nat \ {0}
  BY ContentType
<1>2. PICK n \in Nat : n = Len(c)
  BY <1>1
<1>3. PICK b \in Nat : b = w * WordSize /\ b = WordSize * w
  BY <1>1, FlashAssumption
<1>4. n <= WordSize * Words(x) /\ WordSize * Words(x) < n + WordSize
  BY <1>2, WordsEnough DEF Words
<1>5. b + WordSize <= WordSize * Words(x)
  <2>1. w + 1 <= Words(x) /\ w \in Nat
    BY <1>1
  <2>2. \A q, m \in Nat : q <= m => WordSize * q <= WordSize * m
    BY FlashAssumption
  <2>3. w + 1 \in Nat /\ WordSize * (w + 1) = WordSize * w + WordSize
    BY <2>1, FlashAssumption
  <2>4. WordSize * (w + 1) <= WordSize * Words(x)
    BY <1>1, <2>1, <2>2, <2>3
  <2> QED BY <1>3, <2>3, <2>4
<1>6. b < n
  <2>1. WordSize * Words(x) \in Nat
    BY <1>1, FlashAssumption
  <2> QED BY <1>4, <1>5, <2>1, FlashAssumption
<1>7. /\ cb.rest \in Seq(Nat) /\ Len(cb.rest) = n - b
      /\ \A i \in 1 .. n - b : cb.rest[i] = c[b + i]
  <2>1. \A i \in b + 1 .. n : c[i] \in Nat
    BY <1>1, <1>2
  <2>2. cb.rest = SubSeq(c, b + 1, n)
    BY <1>2, <1>3
  <2>3. /\ SubSeq(c, b + 1, n) \in Seq(Nat)
        /\ Len(SubSeq(c, b + 1, n)) = IF b + 1 <= n THEN n - (b + 1) + 1 ELSE 0
        /\ \A i \in 1 .. n - (b + 1) + 1 : SubSeq(c, b + 1, n)[i] = c[b + 1 + i - 1]
    <3>1. b + 1 \in Int /\ n \in Int
      OBVIOUS
    <3> HIDE DEF c
    <3> QED BY <2>1, <3>1, SubSeqProperties
  <2>4. n - (b + 1) + 1 = n - b /\ \A i \in 1 .. n - b : b + 1 + i - 1 = b + i
    OBVIOUS
  <2> HIDE DEF c
  <2>5. \A i \in 1 .. n - b : SubSeq(c, b + 1, n)[i] = c[b + i]
    BY <2>3, <2>4
  <2>6. Len(cb.rest) = n - b
    <3>1. b + 1 <= n
      BY <1>2, <1>3, <1>6
    <3> QED BY <2>2, <2>3, <2>4, <3>1
  <2> QED BY <2>2, <2>3, <2>5, <2>6
<1>8. LastWord(cb) <=> w + 1 = Words(x)
  <2>1. LastWord(cb) <=> n <= b + WordSize
    BY <1>7, FlashAssumption DEF LastWord
  <2>2. ASSUME w + 1 = Words(x) PROVE n <= b + WordSize
    <3>1. WordSize * Words(x) = b + WordSize
      <4>1. WordSize * (w + 1) = WordSize * w + WordSize
        BY FlashAssumption
      <4> QED BY <1>3, <2>2, <4>1
    <3> QED BY <1>4, <3>1
  <2>3. ASSUME n <= b + WordSize PROVE w + 1 = Words(x)
    <3>1. WordSize * (w + 1) = b + WordSize /\ w + 1 \in Nat
      BY <1>3, FlashAssumption
    <3>2. NumberOfWords(n) = w + 1
      BY <1>6, <2>3, <3>1, WordsUnique, FlashAssumption
    <3> QED BY <1>2, <3>2 DEF Words
  <2> QED BY <2>1, <2>2, <2>3
<1>9. NextWord(cb) = WordOf(x, w)
  <2>1. ASSUME NEW i \in 1..WordSize
        PROVE  NextWord(cb)[i] = WordOf(x, w)[i]
    <3>1. i <= Len(cb.rest) <=> b + i <= n
      <4>1. Len(cb.rest) = n - b /\ i \in Int
        BY <1>7, FlashAssumption
      <4> QED BY <1>2, <1>3, <4>1
    <3>2. ASSUME i <= Len(cb.rest)
          PROVE  cb.rest[i] = c[b + i]
      <4>1. i \in Int /\ 1 <= i
        BY FlashAssumption
      <4>2. i <= n - b
        BY <1>7, <3>2
      <4>3. i \in 1 .. n - b
        BY <1>2, <1>3, <4>1, <4>2
      <4> QED BY <1>7, <4>3
    <3> QED BY <1>2, <1>3, <3>1, <3>2 DEF NextWord, WordOf
  <2> QED BY <2>1 DEF NextWord, WordOf
<1>10. Advance(cb).destination_ptr = cb.destination_ptr + 1
  BY DEF Advance, open
<1>11. ASSUME w + 1 < Words(x)
       PROVE  Advance(cb).rest = SubSeq(c, (w + 1) * WordSize + 1, Len(c))
  <2>1. Advance(cb).rest = SubSeq(SubSeq(c, b + 1, n), WordSize + 1, n - b)
    BY <1>2, <1>3, <1>7 DEF Advance, open
  <2>2. b + WordSize < n
    BY <1>7, <1>8, <1>11, FlashAssumption DEF LastWord
  <2>3. /\ b + 1 \in 1 .. Len(c) /\ n \in 1 .. Len(c)
        /\ WordSize + 1 \in 1 .. n - (b + 1) + 1 /\ n - b \in 1 .. n - (b + 1) + 1
    BY <1>2, <1>6, <2>2, FlashAssumption
  <2>4. SubSeq(SubSeq(c, b + 1, n), WordSize + 1, n - b) = SubSeq(c, b + 1 + (WordSize + 1) - 1, b + 1 + (n - b) - 1)
    <3>1. PICK i, j, k, l : i = b + 1 /\ j = n /\ k = WordSize + 1 /\ l = n - b
      OBVIOUS
    <3>2. i \in 1 .. Len(c) /\ j \in 1 .. Len(c) /\ k \in 1 .. j - i + 1 /\ l \in 1 .. j - i + 1
      BY <2>3, <3>1
    <3> HIDE DEF c
    <3>3. SubSeq(SubSeq(c, i, j), k, l) = SubSeq(c, i + k - 1, i + l - 1)
      BY <1>1, <3>2, SubSeqOfSubSeq
    <3> QED BY <3>1, <3>3
  <2>5. b + 1 + (WordSize + 1) - 1 = (w + 1) * WordSize + 1 /\ b + 1 + (n - b) - 1 = n
    <3>1. (w + 1) * WordSize = w * WordSize + WordSize
      BY FlashAssumption
    <3> QED BY <1>3, <3>1, FlashAssumption
  <2> QED BY <1>2, <2>1, <2>4, <2>5
<1> QED BY <1>7, <1>8, <1>9, <1>10, <1>11

\* Before the first word of x.
LEMMA DriverOpens ==
  ASSUME NEW x \in Keys \cup Values, NEW start \in Nat
  PROVE  /\ open(start, Content[x]).destination_ptr = start /\ 0 \in 0 .. Words(x) - 1
         /\ open(start, Content[x]).rest = SubSeq(Content[x], 0 * WordSize + 1, Len(Content[x]))
<1>1. Content[x] \in Seq(Nat) /\ Words(x) \in Nat \ {0} /\ 0 * WordSize + 1 = 1
  BY ContentType, FlashAssumption
<1> QED BY <1>1, SubSeqFull DEF open

-----------------------------------------------------------------------------
(***************************************************************************)
(* The inductive invariant.                                                *)
(***************************************************************************)
Writing == pc \in {"spans", "key", "value", "ready"}

Shapes ==
  /\ up \in BOOLEAN /\ dirty \in BOOLEAN
  /\ node \in [Nodes -> NodeType]
  /\ data \in [Cells -> [1..WordSize -> Nat]]
  /\ pc \in Locations
  /\ op \in [slot : Nodes \cup {NoNode}, dest : Nat, adding : {<< >>} \cup (Keys \X Values),
             flash_cb : [destination_ptr : Nat, rest : Seq(Nat)], count : Nat]
  /\ span \in [Readers -> Span]

\* How far the driver has come with x, which begins at word start.
Progress(x, start) ==
  LET w == op.flash_cb.destination_ptr - start IN
  /\ w \in 0 .. Words(x) - 1
  /\ op.flash_cb.rest = SubSeq(Content[x], w * WordSize + 1, Len(Content[x]))
  /\ Holds(start, x, w)

\* Where the call that is writing goes on.
Ahead ==
  CASE pc = "spans" -> op.dest
    [] pc \in {"key", "value"} -> op.flash_cb.destination_ptr
    [] OTHER -> op.dest + WordsFor(op.adding[1], op.adding[2])

\* The locals of the call that owns the lock.
CallIsSound ==
  /\ pc = "idle" => op = NoOp
  /\ pc \in {"erase_info", "erase_data"} => dirty /\ op = [NoOp EXCEPT !.count = op.count]
  /\ pc = "erase_info" => op.count <= NodeCount
  /\ pc = "erase_data" => op.count <= DataSize
  /\ Writing =>
       /\ op.slot \in Nodes /\ op.adding \in Keys \X Values
       /\ op.dest >= 1 /\ op.dest + WordsFor(op.adding[1], op.adding[2]) <= DataSize + 1
       /\ ~node[op.slot].ready /\ ~node[op.slot].deleted
       /\ IF pc = "spans" THEN node[op.slot].spans # "whole"
          ELSE /\ node[op.slot].spans = "whole"
               /\ node[op.slot].key = KeySpan /\ node[op.slot].value = ValueSpan
  /\ pc \in {"spans", "ready"} => op.flash_cb = NotOpen
  /\ pc = "key" => Progress(op.adding[1], op.dest)
  /\ pc \in {"value", "ready"} => Holds(op.dest, op.adding[1], Words(op.adding[1]))
  /\ pc = "value" => Progress(op.adding[2], ValueSpan.ptr)
  /\ pc = "ready" => Holds(ValueSpan.ptr, op.adding[2], Words(op.adding[2]))

\* What is ahead of the driver is erased.
ErasedAhead == Writing => \A c \in Cells : c >= Ahead => data[c] = ErasedWord

\* A node is written from left to right: spans, ready, deleted.
NodesAreSound ==
  \A i \in Nodes :
    /\ node[i].deleted => node[i].ready
    /\ node[i].ready => node[i].spans = "whole"
    /\ node[i].spans # "whole" => node[i].key = NoSpan /\ node[i].value = NoSpan

FlashInv == Shapes /\ CallIsSound /\ ErasedAhead /\ NodesAreSound

\* Node i is an entry with key k and value v.
IsEntry(i, k, v) ==
  LET key == node[i].key
      value == node[i].value
  IN
  /\ key.ptr >= 1 /\ key.size = Len(Content[k])
  /\ value.ptr = key.ptr + Words(k) /\ value.size = Len(Content[v])
  /\ value.ptr + Words(v) <= DataSize + 1
  /\ Holds(key.ptr, k, Words(k)) /\ Holds(value.ptr, v, Words(v))

LiveAreEntries == \A i \in LiveNodes : \E k \in Keys, v \in Values : IsEntry(i, k, v)

EntriesApart == \A i, j \in LiveNodes : i # j => Extent(i) \cap Extent(j) = {}

\* An entry is written above all others.
WrittenAbove == Writing => \A i \in LiveNodes : Extent(i) \subseteq 1 .. op.dest - 1

\* Nodes are taken in order.
NodesInOrder ==
  /\ \A i, j \in Nodes : j < i /\ is_empty(j) => is_empty(i)
  /\ Writing => /\ \A i \in Nodes : i > op.slot => is_empty(i)
                /\ \A i \in Nodes : i < op.slot => ~is_empty(i)

\* Of two entries with the same key the second cannot be found, even when the first
\* is deleted, and so is an entry with the key that is being added.
SameKeyIsHidden ==
  /\ \A k \in Keys, i, j \in Nodes :
       i < j /\ Matches(i, k) /\ Matches(j, k) => \E s \in Nodes : s < j /\ Stops(s)
  /\ Writing => \A i \in Nodes : Matches(i, op.adding[1]) => \E s \in Nodes : s < i /\ Stops(s)

EntryInv ==
  ~dirty =>
    /\ LiveAreEntries
    /\ EntriesApart
    /\ WrittenAbove
    /\ NodesInOrder
    /\ SameKeyIsHidden

-----------------------------------------------------------------------------
(***************************************************************************)
(* Reading the flash.                                                      *)
(***************************************************************************)

\* A key or value that is in the flash as a whole is read as it was written.
LEMMA ReadBack ==
  ASSUME NEW x \in Keys \cup Values, NEW s, s.size = Len(Content[x]), s.ptr \in Nat,
         Holds(s.ptr, x, Words(x))
  PROVE  Read(s) = Content[x]
<1>1. Content[x] \in Seq(Nat) /\ Len(Content[x]) \in Nat
  BY ContentType
<1>2. ASSUME NEW i \in 1 .. s.size
      PROVE  data[s.ptr + (i - 1) \div WordSize][((i - 1) % WordSize) + 1] = Content[x][i]
  <2>1. PICK w, r : w = (i - 1) \div WordSize /\ r = ((i - 1) % WordSize) + 1
    OBVIOUS
  <2>2. w \in 0 .. Words(x) - 1 /\ r \in 1..WordSize /\ w * WordSize + r = i
    <3>1. i \in 1 .. Len(Content[x])
      OBVIOUS
    <3>2. (w * WordSize) + r = i
      <4>1. ((i - 1) \div WordSize) * WordSize + ((i - 1) % WordSize) + 1 = i
        BY <1>1, <3>1, ByteInWord
      <4>2. w * WordSize \in Int /\ (i - 1) % WordSize \in Int
        <5>1. i - 1 \in Nat
          BY <1>1, <3>1
        <5> QED BY <2>1, <5>1, Division, FlashAssumption
      <4> QED BY <2>1, <4>1, <4>2
    <3> QED BY <1>1, <2>1, <3>1, <3>2, ByteInWord DEF Words
  <2>3. data[s.ptr + w] = WordOf(x, w)
    BY <2>2 DEF Holds
  <2>4. WordOf(x, w)[r] = Content[x][i]
    BY <1>1, <2>2 DEF WordOf
  <2> QED BY <2>1, <2>3, <2>4
<1>3. Read(s) = [i \in 1 .. Len(Content[x]) |-> Content[x][i]]
  BY <1>2 DEF Read
<1>4. \A c \in Seq(Nat) : c = [i \in 1 .. Len(c) |-> c[i]]
  OBVIOUS
<1> QED BY <1>1, <1>3, <1>4

\* What is read does not change while the words of the span do not.
LEMMA ReadStays ==
  ASSUME NEW s \in Span,
         \A c \in s.ptr .. s.ptr + NumberOfWords(s.size) - 1 : data'[c] = data[c]
  PROVE  Read(s)' = Read(s)
<1>1. s.ptr \in Nat /\ s.size \in Nat /\ NumberOfWords(s.size) \in Nat
  BY WordsEnough DEF Span
<1>2. ASSUME NEW i \in 1 .. s.size
      PROVE  data'[s.ptr + (i - 1) \div WordSize] = data[s.ptr + (i - 1) \div WordSize]
  <2>1. (i - 1) \div WordSize \in 0 .. NumberOfWords(s.size) - 1
    BY <1>1, ByteInWord
  <2> QED BY <1>1, <2>1
<1> QED BY <1>2 DEF Read

\* get_start_registry_data_free_space.
LEMMA FreeSpace ==
  ASSUME Shapes
  PROVE  /\ free_space \in 1 .. DataSize + 1
         /\ \A c \in Cells : c >= free_space => data[c] = ErasedWord
         /\ \A c \in Cells : data[c] # ErasedWord => c < free_space
<1> DEFINE S == {0} \cup {i \in Cells : data[i] # ErasedWord}
           T == {n \in 0..DataSize : \E i \in S : n = DataSize - i}
<1>1. S \subseteq 0..DataSize /\ 0 \in S /\ DataSize \in Nat
  BY RegistryAssumption DEF Cells
<1>2. \E i \in S : \A j \in S : j <= i
  <2>1. T \subseteq Nat /\ DataSize \in T
    BY <1>1
  <2>2. PICK n \in T : \A m \in T : n <= m
    <3> HIDE DEF T
    <3> QED BY <2>1, LeastNatural
  <2>3. PICK i \in S : n = DataSize - i
    BY <2>2
  <2>4. ASSUME NEW j \in S PROVE j <= i
    <3>1. DataSize - j \in T
      BY <1>1
    <3> QED BY <1>1, <2>2, <2>3, <3>1
  <2> QED BY <2>3, <2>4
<1>3. Greatest(S) \in S /\ \A j \in S : j <= Greatest(S)
  <2> HIDE DEF S
  <2> QED BY <1>2 DEF Greatest
<1>4. free_space = 1 + Greatest(S)
  BY DEF free_space
<1>5. PICK g \in S : g = Greatest(S)
  BY <1>3
<1>6. g \in 0..DataSize /\ free_space = 1 + g /\ \A j \in S : j <= g
  BY <1>1, <1>3, <1>4, <1>5
<1>7. \A c \in Cells : data[c] # ErasedWord => c <= g
  BY <1>6
<1>8. \A c \in Cells : c \in Nat
  BY <1>1 DEF Cells
<1> QED BY <1>1, <1>6, <1>7, <1>8

LEMMA LeastNode ==
  ASSUME NEW S, S \subseteq Nodes, S # {}
  PROVE  Least(S) \in S /\ \A j \in S : Least(S) <= j
<1>1. S \subseteq Nat
  BY DEF Nodes
<1>2. \E i \in S : \A j \in S : i <= j
  BY <1>1, LeastNatural
<1> QED BY <1>2 DEF Least

\* The first of the nodes that match, unless a node that stops the search comes first.
FirstMatch(stops, matches) ==
  LET seen == stops \cup matches IN
  IF seen = {} \/ Least(seen) \in stops THEN NoNode ELSE Least(seen)

LEMMA FirstMatchIs ==
  ASSUME NEW stops, NEW matches, stops \subseteq Nodes, matches \subseteq Nodes, stops \cap matches = {}
  PROVE  /\ FirstMatch(stops, matches) \in matches \cup {NoNode}
         /\ \A j \in stops \cup matches : FirstMatch(stops, matches) # NoNode => FirstMatch(stops, matches) <= j
         /\ FirstMatch(stops, matches) = NoNode => \A i \in matches : \E s \in stops : s < i
<1> DEFINE seen == stops \cup matches
<1>1. FirstMatch(stops, matches) = IF seen = {} \/ Least(seen) \in stops THEN NoNode ELSE Least(seen)
  BY DEF FirstMatch
<1>2. \A i \in Nodes : i \in Nat /\ i # NoNode
  BY DEF Nodes, NoNode
<1>3. CASE seen = {}
  BY <1>1, <1>3
<1>4. CASE seen # {}
  <2>1. Least(seen) \in seen /\ \A j \in seen : Least(seen) <= j
    BY <1>4, LeastNode
  <2>2. PICK l \in seen : l = Least(seen) /\ (\A j \in seen : l <= j) /\ l \in Nodes
    BY <2>1
  <2>3. \A i \in seen : i = l \/ l < i
    BY <1>2, <2>2
  <2>4. CASE l \in stops
    <3>1. FirstMatch(stops, matches) = NoNode
      BY <1>1, <2>2, <2>4
    <3>2. \A i \in matches : l < i
      BY <2>3, <2>4
    <3> QED BY <2>4, <3>1, <3>2
  <2>5. CASE l \notin stops
    <3>1. FirstMatch(stops, matches) = l
      BY <1>1, <1>4, <2>2, <2>5
    <3> QED BY <1>2, <2>2, <2>3, <2>5, <3>1
  <2> QED BY <2>4, <2>5
<1> QED BY <1>3, <1>4

\* find_node_in_registry.
LEMMA Finding ==
  ASSUME NEW k
  PROVE  /\ find_node_in_registry(k) \in Nodes \cup {NoNode}
         /\ find_node_in_registry(k) # NoNode =>
              /\ Matches(find_node_in_registry(k), k)
              /\ \A j \in Nodes : j < find_node_in_registry(k) => ~Stops(j) /\ ~Matches(j, k)
         /\ find_node_in_registry(k) = NoNode =>
              \A i \in Nodes : Matches(i, k) => \E s \in Nodes : s < i /\ Stops(s)
<1>1. PICK stops, matches : stops = {i \in Nodes : Stops(i)} /\ matches = {i \in Nodes : Matches(i, k)}
  OBVIOUS
<1>2. stops \cap matches = {}
  BY <1>1 DEF Stops, Matches
<1>3. find_node_in_registry(k) = FirstMatch(stops, matches)
  <2>1. {i \in Nodes : Stops(i) \/ Matches(i, k)} = stops \cup matches
    BY <1>1
  <2>2. stops \cup matches # {} => Least(stops \cup matches) \in Nodes
    BY <1>1, LeastNode
  <2> QED BY <1>1, <2>1, <2>2 DEF find_node_in_registry, FirstMatch
<1>4. \A i, j \in Nodes : ~(i <= j /\ j < i)
  BY DEF Nodes
<1> QED BY <1>1, <1>2, <1>3, <1>4, FirstMatchIs

\* The same after a step.
LEMMA FindingNext ==
  ASSUME NEW k
  PROVE  /\ find_node_in_registry(k)' \in Nodes \cup {NoNode}
         /\ find_node_in_registry(k)' # NoNode =>
              \E f \in Nodes : /\ f = find_node_in_registry(k)' /\ Matches(f, k)'
                               /\ \A j \in Nodes : j < f => ~Stops(j)' /\ ~Matches(j, k)'
         /\ find_node_in_registry(k)' = NoNode =>
              \A i \in Nodes : Matches(i, k)' => \E s \in Nodes : s < i /\ Stops(s)'
<1>1. PICK stops, matches : stops = {i \in Nodes : Stops(i)'} /\ matches = {i \in Nodes : Matches(i, k)'}
  OBVIOUS
<1>2. stops \cap matches = {}
  BY <1>1 DEF Stops, Matches
<1>3. find_node_in_registry(k)' = FirstMatch(stops, matches)
  <2>1. {i \in Nodes : Stops(i)' \/ Matches(i, k)'} = stops \cup matches
    BY <1>1
  <2>2. stops \cup matches # {} => Least(stops \cup matches) \in Nodes
    BY <1>1, LeastNode
  <2>3. PICK l : l = Least(stops \cup matches)
    OBVIOUS
  <2>4. l \in Nodes => (Stops(l)' <=> l \in stops)
    BY <1>1
  <2>5. find_node_in_registry(k)' =
          IF stops \cup matches = {} \/ Stops(l)' THEN NoNode ELSE l
    BY <2>1, <2>3 DEF find_node_in_registry, Stops
  <2> QED BY <2>2, <2>3, <2>4, <2>5 DEF FirstMatch
<1>4. \A i, j \in Nodes : ~(i <= j /\ j < i)
  BY DEF Nodes
<1>5. PICK f : f = FirstMatch(stops, matches)
  OBVIOUS
<1>6. /\ f \in matches \cup {NoNode}
      /\ \A i \in stops \cup matches : f # NoNode => f <= i
      /\ f = NoNode => \A i \in matches : \E n \in stops : n < i
  BY <1>1, <1>2, <1>5, FirstMatchIs
<1>7. CASE f = NoNode
  BY <1>1, <1>3, <1>5, <1>6, <1>7
<1>8. CASE f # NoNode
  <2>1. f \in Nodes /\ Matches(f, k)'
    BY <1>1, <1>6, <1>8
  <2>2. \A i \in Nodes : i < f => ~Stops(i)' /\ ~Matches(i, k)'
    BY <1>1, <1>4, <1>6, <1>8, <2>1
  <2> QED BY <1>3, <1>5, <1>8, <2>1, <2>2
<1> QED BY <1>7, <1>8

LEMMA FirstIsFoundNext ==
  ASSUME NEW k, NEW i \in Nodes, Matches(i, k)', \A j \in Nodes : j < i => ~Stops(j)' /\ ~Matches(j, k)'
  PROVE  find_node_in_registry(k)' = i
<1>1. \A j \in Nodes : j \in Nat /\ j # NoNode
  BY DEF Nodes, NoNode
<1>2. find_node_in_registry(k)' # NoNode
  BY FindingNext
<1>3. PICK f \in Nodes : f = find_node_in_registry(k)' /\ Matches(f, k)' /\ ~(i < f)
  BY <1>2, FindingNext
<1> QED BY <1>1, <1>3

LEMMA HiddenIsNotFoundNext ==
  ASSUME NEW k, \A i \in Nodes : Matches(i, k)' => \E s \in Nodes : s < i /\ Stops(s)'
  PROVE  find_node_in_registry(k)' = NoNode
<1> SUFFICES ASSUME find_node_in_registry(k)' # NoNode PROVE FALSE
  OBVIOUS
<1>1. PICK f \in Nodes : Matches(f, k)' /\ \A j \in Nodes : j < f => ~Stops(j)'
  BY FindingNext
<1> QED BY <1>1

-----------------------------------------------------------------------------
(***************************************************************************)
(* FlashInv: the call that writes, and where.                              *)
(***************************************************************************)
OpShape ==
  [slot : Nodes \cup {NoNode}, dest : Nat, adding : {<< >>} \cup (Keys \X Values),
   flash_cb : [destination_ptr : Nat, rest : Seq(Nat)], count : Nat]

LEMMA NoOpType == NoOp \in OpShape /\ NoOp.slot = NoNode /\ NoOp.count = 0
<1>1. << >> \in Seq(Nat)
  OBVIOUS
<1> QED BY <1>1 DEF NoOp, NotOpen, open, OpShape

\* A call that uses the driver keeps its other locals.
LEMMA DriverOnly ==
  ASSUME NEW o \in OpShape, NEW cb \in [destination_ptr : Nat, rest : Seq(Nat)]
  PROVE  LET changed == [o EXCEPT !.flash_cb = cb] IN
           /\ changed \in OpShape /\ changed.slot = o.slot /\ changed.dest = o.dest
           /\ changed.adding = o.adding /\ changed.count = o.count /\ changed.flash_cb = cb
BY DEF OpShape

LEMMA EndsIdle ==
  ASSUME Shapes', pc' = "idle", op' = NoOp, NodesAreSound'
  PROVE  FlashInv'
BY DEF FlashInv, CallIsSound, ErasedAhead, Writing

\* A flash error, at any word.
LEMMA ErrorFlash ==
  ASSUME FlashInv, FlashError, UNCHANGED <<up, span, dirty>>
  PROVE  FlashInv' /\ pc' = "idle" /\ UNCHANGED <<node, data, dirty>>
<1>1. pc' = "idle" /\ op' = NoOp /\ UNCHANGED <<node, data, up, span, dirty>>
  BY DEF FlashError, Done
<1>2. Shapes' /\ NodesAreSound'
  BY <1>1, NoOpType DEF FlashInv, Shapes, OpShape, NodesAreSound, Locations
<1> QED BY <1>1, <1>2, EndsIdle

\* A call that reads flash only, or writes one word at once.
LEMMA QuietFlash ==
  ASSUME FlashInv, pc = "idle", UNCHANGED <<data, pc, op>>, Shapes', NodesAreSound'
  PROVE  FlashInv'
BY EndsIdle DEF FlashInv, CallIsSound

\* Whether the registry is up says nothing about the flash.
LEMMA SameFlash ==
  ASSUME FlashInv, up' \in BOOLEAN, UNCHANGED <<node, data, pc, op, span, dirty>>
  PROVE  FlashInv'
<1>1. Shapes'
  BY DEF FlashInv, Shapes
<1>2. NodesAreSound'
  BY DEF FlashInv, NodesAreSound
<1>3. /\ Writing' <=> Writing /\ Ahead' = Ahead /\ KeySpan' = KeySpan /\ ValueSpan' = ValueSpan
  BY DEF Writing, Ahead, KeySpan, ValueSpan
<1>4. ErasedAhead'
  BY <1>3 DEF FlashInv, ErasedAhead
<1>5. CallIsSound'
  <2>1. /\ pc' = "idle" => op' = NoOp
        /\ pc' \in {"erase_info", "erase_data"} => dirty' /\ op' = [NoOp EXCEPT !.count = op'.count]
        /\ pc' = "erase_info" => op'.count <= NodeCount
        /\ pc' = "erase_data" => op'.count <= DataSize
        /\ pc' \in {"spans", "ready"} => op'.flash_cb = NotOpen
    BY DEF FlashInv, CallIsSound
  <2>2. Writing' =>
          /\ op'.slot \in Nodes /\ op'.adding \in Keys \X Values
          /\ op'.dest >= 1 /\ op'.dest + WordsFor(op'.adding[1], op'.adding[2]) <= DataSize + 1
          /\ ~node'[op'.slot].ready /\ ~node'[op'.slot].deleted
          /\ IF pc' = "spans" THEN node'[op'.slot].spans # "whole"
             ELSE /\ node'[op'.slot].spans = "whole"
                  /\ node'[op'.slot].key = KeySpan' /\ node'[op'.slot].value = ValueSpan'
    BY <1>3 DEF FlashInv, CallIsSound
  <2>3. pc' = "key" => Progress(op.adding[1], op.dest)'
    BY DEF FlashInv, CallIsSound, Progress, Holds
  <2>4. pc' \in {"value", "ready"} => Holds(op.dest, op.adding[1], Words(op.adding[1]))'
    BY DEF FlashInv, CallIsSound, Holds
  <2>5. pc' = "value" => Progress(op.adding[2], ValueSpan.ptr)'
    BY DEF FlashInv, CallIsSound, Progress, Holds, KeySpan, ValueSpan
  <2>6. pc' = "ready" => Holds(ValueSpan.ptr, op.adding[2], Words(op.adding[2]))'
    BY DEF FlashInv, CallIsSound, Holds, KeySpan, ValueSpan
  <2> QED BY <2>1, <2>2, <2>3, <2>4, <2>5, <2>6 DEF CallIsSound
<1> QED BY <1>1, <1>2, <1>4, <1>5 DEF FlashInv

LEMMA InitFlash == Init => FlashInv
<1> SUFFICES ASSUME Init PROVE FlashInv
  OBVIOUS
<1>1. ErasedWord \in [1..WordSize -> Nat]
  BY FlashAssumption DEF ErasedWord
<1>2. EmptyNode \in NodeType /\ NoSpan \in Span
  BY DEF EmptyNode, NodeType, NoSpan, Span, SpanStates
<1>3. Shapes
  BY <1>1, <1>2, NoOpType DEF Init, Shapes, OpShape, Locations
<1>4. NodesAreSound
  BY DEF Init, NodesAreSound, EmptyNode
<1> QED BY <1>3, <1>4 DEF Init, FlashInv, CallIsSound, ErasedAhead, Writing

LEMMA WordsForType ==
  ASSUME NEW k \in Keys, NEW v \in Values
  PROVE  Words(k) \in Nat \ {0} /\ Words(v) \in Nat \ {0} /\ WordsFor(k, v) = Words(k) + Words(v)
BY ContentType DEF Words, WordsFor

\* What add decides, when it goes on.
Begins(k, v) ==
  /\ find_node_in_registry(k) = NoNode
  /\ op.slot \in Nodes /\ is_empty(op.slot) /\ \A j \in Nodes : j < op.slot => ~is_empty(j)
  /\ op.dest = free_space /\ op.dest + WordsFor(k, v) <= DataSize + 1
  /\ pc = "spans" /\ op \in OpShape /\ op.adding = <<k, v>> /\ op.flash_cb = NotOpen

LEMMA AddBegins ==
  ASSUME Shapes, NEW k \in Keys, NEW v \in Values, add(k, v)
  PROVE  UNCHANGED vars \/ (Begins(k, v)' /\ pc = "idle" /\ UNCHANGED <<up, node, data, span, dirty>>)
<1> SUFFICES ASSUME ~UNCHANGED vars
             PROVE  Begins(k, v)' /\ pc = "idle" /\ UNCHANGED <<up, node, data, span, dirty>>
  OBVIOUS
<1>1. /\ pc = "idle" /\ find_node_in_registry(k) = NoNode /\ ~NoRoom(k, v) /\ free_nodes # {}
      /\ pc' = "spans"
      /\ op' = [slot |-> Least(free_nodes), dest |-> free_space, adding |-> <<k, v>>,
                flash_cb |-> NotOpen, count |-> 0]
      /\ UNCHANGED <<up, node, data, span, dirty>>
  BY DEF add, Idle
<1>2. PICK f : f = Least(free_nodes)
  OBVIOUS
<1>3. f \in Nodes /\ is_empty(f) /\ \A j \in Nodes : j < f => ~is_empty(j)
  <2>1. free_nodes \subseteq Nodes
    BY DEF free_nodes
  <2>2. f \in free_nodes /\ \A j \in free_nodes : f <= j
    BY <1>1, <1>2, <2>1, LeastNode
  <2> QED BY <2>1, <2>2 DEF free_nodes, Nodes
<1>4. PICK d : d = free_space
  OBVIOUS
<1>5. d \in Nat /\ d + WordsFor(k, v) <= DataSize + 1
  BY <1>1, <1>4, FreeSpace, WordsForType, RegistryAssumption DEF NoRoom
<1>6. op' \in OpShape
  <2>1. << >> \in Seq(Nat)
    OBVIOUS
  <2> QED BY <1>1, <1>2, <1>3, <1>4, <1>5, <2>1 DEF OpShape, NotOpen, open
<1>7. free_space' = free_space
  BY <1>1 DEF free_space
<1>8. find_node_in_registry(k)' = NoNode
  BY <1>1 DEF find_node_in_registry, Stops, Matches, Read
<1> QED BY <1>1, <1>2, <1>3, <1>4, <1>5, <1>6, <1>7, <1>8 DEF Begins, is_empty

LEMMA AddFlash ==
  ASSUME FlashInv, NEW k \in Keys, NEW v \in Values, Begins(k, v)', UNCHANGED <<up, node, data, span, dirty>>
  PROVE  FlashInv'
<1> USE DEF FlashInv
<1>1. /\ op'.slot \in Nodes /\ is_empty(op'.slot) /\ op'.dest = free_space
      /\ op'.dest + WordsFor(k, v) <= DataSize + 1
      /\ pc' = "spans" /\ op' \in OpShape /\ op'.adding = <<k, v>> /\ op'.flash_cb = NotOpen
  BY DEF Begins, is_empty, free_space
<1>2. Shapes'
  BY <1>1 DEF Shapes, OpShape, Locations
<1>3. op'.dest >= 1 /\ \A c \in Cells : c >= op'.dest => data[c] = ErasedWord
  BY <1>1, FreeSpace
<1>4. CallIsSound'
  <2>1. op'.adding[1] = k /\ op'.adding[2] = v /\ op'.adding \in Keys \X Values
    BY <1>1
  <2>2. ~node[op'.slot].ready /\ ~node[op'.slot].deleted /\ node[op'.slot].spans # "whole"
    BY <1>1 DEF is_empty, EmptyNode
  <2> QED BY <1>1, <1>3, <2>1, <2>2 DEF CallIsSound, Writing
<1>5. ErasedAhead'
  BY <1>1, <1>3 DEF ErasedAhead, Ahead
<1>6. NodesAreSound'
  BY DEF NodesAreSound
<1> QED BY <1>2, <1>4, <1>5, <1>6

\* The locals of the call that writes key k and value v.
LEMMA LocalsOf ==
  ASSUME FlashInv, Writing
  PROVE  \E k \in Keys, v \in Values :
           /\ op.adding = <<k, v>> /\ op.adding[1] = k /\ op.adding[2] = v
           /\ Words(k) \in Nat \ {0} /\ Words(v) \in Nat \ {0}
           /\ op.dest \in Nat \ {0} /\ op.dest + Words(k) + Words(v) <= DataSize + 1
           /\ KeySpan = [ptr |-> op.dest, size |-> Len(Content[k])]
           /\ ValueSpan = [ptr |-> op.dest + Words(k), size |-> Len(Content[v])]
           /\ KeySpan \in Span /\ ValueSpan \in Span
<1>1. op.adding \in Keys \X Values /\ op.dest \in Nat /\ op.dest >= 1
  BY DEF FlashInv, CallIsSound, Shapes
<1>2. PICK k \in Keys, v \in Values : op.adding = <<k, v>>
  BY <1>1
<1>3. op.adding[1] = k /\ op.adding[2] = v
  BY <1>2
<1>4. /\ Words(k) \in Nat \ {0} /\ Words(v) \in Nat \ {0} /\ WordsFor(k, v) = Words(k) + Words(v)
      /\ Len(Content[k]) \in Nat /\ Len(Content[v]) \in Nat
  BY <1>2, WordsForType, ContentType
<1>5. op.dest + Words(k) + Words(v) <= DataSize + 1
  BY <1>1, <1>3, <1>4, RegistryAssumption DEF FlashInv, CallIsSound
<1>6. /\ KeySpan = [ptr |-> op.dest, size |-> Len(Content[k])]
      /\ ValueSpan = [ptr |-> op.dest + Words(k), size |-> Len(Content[v])]
  BY <1>3 DEF KeySpan, ValueSpan, Words
<1>7. op.dest \in Nat \ {0} /\ op.dest + Words(k) \in Nat
  BY <1>1, <1>4
<1>8. KeySpan \in Span /\ ValueSpan \in Span
  BY <1>4, <1>6, <1>7 DEF Span
<1> QED BY <1>2, <1>3, <1>4, <1>5, <1>6, <1>7, <1>8

LEMMA SpansFlash ==
  ASSUME FlashInv, WriteSpans
  PROVE  FlashInv'
<1> USE DEF FlashInv
<1>1. pc = "spans" /\ Writing /\ UNCHANGED <<up, span, dirty>>
  BY DEF WriteSpans, Writing
<1>2. PICK k \in Keys, v \in Values :
        /\ op.adding = <<k, v>> /\ op.adding[1] = k /\ op.adding[2] = v
        /\ Words(k) \in Nat \ {0} /\ Words(v) \in Nat \ {0}
        /\ op.dest \in Nat \ {0} /\ op.dest + Words(k) + Words(v) <= DataSize + 1
        /\ KeySpan = [ptr |-> op.dest, size |-> Len(Content[k])]
        /\ ValueSpan = [ptr |-> op.dest + Words(k), size |-> Len(Content[v])]
        /\ KeySpan \in Span /\ ValueSpan \in Span
  BY <1>1, LocalsOf
<1>3. /\ op.slot \in Nodes /\ ~node[op.slot].ready /\ ~node[op.slot].deleted
      /\ node[op.slot] \in NodeType /\ node \in [Nodes -> NodeType] /\ op \in OpShape
  BY <1>1 DEF CallIsSound, Shapes, OpShape
<1>4. CASE /\ node' = [node EXCEPT ![op.slot].spans = "torn"] /\ node[op.slot].spans = "empty"
           /\ UNCHANGED <<data, pc, op>>
  <2>1. Shapes'
    BY <1>1, <1>3, <1>4 DEF Shapes, NodeType, SpanStates
  <2>2. NodesAreSound'
    BY <1>1, <1>3, <1>4 DEF NodesAreSound
  <2>3. CallIsSound'
    <3>1. WordsFor(op'.adding[1], op'.adding[2]) = WordsFor(op.adding[1], op.adding[2])
      BY <1>4
    <3> QED BY <1>1, <1>3, <1>4, <3>1 DEF CallIsSound, Writing
  <2>4. ErasedAhead'
    BY <1>1, <1>4 DEF ErasedAhead, Ahead, Writing
  <2> QED BY <2>1, <2>2, <2>3, <2>4
<1>5. CASE /\ node' = [node EXCEPT ![op.slot].spans = "whole", ![op.slot].key = KeySpan,
                                   ![op.slot].value = ValueSpan]
           /\ pc' = "key" /\ UNCHANGED data
           /\ op' = [op EXCEPT !.flash_cb = open(KeySpan.ptr, Content[op.adding[1]])]
  <2>1. /\ op' \in OpShape /\ op'.slot = op.slot /\ op'.dest = op.dest /\ op'.adding = op.adding
        /\ op'.flash_cb = open(op.dest, Content[k])
    BY <1>2, <1>3, <1>5, ContentType DEF OpShape, open
  <2>2. Shapes'
    BY <1>1, <1>2, <1>3, <1>5, <2>1 DEF Shapes, NodeType, SpanStates, OpShape, Locations
  <2>3. NodesAreSound'
    BY <1>1, <1>3, <1>5 DEF NodesAreSound
  <2>4. KeySpan' = KeySpan /\ ValueSpan' = ValueSpan
    BY <2>1 DEF KeySpan, ValueSpan
  <2>5. Progress(k, op.dest)'
    <3>1. /\ op'.flash_cb.destination_ptr = op.dest /\ 0 \in 0 .. Words(k) - 1
          /\ op'.flash_cb.rest = SubSeq(Content[k], 0 * WordSize + 1, Len(Content[k]))
      BY SMTT(30), <1>2, <2>1, DriverOpens
    <3>2. op'.dest = op.dest /\ op.dest - op.dest = 0
      BY <1>2, <2>1
    <3>3. Holds(op.dest, k, 0)'
      BY DEF Holds
    <3> QED BY <3>1, <3>2, <3>3 DEF Progress, Holds
  <2>6. CallIsSound'
    <3>1. WordsFor(op'.adding[1], op'.adding[2]) = WordsFor(op.adding[1], op.adding[2])
      BY <2>1
    <3>2. Progress(op.adding[1], op.dest)'
      BY <1>2, <2>1, <2>5 DEF Progress, Holds
    <3>3. /\ node'[op.slot].spans = "whole" /\ node'[op.slot].key = KeySpan /\ node'[op.slot].value = ValueSpan
          /\ ~node'[op.slot].ready /\ ~node'[op.slot].deleted
      BY <1>3, <1>5 DEF NodeType
    <3> QED BY <1>1, <1>3, <1>5, <2>1, <2>4, <3>1, <3>2, <3>3 DEF CallIsSound, Writing
  <2>7. ErasedAhead'
    <3>1. Ahead = op.dest /\ Ahead' = op.dest
      BY <1>1, <1>5, <2>1 DEF Ahead, open
    <3> QED BY <1>1, <1>5, <3>1 DEF ErasedAhead
  <2> QED BY <2>2, <2>3, <2>6, <2>7
<1>6. CASE FlashError
  BY <1>1, <1>6, ErrorFlash
<1> QED BY <1>4, <1>5, <1>6 DEF WriteSpans

\* One word of x, which begins at start.
LEMMA ProgramWord ==
  ASSUME Shapes, NEW x \in Keys \cup Values, NEW start \in Nat \ {0}, start + Words(x) <= DataSize + 1,
         Progress(x, start), NEW next, NEW next_cb, Program(next, next_cb)
  PROVE  \E c \in Cells :
           /\ c = op.flash_cb.destination_ptr /\ c >= start /\ c < start + Words(x)
           /\ data' = [data EXCEPT ![c] = WordOf(x, c - start)] /\ data' \in [Cells -> [1..WordSize -> Nat]]
           /\ UNCHANGED node
           /\ IF c + 1 = start + Words(x)
              THEN /\ pc' = next /\ op' = [op EXCEPT !.flash_cb = next_cb]
                   /\ Holds(start, x, Words(x))'
              ELSE /\ pc' = pc /\ op' = [op EXCEPT !.flash_cb = Advance(op.flash_cb)]
                   /\ Advance(op.flash_cb) \in [destination_ptr : Nat, rest : Seq(Nat)]
                   /\ op'.flash_cb.destination_ptr = c + 1
                   /\ Progress(x, start)'
<1>1. PICK c : c = op.flash_cb.destination_ptr
  OBVIOUS
<1>2. PICK w : w = c - start
  OBVIOUS
<1>3. /\ w \in 0 .. Words(x) - 1 /\ Words(x) \in Nat \ {0} /\ c \in Nat
      /\ op.flash_cb.rest = SubSeq(Content[x], w * WordSize + 1, Len(Content[x]))
      /\ Holds(start, x, w)
  BY <1>1, <1>2, ContentType DEF Progress, Shapes
<1>4. c = start + w /\ c \in Cells /\ c >= start /\ c < start + Words(x)
  BY <1>2, <1>3, RegistryAssumption DEF Cells
<1>5. /\ LastWord(op.flash_cb) <=> w + 1 = Words(x)
      /\ NextWord(op.flash_cb) = WordOf(x, w)
      /\ Advance(op.flash_cb).destination_ptr = c + 1
      /\ w + 1 < Words(x) =>
           Advance(op.flash_cb).rest = SubSeq(Content[x], (w + 1) * WordSize + 1, Len(Content[x]))
  <2>1. op.flash_cb.rest = SubSeq(Content[x], w * WordSize + 1, Len(Content[x]))
    BY <1>3
  <2>2. w \in 0 .. Words(x) - 1 /\ op.flash_cb.destination_ptr = c
    BY <1>1, <1>3
  <2>3. /\ LastWord(op.flash_cb) <=> w + 1 = Words(x)
        /\ NextWord(op.flash_cb) = WordOf(x, w)
        /\ Advance(op.flash_cb).destination_ptr = op.flash_cb.destination_ptr + 1
        /\ w + 1 < Words(x) =>
             Advance(op.flash_cb).rest = SubSeq(Content[x], (w + 1) * WordSize + 1, Len(Content[x]))
    BY SMTT(30), <2>1, <2>2, DriverWord
  <2> QED BY Zenon, <2>2, <2>3
<1>6. /\ data' = [data EXCEPT ![c] = WordOf(x, w)] /\ data' \in [Cells -> [1..WordSize -> Nat]]
      /\ UNCHANGED node
  <2>1. WordOf(x, w) \in [1..WordSize -> Nat]
    BY <1>3, WordType
  <2> QED BY <1>1, <1>5, <2>1 DEF Program, Shapes
<1>7. Holds(start, x, w + 1)'
  <2> SUFFICES ASSUME NEW n \in 0 .. w PROVE data'[start + n] = WordOf(x, n)
    BY <1>3 DEF Holds
  <2>1. CASE n = w
    BY <1>4, <1>6, <2>1 DEF Shapes
  <2>2. CASE n # w
    <3>1. start + n \in Cells /\ start + n # c /\ n \in 0 .. w - 1
      <4>1. w \in Nat /\ c = start + w /\ c \in 1..DataSize
        BY <1>3, <1>4 DEF Cells
      <4>2. DataSize \in Nat
        BY RegistryAssumption
      <4> QED BY <2>2, <4>1, <4>2 DEF Cells
    <3> QED BY <1>3, <1>6, <3>1 DEF Shapes, Holds
  <2> QED BY <2>1, <2>2
<1>8. CASE w + 1 = Words(x)
  <2>1. pc' = next /\ op' = [op EXCEPT !.flash_cb = next_cb]
    BY <1>5, <1>8 DEF Program
  <2>2. c + 1 = start + Words(x)
    BY <1>3, <1>4, <1>8
  <2>3. Holds(start, x, Words(x))'
    BY <1>7, <1>8
  <2> QED BY <1>1, <1>2, <1>4, <1>6, <2>1, <2>2, <2>3
<1>9. CASE w + 1 # Words(x)
  <2>1. pc' = pc /\ op' = [op EXCEPT !.flash_cb = Advance(op.flash_cb)] /\ op \in OpShape
    BY <1>5, <1>9 DEF Program, Shapes, OpShape
  <2>2. w + 1 < Words(x) /\ w + 1 \in 0 .. Words(x) - 1 /\ c + 1 # start + Words(x)
    BY <1>3, <1>4, <1>9
  <2>3. op'.flash_cb = Advance(op.flash_cb)
    BY <2>1 DEF OpShape
  <2>4. op'.flash_cb.destination_ptr = c + 1 /\ (c + 1) - start = w + 1
    BY <1>3, <1>4, <1>5, <2>3
  <2>5. Progress(x, start)'
    BY <1>5, <1>7, <2>2, <2>3, <2>4 DEF Progress
  <2>6. Advance(op.flash_cb) \in [destination_ptr : Nat, rest : Seq(Nat)]
    <3>1. Advance(op.flash_cb).rest \in Seq(Nat)
      BY <1>5, <2>2, DriverWord
    <3>2. DOMAIN Advance(op.flash_cb) = {"destination_ptr", "rest"} /\ c + 1 \in Nat
      BY <1>3 DEF Advance, open
    <3> QED BY <1>5, <3>1, <3>2 DEF Advance, open
  <2> QED BY <1>1, <1>2, <1>4, <1>6, <2>1, <2>2, <2>4, <2>5, <2>6
<1> QED BY <1>8, <1>9

\* The driver writes a word ahead of all that was written.
LEMMA KeyFlash ==
  ASSUME FlashInv, WriteKey
  PROVE  FlashInv'
<1> USE DEF FlashInv
<1>1. pc = "key" /\ Writing /\ UNCHANGED <<up, span, dirty>>
  BY DEF WriteKey, Writing
<1>2. CASE FlashError
  BY <1>1, <1>2, ErrorFlash
<1>3. CASE Program("value", open(ValueSpan.ptr, Content[op.adding[2]]))
  <2>1. PICK k \in Keys, v \in Values :
          /\ op.adding = <<k, v>> /\ op.adding[1] = k /\ op.adding[2] = v
          /\ Words(k) \in Nat \ {0} /\ Words(v) \in Nat \ {0}
          /\ op.dest \in Nat \ {0} /\ op.dest + Words(k) + Words(v) <= DataSize + 1
          /\ KeySpan = [ptr |-> op.dest, size |-> Len(Content[k])]
          /\ ValueSpan = [ptr |-> op.dest + Words(k), size |-> Len(Content[v])]
          /\ KeySpan \in Span /\ ValueSpan \in Span
    BY <1>1, LocalsOf
  <2>2. Progress(k, op.dest) /\ op.dest + Words(k) <= DataSize + 1 /\ op \in OpShape
    BY <1>1, <2>1, RegistryAssumption DEF CallIsSound, Shapes, OpShape
  <2>3. PICK start : start = op.dest
    OBVIOUS
  <2>4. PICK c \in Cells :
          /\ c = op.flash_cb.destination_ptr /\ c >= start /\ c < start + Words(k)
          /\ data' = [data EXCEPT ![c] = WordOf(k, c - start)] /\ data' \in [Cells -> [1..WordSize -> Nat]]
          /\ UNCHANGED node
          /\ IF c + 1 = start + Words(k)
             THEN /\ pc' = "value"
                  /\ op' = [op EXCEPT !.flash_cb = open(ValueSpan.ptr, Content[op.adding[2]])]
                  /\ Holds(start, k, Words(k))'
             ELSE /\ pc' = pc /\ op' = [op EXCEPT !.flash_cb = Advance(op.flash_cb)]
                  /\ Advance(op.flash_cb) \in [destination_ptr : Nat, rest : Seq(Nat)]
                  /\ op'.flash_cb.destination_ptr = c + 1
                  /\ Progress(k, start)'
    <3>1. start \in Nat \ {0} /\ Progress(k, start) /\ start + Words(k) <= DataSize + 1
      BY <2>1, <2>2, <2>3
    <3>2. k \in Keys \cup Values /\ Shapes
      BY <2>1
    <3> QED BY <1>3, <3>1, <3>2, ProgramWord, SMTT(30)
  <2>5. /\ op' \in OpShape /\ op'.slot = op.slot /\ op'.dest = op.dest /\ op'.adding = op.adding
        /\ op'.count = op.count
    <3>1. open(ValueSpan.ptr, Content[op.adding[2]]) \in [destination_ptr : Nat, rest : Seq(Nat)]
      BY <2>1, ContentType DEF open, Span
    <3> QED BY <2>2, <2>4, <3>1 DEF OpShape
  <2>6. pc' \in {"key", "value"} /\ Shapes'
    BY <1>1, <2>4, <2>5 DEF Shapes, OpShape, Locations
  <2>7. NodesAreSound'
    BY <2>4 DEF NodesAreSound
  <2>8. KeySpan' = KeySpan /\ ValueSpan' = ValueSpan
    BY <2>5 DEF KeySpan, ValueSpan
  <2>9. pc' = "value" => op'.flash_cb = open(op.dest + Words(k), Content[v])
    BY <1>1, <2>1, <2>2, <2>4 DEF OpShape
  <2>10. Ahead = c /\ op'.flash_cb.destination_ptr = c + 1 /\ Ahead' = c + 1
    <3>1. op'.flash_cb.destination_ptr = c + 1
      BY <1>1, <2>1, <2>3, <2>4, <2>9 DEF open
    <3> QED BY <1>1, <2>4, <2>6, <3>1 DEF Ahead
  <2>11. ErasedAhead'
    <3> SUFFICES ASSUME NEW d \in Cells, d >= c + 1 PROVE data'[d] = ErasedWord
      BY <2>10 DEF ErasedAhead
    <3>1. data[d] = ErasedWord /\ d # c
      BY <1>1, <2>10 DEF ErasedAhead, Cells
    <3> QED BY <2>4, <3>1 DEF Shapes
  <2>12. pc' = "key" => Progress(op.adding[1], op.dest)'
    BY <2>1, <2>3, <2>4, <2>5 DEF Progress, Holds
  <2>13. pc' = "value" => Holds(op.dest, k, Words(k))' /\ Progress(v, op.dest + Words(k))'
    <3> SUFFICES ASSUME pc' = "value" PROVE Holds(op.dest, k, Words(k))' /\ Progress(v, op.dest + Words(k))'
      OBVIOUS
    <3>1. Holds(start, k, Words(k))'
      BY <1>1, <2>4
    <3>2. /\ op'.flash_cb.destination_ptr = op.dest + Words(k) /\ 0 \in 0 .. Words(v) - 1
          /\ op'.flash_cb.rest = SubSeq(Content[v], 0 * WordSize + 1, Len(Content[v]))
      <4>1. PICK n \in Nat : n = op.dest + Words(k)
        BY <2>1
      <4>2. op'.flash_cb = open(n, Content[v])
        BY <2>9, <4>1
      <4> QED BY <4>1, <4>2, DriverOpens
    <3>3. (op.dest + Words(k)) - (op.dest + Words(k)) = 0
      BY <2>1
    <3>4. Holds(op.dest + Words(k), v, 0)'
      BY DEF Holds
    <3> QED BY <2>3, <2>5, <3>1, <3>2, <3>3, <3>4 DEF Progress, Holds
  <2>14. CallIsSound'
    <3>1. WordsFor(op'.adding[1], op'.adding[2]) = WordsFor(op.adding[1], op.adding[2])
      BY <2>5
    <3>2. pc' = "value" => /\ Holds(op.dest, op.adding[1], Words(op.adding[1]))'
                           /\ Progress(op.adding[2], ValueSpan.ptr)'
      BY <2>1, <2>5, <2>8, <2>13 DEF Progress, Holds
    <3> QED BY <1>1, <2>4, <2>5, <2>6, <2>8, <2>12, <3>1, <3>2 DEF CallIsSound, Writing, Progress, Holds
  <2> QED BY <2>6, <2>7, <2>11, <2>14
<1> QED BY <1>2, <1>3 DEF WriteKey

LEMMA ValueFlash ==
  ASSUME FlashInv, WriteValue
  PROVE  FlashInv'
<1> USE DEF FlashInv
<1>1. pc = "value" /\ Writing /\ UNCHANGED <<up, span, dirty>>
  BY DEF WriteValue, Writing
<1>2. CASE FlashError
  BY <1>1, <1>2, ErrorFlash
<1>3. CASE Program("ready", NotOpen)
  <2>1. PICK k \in Keys, v \in Values :
          /\ op.adding = <<k, v>> /\ op.adding[1] = k /\ op.adding[2] = v
          /\ Words(k) \in Nat \ {0} /\ Words(v) \in Nat \ {0}
          /\ op.dest \in Nat \ {0} /\ op.dest + Words(k) + Words(v) <= DataSize + 1
          /\ KeySpan = [ptr |-> op.dest, size |-> Len(Content[k])]
          /\ ValueSpan = [ptr |-> op.dest + Words(k), size |-> Len(Content[v])]
          /\ KeySpan \in Span /\ ValueSpan \in Span
    BY <1>1, LocalsOf
  <2>2. PICK start \in Nat \ {0} : start = op.dest + Words(k)
    BY <2>1
  <2>3. Progress(v, start) /\ start + Words(v) <= DataSize + 1 /\ op \in OpShape
        /\ Holds(op.dest, k, Words(k))
    BY <1>1, <2>1, <2>2, RegistryAssumption DEF CallIsSound, Shapes, OpShape
  <2>4. PICK c \in Cells :
          /\ c = op.flash_cb.destination_ptr /\ c >= start /\ c < start + Words(v)
          /\ data' = [data EXCEPT ![c] = WordOf(v, c - start)] /\ data' \in [Cells -> [1..WordSize -> Nat]]
          /\ UNCHANGED node
          /\ IF c + 1 = start + Words(v)
             THEN /\ pc' = "ready" /\ op' = [op EXCEPT !.flash_cb = NotOpen]
                  /\ Holds(start, v, Words(v))'
             ELSE /\ pc' = pc /\ op' = [op EXCEPT !.flash_cb = Advance(op.flash_cb)]
                  /\ Advance(op.flash_cb) \in [destination_ptr : Nat, rest : Seq(Nat)]
                  /\ op'.flash_cb.destination_ptr = c + 1
                  /\ Progress(v, start)'
    <3>1. Progress(v, start) /\ start + Words(v) <= DataSize + 1
      BY <2>1, <2>2, <2>3
    <3>2. v \in Keys \cup Values /\ Shapes
      BY <2>1
    <3> QED BY <1>3, <3>1, <3>2, ProgramWord, SMTT(30)
  <2>5. /\ op' \in OpShape /\ op'.slot = op.slot /\ op'.dest = op.dest /\ op'.adding = op.adding
        /\ op'.count = op.count /\ (pc' = "ready" => op'.flash_cb = NotOpen)
    <3>1. << >> \in Seq(Nat)
      OBVIOUS
    <3>2. NotOpen \in [destination_ptr : Nat, rest : Seq(Nat)]
      BY <3>1 DEF NotOpen, open
    <3>3. CASE c + 1 = start + Words(v)
      <4>1. op' = [op EXCEPT !.flash_cb = NotOpen] /\ op \in OpShape
        BY <2>3, <2>4, <3>3
      <4> QED BY Zenon, <3>2, <4>1, DriverOnly
    <3>4. CASE c + 1 # start + Words(v)
      <4>1. /\ op' = [op EXCEPT !.flash_cb = Advance(op.flash_cb)] /\ op \in OpShape
            /\ Advance(op.flash_cb) \in [destination_ptr : Nat, rest : Seq(Nat)]
            /\ pc' # "ready"
        BY <1>1, <2>3, <2>4, <3>4
      <4> QED BY Zenon, <4>1, DriverOnly
    <3> QED BY <3>3, <3>4
  <2>6. pc' \in {"value", "ready"} /\ Shapes'
    BY <1>1, <2>4, <2>5 DEF Shapes, OpShape, Locations
  <2>7. NodesAreSound'
    BY <2>4 DEF NodesAreSound
  <2>8. KeySpan' = KeySpan /\ ValueSpan' = ValueSpan
    BY <2>5 DEF KeySpan, ValueSpan
  <2>9. Ahead = c /\ Ahead' = c + 1
    <3>1. CASE pc' = "value"
      BY <1>1, <2>4, <3>1 DEF Ahead
    <3>2. CASE pc' = "ready"
      <4>1. c + 1 = start + Words(v)
        BY <1>1, <2>4, <3>2
      <4>2. Ahead' = op.dest + WordsFor(k, v)
        BY <2>1, <2>5, <3>2 DEF Ahead
      <4>3. WordsFor(k, v) = Words(k) + Words(v)
        BY <2>1, WordsForType
      <4> QED BY <1>1, <2>1, <2>2, <2>4, <4>1, <4>2, <4>3 DEF Ahead
    <3> QED BY <2>6, <3>1, <3>2
  <2>10. ErasedAhead'
    <3> SUFFICES ASSUME NEW d \in Cells, d >= c + 1 PROVE data'[d] = ErasedWord
      BY <2>9 DEF ErasedAhead
    <3>1. data[d] = ErasedWord /\ d # c
      BY <1>1, <2>9 DEF ErasedAhead, Cells
    <3> QED BY <2>4, <3>1 DEF Shapes
  <2>11. Holds(op.dest, k, Words(k))'
    <3> SUFFICES ASSUME NEW n \in 0 .. Words(k) - 1
                 PROVE  data'[op.dest + n] = WordOf(k, n)
      BY <2>5 DEF Holds
    <3>1. PICK m \in Nat : m = op.dest + n /\ m < start /\ m >= 1
      <4>1. PICK d \in Nat \ {0}, q \in Nat : d = op.dest /\ q = Words(k) /\ start = d + q /\ n \in 0 .. q - 1
        BY <2>1, <2>2
      <4> QED BY <4>1
    <3>2. m \in Cells /\ m # c
      <4>1. c \in Nat /\ c >= start /\ DataSize \in Nat
        BY <2>4, RegistryAssumption DEF Cells
      <4>2. start <= DataSize
        BY <2>1, <2>2, <4>1
      <4> QED BY <2>2, <3>1, <4>1, <4>2 DEF Cells
    <3> QED BY <2>3, <2>4, <3>1, <3>2 DEF Shapes, Holds
  <2>12. pc' = "value" => Progress(v, start)'
    BY <1>1, <2>4
  <2>13. pc' = "ready" => Holds(start, v, Words(v))'
    BY <1>1, <2>4
  <2>14. CallIsSound'
    <3>1. WordsFor(op'.adding[1], op'.adding[2]) = WordsFor(op.adding[1], op.adding[2])
      BY <2>5
    <3>2. Holds(op.dest, op.adding[1], Words(op.adding[1]))'
      BY <2>1, <2>5, <2>11 DEF Holds
    <3>3. ValueSpan.ptr = start
      BY <2>1, <2>2
    <3>4. pc' = "value" => Progress(op.adding[2], ValueSpan.ptr)'
      BY <2>1, <2>5, <2>8, <2>12, <3>3 DEF Progress, Holds
    <3>5. pc' = "ready" => Holds(ValueSpan.ptr, op.adding[2], Words(op.adding[2]))'
      BY <2>1, <2>5, <2>8, <2>13, <3>3 DEF Holds
    <3> QED BY <1>1, <2>4, <2>5, <2>6, <2>8, <3>1, <3>2, <3>4, <3>5 DEF CallIsSound, Writing, Progress, Holds
  <2> QED BY <2>6, <2>7, <2>10, <2>14
<1> QED BY <1>2, <1>3 DEF WriteValue

LEMMA ReadyFlash ==
  ASSUME FlashInv, SetReady
  PROVE  FlashInv'
<1> USE DEF FlashInv
<1>1. pc = "ready" /\ Writing /\ UNCHANGED <<up, span, dirty>>
  BY DEF SetReady, Writing
<1>2. CASE FlashError
  BY <1>1, <1>2, ErrorFlash
<1>3. CASE node' = [node EXCEPT ![op.slot].ready = TRUE] /\ Done /\ UNCHANGED data
  <2>1. pc' = "idle" /\ op' = NoOp
    BY <1>3 DEF Done
  <2>2. op.slot \in Nodes /\ node[op.slot].spans = "whole" /\ node \in [Nodes -> NodeType]
    BY <1>1 DEF CallIsSound, Shapes
  <2>3. Shapes'
    <3>1. node' \in [Nodes -> NodeType]
      BY <1>3, <2>2 DEF NodeType
    <3>2. op' \in OpShape /\ pc' \in Locations
      BY <2>1, NoOpType DEF Locations
    <3>3. /\ up' \in BOOLEAN /\ dirty' \in BOOLEAN /\ span' \in [Readers -> Span]
          /\ data' \in [Cells -> [1..WordSize -> Nat]]
      BY <1>1, <1>3 DEF Shapes
    <3> QED BY <3>1, <3>2, <3>3 DEF Shapes, OpShape
  <2>4. NodesAreSound'
    BY <1>3, <2>2 DEF NodesAreSound, NodeType
  <2> QED BY <2>1, <2>3, <2>4, EndsIdle
<1> QED BY <1>2, <1>3 DEF SetReady

\* Delete writes the delete flag of a ready node.
LEMMA DeleteFlash ==
  ASSUME FlashInv, NEW k \in Keys, delete(k)
  PROVE  FlashInv'
<1> USE DEF FlashInv
<1>1. pc = "idle" /\ UNCHANGED <<up, data, pc, op, span, dirty>>
  BY DEF delete, Idle
<1>2. PICK i : i = find_node_in_registry(k)
  OBVIOUS
<1>3. CASE i # NoNode /\ node' = [node EXCEPT ![i].deleted = TRUE]
  <2>1. i \in Nodes /\ node[i].ready
    BY <1>2, <1>3, Finding DEF Matches
  <2>2. Shapes'
    <3>1. node' \in [Nodes -> NodeType]
      <4>1. node \in [Nodes -> NodeType]
        BY DEF Shapes
      <4> QED BY <1>3, <2>1, <4>1 DEF NodeType
    <3> QED BY <1>1, <3>1 DEF Shapes
  <2>3. NodesAreSound'
    <3>1. ASSUME NEW j \in Nodes
          PROVE  /\ node'[j].ready = node[j].ready /\ node'[j].spans = node[j].spans
                 /\ node'[j].key = node[j].key /\ node'[j].value = node[j].value
                 /\ node'[j].deleted => j = i \/ node[j].deleted
      <4>1. node \in [Nodes -> NodeType]
        BY DEF Shapes
      <4> QED BY <1>3, <2>1, <4>1 DEF NodeType
    <3> QED BY <2>1, <3>1 DEF NodesAreSound
  <2> QED BY <1>1, <2>2, <2>3, QuietFlash
<1>4. CASE UNCHANGED node
  <2>1. Shapes' /\ NodesAreSound'
    BY <1>1, <1>4 DEF Shapes, NodesAreSound
  <2> QED BY <1>1, <2>1, QuietFlash
<1> QED BY <1>2, <1>3, <1>4 DEF delete

LEMMA ReadFlash ==
  ASSUME FlashInv, NEW k \in Keys, NEW r \in Readers, try_get_value(r, k)
  PROVE  FlashInv'
<1> USE DEF FlashInv
<1>1. pc = "idle" /\ UNCHANGED <<up, node, data, pc, op, dirty>>
  BY DEF try_get_value, Idle
<1>2. PICK i \in Nodes : span' = [span EXCEPT ![r] = node[i].value]
  BY Finding DEF try_get_value
<1>3. Shapes' /\ NodesAreSound'
  BY <1>1, <1>2 DEF Shapes, NodeType, NodesAreSound
<1> QED BY <1>1, <1>3, QuietFlash

LEMMA CleanFlash ==
  ASSUME FlashInv, clean_all \/ EraseInfo \/ EraseData
  PROVE  FlashInv'
<1> USE DEF FlashInv
<1>1. EmptyNode \in NodeType /\ ErasedWord \in [1..WordSize -> Nat]
  BY FlashAssumption DEF EmptyNode, NodeType, NoSpan, Span, SpanStates, ErasedWord
<1>2. CASE clean_all
  <2>1. pc = "idle" /\ pc' = "erase_info" /\ dirty' = TRUE /\ UNCHANGED <<up, node, data, op, span>> /\ op = NoOp
    BY <1>2 DEF clean_all, Idle, CallIsSound
  <2>2. Shapes' /\ NodesAreSound'
    BY <2>1 DEF Shapes, Locations, NodesAreSound
  <2>3. CallIsSound' /\ ErasedAhead'
    BY <2>1, NoOpType, RegistryAssumption DEF CallIsSound, ErasedAhead, Writing, NoOp
  <2> QED BY <2>2, <2>3
<1>3. CASE EraseInfo
  <2>1. /\ pc = "erase_info" /\ dirty /\ op = [NoOp EXCEPT !.count = op.count] /\ op.count \in 0 .. NodeCount
        /\ UNCHANGED <<up, data, span, dirty>> /\ op \in OpShape
    BY <1>3, RegistryAssumption DEF EraseInfo, CallIsSound, Shapes, OpShape
  <2>2. CASE /\ op.count < NodeCount /\ node' = [node EXCEPT ![op.count + 1] = EmptyNode]
             /\ op' = [op EXCEPT !.count = @ + 1] /\ UNCHANGED pc
    <3>1. op' \in OpShape /\ op'.count = op.count + 1 /\ op' = [NoOp EXCEPT !.count = op'.count]
      <4>1. PICK n \in Nat : n = op.count /\ op = [NoOp EXCEPT !.count = n] /\ n + 1 \in Nat
        BY <2>1 DEF OpShape
      <4>2. op' = [NoOp EXCEPT !.count = n + 1]
        BY <2>2, <4>1 DEF NoOp
      <4>3. op'.count = n + 1
        BY <4>2 DEF NoOp
      <4>4. op' \in OpShape
        BY <4>1, <4>2, NoOpType DEF OpShape
      <4> QED BY <4>1, <4>2, <4>3, <4>4
    <3>2. op'.count <= NodeCount
      BY <2>1, <2>2, <3>1, RegistryAssumption
    <3>3. Shapes'
      BY <1>1, <2>1, <2>2, <3>1 DEF Shapes, OpShape
    <3>4. NodesAreSound'
      BY <2>2 DEF NodesAreSound, Shapes, EmptyNode
    <3>5. CallIsSound' /\ ErasedAhead'
      BY <2>1, <2>2, <3>1, <3>2 DEF CallIsSound, ErasedAhead, Writing
    <3> QED BY <3>3, <3>4, <3>5
  <2>3. CASE pc' = "erase_data" /\ op' = NoOp /\ UNCHANGED node
    <3>1. Shapes' /\ NodesAreSound'
      BY <2>1, <2>3, NoOpType DEF Shapes, Locations, NodesAreSound, OpShape
    <3>2. CallIsSound' /\ ErasedAhead'
      BY <2>1, <2>3, NoOpType, RegistryAssumption DEF CallIsSound, ErasedAhead, Writing, NoOp
    <3> QED BY <3>1, <3>2
  <2> QED BY <1>3, <2>2, <2>3 DEF EraseInfo
<1>4. CASE EraseData
  <2>1. /\ pc = "erase_data" /\ dirty /\ op = [NoOp EXCEPT !.count = op.count] /\ op.count \in 0 .. DataSize
        /\ UNCHANGED <<up, node, span>> /\ op \in OpShape
    BY <1>4, RegistryAssumption DEF EraseData, CallIsSound, Shapes, OpShape
  <2>2. CASE /\ op.count < DataSize /\ data' = [data EXCEPT ![op.count + 1] = ErasedWord]
             /\ op' = [op EXCEPT !.count = @ + 1] /\ UNCHANGED <<pc, dirty>>
    <3>1. op' \in OpShape /\ op'.count = op.count + 1 /\ op' = [NoOp EXCEPT !.count = op'.count]
      <4>1. PICK n \in Nat : n = op.count /\ op = [NoOp EXCEPT !.count = n] /\ n + 1 \in Nat
        BY <2>1 DEF OpShape
      <4>2. op' = [NoOp EXCEPT !.count = n + 1]
        BY <2>2, <4>1 DEF NoOp
      <4>3. op'.count = n + 1
        BY <4>2 DEF NoOp
      <4>4. op' \in OpShape
        BY <4>1, <4>2, NoOpType DEF OpShape
      <4> QED BY <4>1, <4>2, <4>3, <4>4
    <3>2. op'.count <= DataSize
      BY <2>1, <2>2, <3>1, RegistryAssumption
    <3>3. Shapes'
      BY <1>1, <2>1, <2>2, <3>1 DEF Shapes, OpShape
    <3>4. NodesAreSound'
      BY <2>1 DEF NodesAreSound
    <3>5. CallIsSound' /\ ErasedAhead'
      BY <2>1, <2>2, <3>1, <3>2 DEF CallIsSound, ErasedAhead, Writing
    <3> QED BY <3>3, <3>4, <3>5
  <2>3. CASE /\ Done /\ UNCHANGED data
             /\ dirty' = ({i \in Nodes : ~is_empty(i)} # {} \/ free_space # 1)
    <3>1. pc' = "idle" /\ op' = NoOp /\ dirty' \in BOOLEAN
      BY <2>3 DEF Done
    <3>2. Shapes' /\ NodesAreSound'
      BY <2>1, <2>3, <3>1, NoOpType DEF Shapes, Locations, NodesAreSound, OpShape
    <3> QED BY <3>1, <3>2, EndsIdle
  <2> QED BY <1>4, <2>2, <2>3 DEF EraseData
<1> QED BY <1>2, <1>3, <1>4

\* A power cycle, at any word.
LEMMA PowerFlash ==
  ASSUME FlashInv, az_ulib_registry_init \/ az_ulib_registry_deinit \/ Crash
  PROVE  FlashInv'
<1> USE DEF FlashInv
<1>1. CASE Crash
  <2>1. /\ pc' = "idle" /\ op' = NoOp /\ up' = FALSE /\ UNCHANGED <<node, data, dirty>>
        /\ span' = [r \in Readers |-> NoSpan]
    BY <1>1 DEF Crash, Done
  <2>2. Shapes' /\ NodesAreSound'
    BY <2>1, NoOpType DEF Shapes, Locations, NodesAreSound, OpShape, NoSpan, Span
  <2> QED BY <2>1, <2>2, EndsIdle
<1>2. CASE az_ulib_registry_init \/ az_ulib_registry_deinit
  <2>1. up' \in BOOLEAN /\ UNCHANGED <<node, data, pc, op, span, dirty>>
    BY <1>2 DEF az_ulib_registry_init, az_ulib_registry_deinit
  <2> QED BY <2>1, SameFlash
<1> QED BY <1>1, <1>2

LEMMA StutterFlash ==
  ASSUME FlashInv, UNCHANGED vars
  PROVE  FlashInv'
<1>1. up' \in BOOLEAN /\ UNCHANGED <<node, data, pc, op, span, dirty>>
  BY DEF FlashInv, Shapes, vars
<1> QED BY <1>1, SameFlash

LEMMA NextFlash ==
  ASSUME FlashInv, [Next]_vars
  PROVE  FlashInv'
<1>1. ASSUME NEW k \in Keys, NEW v \in Values, add(k, v) PROVE FlashInv'
  <2>1. Shapes
    BY DEF FlashInv
  <2> QED BY <1>1, <2>1, AddBegins, AddFlash, StutterFlash
<1>2. ASSUME NEW k \in Keys, delete(k) \/ \E r \in Readers : try_get_value(r, k) PROVE FlashInv'
  BY <1>2, DeleteFlash, ReadFlash
<1> QED BY <1>1, <1>2, SpansFlash, KeyFlash, ValueFlash, ReadyFlash, CleanFlash, PowerFlash, StutterFlash
     DEF Next

LEMMA FlashAlways == Spec => []FlashInv
BY InitFlash, NextFlash, PTL DEF Spec

-----------------------------------------------------------------------------
(***************************************************************************)
(* What FlashInv is for.                                                   *)
(***************************************************************************)

\* The driver is inside the data area, and has a rest of a key or of a value to write.
LEMMA DriverRange ==
  ASSUME FlashInv, NEW x \in Keys \cup Values, NEW start \in Nat \ {0}, start + Words(x) <= DataSize + 1,
         Progress(x, start)
  PROVE  /\ op.flash_cb.destination_ptr \in Cells
         /\ \E i \in 1 .. DataSize * WordSize + 1 : op.flash_cb.rest = SubSeq(Content[x], i, Len(Content[x]))
<1>1. PICK w, d : d = op.flash_cb.destination_ptr /\ w = d - start
  OBVIOUS
<1>2. /\ w \in 0 .. Words(x) - 1 /\ Words(x) \in Nat \ {0} /\ d \in Nat /\ DataSize \in Nat
      /\ op.flash_cb.rest = SubSeq(Content[x], w * WordSize + 1, Len(Content[x]))
  BY <1>1, ContentType, RegistryAssumption DEF FlashInv, Shapes, Progress
<1>3. d \in Cells /\ w \in Nat /\ w <= DataSize
  <2>1. PICK words : words = Words(x)
    OBVIOUS
  <2>2. /\ d = start + w /\ w \in 0 .. words - 1 /\ words \in Nat \ {0}
        /\ start + words <= DataSize + 1 /\ DataSize \in Nat
    <3>1. w = d - start /\ d \in Nat
      BY <1>1, <1>2
    <3>2. d = start + w
      BY <3>1
    <3> QED BY <1>2, <2>1, <3>2
  <2> QED BY <2>2 DEF Cells
<1>4. w * WordSize + 1 \in 1 .. DataSize * WordSize + 1
  <2>1. w * WordSize \in Nat /\ DataSize * WordSize \in Nat /\ w * WordSize <= DataSize * WordSize
    BY <1>2, <1>3, FlashAssumption
  <2> QED BY <2>1
<1> QED BY <1>1, <1>2, <1>3, <1>4

LEMMA FlashTypes == FlashInv => TypeOK
<1> SUFFICES ASSUME FlashInv PROVE TypeOK
  OBVIOUS
<1> DEFINE Rests == {SubSeq(Content[x], i, Len(Content[x])) :
                       x \in Keys \cup Values, i \in 1 .. DataSize * WordSize + 1}
<1>1. op \in OpShape /\ Shapes
  BY DEF FlashInv, Shapes, OpShape
<1>2. ASSUME op.flash_cb.rest \in Rests \cup {<< >>} PROVE op \in OpType
  BY <1>1, <1>2 DEF OpShape, OpType
<1>3. CASE pc \in {"key", "value"}
  <2>1. PICK k \in Keys, v \in Values :
          /\ op.adding[1] = k /\ op.adding[2] = v
          /\ Words(k) \in Nat \ {0} /\ Words(v) \in Nat \ {0}
          /\ op.dest \in Nat \ {0} /\ op.dest + Words(k) + Words(v) <= DataSize + 1
          /\ ValueSpan = [ptr |-> op.dest + Words(k), size |-> Len(Content[v])]
    BY <1>3, LocalsOf DEF Writing
  <2>2. op.dest + Words(k) \in Nat \ {0} /\ op.dest + Words(k) <= DataSize + 1 /\ DataSize \in Nat
    BY <2>1, RegistryAssumption
  <2>3. \/ Progress(k, op.dest)
        \/ Progress(v, op.dest + Words(k))
    BY <1>3, <2>1 DEF FlashInv, CallIsSound
  <2>4. PICK x \in Keys \cup Values, start \in Nat \ {0} :
          start + Words(x) <= DataSize + 1 /\ Progress(x, start)
    BY <2>1, <2>2, <2>3
  <2>5. /\ op.flash_cb.destination_ptr \in Cells
        /\ \E i \in 1 .. DataSize * WordSize + 1 : op.flash_cb.rest = SubSeq(Content[x], i, Len(Content[x]))
    BY <2>4, DriverRange
  <2>6. op.flash_cb.destination_ptr \in Cells /\ op.flash_cb.rest \in Rests
    BY <2>5
  <2> QED BY <1>1, <1>2, <2>6 DEF TypeOK, Shapes
<1>4. CASE pc \notin {"key", "value"}
  <2>1. op.flash_cb = NotOpen
    BY <1>1, <1>4 DEF FlashInv, CallIsSound, Shapes, Locations, NoOp
  <2>2. op.flash_cb.rest = << >>
    BY <2>1 DEF NotOpen, open
  <2> QED BY <1>1, <1>2, <1>4, <2>2 DEF TypeOK, Shapes
<1> QED BY <1>3, <1>4

\* The flash driver is handed a destination inside the data area whenever it programs a
\* word, and every call leaves node table, spans and its own locals well formed.
THEOREM RegistryTypes == Spec => []TypeOK
BY FlashAlways, FlashTypes, PTL

\* The data area changes where the call that writes goes on, or is erased.
LEMMA DataSteps ==
  ASSUME FlashInv, [Next]_vars
  PROVE  \/ UNCHANGED data
         \/ /\ pc \in {"key", "value"} /\ UNCHANGED <<node, dirty>>
            /\ \E w : data' = [data EXCEPT ![Ahead] = w]
         \/ /\ pc = "erase_data"
            /\ \E c : data' = [data EXCEPT ![c] = ErasedWord]
<1>1. CASE EraseData
  BY <1>1 DEF EraseData
<1>2. CASE WriteKey \/ WriteValue
  BY <1>2 DEF WriteKey, WriteValue, Program, FlashError, Ahead
<1>3. ASSUME NEW k \in Keys, NEW v \in Values, add(k, v) PROVE UNCHANGED data
  BY <1>3 DEF add, vars
<1>4. CASE WriteSpans \/ SetReady
  BY <1>4 DEF WriteSpans, SetReady, FlashError
<1>5. ASSUME NEW k \in Keys, delete(k) \/ \E r \in Readers : try_get_value(r, k) PROVE UNCHANGED data
  BY <1>5 DEF delete, try_get_value
<1>6. CASE clean_all \/ EraseInfo \/ az_ulib_registry_init \/ az_ulib_registry_deinit \/ Crash
  BY <1>6 DEF clean_all, EraseInfo, az_ulib_registry_init, az_ulib_registry_deinit, Crash
<1> QED BY <1>1, <1>2, <1>3, <1>4, <1>5, <1>6 DEF Next, vars

LEMMA FlashPrograms ==
  ASSUME FlashInv, [Next]_vars, NEW c \in Cells, data[c] # ErasedWord
  PROVE  data'[c] \in {data[c], ErasedWord}
<1>1. data \in [Cells -> [1..WordSize -> Nat]]
  BY DEF FlashInv, Shapes
<1>2. CASE UNCHANGED data
  BY <1>2
<1>3. CASE pc \in {"key", "value"} /\ \E w : data' = [data EXCEPT ![Ahead] = w]
  <2>1. c # Ahead
    BY <1>3 DEF FlashInv, ErasedAhead, Writing, Cells
  <2> QED BY <1>1, <1>3, <2>1
<1>4. CASE \E d : data' = [data EXCEPT ![d] = ErasedWord]
  BY <1>1, <1>4
<1> QED BY <1>2, <1>3, <1>4, DataSteps

\* No call programs a word that a call before it has programmed, whether that call went
\* through, failed or was cut short by a power cycle.
THEOREM RegistryProgramsErased == Spec => ProgramsErasedWords
<1>1. ASSUME FlashInv, [Next]_vars
      PROVE  [\A c \in Cells : data[c] # ErasedWord => data'[c] \in {data[c], ErasedWord}]_vars
  BY <1>1, FlashPrograms
<1> QED BY <1>1, FlashAlways, PTL DEF Spec, ProgramsErasedWords

\* Spans point into the data area.
Placed(s) == s.ptr >= 1 \/ s.size = 0
SpansArePlaced == (\A i \in Nodes : Placed(node[i].value)) /\ (\A r \in Readers : Placed(span[r]))

LEMMA NextPlaced ==
  ASSUME FlashInv, SpansArePlaced, [Next]_vars
  PROVE  SpansArePlaced'
<1> USE DEF SpansArePlaced
<1>1. node \in [Nodes -> NodeType] /\ span \in [Readers -> Span] /\ Placed(NoSpan)
  BY DEF FlashInv, Shapes, Placed, NoSpan
<1>2. CASE UNCHANGED <<node, span>>
  BY <1>2 DEF Placed
<1>3. CASE WriteSpans
  <2>1. Placed(ValueSpan)
    <3>1. Writing
      BY <1>3 DEF WriteSpans, Writing
    <3>2. PICK n \in Nat \ {0}, m \in Nat : ValueSpan.ptr = n + m
      BY <3>1, LocalsOf
    <3> QED BY <3>2 DEF Placed
  <2>2. UNCHANGED span /\ \A i \in Nodes : node'[i].value \in {node[i].value, ValueSpan}
    BY <1>1, <1>3 DEF WriteSpans, FlashError, NodeType
  <2> QED BY <2>1, <2>2 DEF Placed
<1>4. CASE SetReady
  <2>1. UNCHANGED span /\ \A i \in Nodes : node'[i].value = node[i].value
    BY <1>1, <1>4 DEF SetReady, FlashError, NodeType
  <2> QED BY <2>1 DEF Placed
<1>5. ASSUME NEW k \in Keys, delete(k) PROVE SpansArePlaced'
  <2>1. UNCHANGED span /\ \A i \in Nodes : node'[i].value = node[i].value
    BY <1>1, <1>5 DEF delete, NodeType
  <2> QED BY <2>1 DEF Placed
<1>6. ASSUME NEW k \in Keys, NEW r \in Readers, try_get_value(r, k) PROVE SpansArePlaced'
  <2>1. PICK i \in Nodes : UNCHANGED node /\ span' = [span EXCEPT ![r] = node[i].value]
    BY <1>6, Finding DEF try_get_value
  <2> QED BY <1>1, <2>1 DEF Placed
<1>7. CASE EraseInfo
  <2>1. UNCHANGED span /\ \A i \in Nodes : node'[i].value \in {node[i].value, NoSpan}
    BY <1>1, <1>7 DEF EraseInfo, EmptyNode
  <2> QED BY <1>1, <2>1 DEF Placed
<1>8. CASE Crash
  <2>1. UNCHANGED node /\ \A r \in Readers : span'[r] = NoSpan
    BY <1>8 DEF Crash
  <2> QED BY <1>1, <2>1 DEF Placed
<1>9. ASSUME NEW k \in Keys, NEW v \in Values, add(k, v) PROVE UNCHANGED <<node, span>>
  BY <1>9 DEF add, vars
<1>10. CASE WriteKey \/ WriteValue
  <2>1. UNCHANGED <<node, span>>
    BY <1>10 DEF WriteKey, WriteValue, Program, FlashError
  <2> QED BY <1>2, <2>1
<1>11. CASE clean_all \/ EraseData \/ az_ulib_registry_init \/ az_ulib_registry_deinit
  <2>1. UNCHANGED <<node, span>>
    BY <1>11 DEF clean_all, EraseData, az_ulib_registry_init, az_ulib_registry_deinit
  <2> QED BY <1>2, <2>1
<1> QED BY <1>2, <1>3, <1>4, <1>5, <1>6, <1>7, <1>8, <1>9, <1>10, <1>11 DEF Next, vars

LEMMA PlacedAlways == Spec => [](FlashInv /\ SpansArePlaced)
<1>1. Init => SpansArePlaced
  BY DEF Init, SpansArePlaced, Placed, EmptyNode, NoSpan
<1> QED BY <1>1, InitFlash, NextFlash, NextPlaced, PTL DEF Spec

\* A span whose last word, or a word above it, is programmed lies below the driver.
LEMMA ProgrammedIsRead ==
  ASSUME FlashInv, SpansArePlaced, [Next]_vars, NEW r \in Readers, span'[r] = span[r],
         StillProgrammed(span[r]), pc # "erase_data"
  PROVE  Read(span[r])' = Read(span[r])
<1>1. data \in [Cells -> [1..WordSize -> Nat]]
  BY DEF FlashInv, Shapes
<1>2. PICK s \in Span : s = span[r] /\ Placed(s)
  BY DEF FlashInv, Shapes, SpansArePlaced
<1>3. PICK n \in Nat : n = NumberOfWords(s.size) /\ (s.size = 0 => n = 0)
  <2>1. NumberOfWords(s.size) \in Nat
    BY <1>2, WordsEnough DEF Span
  <2>2. NumberOfWords(0) = 0
    BY WordsUnique, FlashAssumption
  <2> QED BY <2>1, <2>2
<1>4. PICK c \in Cells : c >= s.ptr + n - 1 /\ data[c] # ErasedWord
  BY <1>2, <1>3 DEF StillProgrammed
<1>5. ASSUME NEW d \in s.ptr .. s.ptr + n - 1 PROVE d \in Cells /\ d <= c
  BY <1>2, <1>3, <1>4, RegistryAssumption DEF Placed, Span, Cells
<1>6. ASSUME NEW d \in s.ptr .. s.ptr + NumberOfWords(s.size) - 1 PROVE data'[d] = data[d]
  <2>1. d \in Cells /\ d <= c
    BY <1>3, <1>5
  <2>2. CASE pc \in {"key", "value"} /\ \E w : data' = [data EXCEPT ![Ahead] = w]
    <3>1. ~(c >= Ahead)
      BY <1>4, <2>2 DEF FlashInv, ErasedAhead, Writing
    <3>2. Ahead \in Nat
      BY <2>2 DEF FlashInv, Shapes, Ahead
    <3>3. d # Ahead
      BY <1>4, <2>1, <3>1, <3>2 DEF Cells
    <3> QED BY <1>1, <2>1, <2>2, <3>3
  <2> QED BY <2>2, DataSteps
<1>7. Read(s)' = Read(s)
  BY <1>6, ReadStays
<1>8. s = span'[r]
  BY <1>2
<1> QED BY <1>2, <1>7, <1>8 DEF Read

\* What a caller reads through a span it got from try_get_value stays the same while the
\* words of the span are programmed and clean_all does not erase the data.
THEOREM RegistrySpansAreStable == Spec => SpansAreStable
<1>1. ASSUME FlashInv, SpansArePlaced, [Next]_vars
      PROVE  [\A r \in Readers :
                span'[r] = span[r] /\ StillProgrammed(span[r]) /\ pc # "erase_data"
                  => Read(span[r])' = Read(span[r])]_vars
  BY <1>1, ProgrammedIsRead
<1> QED BY <1>1, PlacedAlways, PTL DEF Spec, SpansAreStable

-----------------------------------------------------------------------------
(***************************************************************************)
(* EntryInv: the entries and their order.                                  *)
(***************************************************************************)

LEMMA EntryIsRead ==
  ASSUME FlashInv, NEW i \in Nodes, NEW k \in Keys, NEW v \in Values, IsEntry(i, k, v)
  PROVE  /\ Read(node[i].key) = Content[k] /\ Read(node[i].value) = Content[v]
         /\ \E p \in Nat \ {0} :
              /\ node[i].key = [ptr |-> p, size |-> Len(Content[k])]
              /\ node[i].value = [ptr |-> p + Words(k), size |-> Len(Content[v])]
              /\ p + Words(k) + Words(v) <= DataSize + 1
              /\ Extent(i) = p .. p + Words(k) + Words(v) - 1
              /\ Extent(i) \subseteq Cells
<1>1. PICK p, q : p = node[i].key.ptr /\ q = node[i].value.ptr
  OBVIOUS
<1>2. node[i].key \in Span /\ node[i].value \in Span /\ p \in Nat \ {0} /\ q \in Nat
  BY <1>1 DEF FlashInv, Shapes, NodeType, Span, IsEntry
<1>3. Words(k) \in Nat \ {0} /\ Words(v) \in Nat \ {0} /\ DataSize \in Nat
  BY ContentType, RegistryAssumption
<1>4. /\ q = p + Words(k) /\ q + Words(v) <= DataSize + 1
      /\ node[i].key.size = Len(Content[k]) /\ node[i].value.size = Len(Content[v])
      /\ Holds(p, k, Words(k)) /\ Holds(q, v, Words(v))
  BY <1>1 DEF IsEntry
<1>5. Extent(i) = p .. p + Words(k) + Words(v) - 1 /\ Extent(i) \subseteq Cells
  <2>1. NumberOfWords(node[i].value.size) = Words(v)
    BY <1>4 DEF Words
  <2>2. Extent(i) = p .. q + Words(v) - 1
    BY <1>1, <2>1 DEF Extent
  <2>3. PICK n \in Nat \ {0}, m \in Nat \ {0} : n = Words(k) /\ m = Words(v)
    BY <1>3
  <2>4. q + m - 1 = p + n + m - 1 /\ p + n + m - 1 <= DataSize
    BY <1>2, <1>3, <1>4, <2>3
  <2>5. p .. p + n + m - 1 \subseteq 1 .. DataSize
    BY <1>2, <1>3, <2>3, <2>4
  <2> QED BY <2>2, <2>3, <2>4, <2>5 DEF Cells
<1>6. /\ node[i].key = [ptr |-> p, size |-> Len(Content[k])]
      /\ node[i].value = [ptr |-> p + Words(k), size |-> Len(Content[v])]
  BY <1>1, <1>2, <1>4 DEF Span
<1>7. Read(node[i].key) = Content[k]
  BY <1>1, <1>2, <1>4, ReadBack
<1>8. Read(node[i].value) = Content[v]
  BY <1>1, <1>2, <1>4, ReadBack
<1> QED BY <1>2, <1>3, <1>4, <1>5, <1>6, <1>7, <1>8

\* The last word of an entry is programmed, so that free space begins above it.
LEMMA LiveBelowFree ==
  ASSUME FlashInv, ValuesEndProgrammed, LiveAreEntries, NEW i \in LiveNodes
  PROVE  Extent(i) \subseteq 1 .. free_space - 1
<1>1. i \in Nodes
  BY DEF LiveNodes
<1>2. PICK k \in Keys, v \in Values : IsEntry(i, k, v)
  BY DEF LiveAreEntries
<1>3. PICK p \in Nat \ {0} :
        /\ node[i].value = [ptr |-> p + Words(k), size |-> Len(Content[v])]
        /\ p + Words(k) + Words(v) <= DataSize + 1
        /\ Extent(i) = p .. p + Words(k) + Words(v) - 1
  BY <1>1, <1>2, EntryIsRead
<1>4. PICK n \in Nat \ {0}, m \in Nat \ {0} : n = Words(k) /\ m = Words(v)
  BY ContentType
<1>5. data[p + n + (m - 1)] # ErasedWord
  <2>1. data[p + n + (m - 1)] = WordOf(v, m - 1)
    <3>1. PICK q \in Nat : q = p + n
      OBVIOUS
    <3>2. Holds(q, v, m)
      BY <1>2, <1>3, <1>4, <3>1 DEF IsEntry
    <3>3. data[q + (m - 1)] = WordOf(v, m - 1)
      BY <1>4, <3>2 DEF Holds
    <3> QED BY <3>1, <3>3
  <2> QED BY <1>4, <2>1 DEF ValuesEndProgrammed
<1>6. p + n + (m - 1) \in Cells
  <2>1. p + n + m <= DataSize + 1 /\ DataSize \in Nat
    BY <1>3, <1>4, RegistryAssumption
  <2> QED BY SMTT(30), <2>1 DEF Cells
<1>7. Shapes
  BY DEF FlashInv
<1>8. p + n + (m - 1) < free_space /\ free_space \in Nat
  BY <1>5, <1>6, <1>7, FreeSpace
<1> QED BY <1>3, <1>4, <1>8

\* An entry stays what it is while nobody writes to its words.
LEMMA EntryStays ==
  ASSUME FlashInv, NEW i \in Nodes, NEW k \in Keys, NEW v \in Values, IsEntry(i, k, v),
         node'[i].key = node[i].key, node'[i].value = node[i].value,
         \A c \in Extent(i) : data'[c] = data[c]
  PROVE  /\ IsEntry(i, k, v)' /\ Extent(i)' = Extent(i)
         /\ Read(node[i].key)' = Content[k] /\ Read(node[i].value)' = Content[v]
<1>1. PICK p \in Nat \ {0} :
        /\ node[i].key = [ptr |-> p, size |-> Len(Content[k])]
        /\ node[i].value = [ptr |-> p + Words(k), size |-> Len(Content[v])]
        /\ Extent(i) = p .. p + Words(k) + Words(v) - 1
  BY EntryIsRead
<1>2. Words(k) \in Nat \ {0} /\ Words(v) \in Nat \ {0}
  BY ContentType
<1>3. /\ \A c \in p .. p + Words(k) - 1 : data'[c] = data[c]
      /\ \A c \in p + Words(k) .. p + Words(k) + Words(v) - 1 : data'[c] = data[c]
  <2>1. PICK n \in Nat \ {0}, m \in Nat \ {0} : n = Words(k) /\ m = Words(v)
    BY <1>2
  <2>2. \A c \in p .. p + n + m - 1 : data'[c] = data[c]
    BY <1>1, <2>1
  <2>3. \A c \in p .. p + n - 1 : c \in p .. p + n + m - 1
    OBVIOUS
  <2>4. \A c \in p + n .. p + n + m - 1 : c \in p .. p + n + m - 1
    OBVIOUS
  <2> QED BY <2>1, <2>2, <2>3, <2>4
<1>4. Holds(p, k, Words(k))'
  <2>1. Holds(p, k, Words(k))
    BY <1>1 DEF IsEntry
  <2>2. \A w \in 0 .. Words(k) - 1 : data'[p + w] = data[p + w]
    <3>1. PICK m \in Nat : m = Words(k)
      BY <1>2
    <3>2. \A w \in 0 .. m - 1 : p + w \in p .. p + m - 1
      OBVIOUS
    <3> QED BY <1>3, <3>1, <3>2
  <2> QED BY <2>1, <2>2 DEF Holds
<1>5. PICK q \in Nat : q = p + Words(k)
  BY <1>2
<1>6. Holds(q, v, Words(v))'
  <2>1. Holds(q, v, Words(v))
    BY <1>1, <1>5 DEF IsEntry
  <2>2. \A w \in 0 .. Words(v) - 1 : data'[q + w] = data[q + w]
    <3>1. PICK m \in Nat : m = Words(v)
      BY <1>2
    <3>2. \A w \in 0 .. m - 1 : q + w \in q .. q + m - 1
      OBVIOUS
    <3> QED BY <1>3, <1>5, <3>1, <3>2
  <2> QED BY <2>1, <2>2 DEF Holds
<1>7. IsEntry(i, k, v)'
  BY <1>1, <1>4, <1>5, <1>6 DEF IsEntry, Holds
<1>8. Extent(i)' = Extent(i)
  BY DEF Extent
<1>9. PICK s, t : s = node[i].key /\ t = node[i].value
  OBVIOUS
<1>10. /\ s \in Span /\ NumberOfWords(s.size) = Words(k) /\ s.ptr = p
       /\ t \in Span /\ NumberOfWords(t.size) = Words(v) /\ t.ptr = p + Words(k)
  BY <1>1, <1>9 DEF FlashInv, Shapes, NodeType, Words
<1>11. Read(s)' = Read(s)
  BY <1>3, <1>10, ReadStays
<1>12. Read(t)' = Read(t)
  BY <1>3, <1>10, ReadStays
<1>13. Read(s) = Content[k] /\ Read(t) = Content[v]
  BY <1>9, EntryIsRead
<1> QED BY <1>7, <1>8, <1>9, <1>11, <1>12, <1>13 DEF Read

\* No step but SetReady makes a node an entry, and those that are keep apart.
LEMMA EntriesStay ==
  ASSUME FlashInv, LiveAreEntries, EntriesApart, (LiveNodes') \subseteq LiveNodes,
         \A i \in LiveNodes' : /\ node'[i].key = node[i].key /\ node'[i].value = node[i].value
                               /\ \A c \in Extent(i) : data'[c] = data[c]
  PROVE  /\ LiveAreEntries' /\ EntriesApart' /\ \A i \in LiveNodes' : Extent(i)' = Extent(i)
         /\ \A i \in LiveNodes' : /\ Read(node[i].key)' = Read(node[i].key)
                                   /\ Read(node[i].value)' = Read(node[i].value)
         /\ \A i \in Nodes, k \in Keys : Matches(i, k)' => i \in LiveNodes /\ Matches(i, k)
<1>1. ASSUME NEW i \in LiveNodes'
      PROVE  /\ i \in Nodes /\ Extent(i)' = Extent(i) /\ Read(node[i].value)' = Read(node[i].value)
             /\ Read(node[i].key)' = Read(node[i].key)
             /\ \E k \in Keys, v \in Values : IsEntry(i, k, v)'
  <2>1. i \in LiveNodes /\ i \in Nodes
    BY DEF LiveNodes
  <2>2. PICK k \in Keys, v \in Values : IsEntry(i, k, v)
    BY <2>1 DEF LiveAreEntries
  <2>3. /\ IsEntry(i, k, v)' /\ Extent(i)' = Extent(i)
        /\ Read(node[i].key)' = Content[k] /\ Read(node[i].value)' = Content[v]
    BY <2>1, <2>2, EntryStays
  <2>4. Read(node[i].key) = Content[k] /\ Read(node[i].value) = Content[v]
    BY <2>1, <2>2, EntryIsRead
  <2> QED BY <2>1, <2>3, <2>4
<1>2. LiveAreEntries'
  BY <1>1 DEF LiveAreEntries
<1>3. EntriesApart'
  BY <1>1 DEF EntriesApart
<1>4. ASSUME NEW i \in Nodes, NEW k \in Keys, Matches(i, k)' PROVE i \in LiveNodes /\ Matches(i, k)
  <2>1. i \in LiveNodes' /\ Read(node[i].key)' = Content[k]
    BY <1>4 DEF Matches, LiveNodes, Live
  <2>2. i \in LiveNodes
    BY <2>1
  <2> QED BY <1>1, <2>1, <2>2 DEF Matches, LiveNodes, Live
<1> QED BY <1>1, <1>2, <1>3, <1>4

\* What is found depends on the nodes that match or stop the search, and on the values.
LEMMA FindSame ==
  ASSUME NEW k, \A i \in Nodes : Stops(i)' <=> Stops(i), \A i \in Nodes : Matches(i, k)' <=> Matches(i, k)
  PROVE  find_node_in_registry(k)' = find_node_in_registry(k)
<1>1. PICK f : f = find_node_in_registry(k)
  OBVIOUS
<1>2. CASE f = NoNode
  <2>1. \A i \in Nodes : Matches(i, k) => \E n \in Nodes : n < i /\ Stops(n)
    BY <1>1, <1>2, Finding
  <2>2. \A i \in Nodes : Matches(i, k)' => \E n \in Nodes : n < i /\ Stops(n)'
    BY <2>1
  <2> QED BY <1>1, <1>2, <2>2, HiddenIsNotFoundNext
<1>3. CASE f # NoNode
  <2>1. f \in Nodes /\ Matches(f, k) /\ \A j \in Nodes : j < f => ~Stops(j) /\ ~Matches(j, k)
    BY <1>1, <1>3, Finding
  <2> QED BY <1>1, <2>1, FirstIsFoundNext
<1> QED BY <1>2, <1>3

LEMMA FoundIs ==
  ASSUME NEW k \in Keys
  PROVE  /\ dirty => Found[k] = Lost
         /\ ~dirty /\ find_node_in_registry(k) = NoNode => Found[k] = NoContent
         /\ \A f \in Nodes : ~dirty /\ find_node_in_registry(k) = f => Found[k] = Read(node[f].value)
<1>1. \A f \in Nodes : f # NoNode
  BY DEF Nodes, NoNode
<1> QED BY <1>1 DEF Found

LEMMA FoundNext ==
  ASSUME NEW k \in Keys
  PROVE  /\ dirty' => Found'[k] = Lost
         /\ ~dirty' /\ find_node_in_registry(k)' = NoNode => Found'[k] = NoContent
         /\ \A f \in Nodes : ~dirty' /\ find_node_in_registry(k)' = f => Found'[k] = Read(node[f].value)'
<1>1. \A f \in Nodes : f # NoNode
  BY DEF Nodes, NoNode
<1> QED BY <1>1 DEF Found, Read

LEMMA FoundDomain ==
  /\ DOMAIN Found = Keys /\ Found = [k \in Keys |-> Found[k]]
  /\ DOMAIN Found' = Keys /\ Found' = [k \in Keys |-> Found'[k]]
BY DEF Found

LEMMA FoundSame ==
  ASSUME UNCHANGED dirty,
         ~dirty => \A k \in Keys : find_node_in_registry(k)' = find_node_in_registry(k),
         ~dirty => \A i \in LiveNodes : Read(node[i].value)' = Read(node[i].value)
  PROVE  UNCHANGED Found
<1> SUFFICES ASSUME NEW k \in Keys PROVE Found'[k] = Found[k]
  BY FoundDomain
<1>1. PICK f \in Nodes \cup {NoNode} : f = find_node_in_registry(k)
  BY Finding
<1>2. f # NoNode => f \in LiveNodes
  BY <1>1, Finding DEF Matches, LiveNodes, Live
<1> QED BY <1>1, <1>2, FoundIs, FoundNext

\* Steps that leave the flash alone.
LEMMA QuietFound ==
  ASSUME UNCHANGED <<node, data, dirty>>
  PROVE  UNCHANGED Found
<1>1. \A i \in Nodes, k \in Keys : (Matches(i, k)' <=> Matches(i, k)) /\ (Stops(i)' <=> Stops(i))
  BY DEF Matches, Stops, Read
<1>2. \A k \in Keys : find_node_in_registry(k)' = find_node_in_registry(k)
  BY <1>1, FindSame
<1>3. \A i \in LiveNodes : Read(node[i].value)' = Read(node[i].value)
  BY DEF Read
<1> QED BY <1>2, <1>3, FoundSame

LEMMA QuietEntries ==
  ASSUME EntryInv, UNCHANGED <<node, data, dirty>>, ~Writing' \/ UNCHANGED <<pc, op>>
  PROVE  EntryInv'
<1> SUFFICES ASSUME ~dirty' PROVE EntryInv'
  BY DEF EntryInv
<1>1. Writing' => Writing /\ UNCHANGED <<pc, op>>
  BY DEF Writing
<1>2. LiveNodes' = LiveNodes /\ \A i : Extent(i)' = Extent(i)
  BY DEF LiveNodes, Live, Extent
<1>3. \A i : (Stops(i)' <=> Stops(i)) /\ (is_empty(i)' <=> is_empty(i))
  BY DEF Stops, is_empty
<1>4. \A i, k : Matches(i, k)' <=> Matches(i, k)
  BY DEF Matches, Read
<1>5. LiveAreEntries'
  BY <1>2 DEF EntryInv, LiveAreEntries, IsEntry, Holds
<1>6. EntriesApart' /\ WrittenAbove'
  BY <1>1, <1>2 DEF EntryInv, EntriesApart, WrittenAbove
<1>7. NodesInOrder'
  BY <1>1, <1>3 DEF EntryInv, NodesInOrder
<1>8. SameKeyIsHidden'
  <2>1. Writing' => \A i : Matches(i, op.adding[1])' <=> Matches(i, op.adding[1])
    BY <1>1, <1>4 DEF Matches, Read
  <2> QED BY <1>1, <1>3, <1>4, <2>1 DEF EntryInv, SameKeyIsHidden
<1> QED BY <1>5, <1>6, <1>7, <1>8 DEF EntryInv

LEMMA AddEntries ==
  ASSUME FlashInv, EntryInv, ValuesEndProgrammed, NEW k \in Keys, NEW v \in Values, Begins(k, v)',
         UNCHANGED <<up, node, data, span, dirty>>
  PROVE  EntryInv'
<1> SUFFICES ASSUME ~dirty' PROVE EntryInv'
  BY DEF EntryInv
<1>1. /\ find_node_in_registry(k) = NoNode
      /\ op'.slot \in Nodes /\ is_empty(op'.slot) /\ \A j \in Nodes : j < op'.slot => ~is_empty(j)
      /\ op'.dest = free_space /\ op'.adding[1] = k
  <2>1. free_space' = free_space
    BY DEF free_space
  <2>2. find_node_in_registry(k)' = find_node_in_registry(k)
    BY DEF find_node_in_registry, Stops, Matches, Read
  <2> QED BY <2>1, <2>2 DEF Begins, is_empty
<1>2. LiveNodes' = LiveNodes /\ \A i : Extent(i)' = Extent(i)
  BY DEF LiveNodes, Live, Extent
<1>3. \A i : (Stops(i)' <=> Stops(i)) /\ (is_empty(i)' <=> is_empty(i))
  BY DEF Stops, is_empty
<1>4. \A i, j : (Matches(i, j)' <=> Matches(i, j))
  BY DEF Matches, Read
<1>5. LiveAreEntries' /\ EntriesApart'
  BY <1>2 DEF EntryInv, LiveAreEntries, EntriesApart, IsEntry, Holds
<1>6. WrittenAbove'
  BY <1>1, <1>2, LiveBelowFree DEF EntryInv, WrittenAbove
<1>7. NodesInOrder'
  BY <1>1, <1>3 DEF EntryInv, NodesInOrder
<1>8. SameKeyIsHidden'
  <2>1. \A i : Matches(i, op.adding[1])' <=> Matches(i, k)
    BY <1>1 DEF Matches, Read
  <2>2. \A i \in Nodes : Matches(i, k) => \E s \in Nodes : s < i /\ Stops(s)
    BY <1>1, Finding
  <2> QED BY <1>3, <1>4, <2>1, <2>2 DEF EntryInv, SameKeyIsHidden
<1> QED BY <1>5, <1>6, <1>7, <1>8 DEF EntryInv

\* A call that goes on writing: its node is not an entry yet, and its words lie above
\* those of the entries.
LEMMA WritingEntries ==
  ASSUME FlashInv, EntryInv, Writing, Writing', UNCHANGED dirty,
         op'.slot = op.slot, op'.dest = op.dest, op'.adding = op.adding,
         \A i \in Nodes \ {op.slot} : node'[i] = node[i],
         ~node'[op.slot].ready, ~node'[op.slot].deleted,
         \A c \in Cells : c < op.dest => data'[c] = data[c]
  PROVE  EntryInv' /\ UNCHANGED Found
<1>1. CASE dirty
  BY <1>1, FoundSame DEF EntryInv
<1> SUFFICES ASSUME ~dirty PROVE EntryInv' /\ UNCHANGED Found
  BY <1>1
<1>2. /\ LiveAreEntries /\ EntriesApart /\ WrittenAbove /\ NodesInOrder /\ SameKeyIsHidden
      /\ op.slot \in Nodes /\ ~node[op.slot].ready /\ ~node[op.slot].deleted /\ op.dest \in Nat
  BY DEF EntryInv, FlashInv, CallIsSound, Shapes
<1>3. LiveNodes' = LiveNodes /\ op.slot \notin LiveNodes
  BY <1>2 DEF LiveNodes, Live
<1>4. ASSUME NEW i \in LiveNodes
      PROVE  /\ node'[i] = node[i]
             /\ \A c \in Extent(i) : c \in 1 .. op.dest - 1 /\ data'[c] = data[c]
  <2>1. i \in Nodes \ {op.slot} /\ Extent(i) \subseteq 1 .. op.dest - 1
    BY <1>2, <1>3 DEF WrittenAbove, LiveNodes
  <2>2. PICK k \in Keys, v \in Values : IsEntry(i, k, v)
    BY <1>2 DEF LiveAreEntries
  <2>3. Extent(i) \subseteq Cells
    BY <2>1, <2>2, EntryIsRead
  <2>4. \A c \in 1 .. op.dest - 1 : c < op.dest
    BY <1>2
  <2> QED BY <2>1, <2>3, <2>4
<1>5. /\ LiveAreEntries' /\ EntriesApart' /\ \A i \in LiveNodes' : Extent(i)' = Extent(i)
      /\ \A i \in LiveNodes' : /\ Read(node[i].key)' = Read(node[i].key)
                                /\ Read(node[i].value)' = Read(node[i].value)
      /\ \A i \in Nodes, k \in Keys : Matches(i, k)' => i \in LiveNodes /\ Matches(i, k)
  BY <1>2, <1>3, <1>4, EntriesStay
<1>6. WrittenAbove'
  BY <1>2, <1>3, <1>5 DEF WrittenAbove
<1>7. \A i \in Nodes : Stops(i)' <=> Stops(i)
  BY <1>2 DEF Stops
<1>8. \A i \in Nodes : i # op.slot => (is_empty(i)' <=> is_empty(i))
  BY DEF is_empty
<1>9. \A i, j \in Nodes : j < i /\ is_empty(j)' => is_empty(i)'
  <2> SUFFICES ASSUME NEW i \in Nodes, NEW j \in Nodes, j < i, is_empty(j)' PROVE is_empty(i)'
    OBVIOUS
  <2>1. i \in Nat /\ j \in Nat
    BY DEF Nodes
  <2>2. i # op.slot
    BY <1>2, <1>8, <2>1 DEF NodesInOrder
  <2>3. is_empty(i)
    BY <1>2, <1>8, <2>1, <2>2 DEF NodesInOrder
  <2> QED BY <1>8, <2>2, <2>3
<1>10. NodesInOrder'
  <2>1. \A i \in Nodes : i > op.slot \/ i < op.slot => i # op.slot
    BY DEF Nodes
  <2> QED BY <1>2, <1>8, <1>9, <2>1 DEF NodesInOrder
<1>11. SameKeyIsHidden'
  <2>1. \A k \in Keys, i, j \in Nodes :
          i < j /\ Matches(i, k)' /\ Matches(j, k)' => \E n \in Nodes : n < j /\ Stops(n)'
    BY <1>2, <1>5, <1>7 DEF SameKeyIsHidden
  <2>2. op.adding[1] \in Keys
    BY DEF FlashInv, CallIsSound
  <2>3. \A i \in Nodes : Matches(i, op.adding[1])' => \E n \in Nodes : n < i /\ Stops(n)'
    <3>1. PICK k \in Keys : k = op.adding[1]
      BY <2>2
    <3>2. \A i \in Nodes : Matches(i, k)' => \E n \in Nodes : n < i /\ Stops(n)
      BY <1>2, <1>5, <3>1 DEF SameKeyIsHidden
    <3> QED BY <1>7, <3>1, <3>2 DEF Matches, Read
  <2> QED BY <2>1, <2>3 DEF SameKeyIsHidden
<1>12. UNCHANGED Found
  <2>1. \A i \in Nodes, k \in Keys : Matches(i, k)' <=> Matches(i, k)
    <3>1. \A i \in Nodes, k \in Keys : Matches(i, k) => i \in LiveNodes
      BY DEF Matches, LiveNodes, Live
    <3>2. \A i \in LiveNodes : Live(i)'
      BY <1>3 DEF LiveNodes
    <3> QED BY <1>3, <1>5, <3>1, <3>2 DEF Matches, Live
  <2>2. \A k \in Keys : find_node_in_registry(k)' = find_node_in_registry(k)
    BY <1>7, <2>1, FindSame
  <2> QED BY <1>3, <1>5, <2>2, FoundSame
<1> QED BY <1>5, <1>6, <1>10, <1>11, <1>12 DEF EntryInv

LEMMA WriteEntries ==
  ASSUME FlashInv, EntryInv, WriteSpans \/ WriteKey \/ WriteValue
  PROVE  EntryInv' /\ UNCHANGED Found
<1>1. Writing /\ UNCHANGED dirty /\ pc \in {"spans", "key", "value"}
  BY DEF WriteSpans, WriteKey, WriteValue, Writing
<1>2. CASE FlashError
  <2>1. UNCHANGED <<node, data>>
    BY <1>2 DEF FlashError
  <2>2. UNCHANGED Found
    BY <1>1, <2>1, QuietFound
  <2> QED BY <1>1, <1>2, <2>2, QuietEntries DEF FlashError, Done, Writing
<1>3. /\ op.slot \in Nodes /\ op.dest \in Nat /\ op \in OpShape
      /\ ~node[op.slot].ready /\ ~node[op.slot].deleted
      /\ node \in [Nodes -> NodeType] /\ data \in [Cells -> [1..WordSize -> Nat]]
  BY <1>1 DEF FlashInv, CallIsSound, Shapes, OpShape
<1>4. CASE WriteSpans /\ ~FlashError
  <2>1. /\ op'.slot = op.slot /\ op'.dest = op.dest /\ op'.adding = op.adding /\ UNCHANGED data
        /\ pc' \in {"spans", "key"}
    BY <1>1, <1>3, <1>4 DEF WriteSpans, OpShape
  <2>2. /\ \A i \in Nodes \ {op.slot} : node'[i] = node[i]
        /\ ~node'[op.slot].ready /\ ~node'[op.slot].deleted
    BY <1>3, <1>4 DEF WriteSpans, NodeType
  <2> QED BY <1>1, <2>1, <2>2, WritingEntries DEF Writing
<1>5. CASE (WriteKey \/ WriteValue) /\ ~FlashError
  <2>1. /\ op'.slot = op.slot /\ op'.dest = op.dest /\ op'.adding = op.adding /\ UNCHANGED node
        /\ pc' \in {"key", "value", "ready"} /\ pc \in {"key", "value"}
        /\ \E w : data' = [data EXCEPT ![op.flash_cb.destination_ptr] = w]
    BY <1>3, <1>5 DEF WriteKey, WriteValue, Program, OpShape
  <2>2. PICK k \in Keys, v \in Values :
          /\ op.adding[1] = k /\ op.adding[2] = v /\ Words(k) \in Nat /\ Words(v) \in Nat
          /\ ValueSpan.ptr = op.dest + Words(k)
    BY <1>1, LocalsOf
  <2>3. op.flash_cb.destination_ptr \in Nat /\ op.flash_cb.destination_ptr >= op.dest
    <3>1. PICK d \in Nat : d = op.flash_cb.destination_ptr
      BY <1>3 DEF OpShape
    <3>2. pc = "key" => d - op.dest \in Nat
      BY <2>2, <3>1 DEF FlashInv, CallIsSound, Progress
    <3>3. pc = "value" => d - (op.dest + Words(k)) \in Nat
      BY <2>2, <3>1 DEF FlashInv, CallIsSound, Progress
    <3> QED BY <1>3, <2>1, <2>2, <3>1, <3>2, <3>3
  <2>4. \A c \in Cells : c < op.dest => data'[c] = data[c]
    BY <1>3, <2>1, <2>3 DEF Cells
  <2> QED BY <1>1, <1>3, <2>1, <2>4, WritingEntries DEF Writing
<1> QED BY <1>2, <1>4, <1>5

\* Before its ready flag is set the new node has all that an entry has.
LEMMA SlotIsEntry ==
  ASSUME FlashInv, pc = "ready"
  PROVE  /\ op.slot \in Nodes /\ ~node[op.slot].ready /\ ~node[op.slot].deleted
         /\ \E k \in Keys, v \in Values :
              /\ op.adding[1] = k /\ op.adding[2] = v /\ IsEntry(op.slot, k, v)
              /\ \A c \in Extent(op.slot) : c >= op.dest
<1>1. Writing
  BY DEF Writing
<1>2. PICK k \in Keys, v \in Values :
        /\ op.adding[1] = k /\ op.adding[2] = v
        /\ Words(k) \in Nat \ {0} /\ Words(v) \in Nat \ {0}
        /\ op.dest \in Nat \ {0} /\ op.dest + Words(k) + Words(v) <= DataSize + 1
        /\ KeySpan = [ptr |-> op.dest, size |-> Len(Content[k])]
        /\ ValueSpan = [ptr |-> op.dest + Words(k), size |-> Len(Content[v])]
  BY <1>1, LocalsOf
<1>3. /\ op.slot \in Nodes /\ ~node[op.slot].ready /\ ~node[op.slot].deleted
      /\ node[op.slot].key = KeySpan /\ node[op.slot].value = ValueSpan
      /\ Holds(op.dest, k, Words(k)) /\ Holds(op.dest + Words(k), v, Words(v))
  BY <1>1, <1>2 DEF FlashInv, CallIsSound
<1>4. IsEntry(op.slot, k, v)
  BY <1>2, <1>3 DEF IsEntry
<1>5. Extent(op.slot) = op.dest .. op.dest + Words(k) + Words(v) - 1
  BY <1>2, <1>3 DEF Extent, Words
<1>6. \A c \in Extent(op.slot) : c >= op.dest
  BY <1>2, <1>5
<1> QED BY <1>2, <1>3, <1>4, <1>6

LEMMA ReadyEntries ==
  ASSUME FlashInv, EntryInv, SetReady
  PROVE  EntryInv'
<1>1. pc = "ready" /\ Writing /\ UNCHANGED <<data, dirty>> /\ pc' = "idle"
  BY DEF SetReady, Writing, FlashError, Done
<1>2. CASE UNCHANGED node
  BY <1>1, <1>2, QuietEntries DEF Writing
<1>3. CASE node' = [node EXCEPT ![op.slot].ready = TRUE] /\ ~dirty
  <2>1. PICK n \in Nodes : n = op.slot /\ ~node[n].ready /\ ~node[n].deleted
    BY <1>1, SlotIsEntry
  <2>2. PICK k \in Keys, v \in Values :
          op.adding[1] = k /\ IsEntry(n, k, v) /\ \A c \in Extent(n) : c >= op.dest
    BY <1>1, <2>1, SlotIsEntry
  <2>3. /\ node \in [Nodes -> NodeType] /\ op.dest \in Nat
        /\ LiveAreEntries /\ EntriesApart /\ WrittenAbove /\ NodesInOrder /\ SameKeyIsHidden
    BY <1>3 DEF FlashInv, Shapes, EntryInv
  <2>4. /\ \A i \in Nodes : node'[i].key = node[i].key /\ node'[i].value = node[i].value
        /\ \A i \in Nodes \ {n} : node'[i] = node[i]
        /\ node'[n].ready /\ ~node'[n].deleted
    BY <1>3, <2>1, <2>3 DEF NodeType
  <2>5. LiveNodes' = LiveNodes \cup {n} /\ n \notin LiveNodes
    BY <2>1, <2>4 DEF LiveNodes, Live
  <2>6. ASSUME NEW i \in LiveNodes'
        PROVE  \E j \in Keys, u \in Values :
                 /\ IsEntry(i, j, u)' /\ Extent(i)' = Extent(i)
                 /\ Read(node[i].key) = Content[j] /\ Read(node[i].key)' = Content[j]
                 /\ i = n => j = k
    <3>1. PICK j \in Keys, u \in Values : IsEntry(i, j, u) /\ (i = n => j = k)
      <4>1. CASE i = n
        BY <2>2, <4>1
      <4>2. CASE i # n
        BY <2>3, <2>5, <4>2 DEF LiveAreEntries
      <4> QED BY <4>1, <4>2
    <3>2. i \in Nodes
      BY DEF LiveNodes
    <3>3. IsEntry(i, j, u)' /\ Extent(i)' = Extent(i) /\ Read(node[i].key)' = Content[j]
      BY <1>1, <2>4, <3>1, <3>2, EntryStays
    <3>4. Read(node[i].key) = Content[j]
      BY <3>1, <3>2, EntryIsRead
    <3> QED BY <3>1, <3>3, <3>4
  <2>7. LiveAreEntries'
    BY <2>6 DEF LiveAreEntries
  <2>8. EntriesApart'
    <3>1. ASSUME NEW i \in LiveNodes PROVE Extent(i) \cap Extent(n) = {}
      <4>1. Extent(i) \subseteq 1 .. op.dest - 1
        BY <1>1, <2>3 DEF WrittenAbove
      <4> QED BY <2>2, <2>3, <4>1
    <3>2. \A i, j \in LiveNodes' : i # j => Extent(i) \cap Extent(j) = {}
      BY <2>3, <2>5, <3>1 DEF EntriesApart
    <3> QED BY <2>6, <3>2 DEF EntriesApart
  <2>9. /\ \A i \in Nodes : is_empty(i)' => is_empty(i)
        /\ \A i \in Nodes : i # n /\ is_empty(i) => is_empty(i)'
    <3>1. ~is_empty(n)'
      BY <2>4 DEF is_empty, EmptyNode
    <3> QED BY <2>4, <3>1 DEF is_empty
  <2>10. \A i \in Nodes : i > n => is_empty(i)
    BY <1>1, <2>1, <2>3 DEF NodesInOrder
  <2>11. NodesInOrder'
    <3>1. ~Writing'
      BY <1>1 DEF Writing
    <3>2. \A i, j \in Nodes : j < i /\ is_empty(j)' => is_empty(i)'
      <4> SUFFICES ASSUME NEW i \in Nodes, NEW j \in Nodes, j < i, is_empty(j)' PROVE is_empty(i)'
        OBVIOUS
      <4>1. is_empty(j) /\ is_empty(i)
        BY <2>3, <2>9 DEF NodesInOrder
      <4>2. j < n => FALSE
        BY <1>1, <2>1, <2>3, <4>1 DEF NodesInOrder
      <4>3. i # n
        BY <4>2
      <4> QED BY <2>9, <4>1, <4>3
    <3> QED BY <3>1, <3>2 DEF NodesInOrder
  <2>12. SameKeyIsHidden'
    <3>1. ~Writing'
      BY <1>1 DEF Writing
    <3>2. ASSUME NEW i \in Nodes, NEW j \in Keys, Matches(i, j)'
          PROVE  i = n \/ Matches(i, j)
      <4>1. i \in LiveNodes' /\ Read(node[i].key)' = Content[j]
        BY <3>2 DEF Matches, LiveNodes, Live
      <4>2. Read(node[i].key) = Content[j]
        BY <2>6, <4>1
      <4> QED BY <2>5, <4>1, <4>2 DEF Matches, LiveNodes, Live
    <3>3. ASSUME NEW j \in Keys, Matches(n, j)' PROVE j = k
      <4>1. n \in LiveNodes' /\ Read(node[n].key)' = Content[j]
        BY <2>5, <3>3 DEF Matches
      <4>2. Content[k] = Content[j]
        BY <2>6, <4>1
      <4> QED BY <4>2, RegistryAssumption
    <3>4. \A i \in Nodes : i # n => (Stops(i)' <=> Stops(i))
      BY <2>4 DEF Stops
    <3>5. \A i \in Nodes, j \in Keys : i > n => ~Matches(i, j)
      BY <2>10 DEF is_empty, EmptyNode, Matches
    <3>6. ASSUME NEW j \in Keys, NEW i \in Nodes, NEW m \in Nodes, i < m, Matches(i, j)', Matches(m, j)'
          PROVE  \E s \in Nodes : s < m /\ Stops(s)'
      <4>1. i \in Nat /\ m \in Nat /\ n \in Nat
        BY DEF Nodes
      <4>2. m <= n
        BY <3>2, <3>5, <3>6, <4>1
      <4>3. Matches(i, j)
        BY <3>2, <3>6, <4>1, <4>2
      <4>4. \E s \in Nodes : s < m /\ Stops(s)
        <5>1. CASE m # n
          BY <2>3, <3>2, <3>6, <4>3, <5>1 DEF SameKeyIsHidden
        <5>2. CASE m = n
          <6>1. j = k
            BY <3>3, <3>6, <5>2
          <6>2. PICK s \in Nodes : s < i /\ Stops(s)
            BY <1>1, <2>2, <2>3, <4>3, <6>1 DEF SameKeyIsHidden
          <6>3. s < m
            BY <3>6, <4>1, <6>2 DEF Nodes
          <6> QED BY <6>2, <6>3
        <5> QED BY <5>1, <5>2
      <4>5. PICK s \in Nodes : s < m /\ Stops(s)
        BY <4>4
      <4>6. s # n
        BY <4>1, <4>2, <4>5
      <4> QED BY <3>4, <4>5, <4>6
    <3> QED BY <3>1, <3>6 DEF SameKeyIsHidden
  <2> QED BY <2>7, <2>8, <2>11, <2>12, <1>1 DEF EntryInv, WrittenAbove, Writing
<1>4. CASE dirty
  BY <1>1, <1>4 DEF EntryInv
<1> QED BY <1>2, <1>3, <1>4 DEF SetReady, FlashError

LEMMA DeleteEntries ==
  ASSUME FlashInv, EntryInv, NEW k \in Keys, delete(k)
  PROVE  EntryInv'
<1>1. pc = "idle" /\ UNCHANGED <<up, data, pc, op, span, dirty>> /\ ~Writing'
  BY DEF delete, Idle, Writing
<1>2. CASE UNCHANGED node
  BY <1>1, <1>2, QuietEntries
<1>3. CASE dirty
  BY <1>1, <1>3 DEF EntryInv
<1>4. CASE /\ node' = [node EXCEPT ![find_node_in_registry(k)].deleted = TRUE] /\ ~dirty
           /\ find_node_in_registry(k) # NoNode
  <2>1. PICK f \in Nodes : f = find_node_in_registry(k) /\ node[f].ready /\ ~node[f].deleted
    BY <1>4, Finding DEF Matches
  <2>2. /\ node \in [Nodes -> NodeType]
        /\ LiveAreEntries /\ EntriesApart /\ NodesInOrder /\ SameKeyIsHidden
    BY <1>4 DEF FlashInv, Shapes, EntryInv
  <2>3. /\ \A i \in Nodes : node'[i].key = node[i].key /\ node'[i].value = node[i].value
        /\ \A i \in Nodes \ {f} : node'[i] = node[i]
        /\ node'[f].deleted /\ node'[f].ready
    BY <1>4, <2>1, <2>2 DEF NodeType
  <2>4. (LiveNodes') \subseteq LiveNodes
    BY <2>1, <2>3 DEF LiveNodes, Live
  <2>5. /\ LiveAreEntries' /\ EntriesApart'
        /\ \A i \in Nodes, j \in Keys : Matches(i, j)' => Matches(i, j)
    <3>1. \A i \in LiveNodes' : /\ node'[i].key = node[i].key /\ node'[i].value = node[i].value
                                /\ \A c \in Extent(i) : data'[c] = data[c]
      BY <1>1, <2>3 DEF LiveNodes
    <3> QED BY <2>2, <2>4, <3>1, EntriesStay
  <2>6. \A i \in Nodes : Stops(i)' <=> Stops(i)
    BY <2>1, <2>3 DEF Stops
  <2>7. \A i \in Nodes : is_empty(i)' <=> is_empty(i)
    BY <2>1, <2>3 DEF is_empty, EmptyNode
  <2>8. NodesInOrder'
    BY <1>1, <2>2, <2>7 DEF NodesInOrder
  <2>9. SameKeyIsHidden'
    BY <1>1, <2>2, <2>5, <2>6 DEF SameKeyIsHidden
  <2> QED BY <1>1, <2>5, <2>8, <2>9 DEF EntryInv, WrittenAbove
<1> QED BY <1>2, <1>3, <1>4 DEF delete

\* clean_all leaves an empty table when it says that it has erased everything.
LEMMA CleanEntries ==
  ASSUME FlashInv, EntryInv, clean_all \/ EraseInfo \/ EraseData
  PROVE  EntryInv'
<1> SUFFICES ASSUME ~dirty' PROVE EntryInv'
  BY DEF EntryInv
<1>1. EraseData /\ ~UNCHANGED dirty
  BY DEF clean_all, EraseInfo, EraseData, FlashInv, CallIsSound
<1>2. pc' = "idle" /\ UNCHANGED node /\ {i \in Nodes : ~is_empty(i)} = {}
  BY <1>1 DEF EraseData, Done
<1>3. \A i \in Nodes : is_empty(i)' /\ ~Live(i)'
  <2>1. ASSUME NEW i \in Nodes PROVE node'[i] = EmptyNode
    <3>1. is_empty(i)
      BY <1>2
    <3> QED BY <1>2, <3>1 DEF is_empty
  <2>2. ~EmptyNode.ready
    BY DEF EmptyNode
  <2> QED BY <2>1, <2>2 DEF is_empty, Live
<1>4. LiveNodes' = {} /\ ~Writing' /\ \A i \in Nodes, k \in Keys : ~Matches(i, k)'
  BY <1>2, <1>3 DEF LiveNodes, Writing, Matches, Live
<1> QED BY <1>3, <1>4 DEF EntryInv, LiveAreEntries, EntriesApart, WrittenAbove, NodesInOrder, SameKeyIsHidden

LEMMA InitEntries == Init => EntryInv
<1> SUFFICES ASSUME Init PROVE EntryInv
  OBVIOUS
<1>1. ~Writing /\ \A i \in Nodes : is_empty(i) /\ ~Live(i) /\ \A k \in Keys : ~Matches(i, k)
  BY DEF Init, Writing, is_empty, EmptyNode, Live, Matches
<1>2. LiveNodes = {}
  BY <1>1 DEF LiveNodes
<1> QED BY <1>1, <1>2 DEF EntryInv, LiveAreEntries, EntriesApart, WrittenAbove, NodesInOrder, SameKeyIsHidden

LEMMA NextEntries ==
  ASSUME FlashInv, EntryInv, ValuesEndProgrammed, [Next]_vars
  PROVE  EntryInv'
<1>1. CASE UNCHANGED vars
  BY <1>1, QuietEntries DEF vars
<1>2. ASSUME NEW k \in Keys, NEW v \in Values, add(k, v) PROVE EntryInv'
  <2>1. Shapes
    BY DEF FlashInv
  <2> QED BY <1>1, <1>2, <2>1, AddBegins, AddEntries
<1>3. ASSUME NEW k \in Keys, NEW r \in Readers, try_get_value(r, k) PROVE EntryInv'
  <2>1. UNCHANGED <<node, data, dirty, pc, op>>
    BY <1>3 DEF try_get_value
  <2> QED BY <2>1, QuietEntries
<1>4. CASE az_ulib_registry_init \/ az_ulib_registry_deinit \/ Crash
  <2>1. UNCHANGED <<node, data, dirty>> /\ (~Writing' \/ UNCHANGED <<pc, op>>)
    BY <1>4 DEF az_ulib_registry_init, az_ulib_registry_deinit, Crash, Done, Writing
  <2> QED BY <2>1, QuietEntries
<1> QED BY <1>1, <1>2, <1>3, <1>4, WriteEntries, ReadyEntries, DeleteEntries, CleanEntries DEF Next

LEMMA EntriesAlways ==
  ASSUME ValuesEndProgrammed
  PROVE  Spec => [](FlashInv /\ EntryInv)
BY InitFlash, InitEntries, NextFlash, NextEntries, PTL DEF Spec

\* No two entries share a word, and none has a word in the space that add will write to.
THEOREM EntriesKeepApart ==
  ASSUME ValuesEndProgrammed
  PROVE  Spec => []ExtentsDisjoint
<1>1. FlashInv /\ EntryInv => ExtentsDisjoint
  BY LiveBelowFree DEF EntryInv, EntriesApart, ExtentsDisjoint
<1> QED BY <1>1, EntriesAlways, PTL

LEMMA WordsCountedOnce ==
  ASSUME FlashInv, ExtentsDisjoint, ~dirty
  PROVE  in_use_registry_data + free_registry_data <= DataSize
<1>1. PICK top \in Nat : top = free_space - 1 /\ DataSize \in Nat
  BY FreeSpace, RegistryAssumption DEF FlashInv
<1>2. PICK W : W = UNION {{i} \X Extent(i) : i \in LiveNodes}
  OBVIOUS
<1> DEFINE f == [w \in W |-> w[2]]
<1>3. ASSUME NEW w \in W
      PROVE  w[1] \in LiveNodes /\ w[2] \in Extent(w[1]) /\ w = <<w[1], w[2]>> /\ w[2] \in 1..top
  <2>1. PICK i \in LiveNodes : w \in {i} \X Extent(i)
    BY <1>2
  <2>2. Extent(i) \subseteq 1..top
    BY <1>1 DEF ExtentsDisjoint
  <2> QED BY <2>1, <2>2
<1>4. ASSUME NEW w \in W, NEW x \in W, w[2] = x[2] PROVE w = x
  <2>1. w[1] = x[1]
    BY <1>3, <1>4 DEF ExtentsDisjoint
  <2> QED BY <1>3, <1>4, <2>1
<1>5. f \in Injection(W, 1..top)
  BY <1>3, <1>4 DEF Injection, IsInjective
<1>6. IsFiniteSet(1..top) /\ Cardinality(1..top) = IF 1 > top THEN 0 ELSE top - 1 + 1
  BY FS_Interval
<1>7. Cardinality(1..top) = top
  BY <1>6
<1>8. IsFiniteSet(W) /\ Cardinality(W) <= Cardinality(1..top)
  <2> HIDE DEF f
  <2> QED BY <1>5, <1>6, FS_Injection
<1>9. Cardinality(W) \in Nat
  BY <1>8, FS_CardinalityType
<1>10. in_use_registry_data = Cardinality(W)
  BY <1>2 DEF in_use_registry_data
<1>11. free_space = top + 1
  BY <1>1, FreeSpace DEF FlashInv
<1> QED BY <1>1, <1>7, <1>8, <1>9, <1>10, <1>11 DEF free_registry_data

\* get_info never reports more words in use and free than there are.
THEOREM RegistrySpaceAccounted ==
  ASSUME ValuesEndProgrammed
  PROVE  Spec => []SpaceAccounted
<1>1. FlashInv /\ EntryInv => SpaceAccounted
  BY LiveBelowFree, WordsCountedOnce DEF EntryInv, EntriesApart, ExtentsDisjoint, SpaceAccounted
<1> QED BY <1>1, EntriesAlways, PTL

-----------------------------------------------------------------------------
(***************************************************************************)
(* What add and delete change.                                             *)
(***************************************************************************)

\* With its ready flag an entry is found, unless a node stops the search before it.
LEMMA ReadyEffect ==
  ASSUME FlashInv, EntryInv, ~dirty, pc = "ready", node' = [node EXCEPT ![op.slot].ready = TRUE],
         UNCHANGED data
  PROVE  \E k \in Keys, v \in Values :
           /\ op.adding[1] = k /\ find_node_in_registry(k) = NoNode
           /\ \A j \in Keys \ {k} : find_node_in_registry(j)' = find_node_in_registry(j)
           /\ (\E n \in Nodes : n < op.slot /\ Stops(n)) => find_node_in_registry(k)' = NoNode
           /\ ~(\E n \in Nodes : n < op.slot /\ Stops(n)) => find_node_in_registry(k)' = op.slot
           /\ Read(node[op.slot].value) = Content[v]
           /\ \A i \in Nodes : Read(node[i].value)' = Read(node[i].value)
<1>1. PICK s \in Nodes : s = op.slot /\ ~node[s].ready /\ ~node[s].deleted
  BY SlotIsEntry
<1>2. PICK k \in Keys, v \in Values : op.adding[1] = k /\ IsEntry(s, k, v)
  BY <1>1, SlotIsEntry
<1>3. /\ node \in [Nodes -> NodeType] /\ Writing /\ SameKeyIsHidden
      /\ \A i \in Nodes : i > s => is_empty(i)
  BY <1>1 DEF FlashInv, Shapes, EntryInv, Writing, NodesInOrder
<1>4. /\ \A i \in Nodes : node'[i].key = node[i].key /\ node'[i].value = node[i].value
      /\ \A i \in Nodes \ {s} : node'[i] = node[i]
      /\ node'[s].ready /\ ~node'[s].deleted
  BY <1>1, <1>3 DEF NodeType
<1>5. \A i \in Nodes : /\ Read(node[i].key)' = Read(node[i].key)
                       /\ Read(node[i].value)' = Read(node[i].value)
  <2> TAKE i \in Nodes
  <2>1. node'[i].key = node[i].key /\ node'[i].value = node[i].value
    BY <1>4
  <2>2. Read(node[i].key)' = Read(node[i].key)
    BY <2>1 DEF Read
  <2>3. Read(node[i].value)' = Read(node[i].value)
    BY <2>1 DEF Read
  <2> QED BY <2>2, <2>3
<1>6. Read(node[s].key) = Content[k] /\ Read(node[s].value) = Content[v]
  BY <1>2, EntryIsRead
<1>7. \A i \in Nodes : i # s => (Stops(i)' <=> Stops(i)) /\ \A j \in Keys : Matches(i, j)' <=> Matches(i, j)
  BY <1>4, <1>5 DEF Stops, Matches
<1>8. \A j \in Keys : ~Matches(s, j) /\ (Matches(s, j)' <=> j = k)
  BY <1>1, <1>4, <1>5, <1>6, RegistryAssumption DEF Matches
<1>9. \A i \in Nodes, j \in Keys : Matches(i, j) => i < s
  <2>1. \A i \in Nodes, j \in Keys : Matches(i, j) => ~(i > s) /\ i # s
    BY <1>3, <1>8 DEF is_empty, EmptyNode, Matches
  <2> QED BY <2>1 DEF Nodes
<1>10. \A i \in Nodes : i \in Nat /\ i # NoNode
  BY DEF Nodes, NoNode
<1>11. find_node_in_registry(k) = NoNode
  BY <1>2, <1>3, Finding DEF SameKeyIsHidden
<1>12. ASSUME NEW j \in Keys \ {k} PROVE find_node_in_registry(j)' = find_node_in_registry(j)
  <2>1. PICK f : f = find_node_in_registry(j)
    OBVIOUS
  <2>2. CASE f = NoNode
    <3>1. ASSUME NEW i \in Nodes, Matches(i, j)' PROVE \E n \in Nodes : n < i /\ Stops(n)'
      <4>1. Matches(i, j) /\ i < s
        BY <1>7, <1>8, <1>9, <3>1
      <4>2. PICK n \in Nodes : n < i /\ Stops(n)
        BY <2>1, <2>2, <4>1, Finding
      <4>3. n # s
        BY <1>10, <4>1, <4>2
      <4> QED BY <1>7, <4>2, <4>3
    <3> QED BY <2>1, <2>2, <3>1, HiddenIsNotFoundNext
  <2>3. CASE f # NoNode
    <3>1. f \in Nodes /\ Matches(f, j) /\ \A i \in Nodes : i < f => ~Stops(i) /\ ~Matches(i, j)
      BY <2>1, <2>3, Finding
    <3>2. f < s /\ f # s
      BY <1>9, <1>10, <3>1
    <3>3. \A i \in Nodes : i < f => i # s
      BY <1>10, <3>1, <3>2
    <3>4. Matches(f, j)' /\ \A i \in Nodes : i < f => ~Stops(i)' /\ ~Matches(i, j)'
      BY <1>7, <3>1, <3>2, <3>3
    <3> QED BY <2>1, <3>1, <3>4, FirstIsFoundNext
  <2> QED BY <2>2, <2>3
<1>13. ASSUME NEW n \in Nodes, n < s, Stops(n) PROVE find_node_in_registry(k)' = NoNode
  <2>1. Stops(n)'
    BY <1>7, <1>10, <1>13
  <2>2. ASSUME NEW i \in Nodes, i # s, Matches(i, k)' PROVE \E m \in Nodes : m < i /\ Stops(m)'
    <3>1. Matches(i, k) /\ i < s
      BY <1>7, <1>9, <2>2
    <3>2. PICK m \in Nodes : m < i /\ Stops(m)
      BY <1>2, <1>3, <3>1 DEF SameKeyIsHidden
    <3>3. m # s
      BY <1>10, <3>1, <3>2
    <3> QED BY <1>7, <3>2, <3>3
  <2> QED BY <1>13, <2>1, <2>2, HiddenIsNotFoundNext
<1>14. ASSUME ~(\E n \in Nodes : n < s /\ Stops(n)) PROVE find_node_in_registry(k)' = s
  <2>1. ASSUME NEW i \in Nodes, i < s PROVE ~Stops(i)' /\ ~Matches(i, k)'
    <3>1. i # s /\ ~Stops(i)
      BY <1>10, <1>14, <2>1
    <3>2. ~Matches(i, k)
      <4> SUFFICES ASSUME Matches(i, k) PROVE FALSE
        OBVIOUS
      <4>1. PICK m \in Nodes : m < i /\ Stops(m)
        BY <1>2, <1>3 DEF SameKeyIsHidden
      <4>2. m < s
        BY <1>10, <2>1, <4>1
      <4> QED BY <1>14, <4>1, <4>2
    <3> QED BY <1>7, <3>1, <3>2
  <2> QED BY <1>8, <2>1, FirstIsFoundNext
<1> QED BY <1>1, <1>2, <1>5, <1>6, <1>11, <1>12, <1>13, <1>14

\* A deleted node does not stop the search, but the other entries with its key are hidden.
LEMMA DeleteEffect ==
  ASSUME FlashInv, EntryInv, ~dirty, NEW k \in Keys, NEW f \in Nodes, f = find_node_in_registry(k),
         node' = [node EXCEPT ![f].deleted = TRUE], UNCHANGED data
  PROVE  /\ find_node_in_registry(k)' = NoNode
         /\ \A j \in Keys \ {k} : ~Matches(f, j) /\ find_node_in_registry(j)' = find_node_in_registry(j)
         /\ \A i \in Nodes : Read(node[i].value)' = Read(node[i].value)
<1>1. node \in [Nodes -> NodeType] /\ SameKeyIsHidden /\ \A i \in Nodes : i \in Nat /\ i # NoNode
  BY DEF FlashInv, Shapes, EntryInv, Nodes, NoNode
<1>2. Matches(f, k) /\ \A j \in Nodes : j < f => ~Stops(j) /\ ~Matches(j, k)
  BY <1>1, Finding
<1>3. /\ \A i \in Nodes : node'[i].key = node[i].key /\ node'[i].value = node[i].value
      /\ \A i \in Nodes \ {f} : node'[i] = node[i]
      /\ node'[f].deleted /\ node'[f].ready = node[f].ready
  BY <1>1 DEF NodeType
<1>4. \A i \in Nodes : /\ Read(node[i].key)' = Read(node[i].key)
                       /\ Read(node[i].value)' = Read(node[i].value)
  BY <1>3 DEF Read
<1>5. \A j \in Keys : ~Matches(f, j)' /\ (Matches(f, j) => j = k)
  BY <1>2, <1>3, RegistryAssumption DEF Matches
<1>6. \A i \in Nodes : Stops(i)' <=> Stops(i)
  BY <1>2, <1>3 DEF Stops, Matches
<1>7. \A i \in Nodes : i # f => \A j \in Keys : Matches(i, j)' <=> Matches(i, j)
  BY <1>3, <1>4 DEF Matches
<1>8. \A j \in Keys \ {k} : find_node_in_registry(j)' = find_node_in_registry(j)
  BY <1>5, <1>6, <1>7, FindSame
<1>9. ASSUME NEW i \in Nodes, Matches(i, k)' PROVE \E n \in Nodes : n < i /\ Stops(n)'
  <2>1. i # f /\ Matches(i, k)
    BY <1>5, <1>7, <1>9
  <2>2. f < i
    BY <1>1, <1>2, <2>1
  <2> QED BY <1>1, <1>2, <1>6, <2>1, <2>2 DEF SameKeyIsHidden
<1>10. find_node_in_registry(k)' = NoNode
  BY <1>9, HiddenIsNotFoundNext
<1> QED BY <1>4, <1>5, <1>8, <1>10

\* Only SetReady and delete set flags.
LEMMA FlagSteps ==
  ASSUME FlashInv, [Next]_vars, NEW i \in Nodes
  PROVE  /\ ~node[i].ready /\ node'[i].ready =>
              /\ pc = "ready" /\ i = op.slot /\ node' = [node EXCEPT ![op.slot].ready = TRUE]
              /\ UNCHANGED <<data, dirty>>
         /\ ~node[i].deleted /\ node'[i].deleted =>
              /\ \E k \in Keys : i = find_node_in_registry(k)
              /\ node' = [node EXCEPT ![i].deleted = TRUE] /\ UNCHANGED <<data, dirty>>
<1>1. node \in [Nodes -> NodeType]
  BY DEF FlashInv, Shapes
<1>2. CASE UNCHANGED node
  BY <1>2
<1>3. CASE WriteSpans
  <2>1. node'[i].ready = node[i].ready /\ node'[i].deleted = node[i].deleted
    BY <1>1, <1>3 DEF WriteSpans, FlashError, NodeType
  <2> QED BY <2>1
<1>4. CASE SetReady /\ ~UNCHANGED node
  <2>1. /\ pc = "ready" /\ node' = [node EXCEPT ![op.slot].ready = TRUE] /\ UNCHANGED <<data, dirty>>
    BY <1>4 DEF SetReady, FlashError
  <2>2. node'[i].deleted = node[i].deleted /\ (i # op.slot => node'[i] = node[i])
    BY <1>1, <2>1 DEF NodeType
  <2> QED BY <2>1, <2>2
<1>5. ASSUME NEW k \in Keys, delete(k), ~UNCHANGED node
      PROVE  /\ node'[i].ready = node[i].ready
             /\ ~node[i].deleted /\ node'[i].deleted =>
                  /\ i = find_node_in_registry(k)
                  /\ node' = [node EXCEPT ![i].deleted = TRUE] /\ UNCHANGED <<data, dirty>>
  <2>1. PICK f : f = find_node_in_registry(k)
    OBVIOUS
  <2>2. node' = [node EXCEPT ![f].deleted = TRUE] /\ UNCHANGED <<data, dirty>>
    BY <1>5, <2>1 DEF delete
  <2>3. node'[i].ready = node[i].ready /\ (i # f => node'[i] = node[i])
    BY <1>1, <2>2 DEF NodeType
  <2> QED BY <2>1, <2>2, <2>3
<1>6. CASE EraseInfo
  <2>1. node'[i] \in {node[i], EmptyNode}
    BY <1>1, <1>6 DEF EraseInfo
  <2> QED BY <2>1 DEF EmptyNode
<1>7. CASE WriteKey \/ WriteValue \/ clean_all \/ EraseData \/ az_ulib_registry_init
           \/ az_ulib_registry_deinit \/ Crash \/ UNCHANGED vars
  <2>1. UNCHANGED node
    BY <1>7 DEF WriteKey, WriteValue, Program, FlashError, clean_all, EraseData, az_ulib_registry_init,
       az_ulib_registry_deinit, Crash, vars
  <2> QED BY <1>2, <2>1
<1>8. ASSUME NEW k \in Keys, \/ \E v \in Values : add(k, v)
                             \/ \E r \in Readers : try_get_value(r, k)
      PROVE  UNCHANGED node
  BY <1>8 DEF add, try_get_value, vars
<1> QED BY <1>2, <1>3, <1>4, <1>5, <1>6, <1>7, <1>8 DEF Next

\* After a delete the key is not found, however many nodes in the flash carry it.
THEOREM DeletedStaysGone ==
  ASSUME ValuesEndProgrammed
  PROVE  Spec => DeletedIsGone
<1>1. ASSUME FlashInv, EntryInv, [Next]_vars, NEW k \in Keys, NEW i \in Nodes,
             ~dirty, Matches(i, k), ~node[i].deleted, node'[i].deleted
      PROVE  find_node_in_registry(k)' = NoNode
  <2>1. PICK j \in Keys : i = find_node_in_registry(j)
    BY <1>1, FlagSteps
  <2>2. node' = [node EXCEPT ![i].deleted = TRUE] /\ UNCHANGED data
    BY <1>1, FlagSteps
  <2>3. /\ find_node_in_registry(j)' = NoNode
        /\ \A m \in Keys \ {j} : ~Matches(i, m)
    BY <1>1, <2>1, <2>2, DeleteEffect
  <2> QED BY <1>1, <2>3
<1>2. ASSUME FlashInv /\ EntryInv, [Next]_vars
      PROVE  [\A k \in Keys, i \in Nodes :
                ~dirty /\ Matches(i, k) /\ ~node[i].deleted /\ node'[i].deleted
                  => find_node_in_registry(k)' = NoNode]_vars
  BY <1>1, <1>2
<1> QED BY <1>2, EntriesAlways, PTL DEF Spec, DeletedIsGone

\* An entry whose ready flag was written is found, unless a node before it was left
\* without its ready flag.
THEOREM AddedIsFound ==
  ASSUME ValuesEndProgrammed
  PROVE  Spec => AddedIsFoundUnlessTorn
<1>1. ASSUME FlashInv, EntryInv, [Next]_vars, NEW k \in Keys, NEW i \in Nodes,
             ~dirty, BecomesReady(i, k), ~(\E j \in 1 .. i - 1 : Torn(j))
      PROVE  find_node_in_registry(k)' = i
  <2>1. pc = "ready" /\ i = op.slot /\ node' = [node EXCEPT ![op.slot].ready = TRUE] /\ UNCHANGED data
    BY <1>1, FlagSteps DEF BecomesReady
  <2>2. k = op.adding[1] /\ Writing
    BY <1>1, <2>1 DEF BecomesReady, Writing
  <2>3. \A j \in Nodes : j < op.slot => ~is_empty(j)
    BY <1>1, <2>2 DEF EntryInv, NodesInOrder
  <2>4. \A j \in Nodes : j < op.slot => j \in 1 .. i - 1
    BY <2>1 DEF Nodes
  <2>5. ~(\E n \in Nodes : n < op.slot /\ Stops(n))
    BY <1>1, <2>3, <2>4 DEF Torn, Stops
  <2> QED BY <1>1, <2>1, <2>2, <2>5, ReadyEffect
<1>2. ASSUME FlashInv /\ EntryInv, [Next]_vars
      PROVE  [\A k \in Keys, i \in Nodes :
                BecomesReady(i, k) /\ ~dirty /\ ~(\E j \in 1 .. i - 1 : Torn(j))
                  => find_node_in_registry(k)' = i]_vars
  BY <1>1, <1>2
<1> QED BY <1>2, EntriesAlways, PTL DEF Spec, AddedIsFoundUnlessTorn

-----------------------------------------------------------------------------
(***************************************************************************)
(* The registry implements the map.                                        *)
(***************************************************************************)

LEMMA InitMap == Init => Map!Init
<1> SUFFICES ASSUME Init PROVE Map!Init
  OBVIOUS
<1>1. \A i \in Nodes, k \in Keys : ~Matches(i, k)
  BY DEF Init, EmptyNode, Matches
<1>2. \A k \in Keys : find_node_in_registry(k) = NoNode
  BY <1>1, Finding
<1>3. ~dirty
  BY DEF Init
<1>4. \A k \in Keys : Found[k] = NoContent
  BY <1>2, <1>3, FoundIs
<1> QED BY <1>4, FoundDomain DEF Map!Init

\* An add puts its key and value at once, when it writes the ready flag.
LEMMA ReadyMap ==
  ASSUME FlashInv, EntryInv, SetReady
  PROVE  Map!Next \/ UNCHANGED Found
<1>1. pc = "ready" /\ UNCHANGED <<data, dirty>>
  BY DEF SetReady, FlashError
<1>2. CASE UNCHANGED node
  BY <1>1, <1>2, QuietFound
<1>3. CASE dirty
  BY <1>1, <1>3, FoundSame
<1>4. CASE ~dirty /\ node' = [node EXCEPT ![op.slot].ready = TRUE]
  <2>1. PICK k \in Keys, v \in Values :
          /\ find_node_in_registry(k) = NoNode
          /\ \A j \in Keys \ {k} : find_node_in_registry(j)' = find_node_in_registry(j)
          /\ (\E n \in Nodes : n < op.slot /\ Stops(n)) => find_node_in_registry(k)' = NoNode
          /\ ~(\E n \in Nodes : n < op.slot /\ Stops(n)) => find_node_in_registry(k)' = op.slot
          /\ Read(node[op.slot].value) = Content[v]
          /\ \A i \in Nodes : Read(node[i].value)' = Read(node[i].value)
    BY <1>1, <1>4, ReadyEffect
  <2>2. PICK s \in Nodes : s = op.slot
    BY <1>1, SlotIsEntry
  <2>3. \A j \in Keys \ {k} : Found'[j] = Found[j]
    <3> SUFFICES ASSUME NEW j \in Keys \ {k} PROVE Found'[j] = Found[j]
      OBVIOUS
    <3>1. PICK f \in Nodes \cup {NoNode} : f = find_node_in_registry(j) /\ f = find_node_in_registry(j)'
      BY <2>1, Finding
    <3> QED BY <1>1, <1>4, <2>1, <3>1, FoundIs, FoundNext
  <2>4. Found[k] = NoContent
    BY <1>4, <2>1, FoundIs
  <2>5. CASE \E n \in Nodes : n < op.slot /\ Stops(n)
    <3>1. Found'[k] = NoContent
      BY <1>1, <1>4, <2>1, <2>5, FoundNext
    <3> QED BY <2>3, <2>4, <3>1, FoundDomain
  <2>6. CASE ~(\E n \in Nodes : n < op.slot /\ Stops(n))
    <3>1. find_node_in_registry(k)' = s /\ Read(node[s].value)' = Content[v]
      BY <2>1, <2>2, <2>6
    <3>2. Found'[k] = Content[v]
      BY <1>1, <1>4, <3>1, FoundNext
    <3>3. Found' = [Found EXCEPT ![k] = Content[v]]
      BY <2>3, <3>2, FoundDomain
    <3> QED BY <2>4, <3>3 DEF Map!Next, Map!Put
  <2> QED BY <2>5, <2>6
<1> QED BY <1>2, <1>3, <1>4 DEF SetReady, FlashError

LEMMA DeleteMap ==
  ASSUME FlashInv, EntryInv, NEW k \in Keys, delete(k)
  PROVE  Map!Next \/ UNCHANGED Found
<1>1. UNCHANGED <<data, dirty>>
  BY DEF delete
<1>2. CASE UNCHANGED node
  BY <1>1, <1>2, QuietFound
<1>3. CASE dirty
  BY <1>1, <1>3, FoundSame
<1>4. CASE ~dirty /\ ~UNCHANGED node
  <2>1. PICK f \in Nodes : f = find_node_in_registry(k) /\ node' = [node EXCEPT ![f].deleted = TRUE]
    BY <1>4, Finding DEF delete
  <2>2. /\ find_node_in_registry(k)' = NoNode
        /\ \A j \in Keys \ {k} : find_node_in_registry(j)' = find_node_in_registry(j)
        /\ \A i \in Nodes : Read(node[i].value)' = Read(node[i].value)
    BY <1>1, <1>4, <2>1, DeleteEffect
  <2>3. \A j \in Keys \ {k} : Found'[j] = Found[j]
    <3> SUFFICES ASSUME NEW j \in Keys \ {k} PROVE Found'[j] = Found[j]
      OBVIOUS
    <3>1. PICK g \in Nodes \cup {NoNode} : g = find_node_in_registry(j) /\ g = find_node_in_registry(j)'
      BY <2>2, Finding
    <3> QED BY <1>1, <1>4, <2>2, <3>1, FoundIs, FoundNext
  <2>4. Found'[k] = NoContent
    BY <1>1, <1>4, <2>2, FoundNext
  <2>5. \E v \in Values : Found[k] = Content[v]
    <3>1. f \in LiveNodes
      <4>1. f # NoNode
        BY DEF Nodes, NoNode
      <4> QED BY <2>1, <4>1, Finding DEF Matches, LiveNodes, Live
    <3>2. PICK j \in Keys, v \in Values : IsEntry(f, j, v)
      BY <1>4, <3>1 DEF EntryInv, LiveAreEntries
    <3>3. Read(node[f].value) = Content[v]
      BY <3>2, EntryIsRead
    <3> QED BY <1>4, <2>1, <3>3, FoundIs
  <2>6. Found[k] \notin {NoContent, Lost}
    BY <2>5, RegistryAssumption DEF NoContent
  <2>7. Found' = [Found EXCEPT ![k] = NoContent]
    BY <2>3, <2>4, FoundDomain
  <2> QED BY <2>6, <2>7 DEF Map!Next, Map!Remove
<1> QED BY <1>2, <1>3, <1>4

LEMMA CleanMap ==
  ASSUME FlashInv, clean_all \/ EraseInfo \/ EraseData
  PROVE  Map!Next \/ UNCHANGED Found
<1>1. CASE dirty'
  <2>1. \A k \in Keys : Found'[k] = Lost
    BY <1>1, FoundNext
  <2> QED BY <2>1, FoundDomain DEF Map!Next, Map!BeginClear
<1>2. CASE ~dirty'
  <2>1. EraseData /\ ~UNCHANGED dirty /\ dirty
    BY <1>2 DEF clean_all, EraseInfo, EraseData, FlashInv, CallIsSound
  <2>2. UNCHANGED node /\ {i \in Nodes : ~is_empty(i)} = {}
    BY <1>2, <2>1 DEF EraseData
  <2>3. ASSUME NEW i \in Nodes, NEW k \in Keys PROVE ~Matches(i, k)'
    <3>1. node'[i] = EmptyNode
      BY <2>2 DEF is_empty
    <3> QED BY <3>1 DEF EmptyNode, Matches
  <2>4. ASSUME NEW k \in Keys PROVE Found'[k] = NoContent /\ Found[k] = Lost
    <3>1. find_node_in_registry(k)' = NoNode
      BY <2>3, HiddenIsNotFoundNext
    <3> QED BY <1>2, <2>1, <3>1, FoundIs, FoundNext
  <2> QED BY <2>4, FoundDomain DEF Map!Next, Map!Clear
<1> QED BY <1>1, <1>2

LEMMA NextMap ==
  ASSUME FlashInv, EntryInv, [Next]_vars
  PROVE  Map!Next \/ UNCHANGED Found
<1>1. ASSUME UNCHANGED <<node, data, dirty>> PROVE UNCHANGED Found
  BY <1>1, QuietFound
<1>2. CASE az_ulib_registry_init \/ az_ulib_registry_deinit \/ Crash \/ UNCHANGED vars
  BY <1>1, <1>2 DEF az_ulib_registry_init, az_ulib_registry_deinit, Crash, vars
<1>3. ASSUME NEW k \in Keys, \/ \E v \in Values : add(k, v)
                             \/ \E r \in Readers : try_get_value(r, k)
      PROVE  UNCHANGED Found
  BY <1>1, <1>3 DEF add, try_get_value, vars
<1>4. CASE WriteSpans \/ WriteKey \/ WriteValue
  BY <1>4, WriteEntries
<1> QED BY <1>2, <1>3, <1>4, ReadyMap, DeleteMap, CleanMap DEF Next

\* What is found in the registry changes like a map: a key at a time, at once, whatever
\* a power cycle or a flash error cuts short; a clean_all clears all of it.
THEOREM RegistryImplementsMap ==
  ASSUME ValuesEndProgrammed
  PROVE  Spec => MapSpec
<1>1. ASSUME FlashInv /\ EntryInv, [Next]_vars PROVE [Map!Next]_Found
  BY <1>1, NextMap
<1> QED BY <1>1, InitMap, EntriesAlways, PTL DEF Spec, MapSpec, Map!Spec

=============================================================================
