---------------------------- MODULE FlashDriver ----------------------------
(***************************************************************************)
(* The flash driver under the registry.  It collects the bytes it is given *)
(* in a buffer of one word, programs the word when it is full, and on      *)
(* close fills up and programs what is left.  The control block is the     *)
(* next destination and the bytes not programmed yet; one step programs    *)
(* one word.  WordSize is 8 in the code.                                   *)
(***************************************************************************)
EXTENDS Integers, Sequences

CONSTANTS
  WordSize,         \* bytes in a word
  ErasedByte,       \* 0xFF
  PadByte           \* 0x00, the pad every caller gives to close

ASSUME FlashAssumption ==
  WordSize \in Nat \ {0} /\ {ErasedByte, PadByte} \subseteq Nat /\ ErasedByte # PadByte

ErasedWord == [i \in 1..WordSize |-> ErasedByte]

\* NUMBER_OF_64BITS and ROUND_UP_TO_64BITS, in words.
NumberOfWords(size) == (size + WordSize - 1) \div WordSize

open(destination_ptr, bytes) == [destination_ptr |-> destination_ptr, rest |-> bytes]

NotOpen == open(0, << >>)

\* The word that write, or at last close, programs next.
NextWord(flash_cb) ==
  [i \in 1..WordSize |-> IF i <= Len(flash_cb.rest) THEN flash_cb.rest[i] ELSE PadByte]

Advance(flash_cb) ==
  open(flash_cb.destination_ptr + 1, SubSeq(flash_cb.rest, WordSize + 1, Len(flash_cb.rest)))

\* Nothing is left after the word that comes next.
LastWord(flash_cb) == Len(flash_cb.rest) <= WordSize
=============================================================================
