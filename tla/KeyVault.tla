------------------------------ MODULE KeyVault ------------------------------
(***************************************************************************)
(* The cipher interface of the sample ipc_call_interface as its two        *)
(* packages implement it: key_vault.1 with one key, key_vault.2 with two.  *)
(* A text is encrypted by an exclusive or with a key and encoded in base   *)
(* 64; its first character names the key.  key_vault.2 shifts its second   *)
(* key by two properties, alpha and delta, that any caller may change.     *)
(*                                                                         *)
(* Bytes are 0..255, base 64 characters 0..63 in the order of base64char.  *)
(***************************************************************************)
EXTENDS Integers, Sequences

CONSTANTS
  Key,              \* algorithm -> [0..KEY_SIZE-1 -> byte]
  KEY_SIZE,
  Texts,            \* what is encrypted: sequences of bytes
  BufferSizes,      \* bytes of the callers' output buffers
  Alphas, Deltas,   \* bounds: what callers write to the properties
  CharIsSigned      \* the build's char: TRUE on x86, FALSE on ARM

Vaults == {1, 2}                  \* the version of package key_vault
NUMBER_OF_KEYS(v) == v

ASSUME KeyVaultAssumption ==
  /\ KEY_SIZE \in Nat /\ KEY_SIZE > 8         \* delta of key_vault.2 begins with 8
  /\ Key \in [0..1 -> [0 .. KEY_SIZE - 1 -> 0..255]]
  /\ Texts \subseteq Seq(0..255)
  /\ << >> \notin Texts           \* its encryption is refused by decrypt
  /\ BufferSizes \subseteq Nat /\ Alphas \subseteq -128..127 /\ Deltas \subseteq Nat
  /\ CharIsSigned \in BOOLEAN

VARIABLES
  alpha, delta,     \* the control blocks of the vaults
  letter            \* a message somebody keeps: what encrypt returned, and from what

NoLetter == [message |-> << >>]

vars == <<alpha, delta, letter>>

-----------------------------------------------------------------------------
(***************************************************************************)
(* The exclusive or with the key.                                          *)
(***************************************************************************)

\* a ^ b and a | b of two bytes, by the weights of their bits.
Weights == {1, 2, 4, 8, 16, 32, 64, 128}
Bit(a, w) == (a \div w) % 2
ByteOf(bit) ==
  bit[1] + 2 * bit[2] + 4 * bit[4] + 8 * bit[8]
    + 16 * bit[16] + 32 * bit[32] + 64 * bit[64] + 128 * bit[128]
Xor(a, b) == ByteOf([w \in Weights |-> (Bit(a, w) + Bit(b, w)) % 2])
Or(a, b) == ByteOf([w \in Weights |-> IF Bit(a, w) = 1 THEN 1 ELSE Bit(b, w)])

\* next_key_pos, i times: it wraps at KEY_SIZE, but only if it hits it.
KeyPos(start, i) == IF start < KEY_SIZE THEN (start + i) % KEY_SIZE ELSE start + i

\* How a key is used: only key_vault.2 has one that the properties shift.
Use(algorithm, a, d) ==
  [algorithm |-> algorithm,
   shift |-> IF algorithm = 0 THEN 0 ELSE a, start |-> IF algorithm = 0 THEN 0 ELSE d]
UseBy(v, algorithm) == Use(algorithm, alpha[v], delta[v])

ExclusiveOr(use, text) ==
  [i \in 1..Len(text) |->
     Xor(text[i], (Key[use.algorithm][KeyPos(use.start, i - 1)] + use.shift) % 256)]

-----------------------------------------------------------------------------
(***************************************************************************)
(* Base 64.                                                                *)
(***************************************************************************)
Equals == 64                      \* '='

base64char(val) == IF val < 64 THEN val ELSE 63

\* c >> n for the char c, and power = 2^n: key_vault.1 declares its bytes char,
\* key_vault.2 uint8_t.
ShiftRight(v, c, power) ==
  (IF CharIsSigned /\ v = 1 /\ c >= 128 THEN c - 256 ELSE c) \div power

\* The four characters of the bytes from c on, missing ones being 0.
Group(v, c) ==
  << base64char(ShiftRight(v, c[1], 4) % 256),
     base64char(Or((c[1] % 4) * 16, ShiftRight(v, c[2], 16) % 256)),
     base64char(Or((c[2] % 16) * 4, c[3] \div 64)),
     base64char(c[3] % 64) >>

NumberOfGroups(size) == (size + 2) \div 3

Encode(v, bytes) ==
  [p \in 1 .. 4 * NumberOfGroups(Len(bytes)) |->
     LET first == ((p - 1) \div 4) * 3
         k == ((p - 1) % 4) + 1
         c == [i \in 1..3 |-> IF first + i <= Len(bytes) THEN bytes[first + i] ELSE 0]
     IN IF first + k - 1 > Len(bytes) THEN Equals ELSE Group(v, c)[k]]

\* numberOfBase64Characters: up to the first '=', or the '\0' after the message.
numberOfBase64Characters(chars) ==
  CHOOSE n \in 0..Len(chars) :
    /\ \A p \in 1..n : chars[p] # Equals
    /\ n = Len(chars) \/ chars[n + 1] = Equals

\* A group of four characters is three bytes, of three two, of two one.
\* Mutant: the last byte of a group of three characters is forgotten.
DecodedSize_Short(n) == (n \div 4) * 3 + (IF n % 4 >= 2 THEN 1 ELSE 0)
DecodedSize(n) == (n \div 4) * 3 + (IF n % 4 >= 2 THEN (n % 4) - 1 ELSE 0)

\* The byte that the k-th and the next character of a group make up.
Joined(k, c, next) ==
  CASE k = 1 -> Or((c * 4) % 256, next \div 16)
    [] k = 2 -> Or((c * 16) % 256, next \div 4)
    [] k = 3 -> Or((c * 64) % 256, next)

Decode(chars) ==
  [j \in 1 .. DecodedSize(numberOfBase64Characters(chars)) |->
     LET k == ((j - 1) % 3) + 1
         p == ((j - 1) \div 3) * 4 + k
     IN Joined(k, chars[p], chars[p + 1])]

-----------------------------------------------------------------------------
(***************************************************************************)
(* The commands.                                                           *)
(***************************************************************************)

\* Mutant: no room for the '\0' that encrypt writes after the message.
encoded_len_NoEnd(size) == IF size = 0 THEN 0 ELSE 4 * NumberOfGroups(size) + 1
encoded_len(size) == IF size = 0 THEN 0 ELSE 4 * NumberOfGroups(size) + 2

\* The caller passes the size with the leading character in it, so that the '='
\* at the end are not seen.
decoded_len(message) == (Len(message) \div 4) * 3

MayEncrypt(v, algorithm, text, size) ==
  /\ algorithm < NUMBER_OF_KEYS(v)                      \* else AZ_ERROR_NOT_SUPPORTED
  /\ encoded_len(Len(text)) <= size                     \* else AZ_ERROR_NOT_ENOUGH_SPACE

Letter(v, use, text, size) ==
  [message |-> <<use.algorithm>> \o Encode(v, ExclusiveOr(use, text)),
   text |-> text, use |-> use, size |-> size]

MayDecrypt(v, message, size) ==
  /\ Len(message) > 1                                   \* else AZ_ERROR_ARG
  /\ message[1] < NUMBER_OF_KEYS(v)                     \* else AZ_ERROR_NOT_SUPPORTED
  /\ decoded_len(message) <= size                       \* else AZ_ERROR_NOT_ENOUGH_SPACE

Decrypted(v, message) == ExclusiveOr(UseBy(v, message[1]), Decode(Tail(message)))

cipher_1_encrypt(v, algorithm, text, size) ==
  /\ MayEncrypt(v, algorithm, text, size)
  /\ letter' = Letter(v, UseBy(v, algorithm), text, size)
  /\ UNCHANGED <<alpha, delta>>

cipher_1_alpha(v, in) ==
  /\ alpha' = [alpha EXCEPT ![v] = in]
  /\ UNCHANGED <<delta, letter>>

\* key_vault.2 subtracts KEY_SIZE until the position is one in the key.
\* Mutant: once only.
Reduced_Once(v, d) == IF v = 2 /\ d >= KEY_SIZE THEN d - KEY_SIZE ELSE d
Reduced(v, d) == IF v = 2 THEN d % KEY_SIZE ELSE d

cipher_1_delta(v, in) ==
  /\ delta' = [delta EXCEPT ![v] = Reduced(v, in)]
  /\ UNCHANGED <<alpha, letter>>

Int8(x) == ((x + 128) % 256) - 128

\* The consumer of the sample: it reads both properties, moves them on and encrypts.
\* An algorithm the vault lacks ends the calls, with the properties moved already.
call_wrappers(v, algorithm, text, size) ==
  LET a == Int8(alpha[v] - 5)
      d == Reduced(v, delta[v] + 10)
  IN /\ a \in Alphas /\ delta[v] + 10 \in Deltas         \* bounds
     /\ alpha' = [alpha EXCEPT ![v] = a]
     /\ delta' = [delta EXCEPT ![v] = d]
     /\ letter' = IF MayEncrypt(v, algorithm, text, size)
                    THEN Letter(v, Use(algorithm, a, d), text, size) ELSE letter

Init ==
  /\ alpha = [v \in Vaults |-> IF v = 1 THEN 0 ELSE -3]
  /\ delta = [v \in Vaults |-> IF v = 1 THEN 0 ELSE 8]
  /\ letter = NoLetter

Next ==
  \E v \in Vaults :
    \/ \E algorithm \in 0..2, text \in Texts, size \in BufferSizes :
         \/ cipher_1_encrypt(v, algorithm, text, size)
         \/ call_wrappers(v, algorithm, text, size)
    \/ \E in \in Alphas : cipher_1_alpha(v, in)
    \/ \E in \in Deltas : cipher_1_delta(v, in)

Spec == Init /\ [][Next]_vars

-----------------------------------------------------------------------------
(***************************************************************************)
(* Properties.                                                             *)
(***************************************************************************)

\* A letter can be read by every vault that has its key, whichever vault wrote it,
\* and also after the properties were changed and changed back (or moved by a
\* whole turn of the key); a buffer large enough to write it is large enough to
\* read it.
RoundTrip ==
  letter # NoLetter =>
    \A v \in Vaults :
      letter.use.algorithm < NUMBER_OF_KEYS(v) /\ UseBy(v, letter.use.algorithm) = letter.use =>
        /\ MayDecrypt(v, letter.message, letter.size)
        /\ Decrypted(v, letter.message) = letter.text

\* Encrypt writes the '\0' after its message, and both are in the caller's buffer.
WritesInBuffer == letter # NoLetter => Len(letter.message) + 1 <= letter.size

\* The position in the key that encrypt and decrypt begin with is one in the key,
\* whatever callers write to delta: next_key_pos never begins past its end.
KeyPosInRange ==
  \A v \in Vaults : \A algorithm \in 0 .. NUMBER_OF_KEYS(v) - 1 :
    UseBy(v, algorithm).start < KEY_SIZE
=============================================================================
