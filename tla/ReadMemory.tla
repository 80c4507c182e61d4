------------------------------ MODULE ReadMemory ------------------------------
(***************************************************************************)
(* read_memory_by_address_simplified: convert_from_simple_to_normal, which *)
(* finds the lengths of an address and a size by shifting them out byte by *)
(* byte, and the request that read_memory_by_address makes of its result   *)
(* (what happens to the request then is a call of UdsClient).              *)
(*                                                                         *)
(* A u64 is the sequence of its eight bytes, the most significant first    *)
(* (to_be_bytes).                                                          *)
(***************************************************************************)
EXTENDS UdsServices

CONSTANTS
  Words,     \* addresses and sizes that callers pass
  Lengths    \* lengths that callers pass, or None

Word == [1 .. 8 -> Byte]
None == 256                      \* no u8 has this value

ASSUME ReadMemoryAssumption ==
  /\ Words \subseteq Word
  /\ Lengths \subseteq Byte \cup {None}

VARIABLES
  memory_pc,
  memory_address, memory_size,             \* the memoryArguments
  memory_address_len, memory_size_len,
  i,                                       \* what is left of the word looked at
  address_encode_bytes, size_encode_bytes,
  request                                  \* what is sent, <<>> before or if refused

memoryArguments == <<memory_address, memory_size, memory_address_len, memory_size_len>>
memoryVars == <<memory_pc, memoryArguments, i, address_encode_bytes, size_encode_bytes, request>>

MemoryInit ==
  /\ memory_pc = "address"
  /\ memory_address \in Words
  /\ memory_size \in Words
  /\ memory_address_len \in Lengths
  /\ memory_size_len \in Lengths
  /\ i = memory_address
  /\ address_encode_bytes = 0
  /\ size_encode_bytes = 0
  /\ request = <<>>

IsZero(word) == \A k \in 1 .. 8 : word[k] = 0

ShiftedByByte(word) == [k \in 1 .. 8 |-> IF k = 1 THEN 0 ELSE word[k - 1]]

(***************************************************************************)
(* The two loops.                                                          *)
(***************************************************************************)
CountAddressByte ==
  /\ memory_pc = "address"
  /\ ~ IsZero(i)
  /\ i' = ShiftedByByte(i)
  /\ address_encode_bytes' = address_encode_bytes + 1
  /\ UNCHANGED <<memory_pc, memoryArguments, size_encode_bytes, request>>

AddressCounted ==
  /\ memory_pc = "address"
  /\ IsZero(i)
  /\ i' = memory_size
  /\ memory_pc' = "size"
  /\ UNCHANGED <<memoryArguments, address_encode_bytes, size_encode_bytes, request>>

CountSizeByte ==
  /\ memory_pc = "size"
  /\ ~ IsZero(i)
  /\ i' = ShiftedByByte(i)
  /\ size_encode_bytes' = size_encode_bytes + 1
  /\ UNCHANGED <<memory_pc, memoryArguments, address_encode_bytes, request>>

SizeCounted ==
  /\ memory_pc = "size"
  /\ IsZero(i)
  /\ memory_pc' = "address_len"
  /\ UNCHANGED <<memoryArguments, i, address_encode_bytes, size_encode_bytes, request>>

(***************************************************************************)
(* The lengths the caller may have given.                                  *)
(***************************************************************************)
\* Mutant: clamped to what fits a nibble, as the warning says.
ClampedToNibble(provided) == IF provided > 15 THEN 15 ELSE provided

Clamped(provided) == IF provided > 8 THEN 8 ELSE provided

TooShort(provided, encode_bytes) == provided # None /\ Clamped(provided) < encode_bytes

\* Mutant: the length given is not used.
NeededOnly(provided, encode_bytes) == encode_bytes

Widened(provided, encode_bytes) ==
  IF provided # None /\ Clamped(provided) > encode_bytes THEN Clamped(provided)
  ELSE encode_bytes

Refuse(provided, encode_bytes) ==
  /\ TooShort(provided, encode_bytes)
  /\ memory_pc' = "refused"
  /\ UNCHANGED <<memoryArguments, i, address_encode_bytes, size_encode_bytes, request>>

RefuseAddress == memory_pc = "address_len" /\ Refuse(memory_address_len, address_encode_bytes)

\* Mutant: a length that is one too short is accepted.
AcceptShortAddress ==
  /\ memory_pc = "address_len"
  /\ ~ TooShort(memory_address_len, address_encode_bytes - 1)
  /\ address_encode_bytes' =
       IF memory_address_len = None THEN address_encode_bytes ELSE Clamped(memory_address_len)
  /\ memory_pc' = "size_len"
  /\ UNCHANGED <<memoryArguments, i, size_encode_bytes, request>>

AcceptAddress ==
  /\ memory_pc = "address_len"
  /\ ~ TooShort(memory_address_len, address_encode_bytes)
  /\ address_encode_bytes' = Widened(memory_address_len, address_encode_bytes)
  /\ memory_pc' = "size_len"
  /\ UNCHANGED <<memoryArguments, i, size_encode_bytes, request>>

RefuseSize == memory_pc = "size_len" /\ Refuse(memory_size_len, size_encode_bytes)

\* Mutant: the nibbles swapped.
FormatSwapped(address_len, size_len) == address_len * 16 + size_len

FormatIdentifier(address_len, size_len) == size_len * 16 + address_len

LastBytes(word, n) == [k \in 1 .. n |-> word[8 - n + k]]

AcceptSize ==
  /\ memory_pc = "size_len"
  /\ ~ TooShort(memory_size_len, size_encode_bytes)
  /\ size_encode_bytes' = Widened(memory_size_len, size_encode_bytes)
  /\ request' =
       formulate_request(<<FormatIdentifier(address_encode_bytes, size_encode_bytes')>>
         \o LastBytes(memory_address, address_encode_bytes)
         \o LastBytes(memory_size, size_encode_bytes'))
  /\ memory_pc' = "formulated"
  /\ UNCHANGED <<memoryArguments, i, address_encode_bytes>>

MemoryNext ==
  \/ CountAddressByte \/ AddressCounted \/ CountSizeByte \/ SizeCounted
  \/ RefuseAddress \/ AcceptAddress \/ RefuseSize \/ AcceptSize

MemorySpec == MemoryInit /\ [][MemoryNext]_memoryVars

(***************************************************************************)
(* Properties.                                                             *)
(***************************************************************************)
MemoryTypeOK ==
  /\ memory_pc \in {"address", "size", "address_len", "size_len", "refused", "formulated"}
  /\ memory_address \in Words /\ memory_size \in Words
  /\ memory_address_len \in Lengths /\ memory_size_len \in Lengths
  /\ i \in Word
  /\ address_encode_bytes \in 0 .. 8 /\ size_encode_bytes \in 0 .. 8
  /\ request \in Seq(Byte)

\* How an ECU reads a request: the low nibble of the format identifier is the
\* number of address bytes, the high one that of the size bytes.
AddressLength(raw) == raw[2] % 16
SizeLength(raw)    == raw[2] \div 16

ReadBack(raw, from, n) ==
  [k \in 1 .. 8 |-> IF k <= 8 - n THEN 0 ELSE raw[from + k - (8 - n)]]

AsksFor(raw, address, size) ==
  /\ Len(raw) = 2 + AddressLength(raw) + SizeLength(raw)
  /\ ReadBack(raw, 2, AddressLength(raw)) = address
  /\ ReadBack(raw, 2 + AddressLength(raw), SizeLength(raw)) = size

\* The ECU is asked for the very address and size the caller gave, with no byte
\* missing, left over or taken from the other one (lines 126-130).
RequestNamesArguments ==
  memory_pc = "formulated" => AsksFor(request, memory_address, memory_size)

\* The number of bytes a word needs, none for zero.
Needs(word, n) ==
  /\ n \in 0 .. 8
  /\ \A k \in 1 .. 8 - n : word[k] = 0
  /\ n # 0 => word[9 - n] # 0

LengthFits(word, provided, n) ==
  \E least \in 0 .. 8 :
    /\ Needs(word, least)
    /\ n = IF provided = None THEN least ELSE Clamped(provided)

\* "the lowest possible size will be used" (read_memory_by_address.rs:48) if the
\* caller gave none, and the one he gave, up to eight, if he did.
LengthsAsAsked ==
  memory_pc = "formulated" =>
    /\ LengthFits(memory_address, memory_address_len, AddressLength(request))
    /\ LengthFits(memory_size, memory_size_len, SizeLength(request))

Overfull(word, provided) ==
  \E least \in 0 .. 8 : Needs(word, least) /\ TooShort(provided, least)

\* A call is refused only if a length the caller gave cannot hold its value, and
\* then it always is: no request is formulated that cuts an address off.
RefusedIfTooShort ==
  /\ memory_pc = "refused" =>
       Overfull(memory_address, memory_address_len) \/ Overfull(memory_size, memory_size_len)
  /\ memory_pc = "formulated" =>
       ~ Overfull(memory_address, memory_address_len) /\ ~ Overfull(memory_size, memory_size_len)

\* "address_len needs to be lower or equal to 0xf, using 0xf instead of provided
\* value" (read_memory_by_address.rs:95): a length up to 0xf is used as it is.
LengthsUpTo0xfUsed ==
  memory_pc = "formulated" /\ memory_address_len \in 0 .. 15 =>
    AddressLength(request) = memory_address_len

(***************************************************************************)
(* What makes them inductive: a loop has shifted its word by as many bytes *)
(* as it counted, and the last byte it counted was not a leading zero.     *)
(***************************************************************************)
Shifted(word, n) == [k \in 1 .. 8 |-> IF k <= n THEN 0 ELSE word[k - n]]

Counting(word, n) ==
  /\ i = Shifted(word, n)
  /\ n # 0 => \E k \in 1 .. 9 - n : word[k] # 0

ReadMemoryInvariant ==
  /\ MemoryTypeOK
  /\ memory_pc = "address" => Counting(memory_address, address_encode_bytes)
  /\ memory_pc \in {"size", "address_len"} => Needs(memory_address, address_encode_bytes)
  /\ memory_pc = "address" => size_encode_bytes = 0
  /\ memory_pc = "size" => Counting(memory_size, size_encode_bytes)
  /\ memory_pc \in {"address_len", "size_len"} => Needs(memory_size, size_encode_bytes)
  /\ memory_pc = "size_len" =>
       /\ LengthFits(memory_address, memory_address_len, address_encode_bytes)
       /\ ~ Overfull(memory_address, memory_address_len)
  /\ RequestNamesArguments /\ LengthsAsAsked /\ RefusedIfTooShort

==============================================================================
