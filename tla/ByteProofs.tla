----------------------------- MODULE ByteProofs -----------------------------
(***************************************************************************)
(* Arithmetic on bytes: convert_from_simple_to_normal for every address, size *)
(* and length, and the helpers that add and subtract the offset of a service *)
(* identifier.                                                             *)
(***************************************************************************)
EXTENDS ReadMemory, SidHelpers, SequenceTheorems, TLAPS

LEMMA Argument ==
  ASSUME MemoryTypeOK
  PROVE  /\ memory_address \in Word /\ memory_size \in Word
         /\ memory_address_len \in Byte \cup {None}
         /\ memory_size_len \in Byte \cup {None}
  BY ReadMemoryAssumption DEF MemoryTypeOK

(***************************************************************************)
(* The loops.                                                              *)
(***************************************************************************)

LEMMA NoByteShifted ==
  ASSUME NEW word \in Word
  PROVE  Shifted(word, 0) = word
  BY DEF Shifted, Word

\* One turn: a word that is not yet zero loses a further byte, and has one left.
LEMMA LoopTurn ==
  ASSUME NEW word \in Word, NEW n \in 0 .. 8, Counting(word, n), ~ IsZero(i)
  PROVE  /\ n + 1 \in 0 .. 8
         /\ ShiftedByByte(i) \in Word
         /\ ShiftedByByte(i) = Shifted(word, n + 1)
         /\ \E k \in 1 .. 9 - (n + 1) : word[k] # 0
  <1>1. PICK k \in 1 .. 8 : i[k] # 0
    BY DEF IsZero
  <1>2. k > n /\ i[k] = word[k - n]
    BY <1>1 DEF Counting, Shifted
  <1>3. n + 1 \in 0 .. 8 /\ k - n \in 1 .. 9 - (n + 1) /\ word[k - n] # 0
    BY <1>1, <1>2
  <1>4. ShiftedByByte(i) = Shifted(word, n + 1)
    <2>1. ASSUME NEW j \in 1 .. 8
          PROVE  (IF j = 1 THEN 0 ELSE i[j - 1]) = (IF j <= n + 1 THEN 0 ELSE word[j - (n + 1)])
      BY DEF Counting, Shifted
    <2> QED
      BY <2>1 DEF ShiftedByByte, Shifted
  <1>5. Shifted(word, n + 1) \in Word
    BY <1>3 DEF Shifted, Word, Byte
  <1> QED
    BY <1>3, <1>4, <1>5

\* The end: the bytes counted are those the word needs.
LEMMA LoopEnd ==
  ASSUME NEW word \in Word, NEW n \in 0 .. 8, Counting(word, n), IsZero(i)
  PROVE  Needs(word, n)
  <1>1. \A k \in 1 .. 8 - n : word[k] = 0
    <2> SUFFICES ASSUME NEW k \in 1 .. 8 - n PROVE word[k] = 0
      OBVIOUS
    <2>1. k + n \in 1 .. 8 /\ ~ (k + n <= n) /\ (k + n) - n = k
      OBVIOUS
    <2>2. i[k + n] = 0
      BY <2>1 DEF IsZero
    <2> QED
      BY <2>1, <2>2 DEF Counting, Shifted
  <1>2. n # 0 => word[9 - n] # 0
    <2>1. SUFFICES ASSUME n # 0 PROVE word[9 - n] # 0
      OBVIOUS
    <2>2. PICK k \in 1 .. 9 - n : word[k] # 0
      BY <2>1 DEF Counting
    <2>3. k \notin 1 .. 8 - n
      BY <1>1, <2>2
    <2>4. k = 9 - n
      BY <2>3
    <2> QED
      BY <2>2, <2>4
  <1> QED
    BY <1>1, <1>2 DEF Needs

LEMMA NeedsIsUnique ==
  ASSUME NEW word, NEW a, NEW b, Needs(word, a), Needs(word, b)
  PROVE  a = b
  BY DEF Needs

(***************************************************************************)
(* The lengths.                                                            *)
(***************************************************************************)

LEMMA ClampedRange ==
  ASSUME NEW provided \in Byte
  PROVE  Clamped(provided) \in 0 .. 8
  BY DEF Clamped, Byte

\* An accepted length fits, and the word has nothing but zeros before it.
LEMMA Accepted ==
  ASSUME NEW word \in Word, NEW provided \in Byte \cup {None}, NEW least \in 0 .. 8,
         Needs(word, least), ~ TooShort(provided, least)
  PROVE  /\ Widened(provided, least) \in 0 .. 8
         /\ LengthFits(word, provided, Widened(provided, least))
         /\ ~ Overfull(word, provided)
  <1>1. provided # None => Clamped(provided) \in 0 .. 8
    BY ClampedRange
  <1>2. Widened(provided, least) = IF provided = None THEN least ELSE Clamped(provided)
    BY <1>1 DEF Widened, TooShort
  <1>3. LengthFits(word, provided, Widened(provided, least))
    BY <1>2 DEF LengthFits
  <1>4. ~ Overfull(word, provided)
    BY NeedsIsUnique DEF Overfull
  <1> QED
    BY <1>1, <1>2, <1>3, <1>4

LEMMA NothingCutOff ==
  ASSUME NEW word \in Word, NEW provided \in Byte \cup {None}, NEW n \in 0 .. 8,
         LengthFits(word, provided, n), ~ Overfull(word, provided)
  PROVE  \A k \in 1 .. 8 - n : word[k] = 0
  <1>1. PICK least \in 0 .. 8 :
          Needs(word, least) /\ n = IF provided = None THEN least ELSE Clamped(provided)
    BY DEF LengthFits
  <1>2. least <= n
    BY <1>1, ClampedRange DEF Overfull, TooShort
  <1> QED
    BY <1>1, <1>2 DEF Needs

(***************************************************************************)
(* The request.                                                            *)
(***************************************************************************)

LEMMA LastBytesProperties ==
  ASSUME NEW word \in Word, NEW n \in 0 .. 8
  PROVE  /\ LastBytes(word, n) \in Seq(Byte)
         /\ Len(LastBytes(word, n)) = n
         /\ \A k \in 1 .. n : LastBytes(word, n)[k] = word[8 - n + k]
  <1>1. LastBytes(word, n) \in [1 .. n -> Byte]
    BY DEF LastBytes, Word
  <1>2. n \in Nat
    OBVIOUS
  <1>3. LastBytes(word, n) \in Seq(Byte)
    BY <1>1, <1>2, SeqDef
  <1>4. DOMAIN LastBytes(word, n) = 1 .. n
    BY DEF LastBytes
  <1>5. Len(LastBytes(word, n)) = n
    BY <1>2, <1>3, <1>4, LenProperties
  <1> QED
    BY <1>3, <1>5 DEF LastBytes

\* s is s1 and then s2.
Joins(S, s, s1, n, s2, m) ==
  /\ s \in Seq(S)
  /\ Len(s) = n + m
  /\ \A k \in 1 .. n : s[k] = s1[k]
  /\ \A k \in 1 .. m : s[n + k] = s2[k]

LEMMA Joined ==
  ASSUME NEW S, NEW s1 \in Seq(S), NEW s2 \in Seq(S),
         NEW n \in Nat, n = Len(s1), NEW m \in Nat, m = Len(s2),
         NEW s, s = s1 \o s2
  PROVE  Joins(S, s, s1, n, s2, m)
  <1>1. s \in Seq(S)
    BY ConcatProperties
  <1>2. Len(s) = n + m
    BY ConcatProperties
  <1>3. ASSUME NEW k \in 1 .. n PROVE s[k] = s1[k]
    BY ConcatProperties
  <1>4. ASSUME NEW k \in 1 .. m PROVE s[n + k] = s2[k]
    BY ConcatProperties
  <1> QED
    BY <1>1, <1>2, <1>3, <1>4 DEF Joins

\* A second byte, then two strings of bytes.
LaidOut(r, second, A, n, R, m) ==
  /\ r \in Seq(Byte)
  /\ Len(r) = 2 + n + m
  /\ r[2] = second
  /\ \A k \in 1 .. n : r[2 + k] = A[k]
  /\ \A k \in 1 .. m : r[2 + n + k] = R[k]

LEMMA Layout ==
  ASSUME NEW f \in Seq(Byte), Len(f) = 1, NEW g \in Seq(Byte), Len(g) = 1,
         NEW A \in Seq(Byte), NEW n \in Nat, n = Len(A),
         NEW R \in Seq(Byte), NEW m \in Nat, m = Len(R),
         NEW h, h = f \o A, NEW t, t = h \o R, NEW r, r = g \o t
  PROVE  LaidOut(r, f[1], A, n, R, m)
  <1>1. Joins(Byte, h, f, 1, A, n)
    BY Joined
  <1>2. h \in Seq(Byte) /\ 1 + n \in Nat /\ 1 + n = Len(h)
    BY <1>1 DEF Joins
  <1>3. Joins(Byte, t, h, 1 + n, R, m)
    BY <1>2, Joined
  <1>4. t \in Seq(Byte) /\ 1 + n + m \in Nat /\ 1 + n + m = Len(t)
    BY <1>3 DEF Joins
  <1>9. Joins(Byte, r, g, 1, t, 1 + n + m)
    BY <1>4, Joined
  <1>5. ASSUME NEW k \in 1 .. n PROVE r[2 + k] = A[k]
    <2>1. 1 + k \in 1 .. 1 + n + m /\ 1 + k \in 1 .. 1 + n /\ 1 + (1 + k) = 2 + k
      OBVIOUS
    <2> QED
      BY <1>1, <1>3, <1>9, <2>1 DEF Joins
  <1>6. ASSUME NEW k \in 1 .. m PROVE r[2 + n + k] = R[k]
    <2>1. 1 + n + k \in 1 .. 1 + n + m /\ 1 + (1 + n + k) = 2 + n + k
      OBVIOUS
    <2> QED
      BY <1>3, <1>9, <2>1 DEF Joins
  <1>7. r[2] = f[1]
    <2>1. 1 \in 1 .. 1 + n + m /\ 1 \in 1 .. 1 + n /\ 1 + 1 = 2 /\ 1 \in 1 .. 1
      OBVIOUS
    <2> QED
      BY <1>1, <1>3, <1>9, <2>1 DEF Joins
  <1>8. Len(r) = 2 + n + m
    BY <1>9 DEF Joins
  <1> QED
    BY <1>9, <1>5, <1>6, <1>7, <1>8 DEF Joins, LaidOut

LEMMA FormatNibbles ==
  ASSUME NEW n \in 0 .. 8, NEW m \in 0 .. 8
  PROVE  /\ FormatIdentifier(n, m) \in Byte
         /\ FormatIdentifier(n, m) % 16 = n
         /\ FormatIdentifier(n, m) \div 16 = m
  BY DEF FormatIdentifier, Byte

\* A word read back from the place where its last bytes were put.
LEMMA ReadBackWord ==
  ASSUME NEW word \in Word, NEW n \in 0 .. 8, NEW from \in Nat, NEW raw,
         \A k \in 1 .. 8 - n : word[k] = 0,
         \A k \in 1 .. n : raw[from + k] = LastBytes(word, n)[k]
  PROVE  ReadBack(raw, from, n) = word
  <1>1. ASSUME NEW k \in 1 .. 8
        PROVE  (IF k <= 8 - n THEN 0 ELSE raw[from + k - (8 - n)]) = word[k]
    <2>1. CASE k <= 8 - n
      BY <2>1
    <2>2. CASE ~ (k <= 8 - n)
      <3> DEFINE j == k - (8 - n)
      <3>1. j \in 1 .. n /\ from + j = from + k - (8 - n) /\ 8 - n + j = k
        BY <2>2
      <3>2. raw[from + j] = word[8 - n + j]
        BY <3>1, LastBytesProperties
      <3> QED
        BY <2>2, <3>1, <3>2
    <2> QED
      BY <2>1, <2>2
  <1>2. ReadBack(raw, from, n) = [k \in 1 .. 8 |-> word[k]]
    BY <1>1 DEF ReadBack
  <1> QED
    BY <1>2 DEF Word

\* A request made of enough bytes of an address and of a size asks for them.
Asks(r, address, n, size, m) ==
  /\ r \in Seq(Byte)
  /\ AddressLength(r) = n /\ SizeLength(r) = m
  /\ AsksFor(r, address, size)

LEMMA RequestAsks ==
  ASSUME NEW address \in Word, NEW size \in Word, NEW n \in 0 .. 8, NEW m \in 0 .. 8,
         \A k \in 1 .. 8 - n : address[k] = 0,
         \A k \in 1 .. 8 - m : size[k] = 0,
         NEW r,
         r = formulate_request(<<FormatIdentifier(n, m)>>
                                 \o LastBytes(address, n) \o LastBytes(size, m))
  PROVE  Asks(r, address, n, size, m)
  <1> DEFINE A == LastBytes(address, n)
             S == LastBytes(size, m)
             f == <<FormatIdentifier(n, m)>>
             g == <<READ_MEMORY_BY_ADDRESS_SID>>
             h == f \o A
             t == h \o S
  <1>1. A \in Seq(Byte) /\ n = Len(A) /\ S \in Seq(Byte) /\ m = Len(S)
    BY LastBytesProperties
  <1>2. /\ FormatIdentifier(n, m) \in Byte
        /\ FormatIdentifier(n, m) % 16 = n /\ FormatIdentifier(n, m) \div 16 = m
    BY FormatNibbles
  <1>3. /\ f \in Seq(Byte) /\ Len(f) = 1 /\ f[1] = FormatIdentifier(n, m)
        /\ g \in Seq(Byte) /\ Len(g) = 1
    BY <1>2 DEF READ_MEMORY_BY_ADDRESS_SID, Byte
  <1>4. r = g \o t /\ t = h \o S /\ h = f \o A
    BY DEF formulate_request
  <1>5. n \in Nat /\ m \in Nat
    OBVIOUS
  <1> HIDE DEF A, S, f, g, h, t
  <1>0. LaidOut(r, f[1], A, n, S, m)
    BY <1>1, <1>3, <1>4, <1>5, Layout
  <1>6. /\ r \in Seq(Byte)
        /\ Len(r) = 2 + n + m
        /\ r[2] = f[1]
        /\ \A k \in 1 .. n : r[2 + k] = A[k]
        /\ \A k \in 1 .. m : r[2 + n + k] = S[k]
    BY <1>0 DEF LaidOut
  <1>7. AddressLength(r) = n /\ SizeLength(r) = m
    BY <1>2, <1>3, <1>6 DEF AddressLength, SizeLength
  <1>8. ReadBack(r, 2, n) = address
    <2> DEFINE from == 2
    <2>1. from \in Nat
      OBVIOUS
    <2>2. \A k \in 1 .. n : r[from + k] = LastBytes(address, n)[k]
      BY <1>6 DEF A
    <2> HIDE DEF from
    <2>3. ReadBack(r, from, n) = address
      BY <2>1, <2>2, ReadBackWord
    <2> QED
      BY <2>3 DEF from
  <1>9. ReadBack(r, 2 + n, m) = size
    <2> DEFINE from == 2 + n
    <2>1. from \in Nat
      OBVIOUS
    <2>2. \A k \in 1 .. m : r[from + k] = LastBytes(size, m)[k]
      BY <1>6 DEF S
    <2> HIDE DEF from
    <2>3. ReadBack(r, from, m) = size
      BY <2>1, <2>2, ReadBackWord
    <2> QED
      BY <2>3 DEF from
  <1> QED
    BY <1>6, <1>7, <1>8, <1>9 DEF Asks, AsksFor

(***************************************************************************)
(* The steps.                                                              *)
(***************************************************************************)

LEMMA ReadMemoryInit == MemoryInit => ReadMemoryInvariant
  <1> SUFFICES ASSUME MemoryInit PROVE ReadMemoryInvariant
    OBVIOUS
  <1>1. memory_address \in Word
    BY ReadMemoryAssumption DEF MemoryInit
  <1>2. MemoryTypeOK
    BY <1>1 DEF MemoryInit, MemoryTypeOK
  <1>3. Counting(memory_address, 0)
    BY <1>1, NoByteShifted DEF MemoryInit, Counting
  <1> QED
    BY <1>2, <1>3
    DEF MemoryInit, ReadMemoryInvariant, RequestNamesArguments, LengthsAsAsked, RefusedIfTooShort

LEMMA AcceptSizeStep ==
  ASSUME ReadMemoryInvariant, AcceptSize
  PROVE  ReadMemoryInvariant'
  <1> DEFINE n == address_encode_bytes
             m == Widened(memory_size_len, size_encode_bytes)
  <1>1. /\ MemoryTypeOK /\ memory_pc = "size_len" /\ memory_pc' = "formulated"
        /\ ~ TooShort(memory_size_len, size_encode_bytes)
        /\ size_encode_bytes' = m
        /\ UNCHANGED <<i, address_encode_bytes>>
        /\ UNCHANGED <<memory_address, memory_size, memory_address_len, memory_size_len>>
    BY DEF AcceptSize, ReadMemoryInvariant, memoryArguments
  <1>2. /\ memory_address \in Word /\ memory_size \in Word
        /\ memory_address_len \in Byte \cup {None} /\ memory_size_len \in Byte \cup {None}
    BY <1>1, Argument
  <1>3. /\ n \in 0 .. 8 /\ size_encode_bytes \in 0 .. 8
        /\ LengthFits(memory_address, memory_address_len, n)
        /\ ~ Overfull(memory_address, memory_address_len)
        /\ Needs(memory_size, size_encode_bytes)
    BY <1>1 DEF MemoryTypeOK, ReadMemoryInvariant
  <1>4. /\ m \in 0 .. 8
        /\ LengthFits(memory_size, memory_size_len, m)
        /\ ~ Overfull(memory_size, memory_size_len)
    BY <1>1, <1>2, <1>3, Accepted
  <1>5. request' = formulate_request(<<FormatIdentifier(n, m)>>
                     \o LastBytes(memory_address, n) \o LastBytes(memory_size, m))
    BY <1>1 DEF AcceptSize
  <1> HIDE DEF n, m
  <1>6. /\ \A k \in 1 .. 8 - n : memory_address[k] = 0
        /\ \A k \in 1 .. 8 - m : memory_size[k] = 0
    BY <1>2, <1>3, <1>4, NothingCutOff
  <1>7. /\ request' \in Seq(Byte)
        /\ AddressLength(request') = n /\ SizeLength(request') = m
        /\ AsksFor(request', memory_address, memory_size)
    <2> DEFINE r == request'
    <2>1. r = formulate_request(<<FormatIdentifier(n, m)>>
                \o LastBytes(memory_address, n) \o LastBytes(memory_size, m))
      BY <1>5
    <2> HIDE DEF r
    <2>2. Asks(r, memory_address, n, memory_size, m)
      BY <1>2, <1>3, <1>4, <1>6, <2>1, RequestAsks
    <2> QED
      BY <2>2 DEF r, Asks
  <1>8. RequestNamesArguments'
    BY <1>1, <1>7 DEF RequestNamesArguments
  <1>9. LengthsAsAsked'
    BY <1>1, <1>3, <1>4, <1>7 DEF LengthsAsAsked
  <1>10. RefusedIfTooShort'
    BY <1>1, <1>3, <1>4 DEF RefusedIfTooShort
  <1>11. MemoryTypeOK'
    BY <1>1, <1>4, <1>7 DEF MemoryTypeOK
  <1> QED
    BY <1>1, <1>8, <1>9, <1>10, <1>11 DEF ReadMemoryInvariant

LEMMA ReadMemoryStep ==
  ASSUME ReadMemoryInvariant, [MemoryNext]_memoryVars
  PROVE  ReadMemoryInvariant'
  <1>0. MemoryTypeOK /\ memory_address \in Word /\ memory_size \in Word
        /\ memory_address_len \in Byte \cup {None}
    BY Argument DEF ReadMemoryInvariant
  <1> USE DEF memoryArguments
  <1>1. CASE CountAddressByte
    <2>1. /\ Counting(memory_address, address_encode_bytes) /\ address_encode_bytes \in 0 .. 8
          /\ ~ IsZero(i)
      BY <1>0, <1>1 DEF CountAddressByte, ReadMemoryInvariant, MemoryTypeOK
    <2>2. /\ address_encode_bytes' \in 0 .. 8 /\ i' \in Word
          /\ i' = Shifted(memory_address, address_encode_bytes')
          /\ \E k \in 1 .. 9 - address_encode_bytes' : memory_address[k] # 0
      BY <1>0, <1>1, <2>1, LoopTurn DEF CountAddressByte
    <2>3. Counting(memory_address, address_encode_bytes)'
      BY <1>1, <2>2 DEF CountAddressByte, Counting, Shifted
    <2> QED
      BY <1>1, <2>2, <2>3
      DEF CountAddressByte, ReadMemoryInvariant, MemoryTypeOK, RequestNamesArguments, LengthsAsAsked,
          RefusedIfTooShort
  <1>2. CASE AddressCounted
    <2>1. Needs(memory_address, address_encode_bytes)
      BY <1>0, <1>2, LoopEnd DEF AddressCounted, ReadMemoryInvariant, MemoryTypeOK
    <2>2. Counting(memory_size, size_encode_bytes)'
      BY <1>0, <1>2, NoByteShifted DEF AddressCounted, ReadMemoryInvariant, Counting, Shifted
    <2>3. Needs(memory_address, address_encode_bytes)'
      BY <1>2, <2>1 DEF AddressCounted, Needs
    <2> QED
      BY <1>0, <1>2, <2>2, <2>3
      DEF AddressCounted, ReadMemoryInvariant, MemoryTypeOK, RequestNamesArguments, LengthsAsAsked,
          RefusedIfTooShort
  <1>3. CASE CountSizeByte
    <2>1. /\ Counting(memory_size, size_encode_bytes) /\ size_encode_bytes \in 0 .. 8
          /\ ~ IsZero(i)
      BY <1>0, <1>3 DEF CountSizeByte, ReadMemoryInvariant, MemoryTypeOK
    <2>2. /\ size_encode_bytes' \in 0 .. 8 /\ i' \in Word
          /\ i' = Shifted(memory_size, size_encode_bytes')
          /\ \E k \in 1 .. 9 - size_encode_bytes' : memory_size[k] # 0
      BY <1>0, <1>3, <2>1, LoopTurn DEF CountSizeByte
    <2>3. Counting(memory_size, size_encode_bytes)'
      BY <1>3, <2>2 DEF CountSizeByte, Counting, Shifted
    <2>4. Needs(memory_address, address_encode_bytes)'
      BY <1>3 DEF CountSizeByte, ReadMemoryInvariant, Needs
    <2> QED
      BY <1>3, <2>2, <2>3, <2>4
      DEF CountSizeByte, ReadMemoryInvariant, MemoryTypeOK, RequestNamesArguments, LengthsAsAsked,
          RefusedIfTooShort
  <1>4. CASE SizeCounted
    <2>1. Needs(memory_size, size_encode_bytes)
      BY <1>0, <1>4, LoopEnd DEF SizeCounted, ReadMemoryInvariant, MemoryTypeOK
    <2>2. (Needs(memory_address, address_encode_bytes) /\ Needs(memory_size, size_encode_bytes))'
      BY <1>4, <2>1 DEF SizeCounted, ReadMemoryInvariant, Needs
    <2> QED
      BY <1>0, <1>4, <2>2
      DEF SizeCounted, ReadMemoryInvariant, MemoryTypeOK, RequestNamesArguments, LengthsAsAsked,
          RefusedIfTooShort
  <1>5. CASE RefuseAddress \/ RefuseSize
    <2>1. /\ memory_pc' = "refused" /\ memory_pc \in {"address_len", "size_len"}
          /\ UNCHANGED <<memoryArguments, i, address_encode_bytes, size_encode_bytes, request>>
      BY <1>5 DEF RefuseAddress, RefuseSize, Refuse
    <2>2. Overfull(memory_address, memory_address_len) \/ Overfull(memory_size, memory_size_len)
      BY <1>0, <1>5
      DEF RefuseAddress, RefuseSize, Refuse, ReadMemoryInvariant, Overfull, MemoryTypeOK
    <2>3. RefusedIfTooShort'
      BY <2>1, <2>2 DEF RefusedIfTooShort, Overfull
    <2> QED
      BY <1>0, <2>1, <2>3
      DEF ReadMemoryInvariant, MemoryTypeOK, RequestNamesArguments, LengthsAsAsked
  <1>6. CASE AcceptAddress
    <2>1. /\ address_encode_bytes' \in 0 .. 8
          /\ LengthFits(memory_address, memory_address_len, address_encode_bytes')
          /\ ~ Overfull(memory_address, memory_address_len)
      BY <1>0, <1>6, Accepted DEF AcceptAddress, ReadMemoryInvariant, MemoryTypeOK
    <2>2. (/\ LengthFits(memory_address, memory_address_len, address_encode_bytes)
           /\ ~ Overfull(memory_address, memory_address_len)
           /\ Needs(memory_size, size_encode_bytes))'
      BY <1>6, <2>1 DEF AcceptAddress, ReadMemoryInvariant, LengthFits, Overfull, Needs
    <2> QED
      BY <1>0, <1>6, <2>1, <2>2
      DEF AcceptAddress, ReadMemoryInvariant, MemoryTypeOK, RequestNamesArguments, LengthsAsAsked,
          RefusedIfTooShort
  <1>7. CASE AcceptSize
    BY <1>7, AcceptSizeStep
  <1>8. CASE UNCHANGED memoryVars
    BY <1>8
    DEF memoryVars, ReadMemoryInvariant, MemoryTypeOK, Counting, Shifted, Needs, LengthFits, Overfull,
        RequestNamesArguments, LengthsAsAsked, RefusedIfTooShort
  <1> QED
    BY <1>1, <1>2, <1>3, <1>4, <1>5, <1>6, <1>7, <1>8 DEF MemoryNext

\* The loops and the lengths of convert_from_simple_to_normal, for every word.
THEOREM ReadMemoryCorrect == MemorySpec => []ReadMemoryInvariant
  BY ReadMemoryInit, ReadMemoryStep, PTL DEF MemorySpec

\* Every request that is formulated asks for exactly the address and the size
\* the caller gave.
THEOREM NamesArguments == MemorySpec => []RequestNamesArguments
  <1>1. ReadMemoryInvariant => RequestNamesArguments
    BY DEF ReadMemoryInvariant
  <1> QED
    BY <1>1, ReadMemoryCorrect, PTL

\* The lengths are those the caller gave, or the least possible ones.
THEOREM LengthsCorrect == MemorySpec => []LengthsAsAsked
  <1>1. ReadMemoryInvariant => LengthsAsAsked
    BY DEF ReadMemoryInvariant
  <1> QED
    BY <1>1, ReadMemoryCorrect, PTL

\* InvalidArgument is returned exactly when a given length is too short.
THEOREM RefusalsCorrect == MemorySpec => []RefusedIfTooShort
  <1>1. ReadMemoryInvariant => RefusedIfTooShort
    BY DEF ReadMemoryInvariant
  <1> QED
    BY <1>1, ReadMemoryCorrect, PTL

(***************************************************************************)
(* to_received_sid and from_received_sid.                                  *)
(***************************************************************************)
\* What the helpers have computed so far; the last part is the theorem.
HelperInvariant ==
  /\ overflow_checks \in BOOLEAN
  /\ sid \in ServiceIdentifier
  /\ received \in Byte
  /\ helper_pc = "expect" => expected = 0
  /\ helper_pc \in {"wait", "recover", "recovered", "panic"} => expected = WithOffset(sid)
  /\ helper_pc \in {"expect", "wait", "recover", "recovered", "panic"}
  /\ HelpersMatchAnswers

\* The offset fits a u8 for every service, and leads to none.
LEMMA ServicesWithOffset ==
  ASSUME NEW s \in ServiceIdentifier
  PROVE  /\ s \in 16 .. 135
         /\ WithOffset(s) \in Byte
         /\ AsU8(WithOffset(s)) = WithOffset(s)
         /\ WithOffset(s) \notin ServiceIdentifier
  BY DEF ServiceIdentifier, WithOffset, AsU8, Byte, SEND_RECEIVE_SID_OFFSET, NEGATIVE_RESPONSE_SID

\* Subtracting it, wrapped or not, gives a service back only where it was added.
LEMMA OffsetUndone ==
  ASSUME NEW s \in ServiceIdentifier, NEW byte \in Byte
  PROVE  AsU8(WithoutOffset(byte)) = s <=> byte = WithOffset(s)
  <1>1. s \in 16 .. 135
    BY ServicesWithOffset
  <1>2. CASE byte >= 64
    <2>1. WithoutOffset(byte) \in 0 .. 255
      BY <1>2 DEF WithoutOffset, Byte, SEND_RECEIVE_SID_OFFSET
    <2>2. AsU8(WithoutOffset(byte)) = WithoutOffset(byte)
      BY <2>1 DEF AsU8
    <2> QED
      BY <1>1, <2>2 DEF WithoutOffset, WithOffset, Byte, SEND_RECEIVE_SID_OFFSET
  <1>3. CASE byte < 64
    <2>1. AsU8(WithoutOffset(byte)) = byte + 192
      BY <1>3 DEF WithoutOffset, AsU8, Byte, SEND_RECEIVE_SID_OFFSET
    <2> QED
      BY <1>1, <1>3, <2>1 DEF WithOffset, Byte, SEND_RECEIVE_SID_OFFSET
  <1> QED
    BY <1>2, <1>3 DEF Byte

LEMMA HelperStarts == HelperInit => HelperInvariant
  BY DEF HelperInit, HelperInvariant, HelpersMatchAnswers, Byte, ServiceIdentifier, NEGATIVE_RESPONSE_SID

LEMMA HelperStep == HelperInvariant /\ [HelperNext]_helperVars => HelperInvariant'
  <1> SUFFICES ASSUME HelperInvariant, [HelperNext]_helperVars PROVE HelperInvariant'
    OBVIOUS
  <1>1. /\ sid \in 16 .. 135 /\ WithOffset(sid) \in Byte
        /\ AsU8(WithOffset(sid)) = WithOffset(sid)
        /\ WithOffset(sid) \notin ServiceIdentifier
    BY ServicesWithOffset DEF HelperInvariant
  <1>2. CASE to_received_sid
    <2>1. ~ Panics(WithOffset(sid))
      BY <1>1 DEF Panics
    <2>2. helper_pc' = "wait" /\ expected' = WithOffset(sid)
      BY <1>1, <1>2, <2>1 DEF to_received_sid
    <2> QED
      BY <1>1, <1>2, <2>2 DEF to_received_sid, HelperInvariant, HelpersMatchAnswers, WithOffset
  <1>3. CASE EcuAnswers
    BY <1>1, <1>3 DEF EcuAnswers, HelperInvariant, HelpersMatchAnswers, WithOffset
  <1>4. CASE from_received_sid
    <2>1. /\ helper_pc = "recover" /\ expected = WithOffset(sid) /\ received \in Byte
          /\ sid \in ServiceIdentifier
      BY <1>4 DEF from_received_sid, HelperInvariant
    <2>2. CASE Panics(WithoutOffset(received))
      <3>1. WithoutOffset(received) \notin Byte
        BY <2>2 DEF Panics
      <3>2. received < 64
        BY <2>1, <3>1 DEF WithoutOffset, Byte, SEND_RECEIVE_SID_OFFSET
      <3>3. expected # 0 /\ received # expected
        BY <1>1, <2>1, <3>2 DEF WithOffset, Byte, SEND_RECEIVE_SID_OFFSET
      <3>4. helper_pc' = "panic" /\ UNCHANGED <<overflow_checks, sid, expected, received, recovered>>
        BY <1>4, <2>2 DEF from_received_sid
      <3> QED
        BY <1>1, <2>1, <3>3, <3>4 DEF HelperInvariant, HelpersMatchAnswers, WithOffset
    <2>3. CASE ~ Panics(WithoutOffset(received))
      <3>1. /\ helper_pc' = "recovered" /\ recovered' = AsU8(WithoutOffset(received))
            /\ UNCHANGED <<overflow_checks, sid, expected, received>>
        BY <1>4, <2>3 DEF from_received_sid
      <3>2. recovered' = sid' <=> received' = expected'
        BY <2>1, <3>1, OffsetUndone
      <3> QED
        BY <1>1, <2>1, <3>1, <3>2 DEF HelperInvariant, HelpersMatchAnswers, WithOffset
    <2> QED
      BY <2>2, <2>3
  <1>5. CASE UNCHANGED helperVars
    BY <1>5 DEF helperVars, HelperInvariant, HelpersMatchAnswers, WithOffset
  <1> QED
    BY <1>2, <1>3, <1>4, <1>5 DEF HelperNext

\* The helpers take an answer for the positive one to a service if and only if it
\* is, for every service, every byte and both builds.
THEOREM HelpersCorrect == HelperSpec => []HelpersMatchAnswers
  <1>1. HelperInvariant => HelpersMatchAnswers
    BY DEF HelperInvariant
  <1> QED
    BY HelperStarts, HelperStep, <1>1, PTL DEF HelperSpec

=============================================================================
