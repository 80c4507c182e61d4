-------------------------- MODULE UdsRoundTripProofs --------------------------
(***************************************************************************)
(* An Ok result can be turned back into the message it was made from: each *)
(* parser is shown to keep the content of its message, and the client to   *)
(* return what the parser of the call made of the last message it took.    *)
(***************************************************************************)
EXTENDS UdsRoundTrip, UdsClientProofs

(***************************************************************************)
(* Parts of a message.                                                     *)
(***************************************************************************)
LEMMA BytesOfNumbers ==
  /\ \A a, b \in Byte : Middle(U16(a, b)) = a /\ Low(U16(a, b)) = b
  /\ \A a, b, c \in Byte :
       High(U24(a, b, c)) = a /\ Middle(U24(a, b, c)) = b /\ Low(U24(a, b, c)) = c
  <1>1. ASSUME NEW a \in Byte, NEW b \in Byte
        PROVE  Middle(U16(a, b)) = a /\ Low(U16(a, b)) = b
    BY DEF Byte, U16, Middle, Low
  <1>2. ASSUME NEW a \in Byte, NEW b \in Byte, NEW c \in Byte
        PROVE  High(U24(a, b, c)) = a /\ Middle(U24(a, b, c)) = b /\ Low(U24(a, b, c)) = c
    <2>1. \A q, r \in Nat : r < 65536 => (65536 * q + r) \div 65536 = q
      OBVIOUS
    <2>2. \A q, r \in Nat : r < 256 => (256 * q + r) \div 256 = q /\ (256 * q + r) % 256 = r
      OBVIOUS
    <2>3. /\ a \in Nat /\ b \in Nat /\ c \in Nat /\ c < 256 /\ b < 256 /\ a < 256
          /\ 256 * b + c \in Nat /\ 256 * b + c < 65536 /\ 256 * a + b \in Nat
          /\ a % 256 = a
      BY DEF Byte
    <2>4. /\ U24(a, b, c) = 65536 * a + (256 * b + c)
          /\ U24(a, b, c) = 256 * (256 * a + b) + c
      BY <2>3 DEF U24
    <2> DEFINE n == U24(a, b, c)
    <2> HIDE DEF n
    <2>5. n \div 65536 = a
      BY <2>1, <2>3, <2>4 DEF n
    <2>6. n \div 256 = 256 * a + b /\ n % 256 = c
      BY <2>2, <2>3, <2>4 DEF n
    <2>7. (256 * a + b) % 256 = b
      BY <2>2, <2>3
    <2> QED
      BY <2>3, <2>5, <2>6, <2>7 DEF High, Middle, Low, n
  <1> QED
    BY <1>1, <1>2

LEMMA MessageBytes ==
  ASSUME NEW raw \in Seq(Byte)
  PROVE  /\ Len(raw) \in Nat /\ raw \in Seq(Nat)
         /\ \A i \in 1 .. Len(raw) : raw[i] \in Byte /\ raw[i] \in Nat
         /\ raw # <<>> => Len(raw) >= 1
  <1>1. Len(raw) \in Nat /\ raw \in Seq(Nat) /\ (raw # <<>> => Len(raw) >= 1)
    BY LenProperties, BytesAreNaturals
  <1>2. \A i \in 1 .. Len(raw) : raw[i] \in Byte
    BY ElementOfSeq
  <1> QED
    BY <1>1, <1>2, BytesAreNaturals

\* The bytes s stand in the message after the first "from" of it, and are n.
Spells(s, raw, from, n) ==
  s \in Seq(Nat) /\ Len(s) = n /\ \A i \in 1 .. n : s[i] = raw[from + i]

LEMMA SpellsOne ==
  ASSUME NEW raw \in Seq(Byte), NEW from \in Nat, NEW i \in 1 .. Len(raw), i = from + 1
  PROVE  Spells(<<raw[i]>>, raw, from, 1)
  <1> DEFINE a == raw[i]
  <1>1. a \in Nat
    BY MessageBytes
  <1> HIDE DEF a
  <1>2. <<a>> \in Seq(Nat) /\ Len(<<a>>) = 1 /\ <<a>>[1] = a
    BY <1>1, NaturalSequences
  <1>3. Spells(<<a>>, raw, from, 1)
    BY <1>2 DEF Spells, a
  <1> QED
    BY <1>2, <1>3 DEF a

LEMMA SpellsPair ==
  ASSUME NEW raw \in Seq(Byte), NEW from \in Nat, NEW i \in 1 .. Len(raw), NEW j \in 1 .. Len(raw),
         i = from + 1, j = from + 2
  PROVE  Spells(<<raw[i], raw[j]>>, raw, from, 2)
  <1> DEFINE a == raw[i]
             b == raw[j]
  <1>1. a \in Nat /\ b \in Nat
    BY MessageBytes
  <1> HIDE DEF a, b
  <1>2. <<a, b>> \in Seq(Nat) /\ Len(<<a, b>>) = 2 /\ <<a, b>>[1] = a /\ <<a, b>>[2] = b
    BY <1>1, NaturalSequences
  <1>3. Spells(<<a, b>>, raw, from, 2)
    BY <1>2 DEF Spells, a, b
  <1> QED
    BY <1>3 DEF a, b

LEMMA SpellsTwo ==
  ASSUME NEW raw \in Seq(Byte), NEW from \in Nat, NEW i \in 1 .. Len(raw), NEW j \in 1 .. Len(raw),
         i = from + 1, j = from + 2
  PROVE  Spells(Bytes16(U16(raw[i], raw[j])), raw, from, 2)
  <1>1. raw[i] \in Byte /\ raw[j] \in Byte
    BY MessageBytes
  <1>2. Bytes16(U16(raw[i], raw[j])) = <<raw[i], raw[j]>>
    BY <1>1, BytesOfNumbers DEF Bytes16
  <1> QED
    BY <1>2, SpellsPair

LEMMA SpellsThree ==
  ASSUME NEW raw \in Seq(Byte), NEW from \in Nat,
         NEW i \in 1 .. Len(raw), NEW j \in 1 .. Len(raw), NEW k \in 1 .. Len(raw),
         i = from + 1, j = from + 2, k = from + 3
  PROVE  Spells(Bytes24(U24(raw[i], raw[j], raw[k])), raw, from, 3)
  <1> DEFINE a == raw[i]
             b == raw[j]
             c == raw[k]
  <1>1. a \in Byte /\ b \in Byte /\ c \in Byte /\ a \in Nat /\ b \in Nat /\ c \in Nat
    BY MessageBytes
  <1> HIDE DEF a, b, c
  <1>2. Bytes24(U24(a, b, c)) = <<a, b, c>>
    BY <1>1, BytesOfNumbers DEF Bytes24
  <1>3. /\ <<a, b, c>> \in Seq(Nat) /\ Len(<<a, b, c>>) = 3
        /\ <<a, b, c>>[1] = a /\ <<a, b, c>>[2] = b /\ <<a, b, c>>[3] = c
    BY <1>1, NaturalSequences
  <1>4. Spells(<<a, b, c>>, raw, from, 3)
    BY <1>3 DEF Spells, a, b, c
  <1> QED
    BY <1>2, <1>3, <1>4 DEF a, b, c

LEMMA SpellsBoth ==
  ASSUME NEW raw, NEW from \in Nat, NEW middle \in Nat, NEW s, NEW t, NEW m \in Nat, NEW k \in Nat,
         Spells(s, raw, from, m), Spells(t, raw, middle, k), middle = from + m,
         NEW n \in Nat, n = m + k
  PROVE  Spells(s \o t, raw, from, n)
  <1>1. /\ s \in Seq(Nat) /\ t \in Seq(Nat) /\ Len(s) = m /\ Len(t) = k
        /\ \A i \in 1 .. m : s[i] = raw[from + i]
        /\ \A i \in 1 .. k : t[i] = raw[middle + i]
    BY DEF Spells
  <1>2. /\ s \o t \in Seq(Nat) /\ Len(s \o t) = n
        /\ \A i \in 1 .. n : (s \o t)[i] = IF i <= m THEN s[i] ELSE t[i - m]
    <2>1. /\ s \o t \in Seq(Nat) /\ Len(s \o t) = Len(s) + Len(t)
          /\ \A i \in 1 .. Len(s) + Len(t) :
               (s \o t)[i] = IF i <= Len(s) THEN s[i] ELSE t[i - Len(s)]
      BY <1>1, ConcatProperties, Zenon
    <2>2. Len(s) + Len(t) = n
      BY <1>1
    <2> QED
      BY <1>1, <2>1, <2>2, Zenon
  <1>3. ASSUME NEW i \in 1 .. n
        PROVE  (s \o t)[i] = raw[from + i]
    <2>1. CASE i <= m
      BY <1>1, <1>2, <2>1
    <2>2. CASE ~ (i <= m)
      <3>1. i - m \in 1 .. k /\ middle + (i - m) = from + i
        BY <2>2
      <3> QED
        BY <1>1, <1>2, <2>2, <3>1
    <2> QED
      BY <2>1, <2>2
  <1> QED
    BY <1>2, <1>3 DEF Spells

\* What follows the first byte of a message, and what that begins with.
LEMMA PrefixOfContent ==
  ASSUME NEW raw \in Seq(Nat), raw # <<>>, NEW s, NEW n \in Nat, Spells(s, raw, 1, n), n < Len(raw)
  PROVE  /\ IsPrefix(s, Tail(raw))
         /\ n + 1 = Len(raw) => s = Tail(raw)
  <1> DEFINE content == Tail(raw)
  <1>1. /\ content \in Seq(Nat) /\ Len(content) = Len(raw) - 1 /\ s \in Seq(Nat) /\ Len(s) = n
        /\ Len(raw) \in Nat /\ Len(s) \in Nat /\ Len(content) \in Nat
        /\ \A i \in 1 .. Len(content) : content[i] = raw[i + 1]
        /\ \A i \in 1 .. Len(s) : s[i] = raw[1 + i]
    BY HeadTailProperties, LenProperties DEF Spells
  <1> HIDE DEF content
  <1>2. Len(s) <= Len(content) /\ \A i \in 1 .. Len(s) : i \in 1 .. Len(content) /\ 1 + i = i + 1
    BY <1>1
  <1>3. \A i \in 1 .. Len(s) : s[i] = content[i]
    BY <1>1, <1>2
  <1>4. SubSeq(s, 1, Len(s)) = SubSeq(content, 1, Len(s))
    BY <1>2, <1>3
  <1>5. Len(s) + 1 = Len(raw) => s = content
    BY <1>1, <1>3, SeqEqual
  <1> QED
    BY <1>1, <1>2, <1>4, <1>5, Zenon DEF IsPrefix, content

(***************************************************************************)
(* What the parsers keep of a message.                                     *)
(***************************************************************************)
Keeps(service, r, raw) == KeepsContent(service, r, Tail(raw))

\* A parser that checks the identifier keeps what its remainder keeps.
LEMMA WithSidKeeps ==
  ASSUME NEW service, NEW sid, NEW raw, NEW rest,
         raw # <<>> => Keeps(service, rest, raw)
  PROVE  Keeps(service, WithSid(sid, raw, rest), raw)
  <1>1. CASE raw = <<>>
    BY <1>1 DEF WithSid, Keeps, KeepsContent, Err
  <1>2. CASE raw # <<>> /\ raw[1] # sid + SEND_RECEIVE_SID_OFFSET
    BY <1>2 DEF WithSid, Keeps, KeepsContent, SidMismatch
  <1>3. CASE raw # <<>> /\ raw[1] = sid + SEND_RECEIVE_SID_OFFSET
    BY <1>3 DEF WithSid
  <1> QED
    BY <1>1, <1>2, <1>3

\* Errors, panics and messages handed over as they are.
LEMMA OthersKeep ==
  ASSUME NEW service, NEW raw
  PROVE  /\ \A e \in {"InvalidLength", "ResponseIncorrect", "InvalidArgument", "ResponseEmpty"} :
              Keeps(service, Err(e), raw)
         /\ Keeps(service, NoResult("Panic"), raw)
         /\ \A a, b : Keeps(service, DidMismatch(a, b), raw)
         /\ Keeps(service, Raw(Tail(raw)), raw)
  BY DEF Keeps, KeepsContent, Err, NoResult, DidMismatch, Raw

\* A parsed body that encodes to bytes of the message.
LEMMA ParsedKeeps ==
  ASSUME NEW raw \in Seq(Byte), raw # <<>>, NEW service, NEW body, NEW n \in Nat,
         Spells(Encoded(service, body), raw, 1, n),
         (service \notin OpenEnded /\ n < Len(raw)) \/ n + 1 = Len(raw)
  PROVE  Keeps(service, Parsed(body), raw)
  <1> DEFINE s == Encoded(service, body)
  <1>1. raw \in Seq(Nat) /\ Len(raw) \in Nat /\ Spells(s, raw, 1, n)
    BY MessageBytes
  <1> HIDE DEF OpenEnded, s
  <1>2. n < Len(raw) /\ (service \in OpenEnded => n + 1 = Len(raw))
    BY <1>1
  <1>3. IsPrefix(s, Tail(raw)) /\ (service \in OpenEnded => s = Tail(raw))
    BY <1>1, <1>2, PrefixOfContent
  <1> QED
    BY <1>3 DEF Keeps, KeepsContent, Parsed, s

LEMMA SessionKeeps ==
  ASSUME NEW raw \in Seq(Byte), raw # <<>>, Len(raw) >= 6
  PROVE  Keeps("diagnostic_session_control",
               Parsed(<<raw[2], U16(raw[3], raw[4]), U16(raw[5], raw[6])>>), raw)
  <1> DEFINE body == <<raw[2], U16(raw[3], raw[4]), U16(raw[5], raw[6])>>
             a == <<raw[2]>>
             b == Bytes16(U16(raw[3], raw[4]))
             c == Bytes16(U16(raw[5], raw[6]))
  <1>1. Len(raw) \in Nat /\ \A i \in 2 .. 6 : i \in 1 .. Len(raw)
    BY MessageBytes
  <1>2. Spells(a, raw, 1, 1)
    BY <1>1, SpellsOne
  <1>3. Spells(b, raw, 2, 2) /\ Spells(c, raw, 4, 2)
    BY <1>1, SpellsTwo
  <1>4. Encoded("diagnostic_session_control", body) = (a \o b) \o c
    BY DEF Encoded
  <1> HIDE DEF a, b, c, body
  <1>5. Spells(a \o b, raw, 1, 3)
    BY <1>2, <1>3, SpellsBoth
  <1>6. Spells((a \o b) \o c, raw, 1, 5)
    BY <1>3, <1>5, SpellsBoth
  <1>7. "diagnostic_session_control" \notin OpenEnded /\ 5 < Len(raw)
    BY <1>1 DEF OpenEnded
  <1>8. Keeps("diagnostic_session_control", Parsed(body), raw)
    BY <1>4, <1>6, <1>7, ParsedKeeps
  <1> QED
    BY <1>8 DEF body

LEMMA SpellsRest ==
  ASSUME NEW raw \in Seq(Byte), raw # <<>>
  PROVE  /\ Spells(Tail(raw), raw, 1, Len(raw) - 1)
         /\ \A n \in Nat : Spells(<<>>, raw, n, 0)
         /\ Len(raw) >= 3 => Spells(SubSeq(raw, 4, Len(raw)), raw, 3, Len(raw) - 3)
  <1>1. Len(raw) \in Nat /\ raw \in Seq(Nat)
    BY MessageBytes
  <1>2. Spells(Tail(raw), raw, 1, Len(raw) - 1)
    <2> DEFINE s == Tail(raw)
    <2>1. /\ s \in Seq(Nat) /\ Len(s) = Len(raw) - 1
          /\ \A i \in 1 .. Len(s) : s[i] = raw[i + 1]
      BY <1>1, HeadTailProperties
    <2> HIDE DEF s
    <2>2. \A i \in 1 .. Len(raw) - 1 : s[i] = raw[1 + i]
      BY <1>1, <2>1
    <2>3. Spells(s, raw, 1, Len(raw) - 1)
      BY <2>1, <2>2 DEF Spells
    <2> QED
      BY <2>3 DEF s
  <1>3. \A n \in Nat : Spells(<<>>, raw, n, 0)
    BY DEF Spells
  <1>4. ASSUME Len(raw) >= 3
        PROVE  Spells(SubSeq(raw, 4, Len(raw)), raw, 3, Len(raw) - 3)
    <2> DEFINE s == SubSeq(raw, 4, Len(raw))
    <2>1. \A i \in 4 .. Len(raw) : raw[i] \in Nat
      BY <1>1, MessageBytes
    <2>2. /\ s \in Seq(Nat)
          /\ Len(s) = IF 4 <= Len(raw) THEN Len(raw) - 4 + 1 ELSE 0
          /\ \A i \in 1 .. Len(raw) - 4 + 1 : s[i] = raw[4 + i - 1]
      BY <1>1, <2>1, SubSeqProperties
    <2> HIDE DEF s
    <2>3. Len(s) = Len(raw) - 3
      <3>1. CASE 4 <= Len(raw)
        <4>1. Len(s) = Len(raw) - 4 + 1
          BY <2>2, <3>1
        <4> QED
          BY <1>1, <4>1
      <3>2. CASE ~ (4 <= Len(raw))
        <4>1. Len(s) = 0
          BY <2>2, <3>2
        <4>2. \A l \in Nat : l >= 3 /\ ~ (4 <= l) => l - 3 = 0
          OBVIOUS
        <4>3. Len(raw) - 3 = 0
          BY <1>1, <1>4, <3>2, <4>2
        <4> QED
          BY <4>1, <4>3
      <3> QED
        BY <3>1, <3>2
    <2>4. ASSUME NEW i \in 1 .. Len(raw) - 3
          PROVE  s[i] = raw[3 + i]
      <3>1. i \in 1 .. Len(raw) - 4 + 1 /\ 4 + i - 1 = 3 + i
        BY <1>1
      <3>2. s[i] = raw[4 + i - 1]
        BY <2>2, <3>1
      <3> QED
        BY <3>1, <3>2
    <2>5. Spells(s, raw, 3, Len(raw) - 3)
      BY <2>2, <2>3, <2>4 DEF Spells
    <2> QED
      BY <2>5 DEF s
  <1> QED
    BY <1>2, <1>3, <1>4

LEMMA ResetKeeps ==
  ASSUME NEW raw \in Seq(Byte), raw # <<>>
  PROVE  /\ Len(raw) >= 2 => Keeps("ecu_reset", Parsed(<<raw[2]>>), raw)
         /\ Len(raw) >= 3 => Keeps("ecu_reset", Parsed(<<raw[2], raw[3]>>), raw)
         /\ Keeps("clear_diagnostic_information", Parsed(<<>>), raw)
         /\ Keeps("read_memory_by_address", Parsed(Tail(raw)), raw)
  <1>1. Len(raw) \in Nat /\ Len(raw) >= 1 /\ Len(raw) - 1 \in Nat
    BY MessageBytes
  <1>2. \A body : /\ Encoded("ecu_reset", body) = body
                  /\ Encoded("clear_diagnostic_information", body) = body
                  /\ Encoded("read_memory_by_address", body) = body
    BY DEF Encoded
  <1>3. "ecu_reset" \notin OpenEnded /\ "clear_diagnostic_information" \notin OpenEnded
    BY DEF OpenEnded
  <1>4. ASSUME Len(raw) >= 2
        PROVE  Keeps("ecu_reset", Parsed(<<raw[2]>>), raw)
    <2>1. 2 \in 1 .. Len(raw) /\ 1 < Len(raw)
      BY <1>1, <1>4
    <2>2. Spells(<<raw[2]>>, raw, 1, 1)
      BY <2>1, SpellsOne
    <2> QED
      BY <1>2, <1>3, <2>1, <2>2, ParsedKeeps
  <1>5. ASSUME Len(raw) >= 3
        PROVE  Keeps("ecu_reset", Parsed(<<raw[2], raw[3]>>), raw)
    <2>1. 2 \in 1 .. Len(raw) /\ 3 \in 1 .. Len(raw) /\ 2 < Len(raw)
      BY <1>1, <1>5
    <2>2. Spells(<<raw[2], raw[3]>>, raw, 1, 2)
      BY <2>1, SpellsPair
    <2> QED
      BY <1>2, <1>3, <2>1, <2>2, ParsedKeeps
  <1>6. Keeps("clear_diagnostic_information", Parsed(<<>>), raw)
    <2>1. Spells(<<>>, raw, 1, 0) /\ 0 < Len(raw)
      BY <1>1, SpellsRest
    <2> QED
      BY <1>2, <1>3, <2>1, ParsedKeeps
  <1>7. Keeps("read_memory_by_address", Parsed(Tail(raw)), raw)
    <2> DEFINE body == Tail(raw)
               n == Len(raw) - 1
    <2>1. Spells(body, raw, 1, n) /\ n \in Nat /\ n + 1 = Len(raw)
      BY <1>1, SpellsRest
    <2> HIDE DEF body, n
    <2>2. Keeps("read_memory_by_address", Parsed(body), raw)
      BY <1>2, <2>1, ParsedKeeps
    <2> QED
      BY <2>2 DEF body
  <1> QED
    BY <1>4, <1>5, <1>6, <1>7

LEMMA WriteKeeps ==
  ASSUME NEW raw \in Seq(Byte), raw # <<>>, Len(raw) >= 3
  PROVE  Keeps("write_data_by_identifier", Parsed(<<U16(raw[2], raw[3])>>), raw)
  <1> DEFINE did == U16(raw[2], raw[3])
  <1>1. Len(raw) \in Nat /\ 2 \in 1 .. Len(raw) /\ 3 \in 1 .. Len(raw) /\ 2 < Len(raw)
    BY MessageBytes
  <1>2. Spells(Bytes16(did), raw, 1, 2) /\ Spells(<<>>, raw, 3, 0)
    BY <1>1, SpellsTwo, SpellsRest
  <1> HIDE DEF did
  <1>3. Encoded("write_data_by_identifier", <<did>>) = Bytes16(did) \o <<>>
    BY DEF Encoded
  <1>4. Spells(Bytes16(did) \o <<>>, raw, 1, 2)
    BY <1>2, SpellsBoth
  <1>5. "write_data_by_identifier" \notin OpenEnded
    BY DEF OpenEnded
  <1>6. Keeps("write_data_by_identifier", Parsed(<<did>>), raw)
    BY <1>1, <1>3, <1>4, <1>5, ParsedKeeps
  <1> QED
    BY <1>6 DEF did

LEMMA ReadKeeps ==
  ASSUME NEW raw \in Seq(Byte), raw # <<>>, Len(raw) >= 3, NEW did, did = U16(raw[2], raw[3])
  PROVE  Keeps("read_data_by_identifier", Parsed(<<did>> \o SubSeq(raw, 4, Len(raw))), raw)
  <1> DEFINE data == SubSeq(raw, 4, Len(raw))
             body == <<did>> \o data
             n == Len(raw) - 3
             m == Len(raw) - 1
  <1>1. /\ Len(raw) \in Nat /\ 2 \in 1 .. Len(raw) /\ 3 \in 1 .. Len(raw)
        /\ raw[2] \in Nat /\ raw[3] \in Nat
        /\ n \in Nat /\ m \in Nat /\ m = 2 + n /\ m + 1 = Len(raw)
    BY MessageBytes
  <1>2. did \in Nat
    BY <1>1, CombinedBytes
  <1>3. Spells(Bytes16(did), raw, 1, 2) /\ Spells(data, raw, 3, n)
    BY <1>1, SpellsTwo, SpellsRest
  <1>4. data \in Seq(Nat) /\ <<did>> \in Seq(Nat)
    BY <1>2, <1>3, NaturalSequences DEF Spells
  <1> HIDE DEF data, n, m
  <1>5. body # <<>> /\ body[1] = did /\ Tail(body) = data
    BY <1>2, <1>4
  <1>6. Encoded("read_data_by_identifier", body) = Bytes16(did) \o data
    <2> HIDE DEF body
    <2> QED
      BY <1>5 DEF Encoded
  <1> HIDE DEF body
  <1>7. Spells(Bytes16(did) \o data, raw, 1, m)
    <2>1. 1 \in Nat /\ 2 \in Nat /\ 3 \in Nat /\ 3 = 1 + 2
      OBVIOUS
    <2> QED
      BY <1>1, <1>3, <2>1, SpellsBoth, Zenon
  <1>8. Keeps("read_data_by_identifier", Parsed(body), raw)
    BY <1>1, <1>6, <1>7, ParsedKeeps
  <1> QED
    BY <1>8 DEF body, data

LEMMA CountKeeps ==
  ASSUME NEW raw \in Seq(Byte), raw # <<>>, Len(raw) >= 6
  PROVE  Keeps("report_number_of_dtc_by_status_mask",
               Parsed(<<raw[2], raw[3], raw[4], U16(raw[5], raw[6])>>), raw)
  <1> DEFINE number == U16(raw[5], raw[6])
             body == <<raw[2], raw[3], raw[4], number>>
             start == SubSeq(body, 1, 3)
  <1>1. /\ Len(raw) \in Nat /\ \A i \in 2 .. 6 : i \in 1 .. Len(raw)
        /\ \A i \in 2 .. 6 : raw[i] \in Nat
    BY MessageBytes
  <1>2. Spells(Bytes16(number), raw, 4, 2)
    BY <1>1, SpellsTwo
  <1>3. number \in Nat
    <2>1. raw[5] \in Nat /\ raw[6] \in Nat
      BY <1>1
    <2> QED
      BY <2>1, CombinedBytes
  <1> HIDE DEF number
  <1>4. /\ body \in Seq(Nat) /\ \A i \in 1 .. 3 : body[i] = raw[1 + i] /\ body[i] \in Nat
        /\ body[4] = number
    BY <1>1, <1>3, NaturalSequences
  <1> HIDE DEF body
  <1>5. start \in Seq(Nat) /\ Len(start) = 3 /\ \A i \in 1 .. 3 : start[i] = body[i]
    BY <1>4, SubSeqProperties
  <1>6. Spells(start, raw, 1, 3)
    BY <1>4, <1>5 DEF Spells
  <1>7. Encoded("report_number_of_dtc_by_status_mask", body) = start \o Bytes16(number)
    BY <1>4 DEF Encoded
  <1> HIDE DEF start
  <1>8. Spells(start \o Bytes16(number), raw, 1, 5)
    BY <1>2, <1>6, SpellsBoth
  <1>9. "report_number_of_dtc_by_status_mask" \notin OpenEnded /\ 5 < Len(raw)
    BY <1>1 DEF OpenEnded
  <1>10. Keeps("report_number_of_dtc_by_status_mask", Parsed(body), raw)
    BY <1>7, <1>8, <1>9, ParsedKeeps
  <1> QED
    BY <1>10 DEF body, number

LEMMA DtcBytes ==
  ASSUME NEW raw \in Seq(Byte), Len(raw) >= 3, (Len(raw) - 3) % 4 = 0
  PROVE  Spells(EncodedDtcs(DtcRecords(raw)), raw, 3, Len(raw) - 3)
  <1> DEFINE n == NumberOfDtcs(raw)
             D == DtcRecords(raw)
             E == EncodedDtcs(D)
  <1>1. n \in Nat /\ Len(raw) = 3 + 4 * n /\ Len(raw) \in Nat
    <2>1. \A m \in Nat : m >= 3 /\ (m - 3) % 4 = 0 =>
            (m - 3) \div 4 \in Nat /\ m = 3 + 4 * ((m - 3) \div 4)
      OBVIOUS
    <2>2. Len(raw) \in Nat
      BY LenProperties
    <2> QED
      BY <2>1, <2>2 DEF NumberOfDtcs
  <1>2. /\ D = [i \in 1 .. 2 * n |->
                 LET at == 3 + 4 * ((i - 1) \div 2)
                 IN  IF i % 2 = 1 THEN U24(raw[at + 1], raw[at + 2], raw[at + 3])
                     ELSE raw[at + 4]]
        /\ D \in Seq(Nat)
    <2>1. D \in Seq(Nat)
      BY MessageBytes, DtcRecordsInRange
    <2> QED
      BY <2>1 DEF DtcRecords
  <1> HIDE DEF n, D
  <1>3. Len(D) = 2 * n
    <2>1. DOMAIN D = 1 .. 2 * n /\ DOMAIN D = 1 .. Len(D) /\ Len(D) \in Nat /\ 2 * n \in Nat
      BY <1>1, <1>2, LenProperties
    <2> QED
      BY <2>1
  <1>4. E = [j \in 1 .. 4 * n |->
               LET i == 2 * ((j - 1) \div 4)
               IN  (Bytes24(D[i + 1]) \o <<D[i + 2]>>)[1 + ((j - 1) % 4)]]
    <2>1. 2 * Len(D) = 4 * n
      BY <1>1, <1>3
    <2> QED
      BY <2>1 DEF EncodedDtcs
  <1> HIDE DEF E
  <1>5. ASSUME NEW k \in Nat, k < n
        PROVE  Spells(Bytes24(D[2 * k + 1]) \o <<D[2 * k + 2]>>, raw, 3 + 4 * k, 4)
    <2> DEFINE at == 3 + 4 * k
    <2>1. /\ at \in Nat /\ at + 3 \in Nat
          /\ at + 1 \in 1 .. Len(raw) /\ at + 2 \in 1 .. Len(raw)
          /\ at + 3 \in 1 .. Len(raw) /\ at + 4 \in 1 .. Len(raw)
          /\ at + 4 = (at + 3) + 1
      BY <1>1, <1>5
    <2>2. D[2 * k + 1] = U24(raw[at + 1], raw[at + 2], raw[at + 3])
      <3>1. /\ 2 * k + 1 \in 1 .. 2 * n /\ (2 * k + 1) % 2 = 1
            /\ (2 * k + 1 - 1) \div 2 = k
        BY <1>1, <1>5
      <3> QED
        BY <1>2, <3>1
    <2>3. D[2 * k + 2] = raw[at + 4]
      <3>1. /\ 2 * k + 2 \in 1 .. 2 * n /\ (2 * k + 2) % 2 # 1
            /\ (2 * k + 2 - 1) \div 2 = k
        BY <1>1, <1>5
      <3>2. ASSUME NEW i \in 1 .. 2 * n, i % 2 # 1
            PROVE  D[i] = raw[3 + 4 * ((i - 1) \div 2) + 4]
        BY <1>2, <3>2
      <3> QED
        BY <3>1, <3>2
    <2> HIDE DEF at
    <2>4. Spells(Bytes24(D[2 * k + 1]), raw, at, 3)
      BY <2>1, <2>2, SpellsThree
    <2>5. Spells(<<D[2 * k + 2]>>, raw, at + 3, 1)
      BY <2>1, <2>3, SpellsOne
    <2>6. Spells(Bytes24(D[2 * k + 1]) \o <<D[2 * k + 2]>>, raw, at, 4)
      <3>1. 1 \in Nat /\ 3 \in Nat /\ 4 \in Nat /\ 4 = 3 + 1
        OBVIOUS
      <3> QED
        BY <2>1, <2>4, <2>5, <3>1, SpellsBoth, Zenon
    <2> QED
      BY <2>6 DEF at
  <1>6. ASSUME NEW j \in 1 .. 4 * n
        PROVE  E[j] = raw[3 + j] /\ E[j] \in Nat
    <2> DEFINE k == (j - 1) \div 4
               r == 1 + ((j - 1) % 4)
               record == Bytes24(D[2 * k + 1]) \o <<D[2 * k + 2]>>
    <2>1. k \in Nat /\ k < n /\ r \in 1 .. 4 /\ (3 + 4 * k) + r = 3 + j
      BY <1>1
    <2>2. E[j] = record[r]
      BY <1>4
    <2> HIDE DEF k, r
    <2>3. Spells(record, raw, 3 + 4 * k, 4)
      BY <1>5, <2>1
    <2> HIDE DEF record
    <2>4. record[r] = raw[(3 + 4 * k) + r]
      BY <2>1, <2>3 DEF Spells
    <2>5. 3 + j \in 1 .. Len(raw)
      BY <1>1
    <2>6. raw[3 + j] \in Nat
      BY <2>5, MessageBytes
    <2> QED
      BY <2>1, <2>2, <2>4, <2>6
  <1>7. 4 * n \in Nat /\ Len(raw) - 3 = 4 * n
    BY <1>1
  <1>8. E \in Seq(Nat) /\ Len(E) = 4 * n
    <2>1. E = [j \in 1 .. 4 * n |-> E[j]]
      BY <1>4
    <2>2. E \in [1 .. 4 * n -> Nat]
      BY <1>6, <2>1
    <2>3. E \in Seq(Nat)
      BY <1>7, <2>2, SeqDef
    <2>4. DOMAIN E = 1 .. 4 * n /\ DOMAIN E = 1 .. Len(E) /\ Len(E) \in Nat
      BY <2>2, <2>3, LenProperties
    <2> QED
      BY <1>7, <2>3, <2>4
  <1>9. Spells(E, raw, 3, Len(raw) - 3)
    BY <1>6, <1>7, <1>8 DEF Spells
  <1> QED
    BY <1>9 DEF E, D

LEMMA DtcsKeep ==
  ASSUME NEW raw \in Seq(Byte), Len(raw) >= 3, (Len(raw) - 3) % 4 = 0,
         NEW service \in {"report_dtc_by_status_mask", "report_most_recent_confirmed_dtc"}
  PROVE  Keeps(service, Parsed(<<raw[2], raw[3]>> \o DtcRecords(raw)), raw)
  <1> DEFINE D == DtcRecords(raw)
             start == <<raw[2], raw[3]>>
             body == start \o D
             n == Len(raw) - 3
             m == Len(raw) - 1
  <1>1. /\ raw \in Seq(Nat) /\ Len(raw) \in Nat
        /\ 2 \in 1 .. Len(raw) /\ 3 \in 1 .. Len(raw)
        /\ raw[2] \in Nat /\ raw[3] \in Nat
        /\ n \in Nat /\ m \in Nat /\ m = 2 + n /\ m + 1 = Len(raw) /\ raw # <<>>
    BY MessageBytes
  <1>2. D \in Seq(Nat) /\ start \in Seq(Nat) /\ Len(start) = 2
    BY <1>1, DtcRecordsInRange, NaturalSequences
  <1>3. Spells(start, raw, 1, 2)
    BY <1>1, SpellsPair
  <1>4. Spells(EncodedDtcs(D), raw, 3, n)
    BY DtcBytes
  <1> HIDE DEF D, start, n, m
  <1>5. SubSeq(body, 1, 2) = start /\ SubSeq(body, 3, Len(body)) = D
    <2>1. Len(body) = 2 + Len(D) /\ Len(D) \in Nat /\ body \in Seq(Nat)
      BY <1>2, ConcatProperties, LenProperties
    <2>2. SubSeq(body, 1, 2) = SubSeq(start, 1, 2)
      <3>1. 1 \in 1 .. Len(start) /\ 2 \in 1 .. Len(start)
        BY <1>2
      <3> QED
        BY <1>2, <3>1, SubSeqOfConcat1, Zenon
    <2>3. SubSeq(start, 1, 2) = start
      BY <1>2, SubSeqFull
    <2>4. SubSeq(body, 3, Len(body)) = SubSeq(D, 3 - Len(start), Len(body) - Len(start))
      <3>1. /\ 3 \in Int /\ Len(body) \in Int /\ Len(start) < 3
            /\ 3 \in Len(start) + 1 .. Len(start) + Len(D) + 1
            /\ Len(body) \in Len(start) .. Len(start) + Len(D)
        BY <1>2, <2>1
      <3> QED
        BY <1>2, <2>1, <3>1, SubSeqOfConcat2
    <2>5. 3 - Len(start) = 1 /\ Len(body) - Len(start) = Len(D)
      BY <1>2, <2>1
    <2>6. SubSeq(D, 1, Len(D)) = D
      BY <1>2, SubSeqFull
    <2> QED
      BY <2>2, <2>3, <2>4, <2>5, <2>6
  <1> HIDE DEF body
  <1>6. Encoded(service, body) = start \o EncodedDtcs(D)
    BY <1>5 DEF Encoded
  <1>7. Spells(start \o EncodedDtcs(D), raw, 1, m)
    <2>1. 1 \in Nat /\ 2 \in Nat /\ 3 \in Nat /\ 3 = 1 + 2
      OBVIOUS
    <2> QED
      BY <1>1, <1>3, <1>4, <2>1, SpellsBoth, Zenon
  <1>8. Keeps(service, Parsed(body), raw)
    BY <1>1, <1>6, <1>7, ParsedKeeps
  <1> QED
    BY <1>8 DEF body, start, D

LEMMA FixedLengthKeep ==
  ASSUME NEW raw \in Seq(Byte)
  PROVE  /\ Keeps("diagnostic_session_control",
                  parse_diagnostic_session_control_response(raw), raw)
         /\ Keeps("ecu_reset", parse_ecu_reset_response(raw), raw)
         /\ Keeps("clear_diagnostic_information",
                  parse_clear_diagnostic_information_response(raw), raw)
         /\ Keeps("write_data_by_identifier",
                  parse_write_data_by_identifier_response(raw), raw)
         /\ Keeps("report_number_of_dtc_by_status_mask",
                  parse_report_number_of_dtc_by_status_mask_response(raw), raw)
  <1>1. Len(raw) \in Nat
    BY MessageBytes
  <1>2. Keeps("diagnostic_session_control",
              parse_diagnostic_session_control_response(raw), raw)
    <2> DEFINE rest == IF Len(raw) < 6 THEN Err("InvalidLength")
                       ELSE Parsed(<<raw[2], U16(raw[3], raw[4]), U16(raw[5], raw[6])>>)
    <2>1. raw # <<>> => Keeps("diagnostic_session_control", rest, raw)
      <3>1. CASE Len(raw) < 6
        BY <3>1, OthersKeep
      <3>2. CASE ~ (Len(raw) < 6)
        BY <1>1, <3>2, SessionKeeps
      <3> QED
        BY <3>1, <3>2
    <2> HIDE DEF rest
    <2>2. Keeps("diagnostic_session_control",
                WithSid(DIAGNOSTIC_SESSION_CONTROL_SID, raw, rest), raw)
      BY <2>1, WithSidKeeps
    <2> QED
      BY <2>2 DEF parse_diagnostic_session_control_response, rest
  <1>3. Keeps("ecu_reset", parse_ecu_reset_response(raw), raw)
    <2> DEFINE rest == IF Len(raw) < 2 THEN Err("InvalidLength")
                       ELSE IF raw[2] \notin ResetType THEN Err("ResponseIncorrect")
                       ELSE IF raw[2] # EnableRapidPowerShutDown THEN Parsed(<<raw[2]>>)
                       ELSE IF Len(raw) < 3 THEN Err("InvalidLength")
                       ELSE Parsed(<<raw[2], raw[3]>>)
    <2>1. raw # <<>> => Keeps("ecu_reset", rest, raw)
      <3>1. SUFFICES ASSUME raw # <<>>
                     PROVE  Keeps("ecu_reset", rest, raw)
        OBVIOUS
      <3>2. CASE rest = Err("InvalidLength") \/ rest = Err("ResponseIncorrect")
        BY <3>2, OthersKeep
      <3>3. CASE Len(raw) >= 2 /\ rest = Parsed(<<raw[2]>>)
        BY <3>1, <3>3, ResetKeeps
      <3>4. CASE Len(raw) >= 3 /\ rest = Parsed(<<raw[2], raw[3]>>)
        BY <3>1, <3>4, ResetKeeps
      <3> QED
        BY <1>1, <3>2, <3>3, <3>4
    <2> HIDE DEF rest
    <2>2. Keeps("ecu_reset", WithSid(ECU_RESET_SID, raw, rest), raw)
      BY <2>1, WithSidKeeps
    <2> QED
      BY <2>2 DEF parse_ecu_reset_response, rest
  <1>4. Keeps("clear_diagnostic_information",
              parse_clear_diagnostic_information_response(raw), raw)
    BY WithSidKeeps, ResetKeeps DEF parse_clear_diagnostic_information_response
  <1>5. Keeps("write_data_by_identifier", parse_write_data_by_identifier_response(raw), raw)
    <2> DEFINE rest == IF Len(raw) < 3 THEN Err("InvalidLength")
                       ELSE Parsed(<<U16(raw[2], raw[3])>>)
    <2>1. raw # <<>> => Keeps("write_data_by_identifier", rest, raw)
      <3>1. CASE Len(raw) < 3
        BY <3>1, OthersKeep
      <3>2. CASE ~ (Len(raw) < 3)
        BY <1>1, <3>2, WriteKeeps
      <3> QED
        BY <3>1, <3>2
    <2> HIDE DEF rest
    <2>2. Keeps("write_data_by_identifier",
                WithSid(WRITE_DATA_BY_IDENTIFIER_SID, raw, rest), raw)
      BY <2>1, WithSidKeeps
    <2> QED
      BY <2>2 DEF parse_write_data_by_identifier_response, rest
  <1>6. Keeps("report_number_of_dtc_by_status_mask",
              parse_report_number_of_dtc_by_status_mask_response(raw), raw)
    <2> DEFINE rest == IF Len(raw) < 2 THEN Err("InvalidLength")
                       ELSE IF raw[2] \notin SubFunction THEN Err("ResponseIncorrect")
                       ELSE IF Len(raw) < 4 THEN Err("InvalidLength")
                       ELSE IF raw[4] \notin DTCFormat THEN Err("ResponseIncorrect")
                       ELSE IF Len(raw) < 6 THEN Err("InvalidLength")
                       ELSE IF raw[2] \notin CountReports THEN Err("InvalidArgument")
                       ELSE Parsed(<<raw[2], raw[3], raw[4], U16(raw[5], raw[6])>>)
    <2>1. raw # <<>> => Keeps("report_number_of_dtc_by_status_mask", rest, raw)
      <3>1. CASE \E e \in {"InvalidLength", "ResponseIncorrect", "InvalidArgument"} :
                   rest = Err(e)
        BY <3>1, OthersKeep
      <3>2. CASE /\ Len(raw) >= 6
                 /\ rest = Parsed(<<raw[2], raw[3], raw[4], U16(raw[5], raw[6])>>)
        BY <3>2, CountKeeps
      <3> QED
        BY <1>1, <3>1, <3>2
    <2> HIDE DEF rest
    <2>2. Keeps("report_number_of_dtc_by_status_mask",
                WithSid(READ_DTC_INFORMATION_SID, raw, rest), raw)
      BY <2>1, WithSidKeeps
    <2> QED
      BY <2>2 DEF parse_report_number_of_dtc_by_status_mask_response, rest
  <1> QED
    BY <1>2, <1>3, <1>4, <1>5, <1>6

LEMMA DataKeep ==
  ASSUME NEW raw \in Seq(Byte)
  PROVE  /\ \A did : Keeps("read_data_by_identifier",
                           parse_single_data_by_identifier_response(did, raw), raw)
         /\ Keeps("read_data_by_identifier", parse_read_data_by_identifier_response(raw), raw)
         /\ Keeps("read_memory_by_address", parse_response(raw), raw)
         /\ \A service \in {"report_dtc_by_status_mask", "report_most_recent_confirmed_dtc"} :
              Keeps(service, parse_report_dtcs(raw), raw)
         /\ Keeps("report_dtc_snapshot_record_by_dtc_number",
                  parse_report_dtc_snapshot_record_by_dtc_number_response(raw), raw)
         /\ Keeps("report_dtc_ext_data_record_by_dtc_number",
                  parse_report_dtc_ext_data_by_dtc_number_response(raw), raw)
  <1>1. Len(raw) \in Nat
    BY MessageBytes
  <1>2. ASSUME NEW did
        PROVE  Keeps("read_data_by_identifier",
                     parse_single_data_by_identifier_response(did, raw), raw)
    <2> DEFINE response_did == U16(raw[2], raw[3])
               rest == IF Len(raw) < 3 THEN Err("InvalidLength")
                       ELSE IF did # response_did THEN DidMismatch(did, response_did)
                       ELSE Parsed(<<did>> \o SubSeq(raw, 4, Len(raw)))
    <2>1. raw # <<>> => Keeps("read_data_by_identifier", rest, raw)
      <3>1. CASE Len(raw) < 3
        BY <3>1, OthersKeep
      <3>2. CASE ~ (Len(raw) < 3) /\ did # response_did
        BY <3>2, OthersKeep
      <3>3. CASE ~ (Len(raw) < 3) /\ did = response_did
        BY <1>1, <3>3, ReadKeeps
      <3> QED
        BY <3>1, <3>2, <3>3
    <2> HIDE DEF rest
    <2>2. Keeps("read_data_by_identifier", WithSid(READ_DATA_BY_IDENTIFIER_SID, raw, rest), raw)
      BY <2>1, WithSidKeeps
    <2>3. CASE raw = <<>>
      BY <2>3, OthersKeep DEF parse_single_data_by_identifier_response
    <2>4. CASE raw # <<>>
      BY <2>2, <2>4 DEF parse_single_data_by_identifier_response, rest
    <2> QED
      BY <2>3, <2>4
  <1>3. \A service, sid : Keeps(service, WithSid(sid, raw, Raw(Tail(raw))), raw)
    BY WithSidKeeps, OthersKeep
  <1>4. Keeps("read_memory_by_address", parse_response(raw), raw)
    <2>1. Keeps("read_memory_by_address",
                WithSid(READ_MEMORY_BY_ADDRESS_SID, raw, Parsed(Tail(raw))), raw)
      BY WithSidKeeps, ResetKeeps
    <2> QED
      BY <2>1, OthersKeep DEF parse_response
  <1>5. ASSUME NEW service \in {"report_dtc_by_status_mask", "report_most_recent_confirmed_dtc"}
        PROVE  Keeps(service, parse_report_dtcs(raw), raw)
    <2> DEFINE body == <<raw[2], raw[3]>> \o DtcRecords(raw)
               rest == IF Len(raw) < 3 \/ (Len(raw) - 3) % 4 # 0 THEN Err("InvalidLength")
                       ELSE IF raw[2] \notin SubFunction THEN Err("ResponseIncorrect")
                       ELSE IF raw[2] \notin ListReports THEN Err("InvalidArgument")
                       ELSE Parsed(body)
    <2>1. raw # <<>> => Keeps(service, rest, raw)
      <3>1. CASE \E e \in {"InvalidLength", "ResponseIncorrect", "InvalidArgument"} :
                   rest = Err(e)
        BY <3>1, OthersKeep
      <3>2. CASE Len(raw) >= 3 /\ (Len(raw) - 3) % 4 = 0 /\ rest = Parsed(body)
        BY <3>2, DtcsKeep
      <3> HIDE DEF body
      <3> QED
        BY <1>1, <3>1, <3>2
    <2> HIDE DEF rest
    <2>2. Keeps(service, WithSid(READ_DTC_INFORMATION_SID, raw, rest), raw)
      BY <2>1, WithSidKeeps
    <2> QED
      BY <2>2 DEF parse_report_dtcs, rest, body
  <1> QED
    BY <1>2, <1>3, <1>4, <1>5
    DEF parse_read_data_by_identifier_response,
        parse_report_dtc_snapshot_record_by_dtc_number_response,
        parse_report_dtc_ext_data_by_dtc_number_response

LEMMA ParseKeeps ==
  ASSUME NEW c \in Calls, NEW raw \in Seq(Byte)
  PROVE  Keeps(c.service, Parse(c, raw), raw)
  <1>1. c.service \in Services
    BY ClientAssumption
  <1> QED
    BY <1>1, FixedLengthKeep, DataKeep DEF Services, Parse

(***************************************************************************)
(* What the client returns.                                                *)
(***************************************************************************)
\* A step of task t that returns something else than an Ok.
LEMMA ReturnsNoOk ==
  ASSUME TypeOK, NEW t \in Tasks, NEW r, Return(t, r), ~ IsOk(r)
  PROVE  ~ IsOk(outcome'[t])
  BY DEF Return, TypeOK

\* An Ok was there before the step, or it is what the parser of the call makes
\* of the message just taken.
LEMMA OkComesFromParser ==
  ASSUME CallsInvariant, CallsInvariant', [Next]_vars, NEW t \in Tasks, IsOk(outcome'[t])
  PROVE  \/ UNCHANGED <<call[t], outcome[t], took[t]>>
         \/ Take(t) /\ outcome'[t] = Parse(call[t], raw_response)
  <1>1. TypeOK
    BY DEF CallsInvariant
  <1>2. ~ InCall(t)'
    BY DEF CallsInvariant, CallInvariant, NoResult, IsOk, OkTags
  <1>3. CASE ~ Step(t)
    BY <1>1, <1>3, OtherTasksKeepState
  <1>4. CASE \E c \in Calls : Start(t, c)
    BY <1>1, <1>2, <1>4 DEF Start, InCall, TypeOK
  <1>5. CASE Send(t) \/ ReceivePending(t) \/ RepeatRequest(t)
    BY <1>1, <1>2, <1>5 DEF Send, ReceivePending, RepeatRequest, InCall, TypeOK
  <1>6. CASE \E r : Return(t, r) /\ ~ IsOk(r)
    BY <1>1, <1>6, ReturnsNoOk
  <1>7. CASE SendFails(t) \/ ReceiveFails(t) \/ Cancel(t) \/ PendingTimeout(t)
    BY <1>6, <1>7
    DEF SendFails, ReceiveFails, Cancel, PendingTimeout, Err, NoResult, NRC, IsOk, OkTags
  <1>8. CASE ReceiveAnswer(t) \/ ReceiveDelayed(t)
    BY <1>1, <1>8 DEF ReceiveAnswer, ReceiveDelayed, Return, TypeOK
  <1>9. CASE ReceiveError(t) \/ ReceiveNrc(t) \/ GiveUp(t)
    <2>1. Take(t) /\ Return(t, Verdict)
      BY <1>9 DEF ReceiveError, ReceiveNrc, GiveUp, ReceiveOwnNrc
    <2> QED
      BY <1>1, <1>6, <2>1, VerdictClassifies
  <1>10. CASE ReceiveForeignNrc(t) \/ RetryOverflow(t)
    BY <1>6, <1>10
    DEF ReceiveForeignNrc, RetryOverflow, SidMismatch, NoResult, IsOk, OkTags
  <1> QED
    BY <1>3, <1>4, <1>5, <1>7, <1>8, <1>9, <1>10 DEF Step, Receive

LEMMA OnlyOkHasContent ==
  ASSUME NEW service, NEW r, NEW content, ~ IsOk(r)
  PROVE  KeepsContent(service, r, content)
  BY DEF KeepsContent, IsOk, OkTags

LEMMA ContentStep ==
  ASSUME CallsInvariant, CallsInvariant', [Next]_vars, ResultsKeepContent
  PROVE  ResultsKeepContent'
  <1>1. SUFFICES ASSUME NEW t \in Tasks
                 PROVE  KeepsContent(call'[t].service, outcome'[t], Tail(LastTaken(t)'))
    BY DEF ResultsKeepContent
  <1>2. CASE ~ IsOk(outcome'[t])
    BY <1>2, OnlyOkHasContent
  <1>3. CASE UNCHANGED <<call[t], outcome[t], took[t]>>
    BY <1>3 DEF ResultsKeepContent, LastTaken
  <1>4. CASE Take(t) /\ outcome'[t] = Parse(call[t], raw_response)
    <2>1. TypeOK
      BY DEF CallsInvariant
    <2>2. call[t] \in Calls /\ raw_response \in Seq(Byte)
      BY <1>4, <2>1, TakeIsTyped DEF TypeOK
    <2>3. KeepsContent(call[t].service, Parse(call[t], raw_response), Tail(raw_response))
      BY <2>2, ParseKeeps DEF Keeps
    <2>4. call'[t] = call[t] /\ LastTaken(t)' = raw_response
      BY <1>4, <2>1, TakeExtends
    <2> QED
      BY <1>4, <2>3, <2>4
  <1> QED
    BY <1>2, <1>3, <1>4, OkComesFromParser

\* Every Ok result holds the content of the message it was made from: encoding
\* it again gives the bytes of that message after the service identifier.
THEOREM ContentKept == Spec => []ResultsKeepContent
  <1>1. Init => ResultsKeepContent
    BY OnlyOkHasContent DEF Init, ResultsKeepContent, NoResult, IsOk, OkTags
  <1> QED
    BY <1>1, ContentStep, CallsCorrect, PTL DEF Spec

=============================================================================
