--------------------------- MODULE UdsServiceProofs --------------------------
(***************************************************************************)
(* Lemmas about the compose and parse functions of the services: the types *)
(* of what they return, and what an Ok result says of the message it was   *)
(* made from.                                                              *)
(***************************************************************************)
EXTENDS UdsClient, SequenceTheorems, TLAPS

(***************************************************************************)
(* What parse_for_error and the parsers of the services return.            *)
(***************************************************************************)

LEMMA BytesAreNaturals ==
  /\ Byte \subseteq Nat
  /\ \A raw \in Seq(Byte) : raw \in Seq(Nat)
  <1>1. Byte \subseteq Nat
    BY DEF Byte
  <1> QED
    BY <1>1, SeqMonotonic

\* parse_for_error returns a Result; an NRC comes from a message 7F, sid, code.
LEMMA ParseForErrorReturns ==
  ASSUME NEW raw \in Seq(Byte)
  PROVE  /\ parse_for_error(raw) \in Result
         /\ parse_for_error(raw).tag = "NRC" =>
              /\ Len(raw) >= 3
              /\ raw[1] = NEGATIVE_RESPONSE_SID
              /\ parse_for_error(raw) = NRC(raw[2], raw[3])
  <1>1. CASE raw = <<>>
    BY <1>1 DEF parse_for_error, Err, Result, ErrTags
  <1>2. CASE raw # <<>> /\ raw[1] # NEGATIVE_RESPONSE_SID
    BY <1>2 DEF parse_for_error, NoResult, Result, NoResultTags
  <1>3. CASE raw # <<>> /\ raw[1] = NEGATIVE_RESPONSE_SID /\ Len(raw) < 3
    BY <1>3 DEF parse_for_error, Err, Result, ErrTags
  <1>4. CASE raw # <<>> /\ raw[1] = NEGATIVE_RESPONSE_SID /\ ~(Len(raw) < 3)
    <2>0. Len(raw) \in Nat /\ Len(raw) >= 3
      BY <1>4
    <2>1. raw[2] \in Nat /\ raw[3] \in Nat
      BY <2>0, BytesAreNaturals
    <2>2. NRC(raw[2], raw[3]) \in Result /\ UnknownNRC(raw[2], raw[3]) \in Result
      BY <2>1 DEF NRC, UnknownNRC, Result, ErrTags
    <2>3. UnknownNRC(raw[2], raw[3]).tag # "NRC"
      BY DEF UnknownNRC
    <2> QED
      BY <1>4, <2>2, <2>3 DEF parse_for_error
  <1> QED
    BY <1>1, <1>2, <1>3, <1>4


ParserTags == OkTags \cup {"SidMismatch", "DidMismatch", "InvalidLength", "ResponseEmpty",
                           "ResponseIncorrect", "InvalidArgument", "Panic"}

ParserResult == [tag : ParserTags, body : Seq(Nat)]

LEMMA NaturalSequences ==
  /\ <<>> \in Seq(Nat)
  /\ \A a \in Nat : <<a>> \in Seq(Nat)
  /\ \A a, b \in Nat : <<a, b>> \in Seq(Nat)
  /\ \A a, b, c \in Nat : <<a, b, c>> \in Seq(Nat)
  /\ \A a, b, c, d \in Nat : <<a, b, c, d>> \in Seq(Nat)
  OBVIOUS

LEMMA CombinedBytes ==
  /\ \A a, b \in Nat : U16(a, b) \in Nat
  /\ \A a, b, c \in Nat : U24(a, b, c) \in Nat
  BY DEF U16, U24

LEMMA ParserResults ==
  /\ \A body \in Seq(Nat) : Parsed(body) \in ParserResult /\ Raw(body) \in ParserResult
  /\ \A e \in ParserTags : Err(e) \in ParserResult /\ NoResult(e) \in ParserResult
  /\ \A a, b \in Nat : SidMismatch(a, b) \in ParserResult /\ DidMismatch(a, b) \in ParserResult
  BY NaturalSequences
  DEF Parsed, Raw, Err, NoResult, SidMismatch, DidMismatch, ParserResult, ParserTags, OkTags

\* A parser whose remainder is well typed returns a parser's result, and an Ok
\* only for a message that begins with the expected identifier.
LEMMA WithSidReturns ==
  ASSUME NEW sid \in Nat, NEW raw \in Seq(Nat), NEW rest,
         raw # <<>> /\ raw[1] = sid + SEND_RECEIVE_SID_OFFSET => rest \in ParserResult
  PROVE  /\ WithSid(sid, raw, rest) \in ParserResult
         /\ IsOk(WithSid(sid, raw, rest)) =>
              raw # <<>> /\ raw[1] = sid + SEND_RECEIVE_SID_OFFSET /\ WithSid(sid, raw, rest) = rest
  <1>1. CASE raw = <<>>
    BY <1>1, ParserResults DEF WithSid, ParserTags, Err, IsOk, OkTags
  <1>2. CASE raw # <<>> /\ raw[1] # sid + SEND_RECEIVE_SID_OFFSET
    <2>1. raw[1] \in Nat
      BY <1>2
    <2>2. SidMismatch(sid + SEND_RECEIVE_SID_OFFSET, raw[1]) \in ParserResult
      BY <2>1, ParserResults DEF SEND_RECEIVE_SID_OFFSET
    <2> QED
      BY <1>2, <2>2 DEF WithSid, SidMismatch, IsOk, OkTags
  <1>3. CASE raw # <<>> /\ raw[1] = sid + SEND_RECEIVE_SID_OFFSET
    BY <1>3 DEF WithSid
  <1> QED
    BY <1>1, <1>2, <1>3

\* What each parser below is shown to return.
FromService(sid, raw, result) ==
  /\ result \in ParserResult
  /\ IsOk(result) => raw # <<>> /\ raw[1] = sid + SEND_RECEIVE_SID_OFFSET

LEMMA FixedLengthParsers ==
  ASSUME NEW raw \in Seq(Nat)
  PROVE  /\ FromService(DIAGNOSTIC_SESSION_CONTROL_SID, raw,
                        parse_diagnostic_session_control_response(raw))
         /\ FromService(ECU_RESET_SID, raw, parse_ecu_reset_response(raw))
         /\ FromService(CLEAR_DIAGNOSTIC_INFORMATION_SID, raw,
                        parse_clear_diagnostic_information_response(raw))
         /\ FromService(WRITE_DATA_BY_IDENTIFIER_SID, raw,
                        parse_write_data_by_identifier_response(raw))
         /\ FromService(READ_DTC_INFORMATION_SID, raw,
                        parse_report_number_of_dtc_by_status_mask_response(raw))
  <1>1. Len(raw) \in Nat /\ \A i \in 1 .. Len(raw) : raw[i] \in Nat
    OBVIOUS
  <1>2. FromService(DIAGNOSTIC_SESSION_CONTROL_SID, raw,
                    parse_diagnostic_session_control_response(raw))
    <2> DEFINE rest == IF Len(raw) < 6 THEN Err("InvalidLength")
                       ELSE Parsed(<<raw[2], U16(raw[3], raw[4]), U16(raw[5], raw[6])>>)
    <2>1. CASE Len(raw) < 6
      BY <2>1, ParserResults, WithSidReturns
      DEF ParserTags, FromService, parse_diagnostic_session_control_response,
          DIAGNOSTIC_SESSION_CONTROL_SID
    <2>2. CASE ~ (Len(raw) < 6)
      <3>1. raw[2] \in Nat /\ raw[3] \in Nat /\ raw[4] \in Nat /\ raw[5] \in Nat /\ raw[6] \in Nat
        BY <1>1, <2>2
      <3>2. rest \in ParserResult
        BY <2>2, <3>1, CombinedBytes, NaturalSequences, ParserResults
      <3> QED
        BY <3>2, WithSidReturns
        DEF FromService, parse_diagnostic_session_control_response, DIAGNOSTIC_SESSION_CONTROL_SID
    <2> QED
      BY <2>1, <2>2
  <1>3. FromService(ECU_RESET_SID, raw, parse_ecu_reset_response(raw))
    <2> DEFINE rest ==
          IF Len(raw) < 2 THEN Err("InvalidLength")
          ELSE IF raw[2] \notin ResetType THEN Err("ResponseIncorrect")
          ELSE IF raw[2] # EnableRapidPowerShutDown THEN Parsed(<<raw[2]>>)
          ELSE IF Len(raw) < 3 THEN Err("InvalidLength")
          ELSE Parsed(<<raw[2], raw[3]>>)
    <2>1. rest \in ParserResult
      <3>1. /\ Err("InvalidLength") \in ParserResult
            /\ Err("ResponseIncorrect") \in ParserResult
        BY ParserResults DEF ParserTags
      <3>2. CASE Len(raw) < 2
        BY <3>1, <3>2
      <3>3. CASE Len(raw) = 2
        <4>1. raw[2] \in Nat
          BY <1>1, <3>3
        <4>2. Parsed(<<raw[2]>>) \in ParserResult
          BY <4>1, NaturalSequences, ParserResults
        <4> QED
          BY <3>1, <3>3, <4>2
      <3>4. CASE Len(raw) > 2
        <4>1. raw[2] \in Nat /\ raw[3] \in Nat
          BY <1>1, <3>4
        <4>2. Parsed(<<raw[2]>>) \in ParserResult /\ Parsed(<<raw[2], raw[3]>>) \in ParserResult
          BY <4>1, NaturalSequences, ParserResults
        <4> QED
          BY <1>1, <3>1, <3>4, <4>2
      <3> QED
        BY <1>1, <3>2, <3>3, <3>4
    <2> QED
      BY <2>1, WithSidReturns DEF FromService, parse_ecu_reset_response, ECU_RESET_SID
  <1>4. FromService(CLEAR_DIAGNOSTIC_INFORMATION_SID, raw,
                    parse_clear_diagnostic_information_response(raw))
    BY NaturalSequences, ParserResults, WithSidReturns
    DEF FromService, parse_clear_diagnostic_information_response, CLEAR_DIAGNOSTIC_INFORMATION_SID
  <1>5. FromService(WRITE_DATA_BY_IDENTIFIER_SID, raw,
                    parse_write_data_by_identifier_response(raw))
    <2> DEFINE rest == IF Len(raw) < 3 THEN Err("InvalidLength")
                       ELSE Parsed(<<U16(raw[2], raw[3])>>)
    <2>1. CASE Len(raw) < 3
      BY <2>1, ParserResults, WithSidReturns
      DEF ParserTags, FromService, parse_write_data_by_identifier_response,
          WRITE_DATA_BY_IDENTIFIER_SID
    <2>2. CASE ~ (Len(raw) < 3)
      <3>1. raw[2] \in Nat /\ raw[3] \in Nat
        BY <1>1, <2>2
      <3>2. rest \in ParserResult
        BY <2>2, <3>1, CombinedBytes, NaturalSequences, ParserResults
      <3> QED
        BY <3>2, WithSidReturns
        DEF FromService, parse_write_data_by_identifier_response, WRITE_DATA_BY_IDENTIFIER_SID
    <2> QED
      BY <2>1, <2>2
  <1>6. FromService(READ_DTC_INFORMATION_SID, raw,
                    parse_report_number_of_dtc_by_status_mask_response(raw))
    <2> DEFINE rest ==
          IF Len(raw) < 2 THEN Err("InvalidLength")
          ELSE IF raw[2] \notin SubFunction THEN Err("ResponseIncorrect")
          ELSE IF Len(raw) < 4 THEN Err("InvalidLength")
          ELSE IF raw[4] \notin DTCFormat THEN Err("ResponseIncorrect")
          ELSE IF Len(raw) < 6 THEN Err("InvalidLength")
          ELSE IF raw[2] \notin CountReports THEN Err("InvalidArgument")
          ELSE Parsed(<<raw[2], raw[3], raw[4], U16(raw[5], raw[6])>>)
    <2>1. /\ Err("InvalidLength") \in ParserResult
          /\ Err("ResponseIncorrect") \in ParserResult
          /\ Err("InvalidArgument") \in ParserResult
      BY ParserResults DEF ParserTags
    <2>2. CASE Len(raw) < 6
      <3>1. rest \in ParserResult
        BY <2>1, <2>2
      <3> QED
        BY <3>1, WithSidReturns
        DEF FromService, parse_report_number_of_dtc_by_status_mask_response,
            READ_DTC_INFORMATION_SID
    <2>3. CASE ~ (Len(raw) < 6)
      <3>1. /\ raw[2] \in Nat /\ raw[3] \in Nat /\ raw[4] \in Nat
            /\ raw[5] \in Nat /\ raw[6] \in Nat
        BY <1>1, <2>3
      <3>2. Parsed(<<raw[2], raw[3], raw[4], U16(raw[5], raw[6])>>) \in ParserResult
        BY <3>1, CombinedBytes, NaturalSequences, ParserResults
      <3>3. rest \in ParserResult
        BY <2>1, <3>2
      <3> QED
        BY <3>3, WithSidReturns
        DEF FromService, parse_report_number_of_dtc_by_status_mask_response,
            READ_DTC_INFORMATION_SID
    <2> QED
      BY <2>2, <2>3
  <1> QED
    BY <1>2, <1>3, <1>4, <1>5, <1>6

LEMMA DataParsers ==
  ASSUME NEW raw \in Seq(Nat)
  PROVE  /\ FromService(READ_DATA_BY_IDENTIFIER_SID, raw,
                        parse_read_data_by_identifier_response(raw))
         /\ FromService(READ_MEMORY_BY_ADDRESS_SID, raw, parse_response(raw))
         /\ FromService(READ_DTC_INFORMATION_SID, raw,
                        parse_report_dtc_snapshot_record_by_dtc_number_response(raw))
         /\ FromService(READ_DTC_INFORMATION_SID, raw,
                        parse_report_dtc_ext_data_by_dtc_number_response(raw))
  <1>1. raw # <<>> => Raw(Tail(raw)) \in ParserResult /\ Parsed(Tail(raw)) \in ParserResult
    BY HeadTailProperties, ParserResults
  <1>2. FromService(READ_DATA_BY_IDENTIFIER_SID, raw, parse_read_data_by_identifier_response(raw))
    BY <1>1, WithSidReturns
    DEF FromService, parse_read_data_by_identifier_response, READ_DATA_BY_IDENTIFIER_SID
  <1>3. FromService(READ_MEMORY_BY_ADDRESS_SID, raw, parse_response(raw))
    <2>1. CASE raw = <<>>
      BY <2>1, ParserResults
      DEF FromService, parse_response, ParserTags, NoResult, IsOk, OkTags
    <2>2. CASE raw # <<>>
      BY <1>1, <2>2, WithSidReturns DEF FromService, parse_response, READ_MEMORY_BY_ADDRESS_SID
    <2> QED
      BY <2>1, <2>2
  <1>4. /\ FromService(READ_DTC_INFORMATION_SID, raw,
                       parse_report_dtc_snapshot_record_by_dtc_number_response(raw))
        /\ FromService(READ_DTC_INFORMATION_SID, raw,
                       parse_report_dtc_ext_data_by_dtc_number_response(raw))
    BY <1>1, WithSidReturns
    DEF FromService, parse_report_dtc_snapshot_record_by_dtc_number_response,
        parse_report_dtc_ext_data_by_dtc_number_response, READ_DTC_INFORMATION_SID
  <1> QED
    BY <1>2, <1>3, <1>4

\* The read of one identifier: an Ok only for a response that names it.
LEMMA SingleReadParser ==
  ASSUME NEW raw \in Seq(Nat), NEW did \in Nat
  PROVE  LET r == parse_single_data_by_identifier_response(did, raw)
         IN  /\ FromService(READ_DATA_BY_IDENTIFIER_SID, raw, r)
             /\ IsOk(r) => U16(raw[2], raw[3]) = did
  <1> DEFINE rest ==
        IF Len(raw) < 3 THEN Err("InvalidLength")
        ELSE LET response_did == U16(raw[2], raw[3])
             IN  IF did # response_did THEN DidMismatch(did, response_did)
                 ELSE Parsed(<<did>> \o SubSeq(raw, 4, Len(raw)))
  <1>1. Err("InvalidLength") \in ParserResult /\ ~ IsOk(Err("InvalidLength"))
    BY ParserResults DEF ParserTags, Err, IsOk, OkTags
  <1>2. rest \in ParserResult /\ (IsOk(rest) => U16(raw[2], raw[3]) = did)
    <2>1. CASE Len(raw) < 3
      BY <1>1, <2>1
    <2>2. CASE ~ (Len(raw) < 3)
      <3>1. raw[2] \in Nat /\ raw[3] \in Nat
        BY <2>2
      <3>2. U16(raw[2], raw[3]) \in Nat
        BY <3>1, CombinedBytes
      <3>3. DidMismatch(did, U16(raw[2], raw[3])) \in ParserResult
        BY <3>2, ParserResults
      <3>4. ~ IsOk(DidMismatch(did, U16(raw[2], raw[3])))
        BY DEF DidMismatch, IsOk, OkTags
      <3>5. SubSeq(raw, 4, Len(raw)) \in Seq(Nat)
        BY SubSeqProperties
      <3>6. <<did>> \o SubSeq(raw, 4, Len(raw)) \in Seq(Nat)
        BY <3>5, NaturalSequences, ConcatProperties
      <3>7. Parsed(<<did>> \o SubSeq(raw, 4, Len(raw))) \in ParserResult
        BY <3>6, ParserResults
      <3> QED
        BY <2>2, <3>3, <3>4, <3>7
    <2> QED
      BY <2>1, <2>2
  <1>3. CASE raw = <<>>
    BY <1>1, <1>3 DEF FromService, parse_single_data_by_identifier_response
  <1>4. CASE raw # <<>>
    <2>1. parse_single_data_by_identifier_response(did, raw)
            = WithSid(READ_DATA_BY_IDENTIFIER_SID, raw, rest)
      BY <1>4 DEF parse_single_data_by_identifier_response
    <2> HIDE DEF rest
    <2> QED
      BY <1>2, <2>1, WithSidReturns DEF FromService, READ_DATA_BY_IDENTIFIER_SID
  <1> QED
    BY <1>3, <1>4

\* The DTC records are read from inside the message.
LEMMA DtcRecordsInRange ==
  ASSUME NEW raw \in Seq(Nat), Len(raw) >= 3, (Len(raw) - 3) % 4 = 0
  PROVE  DtcRecords(raw) \in Seq(Nat)
  <1> DEFINE n == NumberOfDtcs(raw)
             at(i) == 3 + 4 * ((i - 1) \div 2)
  <1>1. n \in Nat /\ Len(raw) = 3 + 4 * n
    <2>1. \A m \in Nat : m >= 3 /\ (m - 3) % 4 = 0 =>
            (m - 3) \div 4 \in Nat /\ m = 3 + 4 * ((m - 3) \div 4)
      OBVIOUS
    <2>2. Len(raw) \in Nat
      BY LenProperties
    <2> QED
      BY <2>1, <2>2 DEF NumberOfDtcs
  <1>2. ASSUME NEW i \in 1 .. 2 * n
        PROVE  DtcRecords(raw)[i] \in Nat
    <2>1. at(i) \in Nat /\ at(i) + 4 <= Len(raw)
      <3> DEFINE record == (i - 1) \div 2
      <3>1. n \in Nat /\ i \in Int /\ 1 <= i /\ i <= 2 * n
        BY <1>1
      <3>2. record \in Nat /\ record + 1 <= n
        <4> HIDE DEF n
        <4> QED
          BY <3>1
      <3>3. at(i) = 3 + 4 * record
        OBVIOUS
      <3> HIDE DEF n, record, at
      <3> QED
        BY <1>1, <3>2, <3>3
    <2>2. /\ raw[at(i) + 1] \in Nat /\ raw[at(i) + 2] \in Nat
          /\ raw[at(i) + 3] \in Nat /\ raw[at(i) + 4] \in Nat
      <3> HIDE DEF at
      <3>1. \A a, m \in Nat : a + 4 <= m =>
              a + 1 \in 1 .. m /\ a + 2 \in 1 .. m /\ a + 3 \in 1 .. m /\ a + 4 \in 1 .. m
        OBVIOUS
      <3>2. Len(raw) \in Nat
        BY LenProperties
      <3>3. /\ at(i) + 1 \in 1 .. Len(raw) /\ at(i) + 2 \in 1 .. Len(raw)
            /\ at(i) + 3 \in 1 .. Len(raw) /\ at(i) + 4 \in 1 .. Len(raw)
        BY <2>1, <3>1, <3>2
      <3> QED
        BY <3>3, ElementOfSeq
    <2>3. U24(raw[at(i) + 1], raw[at(i) + 2], raw[at(i) + 3]) \in Nat
      BY <2>2, CombinedBytes
    <2> QED
      BY <2>2, <2>3 DEF DtcRecords
  <1>3. DtcRecords(raw) = [i \in 1 .. 2 * n |-> DtcRecords(raw)[i]]
    BY DEF DtcRecords
  <1>4. DtcRecords(raw) \in [1 .. 2 * n -> Nat]
    BY <1>2, <1>3
  <1>5. 2 * n \in Nat
    BY <1>1
  <1> HIDE DEF n
  <1> QED
    BY <1>4, <1>5, SeqDef

LEMMA DtcParser ==
  ASSUME NEW raw \in Seq(Nat)
  PROVE  FromService(READ_DTC_INFORMATION_SID, raw, parse_report_dtcs(raw))
  <1> DEFINE rest ==
        IF Len(raw) < 3 \/ (Len(raw) - 3) % 4 # 0 THEN Err("InvalidLength")
        ELSE IF raw[2] \notin SubFunction THEN Err("ResponseIncorrect")
        ELSE IF raw[2] \notin ListReports THEN Err("InvalidArgument")
        ELSE Parsed(<<raw[2], raw[3]>> \o DtcRecords(raw))
  <1>1. /\ Err("InvalidLength") \in ParserResult
        /\ Err("ResponseIncorrect") \in ParserResult
        /\ Err("InvalidArgument") \in ParserResult
    BY ParserResults DEF ParserTags
  <1>2. rest \in ParserResult
    <2>1. CASE Len(raw) < 3 \/ (Len(raw) - 3) % 4 # 0
      BY <1>1, <2>1
    <2>2. CASE ~ (Len(raw) < 3 \/ (Len(raw) - 3) % 4 # 0)
      <3>1. raw[2] \in Nat /\ raw[3] \in Nat
        BY <2>2
      <3>2. DtcRecords(raw) \in Seq(Nat)
        BY <2>2, DtcRecordsInRange
      <3>3. <<raw[2], raw[3]>> \o DtcRecords(raw) \in Seq(Nat)
        <4>1. <<raw[2], raw[3]>> \in Seq(Nat)
          BY <3>1, NaturalSequences
        <4> HIDE DEF DtcRecords
        <4> QED
          BY <3>2, <4>1, ConcatProperties
      <3>4. Parsed(<<raw[2], raw[3]>> \o DtcRecords(raw)) \in ParserResult
        BY <3>3, ParserResults
      <3> QED
        BY <1>1, <2>2, <3>4
    <2> QED
      BY <2>1, <2>2
  <1>3. parse_report_dtcs(raw) = WithSid(READ_DTC_INFORMATION_SID, raw, rest)
    BY DEF parse_report_dtcs
  <1> HIDE DEF rest
  <1> QED
    BY <1>2, <1>3, WithSidReturns DEF FromService, READ_DTC_INFORMATION_SID

Sid(service) ==
  CASE service = "diagnostic_session_control"   -> DIAGNOSTIC_SESSION_CONTROL_SID
    [] service = "ecu_reset"                    -> ECU_RESET_SID
    [] service = "clear_diagnostic_information" -> CLEAR_DIAGNOSTIC_INFORMATION_SID
    [] service = "read_data_by_identifier"      -> READ_DATA_BY_IDENTIFIER_SID
    [] service = "write_data_by_identifier"     -> WRITE_DATA_BY_IDENTIFIER_SID
    [] service = "read_memory_by_address"       -> READ_MEMORY_BY_ADDRESS_SID
    [] OTHER                                    -> READ_DTC_INFORMATION_SID

\* Every request begins with the identifier of its service.
LEMMA ComposeSid ==
  ASSUME NEW c \in Calls
  PROVE  Compose(c)[1] = Sid(c.service)
  <1>1. /\ c.service \in Services
        /\ c.args \in Seq(Nat)
        /\ c.service = "write_data_by_identifier" => c.args # <<>>
    BY ClientAssumption
  <1>2. CASE c.service \notin {"read_data_by_identifier", "write_data_by_identifier",
                               "read_memory_by_address"}
    BY <1>1, <1>2
    DEF Services, Compose, Sid, compose_diagnostic_session_control_request,
        compose_ecu_reset_request, compose_clear_diagnostic_information_request,
        compose_report_number_of_dtc_by_status_mask_request,
        compose_report_dtc_snapshot_request, compose_request_short,
        compose_report_dtc_ext_data_by_dtc_number_request
  <1>3. CASE c.service = "read_data_by_identifier"
    <2> DEFINE dids == [i \in 1 .. 2 * Len(c.args) |->
                          LET did == c.args[(i + 1) \div 2]
                          IN  IF i % 2 = 1 THEN Middle(did) ELSE Low(did)]
    <2>1. Compose(c) = <<READ_DATA_BY_IDENTIFIER_SID>> \o dids
      BY <1>3 DEF Compose, compose_read_data_by_identifier_request
    <2>2. ASSUME NEW i \in 1 .. 2 * Len(c.args)
          PROVE  dids[i] \in Nat
      <3>1. (i + 1) \div 2 \in 1 .. Len(c.args)
        BY <1>1
      <3>2. c.args[(i + 1) \div 2] \in Nat
        BY <1>1, <3>1, ElementOfSeq
      <3> QED
        BY <3>2 DEF Middle, Low
    <2>3. dids \in [1 .. 2 * Len(c.args) -> Nat]
      BY <2>2
    <2>4. 2 * Len(c.args) \in Nat
      BY <1>1
    <2> HIDE DEF dids
    <2>5. dids \in Seq(Nat)
      BY <2>3, <2>4, SeqDef
    <2>6. <<READ_DATA_BY_IDENTIFIER_SID>> \in Seq(Nat)
      BY DEF READ_DATA_BY_IDENTIFIER_SID
    <2> QED
      BY <1>3, <2>1, <2>5, <2>6, ConcatProperties DEF Sid
  <1>4. CASE c.service = "write_data_by_identifier"
    <2> DEFINE header == <<WRITE_DATA_BY_IDENTIFIER_SID, Middle(c.args[1]), Low(c.args[1])>>
    <2>1. Compose(c) = header \o Tail(c.args)
      BY <1>4 DEF Compose, compose_write_data_by_identifier_request
    <2>2. Tail(c.args) \in Seq(Nat) /\ c.args[1] \in Nat
      BY <1>1, <1>4, HeadTailProperties
    <2>3. Middle(c.args[1]) \in Nat /\ Low(c.args[1]) \in Nat
      BY <2>2 DEF Middle, Low
    <2>4. header \in Seq(Nat) /\ Len(header) = 3 /\ header[1] = WRITE_DATA_BY_IDENTIFIER_SID
      BY <2>3, NaturalSequences DEF WRITE_DATA_BY_IDENTIFIER_SID
    <2> HIDE DEF header
    <2>5. (header \o Tail(c.args))[1] = header[1]
      <3> DEFINE record == Tail(c.args)
      <3> HIDE DEF record
      <3>1. record \in Seq(Nat) /\ Len(record) \in Nat
        BY <2>2, LenProperties DEF record
      <3>2. (header \o record)[1] = header[1]
        BY <2>4, <3>1, ConcatProperties
      <3> QED
        BY <3>2 DEF record
    <2> QED
      BY <1>4, <2>1, <2>4, <2>5 DEF Sid
  <1>5. CASE c.service = "read_memory_by_address"
    <2>1. Compose(c) = <<READ_MEMORY_BY_ADDRESS_SID>> \o c.args
      BY <1>5 DEF Compose, formulate_request
    <2>2. <<READ_MEMORY_BY_ADDRESS_SID>> \in Seq(Nat)
      BY DEF READ_MEMORY_BY_ADDRESS_SID
    <2> QED
      BY <1>1, <1>5, <2>1, <2>2, ConcatProperties DEF Sid
  <1> QED
    BY <1>2, <1>3, <1>4, <1>5

\* The parser a call ends with returns a parser's result; it is an Ok only for
\* a positive response of the service called, and of the identifier read.
LEMMA ParseReturns ==
  ASSUME NEW c \in Calls, NEW raw \in Seq(Byte)
  PROVE  /\ FromService(Compose(c)[1], raw, Parse(c, raw))
         /\ IsOk(Parse(c, raw)) /\ c.service = "read_data_by_identifier" /\ Len(c.args) = 1 =>
              U16(raw[2], raw[3]) = c.args[1]
  <1>1. raw \in Seq(Nat)
    BY BytesAreNaturals
  <1>2. c.service \in Services /\ c.args \in Seq(Nat)
    BY ClientAssumption
  <1>3. Compose(c)[1] = Sid(c.service)
    BY ComposeSid
  <1>4. CASE c.service \notin {"read_data_by_identifier"}
    <2>1. FromService(Sid(c.service), raw, Parse(c, raw))
      <3>1. CASE c.service = "diagnostic_session_control"
        BY <1>1, <3>1, FixedLengthParsers DEF Parse, Sid
      <3>2. CASE c.service = "ecu_reset"
        BY <1>1, <3>2, FixedLengthParsers DEF Parse, Sid
      <3>3. CASE c.service = "clear_diagnostic_information"
        BY <1>1, <3>3, FixedLengthParsers DEF Parse, Sid
      <3>4. CASE c.service = "write_data_by_identifier"
        BY <1>1, <3>4, FixedLengthParsers DEF Parse, Sid
      <3>5. CASE c.service = "report_number_of_dtc_by_status_mask"
        BY <1>1, <3>5, FixedLengthParsers DEF Parse, Sid
      <3>6. CASE c.service = "read_memory_by_address"
        BY <1>1, <3>6, DataParsers DEF Parse, Sid
      <3>7. CASE c.service = "report_dtc_snapshot_record_by_dtc_number"
        BY <1>1, <3>7, DataParsers DEF Parse, Sid
      <3>8. CASE c.service = "report_dtc_ext_data_record_by_dtc_number"
        BY <1>1, <3>8, DataParsers DEF Parse, Sid
      <3>9. CASE c.service \in {"report_dtc_by_status_mask", "report_most_recent_confirmed_dtc"}
        BY <1>1, <3>9, DtcParser DEF Parse, Sid
      <3> QED
        BY <1>2, <1>4, <3>1, <3>2, <3>3, <3>4, <3>5, <3>6, <3>7, <3>8, <3>9 DEF Services
    <2> QED
      BY <1>3, <1>4, <2>1
  <1>5. CASE c.service = "read_data_by_identifier" /\ Len(c.args) = 1
    <2>1. c.args[1] \in Nat
      BY <1>2, <1>5
    <2>2. Parse(c, raw) = parse_single_data_by_identifier_response(c.args[1], raw)
      BY <1>5 DEF Parse
    <2> QED
      BY <1>1, <1>3, <1>5, <2>1, <2>2, SingleReadParser DEF Sid
  <1>6. CASE c.service = "read_data_by_identifier" /\ Len(c.args) # 1
    <2>1. Parse(c, raw) = parse_read_data_by_identifier_response(raw)
      BY <1>6 DEF Parse
    <2> QED
      BY <1>1, <1>3, <1>6, <2>1, DataParsers DEF Sid
  <1> QED
    BY <1>4, <1>5, <1>6

\* The only parser that panics is that of ReadMemoryByAddress, on an empty message.
LEMMA ParsePanics ==
  ASSUME NEW c \in Calls, NEW raw \in Seq(Byte), Parse(c, raw).tag = "Panic"
  PROVE  raw = <<>> /\ c.service = "read_memory_by_address"
  <1> USE DEF Parse, WithSid, Err, Parsed, Raw, SidMismatch, DidMismatch
  <1>1. c.service \in Services
    BY ClientAssumption
  <1>2. CASE c.service = "read_memory_by_address"
    BY <1>2 DEF parse_response
  <1>3. CASE c.service \in {"diagnostic_session_control", "clear_diagnostic_information"}
    BY <1>3 DEF parse_diagnostic_session_control_response,
                parse_clear_diagnostic_information_response
  <1>4. CASE c.service = "ecu_reset"
    BY <1>4 DEF parse_ecu_reset_response
  <1>5. CASE c.service = "write_data_by_identifier"
    BY <1>5 DEF parse_write_data_by_identifier_response
  <1>6. CASE c.service = "report_number_of_dtc_by_status_mask"
    BY <1>6 DEF parse_report_number_of_dtc_by_status_mask_response
  <1>7. CASE c.service = "report_dtc_snapshot_record_by_dtc_number"
    BY <1>7 DEF parse_report_dtc_snapshot_record_by_dtc_number_response
  <1>8. CASE c.service = "report_dtc_ext_data_record_by_dtc_number"
    BY <1>8 DEF parse_report_dtc_ext_data_by_dtc_number_response
  <1>9. CASE c.service \in {"report_dtc_by_status_mask", "report_most_recent_confirmed_dtc"}
    BY <1>9 DEF parse_report_dtcs
  <1>10. CASE c.service = "read_data_by_identifier"
    BY <1>10 DEF parse_read_data_by_identifier_response,
                 parse_single_data_by_identifier_response
  <1> QED
    BY <1>1, <1>2, <1>3, <1>4, <1>5, <1>6, <1>7, <1>8, <1>9, <1>10 DEF Services

==============================================================================
