---------------------------- MODULE ParserProofs ----------------------------
(***************************************************************************)
(* The two parsers with loops, for every message: parse_report_dtcs computes *)
(* its closed form, and parse_read_data_by_identifier_tuple_response divides *)
(* the message among the identifiers if and only if that can be done.      *)
(***************************************************************************)
EXTENDS ReadDataTuple, ReportDtcs, SequenceTheorems, TLAPS

LEMMA Numbers ==
  /\ \A b \in Byte : b \in Nat
  /\ \A hi, lo \in Nat : U16(hi, lo) \in Nat
  /\ \A did \in DataIdentifier : did \in Nat
  BY DEF Byte, U16, DataIdentifier

LEMMA TupleArguments ==
  ASSUME TypeOK
  PROVE  /\ data_identifiers_and_lengths \in Seq(Pair)
         /\ raw_response \in Seq(Byte)
         /\ Len(data_identifiers_and_lengths) \in Nat /\ Len(raw_response) \in Nat
         /\ Len(data_record) \in Nat /\ Len(data_records) \in Nat /\ Len(starts) \in Nat
         /\ consumed \in Nat
  BY TupleAssumption, LenProperties DEF TypeOK

LEMMA PairIsLeft ==
  ASSUME TypeOK, RecordsSoFar, ~ AllRead
  PROVE  Len(data_records) + 1 \in 1 .. Len(data_identifiers_and_lengths)
  BY TupleArguments DEF RecordsSoFar, AllRead

LEMMA CurrentPair ==
  ASSUME TypeOK, RecordsSoFar, ~ AllRead
  PROVE  pair.did \in DataIdentifier /\ pair.len \in 0 .. U32_MAX
  <1>1. pair \in Pair
    BY PairIsLeft, TupleArguments, ElementOfSeq DEF pair
  <1> QED
    BY <1>1 DEF Pair

\* Every division of the message places the current pair where the loop is.
LEMMA NextInDivision ==
  ASSUME TypeOK, RecordsSoFar, ~ AllRead,
         NEW at \in Divisions(data_identifiers_and_lengths, raw_response)
  PROVE  LET m == Len(data_records)
         IN  /\ at[m + 1] = starts[m + 1]
             /\ at[m + 2] \in 0 .. Len(raw_response)
             /\ Fits(pair, raw_response, at[m + 1], at[m + 2])
  <1> DEFINE m == Len(data_records)
  <1>1. m + 1 \in 1 .. Len(data_identifiers_and_lengths)
    BY PairIsLeft
  <1>2. at[m + 1] = starts[m + 1]
    BY <1>1, TupleArguments DEF RecordsSoFar
  <1>3. Fits(pair, raw_response, at[m + 1], at[m + 1 + 1])
    BY <1>1 DEF Divisions, Divides, pair
  <1>4. m + 1 + 1 = m + 2 /\ m + 2 \in 1 .. Len(data_identifiers_and_lengths) + 1
    BY <1>1, TupleArguments
  <1> QED
    BY <1>2, <1>3, <1>4 DEF Divisions

\* Where the loop reports an error the message cannot be divided.
LEMMA Indivisible ==
  ASSUME TypeOK, RecordsSoFar, ~ AllRead,
         \A to \in 0 .. Len(raw_response) :
           ~ Fits(pair, raw_response, starts[Len(data_records) + 1], to)
  PROVE  Divisions(data_identifiers_and_lengths, raw_response) = {}
  BY NextInDivision

LEMMA ErrorStep ==
  ASSUME TypeOK, RecordsSoFar, ~ AllRead, NEW r, ~ IsOk(r), Return(r),
         pc # "returned",
         \A to \in 0 .. Len(raw_response) :
           ~ Fits(pair, raw_response, starts[Len(data_records) + 1], to)
  PROVE  OkDividesMessage' /\ ErrorMeansIndivisible'
  <1>1. Divisions(data_identifiers_and_lengths, raw_response) = {}
    BY Indivisible
  <1> QED
    BY <1>1 DEF Return, arguments, OkDividesMessage, ErrorMeansIndivisible

LEMMA TupleResultTypes ==
  /\ Err("InvalidLength") \in Result /\ ~ IsOk(Err("InvalidLength"))
  /\ Parsed(<<>>) \in Result /\ IsOk(Parsed(<<>>))
  /\ \A a, b \in Nat : /\ SidMismatch(a, b) \in Result /\ ~ IsOk(SidMismatch(a, b))
                       /\ DidMismatch(a, b) \in Result /\ ~ IsOk(DidMismatch(a, b))
  BY DEF Err, Parsed, SidMismatch, DidMismatch, Result, OkTags, ErrTags, NoResultTags, IsOk

LEMMA TupleTypeStep ==
  ASSUME TupleInvariant, [Next]_vars
  PROVE  TypeOK'
  <1>1. TypeOK /\ raw_response \in Seq(Byte) /\ Len(raw_response) \in Nat /\ consumed \in Nat
    BY TupleArguments DEF TupleInvariant
  <1>2. \A i \in 1 .. Len(raw_response) : raw_response[i] \in Byte
    BY <1>1, ElementOfSeq
  <1>3. ASSUME NEW r \in Result, Return(r) PROVE TypeOK'
    BY <1>1, <1>3 DEF Return, arguments, TypeOK
  <1>4. CASE SidMissing \/ Finished \/ DidMissing \/ DataMissing
    BY <1>3, <1>4, TupleResultTypes DEF SidMissing, Finished, DidMissing, DataMissing
  <1>5. CASE SidWrong
    <2>1. 1 \in 1 .. Len(raw_response)
      BY <1>1, <1>5, LenProperties DEF SidWrong
    <2>3. raw_response[1] \in Nat
      BY <1>2, <2>1, Numbers
    <2>2. Expected \in Nat
      BY DEF Expected, READ_DATA_BY_IDENTIFIER_SID, SEND_RECEIVE_SID_OFFSET
    <2> QED
      BY <1>3, <1>5, <2>3, <2>2, TupleResultTypes DEF SidWrong
  <1>6. CASE SidRead
    <2>1. Len(raw_response) >= 1
      BY <1>1, <1>6, LenProperties DEF SidRead
    <2>2. 1 \in 0 .. Len(raw_response) /\ <<1>> \in Seq(Nat)
      BY <1>1, <2>1
    <2> QED
      BY <1>1, <1>6, <2>2 DEF SidRead, TypeOK, arguments
  <1>7. CASE DidWrong
    <2>1. consumed + 1 \in 1 .. Len(raw_response) /\ consumed + 2 \in 1 .. Len(raw_response)
      BY <1>1, <1>7 DEF DidWrong, Remaining
    <2>2. response_did \in Nat
      BY <1>2, <2>1, Numbers DEF response_did
    <2>3. pair.did \in Nat
      BY <1>1, <1>7, CurrentPair, Numbers DEF DidWrong, TupleInvariant
    <2> QED
      BY <1>3, <1>7, <2>2, <2>3, TupleResultTypes DEF DidWrong
  <1>8. CASE DidRead
    <2>1. consumed + 2 \in 0 .. Len(raw_response)
      BY <1>1, <1>8 DEF DidRead, Remaining
    <2> QED
      BY <1>1, <1>8, <2>1 DEF DidRead, TypeOK, arguments
  <1>9. CASE DataRead
    <2>1. consumed + 1 \in 0 .. Len(raw_response) /\ consumed + 1 \in 1 .. Len(raw_response)
      BY <1>1, <1>9 DEF DataRead, Remaining
    <2>2. data_record' \in Seq(Byte)
      BY <1>1, <1>2, <1>9, <2>1 DEF DataRead, TypeOK
    <2> QED
      BY <1>1, <1>9, <2>1, <2>2 DEF DataRead, TypeOK, arguments
  <1>10. CASE RecordRead
    <2> DEFINE record == [data_identifier |-> pair.did, data |-> data_record]
    <2>1. pair.did \in DataIdentifier
      BY <1>1, <1>10, CurrentPair DEF RecordRead, TupleInvariant, DataSoFar
    <2>2. record \in DataRecord
      BY <1>1, <2>1 DEF DataRecord, TypeOK
    <2>3. data_records' = Append(data_records, record)
      BY <1>10 DEF RecordRead
    <2> HIDE DEF record
    <2>4. data_records' \in Seq(DataRecord)
      BY <1>1, <2>2, <2>3 DEF TypeOK
    <2>5. starts' \in Seq(Nat)
      BY <1>1, <1>10 DEF RecordRead, TypeOK
    <2> QED
      BY <1>1, <1>10, <2>4, <2>5 DEF RecordRead, TypeOK, arguments
  <1>11. CASE UNCHANGED vars
    BY <1>1, <1>11 DEF vars, arguments, TypeOK
  <1> QED
    BY <1>4, <1>5, <1>6, <1>7, <1>8, <1>9, <1>10, <1>11 DEF Next

(***************************************************************************)
(* The service identifier.                                                 *)
(***************************************************************************)
LEMMA SidStep ==
  ASSUME TupleInvariant, SidMissing \/ SidWrong \/ SidRead
  PROVE  TupleInvariant'
  <1>1. TypeOK'
    BY TupleTypeStep DEF Next
  <1>2. CASE SidMissing \/ SidWrong
    BY <1>1, <1>2, TupleResultTypes
       DEF SidMissing, SidWrong, Return, arguments, TupleInvariant, OkDividesMessage,
           ErrorMeansIndivisible, Err, SidMismatch, IsOk, OkTags
  <1>3. CASE SidRead
    <2>1. /\ data_records = <<>> /\ data_records' = <<>> /\ starts' = <<1>>
          /\ UNCHANGED <<data_identifiers_and_lengths, raw_response, result>>
          /\ pc' = "did" /\ consumed' = 1
      BY <1>3 DEF SidRead, arguments, TupleInvariant
    <2>2. Len(data_identifiers_and_lengths) \in Nat
      BY TupleArguments DEF TupleInvariant
    <2>3. \A at \in Divisions(data_identifiers_and_lengths, raw_response) : at[1] = 1
      BY DEF Divisions, Divides
    <2>4. RecordsSoFar'
      BY <2>1, <2>2, <2>3 DEF RecordsSoFar
    <2> QED
      BY <1>1, <2>1, <2>4 DEF TupleInvariant, OkDividesMessage, ErrorMeansIndivisible
  <1> QED
    BY <1>2, <1>3

(***************************************************************************)
(* The end of the loop.                                                    *)
(***************************************************************************)
LEMMA FinishedStep ==
  ASSUME TupleInvariant, Finished
  PROVE  TupleInvariant'
  <1>1. TypeOK'
    BY TupleTypeStep DEF Next
  <1>2. RecordsSoFar /\ AllRead
    BY DEF TupleInvariant, Finished
  <1>3. OkDividesMessage'
    BY <1>2 DEF Finished, Return, arguments, OkDividesMessage, RecordsSoFar, AllRead, Divides
  <1>4. ErrorMeansIndivisible'
    BY TupleResultTypes DEF Finished, Return, ErrorMeansIndivisible
  <1> QED
    BY <1>1, <1>3, <1>4 DEF Finished, Return, TupleInvariant

(***************************************************************************)
(* The errors: no position fits the pair.                                  *)
(***************************************************************************)
LEMMA ErrorKeepsInvariant ==
  ASSUME TupleInvariant, pc # "returned", RecordsSoFar, ~ AllRead, TypeOK',
         NEW r, ~ IsOk(r), Return(r),
         \A to \in 0 .. Len(raw_response) :
           ~ Fits(pair, raw_response, starts[Len(data_records) + 1], to)
  PROVE  TupleInvariant'
  <1>1. OkDividesMessage' /\ ErrorMeansIndivisible'
    BY ErrorStep DEF TupleInvariant
  <1> QED
    BY <1>1 DEF Return, TupleInvariant

LEMMA DidErrorStep ==
  ASSUME TupleInvariant, DidMissing \/ DidWrong
  PROVE  TupleInvariant'
  <1>1. TypeOK'
    BY TupleTypeStep DEF Next
  <1>2. /\ TypeOK /\ RecordsSoFar /\ ~ AllRead /\ pc = "did"
        /\ consumed = starts[Len(data_records) + 1]
        /\ consumed \in Nat /\ Len(raw_response) \in Nat
    BY TupleArguments DEF TupleInvariant, DidMissing, DidWrong
  <1>3. ASSUME NEW to \in 0 .. Len(raw_response), Fits(pair, raw_response, consumed, to)
        PROVE  FALSE
    BY <1>2, <1>3 DEF Fits, DidMissing, DidWrong, Remaining, response_did
  <1>4. PICK r : Return(r) /\ ~ IsOk(r)
    <2>1. CASE DidMissing
      BY <2>1, TupleResultTypes DEF DidMissing
    <2>2. CASE DidWrong
      BY <2>2, TupleResultTypes DEF DidWrong, DidMismatch, IsOk, OkTags
    <2> QED
      BY <2>1, <2>2
  <1> QED
    BY <1>1, <1>2, <1>3, <1>4, ErrorKeepsInvariant

LEMMA DataErrorStep ==
  ASSUME TupleInvariant, DataMissing
  PROVE  TupleInvariant'
  <1> DEFINE start == starts[Len(data_records) + 1]
  <1>1. TypeOK'
    BY TupleTypeStep DEF Next
  <1>2. /\ TypeOK /\ RecordsSoFar /\ DataSoFar /\ ~ AllRead /\ pc = "data"
        /\ Len(data_record) \in Nat /\ Len(raw_response) \in Nat /\ consumed \in Nat
        /\ Len(data_records) \in Nat
    BY TupleArguments DEF TupleInvariant, DataMissing, DataSoFar
  <1>3. start \in Nat
    <2>1. Len(data_records) + 1 \in 1 .. Len(starts)
      BY <1>2 DEF RecordsSoFar
    <2> QED
      BY <1>2, <2>1, ElementOfSeq DEF TypeOK
  <1>4. pair.len \in 0 .. U32_MAX /\ U32_MAX \in Nat
    BY <1>2, CurrentPair, TupleAssumption
  <1>5. /\ pair.len # U32_MAX /\ Len(data_record) < pair.len
        /\ consumed = Len(raw_response)
        /\ consumed = start + 2 + Len(data_record)
    <2>1. consumed = start + 2 + Len(data_record)
      BY <1>2 DEF DataSoFar
    <2>2. WantsMore /\ Len(raw_response) - consumed = 0
      BY DEF DataMissing, Remaining
    <2>3. ~ (Remaining > 0) /\ consumed = Len(raw_response)
      BY <1>2, <2>2 DEF Remaining
    <2>4. pair.len # U32_MAX /\ Len(data_record) < pair.len
      BY <2>2, <2>3 DEF WantsMore
    <2> QED
      BY <2>1, <2>3, <2>4
  <1> HIDE DEF start
  <1>6. ASSUME NEW to \in 0 .. Len(raw_response), Fits(pair, raw_response, start, to)
        PROVE  FALSE
    BY <1>2, <1>3, <1>4, <1>5, <1>6 DEF Fits
  <1>7. Return(Err("InvalidLength")) /\ ~ IsOk(Err("InvalidLength"))
    BY TupleResultTypes DEF DataMissing
  <1> QED
    BY <1>1, <1>2, <1>6, <1>7, ErrorKeepsInvariant DEF start

(***************************************************************************)
(* An identifier and its data are read.                                    *)
(***************************************************************************)
LEMMA StartIsNat ==
  ASSUME TypeOK, RecordsSoFar
  PROVE  starts[Len(data_records) + 1] \in Nat
  <1>1. Len(data_records) + 1 \in 1 .. Len(starts)
    BY TupleArguments DEF RecordsSoFar
  <1> QED
    BY <1>1, ElementOfSeq DEF TypeOK

LEMMA DidReadStep ==
  ASSUME TupleInvariant, DidRead
  PROVE  TupleInvariant'
  <1>1. TypeOK'
    BY TupleTypeStep DEF Next
  <1>2. /\ TypeOK /\ RecordsSoFar /\ ~ AllRead /\ pc = "did"
        /\ consumed = starts[Len(data_records) + 1]
        /\ consumed \in Nat
    BY TupleArguments DEF TupleInvariant, DidRead
  <1>3. RecordsSoFar'
    BY <1>2 DEF DidRead, arguments, RecordsSoFar
  <1>4. pair.len # U32_MAX => 0 <= pair.len
    BY <1>2, CurrentPair, TupleAssumption
  <1>5. DataSoFar'
    BY <1>2, <1>4 DEF DidRead, arguments, DataSoFar, AllRead, pair, response_did
  <1> QED
    BY <1>1, <1>3, <1>5 DEF DidRead, arguments, TupleInvariant, OkDividesMessage,
         ErrorMeansIndivisible

LEMMA DataReadStep ==
  ASSUME TupleInvariant, DataRead
  PROVE  TupleInvariant'
  <1> DEFINE start == starts[Len(data_records) + 1]
  <1>1. TypeOK'
    BY TupleTypeStep DEF Next
  <1>2. /\ TypeOK /\ RecordsSoFar /\ DataSoFar /\ ~ AllRead /\ pc = "data"
        /\ Len(data_record) \in Nat /\ consumed \in Nat /\ start \in Nat
        /\ pair.len \in Nat /\ U32_MAX \in Nat
    BY TupleArguments, StartIsNat, CurrentPair, TupleAssumption
       DEF TupleInvariant, DataRead, DataSoFar
  <1>3. RecordsSoFar'
    BY <1>2 DEF DataRead, arguments, RecordsSoFar
  <1>4. /\ consumed = start + 2 + Len(data_record)
        /\ \A j \in 1 .. Len(data_record) : data_record[j] = raw_response[start + 2 + j]
        /\ U16(raw_response[start + 1], raw_response[start + 2]) = pair.did
    BY <1>2 DEF DataSoFar
  <1>5. /\ data_record' = Append(data_record, raw_response[consumed + 1])
        /\ consumed' = consumed + 1
        /\ UNCHANGED <<pc, data_identifiers_and_lengths, raw_response, data_records,
                       starts, result>>
    BY DEF DataRead, arguments
  <1>6. start' = start /\ pair' = pair
    BY <1>5 DEF pair
  <1> HIDE DEF start
  <1>7. /\ Len(data_record') = Len(data_record) + 1
        /\ data_record'[Len(data_record) + 1] = raw_response[consumed + 1]
        /\ \A j \in 1 .. Len(data_record) : data_record'[j] = data_record[j]
    BY <1>2, <1>5, AppendProperties DEF TypeOK
  <1>8. \A j \in 1 .. Len(data_record') : data_record'[j] = raw_response'[start' + 2 + j]
    <2>1. SUFFICES ASSUME NEW j \in 1 .. Len(data_record')
                   PROVE  data_record'[j] = raw_response[start + 2 + j]
      BY <1>5, <1>6
    <2>2. CASE j \in 1 .. Len(data_record)
      BY <1>4, <1>7, <2>2
    <2>3. CASE j = Len(data_record) + 1
      <3>1. consumed + 1 = start + 2 + j
        BY <1>2, <1>4, <2>3
      <3> QED
        BY <1>7, <2>3, <3>1
    <2> QED
      BY <1>2, <1>7, <2>2, <2>3
  <1>9. pair.len # U32_MAX => Len(data_record') <= pair.len
    BY <1>2, <1>7 DEF DataRead, WantsMore
  <1>10. consumed' = start' + 2 + Len(data_record')
    BY <1>2, <1>4, <1>5, <1>6, <1>7
  <1>11. ~ AllRead'
    BY <1>2, <1>5 DEF AllRead
  <1>12. DataSoFar'
    BY <1>4, <1>5, <1>6, <1>8, <1>9, <1>10, <1>11 DEF DataSoFar, start
  <1> QED
    BY <1>1, <1>2, <1>3, <1>5, <1>12 DEF TupleInvariant, OkDividesMessage,
         ErrorMeansIndivisible

(***************************************************************************)
(* A record is complete: it ends where it ends in every division.          *)
(***************************************************************************)
LEMMA RecordFits ==
  ASSUME TupleInvariant, RecordRead
  PROVE  LET start  == starts[Len(data_records) + 1]
             record == [data_identifier |-> pair.did, data |-> data_record]
         IN  /\ Fits(pair, raw_response, start, consumed)
             /\ Holds(record, pair, raw_response, start, consumed)
             /\ \A to \in Nat : Fits(pair, raw_response, start, to) => to = consumed
  <1> DEFINE start == starts[Len(data_records) + 1]
             record == [data_identifier |-> pair.did, data |-> data_record]
  <1>1. /\ TypeOK /\ RecordsSoFar /\ DataSoFar /\ ~ AllRead
        /\ Len(data_record) \in Nat /\ consumed \in Nat /\ start \in Nat
        /\ Len(raw_response) \in Nat /\ consumed <= Len(raw_response)
        /\ pair.len \in Nat /\ U32_MAX \in Nat
    BY TupleArguments, StartIsNat, CurrentPair, TupleAssumption
       DEF TupleInvariant, RecordRead, DataSoFar, TypeOK
  <1>2. /\ consumed = start + 2 + Len(data_record)
        /\ \A j \in 1 .. Len(data_record) : data_record[j] = raw_response[start + 2 + j]
        /\ U16(raw_response[start + 1], raw_response[start + 2]) = pair.did
        /\ pair.len # U32_MAX => Len(data_record) <= pair.len
    BY <1>1 DEF DataSoFar
  <1>3. /\ pair.len = U32_MAX => consumed = Len(raw_response)
        /\ pair.len # U32_MAX => Len(data_record) = pair.len
    BY <1>1, <1>2 DEF RecordRead, WantsMore, Remaining
  <1>4. record.data_identifier = pair.did /\ record.data = data_record
    OBVIOUS
  <1> HIDE DEF start, record
  <1>5. Fits(pair, raw_response, start, consumed)
    BY <1>1, <1>2, <1>3 DEF Fits
  <1>6. Holds(record, pair, raw_response, start, consumed)
    BY <1>1, <1>2, <1>4 DEF Holds
  <1>7. ASSUME NEW to \in Nat, Fits(pair, raw_response, start, to) PROVE to = consumed
    BY <1>1, <1>2, <1>3, <1>7 DEF Fits
  <1> QED
    BY <1>5, <1>6, <1>7 DEF start, record

LEMMA RecordReadStep ==
  ASSUME TupleInvariant, RecordRead
  PROVE  TupleInvariant'
  <1> DEFINE m == Len(data_records)
             start == starts[m + 1]
             record == [data_identifier |-> pair.did, data |-> data_record]
             pairs == data_identifiers_and_lengths
  <1>1. TypeOK'
    BY TupleTypeStep DEF Next
  <1>2. /\ TypeOK /\ RecordsSoFar /\ ~ AllRead /\ m \in Nat /\ consumed \in Nat
        /\ m + 1 \in 1 .. Len(pairs) /\ Len(pairs) \in Nat
    BY TupleArguments, PairIsLeft DEF TupleInvariant, RecordRead, DataSoFar
  <1>3. /\ data_records' = Append(data_records, record)
        /\ starts' = Append(starts, consumed)
        /\ pc' = "did" /\ consumed' = consumed
        /\ UNCHANGED <<data_identifiers_and_lengths, raw_response>>
    BY DEF RecordRead, arguments
  <1>4. pair = pairs[m + 1]
    BY DEF pair
  <1>5. /\ Fits(pairs[m + 1], raw_response, start, consumed)
        /\ Holds(record, pairs[m + 1], raw_response, start, consumed)
        /\ \A to \in Nat : Fits(pairs[m + 1], raw_response, start, to) => to = consumed
    BY <1>4, RecordFits
  <1>6. Len(starts) = m + 1 /\ starts[1] = 1
    BY <1>2 DEF RecordsSoFar
  <1> HIDE DEF record
  <1>7. record \in DataRecord
    <2>1. pair.did \in DataIdentifier /\ data_record \in Seq(Byte)
      BY <1>2, CurrentPair DEF TypeOK
    <2> QED
      BY <2>1 DEF record, DataRecord
  <1>8. /\ Len(data_records') = m + 1 /\ data_records'[m + 1] = record
        /\ \A k \in 1 .. m : data_records'[k] = data_records[k]
    BY <1>2, <1>3, <1>7, AppendProperties DEF TypeOK
  <1>9. /\ Len(starts') = m + 2 /\ starts'[m + 2] = consumed
        /\ \A k \in 1 .. m + 1 : starts'[k] = starts[k]
    BY <1>2, <1>3, <1>6, AppendProperties DEF TypeOK
  <1>10. ASSUME NEW k \in 1 .. m + 1
         PROVE  /\ Fits(pairs[k], raw_response, starts'[k], starts'[k + 1])
                /\ Holds(data_records'[k], pairs[k], raw_response, starts'[k], starts'[k + 1])
    <2>1. CASE k = m + 1
      <3>1. k + 1 = m + 2 /\ starts'[k] = start /\ starts'[k + 1] = consumed
        BY <1>2, <1>9, <2>1
      <3> QED
        BY <1>5, <1>8, <2>1, <3>1
    <2>2. CASE k \in 1 .. m
      <3>1. k + 1 \in 1 .. m + 1 /\ k \in 1 .. m + 1
        BY <1>2, <2>2
      <3>2. starts'[k] = starts[k] /\ starts'[k + 1] = starts[k + 1]
        BY <1>9, <3>1
      <3>3. data_records'[k] = data_records[k]
        BY <1>8, <2>2
      <3>4. /\ Fits(pairs[k], raw_response, starts[k], starts[k + 1])
            /\ Holds(data_records[k], pairs[k], raw_response, starts[k], starts[k + 1])
        BY <1>2, <2>2 DEF RecordsSoFar
      <3> QED
        BY <3>2, <3>3, <3>4
    <2> QED
      BY <1>2, <2>1, <2>2
  <1>11. ASSUME NEW at \in Divisions(pairs, raw_response)
         PROVE  \A k \in 1 .. m + 2 : at[k] = starts'[k]
    <2>1. /\ at[m + 1] = start /\ at[m + 2] \in 0 .. Len(raw_response)
          /\ Fits(pairs[m + 1], raw_response, at[m + 1], at[m + 2])
      BY <1>2, <1>4, NextInDivision
    <2>2. at[m + 2] \in Nat
      BY <2>1, <1>2, TupleArguments
    <2>3. at[m + 2] = starts'[m + 2]
      BY <1>5, <1>9, <2>1, <2>2
    <2>4. \A k \in 1 .. m + 1 : at[k] = starts[k]
      BY <1>2 DEF RecordsSoFar
    <2> QED
      BY <1>2, <1>9, <2>3, <2>4
  <1>12. starts'[1] = 1
    BY <1>2, <1>6, <1>9
  <1>13. (m + 1) + 1 = m + 2 /\ m + 1 <= Len(pairs)
    BY <1>2
  <1>14. RecordsSoFar'
    <2>1. /\ Len(data_records') <= Len(data_identifiers_and_lengths')
          /\ Len(starts') = Len(data_records') + 1
      BY <1>3, <1>8, <1>9, <1>13
    <2>2. \A k \in 1 .. Len(data_records') :
            /\ Fits(data_identifiers_and_lengths'[k], raw_response', starts'[k], starts'[k + 1])
            /\ Holds(data_records'[k], data_identifiers_and_lengths'[k], raw_response',
                     starts'[k], starts'[k + 1])
      BY <1>3, <1>8, <1>10
    <2>3. \A at \in Divisions(data_identifiers_and_lengths', raw_response') :
            \A k \in 1 .. Len(data_records') + 1 : at[k] = starts'[k]
      <3>1. Len(data_records') + 1 = m + 2
        BY <1>8, <1>13
      <3>2. \A at \in Divisions(pairs, raw_response) : \A k \in 1 .. m + 2 : at[k] = starts'[k]
        BY <1>11
      <3> QED
        BY <1>3, <3>1, <3>2
    <2> QED
      BY <1>12, <2>1, <2>2, <2>3 DEF RecordsSoFar
  <1>15. consumed' = starts'[Len(data_records') + 1]
    BY <1>3, <1>8, <1>9, <1>13
  <1> QED
    BY <1>1, <1>3, <1>14, <1>15 DEF TupleInvariant, OkDividesMessage, ErrorMeansIndivisible

(***************************************************************************)
(* The theorems.                                                           *)
(***************************************************************************)
LEMMA TupleInit == Init => TupleInvariant
  BY TupleAssumption
     DEF Init, TupleInvariant, TypeOK, OkDividesMessage, ErrorMeansIndivisible,
         NoResult, Result, NoResultTags

LEMMA TupleStep == TupleInvariant /\ [Next]_vars => TupleInvariant'
  <1> SUFFICES ASSUME TupleInvariant, [Next]_vars PROVE TupleInvariant'
    OBVIOUS
  <1>1. CASE SidMissing \/ SidWrong \/ SidRead
    BY <1>1, SidStep
  <1>2. CASE Finished
    BY <1>2, FinishedStep
  <1>3. CASE DidMissing \/ DidWrong
    BY <1>3, DidErrorStep
  <1>4. CASE DidRead
    BY <1>4, DidReadStep
  <1>5. CASE DataRead
    BY <1>5, DataReadStep
  <1>6. CASE DataMissing
    BY <1>6, DataErrorStep
  <1>7. CASE RecordRead
    BY <1>7, RecordReadStep
  <1>8. CASE UNCHANGED vars
    BY <1>8 DEF vars, arguments, TupleInvariant, TypeOK, RecordsSoFar, DataSoFar, AllRead,
         pair, OkDividesMessage, ErrorMeansIndivisible
  <1> QED
    BY <1>1, <1>2, <1>3, <1>4, <1>5, <1>6, <1>7, <1>8 DEF Next

\* The loop invariant holds in every state of the parser, for every list of pairs
\* and every message.
THEOREM TupleCorrect == Spec => []TupleInvariant
  BY TupleInit, TupleStep, PTL DEF Spec

\* An Ok of the tuple parser divides the message among the identifiers asked for.
THEOREM OkDivides == Spec => []OkDividesMessage
  <1>1. TupleInvariant => OkDividesMessage
    BY DEF TupleInvariant
  <1> QED
    BY TupleCorrect, <1>1, PTL

\* It reports an error only for a message that cannot be divided among them.
THEOREM ErrorsAreJustified == Spec => []ErrorMeansIndivisible
  <1>1. TupleInvariant => ErrorMeansIndivisible
    BY DEF TupleInvariant
  <1> QED
    BY TupleCorrect, <1>1, PTL

(***************************************************************************)
(* One identifier with all the data that is left.                          *)
(***************************************************************************)
\* Past the service identifier the message has one, and it is the expected one.
SidSeen == pc \in {"did", "data"} => raw_response # <<>> /\ raw_response[1] = Expected

LEMMA SidSeenStep == SidSeen /\ [Next]_vars => SidSeen'
  BY DEF SidSeen, Next, vars, arguments, Return, SidMissing, SidWrong, SidRead, Finished,
     DidMissing, DidWrong, DidRead, DataRead, DataMissing, RecordRead

IsSingle ==
  /\ Len(data_identifiers_and_lengths) = 1
  /\ data_identifiers_and_lengths[1].len = U32_MAX

SingleRead ==
  parse_single_data_by_identifier_response(data_identifiers_and_lengths[1].did, raw_response)

\* A step that returns an error agrees if the single read returns the same one.
LEMMA SingleReadError ==
  ASSUME NEW r, Return(r), ~ IsOk(r), IsSingle => r = SingleRead
  PROVE  SingleReadAgrees'
  BY DEF Return, arguments, SingleReadAgrees, IsSingle, SingleRead

LEMMA SingleReadSid ==
  ASSUME TupleInvariant, SidMissing \/ SidWrong
  PROVE  SingleReadAgrees'
  <1>1. CASE SidMissing
    <2>1. SingleRead = Err("InvalidLength")
      BY <1>1 DEF SidMissing, SingleRead, parse_single_data_by_identifier_response
    <2> QED
      BY <1>1, <2>1, TupleResultTypes, SingleReadError DEF SidMissing
  <1>2. CASE SidWrong
    <2>1. SingleRead = SidMismatch(Expected, raw_response[1])
      BY <1>2 DEF SidWrong, SingleRead, parse_single_data_by_identifier_response, WithSid, Expected
    <2>2. ~ IsOk(SidMismatch(Expected, raw_response[1]))
      BY DEF IsOk, SidMismatch, OkTags
    <2> QED
      BY <1>2, <2>1, <2>2, SingleReadError DEF SidWrong
  <1> QED
    BY <1>1, <1>2

\* While the first pair is read the message stands behind its first byte.
LEMMA FirstPair ==
  ASSUME TupleInvariant, SidSeen, IsSingle, pc \in {"did", "data"}, ~ AllRead
  PROVE  /\ pair = data_identifiers_and_lengths[1] /\ starts[Len(data_records) + 1] = 1
         /\ Len(raw_response) \in Nat /\ raw_response # <<>> /\ raw_response[1] = Expected
  <1>1. TypeOK /\ RecordsSoFar /\ Len(data_records) \in Nat /\ Len(raw_response) \in Nat
    BY TupleArguments DEF TupleInvariant
  <1>2. Len(data_records) = 0
    <2>1. Len(data_records) <= Len(data_identifiers_and_lengths)
      BY <1>1 DEF RecordsSoFar
    <2>2. Len(data_records) # 1 /\ Len(data_identifiers_and_lengths) = 1
      BY DEF IsSingle, AllRead
    <2> QED
      BY <1>1, <2>1, <2>2
  <1> QED
    BY <1>1, <1>2 DEF pair, RecordsSoFar, SidSeen

LEMMA SingleReadDid ==
  ASSUME TupleInvariant, SidSeen, DidMissing \/ DidWrong
  PROVE  SingleReadAgrees'
  <1>1. CASE DidMissing
    <2>1. ASSUME IsSingle PROVE SingleRead = Err("InvalidLength")
      <3>1. consumed = 1 /\ Len(raw_response) < 3 /\ Len(raw_response) \in Nat
            /\ raw_response # <<>> /\ raw_response[1] = Expected
        BY <1>1, <2>1, FirstPair DEF DidMissing, Remaining, TupleInvariant
      <3> QED
        BY <3>1 DEF SingleRead, parse_single_data_by_identifier_response, WithSid, Expected
    <2> QED
      BY <1>1, <2>1, TupleResultTypes, SingleReadError DEF DidMissing
  <1>2. CASE DidWrong
    <2> DEFINE r == DidMismatch(pair.did, response_did)
    <2>1. ASSUME IsSingle PROVE SingleRead = r
      <3>1. /\ consumed = 1 /\ Len(raw_response) >= 3 /\ Len(raw_response) \in Nat
            /\ raw_response # <<>> /\ raw_response[1] = Expected
            /\ pair = data_identifiers_and_lengths[1]
            /\ pair.did # response_did
        BY <1>2, <2>1, FirstPair DEF DidWrong, Remaining, TupleInvariant
      <3>2. response_did = U16(raw_response[2], raw_response[3])
        BY <3>1 DEF response_did
      <3>3. ~ (Len(raw_response) < 3)
        BY <3>1
      <3> QED
        BY <3>1, <3>2, <3>3 DEF SingleRead, parse_single_data_by_identifier_response, WithSid, Expected
    <2>2. Return(r) /\ ~ IsOk(r)
      BY <1>2 DEF DidWrong, IsOk, DidMismatch, OkTags
    <2> HIDE DEF r
    <2> QED
      BY <2>1, <2>2, SingleReadError
  <1> QED
    BY <1>1, <1>2

LEMMA SingleReadData ==
  ASSUME TupleInvariant, SidSeen, DataMissing
  PROVE  SingleReadAgrees'
  <1>1. ~ IsSingle
    <2>1. SUFFICES ASSUME IsSingle PROVE FALSE
      OBVIOUS
    <2>2. pair = data_identifiers_and_lengths[1]
      BY <2>1, FirstPair DEF TupleInvariant, DataMissing, DataSoFar
    <2> QED
      BY <2>1, <2>2 DEF DataMissing, WantsMore, IsSingle
  <1> QED
    BY <1>1, TupleResultTypes, SingleReadError DEF DataMissing

\* Bytes that are the message's from its fourth on are that part of it.
LEMMA RestOfMessage ==
  ASSUME NEW raw \in Seq(Byte), NEW data \in Seq(Byte), Len(raw) >= 3,
         Len(data) = Len(raw) - 3, \A j \in 1 .. Len(data) : data[j] = raw[3 + j]
  PROVE  data = SubSeq(raw, 4, Len(raw))
  <1> DEFINE rest == SubSeq(raw, 4, Len(raw))
  <1>1. Len(raw) \in Nat /\ Len(data) \in Nat
    BY LenProperties
  <1>2. \A i \in 4 .. Len(raw) : raw[i] \in Byte
    BY <1>1, ElementOfSeq
  <1>3. /\ rest \in Seq(Byte)
        /\ Len(rest) = IF 4 <= Len(raw) THEN Len(raw) - 4 + 1 ELSE 0
        /\ \A j \in 1 .. Len(raw) - 4 + 1 : rest[j] = raw[4 + j - 1]
    BY <1>1, <1>2, SubSeqProperties
  <1> HIDE DEF rest
  <1>4. Len(rest) = Len(data)
    BY <1>1, <1>3
  <1>5. \A j \in 1 .. Len(data) : data[j] = rest[j]
    <2>1. ASSUME NEW j \in 1 .. Len(data) PROVE data[j] = rest[j]
      <3>1. j \in 1 .. Len(raw) - 4 + 1 /\ 4 + j - 1 = 3 + j
        BY <1>1
      <3> QED
        BY <1>3, <3>1
    <2> QED
      BY <2>1
  <1>6. data = rest
    BY <1>3, <1>4, <1>5, SeqEqual
  <1> QED
    BY <1>6 DEF rest

LEMMA SingleReadFinished ==
  ASSUME TupleInvariant, SidSeen, Finished
  PROVE  SingleReadAgrees'
  <1> DEFINE did    == data_identifiers_and_lengths[1].did
             record == data_records[1]
  <1>1. /\ Return(Parsed(<<>>)) /\ pc = "did" /\ AllRead
        /\ TypeOK /\ RecordsSoFar /\ raw_response \in Seq(Byte) /\ Len(raw_response) \in Nat
        /\ raw_response # <<>> /\ raw_response[1] = Expected
    BY TupleArguments DEF Finished, TupleInvariant, SidSeen
  <1>2. SUFFICES ASSUME IsSingle PROVE SingleRead = Parsed(<<did>> \o record.data)
    BY <1>1, TupleResultTypes DEF Return, arguments, SingleReadAgrees, IsSingle, SingleRead
  <1>3. Len(data_records) = 1 /\ starts[1] = 1 /\ starts[2] \in Nat
    <2>1. Len(data_records) = 1
      BY <1>1, <1>2 DEF AllRead, IsSingle
    <2>2. Len(starts) = 2
      BY <1>1, <2>1 DEF RecordsSoFar
    <2>3. starts \in Seq(Nat) /\ 2 \in 1 .. Len(starts)
      BY <1>1, <2>2 DEF TypeOK
    <2>4. starts[2] \in Nat
      BY <2>3, ElementOfSeq
    <2>5. starts[1] = 1
      BY <1>1 DEF RecordsSoFar
    <2> QED
      BY <2>1, <2>4, <2>5
  <1>4. /\ Fits(data_identifiers_and_lengths[1], raw_response, 1, starts[2])
        /\ Holds(record, data_identifiers_and_lengths[1], raw_response, 1, starts[2])
    BY <1>1, <1>3 DEF RecordsSoFar
  <1>5. /\ Len(raw_response) >= 3 /\ starts[2] = Len(raw_response)
        /\ U16(raw_response[2], raw_response[3]) = did
    BY <1>1, <1>2, <1>3, <1>4 DEF Fits, IsSingle
  <1>6. /\ Len(record.data) = Len(raw_response) - 3
        /\ \A j \in 1 .. Len(record.data) : record.data[j] = raw_response[3 + j]
    BY <1>1, <1>3, <1>4, <1>5 DEF Holds
  <1>7. record.data \in Seq(Byte)
    <2>1. record \in DataRecord
      <3>1. data_records \in Seq(DataRecord) /\ 1 \in 1 .. Len(data_records)
        BY <1>1, <1>3 DEF TypeOK
      <3> QED
        BY <3>1, ElementOfSeq
    <2> QED
      BY <2>1 DEF DataRecord
  <1>8. record.data = SubSeq(raw_response, 4, Len(raw_response))
    BY <1>1, <1>5, <1>6, <1>7, RestOfMessage
  <1>9. ~ (Len(raw_response) < 3)
    BY <1>1, <1>5
  <1> QED
    BY <1>1, <1>5, <1>8, <1>9
       DEF SingleRead, parse_single_data_by_identifier_response, WithSid, Expected

LEMMA SingleReadStep ==
  TupleInvariant /\ SidSeen /\ SingleReadAgrees /\ [Next]_vars => SingleReadAgrees'
  <1> SUFFICES ASSUME TupleInvariant, SidSeen, SingleReadAgrees, [Next]_vars
               PROVE  SingleReadAgrees'
    OBVIOUS
  <1>1. CASE SidRead \/ DidRead \/ DataRead \/ RecordRead
    BY <1>1 DEF SidRead, DidRead, DataRead, RecordRead, SingleReadAgrees
  <1>2. CASE UNCHANGED vars
    BY <1>2 DEF vars, arguments, SingleReadAgrees
  <1> QED
    BY <1>1, <1>2, SingleReadSid, SingleReadDid, SingleReadData, SingleReadFinished DEF Next

\* Asked for one identifier with all the data that is left, the loop computes what
\* the client's model takes for it.
THEOREM SingleReadsAgree == Spec => []SingleReadAgrees
  <1>1. Init => SidSeen /\ SingleReadAgrees
    BY DEF Init, SidSeen, SingleReadAgrees
  <1> QED
    BY TupleInit, TupleStep, SidSeenStep, SingleReadStep, <1>1, PTL DEF Spec

(***************************************************************************)
(* parse_report_dtcs.                                                      *)
(***************************************************************************)
LEMMA ReportArguments ==
  ASSUME ReportTypeOK
  PROVE  /\ raw_report \in Seq(Byte) /\ Len(raw_report) \in Nat /\ report_consumed \in Nat
         /\ \A k \in 1 .. Len(raw_report) : raw_report[k] \in Nat
  <1>1. raw_report \in Seq(Byte)
    BY ReportAssumption DEF ReportTypeOK
  <1>2. Len(raw_report) \in Nat
    BY <1>1, LenProperties
  <1>3. \A b \in Byte : b \in Nat
    BY DEF Byte
  <1> QED
    BY <1>1, <1>2, <1>3, ElementOfSeq DEF ReportTypeOK

LEMMA ReportResultTypes ==
  /\ \A e \in ErrTags : Err(e) \in Result
  /\ \A a, b \in Nat : SidMismatch(a, b) \in Result
  /\ \A body \in Seq(Nat) : Parsed(body) \in Result
  BY DEF Err, Parsed, SidMismatch, Result, OkTags, ErrTags, NoResultTags

LEMMA ReportReturnTypes ==
  ASSUME ReportTypeOK, NEW r \in Result, ReturnReport(r)
  PROVE  ReportTypeOK'
  BY DEF ReturnReport, ReportTypeOK

\* What the parser returns before it has seen a record.
LEMMA HeaderStep ==
  ASSUME ReportInvariant,
         ReportSidMissing \/ ReportSidWrong \/ ReportSidRead \/ HeaderMissing \/ HeaderRead
  PROVE  ReportInvariant'
  <1>1. /\ ReportTypeOK /\ Len(raw_report) \in Nat /\ report_consumed \in Nat
        /\ \A k \in 1 .. Len(raw_report) : raw_report[k] \in Nat
        /\ raw_report # <<>> => Len(raw_report) >= 1
    BY ReportArguments, LenProperties DEF ReportInvariant
  <1>2. CASE ReportSidMissing
    <2>1. parse_report_dtcs(raw_report) = Err("ResponseEmpty")
      BY <1>2 DEF ReportSidMissing, parse_report_dtcs, WithSid
    <2>2. ReportTypeOK'
      BY <1>1, <1>2, ReportResultTypes, ReportReturnTypes DEF ReportSidMissing, ErrTags
    <2> QED
      BY <1>2, <2>1, <2>2 DEF ReportSidMissing, ReturnReport, ReportInvariant, LoopComputesReport
  <1>3. CASE ReportSidWrong
    <2>1. parse_report_dtcs(raw_report) = SidMismatch(ReportExpected, raw_report[1])
      BY <1>3 DEF ReportSidWrong, parse_report_dtcs, WithSid, ReportExpected
    <2>2. ReportExpected \in Nat /\ raw_report[1] \in Nat
      BY <1>1, <1>3 DEF ReportSidWrong, ReportExpected, READ_DTC_INFORMATION_SID, SEND_RECEIVE_SID_OFFSET
    <2>3. ReportTypeOK'
      BY <1>1, <1>3, <2>2, ReportResultTypes, ReportReturnTypes DEF ReportSidWrong
    <2> QED
      BY <1>3, <2>1, <2>3 DEF ReportSidWrong, ReturnReport, ReportInvariant, LoopComputesReport
  <1>4. CASE ReportSidRead
    BY <1>1, <1>4 DEF ReportSidRead, ReportTypeOK, ReportInvariant, LoopComputesReport, ReportExpected
  <1>5. CASE HeaderMissing
    <2>1. Len(raw_report) < 3 /\ raw_report # <<>> /\ raw_report[1] = ReportExpected
      BY <1>1, <1>5 DEF HeaderMissing, ReportInvariant, ReportRemaining
    <2>2. parse_report_dtcs(raw_report) = Err("InvalidLength")
      BY <2>1 DEF parse_report_dtcs, WithSid, ReportExpected
    <2>3. ReportTypeOK'
      BY <1>1, <1>5, ReportResultTypes, ReportReturnTypes DEF HeaderMissing, ErrTags
    <2> QED
      BY <1>5, <2>2, <2>3 DEF HeaderMissing, ReturnReport, ReportInvariant, LoopComputesReport
  <1>6. CASE HeaderRead
    <2>1. /\ report_consumed = 1 /\ report_consumed' = 3 /\ Len(raw_report) >= 3
          /\ raw_report # <<>> /\ raw_report[1] = ReportExpected /\ report_pc' = "records"
          /\ dtc_and_status_records = <<>>
          /\ UNCHANGED <<raw_report, dtc_and_status_records, report_result>>
      BY <1>1, <1>6 DEF HeaderRead, ReportInvariant, ReportRemaining
    <2>2. ReportTypeOK'
      BY <1>1, <2>1 DEF ReportTypeOK
    <2>3. ReadSoFar(raw_report, 0, <<>>)'
      BY <2>1 DEF ReadSoFar, ListsFirst
    <2> QED
      BY <1>1, <2>1, <2>2, <2>3 DEF ReportInvariant, LoopComputesReport
  <1> QED
    BY <1>2, <1>3, <1>4, <1>5, <1>6

(***************************************************************************)
(* One more record.                                                        *)
(***************************************************************************)
LEMMA TwoMore ==
  ASSUME NEW raw, NEW n \in Nat, NEW records \in Seq(Nat), NEW a \in Nat, NEW b \in Nat,
         ListsFirst(raw, n, records),
         a = Field(raw, 2 * n + 1), b = Field(raw, 2 * n + 2)
  PROVE  ListsFirst(raw, n + 1, records \o <<a, b>>)
  <1> DEFINE more == records \o <<a, b>>
  <1>1. Len(records) = 2 * n
    <2>1. DOMAIN records = 1 .. 2 * n /\ 2 * n \in Nat
      BY DEF ListsFirst
    <2> QED
      BY <2>1, LenProperties
  <1>2. /\ <<a, b>> \in Seq(Nat) /\ Len(<<a, b>>) = 2
        /\ <<a, b>>[1] = a /\ <<a, b>>[2] = b
    OBVIOUS
  <1>3. /\ more \in Seq(Nat) /\ Len(more) = 2 * n + 2
        /\ \A i \in 1 .. 2 * n + 2 :
             more[i] = IF i <= 2 * n THEN records[i] ELSE <<a, b>>[i - 2 * n]
    BY <1>1, <1>2, ConcatProperties
  <1> HIDE DEF more
  <1>4. \A i \in 1 .. 2 * n + 2 : more[i] = Field(raw, i)
    <2>1. TAKE i \in 1 .. 2 * n + 2
    <2>2. CASE i <= 2 * n
      <3>1. i \in 1 .. 2 * n
        BY <2>2
      <3> QED
        BY <1>3, <2>2, <3>1 DEF ListsFirst
    <2>3. CASE i = 2 * n + 1
      BY <1>2, <1>3, <2>3
    <2>4. CASE i = 2 * n + 2
      BY <1>2, <1>3, <2>4
    <2> QED
      BY <2>2, <2>3, <2>4
  <1>5. more = [i \in 1 .. 2 * n + 2 |-> more[i]]
    BY <1>3, LenProperties
  <1>6. 2 * (n + 1) = 2 * n + 2
    OBVIOUS
  <1> QED
    BY <1>4, <1>5, <1>6 DEF more, ListsFirst

LEMMA RecordStep ==
  ASSUME ReportInvariant, DtcRead
  PROVE  ReportInvariant'
  <1>1. /\ ReportTypeOK /\ Len(raw_report) \in Nat /\ report_consumed \in Nat
        /\ \A k \in 1 .. Len(raw_report) : raw_report[k] \in Nat
    BY ReportArguments DEF ReportInvariant
  <1>2. PICK n \in 0 .. Len(raw_report) : ReadSoFar(raw_report, n, dtc_and_status_records)
    BY DEF ReportInvariant, DtcRead
  <1> DEFINE a == U24(raw_report[report_consumed + 1], raw_report[report_consumed + 2],
                      raw_report[report_consumed + 3])
             b == raw_report[report_consumed + 4]
  <1>3. /\ report_pc = "records" /\ report_pc' = "records" /\ report_consumed' = report_consumed + 4
        /\ dtc_and_status_records' = dtc_and_status_records \o <<a, b>>
        /\ UNCHANGED <<raw_report, report_result>>
        /\ report_consumed + 4 <= Len(raw_report)
    BY <1>1 DEF DtcRead, ReportRemaining
  <1>4. a \in Nat /\ b \in Nat
    <2>1. /\ report_consumed + 1 \in 1 .. Len(raw_report) /\ report_consumed + 2 \in 1 .. Len(raw_report)
          /\ report_consumed + 3 \in 1 .. Len(raw_report) /\ report_consumed + 4 \in 1 .. Len(raw_report)
      BY <1>1, <1>3
    <2>2. \A x, y, z \in Nat : U24(x, y, z) \in Nat
      BY DEF U24
    <2> QED
      BY <1>1, <2>1, <2>2
  <1>5. n \in Nat /\ report_consumed = 3 + 4 * n
    BY <1>1, <1>2 DEF ReadSoFar
  <1>6. a = Field(raw_report, 2 * n + 1)
    <2>1. ((2 * n + 1) - 1) \div 2 = n /\ (2 * n + 1) % 2 = 1
      BY <1>5
    <2>2. /\ report_consumed + 1 = 3 + 4 * n + 1 /\ report_consumed + 2 = 3 + 4 * n + 2
          /\ report_consumed + 3 = 3 + 4 * n + 3
      BY <1>5
    <2> QED
      BY <2>1, <2>2 DEF Field
  <1>7. b = Field(raw_report, 2 * n + 2)
    <2>1. ((2 * n + 2) - 1) \div 2 = n /\ (2 * n + 2) % 2 = 0
      BY <1>5
    <2> QED
      BY <1>5, <2>1 DEF Field
  <1> HIDE DEF a, b
  <1>8. ListsFirst(raw_report, n + 1, dtc_and_status_records')
    <2>1. ListsFirst(raw_report, n, dtc_and_status_records)
      BY <1>2 DEF ReadSoFar
    <2>2. dtc_and_status_records \in Seq(Nat)
      BY <1>1 DEF ReportTypeOK
    <2> QED
      BY <1>3, <1>4, <1>5, <1>6, <1>7, <2>1, <2>2, TwoMore
  <1>9. report_consumed' = 3 + 4 * (n + 1) /\ n + 1 \in 0 .. Len(raw_report)
    BY <1>1, <1>3, <1>5
  <1>10. ReadSoFar(raw_report, n + 1, dtc_and_status_records)'
    BY <1>3, <1>8, <1>9 DEF ReadSoFar
  <1>11. ReportTypeOK'
    <2>1. dtc_and_status_records' \in Seq(Nat)
      BY <1>1, <1>3, <1>4, ConcatProperties DEF ReportTypeOK
    <2>2. report_consumed' \in 0 .. Len(raw_report)
      BY <1>1, <1>3
    <2> QED
      BY <1>1, <1>3, <2>1, <2>2 DEF ReportTypeOK
  <1> QED
    BY <1>1, <1>3, <1>9, <1>10, <1>11 DEF ReportInvariant, LoopComputesReport

(***************************************************************************)
(* The message ends, between two records or within one.                    *)
(***************************************************************************)
LEMMA CutOffStep ==
  ASSUME ReportInvariant, DtcCutOff
  PROVE  ReportInvariant'
  <1>1. /\ ReportTypeOK /\ Len(raw_report) \in Nat /\ report_consumed \in Nat
        /\ raw_report # <<>> /\ raw_report[1] = ReportExpected
    BY ReportArguments DEF ReportInvariant, DtcCutOff
  <1>2. PICK n \in 0 .. Len(raw_report) : ReadSoFar(raw_report, n, dtc_and_status_records)
    BY DEF ReportInvariant, DtcCutOff
  <1>3. n \in Nat /\ report_consumed = 3 + 4 * n /\ report_consumed <= Len(raw_report)
    BY <1>1, <1>2 DEF ReadSoFar, ReportTypeOK
  <1>4. Len(raw_report) - 3 > 4 * n /\ Len(raw_report) - 3 < 4 * n + 4
    BY <1>1, <1>3 DEF DtcCutOff, ReportAllRead, ReportRemaining
  <1>5. (Len(raw_report) - 3) % 4 # 0
    BY <1>1, <1>3, <1>4
  <1>6. parse_report_dtcs(raw_report) = Err("InvalidLength")
    BY <1>1, <1>5 DEF parse_report_dtcs, WithSid, ReportExpected
  <1>7. ReportTypeOK'
    BY <1>1, ReportResultTypes, ReportReturnTypes DEF DtcCutOff, ErrTags
  <1> QED
    BY <1>6, <1>7 DEF DtcCutOff, ReturnReport, ReportInvariant, LoopComputesReport

LEMMA EndStep ==
  ASSUME ReportInvariant, UnknownReport \/ OtherReport \/ ReportFinished
  PROVE  ReportInvariant'
  <1>1. /\ ReportTypeOK /\ Len(raw_report) \in Nat /\ report_consumed \in Nat
        /\ \A k \in 1 .. Len(raw_report) : raw_report[k] \in Nat
        /\ raw_report # <<>> /\ raw_report[1] = ReportExpected
        /\ report_pc = "records" /\ ReportAllRead
    BY ReportArguments DEF ReportInvariant, UnknownReport, OtherReport, ReportFinished
  <1>2. PICK n \in 0 .. Len(raw_report) : ReadSoFar(raw_report, n, dtc_and_status_records)
    BY <1>1 DEF ReportInvariant
  <1>3. n \in Nat /\ Len(raw_report) = 3 + 4 * n
    BY <1>1, <1>2 DEF ReadSoFar, ReportAllRead, ReportRemaining
  <1>4. /\ ~ (Len(raw_report) < 3) /\ (Len(raw_report) - 3) % 4 = 0
        /\ (Len(raw_report) - 3) \div 4 = n
    BY <1>3
  <1>5. DtcRecords(raw_report) = dtc_and_status_records
    BY <1>2, <1>4 DEF DtcRecords, NumberOfDtcs, ReadSoFar, ListsFirst, Field
  <1>6. CASE UnknownReport
    <2>1. parse_report_dtcs(raw_report) = Err("ResponseIncorrect")
      BY <1>1, <1>4, <1>6 DEF UnknownReport, report_type, parse_report_dtcs, WithSid, ReportExpected
    <2>2. ReportTypeOK'
      BY <1>1, <1>6, ReportResultTypes, ReportReturnTypes DEF UnknownReport, ErrTags
    <2> QED
      BY <1>6, <2>1, <2>2 DEF UnknownReport, ReturnReport, ReportInvariant, LoopComputesReport
  <1>7. CASE OtherReport
    <2>1. parse_report_dtcs(raw_report) = Err("InvalidArgument")
      BY <1>1, <1>4, <1>7 DEF OtherReport, report_type, parse_report_dtcs, WithSid, ReportExpected
    <2>2. ReportTypeOK'
      BY <1>1, <1>7, ReportResultTypes, ReportReturnTypes DEF OtherReport, ErrTags
    <2> QED
      BY <1>7, <2>1, <2>2 DEF OtherReport, ReturnReport, ReportInvariant, LoopComputesReport
  <1>8. CASE ReportFinished
    <2> DEFINE body == <<report_type, dtc_status_availability_mask>> \o dtc_and_status_records
    <2>1. parse_report_dtcs(raw_report) = Parsed(body)
      BY <1>1, <1>4, <1>5, <1>8 DEF ReportFinished, report_type, dtc_status_availability_mask,
           parse_report_dtcs, WithSid, ReportExpected
    <2>2. body \in Seq(Nat)
      <3>1. 2 \in 1 .. Len(raw_report) /\ 3 \in 1 .. Len(raw_report)
        BY <1>1, <1>4
      <3>2. <<report_type, dtc_status_availability_mask>> \in Seq(Nat)
        BY <1>1, <3>1 DEF report_type, dtc_status_availability_mask
      <3> QED
        BY <1>1, <3>2, ConcatProperties DEF ReportTypeOK
    <2> HIDE DEF body
    <2>3. ReturnReport(Parsed(body))
      BY <1>8 DEF ReportFinished, body
    <2>4. ReportTypeOK'
      BY <1>1, <2>2, <2>3, ReportResultTypes, ReportReturnTypes
    <2> QED
      BY <2>1, <2>3, <2>4 DEF ReturnReport, ReportInvariant, LoopComputesReport
  <1> QED
    BY <1>6, <1>7, <1>8

(***************************************************************************)
(* The theorems.                                                           *)
(***************************************************************************)
LEMMA ReportStarts == ReportInit => ReportInvariant
  BY ReportAssumption
     DEF ReportInit, ReportInvariant, ReportTypeOK, LoopComputesReport, NoResult, Result, NoResultTags

LEMMA ReportStep == ReportInvariant /\ [ReportNext]_reportVars => ReportInvariant'
  <1> SUFFICES ASSUME ReportInvariant, [ReportNext]_reportVars PROVE ReportInvariant'
    OBVIOUS
  <1>1. CASE ReportSidMissing \/ ReportSidWrong \/ ReportSidRead \/ HeaderMissing \/ HeaderRead
    BY <1>1, HeaderStep
  <1>2. CASE DtcRead
    BY <1>2, RecordStep
  <1>3. CASE DtcCutOff
    BY <1>3, CutOffStep
  <1>4. CASE UnknownReport \/ OtherReport \/ ReportFinished
    BY <1>4, EndStep
  <1>5. CASE UNCHANGED reportVars
    BY <1>5 DEF reportVars, ReportInvariant, ReportTypeOK, ReadSoFar, LoopComputesReport
  <1> QED
    BY <1>1, <1>2, <1>3, <1>4, <1>5 DEF ReportNext

\* The loop invariant holds in every state of the parser, for every message.
THEOREM ReportCorrect == ReportSpec => []ReportInvariant
  BY ReportStarts, ReportStep, PTL DEF ReportSpec

\* The loop returns what the model of the client takes for it.
THEOREM ClosedFormIsTheLoop == ReportSpec => []LoopComputesReport
  <1>1. ReportInvariant => LoopComputesReport
    BY DEF ReportInvariant
  <1> QED
    BY ReportCorrect, <1>1, PTL

=============================================================================
