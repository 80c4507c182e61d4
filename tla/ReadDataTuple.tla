----------------------------- MODULE ReadDataTuple ----------------------------
(***************************************************************************)
(* parse_read_data_by_identifier_tuple_response: the response to a read of *)
(* several data identifiers carries no lengths, so the caller says how     *)
(* long the data of each identifier is, or u32::MAX for all that is left.  *)
(***************************************************************************)
EXTENDS UdsServices

CONSTANTS
  U32_MAX,
  Asked,      \* the lists of (did, len) that callers pass
  Messages    \* the responses they get

DataIdentifier == 0 .. 65535
Pair == [did : DataIdentifier, len : 0 .. U32_MAX]

ASSUME TupleAssumption ==
  /\ U32_MAX \in Nat
  /\ Asked \subseteq Seq(Pair)
  /\ Messages \subseteq Seq(Byte)

VARIABLES
  data_identifiers_and_lengths, raw_response,   \* the arguments
  pc,
  consumed,       \* bytes response_iterator has handed out
  data_record,    \* the data of the record being read
  data_records,
  result,
  starts          \* history: bytes before each record, and after the last one

arguments == <<data_identifiers_and_lengths, raw_response>>
vars == <<arguments, pc, consumed, data_record, data_records, result, starts>>

DataRecord == [data_identifier : DataIdentifier, data : Seq(Byte)]

Remaining == Len(raw_response) - consumed
pair      == data_identifiers_and_lengths[Len(data_records) + 1]

Init ==
  /\ data_identifiers_and_lengths \in Asked
  /\ raw_response \in Messages
  /\ pc = "sid"
  /\ consumed = 0
  /\ data_record = <<>>
  /\ data_records = <<>>
  /\ result = NoResult("None")
  /\ starts = <<>>

Return(r) ==
  /\ pc' = "returned"
  /\ result' = r
  /\ UNCHANGED <<arguments, consumed, data_record, data_records, starts>>

(***************************************************************************)
(* The service identifier.                                                 *)
(***************************************************************************)
Expected == READ_DATA_BY_IDENTIFIER_SID + SEND_RECEIVE_SID_OFFSET

SidMissing == pc = "sid" /\ raw_response = <<>> /\ Return(Err("InvalidLength"))

SidWrong ==
  /\ pc = "sid" /\ raw_response # <<>>
  /\ raw_response[1] # Expected
  /\ Return(SidMismatch(Expected, raw_response[1]))

SidRead ==
  /\ pc = "sid" /\ raw_response # <<>>
  /\ raw_response[1] = Expected
  /\ pc' = "did"
  /\ consumed' = 1
  /\ starts' = <<1>>
  /\ UNCHANGED <<arguments, data_record, data_records, result>>

(***************************************************************************)
(* One turn of the loop for each pair: the identifier ...                  *)
(***************************************************************************)
AllRead == Len(data_records) = Len(data_identifiers_and_lengths)

Finished == pc = "did" /\ AllRead /\ Return(Parsed(<<>>))

DidMissing == pc = "did" /\ ~ AllRead /\ Remaining < 2 /\ Return(Err("InvalidLength"))

response_did == U16(raw_response[consumed + 1], raw_response[consumed + 2])

DidWrong ==
  /\ pc = "did" /\ ~ AllRead /\ Remaining >= 2
  /\ pair.did # response_did
  /\ Return(DidMismatch(pair.did, response_did))

\* Mutant: the identifier is not compared.
DidNotCompared ==
  /\ pc = "did" /\ ~ AllRead /\ Remaining >= 2
  /\ pc' = "data"
  /\ consumed' = consumed + 2
  /\ data_record' = <<>>
  /\ UNCHANGED <<arguments, data_records, result, starts>>

DidRead ==
  /\ pc = "did" /\ ~ AllRead /\ Remaining >= 2
  /\ pair.did = response_did
  /\ pc' = "data"
  /\ consumed' = consumed + 2
  /\ data_record' = <<>>
  /\ UNCHANGED <<arguments, data_records, result, starts>>

(***************************************************************************)
(* ... and its data.                                                       *)
(***************************************************************************)
\* Mutants: one byte too many; u32::MAX is a length like any other.
WantsOneMore ==
  IF pair.len = U32_MAX THEN Remaining > 0 ELSE Len(data_record) <= pair.len

WantsMaxToo == Len(data_record) < pair.len

WantsMore ==
  IF pair.len = U32_MAX THEN Remaining > 0 ELSE Len(data_record) < pair.len

DataRead ==
  /\ pc = "data" /\ WantsMore /\ Remaining > 0
  /\ data_record' = Append(data_record, raw_response[consumed + 1])
  /\ consumed' = consumed + 1
  /\ UNCHANGED <<arguments, pc, data_records, result, starts>>

DataMissing ==
  pc = "data" /\ WantsMore /\ Remaining = 0 /\ Return(Err("InvalidLength"))

RecordRead ==
  /\ pc = "data" /\ ~ WantsMore
  /\ data_records' = Append(data_records, [data_identifier |-> pair.did, data |-> data_record])
  /\ starts' = Append(starts, consumed)
  /\ pc' = "did"
  /\ UNCHANGED <<arguments, consumed, data_record, result>>

Next ==
  \/ SidMissing \/ SidWrong \/ SidRead
  \/ Finished \/ DidMissing \/ DidWrong \/ DidRead
  \/ DataRead \/ DataMissing \/ RecordRead

Spec == Init /\ [][Next]_vars

(***************************************************************************)
(* Properties.                                                             *)
(***************************************************************************)
TypeOK ==
  /\ data_identifiers_and_lengths \in Asked
  /\ raw_response \in Messages
  /\ pc \in {"sid", "did", "data", "returned"}
  /\ consumed \in 0 .. Len(raw_response)
  /\ data_record \in Seq(Byte)
  /\ data_records \in Seq(DataRecord)
  /\ result \in Result
  /\ starts \in Seq(Nat)

\* The bytes from + 1 .. to of the message are the identifier of the pair and as
\* much data as it asks for.
Fits(p, raw, from, to) ==
  /\ from + 2 <= to /\ to <= Len(raw)
  /\ U16(raw[from + 1], raw[from + 2]) = p.did
  /\ to = IF p.len = U32_MAX THEN Len(raw) ELSE from + 2 + p.len

\* The reference: positions that divide a message among the pairs.
Divides(at, pairs, raw) ==
  /\ at[1] = 1
  /\ \A k \in 1 .. Len(pairs) : Fits(pairs[k], raw, at[k], at[k + 1])

Divisions(pairs, raw) ==
  {at \in [1 .. Len(pairs) + 1 -> 0 .. Len(raw)] : Divides(at, pairs, raw)}

Holds(record, p, raw, from, to) ==
  /\ record.data_identifier = p.did
  /\ Len(record.data) = to - from - 2
  /\ \A j \in 1 .. Len(record.data) : record.data[j] = raw[from + 2 + j]

\* An Ok gives every identifier the data that stands behind it in the message,
\* as long as was asked for, each record where the one before it ends: no byte
\* is skipped, shared or taken from the next record (lines 116-154).
OkDividesMessage ==
  pc = "returned" /\ IsOk(result) =>
    /\ Len(data_records) = Len(data_identifiers_and_lengths)
    /\ Divides(starts, data_identifiers_and_lengths, raw_response)
    /\ \A k \in 1 .. Len(data_records) :
         Holds(data_records[k], data_identifiers_and_lengths[k], raw_response,
               starts[k], starts[k + 1])

\* An error after the service identifier means that there is no way to divide the
\* message among the identifiers with these lengths; in particular u32::MAX before
\* another identifier is always an error, "should be used only with single data
\* identifier" (line 96).
ErrorMeansIndivisible ==
  pc = "returned" /\ ~ IsOk(result) /\ result.tag # "SidMismatch" =>
    raw_response = <<>> \/ Divisions(data_identifiers_and_lengths, raw_response) = {}

\* With the one pair (did, u32::MAX) the loop computes what the model of the
\* client takes for it (read_single_data_by_identifier, lines 64-67).
SingleReadAgrees ==
  LET only == data_identifiers_and_lengths[1]
  IN  /\ pc = "returned"
      /\ Len(data_identifiers_and_lengths) = 1
      /\ only.len = U32_MAX
      => parse_single_data_by_identifier_response(only.did, raw_response) =
           IF IsOk(result) THEN Parsed(<<only.did>> \o data_records[1].data) ELSE result

(***************************************************************************)
(* What makes the first two inductive: the records read so far are those   *)
(* of every possible division.                                             *)
(***************************************************************************)
RecordsSoFar ==
  LET m == Len(data_records)
  IN  /\ m <= Len(data_identifiers_and_lengths)
      /\ Len(starts) = m + 1
      /\ starts[1] = 1
      /\ \A k \in 1 .. m :
           /\ Fits(data_identifiers_and_lengths[k], raw_response, starts[k], starts[k + 1])
           /\ Holds(data_records[k], data_identifiers_and_lengths[k], raw_response,
                    starts[k], starts[k + 1])
      /\ \A at \in Divisions(data_identifiers_and_lengths, raw_response) :
           \A k \in 1 .. m + 1 : at[k] = starts[k]

DataSoFar ==
  LET start == starts[Len(data_records) + 1]
  IN  /\ ~ AllRead
      /\ U16(raw_response[start + 1], raw_response[start + 2]) = pair.did
      /\ consumed = start + 2 + Len(data_record)
      /\ \A j \in 1 .. Len(data_record) : data_record[j] = raw_response[start + 2 + j]
      /\ pair.len # U32_MAX => Len(data_record) <= pair.len

TupleInvariant ==
  /\ TypeOK
  /\ pc = "sid" => data_records = <<>>
  /\ pc \in {"did", "data"} => RecordsSoFar
  /\ pc = "did" => consumed = starts[Len(data_records) + 1]
  /\ pc = "data" => DataSoFar
  /\ OkDividesMessage /\ ErrorMeansIndivisible

==============================================================================
