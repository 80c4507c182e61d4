----------------------------- MODULE UdsServices ------------------------------
(***************************************************************************)
(* The compose and the parse function of every service method of           *)
(* UdsClient, as operators on byte sequences.  A call is a record          *)
(*                                                                         *)
(*    [service |-> name, args |-> <<numbers>>]                             *)
(*                                                                         *)
(* whose args are the arguments of the method, flattened:                  *)
(*   diagnostic_session_control        <<session_id>>                      *)
(*   ecu_reset                         <<reset_type>>                      *)
(*   clear_diagnostic_information      <<group_of_dtc>>                    *)
(*   read_data_by_identifier           the data identifiers                *)
(*   write_data_by_identifier          <<data_identifier>> \o data_record  *)
(*   read_memory_by_address            <<format identifier>> \o address    *)
(*                                     \o size                             *)
(*   report_number_of_dtc_by_status_mask, report_dtc_by_status_mask <<mask>>*)
(*   report_dtc_ext_data_record_by_dtc_number,                             *)
(*   report_dtc_snapshot_record_by_dtc_number   <<dtc, record number>>     *)
(*   report_most_recent_confirmed_dtc  <<>>                                *)
(***************************************************************************)
EXTENDS UdsDefinitions

(***************************************************************************)
(* Requests.                                                               *)
(***************************************************************************)
compose_diagnostic_session_control_request(session_id) ==
  <<DIAGNOSTIC_SESSION_CONTROL_SID, session_id>>

compose_ecu_reset_request(reset_type) == <<ECU_RESET_SID, reset_type>>

compose_clear_diagnostic_information_request(group_of_dtc) ==
  <<CLEAR_DIAGNOSTIC_INFORMATION_SID,
    High(group_of_dtc), Middle(group_of_dtc), Low(group_of_dtc)>>

compose_read_data_by_identifier_request(data_identifiers) ==
  <<READ_DATA_BY_IDENTIFIER_SID>> \o
  [i \in 1 .. 2 * Len(data_identifiers) |->
     LET did == data_identifiers[(i + 1) \div 2]
     IN  IF i % 2 = 1 THEN Middle(did) ELSE Low(did)]

compose_write_data_by_identifier_request(data_identifier, data_record) ==
  <<WRITE_DATA_BY_IDENTIFIER_SID, Middle(data_identifier), Low(data_identifier)>>
    \o data_record

formulate_request(format_address_and_size) ==
  <<READ_MEMORY_BY_ADDRESS_SID>> \o format_address_and_size

compose_report_number_of_dtc_by_status_mask_request(subfunction, dtc_status_mask) ==
  <<READ_DTC_INFORMATION_SID, subfunction, dtc_status_mask>>

compose_report_dtc_snapshot_request(subfunction, dtc_mask_record, record_number) ==
  <<READ_DTC_INFORMATION_SID, subfunction, High(dtc_mask_record),
    Middle(dtc_mask_record), Low(dtc_mask_record), record_number>>

compose_report_dtc_ext_data_by_dtc_number_request(subfunction, dtc_mask_record, record_number) ==
  <<READ_DTC_INFORMATION_SID, subfunction, High(dtc_mask_record),
    Middle(dtc_mask_record), Low(dtc_mask_record), record_number>>

compose_request_short(subfunction) == <<READ_DTC_INFORMATION_SID, subfunction>>

(***************************************************************************)
(* Subfunctions of ReadDTCInformation and the values try_from accepts.     *)
(***************************************************************************)
ReportNumberOfDTCbyStatusMask      == 1
ReportDTCByStatusMask              == 2
ReportDTCSnapshotRecordByDTCNumber == 4
ReportDTCExtDataRecordByDTCNumber  == 6
ReportMostRecentConfirmedDTC       == 14

SubFunction == (1 .. 25) \cup {66, 85}
DTCFormat   == 0 .. 4
ResetType   == 1 .. 5
EnableRapidPowerShutDown == 4

CountReports == {1, 7, 17, 18}               \* the response carries a count
ListReports  == {2, 10, 11, 12, 13, 14, 15, 19, 21}  \* it carries records

(***************************************************************************)
(* Responses.  Every parser begins by comparing the first byte with the    *)
(* identifier it expects; all but one report an empty message.             *)
(***************************************************************************)
\* Mutant: the identifier is not compared.
WithAnySid(sid, raw_response, result) ==
  IF raw_response = <<>> THEN Err("ResponseEmpty") ELSE result

WithSid(sid, raw_response, result) ==
  IF raw_response = <<>> THEN Err("ResponseEmpty")
  ELSE IF raw_response[1] # sid + SEND_RECEIVE_SID_OFFSET
       THEN SidMismatch(sid + SEND_RECEIVE_SID_OFFSET, raw_response[1])
  ELSE result

parse_diagnostic_session_control_response(raw_response) ==
  WithSid(DIAGNOSTIC_SESSION_CONTROL_SID, raw_response,
    IF Len(raw_response) < 6 THEN Err("InvalidLength")
    ELSE Parsed(<<raw_response[2], U16(raw_response[3], raw_response[4]),
                  U16(raw_response[5], raw_response[6])>>))

parse_ecu_reset_response(raw_response) ==
  WithSid(ECU_RESET_SID, raw_response,
    IF Len(raw_response) < 2 THEN Err("InvalidLength")
    ELSE IF raw_response[2] \notin ResetType THEN Err("ResponseIncorrect")
    ELSE IF raw_response[2] # EnableRapidPowerShutDown THEN Parsed(<<raw_response[2]>>)
    ELSE IF Len(raw_response) < 3 THEN Err("InvalidLength")
    ELSE Parsed(<<raw_response[2], raw_response[3]>>))

parse_clear_diagnostic_information_response(raw_response) ==
  WithSid(CLEAR_DIAGNOSTIC_INFORMATION_SID, raw_response, Parsed(<<>>))

parse_write_data_by_identifier_response(raw_response) ==
  WithSid(WRITE_DATA_BY_IDENTIFIER_SID, raw_response,
    IF Len(raw_response) < 3 THEN Err("InvalidLength")
    ELSE Parsed(<<U16(raw_response[2], raw_response[3])>>))

(***************************************************************************)
(* The response to several identifiers is handed over unparsed ...         *)
(***************************************************************************)
parse_read_data_by_identifier_response(raw_response) ==
  WithSid(READ_DATA_BY_IDENTIFIER_SID, raw_response, Raw(Tail(raw_response)))

(***************************************************************************)
(* ... and the response to one identifier is the tuple parser applied to   *)
(* [(did, u32::MAX)]: the identifier is compared, the rest is its data.    *)
(***************************************************************************)
parse_single_data_by_identifier_response(did, raw_response) ==
  IF raw_response = <<>> THEN Err("InvalidLength")
  ELSE WithSid(READ_DATA_BY_IDENTIFIER_SID, raw_response,
    IF Len(raw_response) < 3 THEN Err("InvalidLength")
    ELSE LET response_did == U16(raw_response[2], raw_response[3])
         IN  IF did # response_did THEN DidMismatch(did, response_did)
             ELSE Parsed(<<did>> \o SubSeq(raw_response, 4, Len(raw_response))))

(***************************************************************************)
(* read_memory_by_address indexes raw_response[0] without a length check.  *)
(***************************************************************************)
parse_response(raw_response) ==
  IF raw_response = <<>> THEN NoResult("Panic")
  ELSE WithSid(READ_MEMORY_BY_ADDRESS_SID, raw_response, Parsed(Tail(raw_response)))

parse_report_number_of_dtc_by_status_mask_response(raw_response) ==
  WithSid(READ_DTC_INFORMATION_SID, raw_response,
    IF Len(raw_response) < 2 THEN Err("InvalidLength")
    ELSE IF raw_response[2] \notin SubFunction THEN Err("ResponseIncorrect")
    ELSE IF Len(raw_response) < 4 THEN Err("InvalidLength")
    ELSE IF raw_response[4] \notin DTCFormat THEN Err("ResponseIncorrect")
    ELSE IF Len(raw_response) < 6 THEN Err("InvalidLength")
    ELSE IF raw_response[2] \notin CountReports THEN Err("InvalidArgument")
    ELSE Parsed(<<raw_response[2], raw_response[3], raw_response[4],
                  U16(raw_response[5], raw_response[6])>>))

(***************************************************************************)
(* The list of DTCs: four bytes a record after a three byte header.  The   *)
(* loop that reads them stops in the middle of a record with an error, so  *)
(* the list it returns is that of all records (dtc, status), one after the *)
(* other.  Whether the report is one of a list is decided after the loop.  *)
(***************************************************************************)
NumberOfDtcs(raw_response) == (Len(raw_response) - 3) \div 4

\* Mutant: the status byte is taken for the low byte of the DTC.
DtcRecordsShifted(raw_response) ==
  [i \in 1 .. 2 * NumberOfDtcs(raw_response) |->
     LET at == 3 + 4 * ((i - 1) \div 2)
     IN  IF i % 2 = 1 THEN U24(raw_response[at + 1], raw_response[at + 2], raw_response[at + 4])
         ELSE raw_response[at + 3]]

DtcRecords(raw_response) ==
  [i \in 1 .. 2 * NumberOfDtcs(raw_response) |->
     LET at == 3 + 4 * ((i - 1) \div 2)      \* bytes before this record
     IN  IF i % 2 = 1 THEN U24(raw_response[at + 1], raw_response[at + 2], raw_response[at + 3])
         ELSE raw_response[at + 4]]

parse_report_dtcs(raw_response) ==
  WithSid(READ_DTC_INFORMATION_SID, raw_response,
    IF Len(raw_response) < 3 \/ (Len(raw_response) - 3) % 4 # 0 THEN Err("InvalidLength")
    ELSE IF raw_response[2] \notin SubFunction THEN Err("ResponseIncorrect")
    ELSE IF raw_response[2] \notin ListReports THEN Err("InvalidArgument")
    ELSE Parsed(<<raw_response[2], raw_response[3]>> \o DtcRecords(raw_response)))

parse_report_dtc_snapshot_record_by_dtc_number_response(raw_response) ==
  WithSid(READ_DTC_INFORMATION_SID, raw_response, Raw(Tail(raw_response)))

parse_report_dtc_ext_data_by_dtc_number_response(raw_response) ==
  WithSid(READ_DTC_INFORMATION_SID, raw_response, Raw(Tail(raw_response)))

(***************************************************************************)
(* The service methods: what each composes and what it parses.             *)
(***************************************************************************)
Services ==
  {"diagnostic_session_control", "ecu_reset", "clear_diagnostic_information",
   "read_data_by_identifier", "write_data_by_identifier", "read_memory_by_address",
   "report_number_of_dtc_by_status_mask", "report_dtc_by_status_mask",
   "report_dtc_snapshot_record_by_dtc_number",
   "report_dtc_ext_data_record_by_dtc_number", "report_most_recent_confirmed_dtc"}

Compose(c) ==
  CASE c.service = "diagnostic_session_control" ->
         compose_diagnostic_session_control_request(c.args[1])
    [] c.service = "ecu_reset" -> compose_ecu_reset_request(c.args[1])
    [] c.service = "clear_diagnostic_information" ->
         compose_clear_diagnostic_information_request(c.args[1])
    [] c.service = "read_data_by_identifier" ->
         compose_read_data_by_identifier_request(c.args)
    [] c.service = "write_data_by_identifier" ->
         compose_write_data_by_identifier_request(c.args[1], Tail(c.args))
    [] c.service = "read_memory_by_address" -> formulate_request(c.args)
    [] c.service = "report_number_of_dtc_by_status_mask" ->
         compose_report_number_of_dtc_by_status_mask_request(
           ReportNumberOfDTCbyStatusMask, c.args[1])
    [] c.service = "report_dtc_by_status_mask" ->
         compose_report_number_of_dtc_by_status_mask_request(
           ReportDTCByStatusMask, c.args[1])
    [] c.service = "report_dtc_snapshot_record_by_dtc_number" ->
         compose_report_dtc_snapshot_request(
           ReportDTCSnapshotRecordByDTCNumber, c.args[1], c.args[2])
    [] c.service = "report_dtc_ext_data_record_by_dtc_number" ->
         compose_report_dtc_ext_data_by_dtc_number_request(
           ReportDTCExtDataRecordByDTCNumber, c.args[1], c.args[2])
    [] c.service = "report_most_recent_confirmed_dtc" ->
         compose_request_short(ReportMostRecentConfirmedDTC)

Parse(c, raw_response) ==
  CASE c.service = "diagnostic_session_control" ->
         parse_diagnostic_session_control_response(raw_response)
    [] c.service = "ecu_reset" -> parse_ecu_reset_response(raw_response)
    [] c.service = "clear_diagnostic_information" ->
         parse_clear_diagnostic_information_response(raw_response)
    [] c.service = "read_data_by_identifier" ->
         IF Len(c.args) = 1
         THEN parse_single_data_by_identifier_response(c.args[1], raw_response)
         ELSE parse_read_data_by_identifier_response(raw_response)
    [] c.service = "write_data_by_identifier" ->
         parse_write_data_by_identifier_response(raw_response)
    [] c.service = "read_memory_by_address" -> parse_response(raw_response)
    [] c.service = "report_number_of_dtc_by_status_mask" ->
         parse_report_number_of_dtc_by_status_mask_response(raw_response)
    [] c.service \in {"report_dtc_by_status_mask", "report_most_recent_confirmed_dtc"} ->
         parse_report_dtcs(raw_response)
    [] c.service = "report_dtc_snapshot_record_by_dtc_number" ->
         parse_report_dtc_snapshot_record_by_dtc_number_response(raw_response)
    [] c.service = "report_dtc_ext_data_record_by_dtc_number" ->
         parse_report_dtc_ext_data_by_dtc_number_response(raw_response)

==============================================================================
