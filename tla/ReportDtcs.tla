------------------------------ MODULE ReportDtcs ------------------------------
(***************************************************************************)
(* parse_report_dtcs: the loop that reads the list of DTCs of a report     *)
(* byte by byte.  UdsServices states what it computes in closed form, and  *)
(* UdsClient uses that form; here it is shown to be what the loop does.    *)
(***************************************************************************)
EXTENDS UdsServices

CONSTANT Reports    \* the responses that are parsed

ASSUME ReportAssumption == Reports \subseteq Seq(Byte)

VARIABLES
  raw_report,
  report_pc,
  report_consumed,           \* bytes response_iter has handed out
  dtc_and_status_records,    \* dtc, status, dtc, status, ...
  report_result

reportVars == <<raw_report, report_pc, report_consumed, dtc_and_status_records, report_result>>

ReportInit ==
  /\ raw_report \in Reports
  /\ report_pc = "sid"
  /\ report_consumed = 0
  /\ dtc_and_status_records = <<>>
  /\ report_result = NoResult("None")

ReportRemaining == Len(raw_report) - report_consumed

ReturnReport(r) ==
  /\ report_pc' = "returned"
  /\ report_result' = r
  /\ UNCHANGED <<raw_report, report_consumed, dtc_and_status_records>>

(***************************************************************************)
(* The service identifier, the kind of report and the mask.                *)
(***************************************************************************)
ReportExpected == READ_DTC_INFORMATION_SID + SEND_RECEIVE_SID_OFFSET

ReportSidMissing ==
  report_pc = "sid" /\ raw_report = <<>> /\ ReturnReport(Err("ResponseEmpty"))

ReportSidWrong ==
  /\ report_pc = "sid" /\ raw_report # <<>>
  /\ raw_report[1] # ReportExpected
  /\ ReturnReport(SidMismatch(ReportExpected, raw_report[1]))

ReportSidRead ==
  /\ report_pc = "sid" /\ raw_report # <<>>
  /\ raw_report[1] = ReportExpected
  /\ report_pc' = "header"
  /\ report_consumed' = 1
  /\ UNCHANGED <<raw_report, dtc_and_status_records, report_result>>

HeaderMissing ==
  report_pc = "header" /\ ReportRemaining < 2 /\ ReturnReport(Err("InvalidLength"))

HeaderRead ==
  /\ report_pc = "header" /\ ReportRemaining >= 2
  /\ report_pc' = "records"
  /\ report_consumed' = report_consumed + 2
  /\ UNCHANGED <<raw_report, dtc_and_status_records, report_result>>

report_type                  == raw_report[2]
dtc_status_availability_mask == raw_report[3]

(***************************************************************************)
(* One turn of the loop for each record, which the message may cut off.    *)
(***************************************************************************)
\* Mutant: a record cut off at the end is dropped.
RestIsShort == ReportRemaining < 4

ReportAllRead == ReportRemaining = 0

DtcRead ==
  /\ report_pc = "records" /\ ~ ReportAllRead /\ ReportRemaining >= 4
  /\ dtc_and_status_records' =
       dtc_and_status_records \o
         LET byte(k) == raw_report[report_consumed + k]
         IN  <<U24(byte(1), byte(2), byte(3)), byte(4)>>
  /\ report_consumed' = report_consumed + 4
  /\ UNCHANGED <<raw_report, report_pc, report_result>>

DtcCutOff ==
  /\ report_pc = "records" /\ ~ ReportAllRead /\ ReportRemaining < 4
  /\ ReturnReport(Err("InvalidLength"))

(***************************************************************************)
(* The kind of report is looked at last.                                   *)
(***************************************************************************)
UnknownReport ==
  /\ report_pc = "records" /\ ReportAllRead
  /\ report_type \notin SubFunction
  /\ ReturnReport(Err("ResponseIncorrect"))

OtherReport ==
  /\ report_pc = "records" /\ ReportAllRead
  /\ report_type \in SubFunction \ ListReports
  /\ ReturnReport(Err("InvalidArgument"))

ReportFinished ==
  /\ report_pc = "records" /\ ReportAllRead
  /\ report_type \in SubFunction \cap ListReports
  /\ ReturnReport(Parsed(<<report_type, dtc_status_availability_mask>> \o dtc_and_status_records))

ReportNext ==
  \/ ReportSidMissing \/ ReportSidWrong \/ ReportSidRead \/ HeaderMissing \/ HeaderRead
  \/ DtcRead \/ DtcCutOff \/ UnknownReport \/ OtherReport \/ ReportFinished

ReportSpec == ReportInit /\ [][ReportNext]_reportVars

(***************************************************************************)
(* Properties.                                                             *)
(***************************************************************************)
ReportTypeOK ==
  /\ raw_report \in Reports
  /\ report_pc \in {"sid", "header", "records", "returned"}
  /\ report_consumed \in 0 .. Len(raw_report)
  /\ dtc_and_status_records \in Seq(Nat)
  /\ report_result \in Result

\* The loop lists every DTC of the message, with its own status and in order, and
\* an error of one position in the message never shows as another: it returns what
\* the client is modelled to get (lines 385-462).
LoopComputesReport == report_pc = "returned" => report_result = parse_report_dtcs(raw_report)

\* The n records read so far are the first n of the closed form.
Field(raw, i) ==
  LET at == 3 + 4 * ((i - 1) \div 2)
  IN  IF i % 2 = 1 THEN U24(raw[at + 1], raw[at + 2], raw[at + 3]) ELSE raw[at + 4]

ListsFirst(raw, n, records) == records = [i \in 1 .. 2 * n |-> Field(raw, i)]

ReadSoFar(raw, n, records) == report_consumed = 3 + 4 * n /\ ListsFirst(raw, n, records)

ReportInvariant ==
  /\ ReportTypeOK
  /\ report_pc \in {"sid", "header"} => dtc_and_status_records = <<>>
  /\ report_pc # "sid" /\ report_pc # "returned" =>
       raw_report # <<>> /\ raw_report[1] = ReportExpected
  /\ report_pc = "header" => report_consumed = 1
  /\ report_pc = "records" => \E n \in 0 .. Len(raw_report) :
       ReadSoFar(raw_report, n, dtc_and_status_records)
  /\ LoopComputesReport

==============================================================================
