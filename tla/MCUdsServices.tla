---------------------------- MODULE MCUdsServices ----------------------------
(***************************************************************************)
(* Every service method once, with well-formed, truncated, overlong and    *)
(* inconsistent responses.                                                 *)
(***************************************************************************)
EXTENDS UdsRoundTrip

CONSTANT t1

Example ==
  ("diagnostic_session_control"               :> <<80, 3, 0, 50, 1, 244>>) @@
  ("ecu_reset"                                :> <<81, 4, 10>>) @@
  ("clear_diagnostic_information"             :> <<84>>) @@
  ("read_data_by_identifier"                  :> <<98, 241, 144, 9, 8>>) @@
  ("write_data_by_identifier"                 :> <<110, 241, 144>>) @@
  ("read_memory_by_address"                   :> <<99, 1, 2, 3>>) @@
  ("report_number_of_dtc_by_status_mask"      :> <<89, 1, 255, 1, 1, 2>>) @@
  ("report_dtc_by_status_mask"                :> <<89, 2, 255, 1, 2, 3, 9, 4, 5, 6, 8>>) @@
  ("report_most_recent_confirmed_dtc"         :> <<89, 14, 255, 1, 2, 3, 9>>) @@
  ("report_dtc_snapshot_record_by_dtc_number" :> <<89, 4, 1, 2, 3, 9, 1>>) @@
  ("report_dtc_ext_data_record_by_dtc_number" :> <<89, 6, 1, 2, 3, 9, 1>>)

Arguments(service) ==
  CASE service = "diagnostic_session_control" -> {<<3>>}
    [] service = "ecu_reset" -> {<<4>>}
    [] service = "clear_diagnostic_information" -> {<<16777215>>}
    [] service = "read_data_by_identifier" -> {<<61840>>, <<61840, 61841>>}
    [] service = "write_data_by_identifier" -> {<<61840, 1, 2>>}
    [] service = "read_memory_by_address" -> {<<17, 5, 2>>}
    [] service \in {"report_number_of_dtc_by_status_mask", "report_dtc_by_status_mask"} -> {<<255>>}
    [] service = "report_most_recent_confirmed_dtc" -> {<<>>}
    [] OTHER -> {<<66051, 1>>}

AllCalls ==
  UNION {{[service |-> s, args |-> a] : a \in Arguments(s)} : s \in Services}

\* Truncated or one byte too long; with another second or fourth byte.
Lengths(raw) == {SubSeq(Append(raw, 77), 1, n) : n \in 0 .. Len(raw) + 1}

Altered(raw) ==
  LET at(i, b) == IF Len(raw) < i THEN raw ELSE ReplaceAt(raw, i, b)
  IN  {at(1, 127)} \cup {at(2, b) : b \in {1, 2, 3, 5, 7, 200}} \cup {at(4, 200)}

AllAnswers ==
  [request \in {Compose(c) : c \in AllCalls} |->
     LET c == CHOOSE d \in AllCalls : Compose(d) = request
         raw == Example[c.service]
     IN  {a \in UNION {Lengths(m) : m \in {raw} \cup Altered(raw)} : Final(a)}]

==============================================================================
