----------------------------- MODULE UdsRoundTrip -----------------------------
(***************************************************************************)
(* A result against the message it was made from: the reference for the    *)
(* parsers is the encoding of their results.                               *)
(***************************************************************************)
EXTENDS UdsClientProperties, SequencesExt

Bytes16(n) == <<Middle(n), Low(n)>>
Bytes24(n) == <<High(n), Middle(n), Low(n)>>

EncodedDtcs(records) ==
  [j \in 1 .. 2 * Len(records) |->
     LET i == 2 * ((j - 1) \div 4)      \* numbers before this DTC
     IN  (Bytes24(records[i + 1]) \o <<records[i + 2]>>)[1 + ((j - 1) % 4)]]

\* What follows the service identifier in a message with this parsed content.
Encoded(service, body) ==
  CASE service = "diagnostic_session_control" ->
         <<body[1]>> \o Bytes16(body[2]) \o Bytes16(body[3])
    [] service \in {"ecu_reset", "clear_diagnostic_information", "read_memory_by_address"} -> body
    [] service \in {"read_data_by_identifier", "write_data_by_identifier"} ->
         Bytes16(body[1]) \o Tail(body)
    [] service = "report_number_of_dtc_by_status_mask" ->
         SubSeq(body, 1, 3) \o Bytes16(body[4])
    [] service \in {"report_dtc_by_status_mask", "report_most_recent_confirmed_dtc"} ->
         SubSeq(body, 1, 2) \o EncodedDtcs(SubSeq(body, 3, Len(body)))

\* The services whose responses have no end of their own use every byte; the
\* others ignore what follows the bytes they know.
OpenEnded == {"read_data_by_identifier", "read_memory_by_address",
              "report_dtc_by_status_mask", "report_most_recent_confirmed_dtc"}

KeepsContent(service, r, content) ==
  /\ r.tag = "Raw" => r.body = content
  /\ r.tag = "Parsed" =>
       /\ IsPrefix(Encoded(service, r.body), content)
       /\ service \in OpenEnded => Encoded(service, r.body) = content

\* An Ok result holds the content of the response: nothing is lost, moved or
\* invented between the message and what the caller sees (the parse_ functions).
ResultsKeepContent ==
  \A t \in Tasks : KeepsContent(call[t].service, outcome[t], Tail(LastTaken(t)))

==============================================================================
