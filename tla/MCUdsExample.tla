----------------------------- MODULE MCUdsExample -----------------------------
(***************************************************************************)
(* A small instance of UdsExample for TLC: the ECU may perform, refuse or  *)
(* garble each of the four requests.                                       *)
(***************************************************************************)
EXTENDS UdsExample

CONSTANT m   \* the task of main

ScriptCalls == {Script[k] : k \in 1 .. Len(Script)}

\* What follows the service identifier in a positive response.
Content(service) ==
  CASE service = "read_data_by_identifier" -> <<241, 138, 7>>
    [] service = "report_dtc_by_status_mask" -> <<2, 255, 1, 2, 3, 4>>
    [] service = "clear_diagnostic_information" -> <<>>
    [] service = "ecu_reset" -> <<KeyOffOnReset>>

ScriptAnswers ==
  [request \in {Compose(c) : c \in ScriptCalls} |->
     LET c == CHOOSE d \in ScriptCalls : Compose(d) = request
     IN  {<<request[1] + SEND_RECEIVE_SID_OFFSET>> \o Content(c.service),
          <<NEGATIVE_RESPONSE_SID, request[1], 49>>, <<NEGATIVE_RESPONSE_SID>>}]

==============================================================================
