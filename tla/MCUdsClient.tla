------------------------------ MODULE MCUdsClient -----------------------------
(***************************************************************************)
(* Small instances of UdsClient for TLC.                                   *)
(***************************************************************************)
EXTENDS UdsClientProperties, TLC

CONSTANTS t1, t2   \* tasks

Read(did)  == [service |-> "read_data_by_identifier", args |-> <<did>>]
Write(did) == [service |-> "write_data_by_identifier", args |-> <<did, 7>>]
Reset      == [service |-> "ecu_reset", args |-> <<1>>]
Memory     == [service |-> "read_memory_by_address", args |-> <<17, 5, 2>>]

Negative(c, nrc) == <<NEGATIVE_RESPONSE_SID, Compose(c)[1], nrc>>

\* The positive response of each call, echoing its identifier.
Positive(c) ==
  LET sid == Compose(c)[1] + SEND_RECEIVE_SID_OFFSET
  IN  CASE c.service = "read_data_by_identifier" -> <<sid, Middle(c.args[1]), Low(c.args[1]), 9>>
        [] c.service = "write_data_by_identifier" -> <<sid, Middle(c.args[1]), Low(c.args[1])>>
        [] c.service = "ecu_reset" -> <<sid, 1>>
        [] c.service = "read_memory_by_address" -> <<sid, 9, 9>>

AnswersOf(calls, further(_)) ==
  [request \in {Compose(c) : c \in calls} |->
     LET c == CHOOSE d \in calls : Compose(d) = request
     IN  {Positive(c)} \cup further(c)]

Refusal(c)    == {Negative(c, 49)}
Garbled(c)    == {Negative(c, 49), <<NEGATIVE_RESPONSE_SID>>}
Malformed(c)  == {Negative(c, 49), Negative(c, 255), <<NEGATIVE_RESPONSE_SID>>, <<>>,
                  <<Compose(c)[1] + SEND_RECEIVE_SID_OFFSET>>}

TwoCalls   == {Read(61834), Memory}
FiveCalls  == {Read(61834), Read(61840), Write(61834), Reset, Memory}

TwoCallsRefused    == AnswersOf(TwoCalls, Refusal)
FiveCallsMalformed == AnswersOf(FiveCalls, Malformed)
TwoCallsMalformed  == AnswersOf(TwoCalls, Malformed)
TwoCallsGarbled    == AnswersOf(TwoCalls, Garbled)

TaskSymmetry == Permutations({t1, t2})

==============================================================================
