--------------------------- MODULE UdsExchangeProofs --------------------------
(***************************************************************************)
(* As long as calls are made one at a time and none is abandoned, the      *)
(* order of messages alone binds every answer to its request:              *)
(* OrderlyInvariant is inductive, and the three properties of orderly use  *)
(* follow from it.  So does the refinement: UdsClient implements           *)
(* DiagnosticExchange, for every set of tasks, calls and answers and every *)
(* combination of faults, and keeps what DiagnosticExchange promises.      *)
(***************************************************************************)
EXTENDS UdsExchange, UdsClientProofs

(***************************************************************************)
(* What a call makes of the messages that reach it.                        *)
(***************************************************************************)

\* No parser returns a negative response, and an interim answer that reaches
\* one is a SID mismatch that names the identifier 7F.
LEMMA ParseOfNegative ==
  ASSUME NEW c \in Calls, NEW raw \in Seq(Byte)
  PROVE  /\ Parse(c, raw).tag \notin {"NRC", "UnknownNRC"}
         /\ IsOk(Parse(c, raw)) => IsPositive(raw)
         /\ raw # <<>> /\ raw[1] = NEGATIVE_RESPONSE_SID => Abandoned(Parse(c, raw))
  <1>1. FromService(Compose(c)[1], raw, Parse(c, raw)) /\ Compose(c)[1] = Sid(c.service)
    BY ParseReturns, ComposeSid
  <1>2. c.service \in Services /\ c.args \in Seq(Nat)
    BY ClientAssumption
  <1>3. Parse(c, raw).tag \notin {"NRC", "UnknownNRC"}
    BY <1>1 DEF FromService, ParserResult, ParserTags, OkTags
  <1>4. Sid(c.service) + SEND_RECEIVE_SID_OFFSET # NEGATIVE_RESPONSE_SID
    BY DEF Sid, SEND_RECEIVE_SID_OFFSET, NEGATIVE_RESPONSE_SID,
           DIAGNOSTIC_SESSION_CONTROL_SID, ECU_RESET_SID, CLEAR_DIAGNOSTIC_INFORMATION_SID,
           READ_DTC_INFORMATION_SID, READ_DATA_BY_IDENTIFIER_SID, READ_MEMORY_BY_ADDRESS_SID,
           WRITE_DATA_BY_IDENTIFIER_SID
  <1>5. IsOk(Parse(c, raw)) => IsPositive(raw)
    BY <1>1, <1>4 DEF FromService, IsPositive
  <1>6. ASSUME raw # <<>>, raw[1] = NEGATIVE_RESPONSE_SID PROVE Abandoned(Parse(c, raw))
    <2> DEFINE r == SidMismatch(Sid(c.service) + SEND_RECEIVE_SID_OFFSET, NEGATIVE_RESPONSE_SID)
    <2>1. \A rest : WithSid(Sid(c.service), raw, rest) = r
      BY <1>4, <1>6 DEF WithSid
    <2>2. Abandoned(r)
      BY DEF Abandoned, SidMismatch
    <2> HIDE DEF r
    <2>3. CASE c.service \in {"diagnostic_session_control", "ecu_reset",
                              "clear_diagnostic_information", "write_data_by_identifier"}
      BY <2>1, <2>2, <2>3
      DEF Parse, Sid, parse_diagnostic_session_control_response, parse_ecu_reset_response,
          parse_clear_diagnostic_information_response, parse_write_data_by_identifier_response
    <2>4. CASE c.service \in {"read_data_by_identifier", "read_memory_by_address"}
      BY <1>6, <2>1, <2>2, <2>4
      DEF Parse, Sid, parse_single_data_by_identifier_response,
          parse_read_data_by_identifier_response, parse_response
    <2>5. CASE c.service \in {"report_number_of_dtc_by_status_mask", "report_dtc_by_status_mask",
                              "report_dtc_snapshot_record_by_dtc_number",
                              "report_dtc_ext_data_record_by_dtc_number",
                              "report_most_recent_confirmed_dtc"}
      BY <2>1, <2>2, <2>5
      DEF Parse, Sid, parse_report_number_of_dtc_by_status_mask_response, parse_report_dtcs,
          parse_report_dtc_snapshot_record_by_dtc_number_response,
          parse_report_dtc_ext_data_by_dtc_number_response
    <2> QED
      BY <1>2, <2>3, <2>4, <2>5 DEF Services
  <1> QED
    BY <1>3, <1>5, <1>6

\* The verdict on a message tells interim answers from those that end the
\* exchange, and negative ones from positive ones.
LEMMA VerdictOfExchange ==
  ASSUME TypeOK, NEW t \in Tasks, Take(t)
  PROVE  /\ IsPending(raw_response) =>
              Verdict = NRC(raw_response[2], RequestCorrectlyReceivedResponsePending)
         /\ Verdict.tag = "None" <=> IsPositive(raw_response)
         /\ Verdict.tag \in {"NRC", "UnknownNRC"} => ~ IsPositive(raw_response)
         /\ Verdict.tag \in {"None", "NRC", "UnknownNRC", "ResponseEmpty"}
  <1> DEFINE raw == raw_response
  <1>1. raw \in Seq(Byte) /\ Verdict = parse_for_error(raw)
    BY TakeIsTyped DEF Verdict
  <1>2. RequestCorrectlyReceivedResponsePending \in NegativeResponseCode
    BY DEF RequestCorrectlyReceivedResponsePending, NegativeResponseCode
  <1>3. IsPending(raw) =>
          parse_for_error(raw) = NRC(raw[2], RequestCorrectlyReceivedResponsePending)
    <2> HIDE DEF raw
    <2>1. SUFFICES ASSUME IsPending(raw)
                   PROVE  parse_for_error(raw) = NRC(raw[2], RequestCorrectlyReceivedResponsePending)
      OBVIOUS
    <2>2. /\ raw # <<>> /\ raw[1] = NEGATIVE_RESPONSE_SID /\ ~ (Len(raw) < 3)
          /\ raw[3] = RequestCorrectlyReceivedResponsePending
      BY <1>1, <2>1, LenProperties DEF IsPending
    <2> QED
      BY <1>2, <2>2 DEF parse_for_error
  <1>4. /\ parse_for_error(raw).tag = "None" <=> IsPositive(raw)
        /\ parse_for_error(raw).tag \in {"NRC", "UnknownNRC"} => ~ IsPositive(raw)
        /\ parse_for_error(raw).tag \in {"None", "NRC", "UnknownNRC", "ResponseEmpty"}
    <2> HIDE DEF raw
    <2> QED
      BY DEF parse_for_error, IsPositive, Err, NoResult, NRC, UnknownNRC
  <1> QED
    BY <1>1, <1>3, <1>4

(***************************************************************************)
(* Numbers of calls.                                                       *)
(***************************************************************************)

LEMMA NumbersStep ==
  ASSUME TypeOK, CallsAreNumbered, [Next]_vars
  PROVE  CallsAreNumbered'
  <1>1. issued \in Nat /\ MaxCalls \in Nat /\ \A t \in Tasks : id[t] \in 0 .. issued
    BY LinkAssumption DEF TypeOK
  <1>2. tx \in Seq(RequestPacket) /\ executed \in [CallId -> Nat]
    BY DEF TypeOK, LinkTypeOK
  <1>3. ASSUME NEW t \in Tasks, NEW c \in Calls, Start(t, c) PROVE CallsAreNumbered'
    <2>1. issued' = issued + 1 /\ id' = [id EXCEPT ![t] = issued + 1] /\ UNCHANGED <<tx, executed>>
      BY <1>3 DEF Start, linkVars
    <2>2. \A i \in 1 .. Len(tx) : tx[i].origin \in CallId
      <3>1. \A i \in 1 .. Len(tx) : tx[i] \in RequestPacket
        BY <1>2, ElementOfSeq
      <3> QED
        BY <3>1 DEF RequestPacket
    <2>3. \A i \in 1 .. Len(tx') : tx'[i].origin <= issued'
      BY <1>1, <2>1, <2>2 DEF CallsAreNumbered, CallId
    <2>4. \A n \in CallId : n > issued' => executed'[n] = 0
      BY <1>1, <2>1 DEF CallsAreNumbered, CallId
    <2>5. \A u, v \in Tasks : id'[u] = id'[v] /\ id'[u] # 0 => u = v
      BY <1>1, <2>1 DEF CallsAreNumbered, TypeOK
    <2> QED
      BY <2>3, <2>4, <2>5 DEF CallsAreNumbered
  <1>4. ASSUME NEW t \in Tasks, Send(t) PROVE CallsAreNumbered'
    <2> DEFINE packet == [raw |-> Request(t), origin |-> id[t]]
    <2>1. tx' = Append(tx, packet) /\ UNCHANGED <<executed, issued, id>>
      BY <1>4 DEF Send, send
    <2>2. packet.origin <= issued
      BY <1>1
    <2> HIDE DEF packet
    <2>3. \A i \in 1 .. Len(tx') : tx'[i] = packet \/ (i \in 1 .. Len(tx) /\ tx'[i] = tx[i])
      BY <1>2, <2>1, AppendProperties, LenProperties
    <2> QED
      BY <2>1, <2>2, <2>3 DEF CallsAreNumbered
  <1>5. ASSUME NEW t \in Tasks, Step(t), ~ Send(t), \A c \in Calls : ~ Start(t, c)
        PROVE  UNCHANGED <<tx, executed, issued, id>>
    <2>1. Receive(t) => Take(t)
      BY DEF Receive, ReceiveAnswer, ReceiveError, ReceiveForeignNrc, ReceiveNrc, ReceivePending,
             RepeatRequest, GiveUp, RetryOverflow, ReceiveDelayed, ReceiveOwnNrc
    <2>2. Take(t) => UNCHANGED <<tx, executed, issued, id>>
      BY DEF Take, receive
    <2> QED
      BY <1>5, <2>1, <2>2
      DEF Step, SendFails, ReceiveFails, PendingTimeout, Cancel, linkVars
  <1>6. ASSUME Ecu PROVE CallsAreNumbered'
    <2>1. tx # <<>> /\ (tx' = Tail(tx) \/ tx' = tx) /\ UNCHANGED <<issued, id>>
      BY <1>6
      DEF Ecu, EcuServe, EcuAnswer, EcuPending, EcuBusy, EcuSilent, Served, clientVars
    <2>2. \A i \in 1 .. Len(tx') : \E j \in 1 .. Len(tx) : tx'[i] = tx[j]
      BY <1>2, <2>1, HeadTailProperties, LenProperties
    <2>3. Serving = tx[1] /\ 1 \in 1 .. Len(tx)
      BY <1>2, <2>1, HeadTailProperties, LenProperties DEF Serving
    <2>4. Serving.origin <= issued /\ Serving.origin \in CallId
      BY <2>1, <2>3, ServingIsTyped DEF CallsAreNumbered, TypeOK
    <2>5. UNCHANGED executed \/ Execute
      BY <1>6 DEF Ecu, EcuServe, EcuAnswer, EcuPending, EcuBusy, EcuSilent
    <2>6. \A n \in CallId : n > issued' => executed'[n] = 0
      BY <1>1, <1>2, <2>1, <2>4, <2>5 DEF CallsAreNumbered, Execute, CallId
    <2> QED
      BY <2>1, <2>2, <2>6 DEF CallsAreNumbered
  <1>7. CASE UNCHANGED <<tx, executed, issued, id>>
    BY <1>7 DEF CallsAreNumbered
  <1> QED
    BY <1>3, <1>4, <1>5, <1>6, <1>7 DEF Next, Step, vars, clientVars, linkVars

(***************************************************************************)
(* One call at a time.                                                     *)
(***************************************************************************)

\* A task between two calls keeps what it knows of its last call, unless the
\* ECU performs that one again.
LEMMA IdleTaskKeeps ==
  ASSUME NEW u \in Tasks, OrderlyCall(u), ~ InCall(u),
         UNCHANGED <<pc[u], outcome[u], id[u], took[u]>>,
         id[u] # 0 => executed'[id[u]] = executed[id[u]]
  PROVE  OrderlyCall(u)'
  BY DEF OrderlyCall, OutcomeTellsExecution, Returned, InCall, StemFrom

\* What is left to show of a step of the one task that is in a call.
LEMMA OnlyTaskInCall ==
  ASSUME TypeOK, OneCall, \A u \in Tasks : OrderlyCall(u),
         NEW t \in Tasks, InCall(t), Step(t), UNCHANGED executed,
         OrderlyCall(t)', ~ InCall(t)' => LineIdle'
  PROVE  OneCall' /\ OrderlyLineIdle' /\ \A u \in Tasks : OrderlyCall(u)'
  <1>1. ASSUME NEW u \in Tasks, u # t PROVE OrderlyCall(u)' /\ ~ InCall(u)'
    <2>1. ~ InCall(u)
      BY <1>1 DEF OneCall
    <2>2. UNCHANGED <<pc[u], outcome[u], id[u], took[u]>>
      BY <1>1, StepKeepsOthers
    <2> QED
      BY <2>1, <2>2, IdleTaskKeeps DEF InCall
  <1> QED
    BY <1>1 DEF OneCall, OrderlyLineIdle

LEMMA StartOrderly ==
  ASSUME OrderlyInvariant, NEW t \in Tasks, NEW c \in Calls, Start(t, c), orderly'
  PROVE  OneCall' /\ OrderlyLineIdle' /\ \A u \in Tasks : OrderlyCall(u)'
  <1>1. TypeOK /\ CallsAreNumbered /\ orderly /\ \A u \in Tasks : ~ InCall(u)
    BY DEF Start, OrderlyInvariant, TypeOK
  <1>2. LineIdle /\ \A u \in Tasks : OrderlyCall(u)
    BY <1>1 DEF OrderlyInvariant, OrderlyLineIdle
  <1>3. LineIdle' /\ UNCHANGED executed
    BY <1>2 DEF Start, linkVars, LineIdle
  <1>4. ASSUME NEW u \in Tasks, u # t PROVE OrderlyCall(u)' /\ ~ InCall(u)'
    <2>1. Step(t)
      BY DEF Step
    <2>2. UNCHANGED <<pc[u], outcome[u], id[u], took[u]>>
      BY <1>1, <1>4, <2>1, StepKeepsOthers
    <2> QED
      BY <1>1, <1>2, <1>3, <2>2, IdleTaskKeeps DEF InCall
  <1>5. pc'[t] = "send" /\ id'[t] = issued + 1 /\ took'[t] = <<>>
    BY <1>1 DEF Start, TypeOK
  <1>6. executed'[id'[t]] = 0
    <2>1. issued \in Nat /\ MaxCalls \in Nat /\ issued < MaxCalls
      BY <1>1, LinkAssumption DEF Start, TypeOK
    <2> QED
      BY <1>1, <1>3, <1>5, <2>1 DEF CallsAreNumbered, CallId
  <1>7. OrderlyCall(t)'
    BY <1>3, <1>5, <1>6 DEF OrderlyCall, StemFrom, OutcomeTellsExecution, Returned, InCall
  <1>8. InCall(t)'
    BY <1>5 DEF InCall
  <1> QED
    BY <1>4, <1>7, <1>8 DEF OneCall, OrderlyLineIdle

LEMMA SendOrderly ==
  ASSUME TypeOK, OneCall, \A u \in Tasks : OrderlyCall(u), NEW t \in Tasks, Send(t)
  PROVE  OneCall' /\ OrderlyLineIdle' /\ \A u \in Tasks : OrderlyCall(u)'
  <1> DEFINE packet == [raw |-> Request(t), origin |-> id[t]]
  <1>1. /\ pc[t] = "send" /\ pc'[t] = "recv" /\ tx' = Append(tx, packet)
        /\ UNCHANGED <<rx, executed, call, id, took, outcome>>
    BY DEF Send, send, TypeOK
  <1>2. tx = <<>> /\ rx = <<>> /\ executed[id[t]] = 0 /\ StemFrom(took[t], id[t])
    BY <1>1 DEF OrderlyCall, LineIdle
  <1>3. tx' = <<packet>>
    BY <1>1, <1>2
  <1>4. Exchange(t)'
    BY <1>1, <1>2, <1>3 DEF Exchange, StemFrom, Request
  <1>5. InCall(t) /\ InCall(t)'
    BY <1>1 DEF InCall
  <1>6. OrderlyCall(t)'
    BY <1>1, <1>2, <1>4, <1>5 DEF OrderlyCall, StemFrom, OutcomeTellsExecution, Returned
  <1>7. Step(t)
    BY DEF Step
  <1> QED
    BY <1>1, <1>5, <1>6, <1>7, OnlyTaskInCall

\* A message taken by the one task in a call is an answer to that call: an
\* interim one, after which the exchange goes on, or the one that ends it.
LEMMA TakeOrderly ==
  ASSUME TypeOK, NEW t \in Tasks, Take(t), StemFrom(took[t], id[t]), Exchange(t)
  PROVE  /\ StemFrom(took[t], id[t])'
         /\ executed[id[t]] <= 1
         /\ UNCHANGED <<executed, id[t]>>
         /\ Exchange(t)'
         /\ Interim(t, raw_response) \/ (LineIdle' /\ Ending(t, raw_response))
  <1>1. /\ rx \in Seq(Packet) /\ rx # <<>> /\ rx' = Tail(rx)
        /\ UNCHANGED <<tx, executed>>
    BY DEF TypeOK, LinkTypeOK, Take, receive
  <1>2. /\ Len(rx) \in Nat /\ Len(rx) > 0
        /\ Len(rx') = Len(rx) - 1 /\ \A i \in 1 .. Len(rx') : rx'[i] = rx[i + 1]
        /\ Head(rx) = rx[1]
        /\ Len(rx) = 1 => rx' = <<>>
    BY <1>1, HeadTailProperties, LenProperties
  <1>3. UNCHANGED <<call[t], id[t]>> /\ Request(t)' = Request(t)
    BY TakeExtends
  <1>4. StemFrom(took[t], id[t])'
    <2>1. Head(rx).origin = id[t]
      BY <1>2 DEF Exchange, StemFrom
    <2>2. \A i \in 1 .. Len(took'[t]) : i \in 1 .. Len(took[t]) \/ i = Len(took[t]) + 1
      BY TakeExtends
    <2> QED
      BY <1>3, <2>1, <2>2, TakeExtends DEF StemFrom
  <1>5. Exchange(t)'
    <2>1. \A i \in 1 .. Len(rx') : i + 1 \in 1 .. Len(rx) /\ (i + 1 = Len(rx) => i = Len(rx'))
      BY <1>2
    <2>2. \A raw : Ending(t, raw) <=> (/\ tx' = <<>>
                                      /\ ~ IsPending(raw)
                                      /\ executed'[id'[t]] = IF IsPositive(raw) THEN 1 ELSE 0)
      BY <1>1, <1>3 DEF Ending
    <2>3. \A raw : Interim(t, raw) <=> (IsPending(raw) /\ raw[2] = Request(t)'[1])
      BY <1>3 DEF Interim
    <2>4. (\A i \in 1 .. Len(rx) :
             Interim(t, rx[i].raw) \/ (i = Len(rx) /\ Ending(t, rx[i].raw)))'
      <3> SUFFICES ASSUME NEW i \in 1 .. Len(rx')
                   PROVE  (Interim(t, rx[i].raw) \/ (i = Len(rx) /\ Ending(t, rx[i].raw)))'
        OBVIOUS
      <3>1. Interim(t, rx[i + 1].raw) \/ (i = Len(rx') /\ Ending(t, rx[i + 1].raw))
        BY <2>1 DEF Exchange
      <3>2. rx'[i] = rx[i + 1]
        BY <1>2
      <3> QED
        BY <2>2, <2>3, <3>1, <3>2 DEF Interim, Ending
    <2>5. StemFrom(rx, id[t])'
      BY <1>2, <1>3, <2>1 DEF Exchange, StemFrom
    <2> QED
      BY <1>1, <1>3, <2>4, <2>5 DEF Exchange
  <1>6. Interim(t, raw_response) \/ (LineIdle' /\ Ending(t, raw_response))
    <2>1. Interim(t, rx[1].raw) \/ (Len(rx) = 1 /\ Ending(t, rx[1].raw))
      BY <1>2 DEF Exchange
    <2> QED
      BY <1>1, <1>2, <2>1 DEF Ending, LineIdle, raw_response
  <1> QED
    BY <1>1, <1>3, <1>4, <1>5, <1>6 DEF Exchange

\* A call that returns after a reception with a result that fits the message,
\* unless it returns because of an interim answer.
LEMMA ReturnOrderly ==
  ASSUME TypeOK, NEW t \in Tasks, NEW r, InCall(t), OrderlyCall(t), Exchange(t),
         Take(t), Return(t, r), orderly',
         Interim(t, raw_response) => Abandoned(r),
         IsOk(r) => IsPositive(raw_response),
         r.tag \in {"NRC", "UnknownNRC"} => ~ IsPositive(raw_response)
  PROVE  OrderlyCall(t)' /\ LineIdle' /\ UNCHANGED executed
  <1>1. pc'[t] = "ready" /\ outcome'[t] = r /\ ~ Abandoned(r)
    BY DEF Return, TypeOK
  <1>2. StemFrom(took[t], id[t])
    BY DEF OrderlyCall
  <1>3. /\ StemFrom(took[t], id[t])' /\ UNCHANGED <<executed, id[t]>>
        /\ LineIdle' /\ Ending(t, raw_response)
    BY <1>1, <1>2, TakeOrderly
  <1>4. executed[id[t]] = IF IsPositive(raw_response) THEN 1 ELSE 0
    BY <1>3 DEF Ending
  <1>5. OutcomeTellsExecution(t)'
    BY <1>1, <1>3, <1>4 DEF OutcomeTellsExecution
  <1> QED
    BY <1>1, <1>3, <1>5 DEF OrderlyCall

\* The turns of the loop that return.
LEMMA ReceiveReturnOrderly ==
  ASSUME TypeOK, NEW t \in Tasks, InCall(t), OrderlyCall(t), Exchange(t), orderly',
         \/ ReceiveAnswer(t) \/ ReceiveError(t) \/ ReceiveForeignNrc(t) \/ ReceiveNrc(t)
         \/ GiveUp(t) \/ RetryOverflow(t) \/ ReceiveDelayed(t)
  PROVE  OrderlyCall(t)' /\ LineIdle' /\ UNCHANGED executed
  <1>1. Take(t)
    BY DEF ReceiveAnswer, ReceiveError, ReceiveForeignNrc, ReceiveNrc, GiveUp, RetryOverflow,
           ReceiveDelayed, ReceiveOwnNrc
  <1>2. call[t] \in Calls /\ raw_response \in Seq(Byte)
    BY <1>1, TakeIsTyped DEF TypeOK
  <1> DEFINE parsed == Parse(call[t], raw_response)
  <1>3. /\ parsed.tag \notin {"NRC", "UnknownNRC"}
        /\ IsOk(parsed) => IsPositive(raw_response)
        /\ raw_response # <<>> /\ raw_response[1] = NEGATIVE_RESPONSE_SID => Abandoned(parsed)
    BY <1>2, ParseOfNegative
  <1>4. Interim(t, raw_response) =>
          /\ raw_response # <<>> /\ raw_response[1] = NEGATIVE_RESPONSE_SID
          /\ Verdict.tag = "NRC"
          /\ Verdict.body[1] = Request(t)[1]
          /\ Verdict.body[2] = RequestCorrectlyReceivedResponsePending
    <2>1. SUFFICES ASSUME Interim(t, raw_response)
                   PROVE  /\ raw_response # <<>> /\ raw_response[1] = NEGATIVE_RESPONSE_SID
                          /\ Verdict.tag = "NRC"
                          /\ Verdict.body[1] = Request(t)[1]
                          /\ Verdict.body[2] = RequestCorrectlyReceivedResponsePending
      OBVIOUS
    <2>2. IsPending(raw_response) /\ raw_response[2] = Request(t)[1]
      BY <2>1 DEF Interim
    <2>3. Verdict = NRC(Request(t)[1], RequestCorrectlyReceivedResponsePending)
      BY <1>1, <2>2, VerdictOfExchange
    <2>4. raw_response # <<>> /\ raw_response[1] = NEGATIVE_RESPONSE_SID
      BY <1>2, <2>2 DEF IsPending
    <2> QED
      BY <2>3, <2>4 DEF NRC
  <1>5. CASE ReceiveAnswer(t) \/ ReceiveDelayed(t)
    <2>1. Return(t, parsed)
      BY <1>5 DEF ReceiveAnswer, ReceiveDelayed
    <2> HIDE DEF parsed
    <2> QED
      BY <1>1, <1>3, <1>4, <2>1, ReturnOrderly
  <1>6. CASE ReceiveError(t)
    <2>1. Return(t, Verdict) /\ Verdict.tag # "NRC"
      BY <1>6 DEF ReceiveError
    <2>2. ~ IsOk(Verdict)
      BY <1>1, VerdictClassifies
    <2> QED
      BY <1>1, <1>4, <2>1, <2>2, VerdictOfExchange, ReturnOrderly
  <1>7. CASE ReceiveForeignNrc(t)
    <2> DEFINE r == SidMismatch(Request(t)[1], Verdict.body[1])
    <2>1. Return(t, r) /\ Verdict.body[1] # Request(t)[1]
      BY <1>7 DEF ReceiveForeignNrc
    <2>2. r.tag = "SidMismatch" /\ ~ IsOk(r)
      BY DEF SidMismatch, IsOk, OkTags
    <2> HIDE DEF r
    <2> QED
      BY <1>1, <1>4, <2>1, <2>2, ReturnOrderly
  <1>8. CASE ReceiveNrc(t) \/ GiveUp(t)
    <2>1. /\ Return(t, Verdict) /\ Verdict.tag = "NRC"
          /\ Verdict.body[2] # RequestCorrectlyReceivedResponsePending
      BY <1>8
      DEF ReceiveNrc, GiveUp, ReceiveOwnNrc, BusyRepeatRequest,
          RequestCorrectlyReceivedResponsePending
    <2>2. ~ IsOk(Verdict)
      BY <1>1, VerdictClassifies
    <2> QED
      BY <1>1, <1>4, <2>1, <2>2, VerdictOfExchange, ReturnOrderly
  <1>9. CASE RetryOverflow(t)
    <2> DEFINE r == NoResult("Panic")
    <2>1. Return(t, r) /\ Verdict.body[2] # RequestCorrectlyReceivedResponsePending
      BY <1>9
      DEF RetryOverflow, ReceiveOwnNrc, BusyRepeatRequest, RequestCorrectlyReceivedResponsePending
    <2>2. r.tag = "Panic" /\ ~ IsOk(r)
      BY DEF NoResult, IsOk, OkTags
    <2> HIDE DEF r
    <2> QED
      BY <1>1, <1>4, <2>1, <2>2, ReturnOrderly
  <1> QED
    BY <1>5, <1>6, <1>7, <1>8, <1>9

\* The turns of the loop after which the call goes on.
LEMMA ReceiveContinueOrderly ==
  ASSUME TypeOK, NEW t \in Tasks, InCall(t), OrderlyCall(t), Exchange(t),
         ReceivePending(t) \/ RepeatRequest(t)
  PROVE  OrderlyCall(t)' /\ InCall(t)' /\ UNCHANGED executed
  <1>1. Take(t) /\ Verdict.tag = "NRC"
    BY DEF ReceivePending, RepeatRequest, ReceiveOwnNrc
  <1>2. StemFrom(took[t], id[t])
    BY DEF OrderlyCall
  <1>3. /\ StemFrom(took[t], id[t])' /\ UNCHANGED <<executed, id[t]>> /\ Exchange(t)'
        /\ Interim(t, raw_response) \/ (LineIdle' /\ Ending(t, raw_response))
    BY <1>1, <1>2, TakeOrderly
  <1>4. CASE ReceivePending(t)
    <2>1. pc'[t] = "pending"
      BY <1>4 DEF ReceivePending, TypeOK
    <2> QED
      BY <1>3, <2>1 DEF OrderlyCall, OutcomeTellsExecution, Returned, InCall
  <1>5. CASE RepeatRequest(t)
    <2>1. pc'[t] = "send" /\ Verdict.body[2] = BusyRepeatRequest
      BY <1>5 DEF RepeatRequest, TypeOK
    <2>2. ~ Interim(t, raw_response)
      <3>1. NRC(raw_response[2], RequestCorrectlyReceivedResponsePending).body[2]
              # BusyRepeatRequest
        BY DEF NRC, BusyRepeatRequest, RequestCorrectlyReceivedResponsePending
      <3> QED
        BY <1>1, <2>1, <3>1, VerdictOfExchange DEF Interim
    <2>3. ~ IsPositive(raw_response)
      BY <1>1, VerdictOfExchange
    <2>4. LineIdle' /\ executed'[id'[t]] = 0
      BY <1>3, <2>2, <2>3 DEF Ending
    <2> QED
      BY <1>3, <2>1, <2>4 DEF OrderlyCall, OutcomeTellsExecution, Returned, InCall
  <1> QED
    BY <1>4, <1>5

\* A step of the task in a call, if the call is not abandoned by it.
LEMMA TaskOrderly ==
  ASSUME OrderlyInvariant, NEW t \in Tasks, Step(t), orderly'
  PROVE  OneCall' /\ OrderlyLineIdle' /\ \A u \in Tasks : OrderlyCall(u)'
  <1>1. orderly
    <2>1. ASSUME NEW r, Return(t, r) PROVE orderly
      BY <2>1 DEF Return
    <2>2. Receive(t) => (\E r : Return(t, r)) \/ UNCHANGED orderly
      BY DEF Receive, ReceiveAnswer, ReceiveError, ReceiveForeignNrc, ReceiveNrc, ReceivePending,
             RepeatRequest, GiveUp, RetryOverflow, ReceiveDelayed
    <2> QED
      BY <2>1, <2>2 DEF Step, Start, Send, SendFails, ReceiveFails, PendingTimeout, Cancel
  <1>2. /\ TypeOK /\ OneCall /\ OrderlyLineIdle
        /\ \A u \in Tasks : OrderlyCall(u)
    BY <1>1 DEF OrderlyInvariant
  <1>3. ASSUME NEW r, Abandoned(r), Return(t, r) PROVE FALSE
    BY <1>3 DEF Return
  <1>4. ~ SendFails(t) /\ ~ ReceiveFails(t) /\ ~ Cancel(t) /\ ~ PendingTimeout(t)
    <2>1. /\ Abandoned(Err("CommunicationError")) /\ Abandoned(NoResult("Cancelled"))
          /\ \A sid : Abandoned(NRC(sid, RequestCorrectlyReceivedResponsePending))
      BY DEF Abandoned, Err, NoResult, NRC
    <2> QED
      BY <1>3, <2>1 DEF SendFails, ReceiveFails, Cancel, PendingTimeout
  <1>5. ASSUME Receive(t) PROVE InCall(t) /\ Exchange(t)
    <2>1. pc[t] \in {"recv", "pending"}
      BY <1>5
      DEF Receive, ReceiveAnswer, ReceiveError, ReceiveForeignNrc, ReceiveNrc, ReceivePending,
          RepeatRequest, GiveUp, RetryOverflow, ReceiveDelayed, ReceiveOwnNrc
    <2> QED
      BY <1>2, <2>1 DEF OrderlyCall, InCall
  <1>6. CASE ReceivePending(t) \/ RepeatRequest(t)
    <2>1. InCall(t) /\ Exchange(t)
      BY <1>5, <1>6 DEF Receive
    <2>2. OrderlyCall(t)' /\ InCall(t)' /\ UNCHANGED executed
      BY <1>2, <1>6, <2>1, ReceiveContinueOrderly
    <2> QED
      BY <1>2, <2>1, <2>2, OnlyTaskInCall
  <1>7. CASE \/ ReceiveAnswer(t) \/ ReceiveError(t) \/ ReceiveForeignNrc(t) \/ ReceiveNrc(t)
             \/ GiveUp(t) \/ RetryOverflow(t) \/ ReceiveDelayed(t)
    <2>1. InCall(t) /\ Exchange(t)
      BY <1>5, <1>7 DEF Receive
    <2>2. OrderlyCall(t)' /\ LineIdle' /\ UNCHANGED executed
      BY <1>2, <1>7, <2>1, ReceiveReturnOrderly
    <2> QED
      BY <1>2, <2>1, <2>2, OnlyTaskInCall
  <1>8. ASSUME NEW c \in Calls, Start(t, c)
        PROVE  OneCall' /\ OrderlyLineIdle' /\ \A u \in Tasks : OrderlyCall(u)'
    BY <1>8, StartOrderly
  <1>9. CASE Send(t)
    BY <1>2, <1>9, SendOrderly
  <1> QED
    BY <1>4, <1>6, <1>7, <1>8, <1>9 DEF Step, Receive

(***************************************************************************)
(* The ECU serves the request of the one call in progress.                 *)
(***************************************************************************)

\* What the ECU adds to an exchange it has not ended yet.
LEMMA EcuExtends ==
  ASSUME TypeOK, NEW t \in Tasks, InCall(t), Exchange(t), tx # <<>>, EcuServe \/ EcuSilent,
         UNCHANGED clientVars
  PROVE  /\ Exchange(t)'
         /\ \A n \in CallId : n # id[t] => executed'[n] = executed[n]
  <1>1. tx = <<[raw |-> Request(t), origin |-> id[t]]>> /\ executed[id[t]] = 0
    BY DEF Exchange
  <1>2. Serving.raw = Request(t) /\ Serving.origin = id[t] /\ Tail(tx) = <<>>
    BY <1>1 DEF Serving
  <1>3. rx \in Seq(Packet) /\ executed \in [CallId -> Nat] /\ id[t] \in CallId
    BY <1>2, ServingIsTyped DEF TypeOK, LinkTypeOK
  <1>4. UNCHANGED <<call[t], id[t]>> /\ Request(t)' = Request(t)
    BY DEF clientVars, Request
  <1>5. StemFrom(rx, id[t]) /\ \A i \in 1 .. Len(rx) : Interim(t, rx[i].raw)
    BY DEF Exchange, Ending
  <1>6. \A raw : Interim(t, raw) <=> IsPending(raw) /\ raw[2] = Request(t)'[1]
    BY <1>4 DEF Interim
  <1>7. Execute => /\ executed'[id[t]] = 1
                   /\ \A n \in CallId : n # id[t] => executed'[n] = executed[n]
    BY <1>1, <1>2, <1>3 DEF Execute
  <1>8. ASSUME NEW raw, Answer(raw)
        PROVE  /\ rx' # <<>>
               /\ StemFrom(rx, id[t])'
               /\ \A i \in 1 .. Len(rx') :
                    IF i = Len(rx') THEN rx'[i].raw = raw ELSE Interim(t, rx'[i].raw)
    <2> DEFINE packet == [raw |-> raw, origin |-> Serving.origin]
    <2>1. rx' = Append(rx, packet)
      BY <1>8 DEF Answer
    <2>2. packet.raw = raw /\ packet.origin = id[t]
      BY <1>2
    <2> HIDE DEF packet
    <2>3. /\ Len(rx) \in Nat /\ Len(rx') = Len(rx) + 1
          /\ rx'[Len(rx) + 1] = packet
          /\ \A i \in 1 .. Len(rx) : rx'[i] = rx[i]
      BY <1>3, <2>1, AppendProperties, LenProperties
    <2>4. \A i \in 1 .. Len(rx') : i = Len(rx') \/ i \in 1 .. Len(rx)
      BY <2>3
    <2>5. StemFrom(rx, id[t])'
      BY <1>4, <1>5, <2>2, <2>3, <2>4 DEF StemFrom
    <2>6. \A i \in 1 .. Len(rx') :
            IF i = Len(rx') THEN rx'[i].raw = raw ELSE Interim(t, rx'[i].raw)
      BY <1>5, <2>2, <2>3, <2>4
    <2>7. rx' # <<>>
      BY <1>3, <2>1, AppendProperties
    <2> QED
      BY <2>5, <2>6, <2>7
  <1>9. CASE EcuAnswer
    <2>1. PICK raw \in Answers[Serving.raw] :
            Answer(raw) /\ (IF IsPositive(raw) THEN Execute ELSE UNCHANGED executed)
      BY <1>9 DEF EcuAnswer
    <2>2. ~ IsPending(raw)
      BY <2>1, ServingIsTyped, LinkAssumption DEF Final, TypeOK
    <2>3. tx' = <<>> /\ executed'[id[t]] = IF IsPositive(raw) THEN 1 ELSE 0
      BY <1>1, <1>2, <1>7, <1>9, <2>1 DEF EcuAnswer, Served
    <2>4. (\A i \in 1 .. Len(rx) :
             Interim(t, rx[i].raw) \/ (i = Len(rx) /\ Ending(t, rx[i].raw)))'
      BY <1>4, <1>6, <1>8, <2>1, <2>2, <2>3 DEF Interim, Ending
    <2> QED
      BY <1>4, <1>7, <1>8, <2>1, <2>3, <2>4 DEF Exchange
  <1>10. CASE EcuPending
    <2> DEFINE raw == <<NEGATIVE_RESPONSE_SID, Serving.raw[1],
                        RequestCorrectlyReceivedResponsePending>>
    <2>1. Answer(raw) /\ UNCHANGED <<tx, executed>>
      BY <1>10 DEF EcuPending
    <2>2. IsPending(raw) /\ raw[2] = Request(t)'[1]
      BY <1>2, <1>4 DEF IsPending
    <2> HIDE DEF raw
    <2>3. (\A i \in 1 .. Len(rx) :
             Interim(t, rx[i].raw) \/ (i = Len(rx) /\ Ending(t, rx[i].raw)))'
      BY <1>6, <1>8, <2>1, <2>2 DEF Interim
    <2> QED
      BY <1>1, <1>4, <1>8, <2>1, <2>3 DEF Exchange
  <1>11. CASE EcuBusy
    <2> DEFINE raw == <<NEGATIVE_RESPONSE_SID, Serving.raw[1], BusyRepeatRequest>>
    <2>1. Answer(raw) /\ tx' = <<>> /\ UNCHANGED executed
      BY <1>2, <1>11 DEF EcuBusy, Served
    <2>2. ~ IsPending(raw) /\ ~ IsPositive(raw)
      BY DEF IsPending, IsPositive, BusyRepeatRequest, RequestCorrectlyReceivedResponsePending
    <2> HIDE DEF raw
    <2>3. (\A i \in 1 .. Len(rx) :
             Interim(t, rx[i].raw) \/ (i = Len(rx) /\ Ending(t, rx[i].raw)))'
      BY <1>1, <1>4, <1>6, <1>8, <2>1, <2>2 DEF Interim, Ending
    <2> QED
      BY <1>1, <1>4, <1>8, <2>1, <2>3 DEF Exchange
  <1>12. CASE EcuSilent
    <2>1. tx' = <<>> /\ rx' = rx /\ (Execute \/ UNCHANGED executed)
      BY <1>2, <1>12 DEF EcuSilent, Served
    <2>2. executed'[id[t]] <= 1
      BY <1>1, <1>7, <2>1
    <2> QED
      BY <1>4, <1>5, <1>6, <1>7, <2>1, <2>2 DEF Exchange, StemFrom, Interim
  <1> QED
    BY <1>9, <1>10, <1>11, <1>12 DEF EcuServe

LEMMA EcuOrderly ==
  ASSUME OrderlyInvariant, orderly, Ecu
  PROVE  OneCall' /\ OrderlyLineIdle' /\ \A u \in Tasks : OrderlyCall(u)'
  <1>1. /\ TypeOK /\ CallsAreNumbered /\ OneCall /\ OrderlyLineIdle
        /\ \A u \in Tasks : OrderlyCall(u)
    BY DEF OrderlyInvariant
  <1>2. tx # <<>> /\ (EcuServe \/ EcuSilent) /\ UNCHANGED clientVars
    BY DEF Ecu, EcuServe, EcuAnswer, EcuPending, EcuBusy, EcuSilent
  <1>3. UNCHANGED <<pc, call, outcome, id, took, orderly>>
    BY <1>2 DEF clientVars
  <1>4. PICK t \in Tasks : InCall(t)
    BY <1>1, <1>2 DEF OrderlyLineIdle, LineIdle
  <1>5. pc[t] \in {"recv", "pending"} /\ Exchange(t)
    BY <1>1, <1>2, <1>4 DEF TypeOK, InCall, OrderlyCall, LineIdle
  <1>6. Exchange(t)' /\ \A n \in CallId : n # id[t] => executed'[n] = executed[n]
    BY <1>1, <1>2, <1>4, <1>5, EcuExtends
  <1>7. OrderlyCall(t)'
    BY <1>1, <1>3, <1>5, <1>6
    DEF OrderlyCall, OutcomeTellsExecution, Returned, InCall, StemFrom
  <1>8. ASSUME NEW u \in Tasks, u # t PROVE OrderlyCall(u)'
    <2>1. ~ InCall(u)
      BY <1>1, <1>4, <1>8 DEF OneCall
    <2>2. id[u] # 0 => id[u] \in CallId /\ id[u] # id[t]
      BY <1>1, <1>8, LinkAssumption DEF CallsAreNumbered, TypeOK, CallId
    <2> QED
      BY <1>1, <1>3, <1>6, <2>1, <2>2, IdleTaskKeeps
  <1>9. OneCall' /\ OrderlyLineIdle'
    BY <1>1, <1>3, <1>4 DEF OneCall, OrderlyLineIdle, InCall
  <1> QED
    BY <1>7, <1>8, <1>9

(***************************************************************************)
(* The invariant and what follows from it.                                 *)
(***************************************************************************)

LEMMA OrderlyInit == Init => OrderlyInvariant
  <1> SUFFICES ASSUME Init PROVE OrderlyInvariant
    OBVIOUS
  <1>1. TypeOK
    BY InitTypeOK
  <1>2. CallsAreNumbered
    BY DEF Init, LinkInit, CallsAreNumbered
  <1>3. LineIdle /\ \A t \in Tasks : ~ InCall(t) /\ id[t] = 0 /\ took[t] = <<>>
    BY DEF Init, LinkInit, LineIdle, InCall
  <1>4. \A t \in Tasks : OrderlyCall(t)
    BY <1>3 DEF OrderlyCall, StemFrom, OutcomeTellsExecution, Returned, InCall
  <1> QED
    BY <1>1, <1>2, <1>3, <1>4 DEF OrderlyInvariant, OneCall, OrderlyLineIdle

LEMMA OrderlyStep ==
  ASSUME OrderlyInvariant, [Next]_vars
  PROVE  OrderlyInvariant'
  <1>1. TypeOK /\ CallsAreNumbered
    BY DEF OrderlyInvariant
  <1>2. TypeOK' /\ CallsAreNumbered'
    BY <1>1, TypeStep, NumbersStep
  <1>3. ASSUME orderly'
        PROVE  OneCall' /\ OrderlyLineIdle' /\ \A u \in Tasks : OrderlyCall(u)'
    <2>1. ASSUME NEW t \in Tasks, Step(t)
          PROVE  OneCall' /\ OrderlyLineIdle' /\ \A u \in Tasks : OrderlyCall(u)'
      BY <1>3, <2>1, TaskOrderly
    <2>2. CASE Ecu
      <3>1. orderly
        BY <1>3, <2>2 DEF Ecu, clientVars
      <3> QED
        BY <2>2, <3>1, EcuOrderly
    <2>3. CASE UNCHANGED vars
      <3>1. orderly
        BY <1>3, <2>3 DEF vars, clientVars
      <3>2. OneCall /\ OrderlyLineIdle /\ \A u \in Tasks : OrderlyCall(u)
        BY <3>1 DEF OrderlyInvariant
      <3> QED
        BY <2>3, <3>2
        DEF vars, clientVars, linkVars, OneCall, OrderlyLineIdle, LineIdle, InCall, OrderlyCall,
            StemFrom, OutcomeTellsExecution, Returned, Exchange, Interim, Ending, Request
    <2> QED
      BY <2>1, <2>2, <2>3 DEF Next
  <1> QED
    BY <1>2, <1>3 DEF OrderlyInvariant

\* The invariant of orderly use, for every set of tasks, calls and answers.
THEOREM OrderlyCorrect == Spec => []OrderlyInvariant
  BY OrderlyInit, OrderlyStep, PTL DEF Spec

\* Until a call is abandoned or overlaps another, send_and_receive hands every
\* call nothing but answers to its own request.
THEOREM AnswersAreOwn == Spec => []OrderlyAnswersAreOwn
  <1>1. OrderlyInvariant => OrderlyAnswersAreOwn
    BY DEF OrderlyInvariant, OrderlyAnswersAreOwn, OrderlyCall
  <1> QED
    BY <1>1, OrderlyCorrect, PTL

\* Until then an Ok means that the ECU performed the request exactly once, and
\* a negative response that it did not, however often it was repeated.
THEOREM OutcomesTellExecution == Spec => []OrderlyOutcomeTellsExecution
  <1>1. OrderlyInvariant => OrderlyOutcomeTellsExecution
    BY DEF OrderlyInvariant, OrderlyOutcomeTellsExecution, OrderlyCall
  <1> QED
    BY <1>1, OrderlyCorrect, PTL

\* Until then nothing stays on the line between calls.
THEOREM LineIsIdle == Spec => []OrderlyLineIdle
  <1>1. OrderlyInvariant => OrderlyLineIdle
    BY DEF OrderlyInvariant, OrderlyLineIdle
  <1> QED
    BY <1>1, OrderlyCorrect, PTL

(***************************************************************************)
(* The refinement.                                                         *)
(***************************************************************************)
LEMMA InitImplements == Init => Abstract!Init
  <1> SUFFICES ASSUME Init PROVE Abstract!Init
    OBVIOUS
  <1>1. verdict = [t \in Tasks |-> "none"]
    BY DEF Init, verdict, InCall
  <1> QED
    BY <1>1 DEF Init, LinkInit, Abstract!Init, CallId

\* A step of a task in a call either leaves it there or returns.
LEMMA StepShape ==
  ASSUME TypeOK, NEW t \in Tasks, Step(t), \A c \in Calls : ~ Start(t, c)
  PROVE  /\ UNCHANGED <<issued, id, executed>>
         /\ InCall(t)
         /\ \/ InCall(t)' /\ UNCHANGED orderly
            \/ \E r : Return(t, r)
  <1>1. Receive(t) => Take(t)
    BY DEF Receive, ReceiveAnswer, ReceiveError, ReceiveForeignNrc, ReceiveNrc, ReceivePending,
           RepeatRequest, GiveUp, RetryOverflow, ReceiveDelayed, ReceiveOwnNrc
  <1>2. Take(t) => UNCHANGED <<issued, id, executed>>
    BY DEF Take, receive
  <1>3. UNCHANGED <<issued, id, executed>>
    BY <1>1, <1>2
    DEF Step, Send, send, SendFails, ReceiveFails, PendingTimeout, Cancel, linkVars
  <1>4. InCall(t)
    BY DEF Step, Send, SendFails, Receive, ReceiveAnswer, ReceiveError, ReceiveForeignNrc,
           ReceiveNrc, ReceivePending, RepeatRequest, GiveUp, RetryOverflow, ReceiveDelayed,
           ReceiveOwnNrc, ReceiveFails, PendingTimeout, Cancel, InCall
  <1>5. CASE Send(t) \/ ReceivePending(t) \/ RepeatRequest(t)
    BY <1>3, <1>4, <1>5 DEF Send, ReceivePending, RepeatRequest, InCall, TypeOK
  <1>6. CASE \/ SendFails(t) \/ ReceiveFails(t) \/ PendingTimeout(t) \/ Cancel(t)
             \/ ReceiveAnswer(t) \/ ReceiveError(t) \/ ReceiveForeignNrc(t) \/ ReceiveNrc(t)
             \/ GiveUp(t) \/ RetryOverflow(t) \/ ReceiveDelayed(t)
    <2>1. \E r : Return(t, r)
      BY <1>6
      DEF SendFails, ReceiveFails, PendingTimeout, Cancel, ReceiveAnswer, ReceiveError,
          ReceiveForeignNrc, ReceiveNrc, GiveUp, RetryOverflow, ReceiveDelayed
    <2> QED
      BY <1>3, <1>4, <2>1
  <1> QED
    BY <1>5, <1>6 DEF Step, Receive

\* What one task does changes no other verdict.
LEMMA OneVerdict ==
  ASSUME TypeOK, NEW t \in Tasks, Step(t)
  PROVE  verdict' = [verdict EXCEPT ![t] = verdict'[t]]
  <1>1. ASSUME NEW u \in Tasks, u # t
        PROVE  verdict'[u] = verdict[u]
    <2>1. UNCHANGED <<pc[u], outcome[u], id[u], took[u]>>
      BY <1>1, StepKeepsOthers
    <2> QED
      BY <2>1 DEF verdict, InCall
  <1>2. DOMAIN verdict = Tasks /\ verdict' = [u \in Tasks |-> verdict'[u]]
    BY DEF verdict
  <1> QED
    BY <1>1, <1>2

LEMMA AbandonedIsUnclear ==
  ASSUME NEW r, Abandoned(r)
  PROVE  VerdictOf(r) = "unclear"
  BY DEF Abandoned, VerdictOf, IsOk, OkTags

LEMMA VerdictRange ==
  ASSUME NEW r
  PROVE  /\ VerdictOf(r) \in {"performed", "refused", "unclear"}
         /\ VerdictOf(r) = "performed" => IsOk(r)
         /\ VerdictOf(r) = "refused" => r.tag \in {"NRC", "UnknownNRC"}
  BY DEF VerdictOf

LEMMA StartImplements ==
  ASSUME TypeOK, NEW t \in Tasks, NEW c \in Calls, Start(t, c)
  PROVE  Abstract!Ask(t)
  <1>1. Step(t)
    BY DEF Step
  <1>2. \A u \in Tasks : Abstract!Open(u) <=> InCall(u)
    BY DEF Abstract!Open, verdict, VerdictOf
  <1>3. verdict'[t] = "open"
    BY DEF Start, verdict, InCall, TypeOK
  <1>4. verdict' = [verdict EXCEPT ![t] = "open"]
    BY <1>1, <1>3, OneVerdict
  <1> QED
    BY <1>2, <1>4 DEF Start, linkVars, Abstract!Ask

LEMMA ReturnImplements ==
  ASSUME OrderlyInvariant, OrderlyInvariant', NEW t \in Tasks, Step(t), InCall(t),
         UNCHANGED <<issued, id, executed>>, NEW r, Return(t, r)
  PROVE  Abstract!Learn(t) \/ Abstract!GiveUp(t)
  <1>1. TypeOK
    BY DEF OrderlyInvariant
  <1>2. /\ pc'[t] = "ready" /\ outcome'[t] = r /\ orderly' = (orderly /\ ~ Abandoned(r))
        /\ id[t] # 0 /\ id'[t] = id[t]
    BY <1>1 DEF Return, TypeOK
  <1>3. Abstract!Open(t)
    BY DEF Abstract!Open, verdict
  <1>4. verdict'[t] = VerdictOf(r)
    BY <1>2 DEF verdict, InCall
  <1>5. verdict' = [verdict EXCEPT ![t] = VerdictOf(r)]
    BY <1>1, <1>4, OneVerdict
  <1>6. CASE Abandoned(r)
    <2>1. VerdictOf(r) = "unclear" /\ orderly' = FALSE
      BY <1>2, <1>6, AbandonedIsUnclear
    <2> QED
      BY <1>3, <1>5, <2>1 DEF Abstract!GiveUp, Abstract!Settle
  <1>7. CASE ~ Abandoned(r)
    <2>1. orderly' = orderly
      BY <1>1, <1>2, <1>7 DEF TypeOK
    <2>2. ASSUME orderly
          PROVE  /\ VerdictOf(r) = "performed" => executed[id[t]] = 1
                 /\ VerdictOf(r) = "refused" => executed[id[t]] = 0
      <3>1. OutcomeTellsExecution(t)'
        BY <2>1, <2>2 DEF OrderlyInvariant, OrderlyCall
      <3>2. Returned(t)'
        BY <1>2 DEF Returned, InCall
      <3> QED
        BY <1>2, <3>1, <3>2, VerdictRange DEF OutcomeTellsExecution
    <2>3. Abstract!Settle(t, VerdictOf(r))
      BY <1>3, <1>5, <2>2 DEF Abstract!Settle
    <2> QED
      BY <2>1, <2>3, VerdictRange DEF Abstract!Learn
  <1> QED
    BY <1>6, <1>7

LEMMA TaskImplements ==
  ASSUME OrderlyInvariant, OrderlyInvariant', NEW t \in Tasks, Step(t)
  PROVE  Abstract!Ask(t) \/ Abstract!Learn(t) \/ Abstract!GiveUp(t) \/ UNCHANGED Abstract!vars
  <1>1. TypeOK
    BY DEF OrderlyInvariant
  <1>2. ASSUME NEW c \in Calls, Start(t, c) PROVE Abstract!Ask(t)
    BY <1>1, <1>2, StartImplements
  <1>3. CASE \A c \in Calls : ~ Start(t, c)
    <2>1. UNCHANGED <<issued, id, executed>> /\ InCall(t)
      BY <1>1, <1>3, StepShape
    <2>2. CASE InCall(t)' /\ UNCHANGED orderly
      <3>1. verdict'[t] = verdict[t]
        BY <2>1, <2>2 DEF verdict
      <3>2. verdict' = verdict
        <4>1. DOMAIN verdict = Tasks /\ verdict = [u \in Tasks |-> verdict[u]]
          BY DEF verdict
        <4> QED
          BY <1>1, <3>1, <4>1, OneVerdict
      <3> QED
        BY <2>1, <2>2, <3>2 DEF Abstract!vars
    <2>3. ASSUME NEW r, Return(t, r) PROVE Abstract!Learn(t) \/ Abstract!GiveUp(t)
      BY <2>1, <2>3, ReturnImplements
    <2> QED
      BY <1>1, <1>3, <2>2, <2>3, StepShape
  <1> QED
    BY <1>2, <1>3

LEMMA EcuImplements ==
  ASSUME OrderlyInvariant, Ecu
  PROVE  (\E n \in 1 .. MaxCalls : Abstract!Perform(n)) \/ UNCHANGED Abstract!vars
  <1>1. TypeOK /\ CallsAreNumbered /\ tx \in Seq(RequestPacket)
    BY DEF OrderlyInvariant, TypeOK, LinkTypeOK
  <1>2. tx # <<>> /\ (Execute \/ UNCHANGED executed) /\ UNCHANGED clientVars
    BY DEF Ecu, EcuServe, EcuAnswer, EcuPending, EcuBusy, EcuSilent
  <1>3. UNCHANGED <<issued, id, verdict, orderly>>
    BY <1>2 DEF clientVars, verdict, InCall
  <1>4. CASE UNCHANGED executed
    BY <1>3, <1>4 DEF Abstract!vars
  <1>5. CASE Execute
    <2>1. Serving = tx[1] /\ 1 \in 1 .. Len(tx)
      BY <1>1, <1>2, HeadTailProperties, LenProperties DEF Serving
    <2>2. Serving.origin \in CallId /\ Serving.origin <= issued
      BY <1>1, <1>2, <2>1, ServingIsTyped DEF TypeOK, CallsAreNumbered
    <2>3. ASSUME orderly
          PROVE  /\ executed[Serving.origin] = 0
                 /\ \E t \in Tasks : Abstract!Open(t) /\ id[t] = Serving.origin
      <3>1. PICK t \in Tasks : InCall(t)
        BY <1>2, <2>3 DEF OrderlyInvariant, OrderlyLineIdle, LineIdle
      <3>2. Exchange(t)
        BY <1>1, <1>2, <2>3, <3>1 DEF OrderlyInvariant, TypeOK, InCall, OrderlyCall, LineIdle
      <3>3. tx = <<[raw |-> Request(t), origin |-> id[t]]>> /\ executed[id[t]] = 0
        BY <1>2, <3>2 DEF Exchange
      <3>4. Serving.origin = id[t]
        BY <3>3 DEF Serving
      <3>5. Abstract!Open(t)
        BY <3>1 DEF Abstract!Open, verdict
      <3> QED
        BY <3>3, <3>4, <3>5
    <2>4. Abstract!Perform(Serving.origin)
      BY <1>3, <1>5, <2>2, <2>3 DEF Abstract!Perform, Execute
    <2> QED
      BY <2>2, <2>4 DEF CallId
  <1> QED
    BY <1>2, <1>4, <1>5

LEMMA StepImplements ==
  ASSUME OrderlyInvariant, [Next]_vars
  PROVE  [Abstract!Next]_(Abstract!vars)
  <1>1. OrderlyInvariant'
    BY OrderlyStep
  <1>2. ASSUME NEW t \in Tasks, Step(t) PROVE Abstract!Next \/ UNCHANGED Abstract!vars
    BY <1>1, <1>2, TaskImplements DEF Abstract!Next
  <1>3. CASE Ecu
    BY <1>3, EcuImplements DEF Abstract!Next
  <1>4. CASE UNCHANGED vars
    BY <1>4 DEF vars, clientVars, linkVars, Abstract!vars, verdict, InCall
  <1> QED
    BY <1>2, <1>3, <1>4 DEF Next

\* send_and_receive, with its repeats, its second wait and everything the bus
\* may do to it, implements the exchange a caller has in mind.
THEOREM ClientImplementsExchange == Spec => ImplementsExchange
  BY OrderlyCorrect, InitImplements, StepImplements, PTL
  DEF Spec, ImplementsExchange, Abstract!Spec

(***************************************************************************)
(* What follows from the promise alone.                                    *)
(***************************************************************************)

LEMMA ExchangePerforms ==
  ASSUME Abstract!ExchangeTypeOK, Abstract!AtMostOnce, [Abstract!Next]_(Abstract!vars)
  PROVE  (Abstract!ExchangeTypeOK /\ Abstract!AtMostOnce)'
  <1> USE LinkAssumption
      DEF Abstract!ExchangeTypeOK, Abstract!AtMostOnce, Abstract!Verdicts
  <1>1. ASSUME NEW c \in Tasks, Abstract!Ask(c)
        PROVE  (Abstract!ExchangeTypeOK /\ Abstract!AtMostOnce)'
    BY <1>1 DEF Abstract!Ask
  <1>2. ASSUME NEW c \in Tasks, Abstract!Learn(c) \/ Abstract!GiveUp(c)
        PROVE  (Abstract!ExchangeTypeOK /\ Abstract!AtMostOnce)'
    <2>1. PICK v \in {"performed", "refused", "unclear"} : Abstract!Settle(c, v)
      BY <1>2 DEF Abstract!Learn, Abstract!GiveUp
    <2>2. orderly' = orderly \/ orderly' = FALSE
      BY <1>2 DEF Abstract!Learn, Abstract!GiveUp
    <2>3. verdict' = [verdict EXCEPT ![c] = v] /\ UNCHANGED <<issued, id, executed>>
      BY <2>1 DEF Abstract!Settle
    <2>4. verdict' \in [Tasks -> {"none", "open", "performed", "refused", "unclear"}]
      BY <2>3
    <2>5. orderly' \in BOOLEAN /\ (orderly' => orderly)
      <3>1. CASE orderly' = orderly
        BY <3>1
      <3>2. CASE orderly' = FALSE
        BY <3>2
      <3> QED
        BY <2>2, <3>1, <3>2
    <2> QED
      BY <2>3, <2>4, <2>5
  <1>3. ASSUME NEW n \in 1 .. MaxCalls, Abstract!Perform(n)
        PROVE  (Abstract!ExchangeTypeOK /\ Abstract!AtMostOnce)'
    BY <1>3 DEF Abstract!Perform
  <1>4. CASE UNCHANGED Abstract!vars
    BY <1>4 DEF Abstract!vars
  <1> QED
    BY <1>1, <1>2, <1>3, <1>4 DEF Abstract!Next

\* An exchange that keeps the promise performs nothing twice.
THEOREM ExchangeAtMostOnce == Abstract!Spec => []PerformedAtMostOnce
  <1>1. Abstract!Init => Abstract!ExchangeTypeOK /\ Abstract!AtMostOnce
    BY LinkAssumption
    DEF Abstract!Init, Abstract!ExchangeTypeOK, Abstract!AtMostOnce, Abstract!Verdicts
  <1> QED
    BY <1>1, ExchangePerforms, PTL DEF Abstract!Spec, PerformedAtMostOnce

\* So neither does the client.
THEOREM ClientPerformsAtMostOnce == Spec => []PerformedAtMostOnce
  BY ClientImplementsExchange, ExchangeAtMostOnce, PTL DEF ImplementsExchange

==============================================================================
