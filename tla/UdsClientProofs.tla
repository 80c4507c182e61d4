--------------------------- MODULE UdsClientProofs ---------------------------
(***************************************************************************)
(* Invariants of UdsClient, for every set of tasks, calls and answers,     *)
(* every width of the retry counter and every combination of faults.       *)
(***************************************************************************)
EXTENDS UdsClientProperties, UdsServiceProofs

(***************************************************************************)
(* The steps of the link.                                                  *)
(***************************************************************************)

LEMMA RequestIsTyped ==
  ASSUME TypeOK, NEW t \in Tasks
  PROVE  Request(t) \in Requests /\ Request(t) \in Seq(Byte) /\ Request(t)[1] \in Byte
  <1>1. call[t] \in Calls
    BY DEF TypeOK
  <1>2. Request(t) \in Seq(Byte) /\ Request(t) # <<>> /\ Request(t) \in DOMAIN Answers
    BY <1>1, ClientAssumption DEF Request
  <1> QED
    BY <1>2 DEF Requests

LEMMA TakeIsTyped ==
  ASSUME TypeOK, NEW t \in Tasks, Take(t)
  PROVE  /\ LinkTypeOK'
         /\ took' \in [Tasks -> Seq(Packet)]
         /\ call' \in [Tasks -> Calls]
         /\ id' \in [Tasks -> 0 .. issued']
         /\ issued' \in 0 .. MaxCalls
         /\ Head(rx) \in Packet
         /\ raw_response \in Seq(Byte)
  <1>1. rx \in Seq(Packet) /\ rx # <<>>
    BY DEF TypeOK, LinkTypeOK, Take, receive
  <1>2. Head(rx) \in Packet /\ Tail(rx) \in Seq(Packet)
    BY <1>1
  <1>3. raw_response \in Seq(Byte)
    BY <1>2 DEF raw_response, Packet
  <1>4. took' \in [Tasks -> Seq(Packet)]
    BY <1>2 DEF TypeOK, Take
  <1> QED
    BY <1>2, <1>3, <1>4 DEF TypeOK, LinkTypeOK, Take, receive

LEMMA SendIsTyped ==
  ASSUME TypeOK, NEW t \in Tasks, InCall(t), send(Request(t), id[t])
  PROVE  LinkTypeOK'
  <1>1. id[t] \in CallId
    <2>1. id[t] \in 0 .. issued /\ issued \in 0 .. MaxCalls /\ id[t] # 0
      BY DEF TypeOK
    <2> QED
      BY <2>1, LinkAssumption DEF CallId
  <1> DEFINE packet == [raw |-> Request(t), origin |-> id[t]]
  <1>2. packet \in RequestPacket
    BY <1>1, RequestIsTyped DEF RequestPacket
  <1>3. tx' \in Seq(RequestPacket)
    <2>1. tx' = Append(tx, packet)
      BY DEF send
    <2> HIDE DEF packet
    <2> QED
      BY <1>2, <2>1 DEF TypeOK, LinkTypeOK
  <1> QED
    BY <1>3 DEF TypeOK, LinkTypeOK, send

LEMMA ServingIsTyped ==
  ASSUME LinkTypeOK, tx # <<>>
  PROVE  /\ Serving \in RequestPacket
         /\ Serving.origin \in CallId
         /\ Serving.raw \in DOMAIN Answers
         /\ Serving.raw[1] \in Byte
         /\ Tail(tx) \in Seq(RequestPacket)
  <1>1. Serving \in RequestPacket /\ Tail(tx) \in Seq(RequestPacket)
    BY DEF LinkTypeOK, Serving
  <1>2. Serving.origin \in CallId /\ Serving.raw \in Requests
    BY <1>1 DEF RequestPacket
  <1>3. Serving.raw \in Seq(Byte) /\ Serving.raw # <<>> /\ Serving.raw \in DOMAIN Answers
    BY <1>2 DEF Requests
  <1> QED
    BY <1>1, <1>2, <1>3

LEMMA AnswerIsTyped ==
  ASSUME LinkTypeOK, tx # <<>>, NEW raw \in Seq(Byte), Answer(raw)
  PROVE  rx' \in Seq(Packet)
  <1>1. [raw |-> raw, origin |-> Serving.origin] \in Packet
    BY ServingIsTyped DEF Packet
  <1> QED
    BY <1>1 DEF Answer, LinkTypeOK

LEMMA NegativeIsTyped ==
  ASSUME NEW sid \in Byte, NEW nrc \in Byte
  PROVE  <<NEGATIVE_RESPONSE_SID, sid, nrc>> \in Seq(Byte)
  <1>1. NEGATIVE_RESPONSE_SID \in Byte
    BY DEF NEGATIVE_RESPONSE_SID, Byte
  <1> QED
    BY <1>1

\* Whatever the ECU does keeps the types of the link.
LEMMA EcuIsTyped ==
  ASSUME LinkTypeOK, EcuServe \/ EcuSilent
  PROVE  LinkTypeOK'
  <1>1. ASSUME tx # <<>>, Execute PROVE executed' \in [CallId -> Nat]
    BY <1>1, ServingIsTyped DEF LinkTypeOK, Execute
  <1>2. 0 \in 0 .. MaxPending
    BY LinkAssumption
  <1>3. CASE EcuAnswer
    <2>1. PICK raw \in Answers[Serving.raw] :
            Answer(raw) /\ (IF IsPositive(raw) THEN Execute ELSE UNCHANGED executed)
      BY <1>3 DEF EcuAnswer
    <2>2. raw \in Seq(Byte)
      BY <1>3, <2>1, ServingIsTyped, LinkAssumption DEF EcuAnswer
    <2>3. rx' \in Seq(Packet)
      BY <1>3, <2>1, <2>2, AnswerIsTyped DEF EcuAnswer
    <2>4. executed' \in [CallId -> Nat]
      BY <1>1, <1>3, <2>1 DEF EcuAnswer, LinkTypeOK
    <2> QED
      BY <1>2, <1>3, <2>3, <2>4, ServingIsTyped DEF EcuAnswer, Served, LinkTypeOK
  <1>4. CASE EcuPending
    <2>1. <<NEGATIVE_RESPONSE_SID, Serving.raw[1], RequestCorrectlyReceivedResponsePending>>
            \in Seq(Byte)
      <3>1. RequestCorrectlyReceivedResponsePending \in Byte
        BY DEF RequestCorrectlyReceivedResponsePending, Byte
      <3> QED
        BY <1>4, <3>1, ServingIsTyped, NegativeIsTyped DEF EcuPending
    <2>2. rx' \in Seq(Packet)
      BY <1>4, <2>1, AnswerIsTyped DEF EcuPending
    <2>3. pendings' \in 0 .. MaxPending
      BY <1>4, LinkAssumption DEF EcuPending, LinkTypeOK
    <2> QED
      BY <1>4, <2>2, <2>3 DEF EcuPending, LinkTypeOK
  <1>5. CASE EcuBusy
    <2>1. <<NEGATIVE_RESPONSE_SID, Serving.raw[1], BusyRepeatRequest>> \in Seq(Byte)
      <3>1. BusyRepeatRequest \in Byte
        BY DEF BusyRepeatRequest, Byte
      <3> QED
        BY <1>5, <3>1, ServingIsTyped, NegativeIsTyped DEF EcuBusy
    <2>2. rx' \in Seq(Packet)
      BY <1>5, <2>1, AnswerIsTyped DEF EcuBusy
    <2> QED
      BY <1>2, <1>5, <2>2, ServingIsTyped DEF EcuBusy, Served, LinkTypeOK
  <1>6. CASE EcuSilent
    <2>1. executed' \in [CallId -> Nat]
      BY <1>1, <1>6 DEF EcuSilent, LinkTypeOK
    <2> QED
      BY <1>2, <1>6, <2>1, ServingIsTyped DEF EcuSilent, Served, LinkTypeOK
  <1> QED
    BY <1>3, <1>4, <1>5, <1>6 DEF EcuServe

(***************************************************************************)
(* Type correctness.                                                       *)
(***************************************************************************)

LEMMA ResultTypes ==
  /\ ParserResult \subseteq Result
  /\ Err("CommunicationError") \in Result
  /\ NoResult("None") \in Result /\ NoResult("Panic") \in Result /\ NoResult("Cancelled") \in Result
  /\ \A a, b \in Nat : SidMismatch(a, b) \in Result /\ NRC(a, b) \in Result
  <1>1. ParserResult \subseteq Result
    BY DEF ParserResult, ParserTags, Result, ErrTags, NoResultTags
  <1>2. \A a, b \in Nat : SidMismatch(a, b) \in Result /\ NRC(a, b) \in Result
    BY NaturalSequences DEF SidMismatch, NRC, Result, ErrTags
  <1> QED
    BY <1>1, <1>2 DEF Err, NoResult, Result, ErrTags, NoResultTags

RetryRange == (-RetryHalf) .. (RetryHalf - 1)

LEMMA DecrementedIsTyped ==
  ASSUME TypeOK, NEW t \in Tasks,
         retry_counter' = [retry_counter EXCEPT ![t] = Decremented(@)]
  PROVE  retry_counter' \in [Tasks -> RetryRange]
  <1>1. \A n \in RetryRange : Decremented(n) \in RetryRange
    BY ClientAssumption DEF Decremented, RetryRange
  <1>2. retry_counter \in [Tasks -> RetryRange]
    BY DEF TypeOK, RetryRange
  <1> QED
    BY <1>1, <1>2

\* A return with a typed result keeps the types of the client's own state.
LEMMA ReturnIsTyped ==
  ASSUME TypeOK, NEW t \in Tasks, NEW r \in Result, Return(t, r)
  PROVE  /\ pc' \in [Tasks -> {"ready", "send", "recv", "pending"}]
         /\ outcome' \in [Tasks -> Result]
         /\ orderly' \in BOOLEAN
         /\ \A u \in Tasks : InCall(u)' => InCall(u)
  <1>1. pc' \in [Tasks -> {"ready", "send", "recv", "pending"}] /\ outcome' \in [Tasks -> Result]
    BY DEF TypeOK, Return
  <1>2. orderly' \in BOOLEAN
    BY DEF TypeOK, Return
  <1>3. \A u \in Tasks : InCall(u)' => InCall(u)
    BY DEF TypeOK, Return, InCall
  <1> QED
    BY <1>1, <1>2, <1>3

LEMMA TakeReturnIsTyped ==
  ASSUME TypeOK, NEW t \in Tasks, NEW r \in Result, Take(t), Return(t, r),
         retry_counter' \in [Tasks -> RetryRange]
  PROVE  TypeOK'
  <1>1. id' = id /\ issued' = issued
    BY DEF Take
  <1>2. \A u \in Tasks : InCall(u)' => id'[u] # 0
    BY <1>1, ReturnIsTyped DEF TypeOK
  <1> QED
    BY <1>2, TakeIsTyped, ReturnIsTyped DEF TypeOK, RetryRange

\* The same for the actions that return without having received anything.
LEMMA PlainReturnIsTyped ==
  ASSUME TypeOK, NEW t \in Tasks, NEW r \in Result, Return(t, r),
         UNCHANGED <<call, retry_counter, id, took, issued, linkVars>>
  PROVE  TypeOK'
  <1>1. LinkTypeOK'
    BY DEF TypeOK, LinkTypeOK, linkVars
  <1>2. \A u \in Tasks : InCall(u)' => id'[u] # 0
    BY ReturnIsTyped DEF TypeOK
  <1> QED
    BY <1>1, <1>2, ReturnIsTyped DEF TypeOK

\* What the arms of the loop in send_and_receive look at.
LEMMA VerdictIsTyped ==
  ASSUME TypeOK, NEW t \in Tasks, Take(t)
  PROVE  /\ raw_response \in Seq(Byte)
         /\ Verdict \in Result
         /\ Verdict.tag = "NRC" =>
              /\ Len(raw_response) >= 3
              /\ raw_response[1] = NEGATIVE_RESPONSE_SID
              /\ Verdict = NRC(raw_response[2], raw_response[3])
              /\ Verdict.body[1] = raw_response[2] /\ Verdict.body[2] = raw_response[3]
              /\ Verdict.body[1] \in Nat /\ Verdict.body[2] \in Nat
  <1>1. raw_response \in Seq(Byte)
    BY TakeIsTyped
  <1>2. raw_response \in Seq(Nat)
    BY <1>1, BytesAreNaturals
  <1> DEFINE raw == raw_response
  <1>3. Verdict = parse_for_error(raw)
    BY DEF Verdict
  <1>4. /\ Verdict \in Result
        /\ Verdict.tag = "NRC" =>
             /\ Len(raw) >= 3
             /\ raw[1] = NEGATIVE_RESPONSE_SID
             /\ Verdict = NRC(raw[2], raw[3])
    <2> HIDE DEF raw
    <2> QED
      BY <1>1, <1>3, ParseForErrorReturns DEF raw
  <1>5. \A i \in 1 .. Len(raw) : raw[i] \in Nat
    <2> HIDE DEF raw
    <2> QED
      BY <1>2 DEF raw
  <1>6. NRC(raw[2], raw[3]).body[1] = raw[2] /\ NRC(raw[2], raw[3]).body[2] = raw[3]
    BY DEF NRC
  <1>7. Len(raw) \in Nat
    <2> HIDE DEF raw
    <2> QED
      BY <1>2 DEF raw
  <1>8. Len(raw) >= 3 => raw[2] \in Nat /\ raw[3] \in Nat
    <2> HIDE DEF raw
    <2> QED
      BY <1>5, <1>7
  <1> QED
    BY <1>1, <1>4, <1>6, <1>8

LEMMA InitTypeOK == Init => TypeOK
  <1> SUFFICES ASSUME Init PROVE TypeOK
    OBVIOUS
  <1>1. LinkTypeOK
    <2>1. <<>> \in Seq(RequestPacket) /\ <<>> \in Seq(Packet)
      OBVIOUS
    <2> QED
      BY <2>1, LinkAssumption DEF Init, LinkInit, LinkTypeOK
  <1>2. (CHOOSE c \in Calls : TRUE) \in Calls
    BY ClientAssumption
  <1>3. 0 \in (-RetryHalf) .. (RetryHalf - 1) /\ 0 \in 0 .. MaxCalls
    BY ClientAssumption, LinkAssumption
  <1>4. NoResult("None") \in Result
    BY ResultTypes
  <1>5. \A t \in Tasks : ~ InCall(t)
    BY DEF Init, InCall
  <1>6. took \in [Tasks -> Seq(Packet)]
    <2>1. <<>> \in Seq(Packet)
      OBVIOUS
    <2> QED
      BY <2>1 DEF Init
  <1> QED
    BY <1>1, <1>2, <1>3, <1>4, <1>5, <1>6 DEF Init, TypeOK

LEMMA TypeStep ==
  ASSUME TypeOK, [Next]_vars
  PROVE  TypeOK'
  <1>1. ASSUME NEW t \in Tasks, NEW c \in Calls, Start(t, c) PROVE TypeOK'
    <2>1. issued' \in 0 .. MaxCalls /\ issued + 1 \in 0 .. issued'
      BY <1>1, LinkAssumption DEF Start, TypeOK
    <2>2. id' \in [Tasks -> 0 .. issued']
      BY <1>1, <2>1, LinkAssumption DEF Start, TypeOK
    <2>3. \A u \in Tasks : InCall(u)' => id'[u] # 0
      BY <1>1, LinkAssumption DEF Start, TypeOK, InCall
    <2>4. LinkTypeOK'
      BY <1>1 DEF Start, TypeOK, LinkTypeOK, linkVars
    <2>5. outcome' \in [Tasks -> Result]
      BY <1>1, ResultTypes DEF Start, TypeOK
    <2>6. took' \in [Tasks -> Seq(Packet)]
      <3>1. <<>> \in Seq(Packet)
        OBVIOUS
      <3> QED
        BY <1>1, <3>1 DEF Start, TypeOK
    <2>7. retry_counter' \in [Tasks -> (-RetryHalf) .. (RetryHalf - 1)]
      BY <1>1, ClientAssumption DEF Start, TypeOK
    <2>8. orderly' \in BOOLEAN
      BY <1>1 DEF Start, TypeOK
    <2>9. /\ pc' \in [Tasks -> {"ready", "send", "recv", "pending"}]
          /\ call' \in [Tasks -> Calls]
      BY <1>1 DEF Start, TypeOK
    <2> QED
      BY <2>1, <2>2, <2>3, <2>4, <2>5, <2>6, <2>7, <2>8, <2>9 DEF TypeOK
  <1>2. ASSUME NEW t \in Tasks, Send(t) PROVE TypeOK'
    <2>1. LinkTypeOK'
      BY <1>2, SendIsTyped DEF Send, InCall
    <2>2. \A u \in Tasks : InCall(u)' => id'[u] # 0
      BY <1>2 DEF Send, TypeOK, InCall
    <2> QED
      BY <1>2, <2>1, <2>2 DEF Send, TypeOK
  <1>3. ASSUME NEW t \in Tasks, SendFails(t) \/ ReceiveFails(t) \/ Cancel(t) \/ PendingTimeout(t)
        PROVE  TypeOK'
    <2>1. SendFails(t) \/ ReceiveFails(t) \/ Cancel(t) => TypeOK'
      BY <1>3, PlainReturnIsTyped, ResultTypes DEF SendFails, ReceiveFails, Cancel
    <2>2. CASE PendingTimeout(t)
      <3>1. Request(t)[1] \in Nat /\ RequestCorrectlyReceivedResponsePending \in Nat
        BY RequestIsTyped, BytesAreNaturals DEF RequestCorrectlyReceivedResponsePending
      <3>2. NRC(Request(t)[1], RequestCorrectlyReceivedResponsePending) \in Result
        BY <3>1, ResultTypes
      <3> QED
        BY <2>2, <3>2, PlainReturnIsTyped DEF PendingTimeout
    <2> QED
      BY <1>3, <2>1, <2>2
  <1>4. ASSUME NEW t \in Tasks, ReceiveAnswer(t) \/ ReceiveDelayed(t) PROVE TypeOK'
    <2>1. Take(t) /\ Return(t, Parse(call[t], raw_response)) /\ retry_counter' = retry_counter
      BY <1>4 DEF ReceiveAnswer, ReceiveDelayed
    <2>2. call[t] \in Calls /\ raw_response \in Seq(Byte)
      BY <2>1, TakeIsTyped DEF TypeOK
    <2>3. Parse(call[t], raw_response) \in Result
      BY <2>2, ParseReturns, ResultTypes DEF FromService
    <2> QED
      BY <2>1, <2>3, TakeReturnIsTyped DEF TypeOK, RetryRange
  <1>5. ASSUME NEW t \in Tasks, ReceiveError(t) \/ ReceiveNrc(t) PROVE TypeOK'
    <2>1. Take(t) /\ Return(t, Verdict) /\ retry_counter' = retry_counter
      BY <1>5 DEF ReceiveError, ReceiveNrc, ReceiveOwnNrc
    <2>2. Verdict \in Result
      BY <2>1, VerdictIsTyped
    <2> QED
      BY <2>1, <2>2, TakeReturnIsTyped DEF TypeOK, RetryRange
  <1>6. ASSUME NEW t \in Tasks, ReceiveForeignNrc(t) PROVE TypeOK'
    <2>1. /\ Take(t)
          /\ Verdict.tag = "NRC"
          /\ Return(t, SidMismatch(Request(t)[1], Verdict.body[1]))
          /\ retry_counter' = retry_counter
      BY <1>6 DEF ReceiveForeignNrc
    <2>2. Request(t)[1] \in Nat /\ Verdict.body[1] \in Nat
      <3>1. Request(t)[1] \in Nat
        BY RequestIsTyped, BytesAreNaturals
      <3>2. Verdict.body[1] \in Nat
        BY <2>1, VerdictIsTyped
      <3> QED
        BY <3>1, <3>2
    <2>3. SidMismatch(Request(t)[1], Verdict.body[1]) \in Result
      BY <2>2, ResultTypes
    <2> QED
      BY <2>1, <2>3, TakeReturnIsTyped DEF TypeOK, RetryRange
  <1>7. ASSUME NEW t \in Tasks, ReceivePending(t) \/ RepeatRequest(t) PROVE TypeOK'
    <2>1. Take(t)
      BY <1>7 DEF ReceivePending, RepeatRequest, ReceiveOwnNrc
    <2>2. retry_counter' \in [Tasks -> RetryRange]
      <3>1. retry_counter \in [Tasks -> RetryRange]
        BY DEF TypeOK, RetryRange
      <3> QED
        BY <1>7, <3>1, DecrementedIsTyped DEF ReceivePending, RepeatRequest
    <2>3. \A u \in Tasks : InCall(u)' => InCall(u)
      BY <1>7 DEF ReceivePending, RepeatRequest, ReceiveOwnNrc, InCall, TypeOK
    <2>4. id' = id
      BY <2>1 DEF Take
    <2>5. \A u \in Tasks : InCall(u)' => id'[u] # 0
      BY <2>3, <2>4 DEF TypeOK
    <2> QED
      BY <1>7, <2>1, <2>2, <2>5, TakeIsTyped
      DEF ReceivePending, RepeatRequest, TypeOK, RetryRange
  <1>8. ASSUME NEW t \in Tasks, GiveUp(t) \/ RetryOverflow(t) PROVE TypeOK'
    <2>1. Take(t)
      BY <1>8 DEF GiveUp, RetryOverflow, ReceiveOwnNrc
    <2>2. retry_counter' \in [Tasks -> RetryRange]
      <3>1. retry_counter \in [Tasks -> RetryRange]
        BY DEF TypeOK, RetryRange
      <3> QED
        BY <1>8, <3>1, DecrementedIsTyped DEF GiveUp, RetryOverflow
    <2>3. PICK r \in Result : Return(t, r)
      BY <1>8, <2>1, VerdictIsTyped, ResultTypes DEF GiveUp, RetryOverflow
    <2> QED
      BY <2>1, <2>2, <2>3, TakeReturnIsTyped
  <1>9. CASE Ecu
    <2>1. LinkTypeOK'
      BY <1>9, EcuIsTyped DEF Ecu, TypeOK
    <2>2. \A u \in Tasks : InCall(u)' => id'[u] # 0
      BY <1>9 DEF Ecu, clientVars, InCall, TypeOK
    <2> QED
      BY <1>9, <2>1, <2>2 DEF Ecu, clientVars, TypeOK
  <1>10. CASE UNCHANGED vars
    BY <1>10 DEF vars, clientVars, linkVars, TypeOK, LinkTypeOK, InCall
  <1> QED
    BY <1>1, <1>2, <1>3, <1>4, <1>5, <1>6, <1>7, <1>8, <1>9, <1>10
    DEF Next, Step, Receive

\* Type correctness of the client and the link, whatever the environment does:
\* in particular retry_counter stays in the range of its type and every packet
\* can be attributed to a call.
THEOREM TypeCorrect == Spec => []TypeOK
  BY InitTypeOK, TypeStep, PTL DEF Spec

(***************************************************************************)
(* What every call keeps to, whoever else uses the client.                 *)
(***************************************************************************)

\* The state of a task is its own: the steps of the other tasks leave it alone.
LEMMA StepKeepsOthers ==
  ASSUME TypeOK, NEW t \in Tasks, NEW u \in Tasks, u # t, Step(u)
  PROVE  UNCHANGED <<pc[t], call[t], retry_counter[t], outcome[t], id[t], took[t]>>
  <1>1. ASSUME NEW c \in Calls, Start(u, c)
        PROVE  UNCHANGED <<pc[t], call[t], retry_counter[t], outcome[t], id[t], took[t]>>
    BY <1>1 DEF Start, TypeOK
  <1>2. CASE Send(u) \/ SendFails(u) \/ ReceiveFails(u) \/ PendingTimeout(u) \/ Cancel(u)
    BY <1>2 DEF Send, SendFails, ReceiveFails, PendingTimeout, Cancel, Return, TypeOK
  <1>3. CASE Receive(u)
    <2>1. UNCHANGED <<call[t], id[t], took[t]>>
      BY <1>3
      DEF Receive, ReceiveAnswer, ReceiveError, ReceiveForeignNrc, ReceiveNrc, ReceivePending,
          RepeatRequest, GiveUp, RetryOverflow, ReceiveDelayed, ReceiveOwnNrc, Take, TypeOK
    <2>2. UNCHANGED <<pc[t], retry_counter[t], outcome[t]>>
      BY <1>3
      DEF Receive, ReceiveAnswer, ReceiveError, ReceiveForeignNrc, ReceiveNrc, ReceivePending,
          RepeatRequest, GiveUp, RetryOverflow, ReceiveDelayed, Return, TypeOK
    <2> QED
      BY <2>1, <2>2
  <1> QED
    BY <1>1, <1>2, <1>3 DEF Step

LEMMA OtherTasksKeepState ==
  ASSUME TypeOK, [Next]_vars, NEW t \in Tasks, ~ Step(t)
  PROVE  UNCHANGED <<pc[t], call[t], retry_counter[t], outcome[t], id[t], took[t]>>
  <1>1. CASE Ecu \/ UNCHANGED vars
    BY <1>1 DEF Ecu, vars, clientVars
  <1>2. CASE \E u \in Tasks : Step(u)
    BY <1>2, StepKeepsOthers
  <1> QED
    BY <1>1, <1>2 DEF Next

LEMMA UnchangedCall ==
  ASSUME NEW t \in Tasks, CallInvariant(t),
         UNCHANGED <<pc[t], call[t], retry_counter[t], outcome[t], id[t], took[t]>>
  PROVE  CallInvariant(t)'
  BY DEF CallInvariant, InCall, HadToWait, RetryCounted, OnlyRefused, GaveUp, OkFitsCall,
         NegativeReported, Returned, Request, LastTaken, PositiveOf, NamesIdentifier, NegativeOf

LEMMA TakeExtends ==
  ASSUME TypeOK, NEW t \in Tasks, Take(t)
  PROVE  /\ took'[t] # <<>>
         /\ Len(took[t]) \in Nat
         /\ Len(took'[t]) = Len(took[t]) + 1
         /\ \A i \in 1 .. Len(took[t]) : took'[t][i] = took[t][i]
         /\ took'[t][Len(took[t]) + 1] = Head(rx)
         /\ LastTaken(t)' = raw_response
         /\ UNCHANGED <<call[t], id[t]>>
         /\ Request(t)' = Request(t)
  <1>1. took'[t] = Append(took[t], Head(rx))
    BY DEF Take, TypeOK
  <1>2. took[t] \in Seq(Packet) /\ Head(rx) \in Packet
    BY TakeIsTyped DEF TypeOK
  <1>3. /\ took'[t] # <<>>
        /\ Len(took[t]) \in Nat
        /\ Len(took'[t]) = Len(took[t]) + 1
        /\ \A i \in 1 .. Len(took[t]) : took'[t][i] = took[t][i]
        /\ took'[t][Len(took[t]) + 1] = Head(rx)
    BY <1>1, <1>2, AppendProperties, LenProperties
  <1>4. LastTaken(t)' = raw_response
    BY <1>3 DEF LastTaken, raw_response
  <1>5. UNCHANGED <<call[t], id[t]>>
    BY DEF Take
  <1>6. Request(t)' = Request(t)
    BY <1>5 DEF Request
  <1> QED
    BY <1>3, <1>4, <1>5, <1>6

\* A call that returns after a reception, if the result fits the message.
LEMMA TakeReturnKeeps ==
  ASSUME TypeOK, NEW t \in Tasks, NEW r, Take(t), Return(t, r),
         r.tag = "NRC" /\ r.body[2] = BusyRepeatRequest =>
           Len(took[t]) + 1 = 2 * RetryHalf /\ ~ OverflowChecks,
         IsOk(r) => PositiveOf(t, raw_response) /\ NamesIdentifier(t, raw_response),
         NegativeOf(t, raw_response) =>
           HadToWait(t) \/ r.tag = "Panic" \/ r = NRC(raw_response[2], raw_response[3])
  PROVE  CallInvariant(t)'
  <1>1. pc'[t] = "ready" /\ outcome'[t] = r
    BY DEF Return, TypeOK
  <1>2. RetryCounted(t)' /\ ~ InCall(t)'
    BY <1>1 DEF RetryCounted, InCall
  <1>3. GaveUp(t)'
    BY <1>1, TakeExtends DEF GaveUp
  <1>4. OkFitsCall(t)'
    <2>1. PositiveOf(t, raw_response) => PositiveOf(t, LastTaken(t))'
      BY TakeExtends DEF PositiveOf
    <2>2. NamesIdentifier(t, raw_response) => NamesIdentifier(t, LastTaken(t))'
      BY TakeExtends DEF NamesIdentifier
    <2> QED
      BY <1>1, <2>1, <2>2, TakeExtends DEF OkFitsCall
  <1>5. NegativeReported(t)'
    <2>1. HadToWait(t) => HadToWait(t)'
      BY TakeExtends DEF HadToWait
    <2>2. NegativeOf(t, LastTaken(t))' => NegativeOf(t, raw_response)
      BY TakeExtends DEF NegativeOf
    <2> QED
      BY <1>1, <2>1, <2>2, TakeExtends DEF NegativeReported
  <1> QED
    BY <1>1, <1>2, <1>3, <1>4, <1>5 DEF CallInvariant, InCall

\* A call that ends without a further reception.
LEMMA PlainReturnKeeps ==
  ASSUME TypeOK, NEW t \in Tasks, NEW r, Return(t, r), CallInvariant(t),
         UNCHANGED <<call, retry_counter, id, took, issued, linkVars>>,
         \/ r.tag \in {"CommunicationError", "Cancelled"}
         \/ pc[t] = "pending" /\ r.tag = "NRC" /\ r.body[2] # BusyRepeatRequest
  PROVE  CallInvariant(t)'
  <1>1. pc'[t] = "ready" /\ outcome'[t] = r
    BY DEF Return, TypeOK
  <1>2. RetryCounted(t)' /\ ~ InCall(t)'
    BY <1>1 DEF RetryCounted, InCall
  <1>3. GaveUp(t)' /\ OkFitsCall(t)'
    BY <1>1 DEF GaveUp, OkFitsCall, IsOk, OkTags
  <1>4. NegativeReported(t)'
    <2>1. r.tag \in {"CommunicationError", "Cancelled"} \/ HadToWait(t)'
      BY DEF CallInvariant, HadToWait
    <2> QED
      BY <1>1, <2>1 DEF NegativeReported
  <1> QED
    BY <1>1, <1>2, <1>3, <1>4 DEF CallInvariant, InCall

LEMMA VerdictClassifies ==
  ASSUME TypeOK, NEW t \in Tasks, Take(t)
  PROVE  /\ ~ IsOk(Verdict)
         /\ Verdict.tag # "NRC" => ~ NegativeOf(t, raw_response)
         /\ Verdict.tag = "NRC" => Verdict = NRC(raw_response[2], raw_response[3])
  <1> DEFINE raw == raw_response
  <1>1. raw \in Seq(Byte)
    BY TakeIsTyped
  <1>2. Verdict = parse_for_error(raw)
    BY DEF Verdict
  <1>3. ~ IsOk(parse_for_error(raw))
    <2> HIDE DEF raw
    <2> QED
      BY <1>1 DEF parse_for_error, IsOk, OkTags, Err, NoResult, NRC, UnknownNRC
  <1>4. NegativeOf(t, raw) => parse_for_error(raw).tag = "NRC"
    <2> HIDE DEF raw
    <2>1. SUFFICES ASSUME NegativeOf(t, raw) PROVE parse_for_error(raw).tag = "NRC"
      OBVIOUS
    <2>2. /\ Len(raw) >= 3 /\ Len(raw) \in Nat /\ raw # <<>>
          /\ raw[1] = NEGATIVE_RESPONSE_SID /\ raw[3] \in NegativeResponseCode
      BY <1>1, <2>1, LenProperties DEF NegativeOf
    <2> QED
      BY <2>2 DEF parse_for_error, NRC
  <1> QED
    BY <1>2, <1>3, <1>4, VerdictIsTyped

\* Counting down from zero in two's complement.
LEMMA RetryArithmetic ==
  ASSUME NEW n \in Nat, n < 2 * RetryHalf
  PROVE  /\ n = 0 => RetryAfter(n) = 0
         /\ Decremented(RetryAfter(n)) = RetryAfter(n + 1)
         /\ RetryAfter(n + 1) = 0 <=> n + 1 = 2 * RetryHalf
         /\ RetryAfter(n) = -RetryHalf <=> n = RetryHalf
  BY ClientAssumption DEF Decremented, RetryAfter

LEMMA StartKeeps ==
  ASSUME TypeOK, NEW t \in Tasks, NEW c \in Calls, Start(t, c)
  PROVE  CallInvariant(t)'
  <1>1. /\ pc'[t] = "send" /\ outcome'[t] = NoResult("None")
        /\ took'[t] = <<>> /\ retry_counter'[t] = 0
    BY DEF Start, TypeOK
  <1>2. RetryHalf \in Nat /\ RetryHalf > 0
    BY ClientAssumption
  <1>3. RetryCounted(t)'
    <2>1. Len(took'[t]) = 0
      BY <1>1
    <2>2. OnlyRefused(t)'
      BY <2>1 DEF OnlyRefused
    <2>3. retry_counter'[t] = RetryAfter(0)
      <3>1. RetryAfter(0) = 0
        BY <1>2, RetryArithmetic
      <3> QED
        BY <1>1, <3>1
    <2> QED
      BY <1>2, <2>1, <2>2, <2>3 DEF RetryCounted
  <1>4. GaveUp(t)' /\ OkFitsCall(t)' /\ NegativeReported(t)'
    BY <1>1 DEF GaveUp, OkFitsCall, NegativeReported, NoResult, IsOk, OkTags
  <1> QED
    BY <1>1, <1>2, <1>3, <1>4 DEF CallInvariant

LEMMA SendKeeps ==
  ASSUME TypeOK, NEW t \in Tasks, Send(t), CallInvariant(t)
  PROVE  CallInvariant(t)'
  <1>1. /\ pc[t] = "send" /\ pc'[t] = "recv"
        /\ UNCHANGED <<call[t], retry_counter[t], outcome[t], id[t], took[t]>>
    BY DEF Send, TypeOK
  <1>2. RetryCounted(t)' /\ outcome[t] = NoResult("None")
    BY <1>1 DEF CallInvariant, RetryCounted, OnlyRefused, Request, InCall
  <1>3. GaveUp(t)' /\ OkFitsCall(t)' /\ NegativeReported(t)'
    BY <1>1, <1>2
    DEF GaveUp, OkFitsCall, NegativeReported, NoResult, IsOk, OkTags, Returned, InCall
  <1> QED
    BY <1>1, <1>2, <1>3 DEF CallInvariant, InCall

LEMMA ReceivePendingKeeps ==
  ASSUME TypeOK, NEW t \in Tasks, ReceivePending(t), CallInvariant(t)
  PROVE  CallInvariant(t)'
  <1>1. Take(t) /\ pc[t] = "recv" /\ pc'[t] = "pending" /\ outcome'[t] = outcome[t]
    BY DEF ReceivePending, ReceiveOwnNrc, TypeOK
  <1>2. outcome'[t] = NoResult("None")
    BY <1>1 DEF CallInvariant, InCall
  <1>3. IsPending(raw_response)
    BY <1>1, VerdictIsTyped DEF ReceivePending, ReceiveOwnNrc, IsPending
  <1>4. HadToWait(t)'
    BY <1>1, <1>3, TakeExtends DEF HadToWait, raw_response
  <1>5. RetryCounted(t)' /\ GaveUp(t)' /\ OkFitsCall(t)' /\ NegativeReported(t)'
    BY <1>1, <1>2
    DEF RetryCounted, GaveUp, OkFitsCall, NegativeReported, NoResult, IsOk, OkTags, Returned, InCall
  <1> QED
    BY <1>1, <1>2, <1>4, <1>5 DEF CallInvariant, InCall

LEMMA RepeatRequestKeeps ==
  ASSUME TypeOK, NEW t \in Tasks, RepeatRequest(t), CallInvariant(t)
  PROVE  CallInvariant(t)'
  <1> DEFINE n == Len(took[t])
  <1>1. /\ Take(t) /\ pc[t] = "recv" /\ pc'[t] = "send" /\ outcome'[t] = outcome[t]
        /\ retry_counter'[t] = Decremented(retry_counter[t])
        /\ ~ Overflows(retry_counter[t]) /\ Decremented(retry_counter[t]) # 0
    BY DEF RepeatRequest, ReceiveOwnNrc, TypeOK
  <1>2. outcome'[t] = NoResult("None")
    BY <1>1 DEF CallInvariant, InCall
  <1>3. /\ n \in Nat /\ n < 2 * RetryHalf /\ retry_counter[t] = RetryAfter(n)
        /\ OverflowChecks => n <= RetryHalf
        /\ OnlyRefused(t)
    BY <1>1, TakeExtends DEF CallInvariant, RetryCounted
  <1>4. n + 1 # 2 * RetryHalf /\ retry_counter'[t] = RetryAfter(n + 1)
    BY <1>1, <1>3, RetryArithmetic
  <1>5. OverflowChecks => n # RetryHalf
    BY <1>1, <1>3, RetryArithmetic DEF Overflows
  <1>6. IsBusy(raw_response) /\ raw_response[2] = Request(t)[1]
    BY <1>1, VerdictIsTyped DEF RepeatRequest, ReceiveOwnNrc, IsBusy
  <1>7. OnlyRefused(t)'
    <2> SUFFICES ASSUME NEW i \in 1 .. n + 1
                 PROVE  IsBusy(took'[t][i].raw) /\ took'[t][i].raw[2] = Request(t)[1]
      BY <1>1, TakeExtends DEF OnlyRefused
    <2>1. CASE i \in 1 .. n
      BY <1>1, <1>3, <2>1, TakeExtends DEF OnlyRefused
    <2>2. CASE i = n + 1
      BY <1>1, <1>6, <2>2, TakeExtends DEF raw_response
    <2> QED
      BY <1>3, <2>1, <2>2
  <1>8. RetryHalf \in Nat
    BY ClientAssumption
  <1>9. RetryCounted(t)'
    <2>1. Len(took'[t]) = n + 1
      BY <1>1, TakeExtends
    <2>2. n + 1 < 2 * RetryHalf
      BY <1>3, <1>4, <1>8
    <2> HIDE DEF n
    <2> QED
      BY <1>4, <1>7, <2>1, <2>2 DEF RetryCounted
  <1>10. GaveUp(t)' /\ OkFitsCall(t)' /\ NegativeReported(t)'
    BY <1>1, <1>2
    DEF GaveUp, OkFitsCall, NegativeReported, NoResult, IsOk, OkTags, Returned, InCall
  <1>11. OverflowChecks => Len(took'[t]) <= RetryHalf
    BY <1>1, <1>3, <1>5, <1>8, TakeExtends
  <1> QED
    BY <1>1, <1>2, <1>9, <1>10, <1>11 DEF CallInvariant, InCall

LEMMA GiveUpKeeps ==
  ASSUME TypeOK, NEW t \in Tasks, GiveUp(t), CallInvariant(t)
  PROVE  CallInvariant(t)'
  <1> DEFINE n == Len(took[t])
  <1>1. /\ Take(t) /\ pc[t] = "recv" /\ Return(t, Verdict) /\ Verdict.tag = "NRC"
        /\ ~ Overflows(retry_counter[t]) /\ Decremented(retry_counter[t]) = 0
    BY DEF GiveUp, ReceiveOwnNrc
  <1>2. /\ n \in Nat /\ n < 2 * RetryHalf /\ retry_counter[t] = RetryAfter(n)
        /\ OverflowChecks => n <= RetryHalf
    BY <1>1, TakeExtends DEF CallInvariant, RetryCounted
  <1>3. n + 1 = 2 * RetryHalf
    BY <1>1, <1>2, RetryArithmetic
  <1>4. ~ OverflowChecks
    <2>1. OverflowChecks => n # RetryHalf
      BY <1>1, <1>2, RetryArithmetic DEF Overflows
    <2>2. RetryHalf \in Nat /\ RetryHalf > 0
      BY ClientAssumption
    <2> QED
      BY <1>2, <1>3, <2>1, <2>2
  <1> QED
    BY <1>1, <1>3, <1>4, TakeReturnKeeps, VerdictClassifies

\* Every step of the client, of the link and of the other tasks.
LEMMA CallsStep ==
  ASSUME CallsInvariant, [Next]_vars
  PROVE  CallsInvariant'
  <1> USE DEF CallsInvariant
  <1>1. TypeOK'
    BY TypeStep
  <1>2. ASSUME NEW t \in Tasks PROVE CallInvariant(t)'
    <2>1. ASSUME NEW c \in Calls, Start(t, c) PROVE CallInvariant(t)'
      BY <2>1, StartKeeps
    <2>2. CASE Send(t)
      BY <2>2, SendKeeps
    <2>3. CASE SendFails(t) \/ ReceiveFails(t) \/ Cancel(t)
      <3>1. PICK r : Return(t, r) /\ r.tag \in {"CommunicationError", "Cancelled"}
        BY <2>3 DEF SendFails, ReceiveFails, Cancel, Err, NoResult
      <3>2. UNCHANGED <<call, retry_counter, id, took, issued, linkVars>>
        BY <2>3 DEF SendFails, ReceiveFails, Cancel
      <3> QED
        BY <3>1, <3>2, PlainReturnKeeps
    <2>4. CASE PendingTimeout(t)
      <3> DEFINE r == NRC(Request(t)[1], RequestCorrectlyReceivedResponsePending)
      <3>1. r.tag = "NRC" /\ r.body[2] # BusyRepeatRequest
        BY DEF NRC, RequestCorrectlyReceivedResponsePending, BusyRepeatRequest
      <3>2. /\ Return(t, r) /\ pc[t] = "pending"
            /\ UNCHANGED <<call, retry_counter, id, took, issued, linkVars>>
        BY <2>4 DEF PendingTimeout
      <3> HIDE DEF r
      <3> QED
        BY <3>1, <3>2, PlainReturnKeeps
    <2>5. CASE ReceiveAnswer(t) \/ ReceiveDelayed(t)
      <3> DEFINE r == Parse(call[t], raw_response)
      <3>1. Take(t) /\ Return(t, r)
        BY <2>5 DEF ReceiveAnswer, ReceiveDelayed
      <3>2. call[t] \in Calls /\ raw_response \in Seq(Byte)
        BY <3>1, TakeIsTyped DEF TypeOK
      <3>3. r \in ParserResult /\ r.tag # "NRC"
        BY <3>2, ParseReturns DEF FromService, ParserResult, ParserTags, OkTags
      <3>4. IsOk(r) => PositiveOf(t, raw_response) /\ NamesIdentifier(t, raw_response)
        BY <3>2, ParseReturns DEF FromService, PositiveOf, NamesIdentifier, Request
      <3>5. NegativeOf(t, raw_response) => HadToWait(t)
        BY <2>5, <3>1, VerdictClassifies
        DEF ReceiveAnswer, ReceiveDelayed, CallInvariant
      <3> HIDE DEF r
      <3> QED
        BY <3>1, <3>3, <3>4, <3>5, TakeReturnKeeps
    <2>6. CASE ReceiveError(t)
      <3>1. Take(t) /\ Return(t, Verdict) /\ Verdict.tag # "NRC"
        BY <2>6 DEF ReceiveError
      <3> QED
        BY <3>1, VerdictClassifies, TakeReturnKeeps
    <2>7. CASE ReceiveForeignNrc(t)
      <3> DEFINE r == SidMismatch(Request(t)[1], Verdict.body[1])
      <3>1. Take(t) /\ Return(t, r) /\ Verdict.tag = "NRC" /\ Verdict.body[1] # Request(t)[1]
        BY <2>7 DEF ReceiveForeignNrc
      <3>2. ~ IsOk(r) /\ r.tag # "NRC"
        BY DEF SidMismatch, IsOk, OkTags
      <3>3. ~ NegativeOf(t, raw_response)
        BY <3>1, VerdictIsTyped DEF NegativeOf
      <3> HIDE DEF r
      <3> QED
        BY <3>1, <3>2, <3>3, TakeReturnKeeps
    <2>8. CASE ReceiveNrc(t)
      <3>1. /\ Take(t) /\ Return(t, Verdict)
            /\ Verdict.tag = "NRC" /\ Verdict.body[2] # BusyRepeatRequest
        BY <2>8 DEF ReceiveNrc, ReceiveOwnNrc
      <3> QED
        BY <3>1, VerdictClassifies, TakeReturnKeeps
    <2>9. CASE ReceivePending(t)
      BY <2>9, ReceivePendingKeeps
    <2>10. CASE RepeatRequest(t)
      BY <2>10, RepeatRequestKeeps
    <2>11. CASE GiveUp(t)
      BY <2>11, GiveUpKeeps
    <2>12. CASE RetryOverflow(t)
      <3> DEFINE r == NoResult("Panic")
      <3>1. Take(t) /\ Return(t, r)
        BY <2>12 DEF RetryOverflow, ReceiveOwnNrc
      <3>2. r.tag = "Panic" /\ ~ IsOk(r)
        BY DEF NoResult, IsOk, OkTags
      <3> HIDE DEF r
      <3> QED
        BY <3>1, <3>2, TakeReturnKeeps
    <2>13. CASE ~ Step(t)
      BY <2>13, OtherTasksKeepState, UnchangedCall
    <2> QED
      BY <2>1, <2>2, <2>3, <2>4, <2>5, <2>6, <2>7, <2>8, <2>9, <2>10, <2>11, <2>12, <2>13
      DEF Step, Receive
  <1> QED
    BY <1>1, <1>2

LEMMA CallsInit == Init => CallsInvariant
  <1> SUFFICES ASSUME Init, NEW t \in Tasks PROVE CallInvariant(t)
    BY InitTypeOK DEF CallsInvariant
  <1>1. /\ pc[t] = "ready" /\ outcome[t] = NoResult("None") /\ id[t] = 0
    BY DEF Init
  <1> QED
    BY <1>1
    DEF CallInvariant, InCall, RetryCounted, GaveUp, OkFitsCall, NegativeReported, Returned,
        NoResult, IsOk, OkTags

THEOREM CallsCorrect == Spec => []CallsInvariant
  BY CallsInit, CallsStep, PTL DEF Spec

\* A call asks again only because of a busy refusal of its own service, and
\* the counter is minus the number of refusals.
THEOREM RetryCounting == Spec => []RetryCountsBusyAnswers
  <1>1. CallsInvariant => RetryCountsBusyAnswers
    BY DEF CallsInvariant, CallInvariant, RetryCountsBusyAnswers
  <1> QED
    BY <1>1, CallsCorrect, PTL

\* send_and_receive gives up only when the counter has run through its range.
THEOREM GivingUp == Spec => []GivesUpAfterFullRange
  <1>1. CallsInvariant => GivesUpAfterFullRange
    BY DEF CallsInvariant, CallInvariant, GivesUpAfterFullRange
  <1> QED
    BY <1>1, CallsCorrect, PTL

\* No interleaving of tasks and no fault makes a call return Ok for a message
\* of another service or, for a read of one identifier, another identifier.
THEOREM OkOnlyForRequestedService == Spec => []OkCarriesRequestedService
  <1>1. CallsInvariant => OkCarriesRequestedService
    BY DEF CallsInvariant, CallInvariant, OkCarriesRequestedService
  <1> QED
    BY <1>1, CallsCorrect, PTL

\* A negative response of the service called is reported with its code, unless
\* the call had been told to wait.
THEOREM NegativeReporting == Spec => []NegativeReportedUnlessPending
  <1>1. CallsInvariant => NegativeReportedUnlessPending
    BY DEF CallsInvariant, CallInvariant, NegativeReportedUnlessPending
  <1> QED
    BY <1>1, CallsCorrect, PTL

(***************************************************************************)
(* Panics.                                                                 *)
(***************************************************************************)
LEMMA VerdictNeverPanics ==
  /\ Verdict.tag # "Panic"
  /\ raw_response = <<>> => Verdict.tag # "None"
  BY DEF Verdict, parse_for_error, Err, NoResult, NRC, UnknownNRC

\* A step of task t that returns something else than a panic.
LEMMA ReturnsNoPanic ==
  ASSUME TypeOK, NEW t \in Tasks, NEW r, Return(t, r), r.tag # "Panic"
  PROVE  ~ Panicked(t)'
  <1>1. outcome'[t] = r
    BY DEF Return, TypeOK
  <1> QED
    BY <1>1 DEF Panicked

LEMMA ParserPanics ==
  ASSUME CallsInvariant, NEW t \in Tasks, ReceiveAnswer(t) \/ ReceiveDelayed(t), Panicked(t)'
  PROVE  /\ HadToWait(t)' /\ LastTaken(t)' = <<>>
         /\ call'[t].service = "read_memory_by_address"
  <1> DEFINE r == Parse(call[t], raw_response)
  <1>1. Take(t) /\ Return(t, r) /\ TypeOK
    BY DEF ReceiveAnswer, ReceiveDelayed, CallsInvariant
  <1>2. call[t] \in Calls /\ raw_response \in Seq(Byte)
    BY <1>1, TakeIsTyped DEF TypeOK
  <1>3. r.tag = "Panic"
    <2> HIDE DEF r
    <2> QED
      BY <1>1, ReturnsNoPanic
  <1>4. raw_response = <<>> /\ call[t].service = "read_memory_by_address"
    BY <1>2, <1>3, ParsePanics
  <1>5. pc[t] = "pending"
    BY <1>4, VerdictNeverPanics DEF ReceiveAnswer, ReceiveDelayed
  <1>6. HadToWait(t)
    BY <1>5 DEF CallsInvariant, CallInvariant
  <1>7. HadToWait(t)'
    BY <1>1, <1>6, TakeExtends DEF HadToWait
  <1> QED
    BY <1>1, <1>4, <1>7, TakeExtends

LEMMA PanicStep ==
  ASSUME CallsInvariant, CallsInvariant', [Next]_vars, PanicOnlyOnEmptyDelayed
  PROVE  PanicOnlyOnEmptyDelayed'
  <1>1. SUFFICES ASSUME NEW t \in Tasks, Panicked(t)'
                 PROVE  /\ HadToWait(t)' /\ LastTaken(t)' = <<>>
                        /\ call'[t].service = "read_memory_by_address"
    BY DEF PanicOnlyOnEmptyDelayed
  <1>2. TypeOK
    BY DEF CallsInvariant
  <1>3. ~ InCall(t)'
    BY <1>1 DEF CallsInvariant, CallInvariant, Panicked, NoResult
  <1>4. CASE ~ Step(t)
    <2>1. UNCHANGED <<pc[t], call[t], retry_counter[t], outcome[t], id[t], took[t]>>
      BY <1>2, <1>4, OtherTasksKeepState
    <2>2. Panicked(t)
      BY <1>1, <2>1 DEF Panicked
    <2> QED
      BY <2>1, <2>2 DEF PanicOnlyOnEmptyDelayed, HadToWait, LastTaken
  <1>5. CASE \E c \in Calls : Start(t, c)
    BY <1>2, <1>3, <1>5 DEF Start, InCall, TypeOK
  <1>6. CASE Send(t) \/ ReceivePending(t) \/ RepeatRequest(t)
    BY <1>2, <1>3, <1>6 DEF Send, ReceivePending, RepeatRequest, InCall, TypeOK
  <1>7. CASE SendFails(t) \/ ReceiveFails(t) \/ Cancel(t) \/ PendingTimeout(t)
    <2>1. PICK r : Return(t, r) /\ r.tag # "Panic"
      BY <1>7 DEF SendFails, ReceiveFails, Cancel, PendingTimeout, Err, NoResult, NRC
    <2> QED
      BY <1>1, <1>2, <2>1, ReturnsNoPanic
  <1>8. CASE ReceiveAnswer(t) \/ ReceiveDelayed(t)
    BY <1>1, <1>8, ParserPanics
  <1>9. CASE ReceiveError(t) \/ ReceiveNrc(t) \/ GiveUp(t)
    <2>1. Return(t, Verdict)
      BY <1>9 DEF ReceiveError, ReceiveNrc, GiveUp
    <2> QED
      BY <1>1, <1>2, <2>1, VerdictNeverPanics, ReturnsNoPanic
  <1>10. CASE ReceiveForeignNrc(t)
    <2>1. PICK r : Return(t, r) /\ r.tag # "Panic"
      BY <1>10 DEF ReceiveForeignNrc, SidMismatch
    <2> QED
      BY <1>1, <1>2, <2>1, ReturnsNoPanic
  <1>11. CASE RetryOverflow(t)
    BY <1>1, <1>11 DEF RetryOverflow, Overflows, Panicked
  <1> QED
    BY <1>4, <1>5, <1>6, <1>7, <1>8, <1>9, <1>10, <1>11 DEF Step, Receive

\* Without overflow checks the client panics only in read_memory_by_address, and
\* only on an empty message after an interim answer.
THEOREM PanicsExplained == Spec => []PanicOnlyOnEmptyDelayed
  <1>1. Init => PanicOnlyOnEmptyDelayed
    BY DEF Init, PanicOnlyOnEmptyDelayed, Panicked, NoResult
  <1> QED
    BY <1>1, PanicStep, CallsCorrect, PTL DEF Spec

==============================================================================
