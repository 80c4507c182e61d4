---------------------------- MODULE UdsExampleProofs --------------------------
(***************************************************************************)
(* The example behaves like one task of UdsClient, and what it logs is     *)
(* true, whatever an ECU that names the services it answers does.          *)
(***************************************************************************)
EXTENDS UdsExample, UdsClientProofs

ScriptSid(n) == Sid(Script[n].service)

(***************************************************************************)
(* The inductive invariant.  What closes an exchange, a request or the     *)
(* answer that ends it, is on the line once for each call at most, in the  *)
(* order of the calls.                                                     *)
(***************************************************************************)
Closing(packet) == ~ IsPending(packet.raw)

Outstanding(n) ==
  \/ \E i \in 1 .. Len(tx) : tx[i].origin = n
  \/ \E i \in 1 .. Len(rx) : rx[i].origin = n /\ Closing(rx[i])

InOrder ==
  /\ \A i, j \in 1 .. Len(tx) : i < j => tx[i].origin < tx[j].origin
  /\ \A i, j \in 1 .. Len(rx) :
       i < j /\ Closing(rx[i]) /\ Closing(rx[j]) => rx[i].origin < rx[j].origin
  /\ \A i \in 1 .. Len(rx), j \in 1 .. Len(tx) :
       Closing(rx[i]) => rx[i].origin < tx[j].origin

\* A request on the line has not been performed, an answer tells what was done.
RequestFits(packet, calls, performed) ==
  /\ packet.origin <= calls
  /\ packet.raw = Compose(Script[packet.origin])
  /\ performed[packet.origin] = 0

AnswerFits(packet, calls, performed) ==
  /\ packet.origin <= calls
  /\ NamesService(packet.raw, ScriptSid(packet.origin))
  /\ IsPositive(packet.raw) => performed[packet.origin] = 1
  /\ IsBusy(packet.raw) => performed[packet.origin] = 0

\* A call that is about to send is not on the line yet and has no effect yet.
NotAskedTwice == pc[main] = "send" => executed[issued] = 0 /\ ~ Outstanding(issued)

LineFits ==
  /\ \A i \in 1 .. Len(tx) : RequestFits(tx[i], issued, executed)
  /\ \A i \in 1 .. Len(rx) : AnswerFits(rx[i], issued, executed)
  /\ \A n \in CallId : executed[n] <= 1 /\ (n > issued => executed[n] = 0)
  /\ NotAskedTwice

CurrentCall ==
  /\ id[main] = issued
  /\ issued # 0 => call[main] = Script[issued]
  /\ stage # "calls" => ~ InCall(main)
  /\ stage \in {"options", "open"} => issued = 0
  /\ stage = "calls" /\ issued # 0 => Len(results) = issued - 1

\* A result that is there and not logged yet.
HasResult == stage = "calls" /\ issued # 0 /\ ~ InCall(main)

ResultFits ==
  HasResult => /\ outcome[main].tag \in OkTags \cup ErrTags \cup {"Panic"}
               /\ IsOk(outcome[main]) => executed[issued] = 1

LoggedMismatch == \E n \in 1 .. Len(results) : IsOffByOne(results[n])

OutOfStep == LoggedMismatch \/ (HasResult /\ IsOffByOne(outcome[main]))

OutOfStepStays ==
  ~ lost =>
    /\ pc[main] \in {"recv", "pending"} => Outstanding(issued)
    /\ OutOfStep => \E n \in 1 .. issued : Outstanding(n) /\ (InCall(main) => n < issued)
    /\ HasResult /\ LoggedMismatch => ~ IsOk(outcome[main])

ExampleInvariant ==
  /\ ExampleTypeOK
  /\ CurrentCall /\ InOrder /\ LineFits
  /\ ResultFits /\ LoggedOkIsTrue
  /\ OutOfStepStays /\ MismatchSpoilsTheRest

(***************************************************************************)
(* The constants.                                                          *)
(***************************************************************************)
LEMMA ExampleConstants ==
  /\ Tasks = {main} /\ main \in Tasks
  /\ Len(Script) = 4 /\ MaxCalls = 4 /\ CallId = 1 .. 4
  /\ \A n \in CallId : Script[n] \in Calls
  BY ExampleAssumption DEF Script, CallId

\* The four calls are of four services.
LEMMA ScriptSids ==
  /\ \A n \in CallId : /\ ScriptSid(n) \in Byte
                       /\ Compose(Script[n])[1] = ScriptSid(n)
                       /\ ScriptSid(n) + SEND_RECEIVE_SID_OFFSET # NEGATIVE_RESPONSE_SID
  /\ \A n, k \in CallId : ScriptSid(n) = ScriptSid(k) => n = k
  <1>1. \A n \in CallId : Compose(Script[n])[1] = ScriptSid(n)
    BY ExampleConstants, ComposeSid DEF ScriptSid
  <1>2. /\ ScriptSid(1) = 34 /\ ScriptSid(2) = 25
        /\ ScriptSid(3) = 20 /\ ScriptSid(4) = 17
    BY DEF Script, ScriptSid, Sid, ECU_RESET_SID, CLEAR_DIAGNOSTIC_INFORMATION_SID,
           READ_DTC_INFORMATION_SID, READ_DATA_BY_IDENTIFIER_SID
  <1>3. CallId = {1, 2, 3, 4}
    BY ExampleConstants
  <1> HIDE DEF ScriptSid
  <1> QED
    BY <1>1, <1>2, <1>3 DEF Byte, SEND_RECEIVE_SID_OFFSET, NEGATIVE_RESPONSE_SID

(***************************************************************************)
(* Every step of the example is one of its task, of the ECU or of no part  *)
(* of the client.                                                          *)
(***************************************************************************)
LEMMA ExampleStepShape ==
  ASSUME TypeOK, [ExampleNext]_exampleVars
  PROVE  [Next]_vars
  <1>1. main \in Tasks
    BY ExampleConstants
  <1>2. CASE NextCall
    <2>1. issued \in Nat /\ issued < 4
      BY <1>2, ExampleConstants DEF NextCall, TypeOK
    <2>2. Script[issued + 1] \in Calls
      BY <2>1, ExampleConstants
    <2> QED
      BY <1>1, <1>2, <2>2 DEF NextCall, Step, Next
  <1>3. CASE OptionsMade \/ vwRefused \/ SocketOpened \/ SocketNotOpened \/ MainReturns \/ MainPanics
    BY <1>3 DEF OptionsMade, vwRefused, SocketOpened, SocketNotOpened, MainReturns, MainPanics, Exit
  <1>4. CASE InCallStep
    BY <1>1, <1>4 DEF InCallStep, Step, Next
  <1>5. CASE EcuStep
    BY <1>5 DEF EcuStep, Ecu, Next
  <1>6. CASE UNCHANGED exampleVars
    BY <1>6 DEF exampleVars
  <1> QED
    BY <1>2, <1>3, <1>4, <1>5, <1>6 DEF ExampleNext, Main

\* The example is one use of the client, so that everything proved of every use
\* holds of it (basic_functionality.rs:20-48).
THEOREM ExampleUsesClient == ExampleSpec => Spec
  <1>1. ExampleInit => Init
    BY DEF ExampleInit
  <1>2. TypeOK /\ [ExampleNext]_exampleVars => TypeOK' /\ [Next]_vars
    BY ExampleStepShape, TypeStep
  <1> QED
    BY <1>1, <1>2, InitTypeOK, PTL DEF ExampleSpec, Spec

(***************************************************************************)
(* What is on the line.                                                    *)
(***************************************************************************)
LEMMA OnLine ==
  ASSUME TypeOK
  PROVE  /\ tx \in Seq(RequestPacket) /\ Len(tx) \in Nat
         /\ rx \in Seq(Packet) /\ Len(rx) \in Nat
         /\ \A i \in 1 .. Len(tx) : tx[i].origin \in CallId
         /\ \A i \in 1 .. Len(rx) : rx[i].origin \in CallId /\ rx[i].raw \in Seq(Byte)
         /\ executed \in [CallId -> Nat]
         /\ issued \in Nat /\ issued \in 0 .. 4 /\ (issued # 0 => issued \in CallId)
  <1>1. /\ tx \in Seq(RequestPacket) /\ rx \in Seq(Packet) /\ executed \in [CallId -> Nat]
        /\ issued \in 0 .. MaxCalls
    BY DEF TypeOK, LinkTypeOK
  <1>2. Len(tx) \in Nat /\ Len(rx) \in Nat
    BY <1>1, LenProperties
  <1>3. \A i \in 1 .. Len(tx) : tx[i] \in RequestPacket
    BY <1>1, ElementOfSeq
  <1>4. \A i \in 1 .. Len(rx) : rx[i] \in Packet
    BY <1>1, ElementOfSeq
  <1>5. \A p \in RequestPacket : p.origin \in CallId
    BY DEF RequestPacket
  <1>6. \A p \in Packet : p.origin \in CallId /\ p.raw \in Seq(Byte)
    BY DEF Packet
  <1>7. issued \in Nat /\ issued \in 0 .. 4 /\ (issued # 0 => issued \in CallId)
    BY <1>1, ExampleConstants
  <1> QED
    BY <1>1, <1>2, <1>3, <1>4, <1>5, <1>6, <1>7

LEMMA Behind ==
  ASSUME NEW S, NEW s \in Seq(S), s # <<>>
  PROVE  /\ Len(s) \in Nat /\ Len(s) >= 1 /\ Head(s) = s[1]
         /\ Len(Tail(s)) = Len(s) - 1
         /\ \A i \in 1 .. Len(Tail(s)) : i + 1 \in 2 .. Len(s) /\ Tail(s)[i] = s[i + 1]
         /\ \A i \in 2 .. Len(s) : i - 1 \in 1 .. Len(Tail(s)) /\ Tail(s)[i - 1] = s[i]
  <1>1. Len(s) \in Nat /\ Len(s) >= 1
    BY LenProperties
  <1>2. Head(s) = s[1]
    BY HeadTailProperties
  <1>3. Len(Tail(s)) = Len(s) - 1 /\ \A i \in 1 .. Len(Tail(s)) : Tail(s)[i] = s[i + 1]
    BY HeadTailProperties
  <1>4. \A i \in 1 .. Len(Tail(s)) : i + 1 \in 2 .. Len(s)
    BY <1>1, <1>3
  <1>5. \A i \in 2 .. Len(s) : i - 1 \in 1 .. Len(Tail(s)) /\ (i - 1) + 1 = i
    BY <1>1, <1>3
  <1> QED
    BY <1>1, <1>2, <1>3, <1>4, <1>5

\* A message is taken from the front of the queue.
LEMMA TakeFromLine ==
  ASSUME TypeOK, InOrder, receive, NEW packet, packet = Head(rx)
  PROVE  /\ InOrder'
         /\ packet = rx[1] /\ 1 \in 1 .. Len(rx)
         /\ \A n : Outstanding(n)' => /\ Outstanding(n)
                                      /\ Closing(packet) => packet.origin < n
         /\ \A n : Outstanding(n) /\ (Closing(packet) => packet.origin # n) => Outstanding(n)'
  <1>1. /\ Len(rx) \in Nat /\ Len(rx) >= 1 /\ packet = rx[1]
        /\ Len(rx') = Len(rx) - 1
        /\ \A i \in 1 .. Len(rx') : i + 1 \in 2 .. Len(rx) /\ rx'[i] = rx[i + 1]
        /\ \A i \in 2 .. Len(rx) : i - 1 \in 1 .. Len(rx') /\ rx'[i - 1] = rx[i]
    BY OnLine, Behind DEF receive
  <1>2. tx' = tx
    BY DEF receive
  <1>3. 1 \in 1 .. Len(rx) /\ \A i \in 2 .. Len(rx) : i \in 1 .. Len(rx) /\ 1 < i
    BY <1>1
  <1>4. \A i, j \in 1 .. Len(rx') : i < j => i + 1 < j + 1
    BY <1>1
  <1>5. \A p : Closing(p)' <=> Closing(p)
    BY DEF Closing, IsPending
  <1>6. InOrder'
    BY <1>1, <1>2, <1>3, <1>4 DEF InOrder, Closing
  <1>7. ASSUME NEW n, Outstanding(n)'
        PROVE  Outstanding(n) /\ (Closing(packet) => packet.origin < n)
    <2>1. CASE \E i \in 1 .. Len(tx) : tx[i].origin = n
      BY <1>1, <1>3, <2>1 DEF Outstanding, InOrder
    <2>2. CASE \E i \in 1 .. Len(rx') : rx'[i].origin = n /\ Closing(rx'[i])
      <3>1. PICK i \in 1 .. Len(rx') : rx'[i].origin = n /\ Closing(rx'[i])
        BY <2>2
      <3>2. /\ i + 1 \in 2 .. Len(rx) /\ i + 1 \in 1 .. Len(rx) /\ 1 < i + 1
            /\ rx[i + 1].origin = n /\ Closing(rx[i + 1])
        BY <1>1, <1>3, <3>1
      <3>3. Closing(rx[1]) => rx[1].origin < rx[i + 1].origin
        BY <1>3, <3>2 DEF InOrder
      <3> QED
        BY <1>1, <3>2, <3>3 DEF Outstanding
    <2> QED
      BY <1>2, <1>7, <2>1, <2>2 DEF Outstanding, Closing
  <1>8. ASSUME NEW n, Outstanding(n), Closing(packet) => packet.origin # n
        PROVE  Outstanding(n)'
    <2>1. CASE \E i \in 1 .. Len(tx) : tx[i].origin = n
      BY <1>2, <2>1 DEF Outstanding
    <2>2. CASE \E i \in 1 .. Len(rx) : rx[i].origin = n /\ Closing(rx[i])
      <3>1. PICK i \in 1 .. Len(rx) : rx[i].origin = n /\ Closing(rx[i])
        BY <2>2
      <3>2. i \in 2 .. Len(rx)
        BY <1>1, <1>8, <3>1
      <3>3. i - 1 \in 1 .. Len(rx') /\ rx'[i - 1] = rx[i]
        BY <1>1, <3>2
      <3> QED
        BY <3>1, <3>3 DEF Outstanding, Closing
    <2> QED
      BY <1>8, <2>1, <2>2 DEF Outstanding
  <1> QED
    BY <1>1, <1>3, <1>6, <1>7, <1>8

\* The ECU appends an answer to the queue; the rest of what is on the line does
\* not change but for the request it serves.
LEMMA Appended ==
  ASSUME TypeOK, tx # <<>>, NEW raw, Answer(raw)
  PROVE  /\ Len(rx') = Len(rx) + 1
         /\ rx'[Len(rx) + 1].raw = raw /\ rx'[Len(rx) + 1].origin = tx[1].origin
         /\ \A i \in 1 .. Len(rx) : rx'[i] = rx[i]
         /\ \A i \in 1 .. Len(rx') : i \in 1 .. Len(rx) \/ i = Len(rx) + 1
  <1> DEFINE packet == [raw |-> raw, origin |-> Serving.origin]
  <1>1. Len(rx) \in Nat /\ rx \in Seq(Packet) /\ Serving = tx[1]
    BY OnLine, Behind DEF Serving
  <1>2. rx' = Append(rx, packet) /\ packet.raw = raw /\ packet.origin = tx[1].origin
    BY <1>1 DEF Answer
  <1> HIDE DEF packet
  <1>3. /\ Len(rx') = Len(rx) + 1 /\ rx'[Len(rx) + 1] = packet
        /\ \A i \in 1 .. Len(rx) : rx'[i] = rx[i]
    BY <1>1, <1>2, AppendProperties
  <1> QED
    BY <1>1, <1>2, <1>3

LEMMA AnswerKeepsOrder ==
  ASSUME TypeOK, InOrder, tx # <<>>, NEW raw, Answer(raw), ~ IsPending(raw), tx' = Tail(tx)
  PROVE  InOrder' /\ \A n : Outstanding(n)' <=> Outstanding(n)
  <1> DEFINE last == Len(rx) + 1
  <1>1. /\ Len(rx') = last /\ rx'[last].raw = raw /\ rx'[last].origin = tx[1].origin
        /\ \A i \in 1 .. Len(rx) : rx'[i] = rx[i]
        /\ \A i \in 1 .. Len(rx') : i \in 1 .. Len(rx) \/ i = last
    BY Appended
  <1>2. /\ Len(tx) \in Nat /\ Len(tx) >= 1 /\ Len(tx') = Len(tx) - 1
        /\ \A i \in 1 .. Len(tx') : i + 1 \in 2 .. Len(tx) /\ tx'[i] = tx[i + 1]
        /\ \A i \in 2 .. Len(tx) : i - 1 \in 1 .. Len(tx') /\ tx'[i - 1] = tx[i]
        /\ Len(rx) \in Nat
    BY OnLine, Behind
  <1>3. Closing(rx'[last])
    BY <1>1 DEF Closing
  <1>4. /\ 1 \in 1 .. Len(tx) /\ \A i \in 2 .. Len(tx) : i \in 1 .. Len(tx) /\ 1 < i
        /\ last \in 1 .. Len(rx') /\ \A i \in 1 .. Len(rx) : i \in 1 .. Len(rx') /\ i < last
    BY <1>1, <1>2
  <1>5. ASSUME NEW i \in 1 .. Len(tx'), NEW j \in 1 .. Len(tx'), i < j
        PROVE  tx'[i].origin < tx'[j].origin
    <2>1. i + 1 \in 1 .. Len(tx) /\ j + 1 \in 1 .. Len(tx) /\ i + 1 < j + 1
      BY <1>2, <1>4, <1>5
    <2> QED
      BY <1>2, <2>1 DEF InOrder
  <1>6. ASSUME NEW i \in 1 .. Len(rx'), NEW j \in 1 .. Len(rx'), i < j,
               Closing(rx'[i]), Closing(rx'[j])
        PROVE  rx'[i].origin < rx'[j].origin
    <2>1. i \in 1 .. Len(rx) /\ rx'[i] = rx[i]
      BY <1>1, <1>2, <1>6
    <2>2. CASE j \in 1 .. Len(rx)
      BY <1>1, <1>6, <2>1, <2>2 DEF InOrder
    <2>3. CASE j = last
      BY <1>1, <1>4, <1>6, <2>1, <2>3 DEF InOrder
    <2> QED
      BY <1>1, <2>2, <2>3
  <1>7. ASSUME NEW i \in 1 .. Len(rx'), NEW j \in 1 .. Len(tx'), Closing(rx'[i])
        PROVE  rx'[i].origin < tx'[j].origin
    <2>1. j + 1 \in 1 .. Len(tx) /\ 1 < j + 1 /\ tx'[j] = tx[j + 1]
      BY <1>2, <1>4
    <2>2. CASE i \in 1 .. Len(rx)
      BY <1>1, <1>7, <2>1, <2>2 DEF InOrder
    <2>3. CASE i = last
      BY <1>1, <1>4, <2>1, <2>3 DEF InOrder
    <2> QED
      BY <1>1, <2>2, <2>3
  <1> HIDE DEF last
  <1>8. ASSUME NEW n, Outstanding(n)' PROVE Outstanding(n)
    <2>1. CASE \E i \in 1 .. Len(tx') : tx'[i].origin = n
      BY <1>2, <1>4, <2>1 DEF Outstanding
    <2>2. CASE \E i \in 1 .. Len(rx') : rx'[i].origin = n /\ Closing(rx'[i])
      BY <1>1, <1>4, <2>2 DEF Outstanding
    <2> QED
      BY <1>8, <2>1, <2>2 DEF Outstanding, Closing
  <1>9. ASSUME NEW n, Outstanding(n) PROVE Outstanding(n)'
    <2>1. CASE \E i \in 1 .. Len(tx) : tx[i].origin = n
      <3>1. PICK i \in 1 .. Len(tx) : tx[i].origin = n
        BY <2>1
      <3>2. CASE i = 1
        BY <1>1, <1>3, <1>4, <3>1, <3>2 DEF Outstanding, Closing
      <3>3. CASE i \in 2 .. Len(tx)
        BY <1>2, <3>1, <3>3 DEF Outstanding
      <3> QED
        BY <1>2, <3>2, <3>3
    <2>2. CASE \E i \in 1 .. Len(rx) : rx[i].origin = n /\ Closing(rx[i])
      BY <1>1, <1>4, <2>2 DEF Outstanding, Closing
    <2> QED
      BY <1>9, <2>1, <2>2 DEF Outstanding
  <1>10. InOrder'
    BY <1>5, <1>6, <1>7 DEF InOrder, Closing
  <1> QED
    BY <1>8, <1>9, <1>10

LEMMA PendingKeepsOrder ==
  ASSUME TypeOK, InOrder, tx # <<>>, NEW raw, Answer(raw), IsPending(raw), tx' = tx
  PROVE  InOrder' /\ \A n : Outstanding(n)' <=> Outstanding(n)
  <1> DEFINE last == Len(rx) + 1
  <1>1. /\ Len(rx') = last /\ rx'[last].raw = raw
        /\ \A i \in 1 .. Len(rx) : i \in 1 .. Len(rx') /\ rx'[i] = rx[i]
        /\ \A i \in 1 .. Len(rx') : i \in 1 .. Len(rx) \/ i = last
    BY Appended, OnLine
  <1>2. ~ Closing(rx'[last])
    BY <1>1 DEF Closing
  <1> HIDE DEF last
  <1>3. \A i \in 1 .. Len(rx') : Closing(rx'[i]) => i \in 1 .. Len(rx) /\ rx'[i] = rx[i]
    BY <1>1, <1>2
  <1>4. InOrder'
    BY <1>3 DEF InOrder, Closing
  <1>5. ASSUME NEW n PROVE Outstanding(n)' <=> Outstanding(n)
    <2>1. (\E i \in 1 .. Len(rx') : rx'[i].origin = n /\ Closing(rx'[i]))
            <=> \E i \in 1 .. Len(rx) : rx[i].origin = n /\ Closing(rx[i])
      BY <1>1, <1>3
    <2> QED
      BY <2>1 DEF Outstanding, Closing
  <1> QED
    BY <1>4, <1>5

LEMMA SilenceKeepsOrder ==
  ASSUME TypeOK, InOrder, tx # <<>>, tx' = Tail(tx), rx' = rx
  PROVE  InOrder' /\ \A n : Outstanding(n)' => Outstanding(n)
  <1>1. /\ Len(tx') = Len(tx) - 1 /\ Len(tx) \in Nat
        /\ \A i \in 1 .. Len(tx') : i + 1 \in 2 .. Len(tx) /\ tx'[i] = tx[i + 1]
    BY OnLine, Behind
  <1>2. \A i \in 1 .. Len(tx') : i + 1 \in 1 .. Len(tx)
    BY <1>1
  <1>3. \A i, j \in 1 .. Len(tx') : i < j => i + 1 < j + 1
    BY <1>1
  <1>4. InOrder'
    BY <1>1, <1>2, <1>3 DEF InOrder, Closing
  <1>5. ASSUME NEW n, Outstanding(n)' PROVE Outstanding(n)
    BY <1>1, <1>2, <1>5 DEF Outstanding, Closing
  <1> QED
    BY <1>4, <1>5

\* What a step of the ECU leaves of the requests and answers on the line fits
\* still, if it performs no request or the one it serves.
LEMMA ServingFits ==
  ASSUME TypeOK, InOrder, LineFits, tx # <<>>, tx' = Tail(tx), UNCHANGED <<issued, pc>>,
         Execute \/ UNCHANGED executed
  PROVE  /\ \A i \in 1 .. Len(tx') : RequestFits(tx'[i], issued', executed')
         /\ \A i \in 1 .. Len(rx) : AnswerFits(rx[i], issued', executed')
         /\ \A n \in CallId : /\ executed'[n] <= 1 /\ (n > issued => executed'[n] = 0)
                              /\ executed[n] = 1 => executed'[n] = 1
         /\ Execute => executed'[tx[1].origin] = 1
         /\ \A n \in CallId : n # tx[1].origin => executed'[n] = executed[n]
         /\ RequestFits(tx[1], issued, executed)
  <1> DEFINE served == tx[1].origin
  <1>1. /\ Len(tx) \in Nat /\ Len(tx) >= 1 /\ 1 \in 1 .. Len(tx)
        /\ \A i \in 1 .. Len(tx') : i + 1 \in 1 .. Len(tx) /\ 1 < i + 1 /\ tx'[i] = tx[i + 1]
        /\ Serving = tx[1] /\ served \in CallId
        /\ executed \in [CallId -> Nat]
        /\ \A i \in 1 .. Len(tx) : tx[i].origin \in CallId
        /\ \A i \in 1 .. Len(rx) : rx[i].origin \in CallId
    <2>1. /\ Len(tx) \in Nat /\ Len(tx) >= 1
          /\ \A i \in 1 .. Len(tx') : i + 1 \in 2 .. Len(tx) /\ tx'[i] = tx[i + 1]
          /\ Serving = tx[1]
      BY OnLine, Behind DEF Serving
    <2>2. 1 \in 1 .. Len(tx) /\ \A i \in 2 .. Len(tx) : i \in 1 .. Len(tx) /\ 1 < i
      BY <2>1
    <2> QED
      BY <2>1, <2>2, OnLine
  <1>2. RequestFits(tx[1], issued, executed) /\ executed[served] = 0 /\ served <= issued
    BY <1>1 DEF LineFits, RequestFits
  <1>3. /\ \A n \in CallId : n # served => executed'[n] = executed[n]
        /\ Execute => executed'[served] = 1
        /\ executed'[served] \in {0, 1}
    BY <1>1, <1>2 DEF Execute
  <1>4. \A n \in CallId : /\ executed'[n] <= 1 /\ (n > issued => executed'[n] = 0)
                          /\ executed[n] = 1 => executed'[n] = 1
    <2>1. ASSUME NEW n \in CallId
          PROVE  /\ executed'[n] <= 1 /\ (n > issued => executed'[n] = 0)
                 /\ executed[n] = 1 => executed'[n] = 1
      <3>1. /\ executed[n] <= 1 /\ (n > issued => executed[n] = 0)
            /\ n \in 1 .. 4 /\ issued \in Nat /\ served \in 1 .. 4
        BY <1>1, OnLine, ExampleConstants DEF LineFits
      <3>2. CASE n = served
        BY <1>2, <1>3, <3>1, <3>2
      <3>3. CASE n # served
        BY <1>3, <3>1, <3>3
      <3> QED
        BY <3>2, <3>3
    <2> QED
      BY <2>1
  <1>5. ASSUME NEW i \in 1 .. Len(tx') PROVE RequestFits(tx'[i], issued', executed')
    <2>1. served < tx'[i].origin
      BY <1>1 DEF InOrder
    <2>2. RequestFits(tx'[i], issued, executed) /\ tx'[i].origin \in CallId
      BY <1>1 DEF LineFits
    <2>3. tx'[i].origin # served
      BY <1>1, <2>1, <2>2, ExampleConstants
    <2> QED
      BY <1>3, <2>2, <2>3 DEF RequestFits
  <1>6. ASSUME NEW i \in 1 .. Len(rx) PROVE AnswerFits(rx[i], issued', executed')
    <2>1. AnswerFits(rx[i], issued, executed) /\ rx[i].origin \in CallId
      BY <1>1 DEF LineFits
    <2>2. CASE Closing(rx[i])
      <3>1. rx[i].origin < served
        BY <1>1, <2>2 DEF InOrder
      <3>2. rx[i].origin # served
        BY <1>1, <2>1, <3>1, ExampleConstants
      <3> QED
        BY <1>3, <2>1, <3>2 DEF AnswerFits
    <2>3. CASE ~ Closing(rx[i])
      <3>1. ~ IsPositive(rx[i].raw) /\ ~ IsBusy(rx[i].raw)
        BY <2>3 DEF Closing, IsPending, IsPositive, IsBusy, BusyRepeatRequest,
                    RequestCorrectlyReceivedResponsePending
      <3> QED
        BY <2>1, <3>1 DEF AnswerFits
    <2> QED
      BY <2>2, <2>3
  <1> QED
    BY <1>2, <1>3, <1>4, <1>5, <1>6

\* The rest of LineFits, when the ECU takes a request off the line or keeps it.
LEMMA EcuKeepsSending ==
  ASSUME TypeOK, LineFits, UNCHANGED <<issued, pc>>,
         \A n : Outstanding(n)' => Outstanding(n),
         \A n \in CallId : ~ Outstanding(n) => executed'[n] = executed[n]
  PROVE  NotAskedTwice'
  <1> SUFFICES ASSUME pc[main] = "send"
               PROVE  executed'[issued] = 0 /\ ~ Outstanding(issued)'
    BY DEF NotAskedTwice, Outstanding
  <1>1. issued # 0
    BY ExampleConstants DEF TypeOK, InCall
  <1>2. issued \in CallId
    BY <1>1, OnLine
  <1> QED
    BY <1>2 DEF LineFits, NotAskedTwice

LEMMA LineNames ==
  ASSUME TypeOK, LineFits, tx # <<>>
  PROVE  /\ tx[1].origin \in CallId
         /\ Serving = tx[1]
         /\ Serving.raw[1] = ScriptSid(tx[1].origin)
         /\ Outstanding(tx[1].origin)
         /\ executed[tx[1].origin] = 0 /\ tx[1].origin <= issued
  <1>1. 1 \in 1 .. Len(tx) /\ Serving = tx[1]
    BY OnLine, Behind DEF Serving
  <1>2. tx[1].origin \in CallId
    BY <1>1, OnLine
  <1>3. RequestFits(tx[1], issued, executed)
    BY <1>1 DEF LineFits
  <1> QED
    BY <1>1, <1>2, <1>3, ScriptSids DEF RequestFits, Outstanding

\* An appended answer fits, and so does the line with it.
LEMMA AppendedFits ==
  ASSUME TypeOK, tx # <<>>, NEW raw, Answer(raw), issued' = issued,
         \A i \in 1 .. Len(rx) : AnswerFits(rx[i], issued', executed'),
         tx[1].origin <= issued,
         NamesService(raw, ScriptSid(tx[1].origin)),
         IsPositive(raw) => executed'[tx[1].origin] = 1,
         IsBusy(raw) => executed'[tx[1].origin] = 0
  PROVE  \A i \in 1 .. Len(rx') : AnswerFits(rx'[i], issued', executed')
  <1>1. /\ rx'[Len(rx) + 1].raw = raw /\ rx'[Len(rx) + 1].origin = tx[1].origin
        /\ \A i \in 1 .. Len(rx) : rx'[i] = rx[i]
        /\ \A i \in 1 .. Len(rx') : i \in 1 .. Len(rx) \/ i = Len(rx) + 1
    BY Appended
  <1>2. AnswerFits(rx'[Len(rx) + 1], issued', executed')
    BY <1>1 DEF AnswerFits
  <1> QED
    BY <1>1, <1>2

LEMMA EcuAnswerFits ==
  ASSUME TypeOK, InOrder, LineFits, EcuAnswer, UNCHANGED <<issued, pc>>
  PROVE  InOrder' /\ LineFits' /\ (\A n : Outstanding(n)' <=> Outstanding(n))
         /\ \A n \in CallId : executed[n] = 1 => executed'[n] = 1
  <1>1. PICK raw \in Answers[Serving.raw] :
          Answer(raw) /\ (IF IsPositive(raw) THEN Execute ELSE UNCHANGED executed)
    BY DEF EcuAnswer
  <1>2. tx # <<>> /\ tx' = Tail(tx)
    BY DEF EcuAnswer, Served
  <1>3. Serving.raw \in DOMAIN Answers
    BY <1>2, ServingIsTyped DEF TypeOK
  <1>4. ~ IsPending(raw) /\ ~ IsBusy(raw) /\ NamesService(raw, ScriptSid(tx[1].origin))
    BY <1>1, <1>2, <1>3, LinkAssumption, EcuAssumption, LineNames DEF Final
  <1>5. InOrder' /\ \A n : Outstanding(n)' <=> Outstanding(n)
    BY <1>1, <1>2, <1>4, AnswerKeepsOrder
  <1>6. /\ \A i \in 1 .. Len(tx') : RequestFits(tx'[i], issued', executed')
        /\ \A i \in 1 .. Len(rx) : AnswerFits(rx[i], issued', executed')
        /\ \A n \in CallId : /\ executed'[n] <= 1 /\ (n > issued => executed'[n] = 0)
                             /\ executed[n] = 1 => executed'[n] = 1
        /\ Execute => executed'[tx[1].origin] = 1
        /\ \A n \in CallId : n # tx[1].origin => executed'[n] = executed[n]
    BY <1>1, <1>2, ServingFits
  <1>7. \A i \in 1 .. Len(rx') : AnswerFits(rx'[i], issued', executed')
    BY <1>1, <1>2, <1>4, <1>6, LineNames, AppendedFits
  <1>8. NotAskedTwice'
    BY <1>2, <1>5, <1>6, LineNames, EcuKeepsSending
  <1> QED
    BY <1>5, <1>6, <1>7, <1>8 DEF LineFits

LEMMA EcuBusyFits ==
  ASSUME TypeOK, InOrder, LineFits, EcuBusy, UNCHANGED <<issued, pc>>
  PROVE  InOrder' /\ LineFits' /\ (\A n : Outstanding(n)' <=> Outstanding(n))
         /\ executed' = executed
  <1> DEFINE raw == <<NEGATIVE_RESPONSE_SID, Serving.raw[1], BusyRepeatRequest>>
  <1>1. Answer(raw) /\ tx # <<>> /\ tx' = Tail(tx) /\ executed' = executed
    BY DEF EcuBusy, Served
  <1>2. ~ IsPending(raw) /\ ~ IsPositive(raw) /\ NamesService(raw, ScriptSid(tx[1].origin))
    BY <1>1, LineNames
       DEF IsPending, IsPositive, NamesService, BusyRepeatRequest,
           RequestCorrectlyReceivedResponsePending
  <1> HIDE DEF raw
  <1>3. InOrder' /\ \A n : Outstanding(n)' <=> Outstanding(n)
    BY <1>1, <1>2, AnswerKeepsOrder
  <1>4. /\ \A i \in 1 .. Len(tx') : RequestFits(tx'[i], issued', executed')
        /\ \A i \in 1 .. Len(rx) : AnswerFits(rx[i], issued', executed')
        /\ \A n \in CallId : executed'[n] <= 1 /\ (n > issued => executed'[n] = 0)
    BY <1>1, ServingFits
  <1>5. \A i \in 1 .. Len(rx') : AnswerFits(rx'[i], issued', executed')
    BY <1>1, <1>2, <1>4, LineNames, AppendedFits
  <1>6. NotAskedTwice'
    BY <1>1, <1>3, EcuKeepsSending
  <1> QED
    BY <1>1, <1>3, <1>4, <1>5, <1>6 DEF LineFits

LEMMA EcuPendingFits ==
  ASSUME TypeOK, InOrder, LineFits, EcuPending, UNCHANGED <<issued, pc>>
  PROVE  InOrder' /\ LineFits' /\ (\A n : Outstanding(n)' <=> Outstanding(n))
         /\ executed' = executed
  <1> DEFINE raw == <<NEGATIVE_RESPONSE_SID, Serving.raw[1],
                      RequestCorrectlyReceivedResponsePending>>
  <1>1. Answer(raw) /\ tx # <<>> /\ UNCHANGED <<tx, executed>>
    BY DEF EcuPending
  <1>2. /\ IsPending(raw) /\ ~ IsPositive(raw) /\ ~ IsBusy(raw)
        /\ NamesService(raw, ScriptSid(tx[1].origin))
    BY <1>1, LineNames
       DEF IsPending, IsPositive, IsBusy, NamesService, BusyRepeatRequest,
           RequestCorrectlyReceivedResponsePending
  <1> HIDE DEF raw
  <1>3. InOrder' /\ \A n : Outstanding(n)' <=> Outstanding(n)
    BY <1>1, <1>2, PendingKeepsOrder
  <1>4. \A i \in 1 .. Len(tx') : RequestFits(tx'[i], issued', executed')
    BY <1>1 DEF LineFits, RequestFits
  <1>5. \A i \in 1 .. Len(rx) : AnswerFits(rx[i], issued', executed')
    BY <1>1 DEF LineFits, AnswerFits
  <1>6. \A i \in 1 .. Len(rx') : AnswerFits(rx'[i], issued', executed')
    BY <1>1, <1>2, <1>5, LineNames, AppendedFits
  <1>7. NotAskedTwice'
    BY <1>1, <1>3, EcuKeepsSending
  <1> QED
    BY <1>1, <1>3, <1>4, <1>6, <1>7 DEF LineFits

LEMMA EcuSilentFits ==
  ASSUME TypeOK, InOrder, LineFits, EcuSilent, UNCHANGED <<issued, pc>>
  PROVE  InOrder' /\ LineFits' /\ \A n \in CallId : executed[n] = 1 => executed'[n] = 1
  <1>1. tx # <<>> /\ tx' = Tail(tx) /\ rx' = rx /\ (Execute \/ UNCHANGED executed)
    BY DEF EcuSilent, Served
  <1>2. InOrder' /\ \A n : Outstanding(n)' => Outstanding(n)
    BY <1>1, SilenceKeepsOrder
  <1>3. /\ \A i \in 1 .. Len(tx') : RequestFits(tx'[i], issued', executed')
        /\ \A i \in 1 .. Len(rx) : AnswerFits(rx[i], issued', executed')
        /\ \A n \in CallId : /\ executed'[n] <= 1 /\ (n > issued => executed'[n] = 0)
                             /\ executed[n] = 1 => executed'[n] = 1
        /\ \A n \in CallId : n # tx[1].origin => executed'[n] = executed[n]
    BY <1>1, ServingFits
  <1>4. NotAskedTwice'
    BY <1>1, <1>2, <1>3, LineNames, EcuKeepsSending
  <1> QED
    BY <1>1, <1>2, <1>3, <1>4 DEF LineFits

(***************************************************************************)
(* The ECU and the results.                                                *)
(***************************************************************************)
LEMMA LoggedOne ==
  ASSUME ExampleTypeOK, NEW n \in 1 .. Len(results)
  PROVE  n \in CallId /\ results[n].tag \in OkTags \cup ErrTags
  <1>1. /\ TypeOK /\ Len(results) \in Nat /\ Len(results) <= issued
        /\ results[n].tag \in OkTags \cup ErrTags
    BY LenProperties DEF ExampleTypeOK
  <1> QED
    BY <1>1, OnLine, ExampleConstants

LEMMA EcuStepKeeps ==
  ASSUME ExampleInvariant, EcuStep, TypeOK'
  PROVE  ExampleInvariant'
  <1>1. /\ UNCHANGED <<pc, call, outcome, id, issued, default_options, stage, socket, exit, results>>
        /\ TypeOK /\ ExampleTypeOK /\ CurrentCall /\ InOrder /\ LineFits /\ ResultFits
        /\ LoggedOkIsTrue /\ OutOfStepStays /\ MismatchSpoilsTheRest
    BY DEF EcuStep, clientVars, mainVars, ExampleInvariant, ExampleTypeOK
  <1>2. /\ InOrder' /\ LineFits'
        /\ \A n \in CallId : executed[n] = 1 => executed'[n] = 1
        /\ \/ lost' = lost /\ \A n : Outstanding(n)' <=> Outstanding(n)
           \/ lost' = TRUE
    BY <1>1, EcuAnswerFits, EcuBusyFits, EcuPendingFits, EcuSilentFits DEF EcuStep, EcuServe
  <1>3. ExampleTypeOK'
    BY <1>1, <1>2 DEF ExampleTypeOK
  <1>4. CurrentCall'
    BY <1>1 DEF CurrentCall, InCall
  <1>5. ResultFits'
    BY <1>1, <1>2, OnLine DEF ResultFits, HasResult, InCall
  <1>6. LoggedOkIsTrue'
    BY <1>1, <1>2, LoggedOne DEF LoggedOkIsTrue
  <1>7. MismatchSpoilsTheRest'
    BY <1>1, <1>2 DEF MismatchSpoilsTheRest
  <1>8. OutOfStepStays'
    <2>1. SUFFICES ASSUME lost' = lost, ~ lost, \A n : Outstanding(n)' <=> Outstanding(n)
                   PROVE  OutOfStepStays'
      BY <1>2 DEF OutOfStepStays
    <2>2. (OutOfStep' <=> OutOfStep) /\ (HasResult' <=> HasResult)
          /\ (LoggedMismatch' <=> LoggedMismatch) /\ (InCall(main)' <=> InCall(main))
      BY <1>1 DEF OutOfStep, HasResult, LoggedMismatch, InCall
    <2>3. pc'[main] \in {"recv", "pending"} => Outstanding(issued)'
      BY <1>1, <2>1 DEF OutOfStepStays
    <2>4. OutOfStep' => \E n \in 1 .. issued' : Outstanding(n)' /\ (InCall(main)' => n < issued')
      BY <1>1, <2>1, <2>2 DEF OutOfStepStays
    <2>5. HasResult' /\ LoggedMismatch' => ~ IsOk(outcome'[main])
      BY <1>1, <2>1, <2>2 DEF OutOfStepStays
    <2> QED
      BY <1>1, <2>3, <2>4, <2>5 DEF OutOfStepStays
  <1> QED
    BY <1>2, <1>3, <1>4, <1>5, <1>6, <1>7, <1>8 DEF ExampleInvariant

(***************************************************************************)
(* The steps of a call.                                                    *)
(***************************************************************************)
LEMMA CallUnderWay ==
  ASSUME ExampleInvariant, InCall(main)
  PROVE  /\ TypeOK /\ main \in Tasks /\ issued \in CallId /\ id[main] = issued
         /\ issued \in 1 .. issued
         /\ call[main] = Script[issued] /\ call[main] \in Calls
         /\ Request(main)[1] = ScriptSid(issued)
         /\ stage = "calls" /\ ~ HasResult
  <1>1. TypeOK /\ CurrentCall /\ main \in Tasks
    BY ExampleConstants DEF ExampleInvariant, ExampleTypeOK
  <1>2. id[main] = issued /\ issued # 0 /\ stage = "calls"
    BY <1>1 DEF CurrentCall, TypeOK
  <1>3. issued \in CallId /\ issued \in Nat /\ issued # 0
    BY <1>1, <1>2, OnLine
  <1>4. call[main] = Script[issued] /\ call[main] \in Calls
    BY <1>1, <1>2 DEF CurrentCall, TypeOK
  <1>5. Request(main)[1] = ScriptSid(issued)
    BY <1>3, <1>4, ScriptSids DEF Request
  <1>6. ~ HasResult
    BY DEF HasResult
  <1> QED
    BY <1>1, <1>2, <1>3, <1>4, <1>5, <1>6

\* What no step of a call changes.
LEMMA InCallKeeps ==
  ASSUME ExampleInvariant, InCall(main), TypeOK',
         UNCHANGED <<call, id, issued, executed, mainVars, lost>>
  PROVE  /\ ExampleTypeOK' /\ CurrentCall' /\ LoggedOkIsTrue' /\ MismatchSpoilsTheRest'
         /\ (LoggedMismatch' <=> LoggedMismatch) /\ stage' = "calls" /\ results' = results
         /\ (OutOfStep' <=> LoggedMismatch \/ (HasResult' /\ IsOffByOne(outcome'[main])))
  <1>1. stage = "calls"
    BY CallUnderWay
  <1>2. UNCHANGED <<default_options, stage, socket, exit, results>>
    BY DEF mainVars
  <1> QED
    BY <1>1, <1>2 DEF ExampleInvariant, ExampleTypeOK, CurrentCall, LoggedOkIsTrue, MismatchSpoilsTheRest,
       LoggedMismatch, OutOfStep

\* A call that goes on.
LEMMA CallGoesOn ==
  ASSUME ExampleInvariant, InCall(main), TypeOK', InCall(main)', InOrder', LineFits',
         UNCHANGED <<call, id, issued, executed, mainVars, lost>>,
         ~ lost /\ pc'[main] \in {"recv", "pending"} => Outstanding(issued)',
         \A n \in 1 .. issued : Outstanding(n) /\ n < issued => Outstanding(n)'
  PROVE  ExampleInvariant'
  <1>1. ~ HasResult' /\ ~ HasResult
    BY DEF HasResult
  <1>2. /\ ExampleTypeOK' /\ CurrentCall' /\ LoggedOkIsTrue' /\ MismatchSpoilsTheRest'
        /\ (LoggedMismatch' <=> LoggedMismatch) /\ (OutOfStep' <=> LoggedMismatch)
    BY <1>1, InCallKeeps
  <1>3. ResultFits'
    BY <1>1 DEF ResultFits
  <1>4. ~ lost /\ LoggedMismatch => \E n \in 1 .. issued : Outstanding(n) /\ n < issued
    BY DEF ExampleInvariant, OutOfStepStays, OutOfStep
  <1>5. OutOfStepStays'
    BY <1>1, <1>2, <1>4 DEF OutOfStepStays
  <1> QED
    BY <1>2, <1>3, <1>5 DEF ExampleInvariant

LEMMA SendStep ==
  ASSUME ExampleInvariant, Send(main), UNCHANGED <<mainVars, lost>>, TypeOK'
  PROVE  ExampleInvariant'
  <1> DEFINE packet == [raw |-> Request(main), origin |-> id[main]]
             last   == Len(tx) + 1
  <1>1. /\ InCall(main) /\ InCall(main)' /\ pc[main] = "send" /\ pc'[main] = "recv"
        /\ tx' = Append(tx, packet)
        /\ UNCHANGED <<rx, call, id, issued, executed>>
    BY ExampleConstants DEF Send, send, InCall, ExampleInvariant, ExampleTypeOK, TypeOK
  <1>2. /\ TypeOK /\ issued \in CallId /\ id[main] = issued
        /\ Request(main) = Compose(Script[issued])
        /\ InOrder /\ LineFits /\ executed[issued] = 0 /\ ~ Outstanding(issued)
    BY <1>1, CallUnderWay DEF ExampleInvariant, LineFits, NotAskedTwice, Request
  <1>3. packet.origin = issued /\ packet.raw = Compose(Script[issued])
    BY <1>2
  <1> HIDE DEF packet
  <1>4. /\ Len(tx') = last /\ tx'[last] = packet /\ Len(tx) \in Nat
        /\ \A i \in 1 .. Len(tx) : i \in 1 .. Len(tx') /\ tx'[i] = tx[i] /\ i < last
        /\ \A i \in 1 .. Len(tx') : i \in 1 .. Len(tx) \/ i = last
        /\ last \in 1 .. Len(tx')
    <2>1. tx \in Seq(RequestPacket) /\ Len(tx) \in Nat
      BY <1>2, OnLine
    <2>2. /\ Len(tx') = last /\ tx'[last] = packet
          /\ \A i \in 1 .. Len(tx) : tx'[i] = tx[i]
      BY <1>1, <2>1, AppendProperties
    <2> QED
      BY <2>1, <2>2
  <1>5. /\ \A i \in 1 .. Len(tx) : tx[i].origin < issued
        /\ \A i \in 1 .. Len(rx) : Closing(rx[i]) => rx[i].origin < issued
    <2>1. ASSUME NEW i \in 1 .. Len(tx) PROVE tx[i].origin < issued
      <3>1. tx[i].origin <= issued /\ tx[i].origin # issued /\ tx[i].origin \in CallId
        BY <1>2, OnLine DEF LineFits, RequestFits, Outstanding
      <3> QED
        BY <1>2, <3>1, ExampleConstants
    <2>2. ASSUME NEW i \in 1 .. Len(rx), Closing(rx[i]) PROVE rx[i].origin < issued
      <3>1. rx[i].origin <= issued /\ rx[i].origin # issued /\ rx[i].origin \in CallId
        BY <1>2, <2>2, OnLine DEF LineFits, AnswerFits, Outstanding
      <3> QED
        BY <1>2, <3>1, ExampleConstants
    <2> QED
      BY <2>1, <2>2
  <1> HIDE DEF last
  <1>6. InOrder'
    <2>1. ASSUME NEW i \in 1 .. Len(tx'), NEW j \in 1 .. Len(tx'), i < j
          PROVE  tx'[i].origin < tx'[j].origin
      <3>1. i \in 1 .. Len(tx)
        BY <1>4, <2>1 DEF last
      <3>2. CASE j \in 1 .. Len(tx)
        BY <1>2, <1>4, <2>1, <3>1, <3>2 DEF InOrder
      <3>3. CASE j = last
        BY <1>3, <1>4, <1>5, <3>1, <3>3
      <3> QED
        BY <1>4, <3>2, <3>3
    <2>2. ASSUME NEW i \in 1 .. Len(rx), NEW j \in 1 .. Len(tx'), Closing(rx[i])
          PROVE  rx[i].origin < tx'[j].origin
      <3>1. CASE j \in 1 .. Len(tx)
        BY <1>2, <1>4, <2>2, <3>1 DEF InOrder
      <3>2. CASE j = last
        BY <1>3, <1>4, <1>5, <2>2, <3>2
      <3> QED
        BY <1>4, <3>1, <3>2
    <2> QED
      BY <1>1, <1>2, <2>1, <2>2 DEF InOrder, Closing
  <1>7. LineFits'
    <2>1. RequestFits(packet, issued, executed)
      BY <1>2, <1>3, ExampleConstants DEF RequestFits
    <2>2. \A i \in 1 .. Len(tx') : RequestFits(tx'[i], issued', executed')
      BY <1>1, <1>2, <1>4, <2>1 DEF LineFits
    <2>3. NotAskedTwice'
      BY <1>1 DEF NotAskedTwice
    <2> QED
      BY <1>1, <1>2, <2>2, <2>3 DEF LineFits
  <1>8. \A n : Outstanding(n) => Outstanding(n)'
    BY <1>1, <1>4 DEF Outstanding, Closing
  <1>9. Outstanding(issued)'
    BY <1>1, <1>3, <1>4 DEF Outstanding
  <1> QED
    BY <1>1, <1>6, <1>7, <1>8, <1>9, CallGoesOn

\* What a call finds at the front of the queue, and what it leaves there.
LEMMA TakeKeepsLine ==
  ASSUME ExampleInvariant, InCall(main), Take(main), NEW packet, packet = Head(rx),
         pc'[main] # "send"
  PROVE  /\ InOrder' /\ LineFits'
         /\ UNCHANGED <<call, id, issued, executed>>
         /\ packet.origin \in CallId /\ AnswerFits(packet, issued, executed)
         /\ raw_response = packet.raw /\ raw_response \in Seq(Byte)
         /\ \A n : Outstanding(n)' => /\ Outstanding(n)
                                      /\ Closing(packet) => packet.origin < n
         /\ \A n : Outstanding(n) /\ (Closing(packet) => packet.origin # n) => Outstanding(n)'
  <1>1. TypeOK /\ InOrder /\ LineFits /\ main \in Tasks
    BY CallUnderWay DEF ExampleInvariant
  <1>2. receive /\ UNCHANGED <<call, id, issued>>
    BY DEF Take
  <1>3. UNCHANGED <<tx, executed>>
    BY <1>2 DEF receive
  <1>4. /\ InOrder' /\ packet = rx[1] /\ 1 \in 1 .. Len(rx)
        /\ \A n : Outstanding(n)' => Outstanding(n) /\ (Closing(packet) => packet.origin < n)
        /\ \A n : Outstanding(n) /\ (Closing(packet) => packet.origin # n) => Outstanding(n)'
    BY <1>1, <1>2, TakeFromLine
  <1>5. packet.origin \in CallId /\ AnswerFits(packet, issued, executed)
    BY <1>1, <1>4, OnLine DEF LineFits
  <1>6. raw_response = packet.raw /\ raw_response \in Seq(Byte)
    BY <1>1, TakeIsTyped DEF raw_response
  <1>7. \A i \in 1 .. Len(rx') : AnswerFits(rx'[i], issued', executed')
    <2>1. \A i \in 1 .. Len(rx') : i + 1 \in 2 .. Len(rx) /\ rx'[i] = rx[i + 1]
      BY <1>1, <1>2, OnLine, Behind DEF receive
    <2>2. \A i \in 2 .. Len(rx) : i \in 1 .. Len(rx)
      BY <1>1, OnLine
    <2> QED
      BY <1>1, <1>2, <1>3, <2>1, <2>2 DEF LineFits
  <1>8. LineFits'
    <2>1. NotAskedTwice'
      BY DEF NotAskedTwice
    <2> QED
      BY <1>1, <1>2, <1>3, <1>7, <2>1 DEF LineFits
  <1> QED
    BY <1>2, <1>3, <1>4, <1>5, <1>6, <1>8

\* A call that returns what it makes of a message from the queue.
LEMMA TakeReturns ==
  ASSUME ExampleInvariant, pc[main] \in {"recv", "pending"}, Take(main), NEW r, Return(main, r),
         UNCHANGED <<mainVars, lost>>, TypeOK',
         r.tag \in OkTags \cup ErrTags \cup {"Panic"},
         IsOk(r) => IsPositive(Head(rx).raw) /\ Head(rx).origin = issued,
         IsOffByOne(r) => Head(rx).origin # issued
  PROVE  ExampleInvariant'
  <1> DEFINE packet == Head(rx)
  <1>1. InCall(main) /\ main \in Tasks
    BY ExampleConstants DEF InCall
  <1>2. /\ pc'[main] = "ready" /\ outcome'[main] = r
    BY <1>1, CallUnderWay DEF Return, TypeOK
  <1>3. /\ InOrder' /\ LineFits'
        /\ UNCHANGED <<call, id, issued, executed>>
        /\ packet.origin \in CallId /\ AnswerFits(packet, issued, executed)
        /\ \A n : Outstanding(n)' => Outstanding(n) /\ (Closing(packet) => packet.origin < n)
        /\ \A n : Outstanding(n) /\ (Closing(packet) => packet.origin # n) => Outstanding(n)'
    BY <1>1, <1>2, TakeKeepsLine
  <1>4. /\ ExampleTypeOK' /\ CurrentCall' /\ LoggedOkIsTrue' /\ MismatchSpoilsTheRest'
        /\ (LoggedMismatch' <=> LoggedMismatch) /\ stage' = "calls"
        /\ (OutOfStep' <=> LoggedMismatch \/ (HasResult' /\ IsOffByOne(outcome'[main])))
    BY <1>1, <1>3, InCallKeeps
  <1>5. issued \in CallId /\ issued \in 1 .. issued /\ issued' = issued /\ ~ InCall(main)'
    BY <1>1, <1>2, <1>3, CallUnderWay DEF InCall
  <1> HIDE DEF packet
  <1>6. ResultFits'
    BY <1>2, <1>3, <1>5 DEF ResultFits, AnswerFits, packet
  <1>7. ASSUME ~ lost
        PROVE  /\ IsOffByOne(r) => Outstanding(issued)'
               /\ LoggedMismatch => \E n \in 1 .. issued : Outstanding(n)'
               /\ LoggedMismatch => ~ IsOk(r)
    <2>1. Outstanding(issued)
      BY <1>7 DEF ExampleInvariant, OutOfStepStays
    <2>2. packet.origin # issued => Outstanding(issued)'
      BY <1>3, <1>5, <2>1
    <2>3. ASSUME LoggedMismatch
          PROVE  (\E n \in 1 .. issued : Outstanding(n)') /\ ~ IsOk(r)
      <3>1. PICK n \in 1 .. issued : Outstanding(n) /\ n < issued
        BY <1>1, <1>7, <2>3 DEF ExampleInvariant, OutOfStepStays, OutOfStep
      <3>2. CASE Closing(packet) => packet.origin # n
        <4>1. Outstanding(n)'
          BY <1>3, <3>1, <3>2
        <4>2. Closing(packet) => packet.origin < n
          BY <1>3, <4>1
        <4>3. ~ IsOk(r)
          <5>1. SUFFICES ASSUME IsOk(r) PROVE FALSE
            OBVIOUS
          <5>2. Closing(packet) /\ packet.origin = issued
            BY <5>1 DEF Closing, IsPending, IsPositive, packet
          <5> QED
            BY <1>5, <3>1, <4>2, <5>2, ExampleConstants
        <4> QED
          BY <4>1, <4>3
      <3>3. CASE Closing(packet) /\ packet.origin = n
        <4>1. packet.origin # issued
          BY <1>5, <3>1, <3>3, ExampleConstants
        <4> QED
          BY <1>5, <2>2, <4>1 DEF packet
      <3> QED
        BY <3>2, <3>3
    <2> QED
      BY <2>2, <2>3 DEF packet
  <1>8. OutOfStepStays'
    <2>1. SUFFICES ASSUME ~ lost PROVE OutOfStepStays'
      BY DEF OutOfStepStays
    <2>2. OutOfStep' => \E n \in 1 .. issued : Outstanding(n)'
      BY <1>2, <1>4, <1>5, <1>7, <2>1
    <2> QED
      BY <1>2, <1>4, <1>5, <1>7, <2>1, <2>2 DEF OutOfStepStays
  <1> QED
    BY <1>3, <1>4, <1>6, <1>8 DEF ExampleInvariant

\* A call that ends without having received anything.
LEMMA PlainReturns ==
  ASSUME ExampleInvariant, InCall(main), NEW r, Return(main, r),
         UNCHANGED <<call, retry_counter, id, took, issued, linkVars>>,
         UNCHANGED <<mainVars, lost>>, TypeOK', r.tag \in {"NRC", "CommunicationError"}
  PROVE  ExampleInvariant'
  <1>1. /\ pc'[main] = "ready" /\ outcome'[main] = r /\ UNCHANGED <<tx, rx, executed>>
    BY CallUnderWay DEF Return, TypeOK, linkVars
  <1>2. ~ IsOk(r) /\ ~ IsOffByOne(r) /\ r.tag \in ErrTags
    BY DEF IsOk, OkTags, IsOffByOne, ErrTags
  <1>3. /\ ExampleTypeOK' /\ CurrentCall' /\ LoggedOkIsTrue' /\ MismatchSpoilsTheRest'
        /\ (LoggedMismatch' <=> LoggedMismatch)
        /\ (OutOfStep' <=> LoggedMismatch \/ (HasResult' /\ IsOffByOne(outcome'[main])))
    BY <1>1, InCallKeeps
  <1>4. InOrder' /\ LineFits'
    BY <1>1 DEF ExampleInvariant, InOrder, LineFits, NotAskedTwice
  <1>5. \A n : Outstanding(n)' <=> Outstanding(n)
    BY <1>1 DEF Outstanding
  <1>6. ResultFits'
    BY <1>1, <1>2 DEF ResultFits
  <1>7. ~ lost /\ LoggedMismatch => \E n \in 1 .. issued : Outstanding(n)'
    BY <1>5 DEF ExampleInvariant, OutOfStepStays, OutOfStep
  <1>8. OutOfStepStays'
    BY <1>1, <1>2, <1>3, <1>7 DEF OutOfStepStays, InCall
  <1> QED
    BY <1>3, <1>4, <1>6, <1>8 DEF ExampleInvariant

\* A parser reports the first byte of a message that is not of its service.
LEMMA ParseMismatch ==
  ASSUME NEW c \in Calls, NEW raw \in Seq(Byte), Parse(c, raw).tag = "SidMismatch"
  PROVE  raw # <<>> /\ Parse(c, raw) = SidMismatch(Sid(c.service) + SEND_RECEIVE_SID_OFFSET, raw[1])
         /\ raw[1] # Sid(c.service) + SEND_RECEIVE_SID_OFFSET
  <1> USE DEF Parse, Sid, WithSid, Err, Parsed, Raw, DidMismatch
  <1>1. c.service \in Services
    BY ClientAssumption
  <1>2. CASE c.service = "read_memory_by_address"
    BY <1>2 DEF parse_response, NoResult
  <1>3. CASE c.service \in {"diagnostic_session_control", "clear_diagnostic_information"}
    BY <1>3 DEF parse_diagnostic_session_control_response,
                parse_clear_diagnostic_information_response
  <1>4. CASE c.service = "ecu_reset"
    BY <1>4 DEF parse_ecu_reset_response
  <1>5. CASE c.service = "write_data_by_identifier"
    BY <1>5 DEF parse_write_data_by_identifier_response
  <1>6. CASE c.service = "report_number_of_dtc_by_status_mask"
    BY <1>6 DEF parse_report_number_of_dtc_by_status_mask_response
  <1>7. CASE c.service = "report_dtc_snapshot_record_by_dtc_number"
    BY <1>7 DEF parse_report_dtc_snapshot_record_by_dtc_number_response
  <1>8. CASE c.service = "report_dtc_ext_data_record_by_dtc_number"
    BY <1>8 DEF parse_report_dtc_ext_data_by_dtc_number_response
  <1>9. CASE c.service \in {"report_dtc_by_status_mask", "report_most_recent_confirmed_dtc"}
    BY <1>9 DEF parse_report_dtcs
  <1>10. CASE c.service = "read_data_by_identifier"
    BY <1>10 DEF parse_read_data_by_identifier_response,
                 parse_single_data_by_identifier_response
  <1> QED
    BY <1>1, <1>2, <1>3, <1>4, <1>5, <1>6, <1>7, <1>8, <1>9, <1>10 DEF Services

\* What the parser of a call makes of a message that names its service.
LEMMA ParseFits ==
  ASSUME NEW n \in CallId, NEW k \in CallId, NEW raw \in Seq(Byte),
         NamesService(raw, ScriptSid(k)), NEW r, r = Parse(Script[n], raw)
  PROVE  /\ r.tag \in OkTags \cup ErrTags \cup {"Panic"}
         /\ IsOk(r) => IsPositive(raw) /\ k = n
         /\ IsOffByOne(r) => k # n
  <1>1. /\ Script[n] \in Calls /\ Compose(Script[n])[1] = ScriptSid(n)
        /\ Sid(Script[n].service) = ScriptSid(n)
        /\ ScriptSid(n) \in Nat /\ ScriptSid(k) \in Nat
        /\ ScriptSid(n) + SEND_RECEIVE_SID_OFFSET # NEGATIVE_RESPONSE_SID
        /\ ScriptSid(n) = ScriptSid(k) => n = k
    <2>1. Script[n] \in Calls /\ Sid(Script[n].service) = ScriptSid(n)
      BY ExampleConstants DEF ScriptSid
    <2> HIDE DEF ScriptSid
    <2>2. \A b \in Byte : b \in Nat
      BY DEF Byte
    <2> QED
      BY <2>1, <2>2, ScriptSids
  <1> HIDE DEF ScriptSid
  <1>2. FromService(ScriptSid(n), raw, r)
    BY <1>1, ParseReturns
  <1>3. r.tag \in OkTags \cup ErrTags \cup {"Panic"}
    BY <1>2 DEF FromService, ParserResult, ParserTags, ErrTags
  <1>4. IsOk(r) => IsPositive(raw) /\ k = n
    BY <1>1, <1>2 DEF FromService, IsPositive, NamesService, SEND_RECEIVE_SID_OFFSET
  <1>5. ASSUME IsOffByOne(r) PROVE k # n
    <2>1. /\ raw # <<>> /\ r = SidMismatch(ScriptSid(n) + SEND_RECEIVE_SID_OFFSET, raw[1])
          /\ raw[1] # ScriptSid(n) + SEND_RECEIVE_SID_OFFSET
      BY <1>1, <1>5, ParseMismatch DEF IsOffByOne
    <2>2. raw[1] # NEGATIVE_RESPONSE_SID
      BY <1>5, <2>1 DEF IsOffByOne, SidMismatch
    <2> QED
      BY <2>1, <2>2 DEF IsPositive, NamesService
  <1> QED
    BY <1>3, <1>4, <1>5

\* What a call finds at the front of the queue.
LEMMA TakenFits ==
  ASSUME ExampleInvariant, InCall(main), Take(main)
  PROVE  /\ TypeOK /\ main \in Tasks
         /\ Head(rx).origin \in CallId /\ AnswerFits(Head(rx), issued, executed)
         /\ raw_response = Head(rx).raw /\ raw_response \in Seq(Byte)
         /\ NamesService(raw_response, ScriptSid(Head(rx).origin))
  <1>1. TypeOK /\ InOrder /\ LineFits /\ main \in Tasks
    BY CallUnderWay DEF ExampleInvariant
  <1>2. receive
    BY DEF Take
  <1>3. Head(rx) = rx[1] /\ 1 \in 1 .. Len(rx)
    BY <1>1, <1>2, TakeFromLine
  <1>4. Head(rx).origin \in CallId /\ AnswerFits(Head(rx), issued, executed)
    BY <1>1, <1>3, OnLine DEF LineFits
  <1>5. raw_response = Head(rx).raw /\ raw_response \in Seq(Byte)
    BY <1>1, TakeIsTyped DEF raw_response
  <1> QED
    BY <1>1, <1>4, <1>5 DEF AnswerFits

\* An answer goes to the parser of the call, at once or after a wait.
LEMMA ParsedStep ==
  ASSUME ExampleInvariant, ReceiveAnswer(main) \/ ReceiveDelayed(main),
         UNCHANGED <<mainVars, lost>>, TypeOK'
  PROVE  ExampleInvariant'
  <1> DEFINE r == Parse(call[main], raw_response)
  <1>1. /\ pc[main] \in {"recv", "pending"} /\ InCall(main)
        /\ Take(main) /\ Return(main, r)
    BY DEF ReceiveAnswer, ReceiveDelayed, InCall
  <1>2. call[main] = Script[issued] /\ issued \in CallId
    BY <1>1, CallUnderWay
  <1>3. r = Parse(Script[issued], Head(rx).raw)
    BY <1>1, <1>2, TakenFits
  <1>4. /\ Head(rx).origin \in CallId /\ Head(rx).raw \in Seq(Byte)
        /\ NamesService(Head(rx).raw, ScriptSid(Head(rx).origin))
    BY <1>1, TakenFits
  <1> HIDE DEF r
  <1>5. /\ r.tag \in OkTags \cup ErrTags \cup {"Panic"}
        /\ IsOk(r) => IsPositive(Head(rx).raw) /\ Head(rx).origin = issued
        /\ IsOffByOne(r) => Head(rx).origin # issued
    BY <1>2, <1>3, <1>4, ParseFits
  <1> QED
    BY <1>1, <1>5, TakeReturns

\* A negative response ends the call with an error that says so.
LEMMA NegativeStep ==
  ASSUME ExampleInvariant, UNCHANGED <<mainVars, lost>>, TypeOK',
         ReceiveError(main) \/ ReceiveForeignNrc(main) \/ ReceiveNrc(main)
           \/ GiveUp(main) \/ RetryOverflow(main)
  PROVE  ExampleInvariant'
  <1>1. pc[main] \in {"recv", "pending"} /\ InCall(main) /\ Take(main)
    BY DEF ReceiveError, ReceiveForeignNrc, ReceiveNrc, GiveUp, RetryOverflow, ReceiveOwnNrc, InCall
  <1>2. /\ TypeOK /\ main \in Tasks
        /\ Head(rx).origin \in CallId /\ raw_response \in Seq(Byte)
        /\ NamesService(raw_response, ScriptSid(Head(rx).origin))
        /\ issued \in CallId /\ Request(main)[1] = ScriptSid(issued)
    BY <1>1, TakenFits, CallUnderWay
  <1>3. Verdict.tag = "NRC" => /\ Len(raw_response) >= 3
                               /\ raw_response[1] = NEGATIVE_RESPONSE_SID
                               /\ Verdict.body[1] = raw_response[2]
    BY <1>1, <1>2, VerdictIsTyped
  <1>4. Verdict.tag \in ErrTags \cup {"None"} /\ Verdict.tag # "SidMismatch"
    BY <1>2 DEF Verdict, parse_for_error, Err, NoResult, NRC, UnknownNRC, ErrTags
  <1>5. CASE ReceiveForeignNrc(main)
    <2> DEFINE r == SidMismatch(Request(main)[1], Verdict.body[1])
    <2>1. Verdict.tag = "NRC" /\ Verdict.body[1] # Request(main)[1] /\ Return(main, r)
      BY <1>5 DEF ReceiveForeignNrc
    <2>2. Head(rx).origin # issued
      BY <1>2, <1>3, <2>1 DEF NamesService
    <2>3. r.tag \in ErrTags /\ ~ IsOk(r)
      BY DEF SidMismatch, ErrTags, IsOk, OkTags
    <2> HIDE DEF r
    <2> QED
      BY <1>1, <2>1, <2>2, <2>3, TakeReturns
  <1>6. CASE ReceiveError(main) \/ ReceiveNrc(main) \/ GiveUp(main)
    <2>1. Return(main, Verdict) /\ Verdict.tag # "None"
      BY <1>6 DEF ReceiveError, ReceiveNrc, GiveUp, ReceiveOwnNrc
    <2>2. Verdict.tag \in ErrTags /\ ~ IsOk(Verdict) /\ ~ IsOffByOne(Verdict)
      BY <1>4, <2>1 DEF IsOk, OkTags, ErrTags, IsOffByOne
    <2> QED
      BY <1>1, <2>1, <2>2, TakeReturns
  <1>7. CASE RetryOverflow(main)
    <2> DEFINE r == NoResult("Panic")
    <2>1. Return(main, r)
      BY <1>7 DEF RetryOverflow
    <2>2. r.tag = "Panic" /\ ~ IsOk(r) /\ ~ IsOffByOne(r)
      BY DEF NoResult, IsOk, OkTags, IsOffByOne
    <2> HIDE DEF r
    <2> QED
      BY <1>1, <2>1, <2>2, TakeReturns
  <1> QED
    BY <1>5, <1>6, <1>7

\* An interim answer closes nothing: the call goes on waiting.
LEMMA WaitStep ==
  ASSUME ExampleInvariant, ReceivePending(main), UNCHANGED <<mainVars, lost>>, TypeOK'
  PROVE  ExampleInvariant'
  <1>1. pc[main] = "recv" /\ InCall(main) /\ Take(main)
    BY DEF ReceivePending, ReceiveOwnNrc, InCall
  <1>2. /\ TypeOK /\ main \in Tasks /\ issued \in CallId
    BY <1>1, CallUnderWay
  <1>3. pc'[main] = "pending" /\ InCall(main)'
    BY <1>2 DEF ReceivePending, InCall, TypeOK
  <1>4. ~ Closing(Head(rx))
    <2>1. /\ Len(raw_response) >= 3 /\ raw_response[1] = NEGATIVE_RESPONSE_SID
          /\ raw_response[3] = RequestCorrectlyReceivedResponsePending
      BY <1>1, <1>2, VerdictIsTyped DEF ReceivePending, ReceiveOwnNrc
    <2> QED
      BY <1>1, <2>1, TakenFits DEF Closing, IsPending
  <1>5. /\ InOrder' /\ LineFits' /\ UNCHANGED <<call, id, issued, executed>>
        /\ \A n : Outstanding(n) => Outstanding(n)'
    BY <1>1, <1>3, <1>4, TakeKeepsLine
  <1>6. ~ lost => Outstanding(issued)
    BY <1>1 DEF ExampleInvariant, OutOfStepStays
  <1> QED
    BY <1>1, <1>3, <1>5, <1>6, CallGoesOn

\* The ECU has forgotten a request it was too busy for, so that the repeat is no
\* second one.
LEMMA RepeatStep ==
  ASSUME ExampleInvariant, RepeatRequest(main), UNCHANGED <<mainVars, lost>>, TypeOK'
  PROVE  ExampleInvariant'
  <1>1. pc[main] = "recv" /\ InCall(main) /\ Take(main) /\ receive
    BY DEF RepeatRequest, ReceiveOwnNrc, Take, InCall
  <1>2. /\ TypeOK /\ InOrder /\ LineFits /\ main \in Tasks /\ issued \in CallId
        /\ Request(main)[1] = ScriptSid(issued)
    BY <1>1, CallUnderWay DEF ExampleInvariant
  <1>3. pc'[main] = "send" /\ InCall(main)'
    BY <1>2 DEF RepeatRequest, InCall, TypeOK
  <1>4. /\ Head(rx).origin \in CallId /\ AnswerFits(Head(rx), issued, executed)
        /\ raw_response = Head(rx).raw
        /\ NamesService(raw_response, ScriptSid(Head(rx).origin))
    BY <1>1, TakenFits
  <1>5. /\ Len(raw_response) >= 3 /\ raw_response[1] = NEGATIVE_RESPONSE_SID
        /\ raw_response[3] = BusyRepeatRequest /\ raw_response[2] = ScriptSid(issued)
    BY <1>1, <1>2, VerdictIsTyped DEF RepeatRequest, ReceiveOwnNrc
  <1>6. Head(rx).origin = issued
    BY <1>2, <1>4, <1>5, ScriptSids DEF NamesService
  <1>7. executed[issued] = 0 /\ Closing(Head(rx))
    BY <1>4, <1>5, <1>6 DEF AnswerFits, IsBusy, Closing, IsPending,
       BusyRepeatRequest, RequestCorrectlyReceivedResponsePending
  <1>8. /\ InOrder'
        /\ \A n : Outstanding(n)' => Head(rx).origin < n
        /\ \A n : Outstanding(n) /\ Head(rx).origin # n => Outstanding(n)'
    BY <1>1, <1>2, <1>7, TakeFromLine
  <1>9. UNCHANGED <<tx, executed, call, id, issued>>
    BY <1>1 DEF Take, receive
  <1>10. LineFits'
    <2>1. \A i \in 1 .. Len(rx') : i + 1 \in 2 .. Len(rx) /\ rx'[i] = rx[i + 1]
      BY <1>1, <1>2, OnLine, Behind DEF receive
    <2>2. \A i \in 2 .. Len(rx) : i \in 1 .. Len(rx)
      BY <1>2, OnLine
    <2>3. \A i \in 1 .. Len(rx') : AnswerFits(rx'[i], issued', executed')
      BY <1>2, <1>9, <2>1, <2>2 DEF LineFits
    <2>4. ~ Outstanding(issued)'
      <3>1. ~ (issued < issued)
        BY <1>2, ExampleConstants
      <3>2. ~ (Head(rx).origin < issued)
        BY <1>6, <3>1
      <3> QED
        BY <1>8, <1>9, <3>2
    <2>5. NotAskedTwice'
      BY <1>7, <1>9, <2>4 DEF NotAskedTwice
    <2> QED
      BY <1>2, <1>9, <2>3, <2>5 DEF LineFits
  <1>11. \A n \in 1 .. issued : Outstanding(n) /\ n < issued => Outstanding(n)'
    BY <1>2, <1>6, <1>8, ExampleConstants
  <1> QED
    BY <1>1, <1>3, <1>8, <1>9, <1>10, <1>11, CallGoesOn

LEMMA InCallStepKeeps ==
  ASSUME ExampleInvariant, InCallStep, TypeOK'
  PROVE  ExampleInvariant'
  <1>1. CASE Send(main)
    BY <1>1, SendStep DEF InCallStep
  <1>2. CASE Receive(main)
    BY <1>2, ParsedStep, NegativeStep, WaitStep, RepeatStep DEF InCallStep, Receive
  <1>3. CASE SendFails(main) \/ ReceiveFails(main)
    <2> DEFINE r == Err("CommunicationError")
    <2>1. /\ InCall(main) /\ Return(main, r)
          /\ UNCHANGED <<call, retry_counter, id, took, issued, linkVars>>
      BY <1>3 DEF SendFails, ReceiveFails, InCall
    <2>2. r.tag \in {"NRC", "CommunicationError"}
      BY DEF Err
    <2> HIDE DEF r
    <2> QED
      BY <2>1, <2>2, PlainReturns DEF InCallStep
  <1>4. CASE PendingTimeout(main)
    <2> DEFINE r == NRC(Request(main)[1], RequestCorrectlyReceivedResponsePending)
    <2>1. /\ InCall(main) /\ Return(main, r)
          /\ UNCHANGED <<call, retry_counter, id, took, issued, linkVars>>
      BY <1>4 DEF PendingTimeout, InCall
    <2>2. r.tag \in {"NRC", "CommunicationError"}
      BY DEF NRC
    <2> HIDE DEF r
    <2> QED
      BY <2>1, <2>2, PlainReturns DEF InCallStep
  <1> QED
    BY <1>1, <1>2, <1>3, <1>4 DEF InCallStep

(***************************************************************************)
(* The steps of main between the calls.                                    *)
(***************************************************************************)
LEMMA ResultLogged ==
  ASSUME ExampleInvariant, CallOver, outcome[main].tag # "Panic", results' = Logged,
         UNCHANGED <<executed, lost>>
  PROVE  /\ results' \in Seq(Result) /\ Len(results') = issued
         /\ \A n \in 1 .. Len(results') : results'[n].tag \in OkTags \cup ErrTags
         /\ LoggedOkIsTrue' /\ MismatchSpoilsTheRest'
         /\ LoggedMismatch' => OutOfStep
  <1>1. /\ TypeOK /\ issued \in Nat /\ main \in Tasks /\ stage = "calls" /\ ~ InCall(main)
        /\ results \in Seq(Result) /\ Len(results) \in Nat /\ Len(results) <= issued
        /\ \A n \in 1 .. Len(results) : results[n].tag \in OkTags \cup ErrTags
        /\ LoggedOkIsTrue /\ MismatchSpoilsTheRest
    BY OnLine, ExampleConstants, LenProperties DEF ExampleInvariant, ExampleTypeOK, CallOver
  <1>2. CASE issued = 0
    <2>1. results' = results /\ Len(results) = issued
      BY <1>1, <1>2 DEF Logged
    <2> QED
      BY <1>1, <2>1 DEF LoggedOkIsTrue, MismatchSpoilsTheRest, LoggedMismatch, OutOfStep
  <1>3. CASE issued # 0
    <2> DEFINE r == outcome[main]
    <2>1. results' = Append(results, r) /\ HasResult
      BY <1>1, <1>3 DEF Logged, HasResult
    <2>2. Len(results) = issued - 1 /\ r \in Result
      BY <1>1, <1>3 DEF ExampleInvariant, CurrentCall, TypeOK
    <2>3. r.tag \in OkTags \cup ErrTags /\ (IsOk(r) => executed[issued] = 1)
      BY <2>1 DEF ExampleInvariant, ResultFits
    <2>4. LoggedMismatch /\ ~ lost => ~ IsOk(r)
      BY <2>1 DEF ExampleInvariant, OutOfStepStays
    <2>5. IsOffByOne(r) => OutOfStep
      BY <2>1 DEF OutOfStep
    <2> HIDE DEF r
    <2>6. /\ results' \in Seq(Result) /\ Len(results') = issued /\ results'[issued] = r
          /\ \A n \in 1 .. Len(results) : results'[n] = results[n]
      <3>1. /\ results' \in Seq(Result) /\ Len(results') = Len(results) + 1
            /\ results'[Len(results) + 1] = r
            /\ \A n \in 1 .. Len(results) : results'[n] = results[n]
        BY <1>1, <2>1, <2>2, AppendProperties
      <3>2. Len(results) + 1 = issued
        BY <1>1, <2>2
      <3> QED
        BY <3>1, <3>2
    <2>7. \A n \in 1 .. Len(results') : n \in 1 .. Len(results) \/ n = issued
      BY <1>1, <2>2, <2>6
    <2>8. \A n \in 1 .. Len(results') : results'[n].tag \in OkTags \cup ErrTags
      BY <1>1, <2>3, <2>6, <2>7
    <2>9. LoggedOkIsTrue'
      BY <1>1, <2>3, <2>6, <2>7 DEF LoggedOkIsTrue
    <2>10. LoggedMismatch' => OutOfStep
      BY <2>5, <2>6, <2>7 DEF LoggedMismatch, OutOfStep
    <2>11. MismatchSpoilsTheRest'
      <3>1. SUFFICES ASSUME ~ lost, NEW n \in 1 .. Len(results'), NEW m \in 1 .. Len(results'),
                            n < m, IsOffByOne(results'[n])
                     PROVE  ~ IsOk(results'[m])
        BY DEF MismatchSpoilsTheRest
      <3>2. n \in 1 .. Len(results) /\ results'[n] = results[n]
        BY <1>1, <2>2, <2>6, <3>1
      <3>3. CASE m \in 1 .. Len(results)
        BY <1>1, <2>6, <3>1, <3>2, <3>3 DEF MismatchSpoilsTheRest
      <3>4. CASE m = issued
        BY <2>4, <2>6, <3>1, <3>2, <3>4 DEF LoggedMismatch
      <3> QED
        BY <2>7, <3>3, <3>4
    <2> QED
      BY <2>6, <2>8, <2>9, <2>10, <2>11
  <1> QED
    BY <1>2, <1>3

\* Once out of step, an answer to an earlier call is on its way.
LEMMA StillOutstanding ==
  ASSUME ExampleInvariant, ~ lost, OutOfStep
  PROVE  \E n \in 1 .. issued : Outstanding(n)
  BY DEF ExampleInvariant, OutOfStepStays

LEMMA NextCallKeeps ==
  ASSUME ExampleInvariant, NextCall, TypeOK'
  PROVE  ExampleInvariant'
  <1>1. /\ TypeOK /\ ExampleTypeOK /\ CurrentCall /\ InOrder /\ LineFits /\ main \in Tasks
        /\ issued \in Nat /\ issued < 4 /\ CallOver /\ stage = "calls"
    BY OnLine, ExampleConstants
    DEF NextCall, CallOver, ExampleInvariant, ExampleTypeOK, Script
  <1>2. /\ pc'[main] = "send" /\ InCall(main)' /\ issued' = issued + 1 /\ id'[main] = issued + 1
        /\ call'[main] = Script[issued + 1]
        /\ UNCHANGED <<tx, rx, executed, default_options, stage, socket, exit, lost>>
    BY <1>1 DEF NextCall, Start, TypeOK, InCall, linkVars
  <1>3. issued + 1 \in CallId /\ issued + 1 # 0
    BY <1>1, ExampleConstants
  <1>4. /\ results' \in Seq(Result) /\ Len(results') = issued
        /\ \A n \in 1 .. Len(results') : results'[n].tag \in OkTags \cup ErrTags
        /\ LoggedOkIsTrue' /\ MismatchSpoilsTheRest' /\ (LoggedMismatch' => OutOfStep)
    BY <1>1, <1>2, ResultLogged DEF NextCall
  <1>5. ExampleTypeOK'
    BY <1>1, <1>2, <1>4 DEF ExampleTypeOK
  <1>6. CurrentCall'
    BY <1>1, <1>2, <1>3, <1>4 DEF CurrentCall
  <1>7. InOrder'
    BY <1>1, <1>2 DEF InOrder, Closing
  <1>8. /\ \A i \in 1 .. Len(tx) : tx[i].origin \in CallId /\ tx[i].origin <= issued
        /\ \A i \in 1 .. Len(rx) : rx[i].origin \in CallId /\ rx[i].origin <= issued
    BY <1>1, OnLine DEF LineFits, RequestFits, AnswerFits
  <1>9. \A n \in CallId : n <= issued => n <= issued + 1 /\ n # issued + 1
    BY <1>1, ExampleConstants
  <1>10. LineFits'
    <2>1. ~ Outstanding(issued)'
      BY <1>2, <1>8, <1>9 DEF Outstanding
    <2>2. executed[issued + 1] = 0
      BY <1>1, <1>3 DEF LineFits
    <2>3. NotAskedTwice'
      BY <1>2, <2>1, <2>2 DEF NotAskedTwice
    <2>4. \A n \in CallId : executed[n] <= 1 /\ (n > issued + 1 => executed[n] = 0)
      <3>1. \A n \in CallId : n > issued + 1 => n > issued
        BY <1>1, ExampleConstants
      <3> QED
        BY <1>1, <3>1 DEF LineFits
    <2>5. /\ \A i \in 1 .. Len(tx) : RequestFits(tx[i], issued + 1, executed)
          /\ \A i \in 1 .. Len(rx) : AnswerFits(rx[i], issued + 1, executed)
      BY <1>1, <1>8, <1>9 DEF LineFits, RequestFits, AnswerFits
    <2> QED
      BY <1>2, <2>3, <2>4, <2>5 DEF LineFits
  <1>11. ~ HasResult'
    BY <1>2 DEF HasResult
  <1>12. OutOfStepStays'
    <2>1. SUFFICES ASSUME ~ lost PROVE OutOfStepStays'
      BY <1>2 DEF OutOfStepStays
    <2>2. ASSUME OutOfStep'
          PROVE  \E n \in 1 .. issued' : Outstanding(n)' /\ n < issued'
      <3>1. PICK n \in 1 .. issued : Outstanding(n)
        BY <1>4, <1>11, <2>1, <2>2, StillOutstanding DEF OutOfStep
      <3>2. Outstanding(n)'
        BY <1>2, <3>1 DEF Outstanding, Closing
      <3>3. n \in 1 .. issued' /\ n < issued'
        BY <1>1, <1>2
      <3> QED
        BY <3>2, <3>3
    <2> QED
      BY <1>2, <1>11, <2>2 DEF OutOfStepStays
  <1> QED
    BY <1>4, <1>5, <1>6, <1>7, <1>10, <1>11, <1>12 DEF ExampleInvariant, ResultFits

\* What main does before the first call and after the last.
LEMMA OutsideCalls ==
  ASSUME ExampleInvariant, ~ InCall(main), ~ HasResult', ExampleTypeOK', UNCHANGED <<vars, lost>>,
         LoggedOkIsTrue', MismatchSpoilsTheRest', LoggedMismatch' => OutOfStep,
         stage' # "calls" \/ issued = 0,
         stage' \in {"options", "open"} => issued = 0
  PROVE  ExampleInvariant'
  <1>1. UNCHANGED <<tx, rx, executed, pc, call, id, issued, outcome>>
    BY DEF vars, clientVars, linkVars
  <1>2. CurrentCall'
    BY <1>1 DEF ExampleInvariant, CurrentCall, InCall
  <1>3. InOrder' /\ LineFits'
    BY <1>1 DEF ExampleInvariant, InOrder, LineFits, Closing, NotAskedTwice, Outstanding
  <1>4. ASSUME ~ lost, OutOfStep'
        PROVE  \E n \in 1 .. issued : Outstanding(n)'
    <2>1. \E n \in 1 .. issued : Outstanding(n)
      BY <1>4, StillOutstanding DEF OutOfStep
    <2> QED
      BY <1>1, <2>1 DEF Outstanding, Closing
  <1>5. OutOfStepStays'
    BY <1>1, <1>4 DEF OutOfStepStays, InCall
  <1> QED
    BY <1>2, <1>3, <1>5 DEF ExampleInvariant, ResultFits

LEMMA MainKeeps ==
  ASSUME ExampleInvariant, Main, TypeOK'
  PROVE  ExampleInvariant'
  <1>1. TypeOK /\ ExampleTypeOK /\ CurrentCall /\ LoggedOkIsTrue /\ MismatchSpoilsTheRest
    BY DEF ExampleInvariant, ExampleTypeOK
  <1>2. CASE NextCall
    BY <1>2, NextCallKeeps
  <1>3. CASE OptionsMade \/ vwRefused \/ SocketOpened \/ SocketNotOpened \/ MainPanics
    <2>1. /\ UNCHANGED <<vars, default_options, results, lost>>
          /\ stage' # "calls" \/ issued = 0
          /\ stage' \in {"options", "open"} => issued = 0
          /\ ~ InCall(main)
      BY <1>1, <1>3
      DEF OptionsMade, vwRefused, SocketOpened, SocketNotOpened, MainPanics, Exit, CallOver,
          CurrentCall
    <2>2. UNCHANGED <<executed, issued>>
      BY <2>1 DEF vars, clientVars, linkVars
    <2>3. ~ HasResult'
      BY <2>1, <2>2 DEF HasResult
    <2>4. ExampleTypeOK'
      <3>1. /\ stage' \in {"options", "open", "calls", "returned"}
            /\ socket' \in {"none", "open", "open_with_opts"}
            /\ exit' \in {"none", "Ok", "panic", "SocketCreationError", "SocketCanIOError",
                          "FailedToFindCanDevice"}
        BY <1>1, <1>3
        DEF OptionsMade, vwRefused, SocketOpened, SocketNotOpened, MainPanics, Exit, FromError,
            ExampleTypeOK
      <3> QED
        BY <1>1, <2>1, <2>2, <3>1 DEF ExampleTypeOK
    <2>5. LoggedOkIsTrue' /\ MismatchSpoilsTheRest' /\ (LoggedMismatch' => OutOfStep)
      BY <1>1, <2>1, <2>2 DEF LoggedOkIsTrue, MismatchSpoilsTheRest, LoggedMismatch, OutOfStep
    <2> QED
      BY <2>1, <2>2, <2>3, <2>4, <2>5, OutsideCalls
  <1>4. CASE MainReturns
    <2>1. /\ UNCHANGED <<vars, default_options, socket, lost>> /\ CallOver
          /\ stage' = "returned" /\ exit' = "Ok" /\ ~ InCall(main)
      BY <1>4 DEF MainReturns, Exit, CallOver
    <2>2. UNCHANGED <<executed, issued>> /\ issued \in Nat
      BY <1>1, <2>1, OnLine DEF vars, clientVars, linkVars
    <2>3. /\ results' \in Seq(Result) /\ Len(results') = issued
          /\ \A n \in 1 .. Len(results') : results'[n].tag \in OkTags \cup ErrTags
          /\ LoggedOkIsTrue' /\ MismatchSpoilsTheRest' /\ (LoggedMismatch' => OutOfStep)
      BY <1>4, <2>1, <2>2, ResultLogged DEF MainReturns
    <2>4. ExampleTypeOK' /\ ~ HasResult'
      BY <1>1, <2>1, <2>2, <2>3 DEF ExampleTypeOK, HasResult
    <2> QED
      BY <2>1, <2>2, <2>3, <2>4, OutsideCalls
  <1> QED
    BY <1>2, <1>3, <1>4 DEF Main

(***************************************************************************)
(* The invariant, and what it says of the log.                             *)
(***************************************************************************)
LEMMA ExampleBegins == ExampleInit => ExampleInvariant
  <1> SUFFICES ASSUME ExampleInit PROVE ExampleInvariant
    OBVIOUS
  <1>1. TypeOK /\ main \in Tasks
    BY InitTypeOK, ExampleConstants DEF ExampleInit
  <1>2. /\ tx = <<>> /\ rx = <<>> /\ executed = [n \in CallId |-> 0] /\ results = <<>>
        /\ issued = 0 /\ id[main] = 0 /\ pc[main] = "ready" /\ stage = "options"
    BY <1>1 DEF ExampleInit, Init, LinkInit
  <1>3. Len(tx) = 0 /\ Len(rx) = 0 /\ Len(results) = 0
    BY <1>2
  <1>4. ExampleTypeOK
    <2>1. results \in Seq(Result) /\ Len(results) <= issued
      BY <1>2
    <2>2. \A n \in 1 .. Len(results) : results[n].tag \in OkTags \cup ErrTags
      BY <1>3
    <2>3. default_options \in BOOLEAN /\ lost \in BOOLEAN /\ socket = "none" /\ exit = "none"
      BY DEF ExampleInit
    <2> QED
      BY <1>1, <1>2, <2>1, <2>2, <2>3 DEF ExampleTypeOK
  <1>5. CurrentCall /\ InOrder /\ ~ HasResult /\ ~ LoggedMismatch /\ ~ InCall(main)
    BY <1>2, <1>3 DEF CurrentCall, InOrder, HasResult, LoggedMismatch, InCall
  <1>6. LineFits
    BY <1>2, <1>3 DEF LineFits, NotAskedTwice
  <1>7. LoggedOkIsTrue /\ MismatchSpoilsTheRest
    BY <1>3 DEF LoggedOkIsTrue, MismatchSpoilsTheRest
  <1> QED
    BY <1>2, <1>4, <1>5, <1>6, <1>7 DEF ExampleInvariant, ResultFits, OutOfStepStays, OutOfStep

LEMMA ExampleStep ==
  ASSUME ExampleInvariant, [ExampleNext]_exampleVars
  PROVE  ExampleInvariant'
  <1>1. TypeOK'
    BY ExampleStepShape, TypeStep DEF ExampleInvariant, ExampleTypeOK
  <1>2. CASE UNCHANGED exampleVars
    <2>1. UNCHANGED <<tx, rx, executed, pc, call, outcome, id, issued,
                      default_options, stage, socket, exit, results, lost>>
      BY <1>2 DEF exampleVars, vars, clientVars, linkVars, mainVars
    <2>2. ExampleTypeOK' /\ CurrentCall' /\ ResultFits' /\ LoggedOkIsTrue' /\ MismatchSpoilsTheRest'
      BY <1>1, <2>1
      DEF ExampleInvariant, ExampleTypeOK, CurrentCall, InCall, ResultFits, HasResult,
          LoggedOkIsTrue, MismatchSpoilsTheRest
    <2>3. InOrder' /\ LineFits'
      BY <2>1 DEF ExampleInvariant, InOrder, LineFits, Closing, NotAskedTwice, Outstanding
    <2>4. OutOfStepStays'
      BY <2>1
      DEF ExampleInvariant, OutOfStepStays, OutOfStep, LoggedMismatch, HasResult, InCall,
          Outstanding, Closing
    <2> QED
      BY <2>2, <2>3, <2>4 DEF ExampleInvariant
  <1> QED
    BY <1>1, <1>2, MainKeeps, InCallStepKeeps, EcuStepKeeps DEF ExampleNext

\* The invariant holds for any answers of an ECU that names the services it
\* answers, any faults, and any bound on its interim answers.
THEOREM ExampleSafe == ExampleSpec => []ExampleInvariant
  BY ExampleBegins, ExampleStep, PTL DEF ExampleSpec

\* main is where its variables say, and has logged no more than a result for
\* each call it made (basic_functionality.rs:8-50).
THEOREM ExampleTypeCorrect == ExampleSpec => []ExampleTypeOK
  <1>1. ExampleInvariant => ExampleTypeOK
    BY DEF ExampleInvariant
  <1> QED
    BY <1>1, ExampleSafe, PTL

\* Every Ok in the log is of a step the ECU performed once (basic_functionality.rs:20-48):
\* although the client takes any message for the answer to its request, the four
\* calls are of four services, and each is on the line once at a time.
THEOREM LogTrue == ExampleSpec => []LoggedOkIsTrue
  <1>1. ExampleInvariant => LoggedOkIsTrue
    BY DEF ExampleInvariant
  <1> QED
    BY <1>1, ExampleSafe, PTL

\* While no message is lost, no call after one that took another's answer returns
\* Ok (basic_functionality.rs:20-48): an answer to an earlier call is ahead of its own.
THEOREM LogSpoilt == ExampleSpec => []MismatchSpoilsTheRest
  <1>1. ExampleInvariant => MismatchSpoilsTheRest
    BY DEF ExampleInvariant
  <1> QED
    BY <1>1, ExampleSafe, PTL

==============================================================================
