------------------------------- MODULE UdsLink --------------------------------
(***************************************************************************)
(* What a UdsClient talks to: the ISO-TP socket of the kernel and the ECU  *)
(* behind it.  Neither is part of the repository; both are modelled from   *)
(* how UdsSocket::send and UdsSocket::receive use them.                    *)
(*                                                                         *)
(*   tx        requests written to the socket that the ECU has not served  *)
(*   rx        answers waiting in the socket's receive queue               *)
(*   pendings  interim answers the ECU has sent for the request it serves  *)
(*   executed  how often the ECU performed the request of each call        *)
(*                                                                         *)
(* A packet carries the call it stems from in "origin".  Only properties   *)
(* look at it: the bus does not transport it.                              *)
(***************************************************************************)
EXTENDS UdsDefinitions

CONSTANTS
  Answers,     \* [request -> the final answers the ECU may give to it]
  MaxPending,  \* bound: interim answers per request
  MaxCalls,    \* bound: calls the client makes
  Faults       \* which of AllFaults the environment may commit

AllFaults ==
  {"loss",     \* the ECU never answers a request (lost request or answer)
   "late",     \* an answer comes after the 2500 ms a pending call waits
   "io",       \* a socket operation fails
   "cancel"}   \* the caller drops the future of a call

Final(raw) == ~ IsPending(raw) /\ ~ IsBusy(raw)

ASSUME LinkAssumption ==
  /\ MaxPending \in Nat
  /\ MaxCalls \in Nat
  /\ Faults \subseteq AllFaults
  /\ \A request \in DOMAIN Answers : \A raw \in Answers[request] :
       raw \in Seq(Byte) /\ Final(raw)

VARIABLES tx, rx, pendings, executed

linkVars == <<tx, rx, pendings, executed>>

CallId == 1 .. MaxCalls
Requests == {request \in DOMAIN Answers : request \in Seq(Byte) /\ request # <<>>}

Packet == [raw : Seq(Byte), origin : CallId]
RequestPacket == [raw : Requests, origin : CallId]

LinkTypeOK ==
  /\ tx \in Seq(RequestPacket)
  /\ rx \in Seq(Packet)
  /\ pendings \in 0 .. MaxPending
  /\ executed \in [CallId -> Nat]

LinkInit ==
  /\ tx = <<>>
  /\ rx = <<>>
  /\ pendings = 0
  /\ executed = [n \in CallId |-> 0]

LineIdle == tx = <<>> /\ rx = <<>>

(***************************************************************************)
(* The two operations of UdsSocket.                                        *)
(***************************************************************************)
send(request, origin) ==
  /\ tx' = Append(tx, [raw |-> request, origin |-> origin])
  /\ UNCHANGED <<rx, pendings, executed>>

receive ==
  /\ rx # <<>>
  /\ rx' = Tail(rx)
  /\ UNCHANGED <<tx, pendings, executed>>

(***************************************************************************)
(* The ECU serves requests in the order they arrive.  It may ask for       *)
(* patience any number of times up to the bound, refuse as busy, in which  *)
(* case it forgets the request, or answer.  A positive answer means that   *)
(* it performed the request.                                               *)
(***************************************************************************)
Serving == Head(tx)

Answer(raw) == rx' = Append(rx, [raw |-> raw, origin |-> Serving.origin])

Execute == executed' = [executed EXCEPT ![Serving.origin] = @ + 1]

Served == tx' = Tail(tx) /\ pendings' = 0

IsPositive(raw) == raw # <<>> /\ raw[1] # NEGATIVE_RESPONSE_SID

EcuAnswer ==
  /\ tx # <<>>
  /\ \E raw \in Answers[Serving.raw] :
       /\ Answer(raw)
       /\ IF IsPositive(raw) THEN Execute ELSE UNCHANGED executed
  /\ Served

EcuPending ==
  /\ tx # <<>>
  /\ pendings < MaxPending
  /\ Answer(<<NEGATIVE_RESPONSE_SID, Serving.raw[1], RequestCorrectlyReceivedResponsePending>>)
  /\ pendings' = pendings + 1
  /\ UNCHANGED <<tx, executed>>

EcuBusy ==
  /\ tx # <<>>
  /\ pendings = 0
  /\ Answer(<<NEGATIVE_RESPONSE_SID, Serving.raw[1], BusyRepeatRequest>>)
  /\ Served
  /\ UNCHANGED executed

EcuSilent ==
  /\ "loss" \in Faults
  /\ tx # <<>>
  /\ Execute \/ UNCHANGED executed
  /\ Served
  /\ UNCHANGED rx

EcuServe == EcuAnswer \/ EcuPending \/ EcuBusy

==============================================================================
