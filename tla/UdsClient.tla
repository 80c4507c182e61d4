------------------------------ MODULE UdsClient -------------------------------
(***************************************************************************)
(* UdsClient::send_and_receive and the service methods around it, as run   *)
(* by several asynchronous tasks that share one client (every method takes *)
(* &self) and so one socket.                                               *)
(*                                                                         *)
(* A task is at one of the await points of send_and_receive:               *)
(*   "ready"    no call in progress; outcome holds the last result         *)
(*   "send"     in self.socket.send(request).await                         *)
(*   "recv"     in self.socket.receive().await                             *)
(*   "pending"  in timeout(2500 ms, self.socket.receive()).await           *)
(* Everything between two await points is one step: it touches only local  *)
(* state.                                                                  *)
(***************************************************************************)
EXTENDS UdsServices, UdsLink

CONSTANTS
  Tasks,           \* tasks that share the client
  Calls,           \* the calls they may make, see UdsServices
  RetryHalf,       \* retry_counter ranges over -RetryHalf .. RetryHalf - 1
  OverflowChecks   \* TRUE for a debug build: integer overflow panics

ASSUME ClientAssumption ==
  /\ Tasks # {}
  /\ Calls # {}
  /\ \A c \in Calls :
       /\ c.service \in Services
       /\ c.args \in Seq(Nat)
       /\ c.service = "write_data_by_identifier" => c.args # <<>>
       /\ Compose(c) \in Seq(Byte) \ {<<>>}
       /\ Compose(c) \in DOMAIN Answers
  /\ RetryHalf \in Nat \ {0}
  /\ OverflowChecks \in BOOLEAN

VARIABLES
  pc,             \* the await point of each task
  call,           \* the call each task makes, or made last
  retry_counter,  \* the local of that name
  outcome,        \* what the last call of each task returned
  id,             \* history: the number of each task's call, 0 before the first
  took,           \* history: the packets that call took from the socket
  issued,         \* history: the number of calls begun
  orderly         \* history: see Abandoned

clientVars == <<pc, call, retry_counter, outcome, id, took, issued, orderly>>
vars == <<clientVars, linkVars>>

Request(t) == Compose(call[t])
InCall(t) == pc[t] # "ready"

(***************************************************************************)
(* The outcomes after which the ECU may still owe, or have queued, an      *)
(* answer to the call: the caller can see each of them.  orderly holds as  *)
(* long as calls were made one at a time and none ended so.                *)
(***************************************************************************)
Abandoned(r) ==
  \/ r.tag \in {"CommunicationError", "Cancelled"}
  \/ r.tag = "NRC" /\ r.body[2] = RequestCorrectlyReceivedResponsePending
  \/ r.tag = "SidMismatch" /\ r.body[2] = NEGATIVE_RESPONSE_SID

TypeOK ==
  /\ LinkTypeOK
  /\ pc \in [Tasks -> {"ready", "send", "recv", "pending"}]
  /\ call \in [Tasks -> Calls]
  /\ retry_counter \in [Tasks -> (-RetryHalf) .. (RetryHalf - 1)]
  /\ outcome \in [Tasks -> Result]
  /\ id \in [Tasks -> 0 .. issued]
  /\ took \in [Tasks -> Seq(Packet)]
  /\ issued \in 0 .. MaxCalls
  /\ orderly \in BOOLEAN
  /\ \A t \in Tasks : InCall(t) => id[t] # 0

Init ==
  /\ LinkInit
  /\ pc = [t \in Tasks |-> "ready"]
  /\ call = [t \in Tasks |-> CHOOSE c \in Calls : TRUE]
  /\ retry_counter = [t \in Tasks |-> 0]
  /\ outcome = [t \in Tasks |-> NoResult("None")]
  /\ id = [t \in Tasks |-> 0]
  /\ took = [t \in Tasks |-> <<>>]
  /\ issued = 0
  /\ orderly = TRUE

Return(t, r) ==
  /\ pc' = [pc EXCEPT ![t] = "ready"]
  /\ outcome' = [outcome EXCEPT ![t] = r]
  /\ orderly' = (orderly /\ ~ Abandoned(r))

(***************************************************************************)
(* A task calls a service method, which composes the request and enters    *)
(* send_and_receive.  The early return for an empty request is never       *)
(* taken: no service composes one (ClientAssumption).                      *)
(***************************************************************************)
\* Mutant: retry_counter survives from the call before.
StartKeepingCounter(t, c) ==
  /\ ~ InCall(t)
  /\ issued < MaxCalls
  /\ pc' = [pc EXCEPT ![t] = "send"]
  /\ call' = [call EXCEPT ![t] = c]
  /\ outcome' = [outcome EXCEPT ![t] = NoResult("None")]
  /\ id' = [id EXCEPT ![t] = issued + 1]
  /\ took' = [took EXCEPT ![t] = <<>>]
  /\ issued' = issued + 1
  /\ orderly' = (orderly /\ \A u \in Tasks : ~ InCall(u))
  /\ UNCHANGED <<retry_counter, linkVars>>

Start(t, c) ==
  /\ ~ InCall(t)
  /\ issued < MaxCalls
  /\ pc' = [pc EXCEPT ![t] = "send"]
  /\ call' = [call EXCEPT ![t] = c]
  /\ retry_counter' = [retry_counter EXCEPT ![t] = 0]
  /\ outcome' = [outcome EXCEPT ![t] = NoResult("None")]
  /\ id' = [id EXCEPT ![t] = issued + 1]
  /\ took' = [took EXCEPT ![t] = <<>>]
  /\ issued' = issued + 1
  /\ orderly' = (orderly /\ \A u \in Tasks : ~ InCall(u))
  /\ UNCHANGED linkVars

(***************************************************************************)
(* self.socket.send(request).await?                                        *)
(***************************************************************************)
Send(t) ==
  /\ pc[t] = "send"
  /\ send(Request(t), id[t])
  /\ pc' = [pc EXCEPT ![t] = "recv"]
  /\ UNCHANGED <<call, retry_counter, outcome, id, took, issued, orderly>>

SendFails(t) ==
  /\ "io" \in Faults
  /\ pc[t] = "send"
  /\ Return(t, Err("CommunicationError"))
  /\ UNCHANGED <<call, retry_counter, id, took, issued, linkVars>>

(***************************************************************************)
(* raw_response = self.socket.receive().await?, and the turn of the loop   *)
(* that follows.                                                           *)
(***************************************************************************)
Take(t) ==
  /\ receive
  /\ took' = [took EXCEPT ![t] = Append(@, Head(rx))]
  /\ UNCHANGED <<call, id, issued>>

raw_response == Head(rx).raw
Verdict == parse_for_error(raw_response)

ReceiveAnswer(t) ==
  /\ pc[t] = "recv"
  /\ Take(t)
  /\ Verdict.tag = "None"
  /\ Return(t, Parse(call[t], raw_response))
  /\ UNCHANGED retry_counter

\* Mutant: a message that is no negative response of this service is parsed.
ReceiveErrorParsed(t) ==
  /\ pc[t] = "recv"
  /\ Take(t)
  /\ Verdict.tag \notin {"None", "NRC"}
  /\ Return(t, Parse(call[t], raw_response))
  /\ UNCHANGED retry_counter

ReceiveError(t) ==
  /\ pc[t] = "recv"
  /\ Take(t)
  /\ Verdict.tag \notin {"None", "NRC"}
  /\ Return(t, Verdict)
  /\ UNCHANGED retry_counter

ReceiveForeignNrc(t) ==
  /\ pc[t] = "recv"
  /\ Take(t)
  /\ Verdict.tag = "NRC"
  /\ Verdict.body[1] # Request(t)[1]
  /\ Return(t, SidMismatch(Request(t)[1], Verdict.body[1]))
  /\ UNCHANGED retry_counter

ReceiveOwnNrc(t) ==
  /\ pc[t] = "recv"
  /\ Take(t)
  /\ Verdict.tag = "NRC"
  /\ Verdict.body[1] = Request(t)[1]

\* Mutant: any other negative response leaves the loop for the parser.
ReceiveNrcParsed(t) ==
  /\ ReceiveOwnNrc(t)
  /\ Verdict.body[2] \notin {BusyRepeatRequest, RequestCorrectlyReceivedResponsePending}
  /\ Return(t, Parse(call[t], raw_response))
  /\ UNCHANGED retry_counter

ReceiveNrc(t) ==
  /\ ReceiveOwnNrc(t)
  /\ Verdict.body[2] \notin {BusyRepeatRequest, RequestCorrectlyReceivedResponsePending}
  /\ Return(t, Verdict)
  /\ UNCHANGED retry_counter

\* Mutant: an interim answer is treated like a busy one.
ReceivePendingRepeats(t) ==
  /\ ReceiveOwnNrc(t)
  /\ Verdict.body[2] = RequestCorrectlyReceivedResponsePending
  /\ pc' = [pc EXCEPT ![t] = "send"]
  /\ UNCHANGED <<retry_counter, outcome, orderly>>

ReceivePending(t) ==
  /\ ReceiveOwnNrc(t)
  /\ Verdict.body[2] = RequestCorrectlyReceivedResponsePending
  /\ pc' = [pc EXCEPT ![t] = "pending"]
  /\ UNCHANGED <<retry_counter, outcome, orderly>>

(***************************************************************************)
(* retry_counter -= 1 on an i32 that starts at zero: a build with overflow *)
(* checks panics at the minimum, any other one wraps.                      *)
(***************************************************************************)
\* Mutants: no wrap; wrapping_sub in a debug build.
DecrementedUnbounded(n) == n - 1
OverflowsNever(n) == FALSE

Decremented(n) == IF n = -RetryHalf THEN RetryHalf - 1 ELSE n - 1

Overflows(n) == OverflowChecks /\ n = -RetryHalf

\* Mutant: waits for the answer to a repeat it never sends.
RepeatWithoutSend(t) ==
  /\ ReceiveOwnNrc(t)
  /\ Verdict.body[2] = BusyRepeatRequest
  /\ ~ Overflows(retry_counter[t])
  /\ Decremented(retry_counter[t]) # 0
  /\ retry_counter' = [retry_counter EXCEPT ![t] = Decremented(@)]
  /\ UNCHANGED <<pc, outcome, orderly>>

RepeatRequest(t) ==
  /\ ReceiveOwnNrc(t)
  /\ Verdict.body[2] = BusyRepeatRequest
  /\ ~ Overflows(retry_counter[t])
  /\ Decremented(retry_counter[t]) # 0
  /\ retry_counter' = [retry_counter EXCEPT ![t] = Decremented(@)]
  /\ pc' = [pc EXCEPT ![t] = "send"]
  /\ UNCHANGED <<outcome, orderly>>

\* Mutant: gives up at or below zero.
GiveUpBelowZero(t) ==
  /\ ReceiveOwnNrc(t)
  /\ Verdict.body[2] = BusyRepeatRequest
  /\ ~ Overflows(retry_counter[t])
  /\ Decremented(retry_counter[t]) <= 0
  /\ retry_counter' = [retry_counter EXCEPT ![t] = Decremented(@)]
  /\ Return(t, Verdict)

GiveUp(t) ==
  /\ ReceiveOwnNrc(t)
  /\ Verdict.body[2] = BusyRepeatRequest
  /\ ~ Overflows(retry_counter[t])
  /\ Decremented(retry_counter[t]) = 0
  /\ retry_counter' = [retry_counter EXCEPT ![t] = Decremented(@)]
  /\ Return(t, Verdict)

RetryOverflow(t) ==
  /\ ReceiveOwnNrc(t)
  /\ Verdict.body[2] = BusyRepeatRequest
  /\ Overflows(retry_counter[t])
  /\ Return(t, NoResult("Panic"))
  /\ UNCHANGED retry_counter

(***************************************************************************)
(* The wait after an interim answer.  What arrives leaves the loop without *)
(* another look by parse_for_error and goes to the parser of the service.  *)
(* The timer may fire although the answer is already queued: the runtime   *)
(* need not have noticed the socket yet.                                   *)
(***************************************************************************)
ReceiveDelayed(t) ==
  /\ pc[t] = "pending"
  /\ Take(t)
  /\ Return(t, Parse(call[t], raw_response))
  /\ UNCHANGED retry_counter

\* Mutants: the request is sent again after the timeout; there is no timeout.
PendingTimeoutRepeats(t) ==
  /\ pc[t] = "pending"
  /\ "late" \in Faults \/ LineIdle
  /\ pc' = [pc EXCEPT ![t] = "send"]
  /\ UNCHANGED <<call, retry_counter, outcome, id, took, issued, orderly, linkVars>>

PendingTimeoutNever(t) == FALSE

PendingTimeout(t) ==
  /\ pc[t] = "pending"
  /\ "late" \in Faults \/ LineIdle
  /\ Return(t, NRC(Request(t)[1], RequestCorrectlyReceivedResponsePending))
  /\ UNCHANGED <<call, retry_counter, id, took, issued, linkVars>>

ReceiveFails(t) ==
  /\ "io" \in Faults
  /\ pc[t] \in {"recv", "pending"}
  /\ Return(t, Err("CommunicationError"))
  /\ UNCHANGED <<call, retry_counter, id, took, issued, linkVars>>

(***************************************************************************)
(* The caller may drop the future at any await point, for instance because *)
(* of a timeout of its own: send_and_receive has none while in "recv".     *)
(***************************************************************************)
Cancel(t) ==
  /\ "cancel" \in Faults
  /\ InCall(t)
  /\ Return(t, NoResult("Cancelled"))
  /\ UNCHANGED <<call, retry_counter, id, took, issued, linkVars>>

Receive(t) ==
  \/ ReceiveAnswer(t) \/ ReceiveError(t) \/ ReceiveForeignNrc(t) \/ ReceiveNrc(t)
  \/ ReceivePending(t) \/ RepeatRequest(t) \/ GiveUp(t) \/ RetryOverflow(t)
  \/ ReceiveDelayed(t)

Ecu ==
  /\ EcuServe \/ EcuSilent
  /\ UNCHANGED clientVars

Step(t) ==
  \/ \E c \in Calls : Start(t, c)
  \/ Send(t) \/ SendFails(t)
  \/ Receive(t) \/ ReceiveFails(t)
  \/ PendingTimeout(t) \/ Cancel(t)

Next == (\E t \in Tasks : Step(t)) \/ Ecu

Spec == Init /\ [][Next]_vars

(***************************************************************************)
(* The runtime polls a task whose socket is ready and fires an expired     *)
(* timer; LiveSpec adds an ECU that goes on serving.                       *)
(***************************************************************************)
FairSpec ==
  Spec /\ \A t \in Tasks :
            WF_vars(Send(t)) /\ WF_vars(Receive(t)) /\ WF_vars(PendingTimeout(t))

LiveSpec == FairSpec /\ WF_vars(EcuServe /\ UNCHANGED clientVars)

==============================================================================
