-------------------------- MODULE UdsClientProperties -------------------------
(***************************************************************************)
(* What UdsClient promises.  The first group holds as long as the client   *)
(* is used the way CHANGELOG.md:40 describes it ("one request/response at  *)
(* a time") and no call was abandoned; the second group holds for every    *)
(* number of tasks and whatever the environment does; the third is what    *)
(* the sources say of the program and the program does not do.             *)
(***************************************************************************)
EXTENDS UdsClient, FiniteSets

CONSTANT MaxRepeats   \* a limit for "multiple repeats", see RepeatsAreLimited

ASSUME RepeatsAssumption == MaxRepeats \in Nat

Returned(t) == ~ InCall(t) /\ id[t] # 0

LastTaken(t) == took[t][Len(took[t])].raw

(***************************************************************************)
(* Orderly use.                                                            *)
(***************************************************************************)

StemFrom(packets, n) == \A i \in 1 .. Len(packets) : packets[i].origin = n

\* Until the first abandoned or overlapping call, whatever a call takes from
\* the socket answers the request of that very call (send_and_receive has
\* nothing but the order of messages to match them by).
OrderlyAnswersAreOwn == orderly => \A t \in Tasks : StemFrom(took[t], id[t])

OutcomeTellsExecution(t) ==
  Returned(t) =>
    /\ executed[id[t]] <= 1
    /\ IsOk(outcome[t]) => executed[id[t]] = 1
    /\ outcome[t].tag \in {"NRC", "UnknownNRC"} => executed[id[t]] = 0

\* Until then the caller can tell from the result whether the ECU performed
\* the request: exactly once for an Ok, not at all for a negative response;
\* repeating a request the ECU refused as busy never performs it twice.
OrderlyOutcomeTellsExecution == orderly => \A t \in Tasks : OutcomeTellsExecution(t)

\* Until then nothing is left on the line between two calls: the next call
\* starts with an empty receive queue.
OrderlyLineIdle ==
  orderly /\ (\A t \in Tasks : ~ InCall(t)) => LineIdle

\* What makes the three properties above inductive.  Of a call that waits, the
\* line holds its one request, not yet performed, or interim answers to it, or
\* both, or at last the answer that ends the exchange.
Interim(t, raw) == IsPending(raw) /\ raw[2] = Request(t)[1]

Ending(t, raw) ==
  /\ tx = <<>>
  /\ ~ IsPending(raw)
  /\ executed[id[t]] = IF IsPositive(raw) THEN 1 ELSE 0

Exchange(t) ==
  /\ tx # <<>> =>
       tx = <<[raw |-> Request(t), origin |-> id[t]]>> /\ executed[id[t]] = 0
  /\ StemFrom(rx, id[t])
  /\ \A i \in 1 .. Len(rx) :
       Interim(t, rx[i].raw) \/ (i = Len(rx) /\ Ending(t, rx[i].raw))
  /\ executed[id[t]] <= 1

OneCall == \A t, u \in Tasks : InCall(t) /\ InCall(u) => t = u

OrderlyCall(t) ==
  /\ StemFrom(took[t], id[t])
  /\ pc[t] = "send" => LineIdle /\ executed[id[t]] = 0
  /\ pc[t] \in {"recv", "pending"} => Exchange(t)
  /\ OutcomeTellsExecution(t)

CallsAreNumbered ==
  /\ \A i \in 1 .. Len(tx) : tx[i].origin <= issued
  /\ \A n \in CallId : n > issued => executed[n] = 0
  /\ \A t, u \in Tasks : id[t] = id[u] /\ id[t] # 0 => t = u

OrderlyInvariant ==
  /\ TypeOK
  /\ CallsAreNumbered
  /\ orderly => OneCall /\ OrderlyLineIdle /\ \A t \in Tasks : OrderlyCall(t)

(***************************************************************************)
(* Any use.                                                                *)
(***************************************************************************)

\* The value of a counter that started at 0 after n decrements.
RetryAfter(n) == IF n <= RetryHalf THEN -n ELSE 2 * RetryHalf - n

OnlyRefused(t) ==
  \A i \in 1 .. Len(took[t]) :
    IsBusy(took[t][i].raw) /\ took[t][i].raw[2] = Request(t)[1]

RetryCounted(t) ==
  pc[t] \in {"send", "recv"} =>
    /\ OnlyRefused(t)
    /\ Len(took[t]) < 2 * RetryHalf
    /\ retry_counter[t] = RetryAfter(Len(took[t]))

\* A call asks again only because the ECU refused its service as busy, and
\* retry_counter is, in two's complement, minus the number of refusals.
RetryCountsBusyAnswers == \A t \in Tasks : RetryCounted(t)

GaveUp(t) ==
  outcome[t].tag = "NRC" /\ outcome[t].body[2] = BusyRepeatRequest =>
    Len(took[t]) = 2 * RetryHalf /\ ~ OverflowChecks

\* The busy refusal is reported only after as many repeats as the counter has
\* values, and only where integer overflow wraps.
GivesUpAfterFullRange == \A t \in Tasks : GaveUp(t)

PositiveOf(t, raw) == raw # <<>> /\ raw[1] = Request(t)[1] + SEND_RECEIVE_SID_OFFSET

NamesIdentifier(t, raw) ==
  call[t].service = "read_data_by_identifier" /\ Len(call[t].args) = 1 =>
    U16(raw[2], raw[3]) = call[t].args[1]

OkFitsCall(t) ==
  IsOk(outcome[t]) =>
    took[t] # <<>> /\ PositiveOf(t, LastTaken(t)) /\ NamesIdentifier(t, LastTaken(t))

\* An Ok result was made from a positive response of the service that was
\* called, whichever call that response was meant for; an Ok read of a single
\* identifier was made from a response that names it.
OkCarriesRequestedService == \A t \in Tasks : OkFitsCall(t)

NegativeOf(t, raw) ==
  /\ Len(raw) >= 3
  /\ raw[1] = NEGATIVE_RESPONSE_SID
  /\ raw[2] = Request(t)[1]
  /\ raw[3] \in NegativeResponseCode

HadToWait(t) == \E i \in 1 .. Len(took[t]) : IsPending(took[t][i].raw)

NegativeReported(t) ==
  /\ Returned(t)
  /\ took[t] # <<>>
  /\ outcome[t].tag \notin {"Cancelled", "CommunicationError", "Panic"}
  /\ ~ HadToWait(t)
  /\ NegativeOf(t, LastTaken(t))
  => outcome[t] = NRC(LastTaken(t)[2], LastTaken(t)[3])

\* A call that never had to wait reports a negative response with its code.
NegativeReportedUnlessPending == \A t \in Tasks : NegativeReported(t)

Panicked(t) == outcome[t].tag = "Panic" /\ ~ OverflowChecks

\* A parser panics only on an empty message that came after an interim answer:
\* parse_for_error keeps every other empty message from them.
PanicOnlyOnEmptyDelayed ==
  \A t \in Tasks : Panicked(t) =>
    HadToWait(t) /\ LastTaken(t) = <<>> /\ call[t].service = "read_memory_by_address"

\* What makes the four properties before it inductive, for one task: a call in
\* progress has no result yet, one in the second wait was told to wait, and
\* where integer overflow panics the counter never passed its minimum.
CallInvariant(t) ==
  /\ InCall(t) => outcome[t] = NoResult("None")
  /\ pc[t] = "pending" => HadToWait(t)
  /\ pc[t] \in {"send", "recv"} /\ OverflowChecks => Len(took[t]) <= RetryHalf
  /\ RetryCounted(t) /\ GaveUp(t) /\ OkFitsCall(t) /\ NegativeReported(t)

CallsInvariant == TypeOK /\ \A t \in Tasks : CallInvariant(t)

\* How many more answers are due or queued than tasks wait for one.
Waiters == {t \in Tasks : pc[t] \in {"recv", "pending"}}

FinalsIn(packets) == {i \in 1 .. Len(packets) : ~ IsPending(packets[i].raw)}

Surplus == Len(tx) + Cardinality(FinalsIn(rx)) - Cardinality(Waiters)

\* As long as the ECU answers every request, there is an answer on its way for
\* every task that waits, although tasks take each other's answers.
AnswersCoverWaiters == "loss" \notin Faults => Surplus >= 0

\* Then an answer that an abandoned call leaves behind stays for ever: the client
\* has nothing that would discard it, each later call takes one answer and asks
\* for one, and the line remains shifted (send_and_receive reads only what it
\* needs).
LeftoversStay == [][ "loss" \notin Faults => Surplus' >= Surplus ]_vars

\* One element for each time that the ECU performed a request.
Performances == UNION {{n} \X (1 .. executed[n]) : n \in CallId}

\* However calls overlap, fail or are dropped, the ECU performs no more requests
\* than calls were made (uds.rs:157-166): a task that takes a refusal meant for
\* another call may have its request performed twice, but then the refused call
\* goes without.
NoMorePerformedThanCalled == Cardinality(Performances) <= issued

RefusalsTaken(t) == {i \in 1 .. Len(took[t]) : IsBusy(took[t][i].raw)}

\* It is only by taking refusals, its own or another call's, that a call may have
\* its request performed again: timers, interim answers, drops and failures do
\* not add to it (uds.rs:143, 165).
PerformedAgainOnlyIfRefused ==
  \A t \in Tasks : id[t] # 0 => executed[id[t]] <= 1 + Cardinality(RefusalsTaken(t))

\* A call told to wait does not wait for ever, even for a dead ECU.
PendingResolves ==
  \A t \in Tasks : pc[t] = "pending" ~> pc[t] # "pending"

\* A call returns if the ECU keeps serving.
EveryCallReturns == \A t \in Tasks : InCall(t) ~> ~ InCall(t)

(***************************************************************************)
(* Statements of the sources that do not hold.                             *)
(***************************************************************************)

\* "Service failed after multiple repeats" (uds.rs:161): the number of times a
\* call asks a busy ECU again is limited.
RepeatsAreLimited ==
  \A t \in Tasks : pc[t] \in {"send", "recv"} => Len(took[t]) <= MaxRepeats

\* "Negative response code was received: {nrc}" (uds.rs:77): a call whose last
\* answer is a negative response of its service reports its code.
NegativeResponsesReported ==
  \A t \in Tasks :
    Returned(t) /\ outcome[t].tag = "SidMismatch" => ~ NegativeOf(t, LastTaken(t))

\* "Current communication architecture is strictly bounded request-response
\* together" (README.md:115): a result comes from the answer to its request.
ResponsesBoundToRequests ==
  \A t \in Tasks : IsOk(outcome[t]) => took[t][Len(took[t])].origin = id[t]

\* "If parsing was not successful, the Raw will contain all received data"
\* (uds.rs:46): a positive response of the called service gives an Ok.
RawWhenNotParsed ==
  \A t \in Tasks :
    Returned(t) /\ took[t] # <<>> /\ PositiveOf(t, LastTaken(t)) => IsOk(outcome[t])

==============================================================================
