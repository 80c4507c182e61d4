# A verification model of uds-rs

uds-rs is a client for UDS (ISO 14229) diagnostics over ISO-TP on a CAN bus. A
`UdsClient` owns one socket; every service method composes a request, runs
`send_and_receive` and parses the response. This directory holds TLA+ modules
of that client, TLC configurations that check them on small instances, and
TLAPS proofs that hold for every instance. Paths are relative to the repository
(`src/uds.rs` is the file of the crate, its `README.md` is `src/README.md` in
PROJECT.json).

## The system

| Component | State | Operations | Talks to | Hard behaviour | Makes it correct |
|---|---|---|---|---|---|
| `UdsClient::send_and_receive` (`src/uds.rs:138-197`) | one socket, no memory of calls; in a call `retry_counter` and the await point | send, receive, repeat after `7F sid 21`, wait 2500 ms after `7F sid 78`, return | called by every service method, calls `UdsSocket` | several tasks (`&self`), stale answers, timer against answer, dropped futures, counter overflow | an answer belongs to its request; the result tells what the ECU did; repeats are justified; a call ends |
| `parse_for_error`, `NegativeResponseCode`, `UdsError` | none | classify a raw message | `send_and_receive` | short, empty and unknown messages | a negative response is reported with its code |
| service modules (`src/uds/*.rs`) | none | `compose_*`, `parse_*` | `send_and_receive` | truncated, overlong or inconsistent messages | a result holds the content of its message, of the service and identifier asked for |
| `convert_from_simple_to_normal` (`read_memory_by_address.rs:72`) | two loop counters | compute lengths and bytes of an address and a size | `read_memory_by_address` | clamping, zero | the request names the very arguments; lengths fit the values |
| the loops of `parse_read_data_by_identifier_tuple_response` and `parse_report_dtcs` | an iterator over the message, the records so far | hand out bytes, collect records | the service methods | a message cut off anywhere, lengths that do not fit | no byte is skipped, shared or moved; an error is justified |
| `UdsSocket`, `UdsSocketOptions` (`communication.rs`) | the kernel socket | open, send, receive | kernel ISO-TP, ECU | errors | every error reaches the caller |
| `uds_definitions.rs` | none | constants, `to_received_sid`, `from_received_sid` | services | `u8` overflow | a service is matched with its own answer only |
| `examples/basic_functionality.rs` | the client, a log | options, socket, four calls, log | `UdsClient` | goes on after errors with answers still due | what it logs as Ok was done; it ends |
| ECU and kernel (not in the repository) | queues | serve a request | the socket | loss, delay, silence, interim and busy answers | |

Nothing is persisted, so there is no crash recovery; a client starts from
scratch. Nothing blocks on anything but the socket and the timer.

The hazards this code is exposed to are listed, each at its line, in
PROJECT.json under "hazards", with the properties that watch them.

## Modules

| Module | Models |
|---|---|
| `UdsDefinitions` | bytes, service identifiers, codes, results (`EcuResponseResult`), `parse_for_error` |
| `UdsServices` | the compose and the parse function of every service method as operators on byte sequences; `Compose` and `Parse` pick those of a call |
| `UdsLink` | external: the socket's queues and the ECU, from how `UdsSocket::send` and `receive` use them |
| `UdsClient` | `send_and_receive` run by the set `Tasks`, composed with `UdsLink` |
| `UdsClientProperties` | what the client promises, the inductive invariants, and the statements of the sources that do not hold |
| `UdsRoundTrip` | results against the messages they were made from |
| `DiagnosticExchange` | abstract: what a diagnostic client promises its callers, without a bus |
| `UdsExchange` | the refinement mapping from `UdsClient` to it |
| `UdsExample` | the example program, composed with `UdsClient` and so with `UdsLink` |
| `ReadMemory` | `read_memory_by_address_simplified` up to the request it sends |
| `ReadDataTuple` | the loop of `parse_read_data_by_identifier_tuple_response` |
| `ReportDtcs` | the loop of `parse_report_dtcs`, against its closed form in `UdsServices` |
| `SidHelpers` | `to_received_sid`, `from_received_sid`, `ServiceIdentifier` |
| `MCReaders` | small instances of the four modules above for TLC, of which one runs in a behaviour while the others rest in an initial state |
| other `MC...` | small instances for TLC of the module they are named after |
| `UdsServiceProofs` | lemmas about `parse_for_error`, `Compose` and `Parse` |
| `UdsClientProofs` | type correctness and the properties of any use |
| `UdsRoundTripProofs` | every Ok holds the content of its message |
| `UdsExchangeProofs` | the properties of orderly use, and that `UdsClient` implements `DiagnosticExchange` |
| `UdsLineProofs` | counting arguments for any use: answers cover waiting tasks, leftover answers stay, no more is performed than was called |
| `ParserProofs` | the loops of the two parsers, for every message |
| `ByteProofs` | `ReadMemory` and `SidHelpers`: arithmetic on bytes, for every input |
| `UdsExampleProofs` | the example is one use of `UdsClient`, and its log is true |

### State and steps of `UdsClient`

`pc[t]` is the await point a task is at: `send` (line 143 or 165), `recv` (144
or 166) or `pending` (172-176). Whatever lies between two awaits touches local
variables only and is one action with the reception that starts it:

| Action | Code |
|---|---|
| `Start` | a service method composes its request; `retry_counter = 0` (139) |
| `Send`, `SendFails` | `self.socket.send(request).await?` |
| `ReceiveAnswer` | not a negative response: leave the loop, parse (146, 195) |
| `ReceiveError` | empty, too short or unknown negative response (190-192) |
| `ReceiveForeignNrc` | a negative response of another service (149-155) |
| `ReceiveNrc` | any other code (187) |
| `RepeatRequest`, `GiveUp`, `RetryOverflow` | `BusyRepeatRequest` (157-166) |
| `ReceivePending` | `RequestCorrectlyReceivedResponsePending`: enter the second wait (168) |
| `ReceiveDelayed`, `PendingTimeout` | the message or the timer ends it (178-185) |
| `ReceiveFails` | an IO error in either wait |
| `Cancel` | the caller drops the future at an await |

Three points deserve a word. `retry_counter` is an `i32` that starts at zero and
counts down; its range is `-RetryHalf .. RetryHalf - 1` and `Decremented` wraps,
or with `OverflowChecks` (a debug build) panics, so that a small `RetryHalf`
stands for 2^31. The answer that follows an interim one is not classified again,
as in the code. `PendingTimeout` may fire with the answer already queued (fault
`late`), because the timer and the socket become ready independently.

`took`, `id`, `issued`, `executed`, the `origin` of packets and `orderly` are history:
no guard of the client reads them, except that `issued` bounds the number of
calls. `orderly` is true as long as calls did not overlap and none was
*abandoned*, that is, ended in a way after which the ECU may still owe an answer:
an IO error, a dropped future, `NRC` with code 0x78, or a `SidMismatch` that
received 0x7F. All four are visible to the caller.

The early return for an empty request is not modelled: no service composes one
(`ClientAssumption`, evaluated by TLC for every instance).

### The link

`tx` and `rx` are FIFO queues. The ECU serves the head of `tx`: it answers
(positively, and then it has performed the request, or negatively), asks for
patience up to `MaxPending` times, or refuses as busy, after which it forgets the
request. With `loss` it may never answer, having performed the request or not.
`Answers` gives the final answers to each request, so an instance chooses
between well-formed and malformed ones. The code guards against an empty message
in all but one place, so malformed answers include it; the Linux ISO-TP socket
does not deliver one today.

### The abstract exchange

`DiagnosticExchange` has callers that ask, an ECU that performs what was asked,
and a verdict for each call. While the exchange is `trusted` a request is
performed at most once and only for a caller that waits, and a verdict
`performed` or `refused` is true; giving up, or two calls at once, end the trust.
`UdsExchange` maps `issued`, `id`, `executed` and `orderly` to its variables and reads the
verdict off `outcome` (`VerdictOf`): an Ok is `performed`, a negative response `refused`
unless it is the one the timer makes, the rest `unclear`. Sends, interim answers, busy
refusals and repeats are stutters. `orderly` is computed from what callers
can see, so the trust is theirs to judge.

### The example

`UdsExample` adds to `UdsClient` the program counter of `main` (`stage`), the socket it
opened, what it logged and what it returns. `NextCall` is a `Start` of the next call
of `Script`, enabled only when the last call has returned, whatever it
returned; no step of `main` drops a future. Opening the socket may fail in the two
ways the ISO-TP library has, and `vw()` in one; the steps of a call and of the ECU are
those of `UdsClient` and `UdsLink`. `default_options` tells the program of `lib.rs`, with default options, from the
example with `vw()`.

Nothing in the client ties an answer to a request but the service byte, so what the
example logs depends on the ECU: `EcuAssumption` says that an answer names the service it
answers, with the offset 0x40 (`uds_definitions.rs:10`) or behind 0x7F, as the standard
has it and as the checks of every parser and `src/uds.rs:149` presuppose. Answers may otherwise be of any
length and content, late, lost, or about something the caller did not ask. `EcuAssumption`
is made in `UdsExample` only, and TLC evaluates it on the answers of the run.

### The loops

`ReadMemory`, `ReadDataTuple` and `ReportDtcs` are state machines with one action for each
turn of a loop and each early return; their variables are the locals of the
function. In the parsers the iterator is the number of bytes it has handed out
(`consumed`). A `u64` is the sequence of its eight bytes; `u32::MAX`
is a constant. Each states what its loop computes against a reference that does
not loop: `ReadBack` reads a request as an ECU does, `Divisions` is the set of all ways to
divide a message among the pairs, `parse_report_dtcs` of `UdsServices` is a formula on the
length of the message. `starts` in `ReadDataTuple` is history.

## Runs

| Run | Instance | Shows |
|---|---|---|
| `sequential` | 1 task, 2 calls of 5 kinds, 2 interim answers, all faults, malformed answers, `RetryHalf` 2 | types, the three properties of orderly use, the four of any use |
| `concurrent` | 2 tasks (symmetric), 3 calls of 2 kinds, 1 interim answer, `late`, `io`, `cancel`, `RetryHalf` 1 | with tasks that take each other's answers and refusals: no more is performed than was called, and a request again only for a refusal its call took; repeats, negative responses and the service of an Ok as in `sequential`; answers cover waiting tasks; an answer left behind is never discarded, so the line stays shifted |
| `dead_ecu` | debug build with a counter of two values, 2 tasks, 2 calls, answers positive, negative and truncated, all faults, `FairSpec`, the ECU may fall silent | the second wait always ends; the counter panics and the busy refusal is never reported; the client implements `DiagnosticExchange`; at most once |
| `serving_ecu` | 2 tasks, `LiveSpec` | every call returns |
| `services` | each of the 11 methods once against its example response, and truncated, overlong and altered forms of it | results keep the content of the message; only an empty message after an interim answer panics |
| `readers`: `ReadMemory` | words of every number of bytes from 0 to 8, with zero bytes inside; lengths on both sides of every limit, or none | the request names the arguments, with the lengths asked for; refusals |
| `readers`: `ReadDataTuple` | 1 or 2 pairs with lengths 0, 1 or "the rest", every message of up to 7 bytes 0 and 1 after the SID | Ok if and only if the message can be divided; agrees with the single read |
| `readers`: `ReportDtcs` | every kind of report and some unknown ones, 0 to 10 bytes | the loop returns the closed form |
| `readers`: `SidHelpers` | every `ServiceIdentifier`, every answer byte, both builds | the helpers match a service with its own answer only |
| `example` | the example with `vw()` or default options, debug build with a counter of two values, `loss`, `late`, `io`, answers positive, negative and truncated, `ExampleLiveSpec` | an Ok it logs is its own call's, although answers are left behind; without a loss, once out of step it stays out of step, and it ends all the same |
| `repeats`, `negative_after_pending`, `late_answer`, `unparsed`, `lengths` | small | the five statements of the sources below, refuted |

**Bounds.** Two calls are the least in which an answer outlives its call; three
let two tasks swap answers and go on. Two interim answers reach the case in which
the second one meets the parser. `RetryHalf` 2 gives the counter four values, so
it wraps and returns to zero within one call; the proofs cover every width.
`MaxCalls` and `MaxPending` bound guards, never properties. `Answers` is finite;
in `services` an altered message differs in its first, second or fourth byte, the
ones the parsers decide on, and has every length from 0 to one more than its own.
In `concurrent` the third call takes what was left over, and a task that takes the other's refusal has its own request performed twice, so `NoMorePerformedThanCalled` is met with equality and `PerformedAgainOnlyIfRefused` not only by calls performed once; `example` is not bounded at all but for one
interim answer and the width of the counter. In `ReadDataTuple` "the rest" is length 2,
so a list of two pairs may have it first, last or twice, and seven bytes are one more
than two pairs can use; the bytes 0 and 1 and the identifiers 1 and 257 make data look
like identifiers. In `ReportDtcs` all bytes of a message differ, so a shifted record shows.
The loops have no other bound, and the proofs cover every message.
Deadlock is not checked: after `MaxCalls` calls the system rests.

**Fairness.** `FairSpec` is weakly fair to the sends, the receptions and the timer
of each task: the runtime polls a future whose socket is ready and wakes one
whose timer expired. It is not fair to `Start`, to failures or to `Cancel`.
`LiveSpec` adds an ECU that goes on serving (its choice of answer is not fair:
`MaxPending` and the retry range bound what it can put off). A task can be
overtaken by others only as long as calls are issued; with `MaxCalls` bounded,
`EveryCallReturns` therefore says nothing of starvation under endless calls.
Without `LiveSpec` it is false, since the first wait has no timeout.
`ExampleLiveSpec` makes the same assumptions of the task of `main`, and that `main` goes on
when it can; `ExampleEnds` excludes lost answers (`lost`, a history variable of `UdsExample`),
for a lost first answer ends in that same wait.

## Statements of the sources that do not hold

- `RepeatsAreLimited`: "Service failed after multiple repeats" (`src/uds.rs:161`).
  The counter starts at 0 and is decremented before it is compared with 0: 2^32
  repeats in a release build, a panic after 2^31 in a debug build.
- `NegativeResponsesReported`: "Negative response code was received"
  (`src/uds.rs:77`). After an interim answer a negative response, and a second
  interim answer, is reported as `SidMismatch`.
- `ResponsesBoundToRequests`: "strictly bounded request-response together"
  (`README.md:115`). An answer that comes after a timeout is returned, as `Ok`, by
  the next call of the same service.
- `RawWhenNotParsed`: "If parsing was not successful, the Raw will contain all
  received data" (`src/uds.rs:46`). The parsers return errors instead; `Raw` comes
  only from parsers that do not try.
- `LengthsUpTo0xfUsed`: "address_len needs to be lower or equal to 0xf, using 0xf instead"
  (`read_memory_by_address.rs:95`, and line 111 of the size). Every length above 8 becomes 8.

A comment asks whether bytes left over in a message should be an error
(`read_data_by_identifier.rs:155`); the tuple parser ignores them, and `OkDividesMessage`
says what an Ok means nevertheless.

## Proofs

The client, for every set of tasks, calls and answers that satisfies `LinkAssumption` and
`ClientAssumption`, every width of the counter, either build and any faults:

- `TypeCorrect`: `[]TypeOK`.
- `CallsCorrect`: `[]CallsInvariant`, and from it `RetryCounting`, `GivingUp`,
  `OkOnlyForRequestedService`, `NegativeReporting`. The four properties are not
  inductive alone: that a counter of zero means a full range needs the number of
  refusals taken so far and, in a debug build, that they never exceed
  `RetryHalf`; that only a call told to wait may lose a code needs that `pending`
  implies an interim answer in `took`. `CallInvariant(t)` adds these. It
  speaks of one task only, so the proof is one lemma per action plus one that
  steps of other tasks leave it alone (`StepKeepsOthers`).
- `OrderlyCorrect`: `[]OrderlyInvariant`, and from it `AnswersAreOwn`,
  `OutcomesTellExecution`, `LineIsIdle`. The invariant describes the line during a
  call (`Exchange`): the one request, not yet performed, or interim answers to it,
  or both, or at last the answer that ends the exchange, with `executed` as that
  answer says. A reception takes either an interim answer, and then the call goes on or is
  abandoned (the parser turns `7F ..` into a SID mismatch that names 7F,
  `ParseOfNegative`), or the ending one, and then the line is idle.
- `PanicsExplained`: `[]PanicOnlyOnEmptyDelayed`, inductive relative to `CallsInvariant`: only the
  parser of ReadMemoryByAddress panics, on an empty message (`ParsePanics`), and only in
  the second wait does such a message reach it.
- `WaitersAreCovered` and `LeftoversNeverGo`: `Surplus`, the requests and final answers on the line
  minus the waiting tasks, never falls below zero nor at all, as long as nothing is
  lost. A reception takes at most one final answer, and then the task stops waiting or asks
  again; an interim answer is not counted. The proof is an account of how each
  action changes the three terms, with the lemmas on finite sets in `UdsLineProofs`.
- `PerformedAgainstCalls`: `[]NoMorePerformedThanCalled`. At most once is lost when calls overlap: a
  refusal meant for one call makes another repeat a request that is still served. What is left is a
  balance. A request in `tx`, a busy refusal in `rx` and a task in `send` each let the ECU perform
  once more (`Allowed`); performances plus `Allowed` never exceed the calls made
  (`PerformedInvariant`), since a request that is served turns into a performance or a
  refusal, a refusal that is taken into a send at most, a send into a request, and only
  `Start` adds one.
- `PerformedAgain`: `[]PerformedAgainOnlyIfRefused`, the same balance for one call: what was performed of it,
  its requests in `tx` and its send together exceed the refusals it took by one at most
  (`PaidFor`). It needs that calls have numbers of their own (`CallsAreNumbered`), so that other tasks
  send nothing in its name.
- `ClientImplementsExchange`: `Spec => Abstract!Spec`. Initial states map to initial states, and every
  step, in states that satisfy `OrderlyInvariant`, maps to a step or a stutter: `Start` to `Ask`, a
  positive `EcuAnswer` (or a silent performance) to `Perform`, a return to `Learn` or, if
  abandoned, to `GiveUp`. The guards of `Perform` and `Settle` are what needs the invariant.
  `ExchangeAtMostOnce` proves at-most-once of the abstract specification
  alone, and `ClientPerformsAtMostOnce` follows.
- `ContentKept`: `[]ResultsKeepContent`. `ParseKeeps` says it of the parsers, for every message of
  bytes: the encoding of what a parser returns spells (`Spells`) the bytes after the
  service identifier, part by part, and for the list of DTCs record by record (`DtcBytes`).
  `OkComesFromParser` says it of the client: an Ok is what the parser of the call made of the message
  taken in that very step, or it was there before.
- `UdsServiceProofs` has the lemmas about data: every request begins with the
  identifier of its service, every parser returns a result of its type, and an Ok
  only for a positive response of its service (and of the identifier read).

The loops and the SID helpers, for every input (`ReadMemoryAssumption`, `TupleAssumption` and `ReportAssumption`
only say that arguments are bytes, `u64` words and pairs):

- `ReadMemoryCorrect`: `[]ReadMemoryInvariant`, and from it `NamesArguments`, `LengthsCorrect`,
  `RefusalsCorrect`. A loop has shifted its word by as many bytes as it counted
  (`Counting`), and the last byte it counted has a byte other than zero at or above it, so
  the count is the least that suffices when the loop ends (`Needs`).
- `TupleCorrect`: `[]TupleInvariant`, and from it `OkDivides`, `ErrorsAreJustified`. The second needs that
  *every* division of the message agrees with the records read so far
  (`RecordsSoFar`): the parser never guesses, so where it fails nothing else would do.
- `SingleReadsAgree`: for the one pair `(did, u32::MAX)` the loop ends, result or error, as
  `parse_single_data_by_identifier_response` says, which is what the client uses. Each early return
  is compared with the one of the single read; what the loop does with an Ok follows from
  `RecordsSoFar`, with one record that reaches to the end of the message.
- `ReportCorrect`: `[]ReportInvariant`, and from it `ClosedFormIsTheLoop`: after n turns the records are
  the first n of the closed form and 3 + 4n bytes are gone, so a message is cut off
  exactly when its length says so.
- `HelpersCorrect`: `[]HelpersMatchAnswers`, for every service and byte, in the build that wraps and in the one
  that panics.

The example, for every set of answers that satisfies `EcuAssumption`, any faults, any number
of interim answers and any width of the counter:

- `ExampleUsesClient`: `ExampleSpec => Spec`, so that all of the above holds of the example too.
- `ExampleSafe`: `[]ExampleInvariant`, and from it `ExampleTypeCorrect`, `LogTrue`, `LogSpoilt`. Call a message
  *closing* if it is a request, or an answer that is not interim. A closing message is on the
  line at most once for each call and in the order of the calls (`InOrder`): a request
  is sent again only after the ECU refused it as busy and that refusal was taken,
  so a call in `send` has nothing outstanding (`NotAskedTwice`). What is on the line agrees with
  what the ECU did (`LineFits`). The four calls are of four services (`ScriptSids`), so an answer
  that a parser accepts is that of its own call, although nothing else ties them
  together: this is `LogTrue`. A mismatch means that an earlier answer was taken and the
  call's own is still to come; without a loss it stays ahead of all later ones, so every
  later call takes the answer of an earlier one (`OutOfStepStays`): this is `LogSpoilt`.

The properties and the inductive invariants were checked with TLC before they were
proved.

Every invariant that a passing run checks is a theorem. Only model-checked are
`PendingResolves`, `EveryCallReturns` and `ExampleEnds` (liveness is out of the prover's reach) and
the refutations.

## Not modelled

- What `UdsSocketOptions` mean to the kernel: padding and timing belong to ISO-TP. Only
  whether there are options, and that making them may fail, is modelled.
- The kinds of communication errors of a call: no code tells them apart. `NotImplementedError`
  and `GeneralError` are never made.
- The copy of the raw message in error values, logging, formatting.
- CAN frames, ISO-TP segmentation and flow control belong to the kernel.
- `report_dtc_snapshot_record_by_dtc_number` is modelled although it is private
  in the crate and has no caller yet; `read_data_by_identifier_tuple` has no caller but
  `read_single_data_by_identifier` and the tests, so several pairs are modelled in
  `ReadDataTuple` and not as a call of `UdsClient`.

## Plan

The plan of the project is carried out: the exchange, its link, all service methods
and their loops, the helpers, the example and the abstract exchange are modelled, and what
is safety is proved. What could still be added:

1. Accepted messages the other way round: that a parser refuses a message only if no
   result encodes to it, for the services of fixed layout as `ErrorMeansIndivisible` does for
   the tuple parser.
2. What becomes of the example's log under an ECU that violates `EcuAssumption`.
