------------------------------ MODULE UdsExample ------------------------------
(***************************************************************************)
(* The program of examples/basic_functionality.rs: it chooses options,     *)
(* opens a socket, makes four calls one after the other whatever each of   *)
(* them returns, and logs the results.  lib.rs documents the same program  *)
(* with default options.                                                   *)
(***************************************************************************)
EXTENDS UdsClient

KeyOffOnReset == 2

Script ==
  <<[service |-> "read_data_by_identifier",      args |-> <<61834>>],
    [service |-> "report_dtc_by_status_mask",    args |-> <<255>>],
    [service |-> "clear_diagnostic_information", args |-> <<16777215>>],
    [service |-> "ecu_reset",                    args |-> <<KeyOffOnReset>>]>>

main == CHOOSE t \in Tasks : TRUE

ASSUME ExampleAssumption ==
  /\ Tasks = {main}
  /\ Calls = {Script[k] : k \in 1 .. Len(Script)}
  /\ MaxCalls = Len(Script)

(***************************************************************************)
(* An ECU that follows the standard names the service it answers: offset   *)
(* in a positive response (uds_definitions.rs:10), as it is in a negative  *)
(* one.                                                                    *)
(***************************************************************************)
NamesService(raw, sid) ==
  /\ IsPositive(raw) => raw[1] = sid + SEND_RECEIVE_SID_OFFSET
  /\ Len(raw) >= 3 /\ raw[1] = NEGATIVE_RESPONSE_SID => raw[2] = sid

ASSUME EcuAssumption ==
  \A request \in DOMAIN Answers : \A raw \in Answers[request] :
    NamesService(raw, request[1])

VARIABLES
  default_options,   \* is it the program of lib.rs?
  stage,     \* where main is
  socket,    \* the socket main has opened
  exit,      \* what main returns
  results,   \* the results it has logged, one for each call
  lost       \* history: has an answer been lost?

mainVars == <<default_options, stage, socket, exit, results>>

exampleVars == <<vars, mainVars, lost>>

ExampleInit ==
  /\ Init
  /\ default_options \in BOOLEAN
  /\ lost = FALSE
  /\ stage = "options"
  /\ socket = "none"
  /\ exit = "none"
  /\ results = <<>>

Exit(how) ==
  /\ stage' = "returned"
  /\ exit' = how
  /\ UNCHANGED <<vars, default_options, lost>>

(***************************************************************************)
(* UdsSocketOptions and UdsSocket::new.  Only vw() can fail: the ISO-TP    *)
(* library may refuse its times.                                           *)
(***************************************************************************)
is_default == default_options

OptionsMade ==
  /\ stage = "options"
  /\ stage' = "open"
  /\ UNCHANGED <<vars, default_options, socket, exit, results, lost>>

vwRefused ==
  /\ stage = "options"
  /\ ~ is_default
  /\ Exit("SocketCreationError")
  /\ UNCHANGED <<socket, results>>

SocketOpened ==
  /\ stage = "open"
  /\ socket' = IF is_default THEN "open" ELSE "open_with_opts"
  /\ stage' = "calls"
  /\ UNCHANGED <<vars, default_options, exit, results, lost>>

\* Error::Io and Error::Lookup of the library, and what From makes of them.
FromError == [Io |-> "SocketCanIOError", Lookup |-> "FailedToFindCanDevice"]

SocketNotOpened ==
  /\ stage = "open"
  /\ \E err \in DOMAIN FromError : Exit(FromError[err])
  /\ UNCHANGED <<socket, results>>

(***************************************************************************)
(* The calls.  A result is logged, Ok or Err, before the next call begins. *)
(***************************************************************************)
CallOver == stage = "calls" /\ ~ InCall(main)

\* Mutant: a result is logged before there is one.
LoggedAtOnce == Append(results, outcome[main])

Logged == IF issued = 0 THEN results ELSE Append(results, outcome[main])

NextCall ==
  /\ CallOver
  /\ outcome[main].tag # "Panic"
  /\ issued < Len(Script)
  /\ Start(main, Script[issued + 1])
  /\ results' = Logged
  /\ UNCHANGED <<default_options, stage, socket, exit, lost>>

MainReturns ==
  /\ CallOver
  /\ outcome[main].tag # "Panic"
  /\ issued = Len(Script)
  /\ results' = Logged
  /\ Exit("Ok")
  /\ UNCHANGED socket

MainPanics ==
  /\ CallOver
  /\ outcome[main].tag = "Panic"
  /\ Exit("panic")
  /\ UNCHANGED <<socket, results>>

InCallStep ==
  /\ Send(main) \/ SendFails(main)
     \/ Receive(main) \/ ReceiveFails(main) \/ PendingTimeout(main)
  /\ UNCHANGED <<mainVars, lost>>

EcuStep ==
  /\ \/ EcuServe /\ UNCHANGED lost
     \/ EcuSilent /\ lost' = TRUE
  /\ UNCHANGED <<clientVars, mainVars>>

Main ==
  \/ OptionsMade \/ vwRefused \/ SocketOpened \/ SocketNotOpened
  \/ NextCall \/ MainReturns \/ MainPanics

ExampleNext == Main \/ InCallStep \/ EcuStep

ExampleSpec == ExampleInit /\ [][ExampleNext]_exampleVars

(***************************************************************************)
(* The runtime runs main when it can go on, polls its socket and fires its *)
(* timer; the ECU serves.                                                  *)
(***************************************************************************)
ExampleLiveSpec ==
  /\ ExampleSpec
  /\ WF_exampleVars(Main)
  /\ WF_exampleVars(Send(main) /\ UNCHANGED <<mainVars, lost>>)
  /\ WF_exampleVars(Receive(main) /\ UNCHANGED <<mainVars, lost>>)
  /\ WF_exampleVars(PendingTimeout(main) /\ UNCHANGED <<mainVars, lost>>)
  /\ WF_exampleVars(EcuServe /\ UNCHANGED <<clientVars, mainVars, lost>>)

(***************************************************************************)
(* Properties.                                                             *)
(***************************************************************************)
ExampleTypeOK ==
  /\ TypeOK
  /\ default_options \in BOOLEAN /\ lost \in BOOLEAN
  /\ stage \in {"options", "open", "calls", "returned"}
  /\ socket \in {"none", "open", "open_with_opts"}
  /\ exit \in {"none", "Ok", "panic", "SocketCreationError", "SocketCanIOError",
               "FailedToFindCanDevice"}
  /\ results \in Seq(Result)
  /\ Len(results) <= issued
  /\ \A n \in 1 .. Len(results) : results[n].tag \in OkTags \cup ErrTags

\* Although an error may leave an answer behind that a later call takes for its
\* own, no Ok that the example logs is another call's: its four calls are of four
\* services, so an Ok means that the ECU performed that very step, once
\* (basic_functionality.rs:20-48).
LoggedOkIsTrue ==
  \A n \in 1 .. Len(results) : IsOk(results[n]) => executed[n] = 1

\* The answer of another service: the call took what an earlier one left behind.
IsOffByOne(r) == r.tag = "SidMismatch" /\ r.body[2] # NEGATIVE_RESPONSE_SID

\* Nothing brings the example back in step, unless a message is lost: once a
\* call has taken the answer of another, no later one succeeds.
MismatchSpoilsTheRest ==
  ~ lost =>
    \A n \in 1 .. Len(results), m \in 1 .. Len(results) :
      n < m /\ IsOffByOne(results[n]) => ~ IsOk(results[m])

\* With an ECU that goes on serving and answers that all arrive, main ends:
\* although the calls are out of step with the answers none of them waits for
\* one that another has taken (basic_functionality.rs:20-48).
ExampleEnds == <>(exit # "none" \/ lost)

==============================================================================
