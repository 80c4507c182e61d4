-------------------------- MODULE DiagnosticExchange --------------------------
(***************************************************************************)
(* What a diagnostic client promises its callers, without a bus: a caller  *)
(* asks, the ECU performs what was asked or does not, and the caller gets  *)
(* a verdict.  As long as the exchange is trusted, calls are made one at a *)
(* time, a request is performed at most once and only while its caller     *)
(* waits, and the verdict tells whether it was.  A caller that gives up    *)
(* ends the trust, and nothing is promised any more.                       *)
(***************************************************************************)
EXTENDS Integers

CONSTANTS
  Callers,
  MaxAsked    \* bound: calls that are asked

VARIABLES
  asked,      \* calls begun
  current,    \* the number of each caller's call, 0 before the first
  verdict,    \* what each caller knows of it
  performed,  \* how often the ECU performed each call
  trusted

vars == <<asked, current, verdict, performed, trusted>>

Verdicts == {"none", "open", "performed", "refused", "unclear"}

Open(c) == verdict[c] = "open"

Init ==
  /\ asked = 0
  /\ current = [c \in Callers |-> 0]
  /\ verdict = [c \in Callers |-> "none"]
  /\ performed = [n \in 1 .. MaxAsked |-> 0]
  /\ trusted = TRUE

Ask(c) ==
  /\ ~ Open(c)
  /\ asked < MaxAsked
  /\ asked' = asked + 1
  /\ current' = [current EXCEPT ![c] = asked + 1]
  /\ verdict' = [verdict EXCEPT ![c] = "open"]
  /\ trusted' = (trusted /\ \A d \in Callers : ~ Open(d))
  /\ UNCHANGED performed

Perform(n) ==
  /\ n <= asked
  /\ trusted => performed[n] = 0 /\ \E c \in Callers : Open(c) /\ current[c] = n
  /\ performed' = [performed EXCEPT ![n] = @ + 1]
  /\ UNCHANGED <<asked, current, verdict, trusted>>

Settle(c, v) ==
  /\ Open(c)
  /\ trusted =>
       /\ v = "performed" => performed[current[c]] = 1
       /\ v = "refused" => performed[current[c]] = 0
  /\ verdict' = [verdict EXCEPT ![c] = v]
  /\ UNCHANGED <<asked, current, performed>>

Learn(c) ==
  /\ \E v \in {"performed", "refused", "unclear"} : Settle(c, v)
  /\ UNCHANGED trusted

GiveUp(c) ==
  /\ Settle(c, "unclear")
  /\ trusted' = FALSE

Next ==
  \/ \E c \in Callers : Ask(c) \/ Learn(c) \/ GiveUp(c)
  \/ \E n \in 1 .. MaxAsked : Perform(n)

Spec == Init /\ [][Next]_vars

(***************************************************************************)
(* What follows from the promise.                                          *)
(***************************************************************************)
ExchangeTypeOK ==
  /\ asked \in 0 .. MaxAsked
  /\ current \in [Callers -> 0 .. asked]
  /\ verdict \in [Callers -> Verdicts]
  /\ performed \in [1 .. MaxAsked -> Nat]
  /\ trusted \in BOOLEAN

\* However the call ended and however often the client asked again, nothing was
\* performed twice.
AtMostOnce == trusted => \A n \in 1 .. MaxAsked : performed[n] <= 1

==============================================================================
