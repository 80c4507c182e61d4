----------------------------- MODULE UdsExchange ------------------------------
(***************************************************************************)
(* UdsClient implements the promise of DiagnosticExchange: the bus, the    *)
(* repeats and the interim answers are hidden, a call is open while a task *)
(* is in it, and its verdict is read off the result.                       *)
(***************************************************************************)
EXTENDS UdsClientProperties

VerdictOf(r) ==
  IF IsOk(r) THEN "performed"
  ELSE IF r.tag \in {"NRC", "UnknownNRC"} /\ ~ Abandoned(r) THEN "refused"
  ELSE "unclear"

verdict ==
  [t \in Tasks |-> IF InCall(t) THEN "open" ELSE IF id[t] = 0 THEN "none" ELSE VerdictOf(outcome[t])]

Abstract ==
  INSTANCE DiagnosticExchange
    WITH Callers <- Tasks, MaxAsked <- MaxCalls, asked <- issued, current <- id,
         performed <- executed, trusted <- orderly

\* send_and_receive with its repeats and its second wait performs what is asked
\* at most once and tells the caller whether it did, until a call is abandoned
\* or overlaps another.
ImplementsExchange == Abstract!Spec

\* No request was performed twice, not even one of a call that ended long ago
\* or failed, until a call is abandoned or overlaps another (the repeats of
\* send_and_receive).
PerformedAtMostOnce == Abstract!AtMostOnce

==============================================================================
