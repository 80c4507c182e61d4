------------------------------ MODULE SidHelpers ------------------------------
(***************************************************************************)
(* to_received_sid and from_received_sid, which add and subtract the       *)
(* offset between a request and its response in a u8, applied as they are  *)
(* meant to: to the ServiceIdentifier of a request and to the first byte   *)
(* of whatever an ECU sends back.                                          *)
(***************************************************************************)
EXTENDS UdsDefinitions

ServiceIdentifier ==
  {16, 17, 20, 25} \cup (34 .. 36) \cup (39 .. 42) \cup {44, 46, 47, 49}
    \cup (52 .. 56) \cup {61, 62} \cup (131 .. 135) \cup {NEGATIVE_RESPONSE_SID}

VARIABLES
  overflow_checks,   \* is this a debug build?
  helper_pc,
  sid,               \* the service asked for
  expected,          \* to_received_sid(sid)
  received,          \* the first byte of the answer
  recovered          \* from_received_sid(received)

helperVars == <<overflow_checks, helper_pc, sid, expected, received, recovered>>

HelperInit ==
  /\ overflow_checks \in BOOLEAN
  /\ helper_pc = "expect"
  /\ sid \in ServiceIdentifier
  /\ expected = 0
  /\ received = 0
  /\ recovered = 0

\* What u8 arithmetic makes of a number: a debug build panics where others wrap.
Panics(n) == overflow_checks /\ n \notin Byte
AsU8(n)   == n % 256

\* Mutant: the bit of the offset is cleared instead.
OffsetCleared(byte) == byte - (IF (byte \div 64) % 2 = 1 THEN 64 ELSE 0)

WithOffset(byte)    == byte + SEND_RECEIVE_SID_OFFSET
WithoutOffset(byte) == byte - SEND_RECEIVE_SID_OFFSET

to_received_sid ==
  /\ helper_pc = "expect"
  /\ IF Panics(WithOffset(sid))
     THEN helper_pc' = "panic" /\ UNCHANGED expected
     ELSE helper_pc' = "wait" /\ expected' = AsU8(WithOffset(sid))
  /\ UNCHANGED <<overflow_checks, sid, received, recovered>>

EcuAnswers ==
  /\ helper_pc = "wait"
  /\ received' \in Byte
  /\ helper_pc' = "recover"
  /\ UNCHANGED <<overflow_checks, sid, expected, recovered>>

from_received_sid ==
  /\ helper_pc = "recover"
  /\ IF Panics(WithoutOffset(received))
     THEN helper_pc' = "panic" /\ UNCHANGED recovered
     ELSE helper_pc' = "recovered" /\ recovered' = AsU8(WithoutOffset(received))
  /\ UNCHANGED <<overflow_checks, sid, expected, received>>

HelperNext == to_received_sid \/ EcuAnswers \/ from_received_sid

HelperSpec == HelperInit /\ [][HelperNext]_helperVars

(***************************************************************************)
(* Properties.                                                             *)
(***************************************************************************)
\* Undoing the offset on an answer gives the service asked for if and only if the
\* answer is the positive one to that very service: no byte an ECU may send, no
\* wrapped one and no refusal, is taken for it.  Nor does a debug build panic on a
\* service or on the positive answer to one (uds_definitions.rs:10-16).
HelpersMatchAnswers ==
  /\ helper_pc = "recovered" => (recovered = sid <=> received = expected)
  /\ helper_pc = "panic" => expected # 0 /\ received # expected
  /\ expected \notin ServiceIdentifier

==============================================================================
