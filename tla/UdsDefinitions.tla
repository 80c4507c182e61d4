---------------------------- MODULE UdsDefinitions ----------------------------
(***************************************************************************)
(* Bytes, service identifiers, negative response codes and the result type *)
(* every service method returns, with the classification of a raw response *)
(* that all services share (parse_for_error).                              *)
(*                                                                         *)
(* A raw message is a sequence of bytes.  A result keeps its constructor   *)
(* in "tag" and the numbers it carries in "body"; the copy of the raw      *)
(* message that several error variants hold is left out.                   *)
(***************************************************************************)
EXTENDS Integers, Sequences

Byte == 0 .. 255

(***************************************************************************)
(* Service identifiers.                                                    *)
(***************************************************************************)
SEND_RECEIVE_SID_OFFSET == 64
NEGATIVE_RESPONSE_SID   == 127

DIAGNOSTIC_SESSION_CONTROL_SID   == 16
ECU_RESET_SID                    == 17
CLEAR_DIAGNOSTIC_INFORMATION_SID == 20
READ_DTC_INFORMATION_SID         == 25
READ_DATA_BY_IDENTIFIER_SID      == 34
READ_MEMORY_BY_ADDRESS_SID       == 35
WRITE_DATA_BY_IDENTIFIER_SID     == 46

(***************************************************************************)
(* The codes NegativeResponseCode::try_from accepts.                       *)
(***************************************************************************)
BusyRepeatRequest == 33
RequestCorrectlyReceivedResponsePending == 120

NegativeResponseCode ==
  {0} \cup (16 .. 20) \cup {33, 34} \cup (36 .. 38) \cup {49, 51}
      \cup (53 .. 55) \cup (112 .. 115) \cup {120, 126, 127}
      \cup (129 .. 141) \cup (143 .. 147)

(***************************************************************************)
(* `as u8` of a shifted integer, and the 16 and 24 bit values that the     *)
(* parsers put together again.                                             *)
(***************************************************************************)
Low(n)     == n % 256
Middle(n)  == (n \div 256) % 256
High(n)    == (n \div 65536) % 256
U16(hi, lo)      == hi * 256 + lo
U24(hi, mid, lo) == hi * 65536 + mid * 256 + lo

(***************************************************************************)
(* Results.  Parsed and Raw are the two forms of an Ok(UdsResponse); a     *)
(* response without DataFormat (ClearDiagnosticInformation) counts as      *)
(* Parsed.  Panic is a thread panic, Cancelled a future that was dropped.  *)
(***************************************************************************)
OkTags  == {"Parsed", "Raw"}
ErrTags == {"SidMismatch", "DidMismatch", "InvalidLength", "NRC", "UnknownNRC",
            "ResponseEmpty", "InvalidArgument", "ResponseIncorrect",
            "CommunicationError"}
NoResultTags == {"None", "Panic", "Cancelled"}

Result == [tag : OkTags \cup ErrTags \cup NoResultTags, body : Seq(Nat)]

Parsed(body) == [tag |-> "Parsed", body |-> body]
Raw(body)    == [tag |-> "Raw", body |-> body]
Err(e)       == [tag |-> e, body |-> <<>>]
NoResult(e)  == [tag |-> e, body |-> <<>>]
SidMismatch(expected, received) == [tag |-> "SidMismatch", body |-> <<expected, received>>]
DidMismatch(expected, received) == [tag |-> "DidMismatch", body |-> <<expected, received>>]
NRC(rejected_sid, nrc)          == [tag |-> "NRC", body |-> <<rejected_sid, nrc>>]
UnknownNRC(rejected_sid, nrc)   == [tag |-> "UnknownNRC", body |-> <<rejected_sid, nrc>>]

IsOk(r) == r.tag \in OkTags

(***************************************************************************)
(* Is a raw message a negative response?  Ok(()) is rendered as the tag    *)
(* "None".  The rejected SID of an unknown code is not looked at.          *)
(***************************************************************************)
parse_for_error(raw_response) ==
  IF raw_response = <<>> THEN Err("ResponseEmpty")
  ELSE IF raw_response[1] # NEGATIVE_RESPONSE_SID THEN NoResult("None")
  ELSE IF Len(raw_response) < 3 THEN Err("ResponseEmpty")
  ELSE IF raw_response[3] \notin NegativeResponseCode
       THEN UnknownNRC(raw_response[2], raw_response[3])
  ELSE NRC(raw_response[2], raw_response[3])

(***************************************************************************)
(* The interim answer 7F sid 78, which promises a further message.         *)
(***************************************************************************)
IsPending(raw_response) ==
  /\ Len(raw_response) >= 3
  /\ raw_response[1] = NEGATIVE_RESPONSE_SID
  /\ raw_response[3] = RequestCorrectlyReceivedResponsePending

IsBusy(raw_response) ==
  /\ Len(raw_response) >= 3
  /\ raw_response[1] = NEGATIVE_RESPONSE_SID
  /\ raw_response[3] = BusyRepeatRequest

==============================================================================
