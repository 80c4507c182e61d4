------------------------------- MODULE MCReaders ------------------------------
(***************************************************************************)
(* Small instances for TLC of the parts that keep no state of the client   *)
(* and are run by one task alone: ReadMemory, ReadDataTuple, ReportDtcs    *)
(* and SidHelpers.  A behaviour runs one of them, the subject; the others  *)
(* rest in one of their initial states.                                    *)
(***************************************************************************)
EXTENDS ReadMemory, ReadDataTuple, ReportDtcs, SidHelpers

VARIABLE subject

tupleVars == vars
readersVars == <<subject, memoryVars, tupleVars, reportVars, helperVars>>

(***************************************************************************)
(* Addresses and sizes of every number of bytes, with zero bytes at either *)
(* end and inside, and lengths on both sides of every limit.               *)
(***************************************************************************)
OfBytes(bytes) ==
  [k \in 1 .. 8 |-> IF k <= 8 - Len(bytes) THEN 0 ELSE bytes[k - (8 - Len(bytes))]]

SomeWords ==
  {OfBytes(<<>>), OfBytes(<<18, 52, 86, 120>>), OfBytes(<<1, 0, 0>>),
   OfBytes(<<17, 34, 51, 68, 85, 102, 119, 136>>)}
    \cup {OfBytes([k \in 1 .. n |-> 255]) : n \in {1, 2, 5, 6, 7}}

SomeLengths == {0, 3, 4, 7, 8, 9, 15, 16, 255, None}

(***************************************************************************)
(* Every message of up to seven bytes that follow the service identifier   *)
(* and look like identifiers and data of each other, and every list of one *)
(* or two pairs.                                                           *)
(***************************************************************************)
SmallMax == 2

SomePairs == [did : {1, 257}, len : 0 .. SmallMax]
SomeAsked == {<<p>> : p \in SomePairs} \cup {<<p, q>> : p, q \in SomePairs}

BitContents == UNION {[1 .. n -> {0, 1}] : n \in 0 .. 7}
SomeMessages ==
  {<<>>, <<98>>, <<110, 0, 1>>} \cup {<<98>> \o content : content \in BitContents}

(***************************************************************************)
(* Reports of every kind there is and of some there are not, with up to    *)
(* two records, complete or cut off at every byte, all bytes different.    *)
(***************************************************************************)
Kinds == (0 .. 27) \cup (65 .. 67) \cup (84 .. 87)

Contents == UNION {{[k \in 1 .. n |-> k], [k \in 1 .. n |-> 255 - k]} : n \in 0 .. 10}
SomeReports ==
  {<<>>, <<89>>, <<98, 2, 1>>} \cup {<<89, kind>> \o content : kind \in Kinds, content \in Contents}

(***************************************************************************)
(* One of them runs.                                                       *)
(***************************************************************************)
MemoryRests ==
  /\ memory_address = OfBytes(<<>>) /\ memory_size = OfBytes(<<>>)
  /\ memory_address_len = None /\ memory_size_len = None
  /\ MemoryInit

TupleRests ==
  /\ data_identifiers_and_lengths = <<[did |-> 1, len |-> 0]>> /\ raw_response = <<>>
  /\ Init

ReportRests == raw_report = <<>> /\ ReportInit

HelperRests == overflow_checks = TRUE /\ sid = READ_DATA_BY_IDENTIFIER_SID /\ HelperInit

ReadersInit ==
  \/ subject = "memory" /\ MemoryInit /\ TupleRests /\ ReportRests /\ HelperRests
  \/ subject = "tuple"  /\ MemoryRests /\ Init /\ ReportRests /\ HelperRests
  \/ subject = "report" /\ MemoryRests /\ TupleRests /\ ReportInit /\ HelperRests
  \/ subject = "helper" /\ MemoryRests /\ TupleRests /\ ReportRests /\ HelperInit

ReadersNext ==
  \/ /\ subject = "memory" /\ MemoryNext
     /\ UNCHANGED <<subject, tupleVars, reportVars, helperVars>>
  \/ /\ subject = "tuple" /\ Next
     /\ UNCHANGED <<subject, memoryVars, reportVars, helperVars>>
  \/ /\ subject = "report" /\ ReportNext
     /\ UNCHANGED <<subject, memoryVars, tupleVars, helperVars>>
  \/ /\ subject = "helper" /\ HelperNext
     /\ UNCHANGED <<subject, memoryVars, tupleVars, reportVars>>

ReadersSpec == ReadersInit /\ [][ReadersNext]_readersVars

==============================================================================
