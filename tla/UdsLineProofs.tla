----------------------------- MODULE UdsLineProofs ----------------------------
(***************************************************************************)
(* Counting arguments for calls that overlap, fail or are dropped, for     *)
(* every set of tasks.  The answers on the line against the tasks that     *)
(* wait for one: without loss their difference never falls.  What the ECU  *)
(* performed against the calls made, and against the refusals a call took. *)
(***************************************************************************)
EXTENDS UdsExchangeProofs, FiniteSetTheorems

(***************************************************************************)
(* Counting the packets of a queue that are of a kind.                     *)
(***************************************************************************)

Marked(q, kind) == {i \in 1 .. Len(q) : q[i] \in kind}

LEMMA MarkedFinite ==
  ASSUME NEW T, NEW q \in Seq(T), NEW kind
  PROVE  IsFiniteSet(Marked(q, kind)) /\ Cardinality(Marked(q, kind)) \in Nat
  <1>1. Len(q) \in Nat
    BY LenProperties
  <1>2. IsFiniteSet(1 .. Len(q))
    BY <1>1, FS_Interval
  <1>3. Marked(q, kind) \in SUBSET (1 .. Len(q))
    BY DEF Marked
  <1>4. IsFiniteSet(Marked(q, kind))
    BY <1>2, <1>3, FS_Subset
  <1> QED
    BY <1>4, FS_CardinalityType

LEMMA MarkedAppended ==
  ASSUME NEW T, NEW q \in Seq(T), NEW p \in T, NEW kind
  PROVE  Cardinality(Marked(Append(q, p), kind))
           = IF p \in kind THEN Cardinality(Marked(q, kind)) + 1 ELSE Cardinality(Marked(q, kind))
  <1> DEFINE r == Append(q, p)
             n == Len(q)
  <1>1. /\ n \in Nat /\ Len(r) = n + 1 /\ r[n + 1] = p
        /\ \A i \in 1 .. n : r[i] = q[i]
    BY AppendProperties, LenProperties
  <1> HIDE DEF r
  <1>2. CASE p \notin kind
    <2>1. Marked(r, kind) = Marked(q, kind)
      BY <1>1, <1>2 DEF Marked
    <2> QED
      BY <1>2, <2>1 DEF r
  <1>3. CASE p \in kind
    <2>1. Marked(r, kind) = Marked(q, kind) \cup {n + 1} /\ n + 1 \notin Marked(q, kind)
      BY <1>1, <1>3 DEF Marked
    <2>2. IsFiniteSet(Marked(q, kind))
      BY MarkedFinite
    <2>3. Cardinality(Marked(q, kind) \cup {n + 1}) = Cardinality(Marked(q, kind)) + 1
      BY <2>1, <2>2, FS_AddElement
    <2> QED
      BY <1>3, <2>1, <2>3 DEF r
  <1> QED
    BY <1>2, <1>3

LEMMA MarkedTaken ==
  ASSUME NEW T, NEW q \in Seq(T), q # <<>>, NEW kind
  PROVE  Cardinality(Marked(Tail(q), kind))
           = IF Head(q) \in kind THEN Cardinality(Marked(q, kind)) - 1
             ELSE Cardinality(Marked(q, kind))
  <1> DEFINE r == Tail(q)
             M == Marked(q, kind)
             A == M \ {1}
             B == Marked(r, kind)
             f == [i \in A |-> i - 1]
  <1>1. /\ Len(q) \in Nat /\ Len(q) > 0 /\ Head(q) = q[1]
        /\ r \in Seq(T) /\ Len(r) = Len(q) - 1
        /\ \A i \in 1 .. Len(r) : r[i] = q[i + 1]
    BY HeadTailProperties, LenProperties
  <1> HIDE DEF r
  <1>2. \A i \in A : i - 1 \in B /\ i \in Int
    <2> SUFFICES ASSUME NEW i \in A PROVE i - 1 \in B /\ i \in Int
      OBVIOUS
    <2>1. i \in 1 .. Len(q) /\ i # 1 /\ q[i] \in kind
      BY DEF Marked
    <2>2. i - 1 \in 1 .. Len(r) /\ (i - 1) + 1 = i
      BY <1>1, <2>1
    <2>3. r[i - 1] = q[i]
      BY <1>1, <2>2
    <2> QED
      BY <2>1, <2>2, <2>3 DEF Marked
  <1>3. \A j \in B : j + 1 \in A /\ (j + 1) - 1 = j
    <2> SUFFICES ASSUME NEW j \in B PROVE j + 1 \in A /\ (j + 1) - 1 = j
      OBVIOUS
    <2>1. j \in 1 .. Len(r) /\ r[j] \in kind
      BY DEF Marked
    <2>2. j + 1 \in 1 .. Len(q) /\ j + 1 # 1 /\ (j + 1) - 1 = j
      BY <1>1, <2>1
    <2> QED
      BY <1>1, <2>1, <2>2 DEF Marked
  <1>4. f \in Bijection(A, B)
    <2> HIDE DEF A, B
    <2>1. f \in [A -> B]
      BY <1>2
    <2>2. IsInjective(f)
      BY <1>2 DEF IsInjective
    <2>3. \A j \in B : \E i \in A : f[i] = j
      BY <1>3
    <2> QED
      BY <2>1, <2>2, <2>3 DEF Bijection, Injection, Surjection
  <1>5. IsFiniteSet(M)
    BY MarkedFinite
  <1>6. /\ IsFiniteSet(A)
        /\ Cardinality(A) = IF 1 \in M THEN Cardinality(M) - 1 ELSE Cardinality(M)
    <2> HIDE DEF M
    <2> QED
      BY <1>5, FS_RemoveElement
  <1>7. Cardinality(B) = Cardinality(A)
    <2> HIDE DEF A, B, f
    <2> QED
      BY <1>4, <1>6, FS_Bijection DEF ExistsBijection
  <1>8. 1 \in M <=> Head(q) \in kind
    BY <1>1 DEF Marked
  <1> QED
    BY <1>6, <1>7, <1>8 DEF r

LEMMA MarkedNone ==
  ASSUME NEW T, NEW q \in Seq(T), NEW kind, \A i \in 1 .. Len(q) : q[i] \notin kind
  PROVE  Cardinality(Marked(q, kind)) = 0
  <1>1. Marked(q, kind) = {}
    BY DEF Marked
  <1> QED
    BY <1>1, FS_EmptySet

\* Answers that end an exchange.
Finals == {p \in Packet : ~ IsPending(p.raw)}

LEMMA FinalsMarked ==
  ASSUME NEW q \in Seq(Packet)
  PROVE  /\ FinalsIn(q) = Marked(q, Finals)
         /\ Cardinality(FinalsIn(q)) \in Nat
  <1>1. \A i \in 1 .. Len(q) : q[i] \in Packet
    BY ElementOfSeq
  <1>2. FinalsIn(q) = Marked(q, Finals)
    BY <1>1 DEF FinalsIn, Marked, Finals
  <1> QED
    BY <1>2, MarkedFinite

LEMMA FinalsAppended ==
  ASSUME NEW q \in Seq(Packet), NEW p \in Packet
  PROVE  Cardinality(FinalsIn(Append(q, p)))
           = IF IsPending(p.raw) THEN Cardinality(FinalsIn(q)) ELSE Cardinality(FinalsIn(q)) + 1
  <1>1. Append(q, p) \in Seq(Packet)
    BY AppendProperties
  <1>2. FinalsIn(q) = Marked(q, Finals) /\ FinalsIn(Append(q, p)) = Marked(Append(q, p), Finals)
    BY <1>1, FinalsMarked
  <1>3. p \in Finals <=> ~ IsPending(p.raw)
    BY DEF Finals
  <1> QED
    BY <1>2, <1>3, MarkedAppended

LEMMA FinalsTaken ==
  ASSUME NEW q \in Seq(Packet), q # <<>>
  PROVE  Cardinality(FinalsIn(Tail(q)))
           = IF IsPending(Head(q).raw) THEN Cardinality(FinalsIn(q))
             ELSE Cardinality(FinalsIn(q)) - 1
  <1>1. Tail(q) \in Seq(Packet) /\ Head(q) \in Packet
    BY HeadTailProperties
  <1>2. FinalsIn(q) = Marked(q, Finals) /\ FinalsIn(Tail(q)) = Marked(Tail(q), Finals)
    BY <1>1, FinalsMarked
  <1>3. Head(q) \in Finals <=> ~ IsPending(Head(q).raw)
    BY <1>1 DEF Finals
  <1> QED
    BY <1>2, <1>3, MarkedTaken

(***************************************************************************)
(* Steps of the tasks.                                                     *)
(***************************************************************************)

At(places) == {t \in Tasks : pc[t] \in places}

Waiting(place) == place \in {"recv", "pending"}

\* How a step of one task changes the set of those at some await points.
LEMMA PlacesChange ==
  ASSUME TypeOK, NEW places, IsFiniteSet(At(places)), NEW t \in Tasks, Step(t)
  PROVE  /\ IsFiniteSet(At(places)')
         /\ Cardinality(At(places)) \in Nat /\ Cardinality(At(places)') \in Nat
         /\ Cardinality(At(places)') =
              Cardinality(At(places)) + (IF pc'[t] \in places THEN 1 ELSE 0)
                                      - (IF pc[t] \in places THEN 1 ELSE 0)
  <1> DEFINE A == At(places)
             B == At(places)'
  <1>1. ASSUME NEW u \in Tasks, u # t PROVE pc'[u] = pc[u]
    BY <1>1, StepKeepsOthers
  <1>2. t \in A <=> pc[t] \in places
    BY DEF At
  <1>3. B = IF pc'[t] \in places THEN A \cup {t} ELSE A \ {t}
    BY <1>1 DEF At
  <1>4. IsFiniteSet(A) /\ Cardinality(A) \in Nat
    BY FS_CardinalityType
  <1> HIDE DEF A, B
  <1>5. CASE pc'[t] \in places
    <2>1. B = A \cup {t}
      BY <1>3, <1>5
    <2>2. /\ IsFiniteSet(B)
          /\ Cardinality(B) = IF t \in A THEN Cardinality(A) ELSE Cardinality(A) + 1
      BY <1>4, <2>1, FS_AddElement
    <2> QED
      BY <1>2, <1>4, <1>5, <2>2, FS_CardinalityType DEF A, B
  <1>6. CASE pc'[t] \notin places
    <2>1. B = A \ {t}
      BY <1>3, <1>6
    <2>2. /\ IsFiniteSet(B)
          /\ Cardinality(B) = IF t \in A THEN Cardinality(A) - 1 ELSE Cardinality(A)
      BY <1>4, <2>1, FS_RemoveElement
    <2> QED
      BY <1>2, <1>4, <1>6, <2>2, FS_CardinalityType DEF A, B
  <1> QED
    BY <1>5, <1>6

LEMMA WaitersChange ==
  ASSUME TypeOK, IsFiniteSet(Waiters), NEW t \in Tasks, Step(t)
  PROVE  /\ IsFiniteSet(Waiters')
         /\ Cardinality(Waiters) \in Nat /\ Cardinality(Waiters') \in Nat
         /\ Cardinality(Waiters') =
              Cardinality(Waiters) + (IF Waiting(pc'[t]) THEN 1 ELSE 0)
                                   - (IF Waiting(pc[t]) THEN 1 ELSE 0)
  <1> DEFINE places == {"recv", "pending"}
  <1>1. Waiters = At(places) /\ Waiters' = At(places)'
    BY DEF Waiters, At
  <1>2. Waiting(pc[t]) <=> pc[t] \in places
    BY DEF Waiting
  <1>3. Waiting(pc'[t]) <=> pc'[t] \in places
    BY DEF Waiting
  <1> HIDE DEF places
  <1> QED
    BY <1>1, <1>2, <1>3, PlacesChange

\* A task that takes a message stops waiting, unless it was told to wait.
LEMMA TakingTask ==
  ASSUME TypeOK, NEW t \in Tasks, Receive(t)
  PROVE  /\ Take(t)
         /\ Waiting(pc[t])
         /\ ~ Waiting(pc'[t]) \/ IsPending(Head(rx).raw)
  <1>1. Take(t) /\ Waiting(pc[t])
    BY DEF Receive, ReceiveAnswer, ReceiveError, ReceiveForeignNrc, ReceiveNrc, ReceivePending,
           RepeatRequest, GiveUp, RetryOverflow, ReceiveDelayed, ReceiveOwnNrc, Waiting
  <1>2. CASE ReceivePending(t)
    <2>1. Verdict.tag = "NRC" /\ Verdict.body[2] = RequestCorrectlyReceivedResponsePending
      BY <1>2 DEF ReceivePending, ReceiveOwnNrc
    <2> DEFINE raw == raw_response
    <2>2. raw \in Seq(Byte) /\ Verdict = parse_for_error(raw)
      BY <1>1, TakeIsTyped DEF Verdict
    <2>3. Verdict = NRC(raw[2], raw[3])
      BY <1>1, <2>1, VerdictClassifies
    <2>4. raw[3] = RequestCorrectlyReceivedResponsePending
      BY <2>1, <2>3 DEF NRC
    <2>5. parse_for_error(raw).tag = "NRC"
      BY <2>1, <2>2
    <2> HIDE DEF raw
    <2>6. Len(raw) >= 3 /\ raw[1] = NEGATIVE_RESPONSE_SID
      BY <2>2, <2>5, LenProperties DEF parse_for_error, Err, NoResult
    <2>7. IsPending(raw)
      BY <2>4, <2>6 DEF IsPending
    <2> QED
      BY <1>1, <2>7 DEF raw, raw_response
  <1>3. CASE RepeatRequest(t)
    BY <1>1, <1>3 DEF RepeatRequest, Waiting, TypeOK
  <1>4. CASE ~ ReceivePending(t) /\ ~ RepeatRequest(t)
    <2>1. \E r : Return(t, r)
      BY <1>4
      DEF Receive, ReceiveAnswer, ReceiveError, ReceiveForeignNrc, ReceiveNrc, GiveUp,
          RetryOverflow, ReceiveDelayed
    <2> QED
      BY <1>1, <2>1 DEF Return, Waiting, TypeOK
  <1> QED
    BY <1>2, <1>3, <1>4

LEMMA TaskKeepsSurplus ==
  ASSUME TypeOK, IsFiniteSet(Waiters), NEW t \in Tasks, Step(t)
  PROVE  IsFiniteSet(Waiters') /\ Surplus' >= Surplus
  <1> DEFINE w == Cardinality(Waiters)
             x == Cardinality(Waiters')
             f == Cardinality(FinalsIn(rx))
             g == Cardinality(FinalsIn(rx'))
  <1>1. /\ tx \in Seq(RequestPacket) /\ Len(tx) \in Nat
        /\ rx \in Seq(Packet) /\ f \in Nat
    BY FinalsMarked, LenProperties DEF TypeOK, LinkTypeOK
  <1>2. IsFiniteSet(Waiters') /\ w \in Nat /\ x \in Nat
    BY WaitersChange
  <1>3. Surplus = Len(tx) + f - w /\ Surplus' = Len(tx') + g - x
    BY DEF Surplus
  <1>4. SUFFICES Len(tx') + g - x >= Len(tx) + f - w
    BY <1>2, <1>3
  <1>5. CASE Send(t)
    <2> DEFINE packet == [raw |-> Request(t), origin |-> id[t]]
    <2>1. tx' = Append(tx, packet) /\ rx' = rx /\ ~ Waiting(pc[t]) /\ Waiting(pc'[t])
      BY <1>5 DEF Send, send, Waiting, TypeOK
    <2> HIDE DEF packet
    <2>2. Len(tx') = Len(tx) + 1
      BY <1>1, <2>1
    <2>3. x = w + 1
      BY <2>1, WaitersChange
    <2>4. g = f
      BY <2>1
    <2> HIDE DEF w, x, f, g
    <2> QED
      BY <1>1, <1>2, <2>2, <2>3, <2>4
  <1>6. CASE Receive(t)
    <2>1. Take(t) /\ Waiting(pc[t]) /\ (~ Waiting(pc'[t]) \/ IsPending(Head(rx).raw))
      BY <1>6, TakingTask
    <2>2. rx # <<>> /\ rx' = Tail(rx) /\ tx' = tx
      BY <2>1 DEF Take, receive
    <2>3. g = IF IsPending(Head(rx).raw) THEN f ELSE f - 1
      BY <1>1, <2>2, FinalsTaken
    <2>4. x = IF Waiting(pc'[t]) THEN w ELSE w - 1
      BY <2>1, WaitersChange
    <2> HIDE DEF w, x, f, g
    <2> QED
      BY <1>1, <1>2, <2>1, <2>2, <2>3, <2>4
  <1>7. CASE ~ Send(t) /\ ~ Receive(t)
    <2>1. UNCHANGED <<tx, rx>> /\ ~ Waiting(pc'[t])
      BY <1>7 DEF Step, Start, SendFails, ReceiveFails, PendingTimeout, Cancel, Return, linkVars,
                  Waiting, TypeOK
    <2>2. x <= w
      BY <1>2, <2>1, WaitersChange
    <2>3. g = f
      BY <2>1
    <2> HIDE DEF w, x, f, g
    <2> QED
      BY <1>1, <1>2, <2>1, <2>2, <2>3
  <1> QED
    BY <1>5, <1>6, <1>7

(***************************************************************************)
(* The ECU.                                                                *)
(***************************************************************************)

LEMMA EcuKeepsSurplus ==
  ASSUME TypeOK, IsFiniteSet(Waiters), Ecu, "loss" \notin Faults
  PROVE  IsFiniteSet(Waiters') /\ Surplus' >= Surplus
  <1> DEFINE w == Cardinality(Waiters)
             f == Cardinality(FinalsIn(rx))
             g == Cardinality(FinalsIn(rx'))
  <1>1. /\ tx \in Seq(RequestPacket) /\ Len(tx) \in Nat
        /\ rx \in Seq(Packet) /\ f \in Nat /\ w \in Nat
    BY FinalsMarked, LenProperties, FS_CardinalityType DEF TypeOK, LinkTypeOK
  <1>2. Waiters' = Waiters
    BY DEF Ecu, clientVars, Waiters
  <1>3. Surplus = Len(tx) + f - w /\ Surplus' = Len(tx') + g - w
    BY <1>2 DEF Surplus
  <1>4. EcuServe /\ tx # <<>>
    BY DEF Ecu, EcuSilent, EcuServe, EcuAnswer, EcuPending, EcuBusy
  <1>5. Len(Tail(tx)) = Len(tx) - 1
    BY <1>1, <1>4, HeadTailProperties, LenProperties
  <1>6. ASSUME NEW raw \in Seq(Byte), Answer(raw)
        PROVE  g = IF IsPending(raw) THEN f ELSE f + 1
    <2> DEFINE packet == [raw |-> raw, origin |-> Serving.origin]
    <2>1. rx' = Append(rx, packet) /\ packet \in Packet /\ packet.raw = raw
      BY <1>4, <1>6, ServingIsTyped DEF Answer, Packet, TypeOK
    <2> HIDE DEF packet
    <2> QED
      BY <1>1, <2>1, FinalsAppended
  <1>7. Serving.raw[1] \in Byte
    BY <1>4, ServingIsTyped DEF TypeOK
  <1>8. CASE EcuAnswer
    <2>1. PICK raw \in Answers[Serving.raw] : Answer(raw)
      BY <1>8 DEF EcuAnswer
    <2>2. raw \in Seq(Byte) /\ ~ IsPending(raw)
      BY <1>4, <2>1, ServingIsTyped, LinkAssumption DEF Final, TypeOK
    <2>3. g = f + 1 /\ Len(tx') = Len(tx) - 1
      BY <1>5, <1>6, <1>8, <2>1, <2>2 DEF EcuAnswer, Served
    <2> HIDE DEF w, f, g
    <2> QED
      BY <1>1, <1>2, <1>3, <2>3
  <1>9. CASE EcuPending
    <2> DEFINE raw == <<NEGATIVE_RESPONSE_SID, Serving.raw[1],
                        RequestCorrectlyReceivedResponsePending>>
    <2>1. Answer(raw) /\ tx' = tx
      BY <1>9 DEF EcuPending
    <2>2. IsPending(raw)
      BY DEF IsPending
    <2>3. raw \in Seq(Byte)
      <3>1. RequestCorrectlyReceivedResponsePending \in Byte
        BY DEF RequestCorrectlyReceivedResponsePending, Byte
      <3> QED
        BY <1>7, <3>1, NegativeIsTyped
    <2> HIDE DEF raw
    <2>4. g = f
      BY <1>6, <2>1, <2>2, <2>3
    <2> HIDE DEF w, f, g
    <2> QED
      BY <1>1, <1>2, <1>3, <2>1, <2>4
  <1>10. CASE EcuBusy
    <2> DEFINE raw == <<NEGATIVE_RESPONSE_SID, Serving.raw[1], BusyRepeatRequest>>
    <2>1. Answer(raw) /\ Len(tx') = Len(tx) - 1
      BY <1>5, <1>10 DEF EcuBusy, Served
    <2>2. ~ IsPending(raw)
      BY DEF IsPending, BusyRepeatRequest, RequestCorrectlyReceivedResponsePending
    <2>3. raw \in Seq(Byte)
      <3>1. BusyRepeatRequest \in Byte
        BY DEF BusyRepeatRequest, Byte
      <3> QED
        BY <1>7, <3>1, NegativeIsTyped
    <2> HIDE DEF raw
    <2>4. g = f + 1
      BY <1>6, <2>1, <2>2, <2>3
    <2> HIDE DEF w, f, g
    <2> QED
      BY <1>1, <1>2, <1>3, <2>1, <2>4
  <1> QED
    BY <1>4, <1>8, <1>9, <1>10 DEF EcuServe

(***************************************************************************)
(* The line.                                                               *)
(***************************************************************************)

LineInvariant == TypeOK /\ IsFiniteSet(Waiters) /\ AnswersCoverWaiters

LEMMA LineInit == Init => LineInvariant
  <1> SUFFICES ASSUME Init PROVE LineInvariant
    OBVIOUS
  <1>1. tx = <<>> /\ rx = <<>> /\ Waiters = {} /\ FinalsIn(rx) = {}
    BY DEF Init, LinkInit, Waiters, FinalsIn
  <1>2. IsFiniteSet({}) /\ Cardinality({}) = 0
    BY FS_EmptySet
  <1>3. Surplus = 0
    <2>1. Cardinality(FinalsIn(rx)) = 0 /\ Cardinality(Waiters) = 0
      BY <1>1, <1>2
    <2>2. Len(tx) = 0
      BY <1>1
    <2> QED
      BY <2>1, <2>2 DEF Surplus
  <1> QED
    BY <1>1, <1>2, <1>3, InitTypeOK DEF LineInvariant, AnswersCoverWaiters

LEMMA LineStep ==
  ASSUME LineInvariant, [Next]_vars
  PROVE  LineInvariant' /\ ("loss" \notin Faults => Surplus' >= Surplus)
  <1>1. TypeOK' /\ TypeOK /\ IsFiniteSet(Waiters)
    BY TypeStep DEF LineInvariant
  <1>2. Surplus \in Int
    <2>1. Len(tx) \in Nat /\ Cardinality(FinalsIn(rx)) \in Nat /\ Cardinality(Waiters) \in Nat
      BY <1>1, FinalsMarked, LenProperties, FS_CardinalityType DEF TypeOK, LinkTypeOK
    <2> QED
      BY <2>1 DEF Surplus
  <1>3. Surplus' \in Int
    <2>1. IsFiniteSet(Waiters')
      <3>1. ASSUME NEW t \in Tasks, Step(t) PROVE IsFiniteSet(Waiters')
        BY <1>1, <3>1, WaitersChange
      <3>2. CASE Ecu \/ UNCHANGED vars
        BY <1>1, <3>2 DEF Ecu, vars, clientVars, Waiters
      <3> QED
        BY <3>1, <3>2 DEF Next
    <2>2. tx' \in Seq(RequestPacket) /\ rx' \in Seq(Packet)
      BY <1>1 DEF TypeOK, LinkTypeOK
    <2>3. Len(tx') \in Nat /\ Cardinality(FinalsIn(rx')) \in Nat /\ Cardinality(Waiters') \in Nat
      BY <2>1, <2>2, FinalsMarked, LenProperties, FS_CardinalityType
    <2> QED
      BY <2>3 DEF Surplus
  <1>4. /\ IsFiniteSet(Waiters')
        /\ "loss" \notin Faults => Surplus' >= Surplus
    <2>1. ASSUME NEW t \in Tasks, Step(t)
          PROVE  IsFiniteSet(Waiters') /\ Surplus' >= Surplus
      BY <1>1, <2>1, TaskKeepsSurplus
    <2>2. CASE Ecu
      <3>1. Waiters' = Waiters
        BY <2>2 DEF Ecu, clientVars, Waiters
      <3> QED
        BY <1>1, <2>2, <3>1, EcuKeepsSurplus
    <2>3. CASE UNCHANGED vars
      <3>1. Waiters' = Waiters /\ Surplus' = Surplus
        BY <2>3 DEF vars, clientVars, linkVars, Waiters, Surplus
      <3> QED
        BY <1>1, <1>2, <3>1
    <2> QED
      BY <2>1, <2>2, <2>3 DEF Next
  <1>5. AnswersCoverWaiters'
    BY <1>2, <1>3, <1>4 DEF LineInvariant, AnswersCoverWaiters
  <1> QED
    BY <1>1, <1>4, <1>5 DEF LineInvariant

\* As long as the ECU answers, no task waits for an answer that is not on its
\* way, however the tasks take each other's answers.
THEOREM WaitersAreCovered == Spec => []AnswersCoverWaiters
  <1>1. LineInvariant => AnswersCoverWaiters
    BY DEF LineInvariant
  <1> QED
    BY <1>1, LineInit, LineStep, PTL DEF Spec

\* Answers left over on the line never get fewer.
THEOREM LeftoversNeverGo == Spec => LeftoversStay
  <1>1. LineInvariant /\ [Next]_vars => [ "loss" \notin Faults => Surplus' >= Surplus ]_vars
    BY LineStep
  <1> QED
    BY <1>1, LineInit, LineStep, PTL DEF Spec, LeftoversStay

(***************************************************************************)
(* What the ECU may still perform.                                         *)
(***************************************************************************)

Refusals == {p \in Packet : IsBusy(p.raw)}

\* A step of the ECU, as far as it concerns what it performs.
LEMMA EcuEffects ==
  ASSUME TypeOK, Ecu
  PROVE  /\ tx # <<>> /\ UNCHANGED clientVars
         /\ Serving \in RequestPacket /\ Serving = Head(tx)
         /\ \/ /\ tx' = Tail(tx)
               /\ Execute \/ UNCHANGED executed
               /\ rx' = rx \/ \E p \in Packet \ Refusals : rx' = Append(rx, p)
            \/ /\ UNCHANGED <<tx, executed>>
               /\ \E p \in Packet \ Refusals : rx' = Append(rx, p)
            \/ /\ tx' = Tail(tx) /\ UNCHANGED executed
               /\ \E p \in Packet : rx' = Append(rx, p)
  <1>1. tx # <<>> /\ UNCHANGED clientVars /\ LinkTypeOK
    BY DEF Ecu, EcuSilent, EcuServe, EcuAnswer, EcuPending, EcuBusy, TypeOK
  <1>2. Serving \in RequestPacket /\ Serving.raw[1] \in Byte /\ Serving = Head(tx)
    BY <1>1, ServingIsTyped DEF Serving
  <1>3. ASSUME NEW raw \in Seq(Byte), Answer(raw)
        PROVE  \E p \in Packet : rx' = Append(rx, p) /\ p.raw = raw
    <2> DEFINE packet == [raw |-> raw, origin |-> Serving.origin]
    <2>1. rx' = Append(rx, packet) /\ packet \in Packet /\ packet.raw = raw
      BY <1>1, <1>3, ServingIsTyped DEF Answer, Packet
    <2> QED
      BY <2>1
  <1>4. CASE EcuAnswer
    <2>1. PICK raw \in Answers[Serving.raw] : Answer(raw)
      BY <1>4 DEF EcuAnswer
    <2>2. raw \in Seq(Byte) /\ ~ IsBusy(raw)
      BY <1>1, <2>1, ServingIsTyped, LinkAssumption DEF Final
    <2>3. \E p \in Packet \ Refusals : rx' = Append(rx, p)
      BY <1>3, <2>1, <2>2 DEF Refusals
    <2>4. tx' = Tail(tx) /\ (Execute \/ UNCHANGED executed)
      BY <1>4 DEF EcuAnswer, Served
    <2> QED
      BY <1>1, <1>2, <2>3, <2>4
  <1>5. CASE EcuPending
    <2> DEFINE raw == <<NEGATIVE_RESPONSE_SID, Serving.raw[1],
                        RequestCorrectlyReceivedResponsePending>>
    <2>1. Answer(raw) /\ UNCHANGED <<tx, executed>>
      BY <1>5 DEF EcuPending
    <2>2. ~ IsBusy(raw)
      BY DEF IsBusy, BusyRepeatRequest, RequestCorrectlyReceivedResponsePending
    <2>3. RequestCorrectlyReceivedResponsePending \in Byte
      BY DEF RequestCorrectlyReceivedResponsePending, Byte
    <2>4. raw \in Seq(Byte)
      BY <1>2, <2>3, NegativeIsTyped
    <2> HIDE DEF raw
    <2>5. \E p \in Packet \ Refusals : rx' = Append(rx, p)
      BY <1>3, <2>1, <2>2, <2>4 DEF Refusals
    <2> QED
      BY <1>1, <1>2, <2>1, <2>5
  <1>6. CASE EcuBusy
    <2> DEFINE raw == <<NEGATIVE_RESPONSE_SID, Serving.raw[1], BusyRepeatRequest>>
    <2>1. Answer(raw) /\ tx' = Tail(tx) /\ UNCHANGED executed
      BY <1>6 DEF EcuBusy, Served
    <2>2. BusyRepeatRequest \in Byte
      BY DEF BusyRepeatRequest, Byte
    <2>3. raw \in Seq(Byte)
      BY <1>2, <2>2, NegativeIsTyped
    <2> HIDE DEF raw
    <2>4. \E p \in Packet : rx' = Append(rx, p)
      BY <1>3, <2>1, <2>3
    <2> QED
      BY <1>1, <1>2, <2>1, <2>4
  <1>7. CASE EcuSilent
    BY <1>1, <1>2, <1>7 DEF EcuSilent, Served
  <1> QED
    BY <1>4, <1>5, <1>6, <1>7 DEF Ecu, EcuServe

\* A step of a task, likewise: it asks again only for a refusal it took.
LEMMA TaskEffects ==
  ASSUME TypeOK, NEW t \in Tasks, Step(t)
  PROVE  /\ UNCHANGED executed
         /\ \/ /\ \E c \in Calls : Start(t, c)
               /\ pc[t] # "send" /\ pc'[t] = "send"
               /\ UNCHANGED <<tx, rx>> /\ issued' = issued + 1
               /\ id'[t] = issued + 1 /\ took'[t] = <<>>
            \/ /\ pc[t] = "send" /\ pc'[t] # "send"
               /\ \E p \in RequestPacket : tx' = Append(tx, p) /\ p.origin = id[t]
               /\ UNCHANGED <<rx, issued, id[t], took[t]>>
            \/ /\ rx # <<>> /\ rx' = Tail(rx) /\ Head(rx) \in Packet
               /\ took'[t] = Append(took[t], Head(rx))
               /\ pc[t] # "send" /\ (pc'[t] = "send" => Head(rx) \in Refusals)
               /\ UNCHANGED <<tx, issued, id[t]>>
            \/ /\ pc'[t] # "send"
               /\ UNCHANGED <<tx, rx, issued, id[t], took[t]>>
  <1>1. ASSUME NEW c \in Calls, Start(t, c)
        PROVE  /\ pc[t] # "send" /\ pc'[t] = "send"
               /\ UNCHANGED <<tx, rx, executed>> /\ issued' = issued + 1
               /\ id'[t] = issued + 1 /\ took'[t] = <<>>
    BY <1>1 DEF Start, InCall, linkVars, TypeOK
  <1>2. CASE Send(t)
    <2> DEFINE packet == [raw |-> Request(t), origin |-> id[t]]
    <2>1. /\ pc[t] = "send" /\ pc'[t] = "recv" /\ tx' = Append(tx, packet)
          /\ UNCHANGED <<rx, executed, issued, id, took>>
      BY <1>2 DEF Send, send, TypeOK
    <2>2. packet \in RequestPacket /\ packet.origin = id[t]
      BY <1>2, RequestIsTyped, LinkAssumption
      DEF TypeOK, InCall, Send, RequestPacket, Requests, CallId
    <2> QED
      BY <2>1, <2>2
  <1>3. CASE Receive(t)
    <2>1. Take(t) /\ pc[t] # "send"
      BY <1>3
      DEF Receive, ReceiveAnswer, ReceiveError, ReceiveForeignNrc, ReceiveNrc, ReceivePending,
          RepeatRequest, GiveUp, RetryOverflow, ReceiveDelayed, ReceiveOwnNrc
    <2>2. Head(rx) \in Packet
      BY <2>1, TakeIsTyped
    <2>3. /\ rx # <<>> /\ rx' = Tail(rx) /\ took'[t] = Append(took[t], Head(rx))
          /\ UNCHANGED <<tx, executed, issued, id>>
      BY <2>1 DEF Take, receive, TypeOK
    <2>4. CASE RepeatRequest(t)
      <3>1. IsBusy(raw_response)
        BY <2>1, <2>4, VerdictIsTyped DEF RepeatRequest, ReceiveOwnNrc, IsBusy
      <3>2. Head(rx) \in Refusals
        BY <2>2, <3>1 DEF Refusals, raw_response
      <3> QED
        BY <2>1, <2>2, <2>3, <3>2
    <2>5. CASE ~ RepeatRequest(t)
      <3>1. pc'[t] # "send"
        BY <1>3, <2>5
        DEF Receive, ReceiveAnswer, ReceiveError, ReceiveForeignNrc, ReceiveNrc, ReceivePending,
            GiveUp, RetryOverflow, ReceiveDelayed, Return, TypeOK
      <3> QED
        BY <2>1, <2>2, <2>3, <3>1
    <2> QED
      BY <2>4, <2>5
  <1>4. CASE SendFails(t) \/ ReceiveFails(t) \/ PendingTimeout(t) \/ Cancel(t)
    BY <1>4 DEF SendFails, ReceiveFails, PendingTimeout, Cancel, Return, linkVars, TypeOK
  <1> QED
    BY <1>1, <1>2, <1>3, <1>4 DEF Step

(***************************************************************************)
(* No more is performed than was called.  A request that waits for the     *)
(* ECU, a refusal in the queue and a task about to send each allow for one *)
(* performance more, and only a new call adds to them.                     *)
(***************************************************************************)

Senders == At({"send"})

Allowed == Len(tx) + Cardinality(Marked(rx, Refusals)) + Cardinality(Senders)

PerformedInvariant ==
  /\ TypeOK
  /\ IsFiniteSet(Senders)
  /\ IsFiniteSet(Performances)
  /\ Cardinality(Performances) + Allowed <= issued

LEMMA PerformancesGrow ==
  ASSUME TypeOK, tx # <<>>, Execute, IsFiniteSet(Performances)
  PROVE  /\ IsFiniteSet(Performances')
         /\ Cardinality(Performances') = Cardinality(Performances) + 1
  <1> DEFINE n == Serving.origin
             new == <<n, executed[n] + 1>>
  <1>1. /\ n \in CallId /\ executed \in [CallId -> Nat]
        /\ executed' = [executed EXCEPT ![n] = executed[n] + 1]
    BY ServingIsTyped DEF Execute, TypeOK, LinkTypeOK
  <1> HIDE DEF n
  <1>2. Performances' = Performances \cup {new}
    <2>1. ASSUME NEW m \in CallId
          PROVE  1 .. executed'[m] = (1 .. executed[m]) \cup
                                     (IF m = n THEN {executed[n] + 1} ELSE {})
      BY <1>1, <2>1
    <2>2. ASSUME NEW x, x \in Performances' PROVE x \in Performances \cup {new}
      <3>1. PICK m \in CallId : x \in {m} \X (1 .. executed'[m])
        BY <2>2 DEF Performances
      <3>2. PICK k \in 1 .. executed'[m] : x = <<m, k>>
        BY <3>1
      <3>3. CASE k \in 1 .. executed[m]
        BY <3>2, <3>3 DEF Performances
      <3>4. CASE k \notin 1 .. executed[m]
        <4>1. m = n /\ k = executed[n] + 1
          BY <2>1, <3>2, <3>4
        <4> QED
          BY <3>2, <4>1
      <3> QED
        BY <3>3, <3>4
    <2>3. ASSUME NEW x, x \in Performances PROVE x \in Performances'
      <3>1. PICK m \in CallId : x \in {m} \X (1 .. executed[m])
        BY <2>3 DEF Performances
      <3>2. PICK k \in 1 .. executed[m] : x = <<m, k>>
        BY <3>1
      <3>3. k \in 1 .. executed'[m]
        BY <2>1, <3>2
      <3> QED
        BY <3>2, <3>3 DEF Performances
    <2>4. new \in Performances'
      <3>1. executed[n] + 1 \in 1 .. executed'[n]
        BY <1>1
      <3>2. new \in {n} \X (1 .. executed'[n])
        BY <3>1
      <3> QED
        BY <1>1, <3>2 DEF Performances
    <2> QED
      BY <2>2, <2>3, <2>4
  <1>3. new \notin Performances
    <2> SUFFICES ASSUME NEW m \in CallId, new \in {m} \X (1 .. executed[m]) PROVE FALSE
      BY DEF Performances
    <2>1. m = n /\ executed[n] + 1 \in 1 .. executed[n] /\ executed[n] \in Nat
      BY <1>1
    <2> QED
      BY <2>1
  <1> HIDE DEF new
  <1> QED
    BY <1>2, <1>3, FS_AddElement

LEMMA TaskAllows ==
  ASSUME TypeOK, IsFiniteSet(Senders), NEW t \in Tasks, Step(t)
  PROVE  /\ IsFiniteSet(Senders')
         /\ Allowed \in Nat /\ Allowed' \in Nat /\ issued' - issued \in {0, 1}
         /\ Allowed' - Allowed <= issued' - issued
  <1> DEFINE l == Len(tx)
             m == Len(tx')
             b == Cardinality(Marked(rx, Refusals))
             c == Cardinality(Marked(rx', Refusals))
             w == Cardinality(Senders)
             x == Cardinality(Senders')
  <1>1. /\ tx \in Seq(RequestPacket) /\ rx \in Seq(Packet)
        /\ tx' \in Seq(RequestPacket) /\ rx' \in Seq(Packet)
        /\ issued \in Nat /\ issued' \in Nat
    <2>1. TypeOK'
      BY TypeStep DEF Next
    <2> QED
      BY <2>1, LinkAssumption DEF TypeOK, LinkTypeOK
  <1>2. l \in Nat /\ m \in Nat /\ b \in Nat /\ c \in Nat
    BY <1>1, MarkedFinite, LenProperties
  <1>3. /\ IsFiniteSet(Senders') /\ w \in Nat /\ x \in Nat
        /\ x = w + (IF pc'[t] = "send" THEN 1 ELSE 0) - (IF pc[t] = "send" THEN 1 ELSE 0)
    <2> DEFINE places == {"send"}
    <2>1. Senders = At(places) /\ Senders' = At(places)'
      BY DEF Senders
    <2>2. (pc[t] \in places <=> pc[t] = "send") /\ (pc'[t] \in places <=> pc'[t] = "send")
      OBVIOUS
    <2> HIDE DEF places
    <2> QED
      BY <2>1, <2>2, PlacesChange
  <1>4. Allowed = l + b + w /\ Allowed' = m + c + x
    BY DEF Allowed
  <1>5. SUFFICES issued' - issued \in {0, 1} /\ (m + c + x) - (l + b + w) <= issued' - issued
    <2> HIDE DEF l, m, b, c, w, x
    <2> QED
      BY <1>2, <1>3, <1>4, <1>5
  <1>6. CASE /\ pc[t] # "send" /\ pc'[t] = "send"
             /\ UNCHANGED <<tx, rx>> /\ issued' = issued + 1
    <2>1. m = l /\ c = b /\ w \in Nat /\ x = w + 1
      BY <1>3, <1>6
    <2> HIDE DEF l, m, b, c, w, x
    <2>2. (m + c + x) - (l + b + w) = 1
      BY <1>2, <2>1
    <2> QED
      BY <1>1, <1>6, <2>2
  <1>7. CASE /\ pc[t] = "send" /\ pc'[t] # "send"
             /\ \E p \in RequestPacket : tx' = Append(tx, p)
             /\ UNCHANGED <<rx, issued>>
    <2>1. m = l + 1
      BY <1>1, <1>7, AppendProperties
    <2>2. c = b /\ x = w - 1
      BY <1>2, <1>3, <1>7
    <2> HIDE DEF l, m, b, c, w, x
    <2> QED
      BY <1>1, <1>2, <1>3, <1>7, <2>1, <2>2
  <1>8. CASE /\ rx # <<>> /\ rx' = Tail(rx)
             /\ pc[t] # "send" /\ (pc'[t] = "send" => Head(rx) \in Refusals)
             /\ UNCHANGED <<tx, issued>>
    <2>1. c = IF Head(rx) \in Refusals THEN b - 1 ELSE b
      BY <1>1, <1>8, MarkedTaken
    <2>2. m = l
      BY <1>8
    <2> HIDE DEF l, m, b, c, w, x
    <2> QED
      BY <1>1, <1>2, <1>3, <1>8, <2>1, <2>2
  <1>9. CASE pc'[t] # "send" /\ UNCHANGED <<tx, rx, issued>>
    <2>1. m = l /\ c = b
      BY <1>9
    <2> HIDE DEF l, m, b, c, w, x
    <2> QED
      BY <1>1, <1>2, <1>3, <1>9, <2>1
  <1> QED
    BY <1>6, <1>7, <1>8, <1>9, TaskEffects

LEMMA EcuAllows ==
  ASSUME TypeOK, IsFiniteSet(Performances), IsFiniteSet(Senders), Ecu
  PROVE  /\ IsFiniteSet(Performances')
         /\ Cardinality(Performances') + Allowed' <= Cardinality(Performances) + Allowed
  <1> DEFINE l == Len(tx)
             m == Len(tx')
             b == Cardinality(Marked(rx, Refusals))
             c == Cardinality(Marked(rx', Refusals))
             w == Cardinality(Senders)
             e == Cardinality(Performances)
             f == Cardinality(Performances')
  <1>1. tx \in Seq(RequestPacket) /\ rx \in Seq(Packet)
    BY DEF TypeOK, LinkTypeOK
  <1>2. l \in Nat /\ b \in Nat /\ w \in Nat /\ e \in Nat
    BY <1>1, MarkedFinite, LenProperties, FS_CardinalityType
  <1>3. tx # <<>> /\ Senders' = Senders
    BY EcuEffects DEF Senders, At, clientVars
  <1>4. Allowed = l + b + w /\ Allowed' = m + c + w
    BY <1>3 DEF Allowed
  <1>5. tx' = Tail(tx) => m = l - 1
    BY <1>1, <1>3, HeadTailProperties, LenProperties
  <1>6. ASSUME NEW p \in Packet, rx' = Append(rx, p)
        PROVE  c = IF p \in Refusals THEN b + 1 ELSE b
    BY <1>1, <1>6, MarkedAppended
  <1>7. UNCHANGED executed => IsFiniteSet(Performances') /\ f = e
    BY DEF Performances
  <1>8. Execute => IsFiniteSet(Performances') /\ f = e + 1
    BY <1>3, PerformancesGrow
  <1> SUFFICES IsFiniteSet(Performances') /\ f + (m + c + w) <= e + (l + b + w)
    BY <1>4
  <1>9. CASE /\ tx' = Tail(tx)
             /\ Execute \/ UNCHANGED executed
             /\ rx' = rx \/ \E p \in Packet \ Refusals : rx' = Append(rx, p)
    <2>1. c = b
      BY <1>6, <1>9
    <2>2. m = l - 1
      BY <1>5, <1>9
    <2>3. IsFiniteSet(Performances') /\ (f = e \/ f = e + 1)
      BY <1>7, <1>8, <1>9
    <2> HIDE DEF l, m, b, c, w, e, f
    <2> QED
      BY <1>2, <2>1, <2>2, <2>3
  <1>10. CASE /\ UNCHANGED <<tx, executed>>
              /\ \E p \in Packet \ Refusals : rx' = Append(rx, p)
    <2>1. c = b /\ m = l
      BY <1>6, <1>10
    <2>2. IsFiniteSet(Performances') /\ f = e
      BY <1>7, <1>10
    <2> HIDE DEF l, m, b, c, w, e, f
    <2> QED
      BY <1>2, <2>1, <2>2
  <1>11. CASE /\ tx' = Tail(tx) /\ UNCHANGED executed
              /\ \E p \in Packet : rx' = Append(rx, p)
    <2>1. c = b \/ c = b + 1
      BY <1>6, <1>11
    <2>2. m = l - 1
      BY <1>5, <1>11
    <2>3. IsFiniteSet(Performances') /\ f = e
      BY <1>7, <1>11
    <2> HIDE DEF l, m, b, c, w, e, f
    <2> QED
      BY <1>2, <2>1, <2>2, <2>3
  <1> QED
    BY <1>9, <1>10, <1>11, EcuEffects

LEMMA PerformedInit == Init => PerformedInvariant
  <1> SUFFICES ASSUME Init PROVE PerformedInvariant
    OBVIOUS
  <1>1. tx = <<>> /\ rx = <<>> /\ issued = 0
    BY DEF Init, LinkInit
  <1>2. Senders = {} /\ Performances = {} /\ Marked(rx, Refusals) = {}
    BY <1>1 DEF Init, LinkInit, Senders, At, Performances, Marked
  <1>3. IsFiniteSet({}) /\ Cardinality({}) = 0
    BY FS_EmptySet
  <1>4. Len(tx) = 0
    BY <1>1
  <1>5. Allowed = 0 /\ Cardinality(Performances) = 0
    BY <1>2, <1>3, <1>4 DEF Allowed
  <1> QED
    BY <1>1, <1>2, <1>3, <1>5, InitTypeOK DEF PerformedInvariant

LEMMA PerformedStep ==
  ASSUME PerformedInvariant, [Next]_vars
  PROVE  PerformedInvariant'
  <1> DEFINE e == Cardinality(Performances)
             f == Cardinality(Performances')
             a == Allowed
             b == Allowed'
             i == issued
             j == issued'
  <1>1. TypeOK /\ TypeOK' /\ IsFiniteSet(Senders) /\ IsFiniteSet(Performances)
    BY TypeStep DEF PerformedInvariant
  <1>2. e \in Nat /\ i \in Nat /\ j \in Nat /\ e + a <= i
    BY <1>1, FS_CardinalityType, LinkAssumption DEF TypeOK, PerformedInvariant
  <1>3. ASSUME NEW t \in Tasks, Step(t) PROVE PerformedInvariant'
    <2>1. Performances' = Performances
      BY <1>1, <1>3, TaskEffects DEF Performances
    <2>2. /\ IsFiniteSet(Senders') /\ a \in Nat /\ b \in Nat /\ b - a <= j - i
      BY <1>1, <1>3, TaskAllows
    <2>3. f + b <= j
      <3>1. f = e
        BY <2>1
      <3> HIDE DEF e, f, a, b, i, j
      <3> QED
        BY <1>2, <2>2, <3>1
    <2> QED
      BY <1>1, <2>1, <2>2, <2>3 DEF PerformedInvariant
  <1>4. CASE Ecu
    <2>1. IsFiniteSet(Performances') /\ f + b <= e + a
      BY <1>1, <1>4, EcuAllows
    <2>2. Senders' = Senders /\ j = i
      BY <1>4 DEF Ecu, clientVars, Senders, At
    <2>3. /\ e \in Nat /\ f \in Nat /\ a \in Nat /\ b \in Nat
      <3>1. /\ tx \in Seq(RequestPacket) /\ tx' \in Seq(RequestPacket)
            /\ rx \in Seq(Packet) /\ rx' \in Seq(Packet)
        BY <1>1 DEF TypeOK, LinkTypeOK
      <3>2. /\ Len(tx) \in Nat /\ Len(tx') \in Nat
            /\ Cardinality(Marked(rx, Refusals)) \in Nat
            /\ Cardinality(Marked(rx', Refusals)) \in Nat
            /\ Cardinality(Senders) \in Nat /\ Cardinality(Senders') \in Nat
        BY <1>1, <2>2, <3>1, LenProperties, MarkedFinite, FS_CardinalityType
      <3> QED
        BY <1>2, <2>1, <3>2, FS_CardinalityType DEF Allowed
    <2>4. f + b <= j
      <3> HIDE DEF e, f, a, b, i, j
      <3> QED
        BY <1>2, <2>1, <2>2, <2>3
    <2> QED
      BY <1>1, <2>1, <2>2, <2>4 DEF PerformedInvariant
  <1>5. CASE UNCHANGED vars
    <2>1. Senders' = Senders /\ Performances' = Performances /\ Allowed' = Allowed
      BY <1>5 DEF vars, clientVars, linkVars, Senders, At, Performances, Allowed
    <2> QED
      BY <1>1, <1>5, <2>1 DEF PerformedInvariant, vars, clientVars
  <1> QED
    BY <1>3, <1>4, <1>5 DEF Next

\* However calls overlap, fail or are dropped, and whatever answers the tasks
\* take from each other, the ECU performs no more requests than calls were made.
THEOREM PerformedAgainstCalls == Spec => []NoMorePerformedThanCalled
  <1>1. PerformedInvariant => NoMorePerformedThanCalled
    <2> SUFFICES ASSUME PerformedInvariant PROVE NoMorePerformedThanCalled
      OBVIOUS
    <2>1. /\ tx \in Seq(RequestPacket) /\ rx \in Seq(Packet)
          /\ IsFiniteSet(Senders) /\ IsFiniteSet(Performances) /\ issued \in Nat
          /\ Cardinality(Performances) + Allowed <= issued
      BY LinkAssumption DEF PerformedInvariant, TypeOK, LinkTypeOK
    <2>2. /\ Len(tx) \in Nat /\ Cardinality(Marked(rx, Refusals)) \in Nat
          /\ Cardinality(Senders) \in Nat
      BY <2>1, LenProperties, MarkedFinite, FS_CardinalityType
    <2>3. Allowed \in Nat /\ Cardinality(Performances) \in Nat
      BY <2>1, <2>2, FS_CardinalityType DEF Allowed
    <2> QED
      BY <2>1, <2>3 DEF NoMorePerformedThanCalled
  <1> QED
    BY <1>1, PerformedInit, PerformedStep, PTL DEF Spec

(***************************************************************************)
(* For one call: every request of it beyond the first paid for by a        *)
(* refusal that the call took.                                             *)
(***************************************************************************)

OfCall(n) == {p \in RequestPacket : p.origin = n}

Sending(t) == IF pc[t] = "send" THEN 1 ELSE 0

PaidFor(t) ==
  executed[id[t]] + Cardinality(Marked(tx, OfCall(id[t]))) + Sending(t)
    <= 1 + Cardinality(Marked(took[t], Refusals))

RefusedInvariant ==
  /\ TypeOK
  /\ CallsAreNumbered
  /\ \A t \in Tasks : id[t] # 0 => PaidFor(t)

\* What a step of the ECU does to the requests of one call.
LEMMA EcuServesCall ==
  ASSUME TypeOK, Ecu, NEW n \in CallId
  PROVE  executed'[n] + Cardinality(Marked(tx', OfCall(n)))
           <= executed[n] + Cardinality(Marked(tx, OfCall(n)))
  <1> DEFINE a == Cardinality(Marked(tx, OfCall(n)))
             b == Cardinality(Marked(tx', OfCall(n)))
             e == executed[n]
             f == executed'[n]
  <1>1. tx \in Seq(RequestPacket) /\ executed \in [CallId -> Nat]
    BY DEF TypeOK, LinkTypeOK
  <1>2. tx # <<>> /\ Serving \in RequestPacket /\ Serving = Head(tx)
    BY EcuEffects
  <1>3. a \in Nat /\ e \in Nat
    BY <1>1, MarkedFinite
  <1>4. tx' = Tail(tx) => b = IF Serving.origin = n THEN a - 1 ELSE a
    <2>1. Serving \in OfCall(n) <=> Serving.origin = n
      BY <1>2 DEF OfCall
    <2> QED
      BY <1>1, <1>2, <2>1, MarkedTaken
  <1>5. Execute => f = IF Serving.origin = n THEN e + 1 ELSE e
    BY <1>1 DEF Execute
  <1>6. \/ tx' = Tail(tx) /\ (Execute \/ UNCHANGED executed)
        \/ UNCHANGED <<tx, executed>>
    BY EcuEffects
  <1>7. tx' = tx => b = a
    OBVIOUS
  <1>8. executed' = executed => f = e
    OBVIOUS
  <1> HIDE DEF a, b, e, f
  <1>9. f + b <= e + a
    BY <1>3, <1>4, <1>5, <1>6, <1>7, <1>8
  <1> QED
    BY <1>9 DEF a, b, e, f

\* What a step of its own task does.
LEMMA TaskPays ==
  ASSUME TypeOK, CallsAreNumbered, NEW t \in Tasks, Step(t), id[t] # 0 => PaidFor(t), id'[t] # 0
  PROVE  PaidFor(t)'
  <1> DEFINE n == id[t]
             a == Cardinality(Marked(tx, OfCall(n)))
             b == Cardinality(Marked(tx', OfCall(n)))
             e == executed[n]
             r == Cardinality(Marked(took[t], Refusals))
             s == Cardinality(Marked(took'[t], Refusals))
  <1>1. /\ tx \in Seq(RequestPacket) /\ rx \in Seq(Packet) /\ took[t] \in Seq(Packet)
        /\ executed \in [CallId -> Nat] /\ issued \in Nat /\ n \in Nat
        /\ id[t] # 0 => n \in CallId
    BY LinkAssumption DEF TypeOK, LinkTypeOK, CallId
  <1>2. a \in Nat /\ r \in Nat
    BY <1>1, MarkedFinite
  <1>3. UNCHANGED executed
    BY TaskEffects
  <1>4. ASSUME NEW c \in Calls, Start(t, c) PROVE PaidFor(t)'
    <2> DEFINE m == issued + 1
    <2>1. /\ m \in CallId /\ id'[t] = m /\ took'[t] = <<>> /\ tx' = tx /\ pc'[t] = "send"
      BY <1>1, <1>4, LinkAssumption DEF Start, linkVars, TypeOK, CallId
    <2>2. executed'[m] = 0
      BY <1>1, <1>3, <2>1 DEF CallsAreNumbered
    <2>3. \A i \in 1 .. Len(tx) : tx[i] \notin OfCall(m)
      BY <1>1 DEF CallsAreNumbered, OfCall
    <2>4. Cardinality(Marked(tx', OfCall(m))) = 0
      BY <1>1, <2>1, <2>3, MarkedNone
    <2>5. s \in Nat
      <3>1. <<>> \in Seq(Packet)
        OBVIOUS
      <3> QED
        BY <2>1, <3>1, MarkedFinite
    <2> HIDE DEF m, s
    <2>6. Sending(t)' = 1
      BY <2>1 DEF Sending
    <2> QED
      BY <2>1, <2>2, <2>4, <2>5, <2>6 DEF PaidFor, s
  <1>5. CASE id'[t] = id[t] /\ id[t] # 0
    <2>1. e \in Nat /\ e + a + Sending(t) <= 1 + r
      BY <1>1, <1>5 DEF PaidFor
    <2>2. SUFFICES e + b + Sending(t)' <= 1 + s
      BY <1>3, <1>5 DEF PaidFor
    <2>3. ASSUME pc[t] = "send", pc'[t] # "send", took'[t] = took[t],
                 NEW p \in RequestPacket, tx' = Append(tx, p), p.origin = id[t]
          PROVE  e + b + Sending(t)' <= 1 + s
      <3>1. p \in OfCall(n)
        BY <2>3 DEF OfCall
      <3>2. b = a + 1
        BY <1>1, <2>3, <3>1, MarkedAppended
      <3>3. s = r /\ Sending(t) = 1 /\ Sending(t)' = 0
        BY <2>3 DEF Sending
      <3> HIDE DEF a, b, e, r, s
      <3> QED
        BY <1>2, <2>1, <3>2, <3>3
    <2>4. CASE /\ took'[t] = Append(took[t], Head(rx)) /\ Head(rx) \in Packet /\ tx' = tx
               /\ pc[t] # "send" /\ (pc'[t] = "send" => Head(rx) \in Refusals)
      <3>1. s = IF Head(rx) \in Refusals THEN r + 1 ELSE r
        BY <1>1, <2>4, MarkedAppended
      <3>2. b = a /\ Sending(t) = 0
        BY <2>4 DEF Sending
      <3>3. Sending(t)' = 0 \/ (Sending(t)' = 1 /\ Head(rx) \in Refusals)
        BY <2>4 DEF Sending
      <3> HIDE DEF a, b, e, r, s
      <3> QED
        BY <1>2, <2>1, <3>1, <3>2, <3>3
    <2>5. CASE pc'[t] # "send" /\ tx' = tx /\ took'[t] = took[t]
      <3>1. b = a /\ s = r /\ Sending(t)' = 0 /\ Sending(t) \in {0, 1}
        BY <2>5 DEF Sending
      <3> HIDE DEF a, b, e, r, s
      <3> QED
        BY <1>2, <2>1, <3>1
    <2>6. CASE \E c \in Calls : Start(t, c)
      <3>1. id'[t] = issued + 1 /\ id[t] <= issued
        BY <1>1, <2>6 DEF Start, TypeOK
      <3> QED
        BY <1>1, <1>5, <3>1
    <2> QED
      BY <2>3, <2>4, <2>5, <2>6, TaskEffects
  <1>6. id'[t] = id[t] \/ \E c \in Calls : Start(t, c)
    BY TaskEffects
  <1> QED
    BY <1>4, <1>5, <1>6

\* Steps of other tasks send nothing for this call.
LEMMA OthersPay ==
  ASSUME TypeOK, CallsAreNumbered, NEW t \in Tasks, NEW u \in Tasks, u # t, Step(u),
         id[t] # 0, PaidFor(t)
  PROVE  PaidFor(t)'
  <1>1. UNCHANGED <<pc[t], id[t], took[t], executed>>
    BY StepKeepsOthers, TaskEffects
  <1>2. tx \in Seq(RequestPacket)
    BY DEF TypeOK, LinkTypeOK
  <1>3. Cardinality(Marked(tx', OfCall(id[t]))) = Cardinality(Marked(tx, OfCall(id[t])))
    <2>1. CASE tx' = tx
      BY <2>1
    <2>2. ASSUME NEW p \in RequestPacket, tx' = Append(tx, p), p.origin = id[u]
          PROVE  Cardinality(Marked(tx', OfCall(id[t]))) = Cardinality(Marked(tx, OfCall(id[t])))
      <3>1. id[u] # id[t]
        BY DEF CallsAreNumbered
      <3>2. p \notin OfCall(id[t])
        BY <2>2, <3>1 DEF OfCall
      <3> QED
        BY <1>2, <2>2, <3>2, MarkedAppended
    <2> QED
      BY <2>1, <2>2, TaskEffects
  <1> QED
    BY <1>1, <1>3 DEF PaidFor, Sending

LEMMA RefusedInit == Init => RefusedInvariant
  <1> SUFFICES ASSUME Init PROVE RefusedInvariant
    OBVIOUS
  <1>1. \A t \in Tasks : id[t] = 0
    BY DEF Init
  <1>2. OrderlyInvariant
    BY OrderlyInit
  <1> QED
    BY <1>1, <1>2 DEF OrderlyInvariant, RefusedInvariant

LEMMA RefusedStep ==
  ASSUME RefusedInvariant, [Next]_vars
  PROVE  RefusedInvariant'
  <1>1. TypeOK /\ CallsAreNumbered /\ TypeOK' /\ CallsAreNumbered'
    BY TypeStep, NumbersStep DEF RefusedInvariant
  <1>2. ASSUME NEW t \in Tasks, id'[t] # 0 PROVE PaidFor(t)'
    <2>1. id[t] # 0 => PaidFor(t)
      BY DEF RefusedInvariant
    <2>2. CASE Step(t)
      BY <1>1, <1>2, <2>1, <2>2, TaskPays
    <2>3. ASSUME NEW u \in Tasks, u # t, Step(u) PROVE PaidFor(t)'
      <3>1. id'[t] = id[t]
        BY <1>1, <2>3, StepKeepsOthers
      <3> QED
        BY <1>1, <1>2, <2>1, <2>3, <3>1, OthersPay
    <2>4. CASE Ecu
      <3> DEFINE n == id[t]
                 r == Cardinality(Marked(took[t], Refusals))
      <3>1. UNCHANGED <<pc, id, took>>
        BY <2>4 DEF Ecu, clientVars
      <3>2. n \in CallId /\ PaidFor(t)
        BY <1>1, <1>2, <2>1, <3>1, LinkAssumption DEF TypeOK, CallId
      <3>3. executed'[n] + Cardinality(Marked(tx', OfCall(n)))
              <= executed[n] + Cardinality(Marked(tx, OfCall(n)))
        BY <1>1, <2>4, <3>2, EcuServesCall
      <3>4. /\ executed[n] \in Nat /\ executed'[n] \in Nat /\ r \in Nat
            /\ Cardinality(Marked(tx, OfCall(n))) \in Nat
            /\ Cardinality(Marked(tx', OfCall(n))) \in Nat
        BY <1>1, <3>2, MarkedFinite DEF TypeOK, LinkTypeOK
      <3>5. Sending(t)' = Sending(t) /\ Sending(t) \in {0, 1}
        BY <3>1 DEF Sending
      <3>6. executed'[n] + Cardinality(Marked(tx', OfCall(n))) + Sending(t) <= 1 + r
        <4>1. executed[n] + Cardinality(Marked(tx, OfCall(n))) + Sending(t) <= 1 + r
          BY <3>2 DEF PaidFor
        <4> HIDE DEF n, r
        <4> QED
          BY <3>3, <3>4, <3>5, <4>1
      <3> QED
        BY <3>1, <3>5, <3>6 DEF PaidFor
    <2>5. CASE UNCHANGED vars
      BY <1>2, <2>1, <2>5 DEF vars, clientVars, linkVars, PaidFor, Sending
    <2> QED
      BY <2>2, <2>3, <2>4, <2>5 DEF Next
  <1> QED
    BY <1>1, <1>2 DEF RefusedInvariant

\* Only a refusal that a call takes lets the ECU perform its request again.
THEOREM PerformedAgain == Spec => []PerformedAgainOnlyIfRefused
  <1>1. RefusedInvariant => PerformedAgainOnlyIfRefused
    <2> SUFFICES ASSUME RefusedInvariant, NEW t \in Tasks, id[t] # 0
                 PROVE  executed[id[t]] <= 1 + Cardinality(RefusalsTaken(t))
      BY DEF PerformedAgainOnlyIfRefused
    <2> DEFINE a == Cardinality(Marked(tx, OfCall(id[t])))
               e == executed[id[t]]
               r == Cardinality(Marked(took[t], Refusals))
    <2>1. /\ TypeOK /\ took[t] \in Seq(Packet) /\ tx \in Seq(RequestPacket)
          /\ e \in Nat
      BY LinkAssumption DEF RefusedInvariant, TypeOK, LinkTypeOK, CallId
    <2>2. \A i \in 1 .. Len(took[t]) : took[t][i] \in Packet
      BY <2>1, ElementOfSeq
    <2>3. RefusalsTaken(t) = Marked(took[t], Refusals)
      BY <2>2 DEF RefusalsTaken, Marked, Refusals
    <2>4. a \in Nat /\ r \in Nat /\ Sending(t) \in {0, 1}
      BY <2>1, MarkedFinite DEF Sending
    <2>5. e + a + Sending(t) <= 1 + r
      BY DEF RefusedInvariant, PaidFor
    <2>6. e <= 1 + r
      <3> HIDE DEF a, e, r
      <3> QED
        BY <2>1, <2>4, <2>5
    <2> QED
      BY <2>3, <2>6
  <1> QED
    BY <1>1, RefusedInit, RefusedStep, PTL DEF Spec

==============================================================================
