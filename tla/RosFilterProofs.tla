--------------------------- MODULE RosFilterProofs ---------------------------
(***************************************************************************)
(* Theorems about RosFilter, for every configuration of the node and every *)
(* value of the bounds.                                                    *)
(***************************************************************************)
EXTENDS MCRosFilter, FiniteSetTheorems, SequenceTheorems, TLAPS

(* A piece of a sequence is a sequence of elements of the sequence. *)
LEMMA PieceOfSequence ==
  ASSUME NEW S, NEW s \in Seq(S), NEW i \in 1..Len(s) + 1, NEW j \in 0..Len(s)
  PROVE  /\ SubSeq(s, i, j) \in Seq(S)
         /\ Range(SubSeq(s, i, j)) \subseteq Range(s)
<1>1. SubSeq(s, i, j) \in Seq(S)
  BY SubSeqProperties
<1>2. ASSUME NEW x \in Range(SubSeq(s, i, j))
      PROVE  x \in Range(s)
  <2>1. PICK k \in DOMAIN SubSeq(s, i, j) : x = SubSeq(s, i, j)[k]
    BY DEF Range
  <2>2. k \in 1..(j - i + 1) /\ i <= j /\ SubSeq(s, i, j)[k] = s[i + k - 1]
    BY <2>1, SubSeqProperties
  <2>3. i + k - 1 \in DOMAIN s
    BY <2>2
  <2> QED  BY <2>1, <2>2, <2>3 DEF Range
<1> QED  BY <1>1, <1>2

LEMMA RestOfSequence ==
  ASSUME NEW S, NEW s \in Seq(S), NEW n \in 0..Len(s)
  PROVE  /\ SubSeq(s, n + 1, Len(s)) \in Seq(S)
         /\ Range(SubSeq(s, n + 1, Len(s))) \subseteq Range(s)
<1>1. n + 1 \in 1..Len(s) + 1 /\ Len(s) \in 0..Len(s)
  OBVIOUS
<1> QED  BY <1>1, PieceOfSequence

(* The elements of a sequence. *)
LEMMA ElementsOfSequence ==
  ASSUME NEW S, NEW s \in Seq(S)
  PROVE  Range(s) \subseteq S /\ IsFiniteSet(Range(s))
<1>1. Range(s) \subseteq S
  BY DEF Range
<1>2. IsFiniteSet(Range(s))
  <2>1. IsFiniteSet(DOMAIN s)
    BY FS_Interval
  <2>2. s \in Surjection(DOMAIN s, Range(s))
    BY DEF Surjection, Range
  <2> QED  BY <2>1, <2>2, FS_Surjection
<1> QED  BY <1>1, <1>2

(* Appending adds one element. *)
LEMMA ElementsOfAppend ==
  ASSUME NEW S, NEW s \in Seq(S), NEW x \in S
  PROVE  Append(s, x) \in Seq(S) /\ Range(Append(s, x)) = Range(s) \cup {x}
<1>1. Append(s, x) \in Seq(S)
  OBVIOUS
<1>2. DOMAIN Append(s, x) = 1..Len(s) + 1
  OBVIOUS
<1>3. \A k \in 1..Len(s) : Append(s, x)[k] = s[k]
  OBVIOUS
<1>4. Append(s, x)[Len(s) + 1] = x
  OBVIOUS
<1>5. DOMAIN s = 1..Len(s) /\ Len(s) \in Nat
  OBVIOUS
<1>6. Range(Append(s, x)) \subseteq Range(s) \cup {x}
  BY <1>2, <1>3, <1>4, <1>5 DEF Range
<1>7. Range(s) \cup {x} \subseteq Range(Append(s, x))
  BY <1>2, <1>3, <1>4, <1>5 DEF Range
<1> QED  BY <1>1, <1>6, <1>7

-----------------------------------------------------------------------------
(* Type correctness, and which measurements a step can know of.            *)

(* The measurements that the node holds, wherever it holds them. *)
Known ==
  queue \cup Fused \cup Range(measurementHistory)
    \cup UNION {Range(s.estimate) : s \in Range(stateHistory)}

LEMMA Bounds ==
  /\ HistoryLength \in Nat /\ SensorTimeout \in Nat /\ MaxLead \in Nat
  /\ MaxTime \in Nat /\ MaxMessages \in Nat /\ MaxControls \in Nat
  /\ StartTimes \subseteq Times /\ Times \subseteq Nat
BY NumbersAssumption DEF Times

LEMMA ReceiveIsTyped ==
  ASSUME TypeOK, NEW parts \in SUBSET Channels, Receive(parts)
  PROVE  TypeOK'
<1>1. PICK stamp \in 1..MaxTime :
        /\ \E prepared \in SUBSET Fresh(parts, stamp) :
             queue' = queue \cup {NewMeasurement(c, stamp) : c \in prepared}
        /\ lastMessageTimes' = [c \in Channels |->
             IF c \in Fresh(parts, stamp) THEN stamp ELSE lastMessageTimes[c]]
  BY DEF Receive
<1>2. PICK prepared \in SUBSET Fresh(parts, stamp) :
        queue' = queue \cup {NewMeasurement(c, stamp) : c \in prepared}
  BY <1>1
<1>3. messages < MaxMessages /\ messages' = messages + 1
  BY DEF Receive
<1>4. prepared \subseteq Channels
  BY DEF Fresh
<1>5. \A c \in prepared : NewMeasurement(c, stamp) \in Measurement
  <2>1. /\ messages + 1 \in 1..MaxMessages
        /\ stamp \in Times
        /\ latestControl \in 0..MaxControls
    BY <1>3, Bounds DEF TypeOK, Times
  <2> QED  BY <1>4, <2>1 DEF NewMeasurement, Measurement
<1>6. IsFiniteSet({NewMeasurement(c, stamp) : c \in prepared})
  <2> DEFINE new == {NewMeasurement(c, stamp) : c \in prepared}
             f == [c \in prepared |-> NewMeasurement(c, stamp)]
  <2>1. IsFiniteSet(prepared)
    BY <1>4, FiniteAssumption, FS_Subset
  <2>2. f \in Surjection(prepared, new)
    BY DEF Surjection
  <2> HIDE DEF new, f
  <2>3. IsFiniteSet(new)
    BY <2>1, <2>2, FS_Surjection
  <2> QED  BY <2>3 DEF new
<1>7. queue' \subseteq Measurement /\ IsFiniteSet(queue')
  BY <1>2, <1>5, <1>6, FS_Union DEF TypeOK
<1>8. lastMessageTimes' \in [Channels -> Times]
  BY <1>1, Bounds DEF TypeOK, Times
<1>9. messages' \in 0..MaxMessages
  BY <1>3, Bounds DEF TypeOK
<1> QED
  BY <1>7, <1>8, <1>9
  DEF Receive, TypeOK, cycleVars, historyVars, outputVars, filterVars,
      Measurement, FilterState

(* Going back, and what it leaves the node with. *)
LEMMA RevertIsTyped ==
  ASSUME TypeOK, NEW t \in Int, RevertTo(t)
  PROVE  /\ queue' \subseteq Measurement /\ IsFiniteSet(queue')
         /\ measurementHistory' \in Seq(Measurement)
         /\ stateHistory' \in Seq(FilterState)
         /\ fellBack' \in BOOLEAN
         /\ initialized' = initialized
         /\ lastMeasurementTime' \in
              {lastMeasurementTime} \cup {s.time : s \in Range(stateHistory)}
         /\ Range(stateHistory') \subseteq Range(stateHistory)
         /\ control' = control
         /\ estimate' \in Seq(Measurement)
         /\ Known' \subseteq Known
<1>1. PICK n \in 0..Len(stateHistory) :
        /\ stateHistory' = SubSeq(stateHistory, 1, n)
        /\ fellBack' = (fellBack \/ (n = 0 /\ Fused # {}))
        /\ stateHistory = <<>> =>
             UNCHANGED <<queue, measurementHistory, filterVars>>
        /\ stateHistory # <<>> =>
             \E k \in 0..Len(measurementHistory) :
               /\ measurementHistory' = KeptMeasurements(k)
               /\ queue' = queue \cup Restored(RevertState(n), k)
               /\ SetState(RevertState(n).estimate, RevertState(n).time)
               /\ UNCHANGED control
  BY DEF RevertTo
<1>2. /\ measurementHistory \in Seq(Measurement)
      /\ stateHistory \in Seq(FilterState)
      /\ queue \subseteq Measurement /\ IsFiniteSet(queue)
      /\ estimate \in Seq(Measurement)
      /\ fellBack \in BOOLEAN
  BY DEF TypeOK
<1>3. /\ stateHistory' \in Seq(FilterState)
      /\ Range(stateHistory') \subseteq Range(stateHistory)
  BY <1>1, <1>2, PieceOfSequence
<1>4. CASE stateHistory = <<>>
  <2>1. UNCHANGED <<queue, measurementHistory, filterVars>>
    BY <1>1, <1>4
  <2>2. Known' \subseteq Known
    BY <1>3, <2>1 DEF Known, filterVars, Fused
  <2> QED  BY <1>1, <1>2, <1>3, <2>1, <2>2 DEF filterVars
<1>5. CASE stateHistory # <<>>
  <2> DEFINE s == RevertState(n)
  <2>1. PICK k \in 0..Len(measurementHistory) :
          /\ measurementHistory' = KeptMeasurements(k)
          /\ queue' = queue \cup Restored(s, k)
          /\ SetState(s.estimate, s.time)
          /\ UNCHANGED control
    BY <1>1, <1>5
  <2>2. s \in Range(stateHistory) /\ s \in FilterState
    BY <1>2, <1>5 DEF RevertState, Range
  <2> HIDE DEF s
  <2>3. /\ measurementHistory' \in Seq(Measurement)
        /\ Range(measurementHistory') \subseteq Range(measurementHistory)
    BY <1>2, <2>1, PieceOfSequence DEF KeptMeasurements
  <2>4. /\ Popped(k) \subseteq Range(measurementHistory)
        /\ Popped(k) \subseteq Measurement
        /\ IsFiniteSet(Popped(k))
    <3> DEFINE piece == SubSeq(measurementHistory, k + 1, Len(measurementHistory))
    <3>1. piece \in Seq(Measurement) /\ Range(piece) \subseteq Range(measurementHistory)
      BY <1>2, PieceOfSequence
    <3> HIDE DEF piece
    <3>2. Range(piece) \subseteq Measurement /\ IsFiniteSet(Range(piece))
      BY <3>1, ElementsOfSequence
    <3> QED  BY <3>1, <3>2 DEF Popped, piece
  <2>5. Restored(s, k) \subseteq Popped(k) /\ IsFiniteSet(Restored(s, k))
    <3>1. Restored(s, k) \subseteq Popped(k)
      BY DEF Restored
    <3> QED  BY <3>1, <2>4, FS_Subset
  <2>6. queue' \subseteq Measurement /\ IsFiniteSet(queue')
    BY <1>2, <2>1, <2>4, <2>5, FS_Union
  <2>7. /\ initialized' = initialized /\ control' = control
        /\ lastMeasurementTime' = s.time /\ estimate' = s.estimate
    BY <2>1 DEF SetState
  <2>8. estimate' \in Seq(Measurement)
    BY <2>2, <2>7 DEF FilterState
  <2>9. Known' \subseteq Known
    BY <1>3, <2>1, <2>2, <2>3, <2>4, <2>5, <2>7 DEF Known, Fused
  <2> QED
    BY <1>1, <1>2, <1>3, <2>2, <2>3, <2>6, <2>7, <2>8, <2>9
<1> QED  BY <1>4, <1>5

(* Callbacks other than those that receive measurements. *)
LEMMA OtherCallbacksAreTyped ==
  ASSUME TypeOK,
         \/ ControlCallback \/ SetPoseCallback
         \/ EnableFilterSrvCallback \/ ToggleFilterProcessingCallback
  PROVE  TypeOK' /\ Known' \subseteq Known
<1> USE DEF TypeOK, cycleVars, historyVars, outputVars, filterVars
<1>1. CASE ControlCallback
  <2>1. latestControl' \in 0..MaxControls /\ control' \in 0..MaxControls
    BY <1>1, Bounds DEF ControlCallback
  <2>2. TypeOK'
    BY <1>1, <2>1 DEF ControlCallback, Measurement, FilterState
  <2>3. Known' = Known
    BY <1>1 DEF ControlCallback, Known, Fused
  <2> QED  BY <2>2, <2>3
<1>2. CASE SetPoseCallback
  <2>1. /\ queue' = {} /\ measurementHistory' = <<>> /\ stateHistory' = <<>>
        /\ estimate' = <<>> /\ lastMeasurementTime' = now
        /\ initialized' = initialized /\ lastSetPoseTime' \in Times
    BY <1>2 DEF SetPoseCallback, SetState
  <2>2. TypeOK'
    <3>1. /\ queue' \subseteq Measurement /\ IsFiniteSet(queue')
          /\ measurementHistory' \in Seq(Measurement)
          /\ stateHistory' \in Seq(FilterState)
          /\ estimate' \in Seq(Measurement)
          /\ lastMeasurementTime' \in Times
      BY <2>1, FS_EmptySet
    <3>2. /\ fellBack' = FALSE /\ UNCHANGED control
          /\ UNCHANGED <<now, cycleVars, enabled, toggledOn, lastMessageTimes,
                         latestControl, messages, outputVars>>
      BY <1>2 DEF SetPoseCallback
    <3> QED  BY <2>1, <3>1, <3>2 DEF Measurement, FilterState
  <2>3. Known' = {}
    BY <2>1 DEF Known, Fused, Range
  <2> QED  BY <2>2, <2>3
<1>3. CASE EnableFilterSrvCallback
  <2>1. TypeOK'
    BY <1>3 DEF EnableFilterSrvCallback, Measurement, FilterState
  <2>2. Known' = Known
    BY <1>3 DEF EnableFilterSrvCallback, Known, Fused
  <2> QED  BY <2>1, <2>2
<1>4. CASE ToggleFilterProcessingCallback
  <2>1. TypeOK'
    BY <1>4 DEF ToggleFilterProcessingCallback, Measurement, FilterState
  <2>2. Known' = Known
    BY <1>4 DEF ToggleFilterProcessingCallback, Known, Fused
  <2> QED  BY <2>1, <2>2
<1> QED  BY <1>1, <1>2, <1>3, <1>4

(* The steps that open a timer cycle. *)
LEMMA OpeningIsTyped ==
  ASSUME TypeOK,
         DiscardMeasurements \/ IntegrateNothing \/ BeginIntegration \/ BeginReplay
  PROVE  TypeOK' /\ Known' \subseteq Known
<1> USE DEF TypeOK, OpenCycle, inputVars, historyVars, outputVars, filterVars
<1>1. CASE DiscardMeasurements
  <2>1. TypeOK'
    BY <1>1, FS_EmptySet DEF DiscardMeasurements, Measurement, FilterState
  <2>2. Known' \subseteq Known
    BY <1>1 DEF DiscardMeasurements, Known, Fused
  <2> QED  BY <2>1, <2>2
<1>2. CASE IntegrateNothing
  <2>1. /\ lastMeasurementTime' \in {lastMeasurementTime, now}
        /\ UNCHANGED <<initialized, control, estimate>>
    BY <1>2 DEF IntegrateNothing, PredictTo
  <2>2. TypeOK'
    BY <1>2, <2>1 DEF IntegrateNothing, Measurement, FilterState
  <2>3. Known' = Known
    BY <1>2, <2>1 DEF IntegrateNothing, Known, Fused
  <2> QED  BY <2>2, <2>3
<1>3. CASE BeginIntegration
  <2>1. TypeOK'
    BY <1>3 DEF BeginIntegration, Measurement, FilterState
  <2>2. Known' = Known
    BY <1>3 DEF BeginIntegration, Known, Fused
  <2> QED  BY <2>1, <2>2
<1>4. CASE BeginReplay
  <2>1. PICK first \in queue : RevertTo(first.time - 1)
    BY <1>4 DEF BeginReplay
  <2>2. first.time \in Times
    BY DEF Measurement
  <2>3. first.time - 1 \in Int
    BY <2>2, Bounds DEF Times
  <2>4. /\ queue' \subseteq Measurement /\ IsFiniteSet(queue')
        /\ measurementHistory' \in Seq(Measurement)
        /\ stateHistory' \in Seq(FilterState)
        /\ fellBack' \in BOOLEAN
        /\ initialized' = initialized
        /\ lastMeasurementTime' \in
             {lastMeasurementTime} \cup {s.time : s \in Range(stateHistory)}
        /\ control' = control
        /\ estimate' \in Seq(Measurement)
        /\ Known' \subseteq Known
    BY <2>1, <2>3, RevertIsTyped
  <2>5. lastMeasurementTime' \in Times
    <3>1. Range(stateHistory) \subseteq FilterState
      BY ElementsOfSequence
    <3> QED  BY <2>4, <3>1 DEF FilterState
  <2>6. restoredCount' \in Int
    BY <1>4, <2>4, FS_CardinalityType DEF BeginReplay
  <2>7. TypeOK'
    BY <1>4, <2>4, <2>5, <2>6 DEF BeginReplay, Measurement, FilterState
  <2> QED  BY <2>4, <2>7
<1> QED  BY <1>1, <1>2, <1>3, <1>4

LEMMA IntegrateMeasurementIsTyped ==
  ASSUME TypeOK, IntegrateMeasurement
  PROVE  TypeOK' /\ Known' \subseteq Known
<1>1. PICK m \in queue :
        /\ queue' = queue \ {m}
        /\ RestoreControl(m)
        /\ ProcessMeasurement(m)
        /\ IF SmoothLaggedData THEN RememberMeasurement(m)
                               ELSE UNCHANGED historyVars
  BY DEF IntegrateMeasurement, QueueAfterPop
<1>2. m \in Measurement /\ m.time \in Times /\ m.control \in 0..MaxControls
  BY DEF TypeOK, Measurement
<1>3. queue' \subseteq Measurement /\ IsFiniteSet(queue')
  BY <1>1, FS_Difference DEF TypeOK
<1>4. control' \in 0..MaxControls /\ restoredCount' \in Int
  BY <1>1, <1>2 DEF TypeOK, RestoreControl
<1>5. /\ initialized' = TRUE
      /\ lastMeasurementTime' \in Times
      /\ estimate' \in Seq(Measurement)
      /\ Fused' = Fused \cup {m}
  <2>1. estimate' = Append(estimate, m)
    BY <1>1 DEF ProcessMeasurement
  <2>2. estimate' \in Seq(Measurement) /\ Range(estimate') = Range(estimate) \cup {m}
    BY <1>2, <2>1, ElementsOfAppend DEF TypeOK
  <2>3. lastMeasurementTime' \in {lastMeasurementTime, m.time} /\ initialized'
    BY <1>1 DEF ProcessMeasurement
  <2>4. initialized' = TRUE
    BY <1>1 DEF ProcessMeasurement
  <2> QED  BY <1>2, <2>2, <2>3, <2>4 DEF Fused, TypeOK
<1>6. /\ measurementHistory' \in Seq(Measurement)
      /\ Range(measurementHistory') \subseteq Range(measurementHistory) \cup {m}
      /\ stateHistory' \in Seq(FilterState)
      /\ \A s \in Range(stateHistory') :
           s \in Range(stateHistory) \/ Range(s.estimate) = Fused'
      /\ fellBack' = fellBack
  <2>1. CASE SmoothLaggedData
    <3>1. RememberMeasurement(m)
      BY <1>1, <2>1
    <3>2. /\ measurementHistory' = Append(measurementHistory, m)
          /\ stateHistory' \in {stateHistory, Append(stateHistory, SavedState)}
          /\ fellBack' = fellBack
      BY <3>1 DEF RememberMeasurement
    <3>3. /\ measurementHistory' \in Seq(Measurement)
          /\ Range(measurementHistory') = Range(measurementHistory) \cup {m}
      BY <1>2, <3>2, ElementsOfAppend DEF TypeOK
    <3>4. SavedState \in FilterState /\ Range(SavedState.estimate) = Fused'
      BY <1>4, <1>5 DEF SavedState, FilterState, Fused
    <3>5. stateHistory \in Seq(FilterState)
      BY DEF TypeOK
    <3> HIDE DEF SavedState
    <3>6. /\ Append(stateHistory, SavedState) \in Seq(FilterState)
          /\ Range(Append(stateHistory, SavedState)) =
               Range(stateHistory) \cup {SavedState}
      BY <3>4, <3>5, ElementsOfAppend
    <3> QED  BY <3>2, <3>3, <3>4, <3>5, <3>6
  <2>2. CASE ~SmoothLaggedData
    BY <1>1, <2>2 DEF historyVars, TypeOK
  <2> QED  BY <2>1, <2>2
<1>7. TypeOK'
  <2>1. UNCHANGED <<now, phase, currentTime, staleReplay, inputVars, outputVars>>
    BY DEF IntegrateMeasurement
  <2>2. initialized' \in BOOLEAN
    BY <1>5
  <2>3. fellBack' \in BOOLEAN
    BY <1>6 DEF TypeOK
  <2> QED
    BY <1>3, <1>4, <1>5, <1>6, <2>1, <2>2, <2>3
    DEF TypeOK, inputVars, outputVars, Measurement, FilterState
<1>8. Known' \subseteq Known
  <2>1. m \in Known /\ Fused \subseteq Known /\ queue' \subseteq Known
    BY <1>1 DEF Known
  <2>2. Fused' \subseteq Known
    BY <1>5, <2>1
  <2> QED  BY <1>6, <2>1, <2>2 DEF Known
<1> QED  BY <1>7, <1>8

LEMMA EndIntegrationIsTyped ==
  ASSUME TypeOK, EndIntegration
  PROVE  TypeOK' /\ Known' = Known
<1> USE DEF EndIntegration, inputVars, historyVars, outputVars, filterVars
<1>1. /\ lastMeasurementTime' \in {lastMeasurementTime, currentTime}
      /\ UNCHANGED <<initialized, control, estimate>>
  BY DEF PredictTo
<1>2. TypeOK'
  BY <1>1 DEF TypeOK, Measurement, FilterState
<1>3. Known' = Known
  BY <1>1 DEF Known, Fused
<1> QED  BY <1>2, <1>3

LEMMA CloseCycleIsTyped ==
  ASSUME TypeOK, CloseCycle
  PROVE  /\ TypeOK'
         /\ Known' \subseteq Known
         /\ Range(stateHistory') \subseteq Range(stateHistory)
<1>1. /\ lastPublishedStamp' \in Times
      /\ published' \in [stamp : Times, estimate : Seq(Measurement)]
  BY DEF CloseCycle, PublishEstimate, outputVars, TypeOK
<1>2. /\ measurementHistory' \in Seq(Measurement)
      /\ Range(measurementHistory') \subseteq Range(measurementHistory)
      /\ stateHistory' \in Seq(FilterState)
      /\ Range(stateHistory') \subseteq Range(stateHistory)
  <2>1. measurementHistory \in Seq(Measurement) /\ stateHistory \in Seq(FilterState)
    BY DEF TypeOK
  <2>2. CASE SmoothLaggedData
    <3>1. ClearExpiredHistory(lastMeasurementTime - HistoryLength)
      BY <2>2 DEF CloseCycle
    <3>2. /\ \E n \in 0..Len(measurementHistory) : measurementHistory' =
               SubSeq(measurementHistory, n + 1, Len(measurementHistory))
          /\ \E n \in 0..Len(stateHistory) : stateHistory' =
               SubSeq(stateHistory, n + 1, Len(stateHistory))
      BY <3>1 DEF ClearExpiredHistory
    <3> QED  BY <2>1, <3>2, RestOfSequence
  <2>3. CASE ~SmoothLaggedData
    BY <2>1, <2>3 DEF CloseCycle
  <2> QED  BY <2>2, <2>3
<1>3. /\ phase' = "spin" /\ currentTime' = 0
      /\ UNCHANGED <<now, restoredCount, staleReplay, inputVars, queue, fellBack, filterVars>>
  BY DEF CloseCycle
<1>4. TypeOK'
  <2>1. 0 \in Times
    BY Bounds DEF Times
  <2> QED
    BY <1>1, <1>2, <1>3, <2>1
    DEF TypeOK, inputVars, filterVars, Measurement, FilterState
<1>5. Known' \subseteq Known
  BY <1>2, <1>3 DEF Known, Fused, filterVars
<1> QED  BY <1>2, <1>4, <1>5

LEMMA TickIsTyped ==
  ASSUME TypeOK, Tick
  PROVE  TypeOK' /\ Known' = Known
<1> USE DEF Tick, cycleVars, inputVars, historyVars, outputVars, filterVars
<1>1. now' \in Times
  BY Bounds DEF TypeOK, Times
<1>2. TypeOK'
  BY <1>1 DEF TypeOK, Measurement, FilterState
<1>3. Known' = Known
  BY DEF Known, Fused
<1> QED  BY <1>2, <1>3

LEMMA StutteringIsTyped ==
  ASSUME TypeOK, UNCHANGED vars
  PROVE  TypeOK' /\ Known' = Known
<1> USE DEF vars, cycleVars, inputVars, historyVars, outputVars, filterVars
<1>1. TypeOK'
  BY DEF TypeOK, Measurement, FilterState
<1>2. Known' = Known
  BY DEF Known, Fused
<1> QED  BY <1>1, <1>2

(* The parts of a message that the node subscribes to. *)
LEMMA SensorCallbacksReceive ==
  ASSUME PoseCallback \/ TwistCallback \/ OdometryCallback \/ ImuCallback
  PROVE  \E parts \in SUBSET Channels : Receive(parts)
<1>1. CASE PoseCallback
  BY <1>1 DEF PoseCallback
<1>2. CASE TwistCallback
  BY <1>2 DEF TwistCallback
<1>3. CASE OdometryCallback
  BY <1>3 DEF OdometryCallback
<1>4. CASE ImuCallback
  BY <1>4 DEF ImuCallback
<1> QED  BY <1>1, <1>2, <1>3, <1>4

(* The node only comes to hold a measurement by receiving it: no other step
   makes one up, or brings one back that no container held any more. *)
LEMMA StepIsTyped ==
  ASSUME TypeOK, [Next]_vars
  PROVE  /\ TypeOK'
         /\ \/ Known' \subseteq Known
            \/ \E parts \in SUBSET Channels : Receive(parts)
<1>1. CASE PoseCallback \/ TwistCallback \/ OdometryCallback \/ ImuCallback
  BY <1>1, SensorCallbacksReceive, ReceiveIsTyped
<1>2. CASE \/ ControlCallback \/ SetPoseCallback
           \/ EnableFilterSrvCallback \/ ToggleFilterProcessingCallback
  BY <1>2, OtherCallbacksAreTyped
<1>3. CASE DiscardMeasurements \/ IntegrateNothing \/ BeginIntegration \/ BeginReplay
  BY <1>3, OpeningIsTyped
<1>4. CASE IntegrateMeasurement
  BY <1>4, IntegrateMeasurementIsTyped
<1>5. CASE EndIntegration
  BY <1>5, EndIntegrationIsTyped
<1>6. CASE CloseCycle
  BY <1>6, CloseCycleIsTyped
<1>7. CASE Tick
  BY <1>7, TickIsTyped
<1>8. CASE UNCHANGED vars
  BY <1>8, StutteringIsTyped
<1> QED
  BY <1>1, <1>2, <1>3, <1>4, <1>5, <1>6, <1>7, <1>8
  DEF Next, Callback, TimerStep

LEMMA InitIsTyped == Init => TypeOK
<1> SUFFICES ASSUME Init PROVE TypeOK
  OBVIOUS
<1>1. 0 \in Times /\ now \in Times /\ 0 \in 0..MaxControls /\ 0 \in 0..MaxMessages
  BY Bounds DEF Init, Times
<1>2. <<>> \in Seq(Measurement) /\ <<>> \in Seq(FilterState) /\ IsFiniteSet({})
  BY FS_EmptySet
<1>3. enabled \in BOOLEAN
  BY Zenon DEF Init
<1>4. lastMessageTimes \in [Channels -> Times]
  BY <1>1 DEF Init
<1>5. published \in [stamp : Times, estimate : Seq(Measurement)]
  BY <1>1, <1>2 DEF Init
<1>6. /\ lastMeasurementTime \in Times /\ initialized \in BOOLEAN
      /\ control \in 0..MaxControls /\ estimate \in Seq(Measurement)
  BY <1>1, <1>2 DEF Init, FilterInit
<1>7. /\ phase \in {"spin", "integrate", "publish"}
      /\ toggledOn \in BOOLEAN /\ fellBack \in BOOLEAN /\ staleReplay \in BOOLEAN
      /\ restoredCount \in Int
  <2>1. /\ phase = "spin" /\ toggledOn = TRUE /\ fellBack = FALSE
        /\ staleReplay = FALSE /\ restoredCount = 0
    BY Zenon DEF Init
  <2>2. phase \in {"spin", "integrate", "publish"} /\ restoredCount \in Int
    BY <2>1
  <2>3. toggledOn \in BOOLEAN /\ fellBack \in BOOLEAN /\ staleReplay \in BOOLEAN
    BY <2>1
  <2> QED  BY <2>2, <2>3
<1>8. /\ queue \subseteq Measurement /\ IsFiniteSet(queue)
      /\ measurementHistory \in Seq(Measurement)
      /\ stateHistory \in Seq(FilterState)
  BY <1>2 DEF Init
<1>9. /\ currentTime \in Times /\ lastSetPoseTime \in Times
      /\ lastPublishedStamp \in Times /\ latestControl \in 0..MaxControls
      /\ messages \in 0..MaxMessages
  BY <1>1 DEF Init
<1> QED
  BY <1>1, <1>3, <1>4, <1>5, <1>6, <1>7, <1>8, <1>9 DEF TypeOK

(* The node keeps its state well-formed, in every configuration. *)
THEOREM TypeCorrect == Spec => []TypeOK
<1>1. Init => TypeOK
  BY InitIsTyped
<1>2. TypeOK /\ [Next]_vars => TypeOK'
  BY StepIsTyped
<1> QED  BY <1>1, <1>2, PTL DEF Spec

-----------------------------------------------------------------------------
(* What receiving a message adds, and what other steps leave alone.        *)

LEMMA ReceiveAdds ==
  ASSUME NEW parts, Receive(parts)
  PROVE  \E stamp \in 1..MaxTime : \E prepared \in SUBSET Fresh(parts, stamp) :
           /\ lastSetPoseTime < stamp
           /\ lastMessageTimes' = [c \in Channels |->
                IF c \in Fresh(parts, stamp) THEN stamp ELSE lastMessageTimes[c]]
           /\ messages' = messages + 1
           /\ lastSetPoseTime' = lastSetPoseTime
           /\ Known' = Known \cup {NewMeasurement(c, stamp) : c \in prepared}
<1>1. PICK stamp \in 1..MaxTime :
        /\ lastSetPoseTime < stamp
        /\ \E prepared \in SUBSET Fresh(parts, stamp) :
             queue' = queue \cup {NewMeasurement(c, stamp) : c \in prepared}
        /\ lastMessageTimes' = [c \in Channels |->
             IF c \in Fresh(parts, stamp) THEN stamp ELSE lastMessageTimes[c]]
        /\ messages' = messages + 1
  BY DEF Receive
<1>2. PICK prepared \in SUBSET Fresh(parts, stamp) :
        queue' = queue \cup {NewMeasurement(c, stamp) : c \in prepared}
  BY <1>1
<1>3. UNCHANGED <<lastSetPoseTime, measurementHistory, stateHistory, estimate>>
  BY DEF Receive, historyVars, filterVars
<1>4. Known' = Known \cup {NewMeasurement(c, stamp) : c \in prepared}
  BY <1>2, <1>3 DEF Known, Fused
<1> QED  BY <1>1, <1>2, <1>3, <1>4

LEMMA SetPoseEmpties ==
  ASSUME SetPoseCallback
  PROVE  Known' = {}
BY DEF SetPoseCallback, SetState, Known, Fused, Range

LEMMA OthersKeepInputs ==
  ASSUME [Next]_vars, \A parts \in SUBSET Channels : ~Receive(parts)
  PROVE  /\ UNCHANGED <<lastMessageTimes, messages>>
         /\ lastSetPoseTime' = lastSetPoseTime \/ SetPoseCallback
<1>1. ~(PoseCallback \/ TwistCallback \/ OdometryCallback \/ ImuCallback)
  BY SensorCallbacksReceive
<1>2. CASE \/ ControlCallback \/ SetPoseCallback
           \/ EnableFilterSrvCallback \/ ToggleFilterProcessingCallback
  BY <1>2 DEF ControlCallback, SetPoseCallback, EnableFilterSrvCallback,
              ToggleFilterProcessingCallback
<1>3. CASE TimerStep \/ Tick \/ UNCHANGED vars
  BY <1>3 DEF TimerStep, Tick, vars, inputVars, DiscardMeasurements,
              IntegrateNothing, BeginIntegration, BeginReplay,
              IntegrateMeasurement, EndIntegration, CloseCycle
<1> QED  BY <1>1, <1>2, <1>3 DEF Next, Callback

-----------------------------------------------------------------------------
(* After a set_pose, nothing stamped at or before it is used again.        *)

LEMMA ForgetsKnown ==
  SetPoseForgetsThePast <=> \A m \in Known : lastSetPoseTime < m.time
BY DEF SetPoseForgetsThePast, Known

LEMMA ForgetsStep ==
  ASSUME TypeOK, [Next]_vars, \A m \in Known : lastSetPoseTime < m.time
  PROVE  (\A m \in Known : lastSetPoseTime < m.time)'
<1>1. CASE \E parts \in SUBSET Channels : Receive(parts)
  <2>1. PICK stamp \in 1..MaxTime :
          /\ lastSetPoseTime < stamp
          /\ lastSetPoseTime' = lastSetPoseTime
          /\ \E parts \in SUBSET Channels :
               \E prepared \in SUBSET Fresh(parts, stamp) :
                 Known' = Known \cup {NewMeasurement(c, stamp) : c \in prepared}
    BY <1>1, ReceiveAdds
  <2>2. \A c : NewMeasurement(c, stamp).time = stamp
    BY DEF NewMeasurement
  <2> QED  BY <2>1, <2>2
<1>2. CASE \A parts \in SUBSET Channels : ~Receive(parts)
  <2>1. Known' \subseteq Known
    BY <1>2, StepIsTyped
  <2>2. lastSetPoseTime' = lastSetPoseTime \/ Known' = {}
    BY <1>2, OthersKeepInputs, SetPoseEmpties
  <2> QED  BY <2>1, <2>2
<1> QED  BY <1>1, <1>2

(* A set_pose cuts the filter off from everything before it: no queue entry,
   no replayed history and no saved state brings back a measurement stamped
   at or before the pose (setPoseCallback and the guard of each callback). *)
THEOREM SetPoseForgets == Spec => []SetPoseForgetsThePast
<1> DEFINE I == \A m \in Known : lastSetPoseTime < m.time
<1>1. Init => I
  BY DEF Init, FilterInit, Known, Fused, Range
<1>2. TypeOK /\ I /\ [Next]_vars => I'
  BY ForgetsStep
<1>3. I => SetPoseForgetsThePast
  BY ForgetsKnown
<1> QED  BY <1>1, <1>2, <1>3, TypeCorrect, PTL DEF Spec

-----------------------------------------------------------------------------
(* Each channel keeps its order.  The inductive invariant adds that no     *)
(* measurement held is later than the last one heard on its channel, and   *)
(* that identities are given out in order.                                 *)

ChannelInv ==
  /\ \A m \in Known : /\ m.channel \in Channels
                       /\ m.time \in Nat /\ m.id \in Nat
                       /\ m.time <= lastMessageTimes[m.channel]
                       /\ m.id <= messages
  /\ \A m1, m2 \in Known :
       m1.channel = m2.channel /\ m1.id < m2.id => m1.time <= m2.time

LEMMA ChannelStep ==
  ASSUME TypeOK, ChannelInv, [Next]_vars
  PROVE  ChannelInv'
<1>1. ASSUME NEW parts \in SUBSET Channels, Receive(parts)
      PROVE  ChannelInv'
  <2>0. PICK stamp \in 1..MaxTime :
          /\ lastMessageTimes' = [c \in Channels |->
               IF c \in Fresh(parts, stamp) THEN stamp ELSE lastMessageTimes[c]]
          /\ messages' = messages + 1
          /\ \E prepared \in SUBSET Fresh(parts, stamp) :
               Known' = Known \cup {NewMeasurement(c, stamp) : c \in prepared}
    BY <1>1, ReceiveAdds
  <2>1. PICK prepared \in SUBSET Fresh(parts, stamp) :
          Known' = Known \cup {NewMeasurement(c, stamp) : c \in prepared}
    BY <2>0
  <2>2. messages \in Nat /\ stamp \in Nat /\ \A c \in Channels : lastMessageTimes[c] \in Nat
    <3>1. messages \in 0..MaxMessages /\ lastMessageTimes \in [Channels -> Times]
      BY DEF TypeOK
    <3> QED  BY <3>1, Bounds DEF Times
  <2>3. \A c \in Channels : /\ lastMessageTimes'[c] \in Nat
                            /\ lastMessageTimes[c] <= lastMessageTimes'[c]
    BY <2>0, <2>2 DEF Fresh
  <2>4. \A c \in prepared : /\ c \in Channels
                            /\ lastMessageTimes[c] <= stamp
                            /\ lastMessageTimes'[c] = stamp
    BY <2>0 DEF Fresh
  <2>5. \A c : /\ NewMeasurement(c, stamp).channel = c
               /\ NewMeasurement(c, stamp).time = stamp
               /\ NewMeasurement(c, stamp).id = messages + 1
    BY DEF NewMeasurement
  <2>6. ASSUME NEW m \in Known'
        PROVE  /\ m.channel \in Channels
               /\ m.time \in Nat /\ m.id \in Nat
               /\ m.time <= lastMessageTimes'[m.channel]
               /\ m.id <= messages'
    <3>1. CASE m \in Known
      BY <2>0, <2>2, <2>3, <3>1 DEF ChannelInv
    <3>2. CASE m \in {NewMeasurement(c, stamp) : c \in prepared}
      BY <2>0, <2>2, <2>4, <2>5, <3>2
    <3> QED  BY <2>1, <3>1, <3>2
  <2>7. ASSUME NEW m1 \in Known', NEW m2 \in Known',
               m1.channel = m2.channel, m1.id < m2.id
        PROVE  m1.time <= m2.time
    <3>1. CASE m1 \in Known /\ m2 \in Known
      BY <2>7, <3>1 DEF ChannelInv
    <3>2. CASE m1 \in Known /\ m2 \in {NewMeasurement(c, stamp) : c \in prepared}
      <4>1. m2.channel \in prepared /\ m2.time = stamp
        BY <2>5, <3>2
      <4>2. m1.time <= lastMessageTimes[m2.channel] /\ m1.time \in Nat
        BY <2>7, <3>2 DEF ChannelInv
      <4> QED  BY <2>2, <2>4, <4>1, <4>2
    <3>3. CASE m1 \in {NewMeasurement(c, stamp) : c \in prepared}
      <4>1. m1.id = messages + 1
        BY <2>5, <3>3
      <4>2. m2.id <= messages + 1 /\ m2.id \in Nat
        BY <2>0, <2>6
      <4> QED  BY <2>2, <2>7, <4>1, <4>2
    <3> QED  BY <2>1, <3>1, <3>2, <3>3
  <2> QED  BY <2>6, <2>7 DEF ChannelInv
<1>2. CASE \A parts \in SUBSET Channels : ~Receive(parts)
  <2>1. Known' \subseteq Known
    BY <1>2, StepIsTyped
  <2>2. UNCHANGED <<lastMessageTimes, messages>>
    BY <1>2, OthersKeepInputs
  <2> QED  BY <2>1, <2>2 DEF ChannelInv
<1> QED  BY <1>1, <1>2

LEMMA ChannelAlways == Spec => []ChannelInv
<1>1. Init => ChannelInv
  BY DEF Init, FilterInit, ChannelInv, Known, Fused, Range
<1>2. TypeOK /\ ChannelInv /\ [Next]_vars => ChannelInv'
  BY ChannelStep
<1> QED  BY <1>1, <1>2, TypeCorrect, PTL DEF Spec

(* Two measurements of one channel never change places in time, whatever is
   reverted, replayed, discarded or forgotten (last_message_times_). *)
THEOREM ChannelOrder == Spec => []ChannelsKeepOrder
<1>1. ChannelInv => ChannelsKeepOrder
  BY DEF ChannelInv, ChannelsKeepOrder, Known
<1> QED  BY <1>1, ChannelAlways, PTL

-----------------------------------------------------------------------------
(* The filter's time.  The inductive invariant adds that no saved state    *)
(* lies in the future, since revertTo brings its time back.                *)

ClockInv ==
  /\ lastMeasurementTime <= now
  /\ \A s \in Range(stateHistory) : s.time <= now
  /\ phase = "integrate" => /\ currentTime <= now
                            /\ lastMeasurementTime <= currentTime

LEMMA TimesAreNat ==
  ASSUME TypeOK
  PROVE  /\ now \in Nat /\ currentTime \in Nat
         /\ lastMeasurementTime \in Nat /\ lastPublishedStamp \in Nat
         /\ published.stamp \in Nat
         /\ \A s \in Range(stateHistory) : s.time \in Nat
         /\ \A m \in queue : m.time \in Nat
<1>1. /\ stateHistory \in Seq(FilterState) /\ queue \subseteq Measurement
      /\ published \in [stamp : Times, estimate : Seq(Measurement)]
  BY DEF TypeOK
<1>2. Range(stateHistory) \subseteq FilterState
  BY <1>1, ElementsOfSequence
<1> QED  BY <1>1, <1>2, Bounds DEF TypeOK, FilterState, Measurement

(* The time that folding in a measurement of this cycle leaves behind. *)
LEMMA TimeAfterIntegrating ==
  ASSUME TypeOK, IntegrateMeasurement
  PROVE  /\ UNCHANGED <<now, phase, currentTime>>
         /\ phase = "integrate"
         /\ initialized'
         /\ initialized => lastMeasurementTime <= lastMeasurementTime'
         /\ lastMeasurementTime' = lastMeasurementTime \/ lastMeasurementTime' <= currentTime
         /\ \A s \in Range(stateHistory') :
              s \in Range(stateHistory) \/ s.time = lastMeasurementTime'
<1>1. PICK m \in queue :
        /\ m.time <= currentTime
        /\ ProcessMeasurement(m)
        /\ RestoreControl(m)
        /\ IF SmoothLaggedData THEN RememberMeasurement(m)
                               ELSE UNCHANGED historyVars
  BY DEF IntegrateMeasurement, Due
<1>2. /\ m.time \in Nat
      /\ UNCHANGED <<now, phase, currentTime>> /\ phase = "integrate"
  BY TimesAreNat DEF IntegrateMeasurement
<1>3. /\ initialized'
      /\ initialized => lastMeasurementTime <= lastMeasurementTime'
      /\ lastMeasurementTime' = lastMeasurementTime \/ lastMeasurementTime' <= currentTime
  BY <1>1, <1>2, TimesAreNat DEF ProcessMeasurement
<1>4. TypeOK'
  BY IntegrateMeasurementIsTyped
<1>5. ASSUME NEW s \in Range(stateHistory')
      PROVE  s \in Range(stateHistory) \/ s.time = lastMeasurementTime'
  <2>1. CASE stateHistory' = stateHistory
    BY <1>5, <2>1
  <2>2. CASE stateHistory' = Append(stateHistory, SavedState)
    <3>1. SavedState \in FilterState
      <4>1. lastMeasurementTime' \in Times /\ estimate' \in Seq(Measurement)
              /\ control' \in 0..MaxControls
        BY <1>4 DEF TypeOK, Measurement
      <4> QED  BY <4>1 DEF SavedState, FilterState
    <3>2. SavedState.time = lastMeasurementTime'
      BY DEF SavedState
    <3> HIDE DEF SavedState
    <3>3. Range(stateHistory') = Range(stateHistory) \cup {SavedState}
      BY <2>2, <3>1, ElementsOfAppend DEF TypeOK
    <3> QED  BY <1>5, <3>2, <3>3
  <2>3. stateHistory' = stateHistory \/ stateHistory' = Append(stateHistory, SavedState)
    BY <1>1 DEF RememberMeasurement, historyVars
  <2> QED  BY <2>1, <2>2, <2>3
<1> QED  BY <1>2, <1>3, <1>5

LEMMA ClockStep ==
  ASSUME TypeOK, ClockInv, [Next]_vars
  PROVE  ClockInv'
<1> USE TimesAreNat
<1>1. CASE \E parts \in SUBSET Channels : Receive(parts)
  BY <1>1 DEF Receive, ClockInv, cycleVars, historyVars, filterVars
<1>2. CASE ControlCallback \/ EnableFilterSrvCallback \/ ToggleFilterProcessingCallback
  BY <1>2 DEF ControlCallback, EnableFilterSrvCallback,
     ToggleFilterProcessingCallback, ClockInv, cycleVars, historyVars, filterVars
<1>3. CASE SetPoseCallback
  <2>1. /\ stateHistory' = <<>> /\ lastMeasurementTime' = now /\ now' = now
        /\ phase' = "spin"
    BY <1>3 DEF SetPoseCallback, SetState, cycleVars
  <2> QED  BY <2>1 DEF ClockInv, Range
<1>4. CASE DiscardMeasurements \/ IntegrateNothing
  <2>1. /\ lastMeasurementTime' \in {lastMeasurementTime, now}
        /\ phase' = "publish" /\ now' = now /\ stateHistory' = stateHistory
    BY <1>4 DEF DiscardMeasurements, IntegrateNothing, OpenCycle, PredictTo,
                historyVars, filterVars
  <2> QED  BY <2>1 DEF ClockInv
<1>5. CASE BeginIntegration
  BY <1>5 DEF BeginIntegration, OpenCycle, historyVars, filterVars, ClockInv
<1>6. CASE BeginReplay
  <2>1. PICK first \in queue : RevertTo(first.time - 1)
    BY <1>6 DEF BeginReplay
  <2>2. first.time - 1 \in Int
    OBVIOUS
  <2>3. /\ lastMeasurementTime' \in
             {lastMeasurementTime} \cup {s.time : s \in Range(stateHistory)}
        /\ Range(stateHistory') \subseteq Range(stateHistory)
    BY <2>1, <2>2, RevertIsTyped
  <2>4. now' = now /\ currentTime' = now
    BY <1>6 DEF BeginReplay, OpenCycle
  <2>5. lastMeasurementTime' <= now
    BY <2>3 DEF ClockInv
  <2> QED  BY <2>3, <2>4, <2>5 DEF ClockInv
<1>7. CASE IntegrateMeasurement
  <2>1. currentTime <= now /\ lastMeasurementTime <= currentTime
    BY <1>7, TimeAfterIntegrating DEF ClockInv
  <2>2. TypeOK'
    BY <1>7, IntegrateMeasurementIsTyped
  <2>3. lastMeasurementTime' <= currentTime /\ lastMeasurementTime' <= now
    <3>1. lastMeasurementTime' \in Nat
      BY <2>2, Bounds DEF TypeOK
    <3> QED  BY <1>7, <2>1, <3>1, TimeAfterIntegrating
  <2>4. \A s \in Range(stateHistory') : s.time <= now
    BY <1>7, <2>3, TimeAfterIntegrating DEF ClockInv
  <2> QED  BY <1>7, <2>1, <2>3, <2>4, TimeAfterIntegrating DEF ClockInv
<1>8. CASE EndIntegration
  <2>1. /\ lastMeasurementTime' \in {lastMeasurementTime, currentTime}
        /\ phase = "integrate" /\ phase' = "publish" /\ now' = now
        /\ stateHistory' = stateHistory
    BY <1>8 DEF EndIntegration, PredictTo, historyVars, filterVars
  <2> QED  BY <2>1 DEF ClockInv
<1>9. CASE CloseCycle
  <2>1. Range(stateHistory') \subseteq Range(stateHistory)
    BY <1>9, CloseCycleIsTyped
  <2>2. phase' = "spin" /\ now' = now /\ lastMeasurementTime' = lastMeasurementTime
    BY <1>9 DEF CloseCycle, filterVars
  <2> QED  BY <2>1, <2>2 DEF ClockInv
<1>10. CASE Tick
  <2>1. /\ now' = now + 1
        /\ UNCHANGED <<phase, currentTime, stateHistory, lastMeasurementTime>>
    BY <1>10 DEF Tick, cycleVars, historyVars, filterVars
  <2> QED  BY <2>1 DEF ClockInv
<1>11. CASE UNCHANGED vars
  BY <1>11 DEF vars, cycleVars, historyVars, filterVars, ClockInv
<1> QED
  BY <1>1, <1>2, <1>3, <1>4, <1>5, <1>6, <1>7, <1>8, <1>9, <1>10, <1>11,
     SensorCallbacksReceive
  DEF Next, Callback, TimerStep

LEMMA ClockAlways == Spec => []ClockInv
<1>1. Init => ClockInv
  <2>1. ASSUME Init
        PROVE  /\ lastMeasurementTime = now /\ now \in Nat
               /\ stateHistory = <<>> /\ phase = "spin"
    BY <2>1, Bounds DEF Init, FilterInit
  <2> QED  BY <2>1 DEF ClockInv, Range
<1>2. TypeOK /\ ClockInv /\ [Next]_vars => ClockInv'
  BY ClockStep
<1> QED  BY <1>1, <1>2, TypeCorrect, PTL DEF Spec

(* predict is never asked to go back: neither a stamp from the future nor a
   state brought back by revertTo puts the filter ahead of the clock of the
   timer cycle (the early exit of integrateMeasurements). *)
THEOREM FilterBehindClock == Spec => []FilterNotAheadOfClock
<1>1. ClockInv => FilterNotAheadOfClock
  BY DEF ClockInv, FilterNotAheadOfClock
<1> QED  BY <1>1, ClockAlways, PTL

-----------------------------------------------------------------------------
(* Sequences without repetitions.                                          *)

LEMMA AppendKeepsInjective ==
  ASSUME NEW S, NEW s \in Seq(S), NEW x \in S, IsInjective(s), x \notin Range(s)
  PROVE  IsInjective(Append(s, x))
<1>1. /\ DOMAIN Append(s, x) = 1..Len(s) + 1 /\ DOMAIN s = 1..Len(s) /\ Len(s) \in Nat
      /\ \A k \in 1..Len(s) : Append(s, x)[k] = s[k]
      /\ Append(s, x)[Len(s) + 1] = x
  <2>1. DOMAIN Append(s, x) = 1..Len(s) + 1
    OBVIOUS
  <2>2. DOMAIN s = 1..Len(s) /\ Len(s) \in Nat
    OBVIOUS
  <2>3. \A k \in 1..Len(s) : Append(s, x)[k] = s[k]
    OBVIOUS
  <2>4. Append(s, x)[Len(s) + 1] = x
    OBVIOUS
  <2> QED  BY <2>1, <2>2, <2>3, <2>4
<1>2. \A k \in 1..Len(s) : s[k] # x
  BY <1>1 DEF Range
<1>3. \A k \in 1..Len(s) + 1 : k \in 1..Len(s) \/ k = Len(s) + 1
  BY <1>1
<1>4. ASSUME NEW a \in 1..Len(s) + 1, NEW b \in 1..Len(s) + 1,
             Append(s, x)[a] = Append(s, x)[b]
      PROVE  a = b
  <2>1. CASE a \in 1..Len(s) /\ b \in 1..Len(s)
    BY <1>1, <1>4, <2>1 DEF IsInjective
  <2> QED  BY <1>1, <1>2, <1>3, <1>4, <2>1
<1>5. \A a, b \in DOMAIN Append(s, x) : Append(s, x)[a] = Append(s, x)[b] => a = b
  BY <1>1, <1>4
<1> QED  BY <1>5 DEF IsInjective

LEMMA PieceInjective ==
  ASSUME NEW S, NEW s \in Seq(S), IsInjective(s),
         NEW i \in 1..Len(s) + 1, NEW j \in 0..Len(s)
  PROVE  IsInjective(SubSeq(s, i, j))
<1>1. \A k \in DOMAIN SubSeq(s, i, j) :
        /\ k \in Nat
        /\ SubSeq(s, i, j)[k] = s[i + k - 1] /\ i + k - 1 \in DOMAIN s
  <2>1. SUFFICES ASSUME NEW k \in DOMAIN SubSeq(s, i, j)
                 PROVE  /\ k \in Nat
                        /\ SubSeq(s, i, j)[k] = s[i + k - 1] /\ i + k - 1 \in DOMAIN s
    OBVIOUS
  <2>2. k \in 1..(j - i + 1) /\ i <= j /\ SubSeq(s, i, j)[k] = s[i + k - 1]
    BY SubSeqProperties
  <2> QED  BY <2>2
<1>2. SUFFICES ASSUME NEW a \in DOMAIN SubSeq(s, i, j), NEW b \in DOMAIN SubSeq(s, i, j),
                      SubSeq(s, i, j)[a] = SubSeq(s, i, j)[b]
               PROVE  a = b
  BY DEF IsInjective
<1>3. i + a - 1 = i + b - 1
  BY <1>1, <1>2 DEF IsInjective
<1> QED  BY <1>1, <1>3

LEMMA PiecesDisjoint ==
  ASSUME NEW S, NEW s \in Seq(S), IsInjective(s), NEW k \in 0..Len(s)
  PROVE  Range(SubSeq(s, 1, k)) \cap Range(SubSeq(s, k + 1, Len(s))) = {}
<1>1. SUFFICES ASSUME NEW x \in Range(SubSeq(s, 1, k)),
                      x \in Range(SubSeq(s, k + 1, Len(s)))
               PROVE  FALSE
  OBVIOUS
<1>2. PICK a \in DOMAIN SubSeq(s, 1, k) : x = SubSeq(s, 1, k)[a]
  BY DEF Range
<1>3. PICK b \in DOMAIN SubSeq(s, k + 1, Len(s)) : x = SubSeq(s, k + 1, Len(s))[b]
  BY <1>1 DEF Range
<1>4. a \in 1..k /\ x = s[a]
  BY <1>2, SubSeqProperties
<1>5. b \in 1..(Len(s) - k) /\ x = s[k + b]
  BY <1>3, SubSeqProperties
<1>6. a \in DOMAIN s /\ k + b \in DOMAIN s
  BY <1>4, <1>5
<1>7. a = k + b
  BY <1>4, <1>5, <1>6 DEF IsInjective
<1> QED  BY <1>4, <1>5, <1>7

-----------------------------------------------------------------------------
(* Where a measurement is.  The identities of ChannelInv make a new        *)
(* measurement differ from every one that the node holds.                  *)

LEMMA NewIsUnknown ==
  ASSUME TypeOK, ChannelInv
  PROVE  \A c, stamp : NewMeasurement(c, stamp) \notin Known
<1>1. \A c, stamp : NewMeasurement(c, stamp).id = messages + 1
  BY DEF NewMeasurement
<1>2. messages \in Nat /\ \A m \in Known : m.id \in Nat /\ m.id <= messages
  BY Bounds DEF TypeOK, ChannelInv
<1> QED  BY <1>1, <1>2

LEMMA ReceiveKeepsHeld ==
  ASSUME TypeOK, ChannelInv, NEW parts, Receive(parts)
  PROVE  /\ UNCHANGED <<historyVars, filterVars>>
         /\ \A m \in queue' : m \in queue \/ m \notin Known
<1>1. PICK stamp \in 1..MaxTime : \E prepared \in SUBSET Fresh(parts, stamp) :
        queue' = queue \cup {NewMeasurement(c, stamp) : c \in prepared}
  BY DEF Receive
<1>2. PICK prepared \in SUBSET Fresh(parts, stamp) :
        queue' = queue \cup {NewMeasurement(c, stamp) : c \in prepared}
  BY <1>1
<1> QED  BY <1>2, NewIsUnknown DEF Receive

LEMMA RevertKeepsOneHome ==
  ASSUME TypeOK, OneHome, NEW t, RevertTo(t)
  PROVE  OneHome'
<1>1. CASE UNCHANGED <<queue, measurementHistory>>
  BY <1>1 DEF OneHome
<1>2. CASE \E s, k : /\ k \in 0..Len(measurementHistory)
                     /\ measurementHistory' = KeptMeasurements(k)
                     /\ queue' = queue \cup Restored(s, k)
  <2>1. PICK s, k : /\ k \in 0..Len(measurementHistory)
                    /\ measurementHistory' = KeptMeasurements(k)
                    /\ queue' = queue \cup Restored(s, k)
    BY <1>2
  <2>2. measurementHistory \in Seq(Measurement) /\ IsInjective(measurementHistory)
    BY DEF TypeOK, OneHome
  <2>3. 1 \in 1..Len(measurementHistory) + 1
    BY <2>2
  <2>4. /\ IsInjective(measurementHistory')
        /\ Range(measurementHistory') \subseteq Range(measurementHistory)
    BY <2>1, <2>2, <2>3, PieceInjective, PieceOfSequence DEF KeptMeasurements
  <2>5. Range(measurementHistory') \cap Popped(k) = {}
    BY <2>1, <2>2, PiecesDisjoint DEF KeptMeasurements, Popped
  <2> QED  BY <2>1, <2>4, <2>5 DEF OneHome, Restored
<1> QED  BY <1>1, <1>2 DEF RevertTo

LEMMA OneHomeStep ==
  ASSUME TypeOK, ChannelInv, OneHome, [Next]_vars
  PROVE  OneHome'
<1>1. CASE \E parts \in SUBSET Channels : Receive(parts)
  BY <1>1, ReceiveKeepsHeld DEF OneHome, Known, historyVars
<1>2. CASE SetPoseCallback
  <2>1. queue' = {} /\ measurementHistory' = <<>>
    BY <1>2 DEF SetPoseCallback
  <2> QED  BY <2>1 DEF OneHome, IsInjective
<1>3. CASE BeginReplay
  BY <1>3, RevertKeepsOneHome DEF BeginReplay
<1>4. CASE IntegrateMeasurement
  <2>1. PICK m \in queue :
          /\ queue' = queue \ {m}
          /\ \/ measurementHistory' = measurementHistory
             \/ measurementHistory' = Append(measurementHistory, m)
    BY <1>4 DEF IntegrateMeasurement, QueueAfterPop, RememberMeasurement, historyVars
  <2>2. /\ m \in Measurement /\ measurementHistory \in Seq(Measurement)
        /\ m \notin Range(measurementHistory) /\ IsInjective(measurementHistory)
    BY DEF TypeOK, OneHome
  <2>3. CASE measurementHistory' = measurementHistory
    BY <2>1, <2>3 DEF OneHome
  <2>4. CASE measurementHistory' = Append(measurementHistory, m)
    <3>1. /\ Range(measurementHistory') = Range(measurementHistory) \cup {m}
          /\ IsInjective(measurementHistory')
      BY <2>2, <2>4, ElementsOfAppend, AppendKeepsInjective
    <3> QED  BY <2>1, <3>1 DEF OneHome
  <2> QED  BY <2>1, <2>3, <2>4
<1>5. CASE CloseCycle
  <2>1. queue' = queue
    BY <1>5 DEF CloseCycle
  <2>2. \/ measurementHistory' = measurementHistory
        \/ \E n \in 0..Len(measurementHistory) : measurementHistory' =
             SubSeq(measurementHistory, n + 1, Len(measurementHistory))
    BY <1>5 DEF CloseCycle, ClearExpiredHistory
  <2>3. CASE measurementHistory' = measurementHistory
    BY <2>1, <2>3 DEF OneHome
  <2>4. ASSUME NEW n \in 0..Len(measurementHistory),
               measurementHistory' =
                 SubSeq(measurementHistory, n + 1, Len(measurementHistory))
        PROVE  OneHome'
    <3>1. measurementHistory \in Seq(Measurement) /\ IsInjective(measurementHistory)
      BY DEF TypeOK, OneHome
    <3>2. /\ n + 1 \in 1..Len(measurementHistory) + 1
          /\ Len(measurementHistory) \in 0..Len(measurementHistory)
      BY <3>1
    <3>3. IsInjective(measurementHistory')
      BY <2>4, <3>1, <3>2, PieceInjective
    <3>4. Range(measurementHistory') \subseteq Range(measurementHistory)
      BY <2>4, <3>1, RestOfSequence
    <3> QED  BY <2>1, <3>3, <3>4 DEF OneHome
  <2> QED  BY <2>2, <2>3, <2>4
<1>6. CASE DiscardMeasurements
  BY <1>6 DEF DiscardMeasurements, historyVars, OneHome
<1>7. CASE \/ ControlCallback \/ EnableFilterSrvCallback
           \/ ToggleFilterProcessingCallback
           \/ IntegrateNothing \/ BeginIntegration \/ EndIntegration
           \/ Tick \/ UNCHANGED vars
  <2>1. queue' = queue /\ measurementHistory' = measurementHistory
    BY <1>7 DEF ControlCallback, EnableFilterSrvCallback,
       ToggleFilterProcessingCallback, IntegrateNothing, BeginIntegration,
       EndIntegration, Tick, vars, historyVars
  <2> QED  BY <2>1 DEF OneHome
<1> QED
  BY <1>1, <1>2, <1>3, <1>4, <1>5, <1>6, <1>7, SensorCallbacksReceive
  DEF Next, Callback, TimerStep

(* A measurement moves between queue and history and is never in both, nor
   twice in either, however often the filter reverts (revertTo,
   integrateMeasurements, clearExpiredHistory). *)
THEOREM MeasurementsHaveOneHome == Spec => []OneHome
<1>1. Init => OneHome
  BY DEF Init, OneHome, IsInjective, Range
<1>2. TypeOK /\ ChannelInv /\ OneHome /\ [Next]_vars => OneHome'
  BY OneHomeStep
<1> QED  BY <1>1, <1>2, ChannelAlways, TypeCorrect, PTL DEF Spec

LEMMA FusedOnceStep ==
  ASSUME ~SmoothLaggedData, TypeOK, ChannelInv, FusedOnce, [Next]_vars
  PROVE  FusedOnce'
<1>1. CASE \E parts \in SUBSET Channels : Receive(parts)
  BY <1>1, ReceiveKeepsHeld DEF FusedOnce, Known, Fused, filterVars
<1>2. CASE SetPoseCallback
  <2>1. queue' = {} /\ estimate' = <<>>
    BY <1>2 DEF SetPoseCallback, SetState
  <2> QED  BY <2>1 DEF FusedOnce, IsInjective
<1>3. ~BeginReplay
  BY DEF BeginReplay, LaggedMeasurement
<1>4. CASE IntegrateMeasurement
  <2>1. PICK m \in queue : queue' = queue \ {m} /\ estimate' = Append(estimate, m)
    BY <1>4 DEF IntegrateMeasurement, QueueAfterPop, ProcessMeasurement
  <2>2. /\ m \in Measurement /\ estimate \in Seq(Measurement)
        /\ m \notin Range(estimate) /\ IsInjective(estimate)
    BY DEF TypeOK, FusedOnce, Fused
  <2>3. Range(estimate') = Range(estimate) \cup {m} /\ IsInjective(estimate')
    BY <2>1, <2>2, ElementsOfAppend, AppendKeepsInjective
  <2> QED  BY <2>1, <2>3 DEF FusedOnce, Fused
<1>5. CASE DiscardMeasurements
  BY <1>5 DEF DiscardMeasurements, FusedOnce, Fused
<1>6. CASE \/ ControlCallback \/ EnableFilterSrvCallback
           \/ ToggleFilterProcessingCallback
           \/ IntegrateNothing \/ BeginIntegration \/ EndIntegration
           \/ CloseCycle \/ Tick \/ UNCHANGED vars
  <2>1. queue' = queue /\ estimate' = estimate
    BY <1>6 DEF ControlCallback, EnableFilterSrvCallback,
       ToggleFilterProcessingCallback, IntegrateNothing, BeginIntegration,
       EndIntegration, CloseCycle, PredictTo, Tick, vars, filterVars
  <2> QED  BY <2>1 DEF FusedOnce, Fused
<1> QED
  BY <1>1, <1>2, <1>3, <1>4, <1>5, <1>6, SensorCallbacksReceive
  DEF Next, Callback, TimerStep

(* Without lag smoothing no measurement is folded in twice, across any number
   of cycles (the loop of integrateMeasurements). *)
THEOREM MeasurementsFusedOnce == Spec => []FusedOnce
<1>1. CASE SmoothLaggedData
  <2>1. FusedOnce
    BY <1>1 DEF FusedOnce
  <2> QED  BY <2>1, PTL
<1>2. CASE ~SmoothLaggedData
  <2>1. Init => FusedOnce
    BY DEF Init, FilterInit, FusedOnce, Fused, IsInjective
  <2>2. TypeOK /\ ChannelInv /\ FusedOnce /\ [Next]_vars => FusedOnce'
    BY <1>2, FusedOnceStep
  <2> QED  BY <2>1, <2>2, ChannelAlways, TypeCorrect, PTL DEF Spec
<1> QED  BY <1>1, <1>2

-----------------------------------------------------------------------------
(* The control term.  As long as no replay began with an older command in   *)
(* the queue, whatever it puts in force is the latest one.                   *)

ControlInv ==
  /\ ~staleReplay => control = latestControl
  /\ phase # "integrate" => restoredCount = 0
  /\ UseControl /\ restoredCount > 0 /\ ~staleReplay =>
       \A m \in queue : m.control = latestControl

LEMMA ControlStep ==
  ASSUME TypeOK, ControlInv, [Next]_vars
  PROVE  ControlInv'
<1>1. CASE \E parts \in SUBSET Channels : Receive(parts)
  <2>1. /\ phase = "spin"
        /\ UNCHANGED <<phase, restoredCount, staleReplay, control, latestControl>>
    BY <1>1 DEF Receive, cycleVars, filterVars
  <2> QED  BY <2>1 DEF ControlInv
<1>2. CASE ControlCallback
  <2>1. /\ phase = "spin" /\ UNCHANGED <<phase, restoredCount>>
        /\ control' = latestControl'
    BY <1>2 DEF ControlCallback
  <2> QED  BY <2>1 DEF ControlInv
<1>3. CASE \/ SetPoseCallback \/ EnableFilterSrvCallback
           \/ ToggleFilterProcessingCallback \/ Tick \/ UNCHANGED vars
  <2>1. /\ UNCHANGED <<control, latestControl, restoredCount, staleReplay, phase>>
        /\ queue' = queue \/ queue' = {}
    BY <1>3 DEF SetPoseCallback, SetState, EnableFilterSrvCallback,
       ToggleFilterProcessingCallback, Tick, vars, inputVars, cycleVars, filterVars
  <2> QED  BY <2>1 DEF ControlInv
<1>4. CASE BeginReplay
  <2>1. PICK first \in queue : RevertTo(first.time - 1)
    BY <1>4 DEF BeginReplay
  <2>2. control' = control
    BY <2>1 DEF RevertTo, filterVars
  <2>3. /\ latestControl' = latestControl /\ phase' = "integrate"
        /\ staleReplay' =
             \/ staleReplay
             \/ /\ UseControl /\ restoredCount' > 0
                /\ \E m \in queue' : m.control # latestControl
    BY <1>4 DEF BeginReplay, OpenCycle, inputVars
  <2> QED  BY <2>2, <2>3 DEF ControlInv
<1>5. CASE IntegrateMeasurement
  <2>1. PICK m \in queue : queue' = queue \ {m} /\ RestoreControl(m)
    BY <1>5 DEF IntegrateMeasurement, QueueAfterPop
  <2>2. /\ UNCHANGED <<latestControl, staleReplay, phase>> /\ phase = "integrate"
    BY <1>5 DEF IntegrateMeasurement, inputVars
  <2>3. restoredCount \in Int
    BY DEF TypeOK
  <2> QED  BY <2>1, <2>2, <2>3 DEF RestoreControl, ControlInv
<1>6. CASE DiscardMeasurements \/ IntegrateNothing \/ BeginIntegration
           \/ EndIntegration \/ CloseCycle
  <2>1. /\ UNCHANGED <<control, latestControl, staleReplay>>
        /\ restoredCount' = 0 \/ (restoredCount' = restoredCount /\ phase # "integrate")
    BY <1>6 DEF DiscardMeasurements, IntegrateNothing, BeginIntegration,
       EndIntegration, CloseCycle, OpenCycle, PredictTo, inputVars, filterVars
  <2> QED  BY <2>1 DEF ControlInv
<1> QED
  BY <1>1, <1>2, <1>3, <1>4, <1>5, <1>6, SensorCallbacksReceive
  DEF Next, Callback, TimerStep

(* A measurement that arrived under an earlier command never puts that command
   back in force, unless a replay that restores something begins with such a
   measurement in the queue: in every configuration, with and without lag
   smoothing (setControl in integrateMeasurements). *)
THEOREM PredictsWithLatestControl == Spec => []ControlIsLatest
<1>1. Init => ControlInv
  BY DEF Init, FilterInit, ControlInv
<1>2. TypeOK /\ ControlInv /\ [Next]_vars => ControlInv'
  BY ControlStep
<1>3. ControlInv => ControlIsLatest
  BY DEF ControlInv, ControlIsLatest
<1> QED  BY <1>1, <1>2, <1>3, TypeCorrect, PTL DEF Spec

-----------------------------------------------------------------------------
(* Sequences in the order of their stamps, and what is cut off them.       *)

LEMMA PrefixItems ==
  ASSUME NEW S, NEW s \in Seq(S), NEW n \in 0..Len(s)
  PROVE  /\ SubSeq(s, 1, n) \in Seq(S)
         /\ DOMAIN SubSeq(s, 1, n) = 1..n /\ Len(SubSeq(s, 1, n)) = n
         /\ \A i \in 1..n : i \in DOMAIN s /\ SubSeq(s, 1, n)[i] = s[i]
<1>1. 1 \in 1..Len(s) + 1
  OBVIOUS
<1>2. SubSeq(s, 1, n) \in Seq(S)
  BY <1>1, PieceOfSequence
<1>3. /\ DOMAIN SubSeq(s, 1, n) = 1..n /\ Len(SubSeq(s, 1, n)) = n
      /\ \A i \in 1..n : i \in DOMAIN s /\ SubSeq(s, 1, n)[i] = s[i]
  BY SubSeqProperties
<1> QED  BY <1>2, <1>3

LEMMA SuffixItems ==
  ASSUME NEW S, NEW s \in Seq(S), NEW n \in 0..Len(s)
  PROVE  LET rest == SubSeq(s, n + 1, Len(s))
         IN  /\ rest \in Seq(S)
             /\ DOMAIN rest = 1..(Len(s) - n) /\ Len(rest) = Len(s) - n
             /\ \A i \in 1..(Len(s) - n) : n + i \in DOMAIN s /\ rest[i] = s[n + i]
<1>1. SubSeq(s, n + 1, Len(s)) \in Seq(S)
  BY RestOfSequence
<1>2. Len(SubSeq(s, n + 1, Len(s))) = Len(s) - n
  BY SubSeqProperties
<1>3. \A i \in 1..(Len(s) - n) :
        n + i \in DOMAIN s /\ SubSeq(s, n + 1, Len(s))[i] = s[n + i]
  BY SubSeqProperties
<1> QED  BY <1>1, <1>2, <1>3

LEMMA NoElements ==
  ASSUME NEW S, NEW s \in Seq(S), Range(s) = {}
  PROVE  s = <<>>
<1>1. SUFFICES ASSUME s # <<>>
               PROVE  FALSE
  OBVIOUS
<1>2. 1 \in DOMAIN s
  BY <1>1
<1> QED  BY <1>2 DEF Range

LEMMA PrefixInOrder ==
  ASSUME NEW S, NEW s \in Seq(S), NEW n \in 0..Len(s), InOrder(s)
  PROVE  InOrder(SubSeq(s, 1, n))
<1> DEFINE piece == SubSeq(s, 1, n)
<1>1. /\ DOMAIN piece = 1..n
      /\ \A i \in 1..n : i \in DOMAIN s /\ piece[i] = s[i]
  BY PrefixItems
<1> HIDE DEF piece
<1>2. InOrder(piece)
  BY <1>1 DEF InOrder
<1> QED  BY <1>2 DEF piece

LEMMA SuffixInOrder ==
  ASSUME NEW S, NEW s \in Seq(S), NEW n \in 0..Len(s), InOrder(s)
  PROVE  InOrder(SubSeq(s, n + 1, Len(s)))
<1> DEFINE rest == SubSeq(s, n + 1, Len(s))
<1>1. /\ DOMAIN rest = 1..(Len(s) - n)
      /\ \A i \in 1..(Len(s) - n) : n + i \in DOMAIN s /\ rest[i] = s[n + i]
  BY SuffixItems
<1> HIDE DEF rest
<1>2. ASSUME NEW i \in DOMAIN rest, NEW j \in DOMAIN rest, i < j
      PROVE  rest[i].time <= rest[j].time
  <2>1. n + i < n + j /\ n + i \in DOMAIN s /\ n + j \in DOMAIN s
    BY <1>1, <1>2
  <2> QED  BY <1>1, <2>1 DEF InOrder
<1> QED  BY <1>2 DEF InOrder, rest

LEMMA AppendInOrder ==
  ASSUME NEW S, NEW s \in Seq(S), NEW x \in S, InOrder(s),
         \A e \in Range(s) : e.time <= x.time
  PROVE  InOrder(Append(s, x))
<1>1. /\ DOMAIN Append(s, x) = 1..Len(s) + 1 /\ DOMAIN s = 1..Len(s) /\ Len(s) \in Nat
      /\ \A k \in 1..Len(s) : Append(s, x)[k] = s[k]
      /\ Append(s, x)[Len(s) + 1] = x
  <2>1. DOMAIN Append(s, x) = 1..Len(s) + 1 /\ Append(s, x)[Len(s) + 1] = x
    OBVIOUS
  <2>2. DOMAIN s = 1..Len(s) /\ Len(s) \in Nat
    OBVIOUS
  <2>3. \A k \in 1..Len(s) : Append(s, x)[k] = s[k]
    OBVIOUS
  <2> QED  BY <2>1, <2>2, <2>3
<1>2. \A k \in 1..Len(s) : s[k].time <= x.time
  BY <1>1 DEF Range
<1>3. ASSUME NEW i \in 1..Len(s) + 1, NEW j \in 1..Len(s) + 1, i < j
      PROVE  Append(s, x)[i].time <= Append(s, x)[j].time
  <2>1. i \in 1..Len(s)
    BY <1>1, <1>3
  <2>2. CASE j \in 1..Len(s)
    BY <1>1, <1>3, <2>1, <2>2 DEF InOrder
  <2>3. CASE j = Len(s) + 1
    BY <1>1, <1>2, <2>1, <2>3
  <2> QED  BY <1>1, <2>2, <2>3
<1> QED  BY <1>1, <1>3 DEF InOrder

(* Popping from the back what is later than t, or from the front what is
   before t, sorts the elements by their stamps. *)
LEMMA CutAtBack ==
  ASSUME NEW S, NEW s \in Seq(S), \A x \in S : x.time \in Int, InOrder(s),
         NEW t \in Int, NEW n \in 0..Len(s), KeptByPopBack(s, t, n)
  PROVE  /\ Range(SubSeq(s, 1, n)) = {x \in Range(s) : x.time <= t}
         /\ Range(SubSeq(s, n + 1, Len(s))) = {x \in Range(s) : t < x.time}
<1>1. /\ DOMAIN s = 1..Len(s) /\ Len(s) \in Nat
      /\ \A i \in DOMAIN s : s[i].time \in Int
  OBVIOUS
<1>2. ASSUME NEW i \in 1..n
      PROVE  s[i].time <= t
  <2>1. n \in DOMAIN s /\ i \in DOMAIN s /\ s[n].time <= t
    BY <1>1 DEF KeptByPopBack
  <2>2. i = n \/ s[i].time <= s[n].time
    BY <1>1, <2>1 DEF InOrder
  <2> QED  BY <1>1, <2>1, <2>2
<1>3. \A i \in (n + 1)..Len(s) : t < s[i].time
  BY DEF KeptByPopBack
<1>4. \A i \in DOMAIN s : i \in 1..n \/ i \in (n + 1)..Len(s)
  BY <1>1
<1>5. Range(SubSeq(s, 1, n)) = {s[i] : i \in 1..n}
  <2> DEFINE piece == SubSeq(s, 1, n)
  <2>1. DOMAIN piece = 1..n /\ \A i \in 1..n : piece[i] = s[i]
    BY PrefixItems
  <2> HIDE DEF piece
  <2>2. Range(piece) = {s[i] : i \in 1..n}
    BY <2>1 DEF Range
  <2> QED  BY <2>2 DEF piece
<1>6. Range(SubSeq(s, n + 1, Len(s))) = {s[i] : i \in (n + 1)..Len(s)}
  <2> DEFINE rest == SubSeq(s, n + 1, Len(s))
  <2>1. /\ DOMAIN rest = 1..(Len(s) - n)
        /\ \A i \in 1..(Len(s) - n) : rest[i] = s[n + i]
    BY SuffixItems
  <2>2. \A i \in (n + 1)..Len(s) : i - n \in 1..(Len(s) - n) /\ n + (i - n) = i
    BY <1>1
  <2>3. \A i \in 1..(Len(s) - n) : n + i \in (n + 1)..Len(s)
    BY <1>1
  <2> HIDE DEF rest
  <2>4. Range(rest) \subseteq {s[i] : i \in (n + 1)..Len(s)}
    BY <2>1, <2>3 DEF Range
  <2>5. ASSUME NEW i \in (n + 1)..Len(s)
        PROVE  s[i] \in Range(rest)
    <3>1. i - n \in DOMAIN rest /\ rest[i - n] = s[i]
      BY <2>1, <2>2
    <3> QED  BY <3>1 DEF Range
  <2> QED  BY <2>4, <2>5 DEF rest
<1>7. Range(s) = {s[i] : i \in DOMAIN s}
  BY DEF Range
<1>8. \A i \in DOMAIN s : (i \in 1..n <=> s[i].time <= t)
                          /\ (i \in (n + 1)..Len(s) <=> t < s[i].time)
  BY <1>1, <1>2, <1>3, <1>4
<1>9. \A i \in 1..n : i \in DOMAIN s
  BY <1>1
<1>10. \A i \in (n + 1)..Len(s) : i \in DOMAIN s
  BY <1>1
<1>11. {s[i] : i \in 1..n} = {x \in Range(s) : x.time <= t}
  BY <1>7, <1>8, <1>9
<1>12. {s[i] : i \in (n + 1)..Len(s)} = {x \in Range(s) : t < x.time}
  BY <1>7, <1>8, <1>10
<1> QED  BY <1>5, <1>6, <1>11, <1>12

LEMMA CutAtFront ==
  ASSUME NEW S, NEW s \in Seq(S), \A x \in S : x.time \in Int, InOrder(s),
         NEW t \in Int, NEW n \in 0..Len(s), DroppedByPopFront(s, t, n)
  PROVE  Range(SubSeq(s, n + 1, Len(s))) = {x \in Range(s) : t <= x.time}
<1> DEFINE rest == SubSeq(s, n + 1, Len(s))
<1>1. /\ DOMAIN s = 1..Len(s) /\ Len(s) \in Nat
      /\ \A i \in DOMAIN s : s[i].time \in Int
  OBVIOUS
<1>2. ASSUME NEW i \in (n + 1)..Len(s)
      PROVE  t <= s[i].time
  <2>1. n + 1 \in DOMAIN s /\ i \in DOMAIN s /\ t <= s[n + 1].time
    BY <1>1 DEF DroppedByPopFront
  <2>2. i = n + 1 \/ s[n + 1].time <= s[i].time
    BY <1>1, <2>1 DEF InOrder
  <2> QED  BY <1>1, <2>1, <2>2
<1>3. \A i \in 1..n : s[i].time < t
  BY DEF DroppedByPopFront
<1>4. /\ DOMAIN rest = 1..(Len(s) - n)
      /\ \A i \in 1..(Len(s) - n) : n + i \in DOMAIN s /\ rest[i] = s[n + i]
  BY SuffixItems
<1> HIDE DEF rest
<1>5. ASSUME NEW x \in Range(rest)
      PROVE  x \in Range(s) /\ t <= x.time
  <2>1. PICK i \in 1..(Len(s) - n) : x = s[n + i] /\ n + i \in DOMAIN s
    BY <1>4, <1>5 DEF Range
  <2>2. n + i \in (n + 1)..Len(s)
    BY <1>1, <2>1
  <2> QED  BY <1>2, <2>1, <2>2 DEF Range
<1>6. ASSUME NEW x \in Range(s), t <= x.time
      PROVE  x \in Range(rest)
  <2>1. PICK i \in DOMAIN s : x = s[i]
    BY <1>6 DEF Range
  <2>2. i \notin 1..n
    BY <1>1, <1>3, <1>6, <2>1
  <2>3. i - n \in DOMAIN rest /\ rest[i - n] = s[n + (i - n)] /\ n + (i - n) = i
    BY <1>1, <1>4, <2>2
  <2> QED  BY <2>1, <2>3 DEF Range
<1> QED  BY <1>5, <1>6 DEF rest

-----------------------------------------------------------------------------
(* The inductive invariant.  HistoryIsReplayable says what has to hold      *)
(* between two cycles; in the middle of one, the measurements of one stamp  *)
(* may have been folded in without a state saved yet.                       *)

(* More measurements of the filter's own time are to come in this cycle. *)
Pending ==
  /\ phase = "integrate"
  /\ \E next \in queue : IsTop(next, queue) /\ next.time = lastMeasurementTime

NothingYet ==
  ~initialized =>
    estimate = <<>> /\ measurementHistory = <<>> /\ stateHistory = <<>>

FusedInOrder ==
  /\ InOrder(estimate) /\ IsInjective(estimate)
  /\ \A e \in Fused : e \notin queue /\ e.time <= lastMeasurementTime

HistoryInOrder ==
  /\ InOrder(measurementHistory)
  /\ Range(measurementHistory) \subseteq Fused

StatesInOrder ==
  /\ InOrder(stateHistory)
  /\ stateHistory # <<>> => Fused # {}
  /\ \A s \in Range(stateHistory) :
       /\ s.time <= lastMeasurementTime
       /\ Range(s.estimate) # {}
       /\ InOrder(s.estimate) /\ IsInjective(s.estimate)
       /\ \A e \in Range(s.estimate) : e.time <= s.time

Replayable(s) ==
  /\ Range(s.estimate) \subseteq Fused
  /\ Fused \ Range(s.estimate) = {m \in Range(measurementHistory) : s.time < m.time}

PointsReplayable ==
  \A s \in RevertPoints :
    Replayable(s) \/ (s.time = lastMeasurementTime /\ Pending)

(* A measurement that would be lost by going back to just before the next one
   has a state of its own stamp to go back to. *)
TimesHaveStates ==
  \A m \in Range(measurementHistory), s \in Range(stateHistory) :
    s.time < m.time =>
      \/ \E saved \in Range(stateHistory) : saved.time = m.time
      \/ m.time = lastMeasurementTime /\ Pending

(* What a cycle folds in is not older than the filter, except at the start,
   when the filter's time is that of a set_pose or of the clock. *)
QueueComesNext ==
  phase = "integrate" /\ initialized =>
    \/ \A m \in queue : IsTop(m, queue) => lastMeasurementTime <= m.time
    \/ /\ \A s \in Range(stateHistory) : s.time = lastMeasurementTime
       /\ \A m \in queue, e \in Fused : e.time <= m.time

ReplayInv ==
  ~fellBack =>
    /\ NothingYet /\ FusedInOrder /\ HistoryInOrder /\ StatesInOrder
    /\ PointsReplayable /\ TimesHaveStates /\ QueueComesNext

LEMMA HeldAreTyped ==
  ASSUME TypeOK
  PROVE  /\ estimate \in Seq(Measurement) /\ measurementHistory \in Seq(Measurement)
         /\ stateHistory \in Seq(FilterState)
         /\ \A m \in Measurement : m.time \in Nat
         /\ \A s \in FilterState : s.time \in Nat /\ s.estimate \in Seq(Measurement)
         /\ \A m \in queue \cup Fused \cup Range(measurementHistory) :
              m \in Measurement /\ m.time \in Nat
         /\ \A s \in Range(stateHistory) :
              /\ s \in FilterState /\ s.time \in Nat
              /\ \A e \in Range(s.estimate) : e \in Measurement /\ e.time \in Nat
<1>1. /\ estimate \in Seq(Measurement) /\ measurementHistory \in Seq(Measurement)
      /\ stateHistory \in Seq(FilterState) /\ queue \subseteq Measurement
  BY DEF TypeOK
<1>2. \A m \in Measurement : m.time \in Nat
  BY Bounds DEF Measurement
<1>3. \A s \in FilterState : s.time \in Nat /\ s.estimate \in Seq(Measurement)
  BY Bounds DEF FilterState
<1>4. /\ Fused \subseteq Measurement /\ Range(measurementHistory) \subseteq Measurement
      /\ Range(stateHistory) \subseteq FilterState
  BY <1>1, ElementsOfSequence DEF Fused
<1>5. \A s \in Range(stateHistory) : Range(s.estimate) \subseteq Measurement
  BY <1>3, <1>4, ElementsOfSequence
<1> QED  BY <1>1, <1>2, <1>3, <1>4, <1>5

(* The states that revertTo can choose, after one was appended, and after a
   piece was cut off either end. *)
LEMMA PointsAreStates ==
  ASSUME TypeOK
  PROVE  RevertPoints \subseteq Range(stateHistory)
<1>1. DOMAIN stateHistory = 1..Len(stateHistory)
  BY HeldAreTyped
<1> QED  BY <1>1 DEF RevertPoints, Range

LEMMA PointsAfterAppend ==
  ASSUME TypeOK, NEW saved \in FilterState,
         stateHistory' = Append(stateHistory, saved)
  PROVE  \A s \in RevertPoints' :
           \/ s = saved
           \/ s \in RevertPoints /\ \E later \in Range(stateHistory') : s.time < later.time
<1> DEFINE old == stateHistory
           new == Append(old, saved)
<1>1. /\ DOMAIN old = 1..Len(old) /\ Len(old) \in Nat
      /\ DOMAIN new = 1..Len(old) + 1 /\ Len(new) = Len(old) + 1
      /\ new[Len(old) + 1] = saved
  BY HeldAreTyped
<1>2. \A i \in 1..Len(old) : new[i] = old[i]
  BY HeldAreTyped
<1>3. stateHistory' = new /\ stateHistory = old
  OBVIOUS
<1> HIDE DEF new, old
<1>4. SUFFICES ASSUME NEW n \in 1..Len(old) + 1,
                      n < Len(old) + 1 => new[n].time < new[n + 1].time
               PROVE  \/ new[n] = saved
                      \/ /\ new[n] \in RevertPoints
                         /\ \E later \in Range(new) : new[n].time < later.time
  BY <1>1, <1>3 DEF RevertPoints
<1>5. CASE n = Len(old) + 1
  BY <1>1, <1>5
<1>6. CASE n # Len(old) + 1
  <2>1. n \in 1..Len(old) /\ n + 1 \in DOMAIN new /\ new[n].time < new[n + 1].time
    BY <1>1, <1>4, <1>6
  <2>2. n < Len(old) => old[n].time < old[n + 1].time
    BY <1>1, <1>2, <2>1
  <2>3. old[n] \in RevertPoints
    BY <1>3, <2>1, <2>2 DEF RevertPoints
  <2>4. new[n + 1] \in Range(new)
    BY <2>1 DEF Range
  <2> QED  BY <1>2, <2>1, <2>3, <2>4
<1> QED  BY <1>5, <1>6

LEMMA PointsOfPrefix ==
  ASSUME TypeOK, NEW n \in 1..Len(stateHistory),
         n < Len(stateHistory) => stateHistory[n].time < stateHistory[n + 1].time,
         stateHistory' = SubSeq(stateHistory, 1, n)
  PROVE  RevertPoints' \subseteq RevertPoints
<1> DEFINE old == stateHistory
           new == SubSeq(old, 1, n)
<1>1. Len(old) \in Nat /\ Len(new) = n /\ \A i \in 1..n : new[i] = old[i]
  BY HeldAreTyped, PrefixItems
<1>2. stateHistory' = new /\ stateHistory = old
  OBVIOUS
<1>3. n < Len(old) => old[n].time < old[n + 1].time
  OBVIOUS
<1> HIDE DEF new, old
<1>4. ASSUME NEW i \in 1..n, i < n => new[i].time < new[i + 1].time
      PROVE  i \in 1..Len(old) /\ (i < Len(old) => old[i].time < old[i + 1].time)
  BY <1>1, <1>2, <1>3, <1>4
<1>5. \A i \in 1..n : (i < n => new[i].time < new[i + 1].time) =>
                         new[i] \in RevertPoints
  BY <1>1, <1>2, <1>4 DEF RevertPoints
<1> QED  BY <1>1, <1>2, <1>5 DEF RevertPoints

LEMMA PointsOfSuffix ==
  ASSUME TypeOK, NEW n \in 0..Len(stateHistory),
         stateHistory' = SubSeq(stateHistory, n + 1, Len(stateHistory))
  PROVE  RevertPoints' \subseteq RevertPoints
<1> DEFINE old == stateHistory
           new == SubSeq(old, n + 1, Len(old))
<1>1. /\ Len(old) \in Nat /\ Len(new) = Len(old) - n
      /\ \A i \in 1..(Len(old) - n) : new[i] = old[n + i]
  BY HeldAreTyped, SuffixItems
<1>2. stateHistory' = new /\ stateHistory = old
  OBVIOUS
<1> HIDE DEF new, old
<1>3. ASSUME NEW i \in 1..Len(new), i < Len(new) => new[i].time < new[i + 1].time
      PROVE  /\ n + i \in 1..Len(old) /\ new[i] = old[n + i]
             /\ n + i < Len(old) => old[n + i].time < old[n + i + 1].time
  <2>1. n + i \in 1..Len(old) /\ new[i] = old[n + i]
    BY <1>1, <1>2
  <2>2. ASSUME n + i < Len(old)
        PROVE  old[n + i].time < old[n + i + 1].time
    <3>1. i < Len(new) /\ i + 1 \in 1..(Len(old) - n) /\ n + (i + 1) = n + i + 1
      BY <1>1, <1>2, <2>2
    <3> QED  BY <1>1, <1>3, <2>1, <3>1
  <2> QED  BY <2>1, <2>2
<1>4. \A i \in 1..Len(new) : (i < Len(new) => new[i].time < new[i + 1].time) =>
                               new[i] \in RevertPoints
  BY <1>2, <1>3 DEF RevertPoints
<1> QED  BY <1>2, <1>4 DEF RevertPoints

-----------------------------------------------------------------------------
(* Folding in one measurement.                                              *)

LEMMA IntegratingFolds ==
  ASSUME SmoothLaggedData, TypeOK, IntegrateMeasurement
  PROVE  \E m \in queue :
           /\ IsTop(m, queue)
           /\ phase = "integrate" /\ phase' = "integrate"
           /\ initialized' /\ fellBack' = fellBack
           /\ queue' = queue \ {m}
           /\ estimate' = Append(estimate, m) /\ Fused' = Fused \cup {m}
           /\ measurementHistory' = Append(measurementHistory, m)
           /\ Range(measurementHistory') = Range(measurementHistory) \cup {m}
           /\ lastMeasurementTime' =
                IF initialized /\ m.time < lastMeasurementTime
                THEN lastMeasurementTime ELSE m.time
           /\ \/ stateHistory' = stateHistory /\ Pending'
              \/ \E saved \in FilterState :
                   /\ stateHistory' = Append(stateHistory, saved)
                   /\ Range(stateHistory') = Range(stateHistory) \cup {saved}
                   /\ saved.time = lastMeasurementTime'
                   /\ saved.estimate = estimate'
<1>1. PICK m \in queue :
        /\ IsTop(m, queue)
        /\ queue' = queue \ {m}
        /\ ProcessMeasurement(m)
        /\ RememberMeasurement(m)
  BY DEF IntegrateMeasurement, QueueAfterPop
<1>2. phase = "integrate" /\ phase' = "integrate" /\ fellBack' = fellBack
  BY <1>1 DEF IntegrateMeasurement, RememberMeasurement
<1>3. /\ initialized' /\ estimate' = Append(estimate, m)
      /\ lastMeasurementTime' =
           IF initialized /\ m.time < lastMeasurementTime
           THEN lastMeasurementTime ELSE m.time
      /\ measurementHistory' = Append(measurementHistory, m)
  BY <1>1 DEF ProcessMeasurement, RememberMeasurement
<1>4. /\ Fused' = Fused \cup {m}
      /\ Range(measurementHistory') = Range(measurementHistory) \cup {m}
  <2>1. /\ m \in Measurement
        /\ estimate \in Seq(Measurement) /\ measurementHistory \in Seq(Measurement)
    BY HeldAreTyped
  <2> QED  BY <1>3, <2>1, ElementsOfAppend DEF Fused
<1>5. CASE \E next \in queue' :
             IsTop(next, queue') /\ next.time = lastMeasurementTime'
  <2>1. stateHistory' = stateHistory
    BY <1>1, <1>5 DEF RememberMeasurement
  <2>2. Pending'
    BY <1>2, <1>5 DEF Pending
  <2> QED  BY <1>1, <1>2, <1>3, <1>4, <2>1, <2>2
<1>6. CASE ~\E next \in queue' :
             IsTop(next, queue') /\ next.time = lastMeasurementTime'
  <2>1. stateHistory' = Append(stateHistory, SavedState)
    BY <1>1, <1>6 DEF RememberMeasurement
  <2>2. SavedState \in FilterState
    <3>1. /\ lastMeasurementTime' \in Times /\ control' \in 0..MaxControls
          /\ estimate' \in Seq(Measurement)
      BY IntegrateMeasurementIsTyped DEF TypeOK, Measurement
    <3> QED  BY <3>1 DEF SavedState, FilterState
  <2>3. SavedState.time = lastMeasurementTime' /\ SavedState.estimate = estimate'
    BY DEF SavedState
  <2> HIDE DEF SavedState
  <2>4. Range(stateHistory') = Range(stateHistory) \cup {SavedState}
    BY <2>1, <2>2, HeldAreTyped, ElementsOfAppend
  <2> QED  BY <1>1, <1>2, <1>3, <1>4, <2>1, <2>2, <2>3, <2>4
<1> QED  BY <1>5, <1>6

(* The filter's time moves to the measurement's, or it is before any time
   that a state was saved at. *)
LEMMA IntegratingInOrder ==
  ASSUME TypeOK, phase = "integrate", FusedInOrder, StatesInOrder, NothingYet,
         QueueComesNext,
         NEW m \in queue, IsTop(m, queue),
         lastMeasurementTime' = IF initialized /\ m.time < lastMeasurementTime
                                THEN lastMeasurementTime ELSE m.time
  PROVE  /\ m \notin Fused
         /\ m.time <= lastMeasurementTime'
         /\ \A e \in Fused : e.time <= m.time
         /\ \A s \in Range(stateHistory) : s.time <= lastMeasurementTime'
         /\ \/ /\ lastMeasurementTime' = m.time
               /\ \A e \in Fused : e.time = m.time => lastMeasurementTime = m.time
            \/ /\ lastMeasurementTime' = lastMeasurementTime
               /\ \A s \in Range(stateHistory) : s.time = lastMeasurementTime'
<1>1. /\ m.time \in Nat /\ lastMeasurementTime \in Nat
      /\ \A e \in Fused : e.time \in Nat
      /\ \A s \in Range(stateHistory) : s.time \in Nat
  BY HeldAreTyped, TimesAreNat
<1>2. m \notin Fused /\ \A e \in Fused : e.time <= lastMeasurementTime
  BY DEF FusedInOrder
<1>3. CASE ~initialized
  <2>1. Fused = {} /\ Range(stateHistory) = {}
    BY <1>3 DEF NothingYet, Fused, Range
  <2> QED  BY <1>1, <1>3, <2>1
<1>4. CASE initialized /\ lastMeasurementTime <= m.time
  <2>1. \A s \in Range(stateHistory) : s.time <= lastMeasurementTime
    BY DEF StatesInOrder
  <2>2. lastMeasurementTime' = m.time
    BY <1>1, <1>4
  <2>3. \A e \in Fused : e.time <= m.time /\ (e.time = m.time => lastMeasurementTime = m.time)
    BY <1>1, <1>2, <1>4
  <2>4. \A s \in Range(stateHistory) : s.time <= m.time
    BY <1>1, <1>4, <2>1
  <2> QED  BY <1>1, <1>2, <2>2, <2>3, <2>4
<1>5. CASE initialized /\ ~(lastMeasurementTime <= m.time)
  <2>1. /\ \A s \in Range(stateHistory) : s.time = lastMeasurementTime
        /\ \A e \in Fused : e.time <= m.time
    BY <1>5 DEF QueueComesNext
  <2>2. lastMeasurementTime' = lastMeasurementTime /\ m.time <= lastMeasurementTime
    BY <1>1, <1>5
  <2>3. \A s \in Range(stateHistory) : s.time <= lastMeasurementTime'
    BY <1>1, <2>1, <2>2
  <2> QED  BY <1>2, <2>1, <2>2, <2>3
<1> QED  BY <1>3, <1>4, <1>5

LEMMA IntegrateKeepsReplay ==
  ASSUME SmoothLaggedData, TypeOK, ReplayInv, IntegrateMeasurement
  PROVE  ReplayInv'
<1> SUFFICES ASSUME ~fellBack'
             PROVE  /\ NothingYet' /\ FusedInOrder' /\ HistoryInOrder' /\ StatesInOrder'
                    /\ PointsReplayable' /\ TimesHaveStates' /\ QueueComesNext'
  BY DEF ReplayInv
<1>1. PICK m \in queue :
        /\ IsTop(m, queue)
        /\ phase = "integrate" /\ phase' = "integrate"
        /\ initialized' /\ fellBack' = fellBack
        /\ queue' = queue \ {m}
        /\ estimate' = Append(estimate, m) /\ Fused' = Fused \cup {m}
        /\ measurementHistory' = Append(measurementHistory, m)
        /\ Range(measurementHistory') = Range(measurementHistory) \cup {m}
        /\ lastMeasurementTime' =
             IF initialized /\ m.time < lastMeasurementTime
             THEN lastMeasurementTime ELSE m.time
        /\ \/ stateHistory' = stateHistory /\ Pending'
           \/ \E saved \in FilterState :
                /\ stateHistory' = Append(stateHistory, saved)
                /\ Range(stateHistory') = Range(stateHistory) \cup {saved}
                /\ saved.time = lastMeasurementTime'
                /\ saved.estimate = estimate'
  BY IntegratingFolds
<1>2. /\ NothingYet /\ FusedInOrder /\ HistoryInOrder /\ StatesInOrder
      /\ PointsReplayable /\ TimesHaveStates /\ QueueComesNext
  BY <1>1 DEF ReplayInv
<1>3. /\ m \notin Fused
      /\ m.time <= lastMeasurementTime'
      /\ \A e \in Fused : e.time <= m.time
      /\ \A s \in Range(stateHistory) : s.time <= lastMeasurementTime'
      /\ \/ /\ lastMeasurementTime' = m.time
            /\ \A e \in Fused : e.time = m.time => lastMeasurementTime = m.time
         \/ /\ lastMeasurementTime' = lastMeasurementTime
            /\ \A s \in Range(stateHistory) : s.time = lastMeasurementTime'
  BY <1>1, <1>2, IntegratingInOrder
<1>4. /\ m \in Measurement /\ m.time \in Nat
      /\ lastMeasurementTime \in Nat /\ lastMeasurementTime' \in Nat
      /\ \A e \in Fused : e.time \in Nat
      /\ \A s \in Range(stateHistory) : s.time \in Nat
  <2>1. lastMeasurementTime' \in Nat
    BY IntegrateMeasurementIsTyped, TimesAreNat, Bounds DEF TypeOK
  <2> QED  BY <2>1, HeldAreTyped, TimesAreNat
<1>5. NothingYet'
  BY <1>1 DEF NothingYet
<1>6. FusedInOrder'
  <2>1. InOrder(estimate') /\ IsInjective(estimate')
    <3>1. InOrder(estimate) /\ IsInjective(estimate) /\ estimate \in Seq(Measurement)
      BY <1>2, HeldAreTyped DEF FusedInOrder
    <3> QED  BY <1>1, <1>3, <1>4, <3>1, AppendInOrder, AppendKeepsInjective DEF Fused
  <2>2. ASSUME NEW e \in Fused'
        PROVE  e \notin queue' /\ e.time <= lastMeasurementTime'
    <3>1. CASE e = m
      BY <1>1, <1>3, <3>1
    <3>2. CASE e \in Fused
      <4>1. e \notin queue
        BY <1>2, <3>2 DEF FusedInOrder
      <4>2. e.time <= m.time /\ e.time \in Nat
        BY <1>3, <1>4, <3>2
      <4>3. e.time <= lastMeasurementTime'
        BY <1>3, <1>4, <4>2
      <4> QED  BY <1>1, <4>1, <4>3
    <3> QED  BY <1>1, <3>1, <3>2
  <2> QED  BY <2>1, <2>2 DEF FusedInOrder
<1>7. HistoryInOrder'
  <2>1. /\ InOrder(measurementHistory) /\ Range(measurementHistory) \subseteq Fused
        /\ measurementHistory \in Seq(Measurement)
    BY <1>2, HeldAreTyped DEF HistoryInOrder
  <2>2. \A e \in Range(measurementHistory) : e.time <= m.time
    BY <1>3, <2>1
  <2>3. InOrder(measurementHistory')
    BY <1>1, <1>4, <2>1, <2>2, AppendInOrder
  <2>4. Range(measurementHistory') \subseteq Fused'
    BY <1>1, <2>1
  <2> QED  BY <2>3, <2>4 DEF HistoryInOrder
<1>8. StatesInOrder'
  <2>1. Fused' # {}
    BY <1>1
  <2>2. InOrder(stateHistory')
    <3>1. InOrder(stateHistory) /\ stateHistory \in Seq(FilterState)
      BY <1>2, HeldAreTyped DEF StatesInOrder
    <3>2. ASSUME NEW saved \in FilterState, saved.time = lastMeasurementTime'
          PROVE  InOrder(Append(stateHistory, saved))
      BY <1>3, <3>1, <3>2, AppendInOrder
    <3>3. CASE stateHistory' = stateHistory
      BY <3>1, <3>3
    <3>4. CASE \E saved \in FilterState :
                 /\ stateHistory' = Append(stateHistory, saved)
                 /\ saved.time = lastMeasurementTime'
      BY <3>2, <3>4
    <3> QED  BY <1>1, <3>3, <3>4
  <2>3. ASSUME NEW s \in Range(stateHistory')
        PROVE  /\ s.time <= lastMeasurementTime'
               /\ Range(s.estimate) # {}
               /\ InOrder(s.estimate) /\ IsInjective(s.estimate)
               /\ \A e \in Range(s.estimate) : e.time <= s.time
    <3>1. CASE s \in Range(stateHistory)
      BY <1>2, <1>3, <3>1 DEF StatesInOrder
    <3>2. CASE s.time = lastMeasurementTime' /\ s.estimate = estimate'
      <4>1. Range(s.estimate) = Fused'
        BY <3>2 DEF Fused
      <4> QED  BY <1>4, <1>6, <2>1, <3>2, <4>1 DEF FusedInOrder
    <3> QED  BY <1>1, <3>1, <3>2
  <2> QED  BY <2>1, <2>2, <2>3 DEF StatesInOrder
<1>9. PointsReplayable'
  <2>1. ASSUME NEW s \in RevertPoints, s.time < lastMeasurementTime',
               s \in Range(stateHistory)
        PROVE  Replayable(s)'
    <3>1. lastMeasurementTime' = m.time /\ s.time < m.time
      BY <1>3, <1>4, <2>1
    <3>2. ~(s.time = lastMeasurementTime /\ Pending)
      <4>1. Pending => \E q \in queue : IsTop(q, queue) /\ q.time = lastMeasurementTime
        BY DEF Pending
      <4>2. \A q \in queue : IsTop(q, queue) => q.time = m.time
        BY <1>1, TimesAreNat DEF IsTop
      <4> QED  BY <3>1, <4>1, <4>2, <1>4
    <3>3. Replayable(s)
      BY <1>2, <3>2 DEF PointsReplayable
    <3>4. Range(s.estimate) \subseteq Fused' /\ m \notin Range(s.estimate)
      BY <1>1, <1>3, <3>3 DEF Replayable
    <3>5. Fused' \ Range(s.estimate) = (Fused \ Range(s.estimate)) \cup {m}
      BY <1>1, <3>4
    <3>6. {x \in Range(measurementHistory') : s.time < x.time} =
            {x \in Range(measurementHistory) : s.time < x.time} \cup {m}
      BY <1>1, <3>1
    <3> QED  BY <3>3, <3>4, <3>5, <3>6 DEF Replayable
  <2>2. CASE stateHistory' = stateHistory /\ Pending'
    <3>1. RevertPoints' = RevertPoints /\ RevertPoints \subseteq Range(stateHistory)
      BY <2>2, PointsAreStates DEF RevertPoints
    <3>2. ASSUME NEW s \in RevertPoints
          PROVE  s.time = lastMeasurementTime' \/ s.time < lastMeasurementTime'
      BY <1>3, <1>4, <3>1
    <3> QED  BY <2>1, <2>2, <3>1, <3>2 DEF PointsReplayable
  <2>3. ASSUME NEW saved \in FilterState,
               stateHistory' = Append(stateHistory, saved),
               saved.time = lastMeasurementTime', saved.estimate = estimate'
        PROVE  PointsReplayable'
    <3>1. Replayable(saved)'
      <4>1. Range(saved.estimate) = Fused'
        BY <2>3 DEF Fused
      <4>2. \A x \in Range(measurementHistory') : ~(saved.time < x.time)
        <5>1. \A x \in Range(measurementHistory') :
                x \in Fused' /\ x.time <= lastMeasurementTime' /\ x.time \in Nat
          BY <1>1, <1>4, <1>6, <1>7 DEF FusedInOrder, HistoryInOrder
        <5> QED  BY <1>4, <2>3, <5>1
      <4> QED  BY <4>1, <4>2 DEF Replayable
    <3>2. ASSUME NEW s \in RevertPoints, s \in Range(stateHistory),
                 NEW later \in Range(stateHistory'), s.time < later.time
          PROVE  s.time < lastMeasurementTime'
      <4>1. later \in Range(stateHistory) \cup {saved}
        BY <2>3, <3>2, HeldAreTyped, ElementsOfAppend
      <4>2. later.time <= lastMeasurementTime' /\ later.time \in Nat
        BY <1>3, <1>4, <2>3, <4>1
      <4>3. s.time \in Nat
        BY <1>4, <3>2
      <4> QED  BY <1>4, <3>2, <4>2, <4>3
    <3> QED
      BY <2>1, <2>3, <3>1, <3>2, PointsAfterAppend, PointsAreStates
      DEF PointsReplayable
  <2> QED  BY <1>1, <2>2, <2>3
<1>10. TimesHaveStates'
  <2>1. SUFFICES ASSUME NEW x \in Range(measurementHistory'),
                        NEW s \in Range(stateHistory'), s.time < x.time
                 PROVE  \/ \E saved \in Range(stateHistory') : saved.time = x.time
                        \/ x.time = lastMeasurementTime' /\ Pending'
    BY DEF TimesHaveStates
  <2>2. CASE x.time = lastMeasurementTime'
    BY <1>1, <2>2
  <2>3. CASE x.time # lastMeasurementTime'
    <3>1. x \in Range(measurementHistory) /\ x.time < lastMeasurementTime'
      <4>1. x \in Fused' /\ x.time <= lastMeasurementTime' /\ x.time \in Nat
        BY <1>1, <1>4, <1>6, <1>7 DEF FusedInOrder, HistoryInOrder
      <4>2. x # m
        <5>1. CASE lastMeasurementTime' = m.time
          BY <2>3, <5>1
        <5>2. CASE \A old \in Range(stateHistory) : old.time = lastMeasurementTime'
          <6>1. s.time = lastMeasurementTime'
            BY <1>1, <5>2
          <6> QED  BY <1>4, <2>1, <4>1, <6>1
        <5> QED  BY <1>3, <5>1, <5>2
      <4> QED  BY <1>1, <1>4, <2>3, <4>1, <4>2
    <3>2. s \in Range(stateHistory)
      BY <1>1, <1>4, <2>1, <3>1, HeldAreTyped
    <3>3. ~(x.time = lastMeasurementTime /\ Pending)
      <4>1. Pending => \E q \in queue : IsTop(q, queue) /\ q.time = lastMeasurementTime
        BY DEF Pending
      <4>2. \A q \in queue : IsTop(q, queue) => q.time = m.time
        BY <1>1, TimesAreNat DEF IsTop
      <4>3. Pending => lastMeasurementTime' = lastMeasurementTime
        BY <1>1, <1>4, <4>1, <4>2
      <4> QED  BY <2>3, <4>3
    <3>4. PICK saved \in Range(stateHistory) : saved.time = x.time
      BY <1>2, <2>1, <3>1, <3>2, <3>3 DEF TimesHaveStates
    <3>5. saved \in Range(stateHistory')
      BY <1>1, <3>4
    <3> QED  BY <3>4, <3>5
  <2> QED  BY <2>2, <2>3
<1>11. QueueComesNext'
  <2>1. \A q \in queue' : m.time <= q.time
    BY <1>1 DEF IsTop
  <2>2. CASE lastMeasurementTime' = m.time
    BY <2>1, <2>2 DEF QueueComesNext
  <2>3. CASE /\ lastMeasurementTime' = lastMeasurementTime
             /\ \A s \in Range(stateHistory) : s.time = lastMeasurementTime'
    <3>1. \A s \in Range(stateHistory') : s.time = lastMeasurementTime'
      BY <1>1, <2>3
    <3>2. ASSUME NEW q \in queue', NEW e \in Fused'
          PROVE  e.time <= q.time
      <4>1. e.time <= m.time /\ e.time \in Nat
        BY <1>1, <1>3, <1>4
      <4>2. m.time <= q.time /\ q.time \in Nat
        BY <1>1, <2>1, TimesAreNat
      <4> QED  BY <1>4, <4>1, <4>2
    <3> QED  BY <3>1, <3>2 DEF QueueComesNext
  <2> QED  BY <1>3, <2>2, <2>3
<1> QED  BY <1>5, <1>6, <1>7, <1>8, <1>9, <1>10, <1>11

-----------------------------------------------------------------------------
(* Going back.  Unless the history is too short, the filter goes back to a  *)
(* state before the late measurement, and exactly the measurements from the *)
(* late one on return to the queue.                                         *)

LEMMA ReplayGoesBack ==
  ASSUME TypeOK, ReplayInv, BeginReplay, ~fellBack'
  PROVE  /\ phase = "spin" /\ phase' = "integrate" /\ ~fellBack
         /\ now' = now /\ currentTime' = now /\ initialized' = initialized
         /\ \/ /\ stateHistory = <<>> /\ Fused = {}
               /\ UNCHANGED <<queue, measurementHistory, stateHistory, filterVars>>
            \/ \E first \in queue, n \in 1..Len(stateHistory),
                  k \in 0..Len(measurementHistory) :
                 /\ IsTop(first, queue)
                 /\ stateHistory' = SubSeq(stateHistory, 1, n)
                 /\ measurementHistory' = SubSeq(measurementHistory, 1, k)
                 /\ stateHistory[n].time < first.time
                 /\ n < Len(stateHistory) =>
                      stateHistory[n].time < stateHistory[n + 1].time
                 /\ estimate' = stateHistory[n].estimate
                 /\ lastMeasurementTime' = stateHistory[n].time
                 /\ Range(stateHistory') =
                      {s \in Range(stateHistory) : s.time < first.time}
                 /\ \A s \in Range(stateHistory) :
                      s.time < first.time => s.time <= stateHistory[n].time
                 /\ Range(measurementHistory') =
                      {m \in Range(measurementHistory) : m.time < first.time}
                 /\ queue' = queue \cup
                      {m \in Range(measurementHistory) : first.time <= m.time}
<1>1. PICK first \in queue : IsTop(first, queue) /\ RevertTo(first.time - 1)
  BY DEF BeginReplay
<1> DEFINE t == first.time - 1
<1>2. PICK n \in 0..Len(stateHistory) :
        /\ KeptByPopBack(stateHistory, t, n)
        /\ stateHistory' = SubSeq(stateHistory, 1, n)
        /\ fellBack' = (fellBack \/ (n = 0 /\ Fused # {}))
        /\ stateHistory = <<>> =>
             UNCHANGED <<queue, measurementHistory, filterVars>>
        /\ stateHistory # <<>> =>
             \E k \in 0..Len(measurementHistory) :
               /\ KeptByPopBack(measurementHistory, t, k)
               /\ measurementHistory' = KeptMeasurements(k)
               /\ queue' = queue \cup Restored(RevertState(n), k)
               /\ SetState(RevertState(n).estimate, RevertState(n).time)
  BY <1>1 DEF RevertTo
<1>3. /\ phase = "spin" /\ phase' = "integrate" /\ now' = now /\ currentTime' = now
  BY DEF BeginReplay, OpenCycle
<1>4. ~fellBack /\ ~(n = 0 /\ Fused # {})
  BY <1>2 DEF TypeOK
<1>5. HistoryInOrder /\ StatesInOrder
  BY <1>4 DEF ReplayInv
<1>6. first.time \in Nat /\ t \in Int /\ \A i \in Int : i <= t <=> i < first.time
  <2>1. first.time \in Nat
    BY HeldAreTyped
  <2> QED  BY <2>1
<1> HIDE DEF t
<1>7. CASE stateHistory = <<>>
  <2>1. n = 0
    BY <1>7
  <2>2. stateHistory' = stateHistory
    BY <1>2, <1>7, <2>1, SubSeqEmpty
  <2> QED  BY <1>2, <1>3, <1>4, <1>7, <2>1, <2>2 DEF filterVars
<1>8. CASE stateHistory # <<>>
  <2>1. Fused # {}
    BY <1>5, <1>8 DEF StatesInOrder
  <2>2. n \in 1..Len(stateHistory)
    BY <1>4, <2>1, HeldAreTyped
  <2>3. PICK k \in 0..Len(measurementHistory) :
          /\ KeptByPopBack(measurementHistory, t, k)
          /\ measurementHistory' = SubSeq(measurementHistory, 1, k)
          /\ queue' = queue \cup Restored(stateHistory[n], k)
          /\ SetState(stateHistory[n].estimate, stateHistory[n].time)
    BY <1>2, <1>8, <2>2 DEF KeptMeasurements, RevertState
  <2>4. /\ estimate' = stateHistory[n].estimate
        /\ lastMeasurementTime' = stateHistory[n].time
        /\ initialized' = initialized
    BY <2>3 DEF SetState
  <2>5. stateHistory[n].time \in Nat /\ stateHistory[n].time <= t
    <3>1. stateHistory[n] \in FilterState
      BY <2>2, HeldAreTyped
    <3> QED  BY <1>2, <2>2, <3>1, HeldAreTyped DEF KeptByPopBack
  <2>6. n < Len(stateHistory) => stateHistory[n].time < stateHistory[n + 1].time
    <3>1. ASSUME n < Len(stateHistory)
          PROVE  stateHistory[n].time < stateHistory[n + 1].time
      <4>1. n + 1 \in (n + 1)..Len(stateHistory) /\ stateHistory[n + 1] \in FilterState
        BY <2>2, <3>1, HeldAreTyped
      <4>2. t < stateHistory[n + 1].time /\ stateHistory[n + 1].time \in Nat
        BY <1>2, <4>1, HeldAreTyped DEF KeptByPopBack
      <4> QED  BY <1>6, <2>5, <4>2
    <3> QED  BY <3>1
  <2>7. Range(stateHistory') = {s \in Range(stateHistory) : s.time < first.time}
    <3>1. /\ stateHistory \in Seq(FilterState) /\ InOrder(stateHistory)
          /\ \A s \in FilterState : s.time \in Int
      BY <1>5, HeldAreTyped DEF StatesInOrder
    <3>2. Range(stateHistory') = {s \in Range(stateHistory) : s.time <= t}
      BY <1>2, <1>6, <3>1, CutAtBack
    <3> QED  BY <1>6, <3>2, HeldAreTyped
  <2>8. /\ Range(measurementHistory') =
             {m \in Range(measurementHistory) : m.time < first.time}
        /\ Popped(k) = {m \in Range(measurementHistory) : first.time <= m.time}
    <3>1. /\ measurementHistory \in Seq(Measurement) /\ InOrder(measurementHistory)
          /\ \A m \in Measurement : m.time \in Int
      BY <1>5, HeldAreTyped DEF HistoryInOrder
    <3>2. /\ Range(measurementHistory') = {m \in Range(measurementHistory) : m.time <= t}
          /\ Popped(k) = {m \in Range(measurementHistory) : t < m.time}
      BY <1>6, <2>3, <3>1, CutAtBack DEF Popped
    <3>3. \A m \in Range(measurementHistory) :
            /\ m.time <= t <=> m.time < first.time
            /\ t < m.time <=> first.time <= m.time
      BY <1>6, HeldAreTyped
    <3> QED  BY <3>2, <3>3
  <2>9. Restored(stateHistory[n], k) = Popped(k)
    <3>1. \A m \in Popped(k) : stateHistory[n].time <= m.time
      BY <1>6, <2>5, <2>8, HeldAreTyped
    <3> QED  BY <3>1 DEF Restored
  <2>10. stateHistory[n].time < first.time
    BY <1>6, <2>5
  <2>11. ASSUME NEW s \in Range(stateHistory')
         PROVE  s.time <= stateHistory[n].time
    <3>1. /\ stateHistory \in Seq(FilterState) /\ InOrder(stateHistory)
          /\ DOMAIN stateHistory = 1..Len(stateHistory)
      BY <1>5, HeldAreTyped DEF StatesInOrder
    <3>2. /\ DOMAIN stateHistory' = 1..n
          /\ \A i \in 1..n : i \in DOMAIN stateHistory /\ stateHistory'[i] = stateHistory[i]
      BY <1>2, <3>1, PrefixItems
    <3>3. PICK i \in 1..n : s = stateHistory[i] /\ i \in DOMAIN stateHistory
      BY <2>11, <3>2 DEF Range
    <3>4. i = n \/ i < n
      BY <2>2
    <3>5. n \in DOMAIN stateHistory
      BY <2>2, <3>1
    <3> QED  BY <2>5, <3>1, <3>3, <3>4, <3>5 DEF InOrder
  <2> QED
    BY <1>1, <1>2, <1>3, <1>4, <2>2, <2>3, <2>4, <2>6, <2>7, <2>8, <2>9, <2>10, <2>11
<1> QED  BY <1>7, <1>8

(* What is taken out of the estimate is what goes back to the queue. *)
LEMMA ReplayTakesOut ==
  ASSUME TypeOK, FusedInOrder, HistoryInOrder, StatesInOrder, PointsReplayable,
         TimesHaveStates, phase = "spin",
         NEW first \in queue, NEW n \in 1..Len(stateHistory),
         n < Len(stateHistory) => stateHistory[n].time < stateHistory[n + 1].time,
         stateHistory[n].time < first.time,
         \A x \in Range(stateHistory) :
           x.time < first.time => x.time <= stateHistory[n].time
  PROVE  LET s == stateHistory[n]
             kept == {m \in Range(measurementHistory) : m.time < first.time}
         IN  /\ s \in RevertPoints /\ s \in Range(stateHistory) /\ Replayable(s)
             /\ \A m \in kept : m.time <= s.time
             /\ kept = Range(measurementHistory) \cap Range(s.estimate)
<1> DEFINE s == stateHistory[n]
           kept == {m \in Range(measurementHistory) : m.time < first.time}
<1>1. /\ DOMAIN stateHistory = 1..Len(stateHistory)
      /\ \A x \in Range(stateHistory) : x.time \in Nat
      /\ \A m \in Range(measurementHistory) : m.time \in Nat
      /\ first.time \in Nat
  BY HeldAreTyped
<1>2. s \in RevertPoints /\ s \in Range(stateHistory)
  BY <1>1 DEF RevertPoints, Range
<1>3. Replayable(s)
  BY <1>2 DEF PointsReplayable, Pending
<1>4. s.time < first.time
  OBVIOUS
<1>5. ASSUME NEW m \in Range(measurementHistory), m.time < first.time
      PROVE  m.time <= s.time
  <2>1. SUFFICES ASSUME s.time < m.time
                 PROVE  FALSE
    BY <1>1, <1>2
  <2>2. PICK x \in Range(stateHistory) : x.time = m.time
    BY <1>2, <2>1 DEF TimesHaveStates, Pending
  <2> QED  BY <1>1, <1>2, <1>5, <2>1, <2>2
<1>6. ASSUME NEW m \in kept
      PROVE  m \in Range(s.estimate)
  <2>1. m.time <= s.time /\ m \in Fused /\ ~(s.time < m.time)
    BY <1>1, <1>2, <1>5, <1>6 DEF HistoryInOrder
  <2> QED  BY <1>3, <2>1 DEF Replayable
<1>7. ASSUME NEW m \in Range(measurementHistory), m \in Range(s.estimate)
      PROVE  m \in kept
  <2>1. m.time <= s.time
    BY <1>2, <1>7 DEF StatesInOrder
  <2> QED  BY <1>1, <1>2, <1>4, <1>7, <2>1
<1>8. \A m \in kept : m.time <= s.time
  BY <1>5
<1>9. kept = Range(measurementHistory) \cap Range(s.estimate)
  BY <1>6, <1>7
<1> QED  BY <1>2, <1>3, <1>8, <1>9

LEMMA ReplayKeepsReplay ==
  ASSUME TypeOK, ReplayInv, BeginReplay
  PROVE  ReplayInv'
<1> SUFFICES ASSUME ~fellBack'
             PROVE  /\ NothingYet' /\ FusedInOrder' /\ HistoryInOrder' /\ StatesInOrder'
                    /\ PointsReplayable' /\ TimesHaveStates' /\ QueueComesNext'
  BY DEF ReplayInv
<1>1. /\ phase = "spin" /\ phase' = "integrate" /\ ~fellBack
      /\ initialized' = initialized
  BY ReplayGoesBack
<1>2. /\ NothingYet /\ FusedInOrder /\ HistoryInOrder /\ StatesInOrder
      /\ PointsReplayable /\ TimesHaveStates
  BY <1>1 DEF ReplayInv
<1>3. CASE /\ stateHistory = <<>> /\ Fused = {}
           /\ UNCHANGED <<queue, measurementHistory, stateHistory, filterVars>>
  <2>1. /\ UNCHANGED <<queue, measurementHistory, stateHistory, initialized,
                       lastMeasurementTime, estimate>>
        /\ Fused' = {}
    BY <1>3 DEF filterVars, Fused
  <2>2. Range(stateHistory') = {}
    BY <1>3, <2>1 DEF Range
  <2>3. RevertPoints' = {}
    <3>1. Len(stateHistory') = 0
      BY <1>3, <2>1
    <3> QED  BY <3>1 DEF RevertPoints
  <2>4. NothingYet' /\ FusedInOrder' /\ HistoryInOrder' /\ StatesInOrder'
    BY <1>2, <2>1 DEF NothingYet, FusedInOrder, HistoryInOrder, StatesInOrder, Fused
  <2>5. PointsReplayable' /\ TimesHaveStates' /\ QueueComesNext'
    BY <2>1, <2>2, <2>3 DEF PointsReplayable, TimesHaveStates, QueueComesNext
  <2> QED  BY <2>4, <2>5
<1>4. CASE \E first \in queue, n \in 1..Len(stateHistory),
              k \in 0..Len(measurementHistory) :
             /\ IsTop(first, queue)
             /\ stateHistory' = SubSeq(stateHistory, 1, n)
             /\ measurementHistory' = SubSeq(measurementHistory, 1, k)
             /\ stateHistory[n].time < first.time
             /\ n < Len(stateHistory) =>
                  stateHistory[n].time < stateHistory[n + 1].time
             /\ estimate' = stateHistory[n].estimate
             /\ lastMeasurementTime' = stateHistory[n].time
             /\ Range(stateHistory') =
                  {s \in Range(stateHistory) : s.time < first.time}
             /\ \A s \in Range(stateHistory) :
                  s.time < first.time => s.time <= stateHistory[n].time
             /\ Range(measurementHistory') =
                  {m \in Range(measurementHistory) : m.time < first.time}
             /\ queue' = queue \cup
                  {m \in Range(measurementHistory) : first.time <= m.time}
  <2>1. PICK first \in queue, n \in 1..Len(stateHistory),
             k \in 0..Len(measurementHistory) :
          /\ IsTop(first, queue)
          /\ stateHistory' = SubSeq(stateHistory, 1, n)
          /\ measurementHistory' = SubSeq(measurementHistory, 1, k)
          /\ stateHistory[n].time < first.time
          /\ n < Len(stateHistory) =>
               stateHistory[n].time < stateHistory[n + 1].time
          /\ estimate' = stateHistory[n].estimate
          /\ lastMeasurementTime' = stateHistory[n].time
          /\ Range(stateHistory') =
               {s \in Range(stateHistory) : s.time < first.time}
          /\ \A s \in Range(stateHistory) :
               s.time < first.time => s.time <= stateHistory[n].time
          /\ Range(measurementHistory') =
               {m \in Range(measurementHistory) : m.time < first.time}
          /\ queue' = queue \cup
               {m \in Range(measurementHistory) : first.time <= m.time}
    BY <1>4
  <2> DEFINE s == stateHistory[n]
  <2>2. /\ s \in RevertPoints /\ s \in Range(stateHistory) /\ Replayable(s)
        /\ \A m \in Range(measurementHistory') : m.time <= s.time
        /\ Range(measurementHistory') = Range(measurementHistory) \cap Range(s.estimate)
    BY <1>1, <1>2, <2>1, ReplayTakesOut
  <2>3. /\ estimate' = s.estimate /\ Fused' = Range(s.estimate)
        /\ lastMeasurementTime' = s.time /\ s.time < first.time
        /\ RevertPoints' \subseteq RevertPoints
        /\ RevertPoints' \subseteq Range(stateHistory')
    <3>1. RevertPoints' \subseteq RevertPoints
      BY <2>1, PointsOfPrefix
    <3>2. RevertPoints' \subseteq Range(stateHistory')
      <4>1. stateHistory' \in Seq(FilterState)
        BY <2>1, HeldAreTyped, PrefixItems
      <4>2. DOMAIN stateHistory' = 1..Len(stateHistory')
        BY <4>1
      <4> QED  BY <4>2 DEF RevertPoints, Range
    <3> QED  BY <2>1, <3>1, <3>2 DEF Fused
  <2> HIDE DEF s
  <2>4. /\ first.time \in Nat /\ s.time \in Nat
        /\ \A m \in queue \cup Fused \cup Range(measurementHistory) : m.time \in Nat
        /\ \A x \in Range(stateHistory) : x.time \in Nat
        /\ \A e \in Range(s.estimate) : e.time \in Nat
    BY <2>2, HeldAreTyped
  <2>5. NothingYet'
    <3>1. initialized
      BY <1>2, <2>2 DEF NothingYet, Range
    <3> QED  BY <1>1, <3>1 DEF NothingYet
  <2>6. FusedInOrder'
    <3>1. /\ InOrder(estimate') /\ IsInjective(estimate')
          /\ \A e \in Fused' : e.time <= lastMeasurementTime'
      BY <1>2, <2>2, <2>3 DEF StatesInOrder
    <3>2. ASSUME NEW e \in Fused'
          PROVE  e \notin queue'
      <4>1. e \in Fused /\ e \notin queue
        BY <1>2, <2>2, <2>3, <3>2 DEF Replayable, FusedInOrder
      <4>2. ~(first.time <= e.time)
        BY <2>3, <2>4, <3>1, <3>2, <4>1
      <4> QED  BY <2>1, <4>1, <4>2
    <3> QED  BY <3>1, <3>2 DEF FusedInOrder
  <2>7. HistoryInOrder'
    <3>1. InOrder(measurementHistory')
      BY <1>2, <2>1, HeldAreTyped, PrefixInOrder DEF HistoryInOrder
    <3> QED  BY <2>2, <2>3, <3>1 DEF HistoryInOrder
  <2>8. StatesInOrder'
    <3>1. InOrder(stateHistory')
      <4>1. n \in 0..Len(stateHistory)
        BY <2>1
      <4> QED  BY <1>2, <2>1, <4>1, HeldAreTyped, PrefixInOrder DEF StatesInOrder
    <3>2. Fused' # {}
      BY <1>2, <2>2, <2>3 DEF StatesInOrder
    <3>3. ASSUME NEW x \in Range(stateHistory')
          PROVE  x \in Range(stateHistory) /\ x.time <= lastMeasurementTime'
      BY <2>1, <2>3, <3>3 DEF s
    <3> QED  BY <1>2, <3>1, <3>2, <3>3 DEF StatesInOrder
  <2>9. PointsReplayable'
    <3>1. ASSUME NEW x \in RevertPoints'
          PROVE  Replayable(x)'
      <4>1. x \in RevertPoints /\ x \in Range(stateHistory) /\ x.time <= s.time
        BY <2>1, <2>3, <3>1 DEF s
      <4>2. Replayable(x)
        BY <1>1, <1>2, <4>1 DEF PointsReplayable, Pending
      <4>3. ASSUME NEW e \in Range(x.estimate)
            PROVE  e \in Fused'
        <5>1. e \in Fused /\ e.time <= x.time
          BY <1>2, <4>1, <4>2 DEF StatesInOrder, Replayable
        <5>2. ~(s.time < e.time)
          BY <2>4, <4>1, <5>1
        <5> QED  BY <2>2, <2>3, <5>1, <5>2 DEF Replayable
      <4>4. Fused' \subseteq Fused
        BY <2>2, <2>3 DEF Replayable
      <4>5. Fused' \ Range(x.estimate) =
              {m \in Range(measurementHistory) \cap Fused' : x.time < m.time}
        BY <4>2, <4>4 DEF Replayable
      <4>6. Range(measurementHistory') = Range(measurementHistory) \cap Fused'
        BY <2>2, <2>3
      <4> QED  BY <4>3, <4>5, <4>6 DEF Replayable
    <3> QED  BY <3>1 DEF PointsReplayable
  <2>10. TimesHaveStates'
    <3>1. ASSUME NEW m \in Range(measurementHistory'),
                 NEW x \in Range(stateHistory'), x.time < m.time
          PROVE  \E saved \in Range(stateHistory') : saved.time = m.time
      <4>1. /\ m \in Range(measurementHistory) /\ m.time < first.time
            /\ x \in Range(stateHistory)
        BY <2>1
      <4>2. PICK saved \in Range(stateHistory) : saved.time = m.time
        BY <1>1, <1>2, <3>1, <4>1 DEF TimesHaveStates, Pending
      <4> QED  BY <2>1, <4>1, <4>2
    <3> QED  BY <3>1 DEF TimesHaveStates
  <2>11. QueueComesNext'
    <3>1. \A m \in queue' : first.time <= m.time
      BY <2>1 DEF IsTop
    <3>2. \A m \in queue' : m.time \in Nat
      BY <2>1, <2>4
    <3>3. \A m \in queue' : lastMeasurementTime' <= m.time
      BY <2>3, <2>4, <3>1, <3>2
    <3> QED  BY <3>3 DEF QueueComesNext
  <2> QED  BY <2>5, <2>6, <2>7, <2>8, <2>9, <2>10, <2>11
<1> QED  BY <1>3, <1>4, ReplayGoesBack

-----------------------------------------------------------------------------
(* Expiry.  Both histories lose what is before the same time.               *)

LEMMA ExpiryCuts ==
  ASSUME SmoothLaggedData, TypeOK, InOrder(measurementHistory), InOrder(stateHistory),
         CloseCycle
  PROVE  /\ InOrder(measurementHistory') /\ InOrder(stateHistory')
         /\ RevertPoints' \subseteq RevertPoints
         /\ RevertPoints' \subseteq Range(stateHistory')
         /\ stateHistory' # <<>> => stateHistory # <<>>
         /\ \E cutoff \in Int :
              /\ Range(measurementHistory') =
                   {m \in Range(measurementHistory) : cutoff <= m.time}
              /\ Range(stateHistory') =
                   {s \in Range(stateHistory) : cutoff <= s.time}
<1> DEFINE cutoff == lastMeasurementTime - HistoryLength
<1>1. cutoff \in Int
  BY TimesAreNat, Bounds
<1>2. ClearExpiredHistory(cutoff)
  BY DEF CloseCycle
<1> HIDE DEF cutoff
<1>3. PICK n \in 0..Len(measurementHistory) :
        /\ DroppedByPopFront(measurementHistory, cutoff, n)
        /\ measurementHistory' =
             SubSeq(measurementHistory, n + 1, Len(measurementHistory))
  BY <1>2 DEF ClearExpiredHistory
<1>4. PICK k \in 0..Len(stateHistory) :
        /\ DroppedByPopFront(stateHistory, cutoff, k)
        /\ stateHistory' = SubSeq(stateHistory, k + 1, Len(stateHistory))
  BY <1>2 DEF ClearExpiredHistory
<1>5. /\ measurementHistory \in Seq(Measurement) /\ InOrder(measurementHistory)
      /\ \A m \in Measurement : m.time \in Int
  BY HeldAreTyped
<1>6. /\ stateHistory \in Seq(FilterState) /\ InOrder(stateHistory)
      /\ \A s \in FilterState : s.time \in Int
  BY HeldAreTyped
<1>7. /\ InOrder(measurementHistory')
      /\ Range(measurementHistory') =
           {m \in Range(measurementHistory) : cutoff <= m.time}
  BY <1>1, <1>3, <1>5, SuffixInOrder, CutAtFront
<1>8. /\ InOrder(stateHistory')
      /\ Range(stateHistory') = {s \in Range(stateHistory) : cutoff <= s.time}
  BY <1>1, <1>4, <1>6, SuffixInOrder, CutAtFront
<1>9. RevertPoints' \subseteq RevertPoints
  BY <1>4, PointsOfSuffix
<1>10. RevertPoints' \subseteq Range(stateHistory')
  <2>1. stateHistory' \in Seq(FilterState)
    BY <1>4, <1>6, RestOfSequence
  <2>2. DOMAIN stateHistory' = 1..Len(stateHistory')
    BY <2>1
  <2> QED  BY <2>2 DEF RevertPoints, Range
<1>11. ASSUME stateHistory = <<>>
       PROVE  stateHistory' = <<>>
  <2>1. Len(stateHistory) = 0 /\ k = 0
    BY <1>11
  <2> QED  BY <1>4, <2>1, SubSeqEmpty
<1> QED  BY <1>1, <1>7, <1>8, <1>9, <1>10, <1>11

LEMMA ExpiryKeepsReplay ==
  ASSUME SmoothLaggedData, TypeOK, ReplayInv, CloseCycle
  PROVE  ReplayInv'
<1> SUFFICES ASSUME ~fellBack'
             PROVE  /\ NothingYet' /\ FusedInOrder' /\ HistoryInOrder' /\ StatesInOrder'
                    /\ PointsReplayable' /\ TimesHaveStates' /\ QueueComesNext'
  BY DEF ReplayInv
<1>1. /\ phase = "publish" /\ phase' = "spin" /\ fellBack' = fellBack
      /\ UNCHANGED <<queue, initialized, lastMeasurementTime, estimate>>
      /\ Fused' = Fused
  BY DEF CloseCycle, filterVars, Fused
<1>2. /\ NothingYet /\ FusedInOrder /\ HistoryInOrder /\ StatesInOrder
      /\ PointsReplayable /\ TimesHaveStates
  BY <1>1 DEF ReplayInv
<1>3. /\ InOrder(measurementHistory') /\ InOrder(stateHistory')
      /\ RevertPoints' \subseteq RevertPoints
      /\ RevertPoints' \subseteq Range(stateHistory')
      /\ stateHistory' # <<>> => stateHistory # <<>>
  BY <1>2, ExpiryCuts DEF HistoryInOrder, StatesInOrder
<1>4. PICK cutoff \in Int :
        /\ Range(measurementHistory') =
             {m \in Range(measurementHistory) : cutoff <= m.time}
        /\ Range(stateHistory') = {s \in Range(stateHistory) : cutoff <= s.time}
  BY <1>2, ExpiryCuts DEF HistoryInOrder, StatesInOrder
<1>5. /\ \A m \in Range(measurementHistory) : m.time \in Nat
      /\ \A s \in Range(stateHistory) : s.time \in Nat
  BY HeldAreTyped
<1>6. NothingYet'
  <2>1. ASSUME ~initialized
        PROVE  measurementHistory' = <<>> /\ stateHistory' = <<>>
    <3>1. measurementHistory = <<>> /\ stateHistory = <<>> /\ stateHistory' = <<>>
      BY <1>2, <1>3, <2>1 DEF NothingYet
    <3>2. Range(measurementHistory') = {}
      BY <1>4, <3>1 DEF Range
    <3>3. measurementHistory' \in Seq(Measurement)
      BY CloseCycleIsTyped DEF TypeOK, Measurement
    <3>4. measurementHistory' = <<>>
      BY <3>2, <3>3, NoElements
    <3> QED  BY <3>1, <3>4
  <2> QED  BY <1>1, <1>2, <2>1 DEF NothingYet
<1>7. FusedInOrder'
  BY <1>1, <1>2 DEF FusedInOrder
<1>8. HistoryInOrder'
  BY <1>1, <1>2, <1>3, <1>4 DEF HistoryInOrder
<1>9. StatesInOrder'
  BY <1>1, <1>2, <1>3, <1>4 DEF StatesInOrder
<1>10. PointsReplayable'
  <2>1. ASSUME NEW s \in RevertPoints'
        PROVE  Replayable(s)'
    <3>1. s \in RevertPoints /\ s \in Range(stateHistory) /\ cutoff <= s.time
      BY <1>3, <1>4, <2>1
    <3>2. Replayable(s)
      BY <1>1, <1>2, <3>1 DEF PointsReplayable, Pending
    <3>3. \A m \in Range(measurementHistory) : s.time < m.time => cutoff <= m.time
      BY <1>5, <3>1
    <3> QED  BY <1>1, <1>4, <3>2, <3>3 DEF Replayable
  <2> QED  BY <2>1 DEF PointsReplayable
<1>11. TimesHaveStates'
  <2>1. ASSUME NEW m \in Range(measurementHistory'),
               NEW s \in Range(stateHistory'), s.time < m.time
        PROVE  \E saved \in Range(stateHistory') : saved.time = m.time
    <3>1. m \in Range(measurementHistory) /\ s \in Range(stateHistory) /\ cutoff <= m.time
      BY <1>4
    <3>2. PICK saved \in Range(stateHistory) : saved.time = m.time
      BY <1>1, <1>2, <2>1, <3>1 DEF TimesHaveStates, Pending
    <3> QED  BY <1>4, <3>1, <3>2
  <2> QED  BY <2>1 DEF TimesHaveStates
<1>12. QueueComesNext'
  BY <1>1 DEF QueueComesNext
<1> QED  BY <1>6, <1>7, <1>8, <1>9, <1>10, <1>11, <1>12

-----------------------------------------------------------------------------
(* Steps that leave estimate and histories alone.                           *)

(* The filter's time may move on, and measurements may come and go, as long
   as none of those that were folded in comes back. *)
LEMMA TimeMayPass ==
  ASSUME TypeOK, ReplayInv,
         UNCHANGED <<estimate, initialized, measurementHistory, stateHistory, fellBack>>,
         lastMeasurementTime' \in Nat,
         initialized => lastMeasurementTime <= lastMeasurementTime',
         \A m \in queue' : m \in queue \/ m \notin Known,
         Pending => Pending' /\ lastMeasurementTime' = lastMeasurementTime,
         QueueComesNext => QueueComesNext'
  PROVE  ReplayInv'
<1> SUFFICES ASSUME ~fellBack
             PROVE  /\ NothingYet' /\ FusedInOrder' /\ HistoryInOrder' /\ StatesInOrder'
                    /\ PointsReplayable' /\ TimesHaveStates' /\ QueueComesNext'
  BY DEF ReplayInv
<1>1. /\ NothingYet /\ FusedInOrder /\ HistoryInOrder /\ StatesInOrder
      /\ PointsReplayable /\ TimesHaveStates /\ QueueComesNext
  BY DEF ReplayInv
<1>2. /\ Fused' = Fused /\ RevertPoints' = RevertPoints /\ Fused \subseteq Known
  BY DEF Fused, RevertPoints, Known
<1>3. /\ lastMeasurementTime \in Nat
      /\ \A e \in Fused : e.time \in Nat
      /\ \A s \in Range(stateHistory) : s.time \in Nat
  BY HeldAreTyped, TimesAreNat
<1>4. ~initialized => Fused = {} /\ Range(stateHistory) = {}
  BY <1>1 DEF NothingYet, Fused, Range
<1>5. NothingYet'
  BY <1>1 DEF NothingYet
<1>6. FusedInOrder'
  <2>1. ASSUME NEW e \in Fused
        PROVE  e \notin queue' /\ e.time <= lastMeasurementTime'
    <3>1. e \notin queue /\ e.time <= lastMeasurementTime
      BY <1>1 DEF FusedInOrder
    <3> QED  BY <1>2, <1>3, <1>4, <3>1
  <2> QED  BY <1>1, <1>2, <2>1 DEF FusedInOrder
<1>7. HistoryInOrder'
  BY <1>1, <1>2 DEF HistoryInOrder
<1>8. StatesInOrder'
  <2>1. \A s \in Range(stateHistory) : s.time <= lastMeasurementTime'
    <3>1. \A s \in Range(stateHistory) : s.time <= lastMeasurementTime
      BY <1>1 DEF StatesInOrder
    <3> QED  BY <1>3, <1>4, <3>1
  <2> QED  BY <1>1, <1>2, <2>1 DEF StatesInOrder
<1>9. PointsReplayable'
  <2>1. ASSUME NEW s \in RevertPoints
        PROVE  Replayable(s)' \/ (s.time = lastMeasurementTime' /\ Pending')
    <3>1. Replayable(s) => Replayable(s)'
      BY <1>2 DEF Replayable
    <3> QED  BY <1>1, <3>1 DEF PointsReplayable
  <2> QED  BY <1>2, <2>1 DEF PointsReplayable
<1>10. TimesHaveStates'
  BY <1>1 DEF TimesHaveStates
<1> QED  BY <1>1, <1>5, <1>6, <1>7, <1>8, <1>9, <1>10

LEMMA ReplayStep ==
  ASSUME SmoothLaggedData, TypeOK, ClockInv, ChannelInv, ReplayInv, [Next]_vars
  PROVE  ReplayInv'
<1> USE TimesAreNat
<1>1. CASE \E parts \in SUBSET Channels : Receive(parts)
  <2>1. PICK parts \in SUBSET Channels : Receive(parts)
    BY <1>1
  <2>2. /\ UNCHANGED <<historyVars, filterVars, phase>> /\ phase = "spin"
        /\ \A m \in queue' : m \in queue \/ m \notin Known
    BY <2>1, ReceiveKeepsHeld DEF Receive, cycleVars
  <2>3. ~Pending /\ QueueComesNext'
    BY <2>2 DEF Pending, QueueComesNext
  <2> QED  BY <2>2, <2>3, TimeMayPass DEF historyVars, filterVars
<1>2. CASE SetPoseCallback
  <2>1. /\ phase' = "spin" /\ queue' = {}
        /\ measurementHistory' = <<>> /\ stateHistory' = <<>> /\ estimate' = <<>>
    BY <1>2 DEF SetPoseCallback, SetState, cycleVars
  <2>2. Fused' = {} /\ Range(stateHistory') = {} /\ Range(measurementHistory') = {}
    BY <2>1 DEF Fused, Range
  <2>3. RevertPoints' = {}
    <3>1. Len(stateHistory') = 0
      BY <2>1
    <3> QED  BY <3>1 DEF RevertPoints
  <2>4. NothingYet' /\ FusedInOrder' /\ HistoryInOrder' /\ StatesInOrder'
    <3>1. InOrder(<<>>) /\ IsInjective(<<>>)
      BY DEF InOrder, IsInjective
    <3> QED
      BY <2>1, <2>2, <3>1 DEF NothingYet, FusedInOrder, HistoryInOrder, StatesInOrder
  <2>5. PointsReplayable' /\ TimesHaveStates' /\ QueueComesNext'
    BY <2>1, <2>2, <2>3 DEF PointsReplayable, TimesHaveStates, QueueComesNext
  <2> QED  BY <2>4, <2>5 DEF ReplayInv
<1>3. CASE DiscardMeasurements \/ IntegrateNothing
  <2>1. /\ phase = "spin" /\ phase' = "publish"
        /\ queue' \subseteq queue
        /\ UNCHANGED <<estimate, initialized, historyVars>>
        /\ lastMeasurementTime' \in {lastMeasurementTime, now}
    BY <1>3 DEF DiscardMeasurements, IntegrateNothing, OpenCycle, PredictTo, filterVars
  <2>2. lastMeasurementTime' \in Nat /\ lastMeasurementTime <= lastMeasurementTime'
    BY <2>1 DEF ClockInv
  <2>3. ~Pending /\ QueueComesNext'
    BY <2>1 DEF Pending, QueueComesNext
  <2> QED  BY <2>1, <2>2, <2>3, TimeMayPass DEF historyVars
<1>4. CASE BeginIntegration
  <2>1. /\ phase = "spin" /\ phase' = "integrate" /\ queue' = queue
        /\ UNCHANGED <<historyVars, filterVars>>
        /\ ~LaggedMeasurement
    BY <1>4 DEF BeginIntegration, OpenCycle
  <2>2. ~Pending
    BY <2>1 DEF Pending
  <2>3. \A m \in queue : IsTop(m, queue) => lastMeasurementTime <= m.time
    BY <2>1 DEF LaggedMeasurement
  <2>4. QueueComesNext'
    BY <2>1, <2>3 DEF QueueComesNext, filterVars
  <2> QED  BY <2>1, <2>2, <2>4, TimeMayPass DEF historyVars, filterVars
<1>5. CASE BeginReplay
  BY <1>5, ReplayKeepsReplay
<1>6. CASE IntegrateMeasurement
  BY <1>6, IntegrateKeepsReplay
<1>7. CASE EndIntegration
  <2>1. /\ phase = "integrate" /\ phase' = "publish" /\ queue' = queue
        /\ UNCHANGED <<estimate, initialized, historyVars>>
        /\ lastMeasurementTime' \in {lastMeasurementTime, currentTime}
        /\ \A m \in queue : ~(m.time <= currentTime)
    BY <1>7 DEF EndIntegration, PredictTo, filterVars, Due
  <2>2. lastMeasurementTime' \in Nat /\ lastMeasurementTime <= lastMeasurementTime'
    BY <2>1 DEF ClockInv
  <2>3. ~Pending /\ QueueComesNext'
    BY <2>1 DEF Pending, QueueComesNext, ClockInv
  <2> QED  BY <2>1, <2>2, <2>3, TimeMayPass DEF historyVars
<1>8. CASE CloseCycle
  BY <1>8, ExpiryKeepsReplay
<1>9. CASE \/ ControlCallback \/ EnableFilterSrvCallback
           \/ ToggleFilterProcessingCallback \/ Tick \/ UNCHANGED vars
  <2>1. UNCHANGED <<phase, queue, historyVars, initialized, lastMeasurementTime,
                    estimate>>
    BY <1>9 DEF ControlCallback, EnableFilterSrvCallback,
       ToggleFilterProcessingCallback, Tick, vars, cycleVars, filterVars
  <2>2. (Pending => Pending') /\ (QueueComesNext => QueueComesNext')
    BY <2>1 DEF Pending, QueueComesNext, historyVars, Fused
  <2> QED  BY <2>1, <2>2, TimeMayPass DEF historyVars
<1> QED
  BY <1>1, <1>2, <1>3, <1>4, <1>5, <1>6, <1>7, <1>8, <1>9, SensorCallbacksReceive
  DEF Next, Callback, TimerStep

LEMMA ReplayAlways ==
  ASSUME SmoothLaggedData
  PROVE  Spec => []ReplayInv
<1>1. Init => ReplayInv
  <2> SUFFICES ASSUME Init
               PROVE  ReplayInv
    OBVIOUS
  <2>1. /\ estimate = <<>> /\ measurementHistory = <<>> /\ stateHistory = <<>>
        /\ phase = "spin"
    BY DEF Init, FilterInit
  <2>2. Fused = {} /\ Range(stateHistory) = {} /\ Range(measurementHistory) = {}
    BY <2>1 DEF Fused, Range
  <2>3. InOrder(<<>>) /\ IsInjective(<<>>)
    BY DEF InOrder, IsInjective
  <2>4. RevertPoints = {}
    <3>1. Len(stateHistory) = 0
      BY <2>1
    <3> QED  BY <3>1 DEF RevertPoints
  <2>5. NothingYet /\ FusedInOrder /\ HistoryInOrder /\ StatesInOrder
    BY <2>1, <2>2, <2>3 DEF NothingYet, FusedInOrder, HistoryInOrder, StatesInOrder
  <2>6. PointsReplayable /\ TimesHaveStates /\ QueueComesNext
    BY <2>1, <2>2, <2>4 DEF PointsReplayable, TimesHaveStates, QueueComesNext
  <2> QED  BY <2>5, <2>6 DEF ReplayInv
<1>2. TypeOK /\ ClockInv /\ ChannelInv /\ ReplayInv /\ [Next]_vars => ReplayInv'
  BY ReplayStep
<1> QED  BY <1>1, <1>2, TypeCorrect, ClockAlways, ChannelAlways, PTL DEF Spec

(* However late the measurements come, and whatever the replays, expiries,
   discards and set_poses in between, the estimate is the one of in-order
   processing, unless the history was once too short (revertTo). *)
THEOREM ReplayExact == Spec => []ReplayIsExact
<1>1. CASE SmoothLaggedData
  <2>1. ReplayInv => ReplayIsExact
    BY DEF ReplayInv, FusedInOrder, ReplayIsExact
  <2> QED  BY <1>1, <2>1, ReplayAlways, PTL
<1>2. CASE ~SmoothLaggedData
  <2>1. ReplayIsExact
    BY <1>2 DEF ReplayIsExact
  <2> QED  BY <2>1, PTL
<1> QED  BY <1>1, <1>2

(* Between two cycles, going back to any state that revertTo can choose loses
   nothing and doubles nothing: expiry cuts both histories at one place, and
   no two stamps share a state (clearExpiredHistory, saveFilterState). *)
THEOREM HistoryReplayable == Spec => []HistoryIsReplayable
<1>1. CASE SmoothLaggedData
  <2>1. ReplayInv => HistoryIsReplayable
    BY DEF ReplayInv, PointsReplayable, Replayable, Pending, HistoryIsReplayable
  <2> QED  BY <1>1, <2>1, ReplayAlways, PTL
<1>2. CASE ~SmoothLaggedData
  <2>1. HistoryIsReplayable
    BY <1>2 DEF HistoryIsReplayable
  <2> QED  BY <2>1, PTL
<1> QED  BY <1>1, <1>2

-----------------------------------------------------------------------------
(* The refinement.  A replay is a step that leaves the abstract set alone:  *)
(* what it takes out of the estimate is due, and part of the set as long as *)
(* the cycle lasts.                                                         *)

LEMMA ReplayLosesNothing ==
  ASSUME TypeOK, ClockInv, ReplayInv, BeginReplay, ~fellBack'
  PROVE  Fused \cup BeingFused \subseteq (Fused \cup BeingFused)'
<1>1. /\ phase = "spin" /\ phase' = "integrate" /\ ~fellBack
      /\ now' = now /\ currentTime' = now
  BY ReplayGoesBack
<1>2. BeingFused = {}
  BY <1>1 DEF BeingFused
<1>3. CASE stateHistory = <<>> /\ Fused = {}
  BY <1>2, <1>3
<1>4. CASE \E first \in queue, n \in 1..Len(stateHistory) :
             /\ stateHistory[n].time < first.time
             /\ n < Len(stateHistory) =>
                  stateHistory[n].time < stateHistory[n + 1].time
             /\ estimate' = stateHistory[n].estimate
             /\ \A s \in Range(stateHistory) :
                  s.time < first.time => s.time <= stateHistory[n].time
             /\ queue' = queue \cup
                  {m \in Range(measurementHistory) : first.time <= m.time}
  <2>1. PICK first \in queue, n \in 1..Len(stateHistory) :
          /\ stateHistory[n].time < first.time
          /\ n < Len(stateHistory) =>
               stateHistory[n].time < stateHistory[n + 1].time
          /\ estimate' = stateHistory[n].estimate
          /\ \A s \in Range(stateHistory) :
               s.time < first.time => s.time <= stateHistory[n].time
          /\ queue' = queue \cup
               {m \in Range(measurementHistory) : first.time <= m.time}
    BY <1>4
  <2> DEFINE s == stateHistory[n]
             kept == {m \in Range(measurementHistory) : m.time < first.time}
  <2>2. /\ FusedInOrder /\ HistoryInOrder /\ StatesInOrder
        /\ PointsReplayable /\ TimesHaveStates
    BY <1>1 DEF ReplayInv
  <2>3. Replayable(s) /\ kept = Range(measurementHistory) \cap Range(s.estimate)
    BY <1>1, <2>1, <2>2, ReplayTakesOut
  <2>4. Fused' = Range(s.estimate)
    BY <2>1 DEF Fused
  <2> HIDE DEF s
  <2>5. ASSUME NEW e \in Fused, e \notin Fused'
        PROVE  e \in BeingFused'
    <3>1. e \in Range(measurementHistory)
      BY <2>3, <2>4, <2>5 DEF Replayable
    <3>2. first.time <= e.time
      <4>1. ~(e.time < first.time)
        BY <2>3, <2>4, <2>5, <3>1
      <4> QED  BY <4>1, HeldAreTyped
    <3>3. e.time <= now
      <4>1. e.time <= lastMeasurementTime /\ lastMeasurementTime <= now
        BY <2>2 DEF FusedInOrder, ClockInv
      <4> QED  BY <4>1, HeldAreTyped, TimesAreNat
    <3> QED  BY <1>1, <2>1, <3>1, <3>2, <3>3 DEF BeingFused, Due
  <2> QED  BY <1>2, <2>5
<1> QED  BY <1>3, <1>4, ReplayGoesBack

LEMMA FusingStep ==
  ASSUME TypeOK, ClockInv, SmoothLaggedData => ReplayInv, [Next]_vars,
         ~SetPoseCallback, ~fellBack'
  PROVE  ~fellBack /\ Fused \cup BeingFused \subseteq (Fused \cup BeingFused)'
<1>1. CASE \/ \E parts \in SUBSET Channels : Receive(parts)
           \/ ControlCallback \/ EnableFilterSrvCallback
           \/ ToggleFilterProcessingCallback
  <2>1. phase = "spin" /\ UNCHANGED <<estimate, fellBack>>
    BY <1>1 DEF Receive, ControlCallback, EnableFilterSrvCallback,
       ToggleFilterProcessingCallback, historyVars, filterVars
  <2> QED  BY <2>1 DEF BeingFused, Fused
<1>2. CASE DiscardMeasurements \/ IntegrateNothing \/ BeginIntegration
  <2>1. phase = "spin" /\ UNCHANGED <<estimate, fellBack>>
    BY <1>2 DEF DiscardMeasurements, IntegrateNothing, BeginIntegration,
       OpenCycle, PredictTo, historyVars, filterVars
  <2> QED  BY <2>1 DEF BeingFused, Fused
<1>3. CASE BeginReplay
  <2>1. SmoothLaggedData
    BY <1>3 DEF BeginReplay, LaggedMeasurement
  <2> QED  BY <1>3, <2>1, ReplayGoesBack, ReplayLosesNothing
<1>4. CASE IntegrateMeasurement
  <2>1. PICK m \in queue :
          /\ queue' = queue \ {m}
          /\ estimate' = Append(estimate, m)
          /\ fellBack' = fellBack
    BY <1>4 DEF IntegrateMeasurement, QueueAfterPop, ProcessMeasurement,
       RememberMeasurement, historyVars
  <2>2. UNCHANGED <<phase, currentTime>>
    BY <1>4 DEF IntegrateMeasurement
  <2>3. Fused' = Fused \cup {m}
    BY <2>1, HeldAreTyped, ElementsOfAppend DEF Fused
  <2>4. BeingFused \subseteq BeingFused' \cup {m}
    BY <2>1, <2>2 DEF BeingFused, Due
  <2> QED  BY <2>1, <2>3, <2>4
<1>5. CASE EndIntegration \/ CloseCycle
  <2>1. BeingFused = {} /\ UNCHANGED <<estimate, fellBack>>
    BY <1>5 DEF EndIntegration, CloseCycle, PredictTo, BeingFused,
       historyVars, filterVars
  <2> QED  BY <2>1 DEF Fused
<1>6. CASE Tick \/ UNCHANGED vars
  <2>1. UNCHANGED <<estimate, fellBack, phase, queue, currentTime>>
    BY <1>6 DEF Tick, vars, cycleVars, historyVars, filterVars
  <2> QED  BY <2>1 DEF Fused, BeingFused, Due
<1> QED
  BY <1>1, <1>2, <1>3, <1>4, <1>5, <1>6, SensorCallbacksReceive
  DEF Next, Callback, TimerStep

LEMMA StepIsAbstract ==
  ASSUME TypeOK, ClockInv, SmoothLaggedData => ReplayInv, [Next]_vars
  PROVE  [Abstract!Next]_<<Fused \cup BeingFused, ~fellBack>>
<1>0. fellBack \in BOOLEAN /\ fellBack' \in BOOLEAN
  BY StepIsTyped DEF TypeOK
<1>1. CASE SetPoseCallback
  <2>1. phase' = "spin" /\ estimate' = <<>> /\ fellBack' = FALSE
    BY <1>1 DEF SetPoseCallback, SetState, cycleVars
  <2>2. (Fused \cup BeingFused)' = {}
    BY <2>1 DEF Fused, BeingFused, Range
  <2> QED  BY <2>1, <2>2 DEF Abstract!Next, Abstract!SetPose
<1>2. CASE fellBack'
  BY <1>2 DEF Abstract!Next, Abstract!FallBack
<1>3. CASE ~SetPoseCallback /\ ~fellBack'
  <2>1. ~fellBack /\ Fused \cup BeingFused \subseteq (Fused \cup BeingFused)'
    BY <1>3, FusingStep
  <2>2. (~fellBack) = TRUE /\ (~fellBack)' = TRUE
    BY <1>3, <2>1
  <2> QED  BY <2>1, <2>2 DEF Abstract!Next, Abstract!Absorb
<1> QED  BY <1>1, <1>2, <1>3

(* The node implements in-order fusion: seen from outside, the set of
   measurements that the estimate accounts for only grows until a set_pose,
   through every revert and replay (doc/state_estimation_nodes.rst,
   smooth_lagged_data). *)
THEOREM ImplementsPromise == Spec => ImplementsInOrderFusion
<1>1. Init => Abstract!Init
  <2>1. ASSUME Init
        PROVE  estimate = <<>> /\ phase = "spin" /\ fellBack = FALSE
    BY <2>1 DEF Init, FilterInit
  <2> QED  BY <2>1 DEF Abstract!Init, Fused, BeingFused, Range
<1>2. Spec => [](SmoothLaggedData => ReplayInv)
  <2>1. CASE SmoothLaggedData
    BY <2>1, ReplayAlways, PTL
  <2>2. CASE ~SmoothLaggedData
    <3>1. SmoothLaggedData => ReplayInv
      BY <2>2
    <3> QED  BY <3>1, PTL
  <2> QED  BY <2>1, <2>2
<1>3. TypeOK /\ ClockInv /\ (SmoothLaggedData => ReplayInv) /\ [Next]_vars =>
        [Abstract!Next]_<<Fused \cup BeingFused, ~fellBack>>
  BY StepIsAbstract
<1> QED
  BY <1>1, <1>2, <1>3, TypeCorrect, ClockAlways, PTL
  DEF Spec, ImplementsInOrderFusion, Abstract!Spec
-----------------------------------------------------------------------------
(* The stamps published, with lag smoothing and without it, whether or not    *)
(* the history was long enough.  Going back, the filter puts every            *)
(* measurement it takes out back into the queue, so that a stamp it has       *)
(* published stays within reach: it is in the history, or due in the queue,   *)
(* and before the cycle ends the filter stands at it or after it again.       *)

(* A stamp that the node still has, if it has a state from before it to go
   back to: a measurement to fold in again, and a state saved with it. *)
Kept(stamp) ==
  \A s \in Range(stateHistory) : s.time < stamp =>
    /\ \E m \in Range(measurementHistory) : m.time = stamp
    /\ \/ \E saved \in Range(stateHistory) : saved.time = stamp
       \/ stamp = lastMeasurementTime /\ Pending

NothingSaved ==
  /\ ~initialized =>
       /\ estimate = <<>> /\ measurementHistory = <<>> /\ stateHistory = <<>>
       /\ published.estimate = <<>>
  /\ ~SmoothLaggedData => measurementHistory = <<>> /\ stateHistory = <<>>

EstimatesArePast ==
  /\ \A e \in Fused : e.time <= lastMeasurementTime
  /\ InOrder(stateHistory)
  /\ \A s \in Range(stateHistory) :
       /\ s.time <= lastMeasurementTime
       /\ \A e \in Range(s.estimate) : e.time <= s.time

(* A state was saved at or after each measurement of the history, or will be
   before the cycle ends. *)
HistoryCovered ==
  /\ InOrder(measurementHistory)
  /\ phase = "integrate" =>
       \A m \in queue, old \in Range(measurementHistory) :
         IsTop(m, queue) => old.time <= m.time
  /\ \/ \A m \in Range(measurementHistory) :
          \E s \in Range(stateHistory) : m.time <= s.time
     \/ phase = "integrate" /\ \E m \in queue : Due(m)

QueueIsNext ==
  phase = "integrate" /\ initialized =>
    \/ \A m \in queue : IsTop(m, queue) => lastMeasurementTime <= m.time
    \/ \A s \in Range(stateHistory) : s.time = lastMeasurementTime

StampsKept ==
  \A e \in Fused \cup UNION {Range(s.estimate) : s \in Range(stateHistory)} :
    Kept(e.time)

(* The estimate published was made of a measurement of its own stamp. *)
DataPublished == \E m \in Range(published.estimate) : m.time = published.stamp

(* The cycle is on its way back to the stamp published. *)
OnTheWayBack ==
  /\ phase = "integrate"
  /\ lastMeasurementTime <= published.stamp
  /\ \E m \in queue : m.time = published.stamp /\ Due(m)

PublishedIsReached ==
  DataPublished =>
    /\ published.stamp <= lastPublishedStamp
    /\ \/ OnTheWayBack
       \/ published.stamp <= lastMeasurementTime /\ Kept(published.stamp)

StampInv ==
  /\ NothingSaved /\ EstimatesArePast /\ HistoryCovered /\ QueueIsNext
  /\ StampsKept /\ PublishedIsReached

(* One measurement folded in, with lag smoothing or without. *)
LEMMA FoldsOne ==
  ASSUME TypeOK, StampInv, IntegrateMeasurement
  PROVE  \E m \in queue :
           /\ IsTop(m, queue) /\ m.time \in Nat
           /\ phase = "integrate" /\ phase' = "integrate"
           /\ UNCHANGED <<currentTime, published, lastPublishedStamp>>
           /\ initialized' /\ queue' = queue \ {m} /\ Fused' = Fused \cup {m}
           /\ lastMeasurementTime' =
                IF initialized /\ m.time < lastMeasurementTime
                THEN lastMeasurementTime ELSE m.time
           /\ Range(measurementHistory) \subseteq Range(measurementHistory')
           /\ Range(measurementHistory') \subseteq Range(measurementHistory) \cup {m}
           /\ Range(stateHistory) \subseteq Range(stateHistory')
           /\ \A s \in Range(stateHistory') :
                \/ s \in Range(stateHistory)
                \/ s.time = lastMeasurementTime' /\ Range(s.estimate) = Fused'
           /\ SmoothLaggedData =>
                /\ m \in Range(measurementHistory')
                /\ measurementHistory' = Append(measurementHistory, m)
                /\ \/ stateHistory' = stateHistory /\ Pending'
                   \/ \E saved \in FilterState :
                        /\ stateHistory' = Append(stateHistory, saved)
                        /\ saved \in Range(stateHistory')
                        /\ saved.time = lastMeasurementTime'
           /\ ~SmoothLaggedData =>
                measurementHistory' = <<>> /\ stateHistory' = <<>>
<1>0. UNCHANGED <<phase, currentTime, published, lastPublishedStamp>>
  BY DEF IntegrateMeasurement, outputVars
<1>1. CASE SmoothLaggedData
  <2>1. PICK m \in queue :
           /\ IsTop(m, queue)
           /\ phase = "integrate" /\ phase' = "integrate"
           /\ initialized'
           /\ queue' = queue \ {m}
           /\ Fused' = Fused \cup {m}
           /\ estimate' = Append(estimate, m)
           /\ measurementHistory' = Append(measurementHistory, m)
           /\ Range(measurementHistory') = Range(measurementHistory) \cup {m}
           /\ lastMeasurementTime' =
                IF initialized /\ m.time < lastMeasurementTime
                THEN lastMeasurementTime ELSE m.time
           /\ \/ stateHistory' = stateHistory /\ Pending'
              \/ \E saved \in FilterState :
                   /\ stateHistory' = Append(stateHistory, saved)
                   /\ Range(stateHistory') = Range(stateHistory) \cup {saved}
                   /\ saved.time = lastMeasurementTime'
                   /\ saved.estimate = estimate'
    BY <1>1, IntegratingFolds
  <2>2. m.time \in Nat
    BY HeldAreTyped
  <2>3. Fused' = Range(estimate')
    BY DEF Fused
  <2>4. CASE stateHistory' = stateHistory /\ Pending'
    BY <1>0, <1>1, <2>1, <2>2, <2>4
  <2>5. CASE \E saved \in FilterState :
               /\ stateHistory' = Append(stateHistory, saved)
               /\ Range(stateHistory') = Range(stateHistory) \cup {saved}
               /\ saved.time = lastMeasurementTime'
               /\ saved.estimate = estimate'
    <3>1. PICK saved \in FilterState :
            /\ stateHistory' = Append(stateHistory, saved)
            /\ Range(stateHistory') = Range(stateHistory) \cup {saved}
            /\ saved.time = lastMeasurementTime'
            /\ saved.estimate = estimate'
      BY <2>5
    <3>2. \A s \in Range(stateHistory') :
            \/ s \in Range(stateHistory)
            \/ s.time = lastMeasurementTime' /\ Range(s.estimate) = Fused'
      BY <2>3, <3>1
    <3>3. saved \in Range(stateHistory') /\ Range(stateHistory) \subseteq Range(stateHistory')
      BY <3>1
    <3> QED  BY <1>0, <1>1, <2>1, <2>2, <3>1, <3>2, <3>3
  <2> QED  BY <2>1, <2>4, <2>5
<1>2. CASE ~SmoothLaggedData
  <2>1. PICK m \in queue :
           /\ IsTop(m, queue)
           /\ queue' = queue \ {m}
           /\ ProcessMeasurement(m)
           /\ UNCHANGED historyVars
    BY <1>2 DEF IntegrateMeasurement, QueueAfterPop
  <2>2. /\ initialized' /\ estimate' = Append(estimate, m)
        /\ lastMeasurementTime' =
             IF initialized /\ m.time < lastMeasurementTime
             THEN lastMeasurementTime ELSE m.time
    BY <2>1 DEF ProcessMeasurement
  <2>3. m \in Measurement /\ m.time \in Nat /\ estimate \in Seq(Measurement)
    BY HeldAreTyped
  <2>4. Fused' = Fused \cup {m}
    BY <2>2, <2>3, ElementsOfAppend DEF Fused
  <2>5. /\ UNCHANGED <<measurementHistory, stateHistory>>
        /\ measurementHistory = <<>> /\ stateHistory = <<>>
    BY <1>2, <2>1 DEF StampInv, NothingSaved, historyVars
  <2>6. phase = "integrate"
    BY DEF IntegrateMeasurement
  <2> QED  BY <1>0, <1>2, <2>1, <2>2, <2>3, <2>4, <2>5, <2>6
<1> QED  BY <1>1, <1>2

LEMMA IntegrateKeepsStamps ==
  ASSUME TypeOK, ClockInv, StampInv, IntegrateMeasurement
  PROVE  StampInv'
<1>1. PICK m \in queue :
        /\ IsTop(m, queue) /\ m.time \in Nat
        /\ phase = "integrate" /\ phase' = "integrate"
        /\ UNCHANGED <<currentTime, published, lastPublishedStamp>>
        /\ initialized' /\ queue' = queue \ {m} /\ Fused' = Fused \cup {m}
        /\ lastMeasurementTime' =
             IF initialized /\ m.time < lastMeasurementTime
             THEN lastMeasurementTime ELSE m.time
        /\ Range(measurementHistory) \subseteq Range(measurementHistory')
        /\ Range(measurementHistory') \subseteq Range(measurementHistory) \cup {m}
        /\ Range(stateHistory) \subseteq Range(stateHistory')
        /\ \A s \in Range(stateHistory') :
             \/ s \in Range(stateHistory)
             \/ s.time = lastMeasurementTime' /\ Range(s.estimate) = Fused'
        /\ SmoothLaggedData =>
             /\ m \in Range(measurementHistory')
             /\ measurementHistory' = Append(measurementHistory, m)
             /\ \/ stateHistory' = stateHistory /\ Pending'
                \/ \E saved \in FilterState :
                     /\ stateHistory' = Append(stateHistory, saved)
                     /\ saved \in Range(stateHistory')
                     /\ saved.time = lastMeasurementTime'
        /\ ~SmoothLaggedData =>
             measurementHistory' = <<>> /\ stateHistory' = <<>>
  BY FoldsOne
<1>2. /\ NothingSaved /\ EstimatesArePast /\ HistoryCovered /\ QueueIsNext
      /\ StampsKept /\ PublishedIsReached
  BY DEF StampInv
<1>3. /\ lastMeasurementTime \in Nat /\ lastMeasurementTime' \in Nat
      /\ currentTime \in Nat /\ published.stamp \in Nat
      /\ \A x \in queue \cup Fused \cup Range(measurementHistory) : x.time \in Nat
      /\ \A s \in Range(stateHistory) :
           s.time \in Nat /\ \A e \in Range(s.estimate) : e.time \in Nat
  BY <1>1, HeldAreTyped, TimesAreNat
<1>4. ~initialized => Fused = {} /\ Range(stateHistory) = {} /\ Range(measurementHistory) = {}
  BY <1>2 DEF NothingSaved, Fused, Range
<1>5. /\ m.time <= lastMeasurementTime'
      /\ initialized => lastMeasurementTime <= lastMeasurementTime'
      /\ lastMeasurementTime <= m.time => lastMeasurementTime' = m.time
  BY <1>1, <1>3
<1>6. Pending => m.time = lastMeasurementTime
  <2>1. ASSUME NEW next \in queue, IsTop(next, queue), next.time = lastMeasurementTime
        PROVE  m.time = lastMeasurementTime
    BY <1>1, <1>3, <2>1 DEF IsTop
  <2> QED  BY <2>1 DEF Pending
<1>7. /\ \A e \in Fused' : e.time \in Nat /\ e.time <= lastMeasurementTime'
      /\ \A s \in Range(stateHistory) : s.time <= lastMeasurementTime'
      /\ \A old \in Range(measurementHistory) : old.time <= m.time
  <2>1. ASSUME NEW e \in Fused'
        PROVE  e.time \in Nat /\ e.time <= lastMeasurementTime'
    BY <1>1, <1>2, <1>3, <1>4, <1>5 DEF EstimatesArePast
  <2>2. ASSUME NEW s \in Range(stateHistory)
        PROVE  s.time <= lastMeasurementTime'
    <3>1. s.time <= lastMeasurementTime /\ initialized
      BY <1>2, <1>4 DEF EstimatesArePast
    <3> QED  BY <1>3, <1>5, <3>1
  <2>3. \A old \in Range(measurementHistory) : old.time <= m.time
    BY <1>1, <1>2 DEF HistoryCovered
  <2> QED  BY <2>1, <2>2, <2>3
<1>8. SmoothLaggedData =>
        Pending' \/ \E saved \in Range(stateHistory') : saved.time = lastMeasurementTime'
  BY <1>1
<1>9. NothingSaved'
  BY <1>1 DEF NothingSaved
<1>10. EstimatesArePast'
  <2>1. InOrder(stateHistory')
    <3>1. CASE stateHistory' = stateHistory
      BY <1>2, <3>1 DEF EstimatesArePast
    <3>2. CASE stateHistory' = <<>>
      BY <3>2 DEF InOrder
    <3>3. CASE \E saved \in FilterState :
                 /\ stateHistory' = Append(stateHistory, saved)
                 /\ saved.time = lastMeasurementTime'
      BY <1>2, <1>7, <3>3, HeldAreTyped, AppendInOrder DEF EstimatesArePast
    <3> QED  BY <1>1, <3>1, <3>2, <3>3
  <2>2. ASSUME NEW s \in Range(stateHistory')
        PROVE  /\ s.time <= lastMeasurementTime'
               /\ \A e \in Range(s.estimate) : e.time <= s.time
    <3>1. CASE s \in Range(stateHistory)
      BY <1>2, <1>7, <3>1 DEF EstimatesArePast
    <3>2. CASE s.time = lastMeasurementTime' /\ Range(s.estimate) = Fused'
      BY <1>3, <1>7, <3>2
    <3> QED  BY <1>1, <3>1, <3>2
  <2> QED  BY <1>7, <2>1, <2>2 DEF EstimatesArePast
<1>11. HistoryCovered'
  <2>1. InOrder(measurementHistory')
    <3>1. CASE measurementHistory' = <<>>
      BY <3>1 DEF InOrder
    <3>2. CASE measurementHistory' = Append(measurementHistory, m)
      BY <1>2, <1>7, <3>2, HeldAreTyped, AppendInOrder DEF HistoryCovered
    <3> QED  BY <1>1, <3>1, <3>2
  <2>2. \A old \in Range(measurementHistory') : old.time \in Nat /\ old.time <= m.time
    BY <1>1, <1>3, <1>7
  <2>3. \A x \in queue', old \in Range(measurementHistory') : old.time <= x.time
    <3>1. \A x \in queue' : x.time \in Nat /\ m.time <= x.time
      BY <1>1, <1>3 DEF IsTop
    <3> QED  BY <1>1, <2>2, <3>1
  <2>4. \/ \A x \in Range(measurementHistory') :
             \E s \in Range(stateHistory') : x.time <= s.time
        \/ \E x \in queue' : Due(x)'
    <3>1. CASE ~SmoothLaggedData
      BY <1>1, <3>1 DEF Range
    <3>2. CASE SmoothLaggedData /\ Pending'
      <4>1. PICK next \in queue' : next.time = lastMeasurementTime'
        BY <3>2 DEF Pending
      <4>2. lastMeasurementTime' <= currentTime'
        BY <1>1, ClockStep DEF ClockInv, Next, TimerStep
      <4> QED  BY <4>1, <4>2 DEF Due
    <3>3. CASE SmoothLaggedData /\ ~Pending'
      <4>1. PICK saved \in Range(stateHistory') : saved.time = lastMeasurementTime'
        BY <1>8, <3>3
      <4>2. \A x \in Range(measurementHistory') : x.time <= saved.time
        BY <1>1, <1>3, <1>5, <2>2, <4>1
      <4> QED  BY <4>2
    <3> QED  BY <3>1, <3>2, <3>3
  <2> QED  BY <1>1, <2>1, <2>3, <2>4 DEF HistoryCovered
<1>12. QueueIsNext'
  <2>1. CASE lastMeasurementTime' = m.time
    BY <1>1, <2>1 DEF QueueIsNext, IsTop
  <2>2. CASE lastMeasurementTime' # m.time
    <3>1. initialized /\ m.time < lastMeasurementTime /\ lastMeasurementTime' = lastMeasurementTime
      BY <1>1, <2>2
    <3>2. \A s \in Range(stateHistory) : s.time = lastMeasurementTime
      BY <1>1, <1>2, <1>3, <3>1 DEF QueueIsNext
    <3> QED  BY <1>1, <3>1, <3>2 DEF QueueIsNext
  <2> QED  BY <2>1, <2>2
<1>13. ASSUME NEW stamp \in Nat, Kept(stamp), initialized, stamp <= lastMeasurementTime
       PROVE  Kept(stamp)'
  <2>1. SUFFICES ASSUME NEW s \in Range(stateHistory'), s.time < stamp
                 PROVE  /\ \E x \in Range(measurementHistory') : x.time = stamp
                        /\ \/ \E saved \in Range(stateHistory') : saved.time = stamp
                           \/ stamp = lastMeasurementTime' /\ Pending'
    BY DEF Kept
  <2>2. s \in Range(stateHistory)
    BY <1>1, <1>3, <1>5, <1>13, <2>1
  <2>3. /\ \E x \in Range(measurementHistory) : x.time = stamp
        /\ \/ \E saved \in Range(stateHistory) : saved.time = stamp
           \/ stamp = lastMeasurementTime /\ Pending
    BY <1>13, <2>1, <2>2 DEF Kept
  <2>4. CASE \E saved \in Range(stateHistory) : saved.time = stamp
    BY <1>1, <2>3, <2>4
  <2>5. CASE stamp = lastMeasurementTime /\ Pending
    <3>1. lastMeasurementTime' = stamp
      BY <1>3, <1>5, <1>6, <2>5
    <3>2. SmoothLaggedData
      BY <1>2, <2>2 DEF NothingSaved, Range
    <3> QED  BY <1>1, <1>8, <2>3, <3>1, <3>2
  <2> QED  BY <2>3, <2>4, <2>5
<1>14. lastMeasurementTime' = m.time => Kept(m.time)'
  <2>1. SUFFICES ASSUME lastMeasurementTime' = m.time, NEW s \in Range(stateHistory')
                 PROVE  /\ \E x \in Range(measurementHistory') : x.time = m.time
                        /\ \/ \E saved \in Range(stateHistory') : saved.time = m.time
                           \/ m.time = lastMeasurementTime' /\ Pending'
    BY DEF Kept
  <2>2. SmoothLaggedData
    BY <1>1, <2>1 DEF Range
  <2> QED  BY <1>1, <1>8, <2>1, <2>2
<1>15. Kept(m.time)'
  <2>1. CASE lastMeasurementTime' # m.time
    <3>1. initialized /\ m.time < lastMeasurementTime /\ lastMeasurementTime' = lastMeasurementTime
      BY <1>1, <2>1
    <3>2. \A s \in Range(stateHistory) : s.time = lastMeasurementTime
      BY <1>1, <1>2, <1>3, <3>1 DEF QueueIsNext
    <3>3. \A s \in Range(stateHistory') : s.time = lastMeasurementTime
      BY <1>1, <3>1, <3>2
    <3> QED  BY <1>3, <3>1, <3>3 DEF Kept
  <2> QED  BY <1>14, <2>1
<1>16. StampsKept'
  <2>1. ASSUME NEW e \in Fused
        PROVE  Kept(e.time)'
    BY <1>2, <1>3, <1>4, <1>13, <2>1 DEF StampsKept, EstimatesArePast
  <2>2. ASSUME NEW s \in Range(stateHistory), NEW e \in Range(s.estimate)
        PROVE  Kept(e.time)'
    <3>1. e.time <= lastMeasurementTime /\ e.time \in Nat /\ initialized
      BY <1>2, <1>3, <1>4 DEF EstimatesArePast
    <3> QED  BY <1>2, <1>13, <3>1 DEF StampsKept
  <2>3. \A e \in Fused' : Kept(e.time)'
    BY <1>1, <1>15, <2>1
  <2>4. \A s \in Range(stateHistory') : \A e \in Range(s.estimate) : Kept(e.time)'
    BY <1>1, <2>2, <2>3
  <2> QED  BY <2>3, <2>4 DEF StampsKept
<1>17. PublishedIsReached'
  <2>0. PICK stamp \in Nat : stamp = published.stamp /\ stamp = published'.stamp
    BY <1>1, <1>3
  <2>1. SUFFICES ASSUME DataPublished
                 PROVE  OnTheWayBack' \/ (stamp <= lastMeasurementTime' /\ Kept(stamp)')
    BY <1>1, <1>2, <2>0 DEF PublishedIsReached, DataPublished, Kept
  <2>2. initialized
    BY <1>2, <2>1 DEF NothingSaved, DataPublished, Range
  <2>3. CASE stamp <= lastMeasurementTime /\ Kept(stamp)
    BY <1>3, <1>5, <1>13, <2>2, <2>3
  <2>4. CASE OnTheWayBack
    <3>1. PICK x \in queue : x.time = stamp /\ Due(x)
      BY <2>0, <2>4 DEF OnTheWayBack
    <3>2. lastMeasurementTime <= stamp /\ m.time <= stamp
      BY <1>1, <2>0, <2>4, <3>1 DEF OnTheWayBack, IsTop
    <3>3. CASE m.time = stamp
      BY <1>3, <1>5, <1>14, <3>2, <3>3
    <3>4. CASE m.time # stamp
      <4>1. x \in queue' /\ Due(x)'
        BY <1>1, <3>1, <3>4 DEF Due
      <4>2. lastMeasurementTime' <= stamp
        BY <1>1, <3>2
      <4> QED  BY <1>1, <2>0, <3>1, <4>1, <4>2 DEF OnTheWayBack
    <3> QED  BY <3>3, <3>4
  <2> QED  BY <1>2, <2>0, <2>1, <2>3, <2>4 DEF PublishedIsReached, Kept
<1> QED
  BY <1>9, <1>10, <1>11, <1>12, <1>16, <1>17 DEF StampInv
(* Going back in time, however far back the history reaches. *)
LEMMA RevertingCuts ==
  ASSUME TypeOK, ClockInv, StampInv, BeginReplay
  PROVE  /\ SmoothLaggedData
         /\ phase = "spin" /\ phase' = "integrate" /\ currentTime' = now
         /\ initialized' = initialized /\ outputVars' = outputVars
         /\ \E first \in queue :
              /\ IsTop(first, queue) /\ first.time < lastMeasurementTime
              /\ \/ /\ stateHistory = <<>>
                    /\ UNCHANGED <<queue, measurementHistory, stateHistory,
                                   lastMeasurementTime, estimate>>
                 \/ \E s \in Range(stateHistory) :
                      /\ InOrder(stateHistory') /\ InOrder(measurementHistory')
                      /\ Range(stateHistory') =
                           {x \in Range(stateHistory) : x.time < first.time}
                      /\ s \in Range(stateHistory') \/ Range(stateHistory') = {}
                      /\ \A x \in Range(stateHistory') : x.time <= s.time
                      /\ Range(measurementHistory') =
                           {m \in Range(measurementHistory) : m.time < first.time}
                      /\ queue' = queue \cup
                           {m \in Range(measurementHistory) :
                              first.time <= m.time /\ s.time <= m.time}
                      /\ estimate' = s.estimate /\ lastMeasurementTime' = s.time
<1>1. PICK first \in queue :
        /\ IsTop(first, queue) /\ RevertTo(first.time - 1)
        /\ first.time < lastMeasurementTime
  <2>1. PICK first \in queue : IsTop(first, queue) /\ RevertTo(first.time - 1)
    BY DEF BeginReplay
  <2>2. PICK other \in queue : IsTop(other, queue) /\ other.time < lastMeasurementTime
    BY DEF BeginReplay, LaggedMeasurement
  <2>3. /\ first.time \in Nat /\ other.time \in Nat /\ lastMeasurementTime \in Nat
        /\ first.time <= other.time
    BY <2>1, HeldAreTyped, TimesAreNat DEF IsTop
  <2> QED  BY <2>1, <2>2, <2>3
<1> DEFINE t == first.time - 1
<1>2. PICK n \in 0..Len(stateHistory) :
        /\ KeptByPopBack(stateHistory, t, n)
        /\ stateHistory' = SubSeq(stateHistory, 1, n)
        /\ stateHistory = <<>> =>
             UNCHANGED <<queue, measurementHistory, filterVars>>
        /\ stateHistory # <<>> =>
             \E k \in 0..Len(measurementHistory) :
               /\ KeptByPopBack(measurementHistory, t, k)
               /\ measurementHistory' = KeptMeasurements(k)
               /\ queue' = queue \cup Restored(RevertState(n), k)
               /\ SetState(RevertState(n).estimate, RevertState(n).time)
  BY <1>1 DEF RevertTo
<1>3. /\ SmoothLaggedData
      /\ phase = "spin" /\ phase' = "integrate" /\ currentTime' = now
      /\ outputVars' = outputVars
  BY DEF BeginReplay, OpenCycle, LaggedMeasurement
<1>4. InOrder(stateHistory) /\ InOrder(measurementHistory)
  BY DEF StampInv, EstimatesArePast, HistoryCovered
<1>5. first.time \in Nat /\ t \in Int /\ \A i \in Int : i <= t <=> i < first.time
  <2>1. first.time \in Nat
    BY HeldAreTyped
  <2> QED  BY <2>1
<1>6. /\ stateHistory \in Seq(FilterState) /\ \A s \in FilterState : s.time \in Int
      /\ DOMAIN stateHistory = 1..Len(stateHistory)
      /\ measurementHistory \in Seq(Measurement)
      /\ \A m \in Measurement : m.time \in Int
      /\ \A s \in Range(stateHistory) : s.time \in Int
      /\ \A m \in Range(measurementHistory) : m.time \in Int
  BY HeldAreTyped
<1> HIDE DEF t
<1>7. CASE stateHistory = <<>>
  <2>1. n = 0
    BY <1>7
  <2>2. stateHistory' = stateHistory
    BY <1>2, <1>7, <2>1, SubSeqEmpty
  <2> QED  BY <1>1, <1>2, <1>3, <1>7, <2>1, <2>2 DEF filterVars
<1>8. CASE stateHistory # <<>>
  <2> DEFINE s == RevertState(n)
  <2>1. PICK k \in 0..Len(measurementHistory) :
          /\ KeptByPopBack(measurementHistory, t, k)
          /\ measurementHistory' = SubSeq(measurementHistory, 1, k)
          /\ queue' = queue \cup Restored(s, k)
          /\ SetState(s.estimate, s.time)
    BY <1>2, <1>8 DEF KeptMeasurements
  <2>2. /\ estimate' = s.estimate /\ lastMeasurementTime' = s.time
        /\ initialized' = initialized
    BY <2>1 DEF SetState
  <2>3. s \in Range(stateHistory)
    BY <1>6, <1>8 DEF RevertState, Range
  <2>4. /\ Range(stateHistory') = {x \in Range(stateHistory) : x.time <= t}
        /\ InOrder(stateHistory')
    BY <1>2, <1>4, <1>5, <1>6, CutAtBack, PrefixInOrder
  <2>5. /\ Range(measurementHistory') = {m \in Range(measurementHistory) : m.time <= t}
        /\ Popped(k) = {m \in Range(measurementHistory) : t < m.time}
        /\ InOrder(measurementHistory')
    BY <1>4, <1>5, <1>6, <2>1, CutAtBack, PrefixInOrder DEF Popped
  <2>6. s \in Range(stateHistory') \/ Range(stateHistory') = {}
    <3>1. CASE n = 0
      <4>1. stateHistory' = <<>>
        BY <1>2, <3>1, SubSeqEmpty
      <4> QED  BY <4>1 DEF Range
    <3>2. CASE n # 0
      <4>1. s = stateHistory[n] /\ n \in 1..Len(stateHistory)
        BY <3>2 DEF RevertState
      <4>2. s.time <= t
        BY <1>2, <4>1 DEF KeptByPopBack
      <4> QED  BY <2>3, <2>4, <4>2
    <3> QED  BY <3>1, <3>2
  <2>7. ASSUME NEW x \in Range(stateHistory')
        PROVE  x.time <= s.time
    <3>1. /\ DOMAIN stateHistory' = 1..n
          /\ \A i \in 1..n : i \in DOMAIN stateHistory /\ stateHistory'[i] = stateHistory[i]
      BY <1>2, <1>6, PrefixItems
    <3>2. PICK i \in 1..n : x = stateHistory[i] /\ i \in DOMAIN stateHistory
      BY <2>7, <3>1 DEF Range
    <3>3. s = stateHistory[n] /\ n \in DOMAIN stateHistory
      BY <1>6, <3>2 DEF RevertState
    <3>4. i = n \/ i < n
      BY <3>2
    <3>5. s.time \in Int
      BY <1>6, <2>3
    <3> QED  BY <1>4, <3>2, <3>3, <3>4, <3>5 DEF InOrder
  <2> HIDE DEF s
  <2>8. /\ Range(stateHistory') = {x \in Range(stateHistory) : x.time < first.time}
        /\ Range(measurementHistory') =
             {m \in Range(measurementHistory) : m.time < first.time}
    BY <1>5, <1>6, <2>4, <2>5
  <2>9. Restored(s, k) = {m \in Range(measurementHistory) :
                            first.time <= m.time /\ s.time <= m.time}
    <3>1. \A m \in Range(measurementHistory) : t < m.time <=> first.time <= m.time
      BY <1>5, <1>6
    <3> QED  BY <2>5, <3>1 DEF Restored
  <2> QED
    BY <1>1, <1>3, <2>1, <2>2, <2>3, <2>4, <2>5, <2>6, <2>7, <2>8, <2>9
<1> QED  BY <1>7, <1>8

LEMMA RevertKeepsStamps ==
  ASSUME TypeOK, ClockInv, StampInv, BeginReplay
  PROVE  StampInv'
<1>1. /\ SmoothLaggedData
      /\ phase = "spin" /\ phase' = "integrate" /\ currentTime' = now
      /\ initialized' = initialized
      /\ UNCHANGED <<published, lastPublishedStamp>>
  BY RevertingCuts DEF outputVars
<1>2. /\ NothingSaved /\ EstimatesArePast /\ HistoryCovered /\ QueueIsNext
      /\ StampsKept /\ PublishedIsReached
  BY DEF StampInv
<1>3. /\ lastMeasurementTime \in Nat /\ now \in Nat /\ published.stamp \in Nat
      /\ \A x \in queue \cup Fused \cup Range(measurementHistory) : x.time \in Nat
      /\ \A s \in Range(stateHistory) :
           s.time \in Nat /\ \A e \in Range(s.estimate) : e.time \in Nat
  BY HeldAreTyped, TimesAreNat
<1>4. lastMeasurementTime <= now
  BY DEF ClockInv
<1>5. ~Pending /\ ~OnTheWayBack
  BY <1>1 DEF Pending, OnTheWayBack
<1>6. PICK stamp \in Nat : stamp = published.stamp /\ stamp = published'.stamp
  BY <1>1, <1>3
<1>7. PICK first \in queue :
        /\ IsTop(first, queue) /\ first.time < lastMeasurementTime
        /\ \/ /\ stateHistory = <<>>
              /\ UNCHANGED <<queue, measurementHistory, stateHistory,
                             lastMeasurementTime, estimate>>
           \/ \E s \in Range(stateHistory) :
                /\ InOrder(stateHistory') /\ InOrder(measurementHistory')
                /\ Range(stateHistory') =
                     {x \in Range(stateHistory) : x.time < first.time}
                /\ s \in Range(stateHistory') \/ Range(stateHistory') = {}
                /\ \A x \in Range(stateHistory') : x.time <= s.time
                /\ Range(measurementHistory') =
                     {m \in Range(measurementHistory) : m.time < first.time}
                /\ queue' = queue \cup
                     {m \in Range(measurementHistory) :
                        first.time <= m.time /\ s.time <= m.time}
                /\ estimate' = s.estimate /\ lastMeasurementTime' = s.time
  BY RevertingCuts
<1>8. CASE /\ stateHistory = <<>>
           /\ UNCHANGED <<queue, measurementHistory, stateHistory,
                          lastMeasurementTime, estimate>>
  <2>1. Range(stateHistory') = {} /\ Range(measurementHistory) = {}
    <3>1. Range(stateHistory') = {} /\ Range(stateHistory) = {}
      BY <1>8 DEF Range
    <3> QED  BY <1>1, <1>2, <3>1 DEF HistoryCovered
  <2>2. NothingSaved' /\ EstimatesArePast'
    BY <1>1, <1>2, <1>8 DEF NothingSaved, EstimatesArePast, Fused
  <2>3. HistoryCovered' /\ QueueIsNext'
    BY <1>2, <1>8, <2>1 DEF HistoryCovered, QueueIsNext
  <2>4. StampsKept' /\ PublishedIsReached'
    BY <1>1, <1>2, <1>5, <1>8, <2>1
    DEF StampsKept, PublishedIsReached, DataPublished, Kept
  <2> QED  BY <2>2, <2>3, <2>4 DEF StampInv
<1>9. ASSUME NEW s \in Range(stateHistory),
             InOrder(stateHistory'), InOrder(measurementHistory'),
             Range(stateHistory') = {x \in Range(stateHistory) : x.time < first.time},
             s \in Range(stateHistory') \/ Range(stateHistory') = {},
             \A x \in Range(stateHistory') : x.time <= s.time,
             Range(measurementHistory') =
               {m \in Range(measurementHistory) : m.time < first.time},
             queue' = queue \cup
               {m \in Range(measurementHistory) :
                  first.time <= m.time /\ s.time <= m.time},
             estimate' = s.estimate, lastMeasurementTime' = s.time
      PROVE  StampInv'
  <2>1. initialized /\ Fused' = Range(s.estimate)
    BY <1>2, <1>9 DEF NothingSaved, Range, Fused
  <2>2. NothingSaved'
    BY <1>1, <2>1 DEF NothingSaved
  <2>3. EstimatesArePast'
    BY <1>2, <1>9, <2>1 DEF EstimatesArePast
  <2>4. HistoryCovered'
    <3>1. \A m \in queue', old \in Range(measurementHistory') : old.time <= m.time
      BY <1>3, <1>7, <1>9 DEF IsTop
    <3>2. first \in queue' /\ Due(first)'
      BY <1>1, <1>3, <1>4, <1>7, <1>9 DEF Due
    <3> QED  BY <1>1, <1>9, <3>1, <3>2 DEF HistoryCovered
  <2>5. QueueIsNext'
    <3>1. CASE Range(stateHistory') = {}
      BY <3>1 DEF QueueIsNext
    <3>2. CASE s \in Range(stateHistory')
      <4>1. s.time < first.time
        BY <1>9, <3>2
      <4>2. \A m \in queue' : lastMeasurementTime' <= m.time
        BY <1>3, <1>7, <1>9, <4>1 DEF IsTop
      <4> QED  BY <4>2 DEF QueueIsNext
    <3> QED  BY <1>9, <3>1, <3>2
  <2>6. ASSUME NEW time \in Nat, Kept(time), time <= s.time
        PROVE  Kept(time)'
    <3>1. SUFFICES ASSUME NEW x \in Range(stateHistory'), x.time < time
                   PROVE  /\ \E m \in Range(measurementHistory') : m.time = time
                          /\ \E saved \in Range(stateHistory') : saved.time = time
      BY DEF Kept
    <3>2. s \in Range(stateHistory') /\ s.time < first.time
      BY <1>9, <3>1
    <3>3. time < first.time
      BY <1>3, <1>7, <2>6, <3>2
    <3>4. /\ \E m \in Range(measurementHistory) : m.time = time
          /\ \E saved \in Range(stateHistory) : saved.time = time
      BY <1>5, <1>9, <2>6, <3>1 DEF Kept
    <3> QED  BY <1>9, <3>3, <3>4
  <2>7. StampsKept'
    <3>1. ASSUME NEW x \in Range(stateHistory), x.time <= s.time, NEW e \in Range(x.estimate)
          PROVE  Kept(e.time)'
      <4>1. e.time \in Nat /\ e.time <= s.time
        BY <1>2, <1>3, <3>1 DEF EstimatesArePast
      <4> QED  BY <1>2, <2>6, <4>1 DEF StampsKept
    <3>2. s.time <= s.time
      BY <1>3
    <3>3. \A e \in Fused' : Kept(e.time)'
      BY <2>1, <3>1, <3>2
    <3>4. \A x \in Range(stateHistory') : \A e \in Range(x.estimate) : Kept(e.time)'
      BY <1>9, <3>1
    <3> QED  BY <3>3, <3>4 DEF StampsKept
  <2>8. PublishedIsReached'
    <3>1. SUFFICES ASSUME DataPublished
                   PROVE  OnTheWayBack' \/ (stamp <= lastMeasurementTime' /\ Kept(stamp)')
      BY <1>1, <1>2, <1>6 DEF PublishedIsReached, DataPublished, Kept
    <3>2. stamp <= lastMeasurementTime /\ Kept(stamp)
      BY <1>2, <1>5, <1>6, <3>1 DEF PublishedIsReached
    <3>3. CASE stamp <= s.time
      BY <1>9, <2>6, <3>2, <3>3
    <3>4. CASE s.time < stamp
      <4>1. PICK m \in Range(measurementHistory), saved \in Range(stateHistory) :
              m.time = stamp /\ saved.time = stamp
        BY <1>5, <3>2, <3>4 DEF Kept
      <4>2. first.time <= stamp
        BY <1>3, <1>7, <1>9, <3>4, <4>1
      <4>3. m \in queue'
        BY <1>3, <1>9, <3>4, <4>1, <4>2
      <4>4. Due(m)'
        BY <1>1, <1>3, <1>4, <3>2, <4>1 DEF Due
      <4>5. lastMeasurementTime' <= published'.stamp
        BY <1>3, <1>6, <1>9, <3>4
      <4> QED  BY <1>1, <1>6, <4>1, <4>3, <4>4, <4>5 DEF OnTheWayBack
    <3> QED  BY <1>3, <3>3, <3>4
  <2> QED  BY <2>2, <2>3, <2>4, <2>5, <2>7, <2>8 DEF StampInv
<1> QED  BY <1>7, <1>8, <1>9
LEMMA ClosingKeepsStamps ==
  ASSUME TypeOK, ClockInv, StampInv, CloseCycle
  PROVE  StampInv'
<1>1. /\ phase = "publish" /\ phase' = "spin"
      /\ UNCHANGED <<queue, initialized, lastMeasurementTime, estimate>>
      /\ Fused' = Fused
      /\ IF initialized THEN PublishEstimate ELSE UNCHANGED outputVars
  BY DEF CloseCycle, filterVars, Fused
<1>2. /\ NothingSaved /\ EstimatesArePast /\ HistoryCovered /\ QueueIsNext
      /\ StampsKept /\ PublishedIsReached
  BY DEF StampInv
<1>3. /\ lastMeasurementTime \in Nat /\ published.stamp \in Nat
      /\ \A x \in Fused \cup Range(measurementHistory) : x.time \in Nat
      /\ \A s \in Range(stateHistory) : s.time \in Nat
  BY HeldAreTyped, TimesAreNat
<1>4. ~Pending /\ ~OnTheWayBack
  BY <1>1 DEF Pending, OnTheWayBack
<1>5. /\ InOrder(measurementHistory') /\ InOrder(stateHistory')
      /\ ~SmoothLaggedData => UNCHANGED <<measurementHistory, stateHistory>>
      /\ \E cutoff \in Int :
           /\ Range(measurementHistory') =
                {m \in Range(measurementHistory) : cutoff <= m.time}
           /\ Range(stateHistory') = {s \in Range(stateHistory) : cutoff <= s.time}
  <2>1. InOrder(measurementHistory) /\ InOrder(stateHistory)
    BY <1>2 DEF EstimatesArePast, HistoryCovered
  <2>2. CASE SmoothLaggedData
    BY <2>1, <2>2, ExpiryCuts
  <2>3. CASE ~SmoothLaggedData
    <3>1. /\ UNCHANGED <<measurementHistory, stateHistory>>
          /\ measurementHistory = <<>> /\ stateHistory = <<>>
      BY <1>2, <2>3 DEF CloseCycle, NothingSaved
    <3>2. Range(measurementHistory) = {} /\ Range(stateHistory) = {}
      BY <3>1 DEF Range
    <3>3. 0 \in Int
      OBVIOUS
    <3> QED  BY <2>1, <3>1, <3>2, <3>3
  <2> QED  BY <2>2, <2>3
<1>6. PICK cutoff \in Int :
        /\ Range(measurementHistory') =
             {m \in Range(measurementHistory) : cutoff <= m.time}
        /\ Range(stateHistory') = {s \in Range(stateHistory) : cutoff <= s.time}
  BY <1>5
<1>7. NothingSaved'
  <2>1. ASSUME ~initialized
        PROVE  /\ measurementHistory' = <<>> /\ stateHistory' = <<>>
               /\ published'.estimate = <<>>
    <3>1. measurementHistory = <<>> /\ stateHistory = <<>>
      BY <1>2, <2>1 DEF NothingSaved
    <3>2. Range(measurementHistory') = {} /\ Range(stateHistory') = {}
      BY <1>6, <3>1 DEF Range
    <3>3. measurementHistory' \in Seq(Measurement) /\ stateHistory' \in Seq(FilterState)
      BY CloseCycleIsTyped DEF TypeOK, Measurement, FilterState
    <3>4. published' = published
      BY <1>1, <2>1 DEF outputVars
    <3> QED  BY <1>2, <2>1, <3>2, <3>3, <3>4, NoElements DEF NothingSaved
  <2> QED  BY <1>1, <1>2, <1>5, <2>1 DEF NothingSaved
<1>8. EstimatesArePast'
  BY <1>1, <1>2, <1>5, <1>6 DEF EstimatesArePast
<1>9. HistoryCovered'
  <2>1. ASSUME NEW m \in Range(measurementHistory')
        PROVE  \E s \in Range(stateHistory') : m.time <= s.time
    <3>1. m \in Range(measurementHistory) /\ cutoff <= m.time
      BY <1>6
    <3>2. PICK s \in Range(stateHistory) : m.time <= s.time
      BY <1>1, <1>2, <3>1 DEF HistoryCovered
    <3>3. cutoff <= s.time
      BY <1>3, <3>1, <3>2
    <3> QED  BY <1>6, <3>2, <3>3
  <2> QED  BY <1>1, <1>5, <2>1 DEF HistoryCovered
<1>10. QueueIsNext'
  BY <1>1 DEF QueueIsNext
<1>11. ASSUME NEW time \in Nat, Kept(time)
       PROVE  Kept(time)'
  <2>1. SUFFICES ASSUME NEW s \in Range(stateHistory'), s.time < time
                 PROVE  /\ \E m \in Range(measurementHistory') : m.time = time
                        /\ \E saved \in Range(stateHistory') : saved.time = time
    BY DEF Kept
  <2>2. /\ \E m \in Range(measurementHistory) : m.time = time
        /\ \E saved \in Range(stateHistory) : saved.time = time
    BY <1>4, <1>6, <1>11, <2>1 DEF Kept
  <2>3. cutoff <= time
    BY <1>3, <1>6, <2>1
  <2> QED  BY <1>6, <2>2, <2>3
<1>12. StampsKept'
  <2>1. \A s \in Range(stateHistory) : \A e \in Range(s.estimate) : e.time \in Nat
    BY HeldAreTyped
  <2> QED  BY <1>1, <1>2, <1>3, <1>6, <1>11, <2>1 DEF StampsKept
<1>13. PublishedIsReached'
  <2>1. SUFFICES ASSUME DataPublished'
                 PROVE  /\ published'.stamp <= lastPublishedStamp'
                        /\ published'.stamp <= lastMeasurementTime'
                        /\ Kept(published.stamp)'
    BY DEF PublishedIsReached
  <2>2. CASE published' = published
    <3>1. /\ published.stamp <= lastPublishedStamp
          /\ published.stamp <= lastMeasurementTime /\ Kept(published.stamp)
      BY <1>2, <1>4, <2>1, <2>2 DEF PublishedIsReached, DataPublished
    <3>2. initialized
      BY <1>2, <2>1, <2>2 DEF NothingSaved, DataPublished, Range
    <3>3. lastPublishedStamp' = lastMeasurementTime
      BY <1>1, <3>2 DEF PublishEstimate
    <3>4. PICK stamp \in Nat : stamp = published.stamp
      BY <1>3
    <3>5. Kept(stamp)'
      BY <1>11, <3>1, <3>4
    <3> QED  BY <1>1, <2>2, <3>1, <3>3, <3>4, <3>5 DEF Kept
  <2>3. CASE published' # published
    <3>1. /\ lastPublishedStamp' = lastMeasurementTime
          /\ published' = [stamp |-> lastMeasurementTime, estimate |-> estimate]
      BY <1>1, <2>3 DEF PublishEstimate, outputVars
    <3>2. PICK m \in Fused : m.time = lastMeasurementTime
      BY <2>1, <3>1 DEF DataPublished, Fused
    <3>3. PICK stamp \in Nat : stamp = lastMeasurementTime
      BY <1>3
    <3>4. Kept(stamp)'
      BY <1>2, <1>11, <3>2, <3>3 DEF StampsKept
    <3> QED  BY <1>1, <1>3, <3>1, <3>3, <3>4 DEF Kept
  <2> QED  BY <2>2, <2>3
<1> QED
  BY <1>7, <1>8, <1>9, <1>10, <1>12, <1>13 DEF StampInv

(* Steps that fold nothing in and go back to nothing. *)
LEMMA OthersKeepStamps ==
  ASSUME TypeOK, StampInv, HistoryCovered', QueueIsNext',
         UNCHANGED <<measurementHistory, stateHistory, estimate, initialized, outputVars>>,
         lastMeasurementTime' \in Nat, lastMeasurementTime <= lastMeasurementTime',
         \/ ~Pending /\ ~OnTheWayBack
         \/ UNCHANGED <<phase, currentTime, queue, lastMeasurementTime>>
  PROVE  StampInv'
<1>1. /\ NothingSaved /\ EstimatesArePast /\ StampsKept /\ PublishedIsReached
      /\ Fused' = Fused /\ UNCHANGED <<published, lastPublishedStamp>>
  BY DEF StampInv, Fused, outputVars
<1>2. /\ lastMeasurementTime \in Nat /\ published.stamp \in Nat
      /\ \A e \in Fused : e.time \in Nat
      /\ \A s \in Range(stateHistory) :
           s.time \in Nat /\ \A e \in Range(s.estimate) : e.time \in Nat
  BY HeldAreTyped, TimesAreNat
<1>3. NothingSaved'
  BY <1>1 DEF NothingSaved
<1>4. EstimatesArePast'
  BY <1>1, <1>2 DEF EstimatesArePast
<1>5. (Pending => Pending' /\ lastMeasurementTime' = lastMeasurementTime)
      /\ (OnTheWayBack => OnTheWayBack')
  BY <1>1 DEF Pending, OnTheWayBack, Due
<1>6. ASSUME NEW time, Kept(time)
      PROVE  Kept(time)'
  BY <1>5, <1>6 DEF Kept
<1>7. StampsKept'
  BY <1>1, <1>6 DEF StampsKept
<1>8. PublishedIsReached'
  <2>1. PICK stamp \in Nat : stamp = published.stamp
    BY <1>2
  <2>2. SUFFICES ASSUME DataPublished
                 PROVE  OnTheWayBack' \/ (stamp <= lastMeasurementTime' /\ Kept(stamp)')
    BY <1>1, <2>1 DEF PublishedIsReached, DataPublished, Kept
  <2>3. OnTheWayBack \/ (stamp <= lastMeasurementTime /\ Kept(stamp))
    BY <1>1, <2>1, <2>2 DEF PublishedIsReached
  <2> QED  BY <1>2, <1>5, <1>6, <2>3
<1> QED  BY <1>3, <1>4, <1>7, <1>8 DEF StampInv

LEMMA StampStep ==
  ASSUME TypeOK, ClockInv, StampInv, [Next]_vars
  PROVE  StampInv'
<1>0. /\ lastMeasurementTime \in Nat /\ lastMeasurementTime' \in Nat /\ now \in Nat
      /\ HistoryCovered /\ QueueIsNext /\ NothingSaved
  BY StepIsTyped, Bounds, TimesAreNat DEF TypeOK, StampInv
<1>1. CASE \/ \E parts \in SUBSET Channels : Receive(parts)
           \/ ControlCallback \/ EnableFilterSrvCallback
           \/ ToggleFilterProcessingCallback
           \/ DiscardMeasurements \/ IntegrateNothing
  <2>1. /\ phase = "spin" /\ phase' \in {"spin", "publish"}
        /\ UNCHANGED <<historyVars, estimate, initialized, outputVars>>
        /\ lastMeasurementTime' \in {lastMeasurementTime, now}
    BY <1>1 DEF Receive, ControlCallback, EnableFilterSrvCallback,
       ToggleFilterProcessingCallback, DiscardMeasurements, IntegrateNothing,
       OpenCycle, PredictTo, cycleVars, filterVars
  <2>2. HistoryCovered' /\ QueueIsNext' /\ ~Pending /\ ~OnTheWayBack
    BY <1>0, <2>1
    DEF HistoryCovered, QueueIsNext, Pending, OnTheWayBack, historyVars
  <2>3. lastMeasurementTime <= lastMeasurementTime'
    BY <1>0, <2>1 DEF ClockInv
  <2> QED  BY <1>0, <2>1, <2>2, <2>3, OthersKeepStamps DEF historyVars
<1>2. CASE SetPoseCallback
  <2>1. /\ phase = "spin" /\ phase' = "spin"
        /\ measurementHistory' = <<>> /\ stateHistory' = <<>> /\ estimate' = <<>>
        /\ lastMeasurementTime' = now /\ initialized' = initialized
        /\ UNCHANGED <<published, lastPublishedStamp>>
    BY <1>2 DEF SetPoseCallback, SetState, cycleVars, outputVars
  <2>2. Fused' = {} /\ Range(stateHistory') = {} /\ Range(measurementHistory') = {}
    BY <2>1 DEF Fused, Range
  <2>3. NothingSaved' /\ EstimatesArePast' /\ HistoryCovered' /\ QueueIsNext' /\ StampsKept'
    BY <1>0, <2>1, <2>2
    DEF NothingSaved, EstimatesArePast, HistoryCovered, QueueIsNext, StampsKept, InOrder
  <2>4. PublishedIsReached'
    <3>1. PublishedIsReached /\ ~OnTheWayBack /\ published.stamp \in Nat
      BY <2>1, TimesAreNat DEF StampInv, OnTheWayBack
    <3>2. lastMeasurementTime <= now
      BY DEF ClockInv
    <3> QED
      BY <1>0, <2>1, <2>2, <3>1, <3>2 DEF PublishedIsReached, DataPublished, Kept
  <2> QED  BY <2>3, <2>4 DEF StampInv
<1>3. CASE BeginIntegration
  <2>1. /\ phase = "spin" /\ phase' = "integrate" /\ queue' = queue
        /\ UNCHANGED <<historyVars, filterVars, outputVars>>
        /\ ~LaggedMeasurement
    BY <1>3 DEF BeginIntegration, OpenCycle
  <2>2. ~Pending /\ ~OnTheWayBack
    BY <2>1 DEF Pending, OnTheWayBack
  <2>3. CASE SmoothLaggedData
    <3>1. \A m \in queue : IsTop(m, queue) => m.time \in Nat /\ lastMeasurementTime <= m.time
      BY <1>0, <2>1, <2>3, HeldAreTyped DEF LaggedMeasurement
    <3>2. ASSUME NEW old \in Range(measurementHistory)
          PROVE  old.time \in Nat /\ old.time <= lastMeasurementTime
      <4>1. PICK s \in Range(stateHistory) : old.time <= s.time
        BY <1>0, <2>1 DEF HistoryCovered
      <4>2. s.time <= lastMeasurementTime
        BY DEF StampInv, EstimatesArePast
      <4> QED  BY <1>0, <4>1, <4>2, HeldAreTyped
    <3>3. HistoryCovered'
      BY <1>0, <2>1, <3>1, <3>2 DEF HistoryCovered, historyVars
    <3>4. QueueIsNext'
      BY <2>1, <3>1 DEF QueueIsNext, filterVars
    <3> QED
      BY <1>0, <2>1, <2>2, <3>3, <3>4, OthersKeepStamps DEF historyVars, filterVars
  <2>4. CASE ~SmoothLaggedData
    <3>1. /\ measurementHistory' = <<>> /\ Range(measurementHistory') = {}
          /\ Range(stateHistory') = {}
      BY <1>0, <2>1, <2>4 DEF NothingSaved, historyVars, Range
    <3>2. HistoryCovered' /\ QueueIsNext'
      BY <3>1 DEF HistoryCovered, QueueIsNext, InOrder
    <3> QED
      BY <1>0, <2>1, <2>2, <3>2, OthersKeepStamps DEF historyVars, filterVars
  <2> QED  BY <2>3, <2>4
<1>4. CASE BeginReplay
  BY <1>4, RevertKeepsStamps
<1>5. CASE IntegrateMeasurement
  BY <1>5, IntegrateKeepsStamps
<1>6. CASE EndIntegration
  <2>1. /\ phase = "integrate" /\ phase' = "publish"
        /\ UNCHANGED <<historyVars, estimate, initialized, outputVars>>
        /\ lastMeasurementTime' \in {lastMeasurementTime, currentTime}
        /\ \A m \in queue : ~Due(m)
    BY <1>6 DEF EndIntegration, PredictTo, filterVars
  <2>2. currentTime \in Nat /\ lastMeasurementTime <= currentTime
    BY <2>1, TimesAreNat DEF ClockInv
  <2>3. ~Pending /\ ~OnTheWayBack
    BY <2>1, <2>2 DEF Pending, OnTheWayBack, Due
  <2>4. HistoryCovered' /\ QueueIsNext'
    BY <1>0, <2>1 DEF HistoryCovered, QueueIsNext, historyVars
  <2> QED
    BY <1>0, <2>1, <2>2, <2>3, <2>4, OthersKeepStamps DEF historyVars
<1>7. CASE CloseCycle
  BY <1>7, ClosingKeepsStamps
<1>8. CASE Tick \/ UNCHANGED vars
  <2>1. UNCHANGED <<phase, currentTime, queue, historyVars, filterVars, outputVars>>
    BY <1>8 DEF Tick, vars, cycleVars
  <2>2. HistoryCovered' /\ QueueIsNext'
    BY <1>0, <2>1 DEF HistoryCovered, QueueIsNext, Due, historyVars, filterVars
  <2> QED
    BY <1>0, <2>1, <2>2, OthersKeepStamps DEF historyVars, filterVars
<1> QED
  BY <1>1, <1>2, <1>3, <1>4, <1>5, <1>6, <1>7, <1>8, SensorCallbacksReceive
  DEF Next, Callback, TimerStep

LEMMA StampAlways == Spec => []StampInv
<1>1. Init => StampInv
  <2> SUFFICES ASSUME Init
               PROVE  StampInv
    OBVIOUS
  <2>1. /\ estimate = <<>> /\ measurementHistory = <<>> /\ stateHistory = <<>>
        /\ published.estimate = <<>> /\ phase = "spin"
    BY DEF Init, FilterInit
  <2>2. /\ Fused = {} /\ Range(stateHistory) = {} /\ Range(measurementHistory) = {}
        /\ Range(published.estimate) = {}
    BY <2>1 DEF Fused, Range
  <2> QED
    BY <2>1, <2>2
    DEF StampInv, NothingSaved, EstimatesArePast, HistoryCovered, QueueIsNext,
        StampsKept, PublishedIsReached, DataPublished, InOrder
<1>2. TypeOK /\ ClockInv /\ StampInv /\ [Next]_vars => StampInv'
  BY StampStep
<1> QED  BY <1>1, <1>2, TypeCorrect, ClockAlways, PTL DEF Spec

(* Only the end of a cycle publishes, and what it publishes is compared with
   a stamp that is not before the published one. *)
LEMMA PublishingStep ==
  ASSUME TypeOK, StampInv, [Next]_vars, published' # published,
         ~PermitCorrectedPublication, DataPublished
  PROVE  published.stamp < published'.stamp
<1>1. CASE CloseCycle
  <2>1. published.stamp <= lastPublishedStamp
    BY DEF StampInv, PublishedIsReached
  <2>2. /\ lastPublishedStamp < lastMeasurementTime
        /\ published'.stamp = lastMeasurementTime
    BY <1>1, TimesAreNat DEF CloseCycle, PublishEstimate, CorrectedData, outputVars
  <2> QED  BY <2>1, <2>2, TimesAreNat
<1>2. CASE \/ \E parts \in SUBSET Channels : Receive(parts)
           \/ ControlCallback \/ SetPoseCallback \/ EnableFilterSrvCallback
           \/ ToggleFilterProcessingCallback \/ Tick \/ UNCHANGED vars
  BY <1>2 DEF Receive, ControlCallback, SetPoseCallback, EnableFilterSrvCallback,
     ToggleFilterProcessingCallback, Tick, vars, outputVars
<1>3. CASE \/ DiscardMeasurements \/ IntegrateNothing \/ BeginIntegration
           \/ BeginReplay \/ IntegrateMeasurement \/ EndIntegration
  BY <1>3 DEF DiscardMeasurements, IntegrateNothing, BeginIntegration,
     BeginReplay, IntegrateMeasurement, EndIntegration, outputVars
<1> QED
  BY <1>1, <1>2, <1>3, SensorCallbacksReceive DEF Next, Callback, TimerStep

(* Unless corrected publications are permitted, the stamp of a measurement
   that an estimate was published with is never published again, nor an
   earlier one: however often and however far the filter goes back, with too
   short a history, across set_pose, the toggle and predictions (the guard of
   periodicUpdate). *)
THEOREM StampsIncrease == Spec => DataStampsIncrease
<1>1. TypeOK /\ StampInv /\ [Next]_vars =>
        [published' # published /\ ~PermitCorrectedPublication /\ DataPublished
           => published.stamp < published'.stamp]_vars
  BY PublishingStep
<1> QED
  BY <1>1, StampAlways, TypeCorrect, PTL DEF Spec, DataStampsIncrease, DataPublished
-----------------------------------------------------------------------------
(* The sensor timeout.  A cycle that begins with something in the queue      *)
(* begins with something that is in no estimate published; what a replay     *)
(* puts back is due, and gone from the queue before the cycle ends.          *)

PublishedIsKnown ==
  \A m \in Range(published.estimate) : m.id \in Nat /\ m.id <= messages

QueueIsNews ==
  \A m \in queue : m \in Fused \cup Range(published.estimate) =>
    phase = "integrate" /\ Due(m)

CycleHasNews ==
  phase = "integrate" => ~(queue \cup Fused \subseteq Range(published.estimate))

TimeoutInv == PublishedIsKnown /\ QueueIsNews /\ CycleHasNews /\ TimeoutPredicts
LEMMA CycleKeepsTimeout ==
  ASSUME SensorTimeout > 0, TypeOK, ClockInv, ChannelInv, StampInv, TimeoutInv, TimerStep
  PROVE  TimeoutInv'
<1>0. /\ now \in Int /\ currentTime \in Int /\ lastMeasurementTime \in Int
      /\ SensorTimeout \in Int /\ messages \in Nat
      /\ UNCHANGED <<now, messages, toggledOn>>
      /\ PublishedIsKnown /\ QueueIsNews /\ CycleHasNews /\ TimeoutPredicts
  <2>1. /\ now \in Int /\ currentTime \in Int /\ lastMeasurementTime \in Int
        /\ messages \in Nat
    BY Bounds DEF TypeOK, Times
  <2>2. SensorTimeout \in Int
    BY NumbersAssumption
  <2>3. UNCHANGED <<now, messages, toggledOn>>
    BY DEF TimerStep, DiscardMeasurements, IntegrateNothing, BeginIntegration,
       BeginReplay, IntegrateMeasurement, EndIntegration, CloseCycle, inputVars
  <2> QED  BY <2>1, <2>2, <2>3 DEF TimeoutInv
<1>1. CASE DiscardMeasurements
  BY <1>0, <1>1
  DEF DiscardMeasurements, OpenCycle, outputVars, TimeoutInv, PublishedIsKnown,
      QueueIsNews, CycleHasNews, TimeoutPredicts
<1>2. CASE IntegrateNothing
  <2>1. PublishedIsKnown' /\ QueueIsNews' /\ CycleHasNews'
    BY <1>0, <1>2
    DEF IntegrateNothing, OpenCycle, outputVars, PublishedIsKnown, QueueIsNews, CycleHasNews
  <2>2. TimeoutPredicts'
    <3>1. currentTime' = now
      BY <1>2 DEF IntegrateNothing, OpenCycle
    <3>2. CASE initialized /\ (PredictToCurrentTime \/ SensorsTimedOut)
      <4>1. lastMeasurementTime' = now
        BY <1>2, <3>2 DEF IntegrateNothing, PredictTo
      <4> QED  BY <1>0, <3>1, <4>1 DEF TimeoutPredicts
    <3>3. CASE ~(initialized /\ (PredictToCurrentTime \/ SensorsTimedOut))
      <4>1. UNCHANGED filterVars
        BY <1>2, <3>3 DEF IntegrateNothing
      <4> QED
        BY <1>0, <3>1, <3>3, <4>1 DEF TimeoutPredicts, SensorsTimedOut, filterVars
    <3> QED  BY <3>2, <3>3
  <2> QED  BY <2>1, <2>2 DEF TimeoutInv
<1>3. CASE BeginIntegration
  <2>1. /\ phase = "spin" /\ phase' = "integrate" /\ queue # {}
        /\ UNCHANGED <<queue, published, estimate>> /\ Fused' = Fused
    BY <1>3 DEF BeginIntegration, OpenCycle, outputVars, filterVars, Fused
  <2>2. \A m \in queue : m \notin Fused \cup Range(published.estimate)
    BY <1>0, <2>1 DEF QueueIsNews
  <2> QED
    BY <1>0, <2>1, <2>2
    DEF TimeoutInv, PublishedIsKnown, QueueIsNews, CycleHasNews, TimeoutPredicts
<1>4. CASE BeginReplay
  <2>1. /\ phase = "spin" /\ phase' = "integrate" /\ currentTime' = now
        /\ published' = published
    BY <1>4, RevertingCuts DEF outputVars
  <2>2. PICK first \in queue :
          \/ stateHistory = <<>> /\ UNCHANGED <<queue, estimate>>
          \/ \E s \in Range(stateHistory) :
               /\ queue' = queue \cup
                    {m \in Range(measurementHistory) :
                       first.time <= m.time /\ s.time <= m.time}
               /\ estimate' = s.estimate
    BY <1>4, RevertingCuts
  <2>3. \A m \in queue : m \notin Fused \cup Range(published.estimate)
    BY <1>0, <2>1 DEF QueueIsNews
  <2>4. queue \subseteq queue'
    BY <2>2
  <2>5. QueueIsNews'
    <3>1. CASE stateHistory = <<>> /\ UNCHANGED <<queue, estimate>>
      BY <2>1, <2>3, <3>1 DEF QueueIsNews, Fused
    <3>2. ASSUME NEW s \in Range(stateHistory),
                 queue' = queue \cup
                   {m \in Range(measurementHistory) :
                      first.time <= m.time /\ s.time <= m.time},
                 estimate' = s.estimate
          PROVE  QueueIsNews'
      <4>1. ASSUME NEW m \in Range(measurementHistory)
            PROVE  Due(m)'
        <5>1. PICK x \in Range(stateHistory) : m.time <= x.time
          BY <2>1 DEF StampInv, HistoryCovered
        <5>2. x.time <= now
          BY DEF ClockInv
        <5> QED  BY <1>0, <2>1, <5>1, <5>2, HeldAreTyped DEF Due
      <4>2. ASSUME NEW e \in Range(s.estimate)
            PROVE  Due(e)'
        <5>1. e.time <= s.time /\ s.time <= now
          BY DEF StampInv, EstimatesArePast, ClockInv
        <5> QED  BY <1>0, <2>1, <5>1, HeldAreTyped DEF Due
      <4>3. Fused' = Range(s.estimate)
        BY <3>2 DEF Fused
      <4> QED  BY <2>1, <2>3, <3>2, <4>1, <4>2, <4>3 DEF QueueIsNews
    <3> QED  BY <2>2, <3>1, <3>2
  <2>6. CycleHasNews'
    BY <2>1, <2>2, <2>3, <2>4 DEF CycleHasNews
  <2> QED
    BY <1>0, <2>1, <2>5, <2>6 DEF TimeoutInv, PublishedIsKnown, TimeoutPredicts
<1>5. CASE IntegrateMeasurement
  <2>1. PICK m \in queue :
          /\ phase = "integrate" /\ phase' = "integrate"
          /\ UNCHANGED <<currentTime, published>>
          /\ queue' = queue \ {m} /\ Fused' = Fused \cup {m}
    BY <1>5, FoldsOne
  <2>2. QueueIsNews'
    BY <1>0, <2>1 DEF QueueIsNews, Due
  <2>3. CycleHasNews'
    BY <1>0, <2>1 DEF CycleHasNews
  <2> QED
    BY <1>0, <2>1, <2>2, <2>3 DEF TimeoutInv, PublishedIsKnown, TimeoutPredicts
<1>6. CASE EndIntegration
  <2>1. /\ phase = "integrate" /\ phase' = "publish" /\ \A m \in queue : ~Due(m)
        /\ UNCHANGED <<queue, published, estimate, currentTime>> /\ Fused' = Fused
    BY <1>6 DEF EndIntegration, PredictTo, filterVars, outputVars, Fused
  <2>2. QueueIsNews'
    BY <1>0, <2>1 DEF QueueIsNews
  <2>3. CASE queue = {}
    <3>1. estimate # published.estimate
      BY <1>0, <2>1, <2>3 DEF CycleHasNews, Fused
    <3> QED
      BY <1>0, <2>1, <2>2, <3>1
      DEF TimeoutInv, PublishedIsKnown, CycleHasNews, TimeoutPredicts
  <2>4. CASE queue # {}
    <3>1. PICK m \in queue : currentTime < m.time
      BY <1>0, <2>1, <2>4, HeldAreTyped DEF Due
    <3> QED
      BY <1>0, <2>1, <2>2, <3>1
      DEF TimeoutInv, PublishedIsKnown, CycleHasNews, TimeoutPredicts
  <2> QED  BY <2>3, <2>4
<1>7. CASE CloseCycle
  <2>1. /\ phase = "publish" /\ phase' = "spin" /\ queue' = queue /\ Fused' = Fused
        /\ published'.estimate \in {published.estimate, estimate}
    BY <1>7 DEF CloseCycle, PublishEstimate, outputVars, filterVars, Fused
  <2>2. \A m \in Fused : m.id \in Nat /\ m.id <= messages
    BY DEF ChannelInv, Known
  <2>3. PublishedIsKnown'
    BY <1>0, <2>1, <2>2 DEF PublishedIsKnown, Fused
  <2>4. QueueIsNews'
    BY <1>0, <2>1 DEF QueueIsNews, Fused
  <2> QED  BY <2>1, <2>3, <2>4 DEF TimeoutInv, CycleHasNews, TimeoutPredicts
<1> QED  BY <1>1, <1>2, <1>3, <1>4, <1>5, <1>6, <1>7 DEF TimerStep

LEMMA TimeoutStep ==
  ASSUME SensorTimeout > 0, TypeOK, ClockInv, ChannelInv, StampInv, TimeoutInv, [Next]_vars
  PROVE  TimeoutInv'
<1>0. PublishedIsKnown /\ QueueIsNews /\ CycleHasNews /\ TimeoutPredicts /\ messages \in Nat
  BY Bounds DEF TimeoutInv, TypeOK
<1>1. CASE \E parts \in SUBSET Channels : Receive(parts)
  <2>1. PICK parts \in SUBSET Channels : Receive(parts)
    BY <1>1
  <2>2. PICK stamp \in 1..MaxTime : \E prepared \in SUBSET Fresh(parts, stamp) :
          queue' = queue \cup {NewMeasurement(c, stamp) : c \in prepared}
    BY <2>1 DEF Receive
  <2>3. \A m \in queue' : m \in queue \/ m.id = messages + 1
    BY <2>2 DEF NewMeasurement
  <2>4. /\ phase = "spin" /\ phase' = "spin" /\ messages' = messages + 1
        /\ published' = published /\ Fused' = Fused
    BY <2>1 DEF Receive, cycleVars, outputVars, filterVars, Fused
  <2>5. \A m \in Fused \cup Range(published.estimate) : m.id \in Nat /\ m.id <= messages
    BY <1>0 DEF ChannelInv, Known, PublishedIsKnown
  <2>6. QueueIsNews'
    <3>1. ASSUME NEW m \in queue', m \in Fused \cup Range(published.estimate)
          PROVE  FALSE
      BY <1>0, <2>3, <2>4, <2>5, <3>1 DEF QueueIsNews
    <3> QED  BY <2>4, <3>1 DEF QueueIsNews
  <2>7. PublishedIsKnown'
    BY <1>0, <2>4 DEF PublishedIsKnown
  <2> QED  BY <2>4, <2>6, <2>7 DEF TimeoutInv, CycleHasNews, TimeoutPredicts
<1>2. CASE TimerStep
  BY <1>2, CycleKeepsTimeout
<1>3. CASE SetPoseCallback
  <2>1. phase' = "spin" /\ queue' = {} /\ UNCHANGED <<published, messages>>
    BY <1>3 DEF SetPoseCallback, cycleVars, outputVars
  <2> QED
    BY <1>0, <2>1
    DEF TimeoutInv, PublishedIsKnown, QueueIsNews, CycleHasNews, TimeoutPredicts
<1>4. CASE ControlCallback \/ EnableFilterSrvCallback \/ ToggleFilterProcessingCallback
  <2>1. /\ phase = "spin" /\ UNCHANGED <<phase, queue, published, messages>>
        /\ Fused' = Fused
    BY <1>4
    DEF ControlCallback, EnableFilterSrvCallback, ToggleFilterProcessingCallback, cycleVars,
        outputVars, filterVars, Fused
  <2> QED
    BY <1>0, <2>1
    DEF TimeoutInv, PublishedIsKnown, QueueIsNews, CycleHasNews, TimeoutPredicts
<1>5. CASE Tick \/ UNCHANGED vars
  <2>1. UNCHANGED <<phase, currentTime, toggledOn, messages, queue, published, initialized,
                    lastMeasurementTime, estimate>> /\ Fused' = Fused
    BY <1>5 DEF Tick, vars, cycleVars, inputVars, outputVars, filterVars, Fused
  <2> QED
    BY <1>0, <2>1
    DEF TimeoutInv, PublishedIsKnown, QueueIsNews, CycleHasNews, TimeoutPredicts, Due
<1> QED
  BY <1>1, <1>2, <1>3, <1>4, <1>5, SensorCallbacksReceive DEF Next, Callback

(* With lag smoothing and without it, and however far ahead messages are
   stamped: an initialised node ends no cycle with the estimate it published
   before, sensor_timeout or more behind the clock, and nothing waiting for
   its time (integrateMeasurements). *)
THEOREM TimeoutIsPredicted ==
  ASSUME SensorTimeout > 0
  PROVE  Spec => []TimeoutPredicts
<1>1. Init => TimeoutInv
  BY DEF Init, FilterInit, TimeoutInv, PublishedIsKnown, QueueIsNews, CycleHasNews,
     TimeoutPredicts, Range
<1>2. TypeOK /\ ClockInv /\ ChannelInv /\ StampInv /\ TimeoutInv /\ [Next]_vars =>
        TimeoutInv'
  BY TimeoutStep
<1>3. TimeoutInv => TimeoutPredicts
  BY DEF TimeoutInv
<1> QED
  BY <1>1, <1>2, <1>3, TypeCorrect, ClockAlways, ChannelAlways, StampAlways, PTL DEF Spec
====
