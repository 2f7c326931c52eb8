------------------------------ MODULE Estimator ------------------------------
(***************************************************************************)
(* RobotLocalizationEstimator (robot_localization_estimator.cpp): a ring    *)
(* buffer of filter states, ordered by their time stamps, from which the    *)
(* state at any requested time is predicted.                                *)
(*                                                                          *)
(* A state is known by its time stamp and by a number that tells apart the  *)
(* states with one stamp, such as an estimate and its correction.  The      *)
(* buffer is a boost::circular_buffer, modelled from how it is used here.   *)
(***************************************************************************)
EXTENDS Integers, Sequences, Functions

CONSTANTS
  Capacities,  \* the sizes that the buffer may be given
  MaxTime,     \* bound: last time stamp
  MaxStates    \* bound: number of states set

ASSUME CapacityAssumption == Capacities \subseteq Nat

ASSUME BoundsAssumption == {MaxTime, MaxStates} \subseteq Nat

VARIABLES
  stateBuffer,  \* state_buffer_
  capacity,     \* state_buffer_.capacity()
  states,       \* number of calls of setState so far
  (* what was set, and what the buffer held, since it was last cleared or
     given a size; influences nothing *)
  received

vars == <<stateBuffer, capacity, states, received>>

Times == 0..MaxTime

EstimatorState == [time : Times, id : 1..MaxStates]

TypeOK ==
  /\ stateBuffer \in Seq(EstimatorState)
  /\ capacity \in Capacities
  /\ Len(stateBuffer) <= capacity
  /\ states \in 0..MaxStates
  /\ received \subseteq EstimatorState

Init ==
  /\ stateBuffer = <<>>
  /\ capacity \in Capacities
  /\ states = 0
  /\ received = {}

-----------------------------------------------------------------------------
(* The ring buffer. *)

Full == Len(stateBuffer) = capacity

(* When the buffer is full its first element makes room. *)
Room == IF Full THEN 2 ELSE 1

PushBack(s) ==
  IF capacity = 0 THEN stateBuffer
  ELSE Append(SubSeq(stateBuffer, Room, Len(stateBuffer)), s)

(* Nothing makes room at the very beginning of a full buffer. *)
InsertAnyway(i, s) ==  \* mutant: the beginning is taken like any other place
  SubSeq(stateBuffer, Room, i - 1) \o <<s>> \o SubSeq(stateBuffer, i, Len(stateBuffer))
Insert(i, s) ==
  IF Full /\ i = 1 THEN stateBuffer
  ELSE SubSeq(stateBuffer, Room, i - 1) \o <<s>>
         \o SubSeq(stateBuffer, i, Len(stateBuffer))

(* The buffer keeps its first elements when it is made smaller. *)
Shrunk(c) == IF c < Len(stateBuffer) THEN SubSeq(stateBuffer, 1, c) ELSE stateBuffer

-----------------------------------------------------------------------------
(* Operations. *)

Newest == stateBuffer[Len(stateBuffer)]

LaterThanAll(s) == stateBuffer # <<>> => s.time > Newest.time

(* The place of a state is before the first one that is later than it. *)
Place(i, s) ==
  /\ s.time < stateBuffer[i].time
  /\ \A j \in 1..(i - 1) : stateBuffer[j].time <= s.time

(* A state later than all others goes to the back, and an older one to its
   place.  A state with the stamp of the newest one is dropped. *)
AddAtBack(s) == stateBuffer' = PushBack(s)  \* mutant: the order is not kept
AddOnlyLater(s) ==  \* mutant: an older state is dropped
  stateBuffer' = IF LaterThanAll(s) THEN PushBack(s) ELSE stateBuffer
Add(s) ==
  \/ LaterThanAll(s) /\ stateBuffer' = PushBack(s)
  \/ /\ ~LaterThanAll(s)
     /\ \E i \in DOMAIN stateBuffer : Place(i, s) /\ stateBuffer' = Insert(i, s)
  \/ /\ ~LaterThanAll(s)
     /\ \A i \in DOMAIN stateBuffer : ~Place(i, s)
     /\ UNCHANGED stateBuffer

SetState ==
  /\ states < MaxStates
  /\ states' = states + 1
  /\ \E t \in Times : LET s == [time |-> t, id |-> states + 1]
                      IN Add(s) /\ received' = received \cup {s}
  /\ UNCHANGED capacity

ClearBuffer ==
  /\ stateBuffer' = <<>>
  /\ received' = {}
  /\ UNCHANGED <<capacity, states>>

SetBufferCapacity ==
  /\ capacity' \in Capacities
  /\ stateBuffer' = Shrunk(capacity')
  /\ received' = Range(stateBuffer')
  /\ UNCHANGED states

Next == SetState \/ ClearBuffer \/ SetBufferCapacity

Spec == Init /\ [][Next]_vars

(* The answer to a request: how it was found and the state it starts from.
   The buffer is searched from its newest state.  There is no interpolation
   yet: the state before the requested time is extrapolated. *)
Answer(how, i) == [how |-> how, from |-> stateBuffer[i]]

LastUpTo(i, t) ==
  stateBuffer[i].time <= t /\ \A j \in (i + 1)..Len(stateBuffer) : stateBuffer[j].time > t

GetState(t) ==
  IF \E i \in DOMAIN stateBuffer : LastUpTo(i, t)
  THEN LET i == CHOOSE k \in DOMAIN stateBuffer : LastUpTo(k, t)
       IN Answer(IF stateBuffer[i].time = t THEN "Exact"
                 ELSE IF i < Len(stateBuffer) THEN "Interpolation"
                 ELSE "ExtrapolationIntoFuture", i)
  ELSE Answer("ExtrapolationIntoPast", 1)

-----------------------------------------------------------------------------
(* Properties. *)

(* The buffer is ordered by time whatever order the states came in, which is
   what getState relies on when it stops at the first state early enough. *)
BufferIsOrdered ==
  \A i, j \in DOMAIN stateBuffer : i < j => stateBuffer[i].time <= stateBuffer[j].time

(* A state that is missing was either too old for a full buffer or had the
   stamp of a state that was there (setState): apart from a change of the
   buffer's size, a state is lost for no other reason. *)
MissingIsOld ==
  \A s \in received \ Range(stateBuffer) :
    \/ Full /\ (stateBuffer # <<>> => s.time <= stateBuffer[1].time)
    \/ \E other \in Range(stateBuffer) : other.time = s.time

(* The answer to a request starts from the nearest state received: none lies
   between it and the requested time.  Only a full buffer, which may have
   dropped that state, answers from a later one although there was one. *)
AnswerIsNearest ==
  stateBuffer # <<>> =>
    \A t \in Times :
      LET from == GetState(t).from
      IN IF from.time <= t
         THEN \A s \in received : s.time <= from.time \/ t < s.time
         ELSE ~Full => \A s \in received : t < s.time /\ from.time <= s.time

(* An answer is not called exact unless a state with that very stamp is the
   one it was made from, and not interpolated unless it lies between two. *)
AnswersAreNamed ==
  stateBuffer # <<>> =>
    \A t \in Times :
      LET a == GetState(t)
      IN /\ a.how = "Exact" <=> \E s \in Range(stateBuffer) : s.time = t
         /\ a.how = "ExtrapolationIntoFuture" <=> Newest.time < t
         /\ a.how = "ExtrapolationIntoPast" <=> t < stateBuffer[1].time

=============================================================================
