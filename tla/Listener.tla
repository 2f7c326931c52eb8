------------------------------- MODULE Listener -------------------------------
(***************************************************************************)
(* RosRobotLocalizationListener (ros_robot_localization_listener.cpp) and   *)
(* the node around it (robot_localization_listener_node.cpp): it pairs the  *)
(* odometry and acceleration that a filter publishes, keeps them in an      *)
(* Estimator, and answers requests for the state of any frame that hangs    *)
(* below the robot's base, with respect to any world frame.                 *)
(*                                                                          *)
(* Time is counted in ticks, of which a second has several.  The callbacks  *)
(* and the requests are served by one thread; tf messages are received by   *)
(* another one, also while a request waits for a transform.                 *)
(***************************************************************************)
EXTENDS PlanarTransforms, Estimator, FiniteSets

CONSTANTS
  Frames, Blank,      \* names of frames, and the empty name
  Base,               \* the robot's base, child_frame_id of the odometry
  Ancestors,          \* the tree of frames, [Frames -> SUBSET Frames]
  Moving,             \* the frames that move with respect to their parents
  PoseAt(_, _),       \* a frame's pose in the root of the tree at a tick
  Headers,            \* [world, base]: the names of frames in odometry
  RobotAt(_),         \* the base's pose in the odometry's world frame
  VelocityAt(_),      \* its velocity in its own axes, and
  Turn,               \* its turn rate
  Requests,           \* requests of clients: [frame, world, time, rounded]
  TicksPerSecond,
  LastIntTick,        \* the last one that, in nanoseconds, fits an int
  Overflows,          \* what a later one becomes
  QueueSize,          \* of the synchroniser
  MaxRequests,        \* bound: requests served
  None

ASSUME TreeAssumption ==
  /\ Ancestors \in [Frames -> SUBSET Frames]
  /\ \A f \in Frames : f \notin Ancestors[f]
  /\ \A f \in Frames : \A g \in Ancestors[f] : Ancestors[g] \subseteq Ancestors[f]
  /\ \A f \in Frames : \A g, h \in Ancestors[f] :
       g = h \/ g \in Ancestors[h] \/ h \in Ancestors[g]

(* A frame and all that it hangs below. *)
Up(f) == {f} \cup Ancestors[f]

(* The world of the odometry does not hang below the robot. *)
ASSUME FramesAssumption ==
  /\ Base \in Frames /\ Blank \notin Frames /\ Moving \subseteq Frames
  /\ Headers \subseteq [world : Frames \cup {Blank}, base : {Base, Blank}]
  /\ \A h \in Headers : h.world # Blank => Base \notin Up(h.world)

ASSUME RequestsAssumption ==
  Requests \subseteq [frame : Frames, world : Frames \cup {Blank}, time : Times, rounded : BOOLEAN]

(* There is a state for each stamp at most. *)
ASSUME NumbersAssumption ==
  /\ {TicksPerSecond, QueueSize} \subseteq Nat \ {0} /\ Capacities \subseteq Nat \ {0}
  /\ {LastIntTick, MaxRequests} \subseteq Nat /\ MaxTime <= MaxStates
  /\ Overflows \subseteq Int \ {0} /\ Turn \in Int

Path(a, b) == (Up(a) \ Up(b)) \cup (Up(b) \ Up(a))

(* The pose of b in a. *)
Between(a, b, tick) == Mult(InverseOf[PoseAt(a, tick)], PoseAt(b, tick))

(* The ticks that a state is predicted for or a transform is looked up at. *)
Moments == Overflows \cup 0..(MaxTime + TicksPerSecond)

ASSUME PosesAssumption ==
  /\ None \notin Transform
  /\ \A tick \in Moments :
       /\ RobotAt(tick) \in Transform
       /\ VelocityAt(tick) \in Transform /\ VelocityAt(tick).yaw = 0
       /\ \A f \in Frames : PoseAt(f, tick) \in Transform

(* Frames with nothing between them that moves keep their places. *)
ASSUME RigidAssumption ==
  \A a, b \in Frames :
    Path(a, b) \cap Moving = {} => \A t, u \in Moments : Between(a, b, t) = Between(a, b, u)

Topics == {"odom", "accel"}

VARIABLES
  now,
  standalone,     \* it is the listener node, whose service is up before it
  publishesAccel, \* the filter's parameter publish_acceleration
  header,         \* the names of the frames in its odometry
  published,      \* last stamp that the filter published
  inbox,          \* what waits in the subscriptions, of depth 1
  tuples,         \* the synchroniser's incomplete pairs
  phase,          \* "constructing", "broken", "ready" or "crashed"
  baseFrameId, worldFrameId,    \* base_frame_id_, world_frame_id_
  stampOf,        \* the stamps of the odometry that estimator_'s states were made of
  tf,             \* tf_buffer_: last tick heard of each frame, or 0
  ancestorMap, descendantMap,   \* the static caches
  query,          \* the request in progress
  answer,         \* the last answer
  served          \* number of requests so far

pairVars == <<publishesAccel, header, published, inbox, tuples, baseFrameId, worldFrameId, stampOf>>
cacheVars == <<ancestorMap, descendantMap>>
requestVars == <<query, answer, served>>
listenerVars == <<now, standalone, phase, tf, vars, pairVars, cacheVars, requestVars>>

Waiting == [stamp : Times, topic : Topics]

ListenerInit ==
  /\ now = 0 /\ standalone \in BOOLEAN
  /\ publishesAccel \in BOOLEAN /\ header \in Headers /\ published = 0
  /\ inbox = [topic \in Topics |-> None] /\ tuples = {}
  /\ phase \in {"constructing", "broken"}
  /\ baseFrameId = Blank /\ worldFrameId = Blank
  /\ Init /\ stampOf = <<>>
  /\ tf = [f \in Frames |-> 0]
  /\ ancestorMap = {} /\ descendantMap = {}
  /\ query = None /\ answer = None /\ served = 0

-----------------------------------------------------------------------------
(* The world: time, what the filter publishes, and tf. *)

(* A filter publishes all the time; that a message is never taken, which may
   happen to any of them, stands for its silence. *)
Tick ==
  /\ now < MaxTime /\ published = now
  /\ now' = now + 1
  /\ UNCHANGED <<standalone, phase, tf, vars, pairVars, cacheVars, requestVars>>

(* A message that was not taken yet makes room for the next one. *)
Publish ==
  /\ published < now
  /\ published' = now
  /\ inbox' = [topic \in Topics |->
                  IF topic = "accel" /\ ~publishesAccel THEN None ELSE now]
  /\ UNCHANGED <<now, standalone, phase, tf, vars, publishesAccel, header, tuples,
                 baseFrameId, worldFrameId, stampOf, cacheVars, requestVars>>

(* The transform of a frame that moves is sent again and again, and any other
   holds for all times. *)
Broadcast(f) ==
  /\ Ancestors[f] # {} /\ 0 < now
  /\ tf[f] < (IF f \in Moving THEN now ELSE 1)
  /\ tf' = [tf EXCEPT ![f] = IF f \in Moving THEN now ELSE 1]
  /\ UNCHANGED <<now, standalone, phase, vars, pairVars, cacheVars, requestVars>>

-----------------------------------------------------------------------------
(* The synchroniser (message_filters' ExactTime) and its callback. *)

Floor(tick) == (tick \div TicksPerSecond) * TicksPerSecond

Oldest(ts) == CHOOSE s \in {t.stamp : t \in ts} : \A t \in ts : s <= t.stamp

WithinQueue(ts) ==
  IF Cardinality({t.stamp : t \in ts}) <= QueueSize THEN ts
  ELSE {t \in ts : t.stamp # Oldest(ts)}

(* The state's time is the stamp's whole seconds. *)
StateTime(stamp) == Floor(stamp)

(* Only the first names that are heard count. *)
First(known, heard) == IF known = Blank THEN heard ELSE known

OdomAndAccelCallback(stamp) ==
  /\ baseFrameId' = First(baseFrameId, header.base)
  /\ worldFrameId' = First(worldFrameId, header.world)
  /\ LET s == [time |-> StateTime(stamp), id |-> states + 1]
     IN Add(s) /\ received' = received \cup {s}
  /\ states' = states + 1
  /\ stampOf' = Append(stampOf, stamp)
  /\ UNCHANGED capacity

Deliver(topic) ==
  /\ phase \in {"constructing", "ready"} /\ query = None
  /\ inbox[topic] # None
  /\ inbox' = [inbox EXCEPT ![topic] = None]
  /\ LET stamp == inbox[topic]
         heard == tuples \cup {[stamp |-> stamp, topic |-> topic]}
         complete == {t.topic : t \in {u \in heard : u.stamp = stamp}} = Topics
     IN \/ /\ complete
           /\ tuples' = {t \in heard : stamp < t.stamp}
           /\ OdomAndAccelCallback(stamp)
        \/ /\ ~complete
           /\ tuples' = WithinQueue(heard)
           /\ UNCHANGED <<vars, baseFrameId, worldFrameId, stampOf>>
  /\ UNCHANGED <<now, standalone, phase, tf, publishesAccel, header, published, cacheVars, requestVars>>

(* The constructor waits for the name of the base. *)
Return ==
  /\ phase = "constructing" /\ baseFrameId # Blank
  /\ phase' = "ready"
  /\ UNCHANGED <<now, standalone, tf, vars, pairVars, cacheVars, requestVars>>

-----------------------------------------------------------------------------
(* The tree of frames as far as it is known. *)

(* What is known above a frame: as far as every step up has been heard of. *)
Above(f) == {g \in Up(f) : \A h \in Up(f) : g \in Ancestors[h] => tf[h] > 0}

(* A transform at tick 0 is the latest one. *)
Available(a, b, tick) ==
  /\ Above(a) \cap Above(b) # {}
  /\ tick # 0 => \A f \in Path(a, b) \cap Moving : 0 < tick /\ tick <= tf[f]

Latest(a, b) ==
  IF Path(a, b) \cap Moving = {} THEN 0
  ELSE CHOOSE t \in {tf[f] : f \in Path(a, b) \cap Moving} :
         \A f \in Path(a, b) \cap Moving : t <= tf[f]

PoseIn(a, b, tick) == Between(a, b, IF tick = 0 THEN Latest(a, b) ELSE tick)

(* The time of a lookup goes through an int of nanoseconds. *)
LookupTicks(time) == IF time <= LastIntTick THEN {time} ELSE Overflows

(* findAncestor, with what it adds to the caches. *)
FindSwapped(source, target, found) ==  \* mutant: the wrong way up
  /\ found = (source \in Above(target))
  /\ UNCHANGED <<ancestorMap, descendantMap>>
FindAncestor(source, target, found) ==
  LET pair == <<source, target>>
      isAncestor == target \in Above(source)
      isDescendant == source \in Above(target)
      cached == pair \in ancestorMap \cup descendantMap
  IN /\ found = IF cached THEN pair \in ancestorMap ELSE isAncestor
     /\ ancestorMap' = ancestorMap \cup IF isAncestor /\ ~cached THEN {pair} ELSE {}
     /\ descendantMap' = descendantMap \cup IF isDescendant /\ ~cached THEN {pair} ELSE {}

-----------------------------------------------------------------------------
(* getState. *)

Refused == [ok |-> FALSE, request |-> query.request, for |-> query.for]

Answered(given) == answer' = given /\ query' = None

(* Overload for rclcpp::Time: a time is cut to whole seconds, and time 0
   means now. *)
MeantTime(r) == IF r.rounded /\ r.time = 0 THEN now ELSE r.time
NextSecond(r) ==  \* mutant: rounded up
  IF r.rounded THEN Floor(MeantTime(r)) + TicksPerSecond ELSE r.time
RequestTime(r) ==
  IF r.rounded THEN Floor(MeantTime(r)) ELSE r.time

(* The tick that the estimator's answer is a prediction for: as far from the
   stamp of the state it starts from as the request is from that state's
   time.  The prediction itself is taken to be right. *)
PredictedTick(time) ==
  LET from == GetState(time).from
  IN stampOf[from.id] + (time - from.time)

(* A request that comes before the listener node has its listener, or after a
   constructor that did not make an estimator, dereferences a null pointer. *)
Crash ==
  /\ \/ standalone /\ phase = "constructing"
     \/ phase = "broken"
  /\ phase' = "crashed"
  /\ UNCHANGED <<now, standalone, tf, vars, pairVars, cacheVars, requestVars>>

FramesKnown == baseFrameId # Blank /\ worldFrameId # Blank

(* The listener node leaves the world frame blank and passes a Time. *)
Clients == IF standalone THEN {r \in Requests : r.world = Blank /\ r.rounded} ELSE Requests

Asked(r) ==
  LET time == RequestTime(r)
  IN [request |-> r, for |-> MeantTime(r), time |-> time, at |-> PredictedTick(time),
      world |-> None]

Ask ==
  /\ phase = "ready" /\ query = None /\ served < MaxRequests
  /\ served' = served + 1
  /\ \E r \in Clients :
       LET q == Asked(r)
           defaultWorld == r.world \in {Blank, worldFrameId}
           base == [ok |-> TRUE, request |-> r, for |-> q.for, at |-> q.at, pose |-> RobotAt(q.at),
                    velocity |-> VelocityAt(q.at), turn |-> Turn]
       IN \/ /\ ~FramesKnown
             /\ answer' = [ok |-> FALSE, request |-> r, for |-> q.for]
             /\ UNCHANGED query
          \/ /\ FramesKnown /\ r.frame = baseFrameId /\ defaultWorld
             /\ answer' = base
             /\ UNCHANGED query
          \/ /\ FramesKnown /\ ~(r.frame = baseFrameId /\ defaultWorld)
             /\ query' = [q EXCEPT !.world = IF defaultWorld THEN Identity ELSE None]
             /\ answer' = None
  /\ UNCHANGED <<now, standalone, phase, tf, vars, pairVars, cacheVars>>

(* The world frame that is asked for must not hang below the base. *)
LookUpWorld ==
  /\ query # None /\ query.world = None
  /\ \E tick \in LookupTicks(query.time), below \in BOOLEAN :
       /\ Available(query.request.world, worldFrameId, tick)
       /\ FindAncestor(query.request.world, baseFrameId, below)
       /\ \/ below /\ Answered(Refused)
          \/ /\ ~below
             /\ query' = [query EXCEPT
                  !.world = PoseIn(query.request.world, worldFrameId, tick)]
             /\ UNCHANGED answer
  /\ UNCHANGED <<now, standalone, phase, tf, vars, pairVars, served>>

Spin(turn, position) == At(-turn * position.y, turn * position.x)

Sum(a, b) == At(a.x + b.x, a.y + b.y)

(* The state of a frame whose pose in the base is target. *)
OtherWay(base, target) ==  \* mutant: the offset turns the wrong way
  Rotate(Clamp(-target.yaw), Sum(VelocityAt(base), Spin(-Turn, target)))
TargetVelocity(base, target) ==
  Rotate(Clamp(-target.yaw), Sum(VelocityAt(base), Spin(Turn, target)))

TargetState(target) ==
  [ok |-> TRUE, request |-> query.request, for |-> query.for, at |-> query.at,
   pose |-> Mult(query.world, Mult(RobotAt(query.at), target)),
   velocity |-> TargetVelocity(query.at, target), turn |-> Turn]

(* The frame that is asked for has to hang below the base. *)
LookUpTarget ==
  /\ query # None /\ query.world # None
  /\ \E tick \in LookupTicks(query.time), below \in BOOLEAN :
       /\ Available(baseFrameId, query.request.frame, tick)
       /\ FindAncestor(query.request.frame, baseFrameId, below)
       /\ Answered(IF below THEN TargetState(PoseIn(baseFrameId, query.request.frame, tick))
                   ELSE Refused)
  /\ UNCHANGED <<now, standalone, phase, tf, vars, pairVars, served>>

(* A transform that does not come in time. *)
TimeOut ==
  /\ query # None
  /\ \E tick \in LookupTicks(query.time) :
       IF query.world = None THEN ~Available(query.request.world, worldFrameId, tick)
       ELSE ~Available(baseFrameId, query.request.frame, tick)
  /\ Answered(Refused)
  /\ UNCHANGED <<now, standalone, phase, tf, vars, pairVars, cacheVars, served>>

ListenerNext ==
  \/ Tick \/ Publish \/ \E f \in Frames : Broadcast(f)
  \/ \E topic \in Topics : Deliver(topic)
  \/ Return \/ Ask \/ LookUpWorld \/ LookUpTarget \/ TimeOut \/ Crash

ListenerSpec == ListenerInit /\ [][ListenerNext]_listenerVars

-----------------------------------------------------------------------------
(* Properties. *)

(* Every variable keeps to its type. *)
ListenerTypeOK ==
  /\ now \in Times /\ published \in Times
  /\ header \in Headers /\ inbox \in [Topics -> Times \cup {None}] /\ tuples \subseteq Waiting
  /\ phase \in {"constructing", "broken", "ready", "crashed"}
  /\ baseFrameId \in {Base, Blank} /\ worldFrameId \in Frames \cup {Blank}
  /\ TypeOK
  /\ Len(stampOf) = states /\ stampOf \in Seq(Times)
  /\ tf \in [Frames -> Times]
  /\ ancestorMap \cup descendantMap \subseteq Frames \X Frames
  /\ served \in 0..MaxRequests

Good == answer # None /\ answer.ok

DefaultWorld == answer.request.world \in {Blank, worldFrameId}

WorldAsked == IF DefaultWorld THEN worldFrameId ELSE answer.request.world

PathsMove ==
  \/ Path(Base, answer.request.frame) \cap Moving # {}
  \/ Path(WorldAsked, worldFrameId) \cap Moving # {}

(* The moment that is answered for: the requested one, or the beginning of its
   second if the request went through the overload for rclcpp::Time. *)
AnsweredFor == IF answer.request.rounded THEN Floor(answer.for) ELSE answer.for

(* What odomAndAccelCallback cut off the stamps of the states. *)
CutOff == {stampOf[k] - Floor(stampOf[k]) : k \in DOMAIN stampOf}

(* An answer is the true state at the requested time but for two errors: the
   whole of it is early by what the overload of getState cut off the time, and
   the robot in it is late by what was cut off the stamp of one state.  The
   cuts do not add up over states, and the frames are not seen at yet another
   time.  For frames that move it is so after the first second, as long as the
   time fits an int.  The header (ros_robot_localization_listener.hpp)
   promises the state at the requested time, without either error. *)
AnswersWereTrue ==
  Good /\ (PathsMove => AnsweredFor \in 1..LastIntTick) =>
    \E late \in CutOff :
      answer.pose = Mult(Between(WorldAsked, worldFrameId, AnsweredFor),
                      Mult(RobotAt(AnsweredFor + late),
                        Between(Base, answer.request.frame, AnsweredFor)))

(* Of all pairs whose stamps lie in one second the estimator keeps the state
   of the first one, as long as it keeps any: it is not replaced, nor joined
   by a later one, although all have the same time to the estimator
   (odomAndAccelCallback, setState). *)
FirstOfSecondIsKept ==
  \A s \in Range(stateBuffer), k \in DOMAIN stampOf :
    Floor(stampOf[k]) = s.time => stampOf[s.id] <= stampOf[k]

(* The velocity of a frame is the one that its point of the robot's rigid
   body has in the world, seen along the frame's own axes. *)
TwistIsRigid ==
  Good /\ DefaultWorld =>
    LET base == RobotAt(answer.at)
        arm == At(answer.pose.x - base.x, answer.pose.y - base.y)
    IN Rotate(answer.pose.yaw, answer.velocity) =
         Sum(Rotate(base.yaw, VelocityAt(answer.at)), Spin(Turn, arm))

(* An answer is only given for a frame that hangs below the base, in a world
   that does not, whether that comes out of the tree or out of the caches,
   and however little of the tree was known when the caches were filled. *)
OnlyBelowBase ==
  Good =>
    /\ Base \in Above(answer.request.frame)
    /\ DefaultWorld \/ Base \notin Above(answer.request.world)

-----------------------------------------------------------------------------
(* What the documentation says and the code does not do. *)

(* The tree allows the request in progress, and every transform that it needs
   is there at the requested time. *)
Answerable ==
  LET r == query.request
  IN /\ Base \in Above(r.frame) /\ (r.world # Blank => Base \notin Above(r.world))
     /\ 0 < query.time
     /\ Available(Base, r.frame, query.time)
     /\ r.world # Blank => Available(r.world, worldFrameId, query.time)

(* "the state at the requested time" (ros_robot_localization_listener.hpp): it
   is not refused when all there is to know for that time is known. *)
KnownFramesAreAnswered ==
  [][query # None /\ query' = None /\ Answerable => answer'.ok]_listenerVars

=============================================================================
