--------------------------- MODULE ReactionsProofs ---------------------------
(* Proofs about Reactions for every value of its constants: that a contact *)
(* is one gesture at most, that reactions end, and how far apart speeches  *)
(* are.                                                                    *)
EXTENDS Reactions, TLAPS

-----------------------------------------------------------------------------
(* Types.                                                                  *)

Detector == [armed : BOOLEAN, released : 0 .. 2, press : Press \cup {None}]

TouchType ==
  /\ finger \in 0 .. Far \cup {None} /\ enabled \in BOOLEAN /\ detector \in Detector
  /\ contacts \in Nat /\ gestures \in Nat

SensorType ==
  /\ sight \in [near : BOOLEAN, dark : BOOLEAN]
  /\ filter \in [active : BOOLEAN, pending : 0 .. Samples - 1]
  /\ sensing \in BOOLEAN /\ near \in BOOLEAN /\ dark \in BOOLEAN

Times == Nat \cup {None}

AutonomyType ==
  /\ emote \in Times /\ speech \in Times
  /\ nextIdle \in Times /\ nextReaction \in Nat
  /\ lastSpeech \in Times /\ nextPoll \in 0 .. Poll
  /\ shown \in Times /\ told \in Times /\ quiet \in Times

TypeOK ==
  /\ pc \in {"world", "sense", "tick", "touch"} /\ settings \in Settings
  /\ left \in [touches : Nat, changes : Nat, sights : Nat, faults : Nat]
  /\ TouchType /\ SensorType /\ AutonomyType

\* Time passes without going below zero or beyond the bound.
LEMMA TimePasses ==
  /\ \A n \in Times : Sooner(n) \in Times /\ Later(n) \in Times /\ Ended(n) \in Times
  /\ \A n \in Nat : Sooner(n) \in Nat
  /\ Sooner(None) = None /\ Later(None) = None
<1>1. Poll \in Nat /\ Longest \in Nat /\ None \notin Nat
  BY ReactionsAssumption, NoneAssumption
<1> QED
  BY <1>1 DEF Times, Sooner, Later, Ended, Least

\* What is spent of a budget.
LEMMA SpendType ==
  ASSUME left \in [touches : Nat, changes : Nat, sights : Nat, faults : Nat],
         Spend("touches") \/ Spend("changes") \/ Spend("sights") \/ Spend("faults")
  PROVE  left' \in [touches : Nat, changes : Nat, sights : Nat, faults : Nat]
BY DEF Spend

\* The TapDetector keeps its types.
LEMMA DetectorType ==
  ASSUME NEW d \in Detector
  PROVE  /\ Aged(d) \in Detector /\ Lifted(d) \in Detector /\ Fresh \in Detector
         /\ \A p \in 0 .. Far : Touched(d, p) \in Detector
<1>1. /\ {LongPress, StrokeTime, StrokeLength} \subseteq Nat \ {0} /\ Far \in Nat
      /\ None \notin Press
  BY ReactionsAssumption, NoneAssumption
<1>2. Aged(d) \in Detector
  <2>1. CASE d.press = None
    BY <2>1 DEF Aged
  <2>2. CASE d.press # None
    <3> DEFINE aged == [d.press EXCEPT !.age = Least(d.press.age + 1, Most(LongPress, StrokeTime))]
    <3>1. d.press \in Press
      BY <2>2 DEF Detector
    <3>2. Least(d.press.age + 1, Most(LongPress, StrokeTime)) \in Nat
      BY <1>1, <3>1 DEF Press, Least, Most
    <3>3. aged \in Press
      BY <3>1, <3>2 DEF Press
    <3>4. Aged(d) = [d EXCEPT !.press = aged]
      BY <2>2 DEF Aged, Detector
    <3> HIDE DEF aged
    <3> QED
      BY <3>3, <3>4 DEF Detector
  <2> QED
    BY <2>1, <2>2
<1>3. Lifted(d) \in Detector
  BY DEF Lifted, Detector
<1>4. Fresh \in Detector
  BY DEF Fresh, Detector
<1>5. ASSUME NEW p \in 0 .. Far PROVE Touched(d, p) \in Detector
  <2>1. CASE d.press = None
    <3>1. Pressed(p) \in Press
      BY DEF Pressed, Press
    <3> QED
      BY <2>1, <3>1 DEF Touched, Detector
  <2>2. CASE d.press # None
    <3> DEFINE press == Followed(d.press, p)
               fired == [press EXCEPT !.fired = @ \/ IsLong(press)]
    <3>1. d.press \in Press
      BY <2>2 DEF Detector
    <3>2. /\ Most(d.press.excursion, Between(p, d.press.at)) \in Nat
          /\ Least(d.press.distance + Between(p, d.press.last), StrokeLength) \in Nat
      BY <1>1, <3>1 DEF Press, Most, Least, Between
    <3>3. press \in Press
      BY <3>1, <3>2 DEF Followed, Press
    <3>4. Touched(d, p) = [d EXCEPT !.released = 0, !.press = fired]
      BY <2>2 DEF Touched
    <3>5. fired \in Press
      <4> HIDE DEF press
      <4> QED
        BY <3>3 DEF Press, IsLong
    <3> HIDE DEF press, fired
    <3>6. Touched(d, p) = [armed |-> d.armed, released |-> 0, press |-> fired]
      BY <3>4 DEF Detector
    <3>7. d.armed \in BOOLEAN /\ 0 \in 0 .. 2
      BY DEF Detector
    <3> QED
      BY <3>5, <3>6, <3>7 DEF Detector
  <2> QED
    BY <2>1, <2>2
<1> QED
  BY <1>2, <1>3, <1>4, <1>5

\* What the Autonomy does keeps its types.
LEMMA ReactionType ==
  ASSUME AutonomyType, settings \in Settings
  PROVE  /\ NoReaction /\ nextPoll' \in {nextPoll, 0} => AutonomyType'
         /\ \A allowed : React(allowed) /\ nextPoll' \in {nextPoll, 0} => AutonomyType'
<1>1. /\ {EmoteLife, SpeechLife, ReactionGap} \subseteq Nat /\ 0 \in 0 .. Poll
      /\ settings.pace \in Paces /\ Interval[settings.pace] \in Nat
  BY ReactionsAssumption DEF Settings
<1> QED
  BY <1>1 DEF NoReaction, React, Begin, AutonomyType, Times

LEMMA TypeStep == TypeOK /\ Next => TypeOK'
<1> SUFFICES ASSUME TypeOK, Next PROVE TypeOK'
  OBVIOUS
<1>1. /\ pc \in {"world", "sense", "tick", "touch"} /\ settings \in Settings
      /\ left \in [touches : Nat, changes : Nat, sights : Nat, faults : Nat]
      /\ TouchType /\ SensorType /\ AutonomyType
  BY DEF TypeOK
<1>2. CASE World
  <2>1. AutonomyType'
    <3>1. Elapse
      BY <1>2 DEF World
    <3>2. nextPoll' \in 0 .. Poll
      BY <1>1, <3>1, ReactionsAssumption, NoneAssumption DEF Elapse, Sooner, AutonomyType
    <3> QED
      BY <1>1, <3>1, <3>2, TimePasses DEF Elapse, AutonomyType
  <2>2. settings' \in Settings
    <3>1. \/ settings' = settings
          \/ \E s \in Switches : settings' = [settings EXCEPT ![s] = ~@]
          \/ \E p \in Paces : settings' = [settings EXCEPT !.pace = p]
          \/ \E p \in Paces : settings' = [settings EXCEPT !.speech_pace = p]
      BY <1>2 DEF World
    <3> QED
      BY <1>1, <3>1 DEF Settings, Switches
  <2>3. left' \in [touches : Nat, changes : Nat, sights : Nat, faults : Nat]
    BY <1>1, <1>2, SpendType DEF World
  <2>4. /\ detector' = Aged(detector) /\ enabled' = enabled /\ gestures' = gestures
        /\ finger' \in 0 .. Far \cup {None}
        /\ contacts' = contacts \/ contacts' = contacts + 1
    BY <1>1, <1>2 DEF World, Elapse, TouchType
  <2>5. TouchType'
    BY <1>1, <2>4, DetectorType DEF TouchType
  <2>6. SensorType'
    BY <1>1, <1>2 DEF World, SensorType
  <2> QED
    BY <1>2, <2>1, <2>2, <2>3, <2>5, <2>6 DEF World, TypeOK
<1>3. CASE Sense
  <2>1. TouchType' /\ settings' = settings /\ pc' = "tick"
    BY <1>1, <1>3 DEF Sense, TouchType, touchVars
  <2>2. left' \in [touches : Nat, changes : Nat, sights : Nat, faults : Nat]
    BY <1>1, <1>3, SpendType DEF Sense
  <2>3. AutonomyType'
    <3>1. /\ nextPoll' \in {nextPoll, 0}
          /\ NoReaction \/ React(near' /\ ~near /\ settings.sensors)
      BY <1>3 DEF Sense
    <3> QED
      BY <1>1, <3>1, ReactionType
  <2>4. SensorType'
    <3>1. NoFilter \in [active : BOOLEAN, pending : 0 .. Samples - 1]
      BY ReactionsAssumption DEF NoFilter
    <3>2. \A contrary \in BOOLEAN : Filtered(filter, contrary) \in [active : BOOLEAN, pending : 0 .. Samples - 1]
      BY <1>1, ReactionsAssumption DEF Filtered, SensorType
    <3>3. filter' \in [active : BOOLEAN, pending : 0 .. Samples - 1]
      BY <1>1, <1>3, <3>1, <3>2 DEF Sense, SensorType
    <3> QED
      BY <1>1, <1>3, <3>3 DEF Sense, SensorType
  <2> QED
    BY <1>1, <2>1, <2>2, <2>3, <2>4 DEF TypeOK
<1>4. CASE Tick
  <2>1. /\ TouchType' /\ SensorType' /\ settings' = settings /\ pc' = "touch" /\ left' = left
    BY <1>1, <1>4 DEF Tick, TouchType, SensorType, touchVars, sensorVars
  <2>2. AutonomyType'
    <3>1. CASE nextPoll > 0
      BY <1>1, <1>4, <3>1, ReactionType DEF Tick
    <3>2. CASE ~(nextPoll > 0)
      <4>1. /\ {EmoteLife, SpeechLife, FirstIdle, Poll} \subseteq Nat
            /\ settings.pace \in Paces /\ Interval[settings.pace] \in Nat
        BY <1>1, ReactionsAssumption DEF Settings
      <4>2. /\ nextPoll' = Poll /\ nextReaction' = nextReaction
            /\ \/ /\ emote' \in {None, Ended(emote)}
                  /\ speech' \in {None, Ended(speech)}
                  /\ nextIdle' \in {Interval[settings.pace], FirstIdle, nextIdle}
                  /\ UNCHANGED <<lastSpeech, shown, told, quiet>>
               \/ Begin(Ended(speech)) \/ BeginSilently
        BY <1>4, <3>2 DEF Tick
      <4>3. Ended(emote) \in Times /\ Ended(speech) \in Times /\ None \in Times
        BY <1>1, TimePasses DEF AutonomyType, Times
      <4>4. /\ emote' \in Times /\ speech' \in Times /\ nextIdle' \in Times
            /\ lastSpeech' \in Times /\ shown' \in Times /\ told' \in Times /\ quiet' \in Times
        BY <1>1, <4>1, <4>2, <4>3 DEF AutonomyType, Begin, BeginSilently, Times
      <4> QED
        BY <1>1, <4>1, <4>2, <4>4 DEF AutonomyType
    <3> QED
      BY <3>1, <3>2
  <2> QED
    BY <1>1, <2>1, <2>2 DEF TypeOK
<1>5. CASE Touch
  <2>1. /\ SensorType' /\ settings' = settings /\ pc' = "world"
    BY <1>1, <1>5 DEF Touch, SensorType, sensorVars
  <2>2. left' \in [touches : Nat, changes : Nat, sights : Nat, faults : Nat]
    BY <1>1, <1>5, SpendType DEF Touch
  <2>3. AutonomyType'
    BY <1>1, <1>5, ReactionType DEF Touch
  <2>4. TouchType'
    <3>1. /\ finger' = finger /\ contacts' = contacts
          /\ enabled' \in BOOLEAN
          /\ \/ gestures' = gestures
             \/ gestures' = gestures + 0 \/ gestures' = gestures + 1
          /\ \/ detector' = detector \/ detector' = Fresh
             \/ finger = None /\ detector' = Lifted(detector)
             \/ finger # None /\ detector' = Touched(detector, finger)
      BY <1>1, <1>5 DEF Touch, TouchType
    <3>2. detector' \in Detector
      BY <1>1, <3>1, DetectorType DEF TouchType
    <3> QED
      BY <1>1, <3>1, <3>2 DEF TouchType
  <2> QED
    BY <1>1, <2>1, <2>2, <2>3, <2>4 DEF TypeOK
<1> QED
  BY <1>2, <1>3, <1>4, <1>5 DEF Next

\* The state keeps its types: no time goes below zero, and the Hysteresis turns round
\* before its count reaches Samples.
THEOREM TypeCorrect == Spec => []TypeOK
<1>1. Init => TypeOK
  <2> SUFFICES ASSUME Init PROVE TypeOK
    OBVIOUS
  <2>1. Fresh \in Detector /\ NoFilter \in [active : BOOLEAN, pending : 0 .. Samples - 1]
    BY ReactionsAssumption DEF Fresh, Detector, NoFilter
  <2>2. settings \in Settings /\ left \in [touches : Nat, changes : Nat, sights : Nat, faults : Nat]
    BY ReactionsAssumption DEF Init
  <2>3. 0 \in 0 .. Poll
    BY ReactionsAssumption
  <2> QED
    BY <2>1, <2>2, <2>3 DEF Init, TypeOK, TouchType, SensorType, AutonomyType, Times
<1>2. TypeOK /\ [Next]_vars => TypeOK'
  BY TypeStep DEF vars, touchVars, sensorVars, autonomy, TypeOK, TouchType, SensorType, AutonomyType
<1> QED
  BY <1>1, <1>2, PTL DEF Spec

-----------------------------------------------------------------------------
(* Touches.                                                                *)

\* The contact that is not a gesture yet: one that is being followed and has not been long,
\* or one that the detector has yet to see.
Pending(d, f) ==
  \/ d.press # None /\ ~d.press.fired
  \/ d.press = None /\ d.armed /\ f # None

Owed == IF Pending(detector, finger) THEN 1 ELSE 0

TouchesCounted == gestures + Owed <= contacts

\* A sample of the panel makes a gesture only of a contact that was owed one.
LEMMA SampleOwed ==
  ASSUME NEW d \in Detector, NEW f \in 0 .. Far \cup {None}
  PROVE  LET gesture == IF f = None THEN LiftedGesture(d) ELSE TouchedGesture(d, f)
             next    == IF f = None THEN Lifted(d) ELSE Touched(d, f)
         IN  /\ gesture # "none" => Pending(d, f) /\ ~Pending(next, f)
             /\ Pending(next, f) => Pending(d, f)
<1>1. CASE f = None
  <2>1. CASE d.released + 1 < 2
    <3>1. Lifted(d) = [d EXCEPT !.released = @ + 1] /\ LiftedGesture(d) = "none"
      BY <2>1 DEF Lifted, LiftedGesture
    <3>2. Lifted(d).press = d.press /\ Lifted(d).armed = d.armed
      BY <3>1 DEF Detector
    <3> QED
      BY <1>1, <3>1, <3>2 DEF Pending
  <2>2. CASE ~(d.released + 1 < 2)
    <3>1. Lifted(d).press = None
      BY <2>2 DEF Lifted
    <3>2. LiftedGesture(d) # "none" => d.press # None /\ ~d.press.fired
      <4>1. CASE d.press = None
        BY <4>1 DEF LiftedGesture
      <4>2. CASE d.press # None
        BY <4>2 DEF LiftedGesture
      <4> QED
        BY <4>1, <4>2
    <3> QED
      BY <1>1, <3>1, <3>2 DEF Pending
  <2> QED
    BY <2>1, <2>2
<1>2. CASE f # None
  <2>1. f \in 0 .. Far
    BY <1>2
  <2>2. CASE d.press = None
    <3>1. TouchedGesture(d, f) = "none"
      BY <2>2 DEF TouchedGesture
    <3>2. CASE d.armed
      BY <1>2, <2>2, <3>1, <3>2 DEF Pending
    <3>3. CASE ~d.armed
      <4>1. Touched(d, f) = [d EXCEPT !.released = 0]
        BY <2>2, <3>3 DEF Touched
      <4>2. Touched(d, f).press = None /\ ~Touched(d, f).armed
        BY <2>2, <3>3, <4>1 DEF Detector
      <4> QED
        BY <1>2, <3>1, <4>2 DEF Pending
    <3> QED
      BY <3>2, <3>3 DEF Detector
  <2>3. CASE d.press # None
    <3> DEFINE press == Followed(d.press, f)
               fired == [press EXCEPT !.fired = @ \/ IsLong(press)]
    <3>1. d.press \in Press
      BY <2>3 DEF Detector
    <3>2. press \in Press /\ press.fired = d.press.fired
      <4>1. StrokeLength \in Nat /\ Far \in Nat
        BY ReactionsAssumption
      <4>2. /\ Most(d.press.excursion, Between(f, d.press.at)) \in Nat
            /\ Least(d.press.distance + Between(f, d.press.last), StrokeLength) \in Nat
        BY <2>1, <3>1, <4>1 DEF Press, Most, Least, Between
      <4> QED
        BY <2>1, <3>1, <4>2 DEF Followed, Press
    <3>3. TouchedGesture(d, f) = IF IsLong(press) THEN "long" ELSE "none"
      BY <2>3 DEF TouchedGesture
    <3>4. Touched(d, f) = [d EXCEPT !.released = 0, !.press = fired]
      BY <2>3 DEF Touched
    <3>5. IsLong(press) => ~press.fired
      BY DEF IsLong
    <3> HIDE DEF press
    <3>6. fired \in Press /\ fired.fired = (press.fired \/ IsLong(press))
      BY <3>2 DEF Press, IsLong
    <3> HIDE DEF fired
    <3>7. Touched(d, f).press = fired /\ fired # None
      BY <3>4, <3>6, NoneAssumption DEF Detector
    <3> QED
      BY <1>2, <2>3, <3>2, <3>3, <3>5, <3>6, <3>7 DEF Pending
  <2> QED
    BY <2>2, <2>3
<1> QED
  BY <1>1, <1>2

LEMMA TouchesStep ==
  ASSUME TypeOK, TouchesCounted, Next
  PROVE  TouchesCounted'
<1>1. detector \in Detector /\ finger \in 0 .. Far \cup {None} /\ contacts \in Nat /\ gestures \in Nat
  BY DEF TypeOK, TouchType
<1>2. CASE UNCHANGED <<detector, finger, contacts, gestures>>
  BY <1>2 DEF TouchesCounted, Owed
<1>3. CASE World
  <2>1. /\ detector' = Aged(detector) /\ gestures' = gestures
        /\ \/ contacts' = contacts /\ (finger' = finger \/ finger # None)
           \/ contacts' = contacts + 1
    BY <1>3 DEF World, Elapse
  <2>2. /\ Aged(detector).armed = detector.armed
        /\ detector.press = None => Aged(detector).press = None
        /\ detector.press # None => /\ Aged(detector).press # None
                                    /\ Aged(detector).press.fired = detector.press.fired
    <3>1. CASE detector.press = None
      BY <3>1 DEF Aged
    <3>2. CASE detector.press # None
      <4>1. Aged(detector) \in Detector /\ detector.press \in Press
        BY <1>1, <3>2, DetectorType DEF Detector
      <4> DEFINE press == [detector.press EXCEPT !.age = Least(@ + 1, Most(LongPress, StrokeTime))]
      <4>2. Aged(detector) = [detector EXCEPT !.press = press]
        BY <1>1, <3>2 DEF Aged, Detector
      <4>3. Least(detector.press.age + 1, Most(LongPress, StrokeTime)) \in Nat
        BY <4>1, ReactionsAssumption DEF Press, Least, Most
      <4>4. press \in Press /\ press.fired = detector.press.fired
        BY <4>1, <4>3 DEF Press
      <4> HIDE DEF press
      <4>5. Aged(detector).press = press /\ Aged(detector).armed = detector.armed
        BY <1>1, <4>2 DEF Detector
      <4> QED
        BY <3>2, <4>4, <4>5, NoneAssumption
    <3> QED
      BY <3>1, <3>2
  <2>3. CASE contacts' = contacts /\ (finger' = finger \/ finger # None)
    <3>1. Pending(detector', finger') => Pending(detector, finger)
      BY <2>1, <2>2, <2>3 DEF Pending
    <3> QED
      BY <1>1, <2>1, <2>3, <3>1 DEF TouchesCounted, Owed
  <2>4. CASE contacts' = contacts + 1
    <3>1. ~Pending(detector, finger) \/ Pending(detector, finger)
      OBVIOUS
    <3> QED
      BY <1>1, <2>1, <2>4, <3>1 DEF TouchesCounted, Owed
  <2> QED
    BY <2>1, <2>3, <2>4
<1>4. CASE Touch
  <2> DEFINE gesture == IF finger = None THEN LiftedGesture(detector)
                        ELSE TouchedGesture(detector, finger)
             next == IF finger = None THEN Lifted(detector) ELSE Touched(detector, finger)
  <2>1. /\ finger' = finger /\ contacts' = contacts
        /\ \/ detector' = next /\ gestures' = gestures + (IF gesture = "none" THEN 0 ELSE 1)
           \/ detector' = detector /\ gestures' = gestures
           \/ detector' = Fresh /\ gestures' = gestures
    BY <1>4 DEF Touch
  <2>2. /\ gesture # "none" => Pending(detector, finger) /\ ~Pending(next, finger)
        /\ Pending(next, finger) => Pending(detector, finger)
    BY <1>1, SampleOwed
  <2>3. ~Pending(Fresh, finger)
    BY DEF Pending, Fresh
  <2> HIDE DEF gesture, next
  <2> QED
    BY <1>1, <2>1, <2>2, <2>3 DEF TouchesCounted, Owed
<1> QED
  BY <1>2, <1>3, <1>4 DEF Next, Sense, Tick, touchVars

\* A contact of the finger is one gesture at most, whatever the limits of the TapDetector,
\* however long it lasts, and whatever samples are missing (TapDetector::sample).
THEOREM GestureTheorem == Spec => []OneGesturePerTouch
<1>1. Init => TouchesCounted
  BY DEF Init, TouchesCounted, Owed, Pending, Fresh
<1>2. TypeOK /\ TouchesCounted /\ [Next]_vars => TouchesCounted'
  <2>1. CASE UNCHANGED vars
    BY <2>1 DEF vars, touchVars, TouchesCounted, Owed
  <2> QED
    BY <2>1, TouchesStep
<1>3. TypeOK /\ TouchesCounted => OneGesturePerTouch
  BY DEF TypeOK, TouchType, TouchesCounted, Owed, OneGesturePerTouch
<1> QED
  BY <1>1, <1>2, <1>3, TypeCorrect, PTL DEF Spec

-----------------------------------------------------------------------------
(* Reactions and speeches.                                                 *)

\* What is on show since `since`, for `rest` ticks more, of a life of `life`: it does not
\* last longer, and when it is over it goes with the next tick of Autonomy.
EndsInTime(rest, since, life) ==
  rest # None => /\ since \in Nat
                 /\ rest > 0 => since + rest <= life
                 /\ rest = 0 => since + nextPoll <= life + Poll

\* Autonomy::tick comes before the time runs out: only at the start it may be due with
\* nothing on show.
PollAhead ==
  /\ pc = "touch" => nextPoll > 0
  /\ pc = "world" => nextPoll > 0 \/ (emote = None /\ speech = None)

InTime ==
  /\ PollAhead
  /\ EndsInTime(emote, shown, EmoteLife)
  /\ EndsInTime(speech, told, SpeechLife)

\* A tick brings what is on show nearer to its end.
LEMMA EndsNearer ==
  ASSUME NEW rest \in Times, NEW since \in Times, NEW life \in Nat, EndsInTime(rest, since, life),
         nextPoll \in 0 .. Poll, rest # None => nextPoll > 0, nextPoll' = Sooner(nextPoll)
  PROVE  LET r == Sooner(rest)
             s == Later(since)
         IN  r # None => /\ s \in Nat
                         /\ r > 0 => s + r <= life
                         /\ r = 0 => s + nextPoll' <= life + Poll
<1>1. Poll \in Nat /\ Longest \in Nat /\ None \notin Nat
  BY ReactionsAssumption, NoneAssumption
<1>2. CASE rest = None
  BY <1>2 DEF Sooner
<1>3. CASE rest # None
  <2>1. rest \in Nat /\ since \in Nat /\ nextPoll \in Nat \ {0}
    BY <1>1, <1>3 DEF Times, EndsInTime
  <2>2. nextPoll' = nextPoll - 1
    BY <1>1, <2>1 DEF Sooner
  <2>3. Later(since) \in Nat /\ Later(since) <= since + 1
    BY <1>1, <2>1 DEF Later, Least
  <2>4. Sooner(rest) = IF rest = 0 THEN 0 ELSE rest - 1
    BY <1>1, <2>1 DEF Sooner
  <2>5. CASE rest = 0
    BY <1>1, <1>3, <2>1, <2>2, <2>3, <2>4, <2>5 DEF EndsInTime
  <2>6. CASE rest > 0
    <3>1. since + rest <= life
      BY <1>3, <2>6 DEF EndsInTime
    <3>2. Sooner(rest) = rest - 1 /\ Later(since) + (rest - 1) <= life
      BY <2>1, <2>3, <2>4, <2>6, <3>1
    <3>3. nextPoll' <= Poll /\ nextPoll' \in Nat
      BY <1>1, <2>1, <2>2
    <3> DEFINE r == Sooner(rest)
               s == Later(since)
    <3>4. r \in Nat /\ s \in Nat /\ s + r <= life
      BY <2>1, <2>3, <2>6, <3>2
    <3> HIDE DEF r, s
    <3> QED
      BY <1>1, <3>3, <3>4 DEF r, s
  <2> QED
    BY <2>1, <2>5, <2>6
<1> QED
  BY <1>2, <1>3

\* A reaction that begins is in time, and so is a speech.
LEMMA BeginInTime ==
  ASSUME AutonomyType, NEW on \in {speech, Ended(speech)}, InTime,
         Begin(on) \/ BeginSilently, nextPoll' \in 0 .. Poll, nextPoll' <= nextPoll \/ on = Ended(speech)
  PROVE  /\ EndsInTime(emote, shown, EmoteLife)'
         /\ EndsInTime(speech, told, SpeechLife)'
<1>1. /\ EmoteLife \in Nat \ {0} /\ SpeechLife \in Nat \ {0} /\ Poll \in Nat \ {0}
      /\ None \notin Nat
  BY ReactionsAssumption, NoneAssumption
<1>2. emote' = EmoteLife /\ shown' = 0
  BY DEF Begin, BeginSilently
<1> DEFINE Begun(life) == 0 \in Nat /\ (life > 0 => 0 + life <= life) /\ life # 0
<1>0. \A life \in Nat \ {0} : Begun(life)
  OBVIOUS
<1>3. EndsInTime(emote, shown, EmoteLife)'
  BY <1>1, <1>2, <1>0 DEF EndsInTime
<1>4. \/ speech' = SpeechLife /\ told' = 0
      \/ speech' = None
      \/ speech' = on /\ told' = told
  BY DEF Begin, BeginSilently
<1>5. CASE speech' = SpeechLife /\ told' = 0
  BY <1>1, <1>3, <1>5, <1>0 DEF EndsInTime
<1>6. CASE speech' = None
  BY <1>3, <1>6 DEF EndsInTime
<1>7. CASE speech' = on /\ told' = told /\ on # None
  <2>1. speech \in Times /\ (speech = 0 => on = speech)
    BY <1>7 DEF AutonomyType, Ended
  <2>2. on = speech
    BY <1>7 DEF Ended
  <2>3. speech = 0 => nextPoll' <= nextPoll
    BY <1>7, <2>2 DEF Ended
  <2>4. speech = 0 => told + nextPoll' <= SpeechLife + Poll
    <3>1. nextPoll \in Nat /\ nextPoll' \in Nat
      BY <1>1 DEF AutonomyType
    <3>2. speech = 0 => told \in Nat /\ told + nextPoll <= SpeechLife + Poll
      BY <1>1 DEF InTime, EndsInTime
    <3> QED
      BY <1>1, <2>3, <3>1, <3>2
  <2> QED
    BY <1>3, <1>7, <2>2, <2>4 DEF InTime, EndsInTime
<1> QED
  BY <1>3, <1>4, <1>5, <1>6, <1>7 DEF EndsInTime

LEMMA InTimeStep ==
  ASSUME TypeOK, InTime, Next
  PROVE  InTime'
<1>1. AutonomyType /\ pc \in {"world", "sense", "tick", "touch"}
  BY DEF TypeOK
<1>2. /\ EmoteLife \in Nat \ {0} /\ SpeechLife \in Nat \ {0} /\ Poll \in Nat \ {0}
      /\ None \notin Nat
  BY ReactionsAssumption, NoneAssumption
<1>3. /\ emote \in Times /\ speech \in Times /\ shown \in Times /\ told \in Times
      /\ nextPoll \in 0 .. Poll
  BY <1>1 DEF AutonomyType
<1>4. CASE World
  <2>1. /\ pc = "world" /\ pc' = "sense"
        /\ emote' = Sooner(emote) /\ speech' = Sooner(speech)
        /\ shown' = Later(shown) /\ told' = Later(told) /\ nextPoll' = Sooner(nextPoll)
    BY <1>4 DEF World, Elapse
  <2>2. emote # None \/ speech # None => nextPoll > 0
    BY <2>1 DEF InTime, PollAhead
  <2>3. EndsInTime(emote, shown, EmoteLife)'
    BY <1>2, <1>3, <2>1, <2>2, EndsNearer DEF InTime, EndsInTime
  <2>4. EndsInTime(speech, told, SpeechLife)'
    BY <1>2, <1>3, <2>1, <2>2, EndsNearer DEF InTime, EndsInTime
  <2> QED
    BY <2>1, <2>3, <2>4 DEF InTime, PollAhead
<1>5. ASSUME nextPoll' \in {nextPoll, 0}, NEW allowed, NoReaction \/ React(allowed)
      PROVE  /\ EndsInTime(emote, shown, EmoteLife)'
             /\ EndsInTime(speech, told, SpeechLife)'
  <2>0. /\ nextPoll \in Nat /\ nextPoll' \in Nat /\ nextPoll' <= nextPoll
        /\ nextPoll' \in 0 .. Poll
    BY <1>2, <1>3, <1>5
  <2>1. CASE NoReaction
    <3>1. emote = 0 => shown + nextPoll' <= EmoteLife + Poll
      <4>1. emote = 0 => shown \in Nat /\ shown + nextPoll <= EmoteLife + Poll
        BY <1>2 DEF InTime, EndsInTime
      <4> QED
        BY <1>2, <2>0, <4>1
    <3>2. speech = 0 => told + nextPoll' <= SpeechLife + Poll
      <4>1. speech = 0 => told \in Nat /\ told + nextPoll <= SpeechLife + Poll
        BY <1>2 DEF InTime, EndsInTime
      <4> QED
        BY <1>2, <2>0, <4>1
    <3>3. UNCHANGED <<emote, speech, shown, told>>
      BY <2>1 DEF NoReaction
    <3> QED
      BY <3>1, <3>2, <3>3 DEF InTime, EndsInTime
  <2>2. CASE Begin(speech)
    BY <1>1, <2>0, <2>2, BeginInTime
  <2> QED
    BY <1>5, <2>1, <2>2 DEF React
<1>6. CASE Sense
  <2>1. pc' = "tick" /\ nextPoll' \in {nextPoll, 0}
        /\ (NoReaction \/ React(near' /\ ~near /\ settings.sensors))
    BY <1>6 DEF Sense
  <2> QED
    BY <1>5, <2>1 DEF InTime, PollAhead
<1>7. CASE Touch
  <2>1. /\ pc = "touch" /\ pc' = "world" /\ nextPoll' = nextPoll
        /\ NoReaction \/ React(settings.touch)
    BY <1>7 DEF Touch
  <2>2. nextPoll' > 0
    BY <2>1 DEF InTime, PollAhead
  <2> QED
    BY <1>5, <2>1, <2>2 DEF InTime, PollAhead
<1>8. CASE Tick /\ nextPoll > 0
  <2>1. pc' = "touch" /\ nextPoll' = nextPoll /\ NoReaction
    BY <1>8 DEF Tick
  <2> QED
    BY <1>5, <1>8, <2>1 DEF InTime, PollAhead
<1>9. CASE Tick /\ ~(nextPoll > 0)
  <2>1. /\ pc' = "touch" /\ nextPoll' = Poll
        /\ \/ /\ emote' = None \/ emote' = Ended(emote)
              /\ speech' = None \/ speech' = Ended(speech)
              /\ UNCHANGED <<shown, told>>
           \/ Begin(Ended(speech)) \/ BeginSilently
    BY <1>9 DEF Tick
  <2>2. nextPoll' \in 0 .. Poll /\ nextPoll' > 0
    BY <1>2, <2>1
  <2>3. CASE Begin(Ended(speech)) \/ BeginSilently
    BY <1>1, <2>1, <2>2, <2>3, BeginInTime DEF InTime, PollAhead
  <2>4. CASE /\ emote' = None \/ emote' = Ended(emote)
             /\ speech' = None \/ speech' = Ended(speech)
             /\ UNCHANGED <<shown, told>>
    <3>1. EndsInTime(emote, shown, EmoteLife)'
      BY <2>4 DEF EndsInTime, Ended, InTime
    <3>2. EndsInTime(speech, told, SpeechLife)'
      BY <2>4 DEF EndsInTime, Ended, InTime
    <3> QED
      BY <2>1, <2>2, <3>1, <3>2 DEF InTime, PollAhead
  <2> QED
    BY <2>1, <2>3, <2>4
<1> QED
  BY <1>4, <1>6, <1>7, <1>8, <1>9 DEF Next

\* A reaction and a speech end, for every length of them and every time between the ticks
\* of Autonomy, whatever the settings and the light have become since (Autonomy::tick).
THEOREM EndsTheorem == Spec => []ReactionEnds
<1>1. Init => InTime
  BY DEF Init, InTime, PollAhead, EndsInTime
<1>2. TypeOK /\ InTime /\ [Next]_vars => InTime'
  <2>1. CASE UNCHANGED vars
    BY <2>1 DEF vars, autonomy, InTime, PollAhead, EndsInTime
  <2> QED
    BY <2>1, InTimeStep
<1>3. TypeOK /\ InTime => ReactionEnds
  <2> SUFFICES ASSUME TypeOK, InTime PROVE ReactionEnds
    OBVIOUS
  <2>1. /\ EmoteLife \in Nat /\ SpeechLife \in Nat /\ Poll \in Nat /\ nextPoll \in Nat
        /\ emote \in Times /\ speech \in Times
    BY ReactionsAssumption DEF TypeOK, AutonomyType
  <2>2. \A rest \in Times, since, life \in Nat :
          EndsInTime(rest, since, life) /\ rest # None => since <= life + Poll
    BY <2>1 DEF EndsInTime, Times
  <2>3. emote # None => shown \in Nat
    BY DEF InTime, EndsInTime
  <2>4. speech # None => told \in Nat
    BY DEF InTime, EndsInTime
  <2> QED
    BY <2>1, <2>2, <2>3, <2>4 DEF InTime, ReactionEnds
<1> QED
  BY <1>1, <1>2, <1>3, TypeCorrect, PTL DEF Spec

\* The time since the last speech is that since the last one that could be seen.
LEMMA QuietIsLast == Spec => [](quiet = lastSpeech)
<1>1. Init => quiet = lastSpeech
  BY DEF Init
<1>2. quiet = lastSpeech /\ [Next]_vars => (quiet = lastSpeech)'
  <2> SUFFICES ASSUME quiet = lastSpeech, [Next]_vars PROVE quiet' = lastSpeech'
    OBVIOUS
  <2>1. CASE World
    BY <2>1 DEF World, Elapse
  <2>2. CASE Sense
    BY <2>2 DEF Sense, React, NoReaction, Begin
  <2>3. CASE Tick
    BY <2>3 DEF Tick, NoReaction, Begin, BeginSilently
  <2>4. CASE Touch
    BY <2>4 DEF Touch, React, NoReaction, Begin
  <2>5. CASE UNCHANGED vars
    BY <2>5 DEF vars, autonomy
  <2> QED
    BY <2>1, <2>2, <2>3, <2>4, <2>5 DEF Next
<1> QED
  BY <1>1, <1>2, PTL DEF Spec

\* Two speeches begin as far apart as the setting asks at the second, for every pace, and
\* though a reaction without a word may come in between (Autonomy::show).
THEOREM SpeechTheorem == Spec => SpeechSpaced
<1> DEFINE Good == told' = 0 /\ told # 0 /\ quiet # None =>
                     quiet >= SpeechInterval[settings.speech_pace]
<1>1. TypeOK /\ quiet = lastSpeech /\ [Next]_vars => [Good]_vars
  <2> SUFFICES ASSUME TypeOK, quiet = lastSpeech, Next, told' = 0, told # 0, quiet # None
               PROVE  quiet >= SpeechInterval[settings.speech_pace]
    OBVIOUS
  <2>1. told \in Times /\ Poll \in Nat /\ Longest \in Nat /\ None \notin Nat
    BY ReactionsAssumption, NoneAssumption DEF TypeOK, AutonomyType
  <2>2. Later(told) # 0
    BY <2>1 DEF Later, Least, Times
  <2>3. \E on : Begin(on)
    BY <2>2 DEF Next, World, Elapse, Sense, Tick, Touch, React, NoReaction, BeginSilently
  <2> QED
    BY <2>3 DEF Begin, SpeechDue
<1> HIDE DEF Good
<1>2. Spec => [][Good]_vars
  BY <1>1, TypeCorrect, QuietIsLast, PTL DEF Spec
<1> QED
  BY <1>2 DEF SpeechSpaced, Good
=============================================================================
