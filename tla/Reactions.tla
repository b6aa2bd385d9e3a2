------------------------------ MODULE Reactions ------------------------------
(***************************************************************************)
(* From the touch panel and the proximity sensor to what the device does   *)
(* by itself: the TapDetector (firmware/src/touch.rs), the Hysteresis of   *)
(* the sensors (sensors.rs), and Autonomy (autonomy.rs), as the main loop  *)
(* and Controller call them (main.rs:260-317, model.rs:382-386).           *)
(*                                                                         *)
(* A tick is a turn of the loop.  Which face and which words a reaction    *)
(* has is left out, with what only chooses among them (random, stage,      *)
(* settle, last_touch, last_text, last_idle); whether it is silent is kept.*)
(* Whether a gesture comes to Autonomy is in Controller (here: it may).    *)
(* A place is a number of EXCURSION limits (24 pixels) along one line.     *)
(***************************************************************************)
EXTENDS Integers

CONSTANTS
  LongPress,      \* LONG_PRESS_MS, in ticks
  StrokeTime,     \* the shortest stroke, in ticks
  StrokeLength,   \* ... and the way it takes, in places
  Far,            \* the places are 0 .. Far
  Samples,        \* samples in a row that turn the Hysteresis round
  Poll,           \* ticks from one Autonomy::tick to the next
  EmoteLife, SpeechLife, ReactionGap, FirstIdle,    \* in ticks
  Paces,          \* of Pace
  Interval,       \* interval_ms of a pace
  SpeechInterval, \* the same between two speeches
  Starts,         \* settings that may have been loaded
  Budgets,        \* bounds: touches, changes of the settings, changes of what the sensors see,
                  \* and failures in a behaviour
  Longest,        \* bound: the longest of the intervals and lives, to which times are counted
  None

Switches == {"enabled", "speech", "touch", "sensors", "dark_quiet"}
Settings == [enabled : BOOLEAN, speech : BOOLEAN, touch : BOOLEAN, sensors : BOOLEAN,
             dark_quiet : BOOLEAN, pace : Paces, speech_pace : Paces]

ASSUME ReactionsAssumption ==
  /\ {LongPress, StrokeTime, StrokeLength, Samples, Poll, EmoteLife, SpeechLife, ReactionGap,
      FirstIdle} \subseteq Nat \ {0}
  /\ Far \in Nat
  /\ Interval \in [Paces -> Nat \ {0}] /\ SpeechInterval \in [Paces -> Nat]
  /\ Starts \subseteq Settings
  /\ Budgets \subseteq [touches : Nat, changes : Nat, sights : Nat, faults : Nat]
  /\ Longest \in Nat
  /\ \A p \in Paces : Interval[p] <= Longest /\ SpeechInterval[p] <= Longest
  /\ \A n \in {EmoteLife, SpeechLife, FirstIdle} : n <= Longest

\* What the TapDetector knows of a contact.
Press == [at : 0 .. Far, age : Nat, fired : BOOLEAN, last : 0 .. Far, distance : Nat,
          excursion : Nat]

ASSUME NoneAssumption == None \notin Nat /\ None \notin Press

VARIABLES
  pc,         \* "world", "sense", "tick", "touch"
  finger,     \* where the panel is touched, or None
  enabled,    \* touch_enabled
  detector,   \* TapDetector: [armed, released, press]
  sight,      \* what the sensors see: [near, dark]
  filter,     \* the Hysteresis of near: [active, pending]
  sensing,    \* sensor_ready
  near, dark, \* what Autonomy was told last
  settings,
  emote,      \* ticks until the reaction ends, or None
  speech,     \* ticks until the speech ends, or None
  nextIdle,   \* ticks until next_idle_ms, or None before the first
  nextReaction,  \* ticks until next_reaction_ms
  lastSpeech, \* ticks since last_speech_ms, or None
  nextPoll,   \* ticks until the next Autonomy::tick
  left,       \* what is left of the budget
  contacts,   \* history: how many times the finger came down
  gestures,   \* history: how many gestures there were
  shown, told,  \* history: ticks since the reaction and the speech on show began
  quiet       \* history: ticks since the last speech began that could be seen, or None

touchVars == <<finger, enabled, detector>>
sensorVars == <<sight, filter, sensing>>
autonomy == <<near, dark, emote, speech, nextIdle, nextReaction, lastSpeech>>
vars == <<pc, touchVars, sensorVars, autonomy, settings, nextPoll, left, contacts, gestures,
          shown, told, quiet>>

Least(m, n) == IF m <= n THEN m ELSE n
Most(m, n) == IF m >= n THEN m ELSE n
Between(m, n) == IF m <= n THEN n - m ELSE m - n
Sooner(n) == IF n = None \/ n = 0 THEN n ELSE n - 1
Later(n) == IF n = None THEN None ELSE Least(n + 1, Longest + Poll + 1)

Spend(what) == left[what] > 0 /\ left' = [left EXCEPT ![what] = @ - 1]

-----------------------------------------------------------------------------
(* TapDetector::sample: what it returns and what becomes of it.            *)

Fresh == [armed |-> FALSE, released |-> 0, press |-> None]

Pressed(p) == [at |-> p, age |-> 0, fired |-> FALSE, last |-> p, distance |-> 0, excursion |-> 0]

\* The finger is gone: at the second sample of this the gesture is over.
Lifted(d) ==
  IF d.released + 1 < 2 THEN [d EXCEPT !.released = @ + 1]
  ELSE [armed |-> TRUE, released |-> 2, press |-> None]

LiftedGesture(d) ==
  LET press == d.press
  IN  IF d.released + 1 < 2 \/ press = None THEN "none"
      ELSE IF ~press.fired /\ press.distance >= StrokeLength /\ press.excursion >= 1 /\ press.age >= StrokeTime
      THEN "stroke"
      ELSE IF press.excursion >= 1 \/ press.fired THEN "none" ELSE "tap"

Followed(press, p) ==
  [press EXCEPT !.excursion = Most(@, Between(p, press.at)),
                !.distance  = Least(@ + Between(p, press.last), StrokeLength),
                !.last      = p]

IsLong(press) == ~press.fired /\ press.excursion < 1 /\ press.age >= LongPress

\* Mistake: the contact that was a long press is forgotten.
TouchedForgets(d, p) ==
  IF d.press # None
  THEN LET press == Followed(d.press, p)
       IN  [d EXCEPT !.released = 0, !.press = press]
  ELSE IF d.armed THEN [armed |-> FALSE, released |-> 0, press |-> Pressed(p)]
  ELSE [d EXCEPT !.released = 0]

\* The finger is at p.
Touched(d, p) ==
  IF d.press # None
  THEN LET press == Followed(d.press, p)
       IN  [d EXCEPT !.released = 0, !.press = [press EXCEPT !.fired = @ \/ IsLong(press)]]
  ELSE IF d.armed THEN [armed |-> FALSE, released |-> 0, press |-> Pressed(p)]
  ELSE [d EXCEPT !.released = 0]

TouchedGesture(d, p) ==
  IF d.press # None /\ IsLong(Followed(d.press, p)) THEN "long" ELSE "none"

Aged(d) ==
  IF d.press = None THEN d
  ELSE [d EXCEPT !.press.age = Least(@ + 1, Most(LongPress, StrokeTime))]

-----------------------------------------------------------------------------
(* Autonomy.                                                               *)

\* Does the dark keep the device from moving?  Only while the sensors are in use.
Calm == settings.sensors /\ settings.dark_quiet /\ dark

\* Mistake: the time since the last speech is that since the last reaction.
SpeechDueByReaction == emote = None

\* show: may a speech begin?  The interval is that of the present setting.
SpeechDue == lastSpeech # None => lastSpeech >= SpeechInterval[settings.speech_pace]

\* Autonomy::show; `on` is the speech that is on show.
Begin(on) ==
  /\ emote' = EmoteLife /\ shown' = 0
  /\ IF settings.speech /\ SpeechDue
     THEN speech' = SpeechLife /\ lastSpeech' = 0 /\ told' = 0 /\ quiet' = 0
     ELSE /\ speech' = IF settings.speech THEN on ELSE None
          /\ UNCHANGED <<lastSpeech, told, quiet>>
  /\ nextIdle' = Interval[settings.pace]

\* ... without a word: a speech on show is taken away.
BeginSilently ==
  /\ emote' = EmoteLife /\ shown' = 0
  /\ speech' = None
  /\ nextIdle' = Interval[settings.pace]
  /\ UNCHANGED <<lastSpeech, told, quiet>>

NoReaction == UNCHANGED <<emote, speech, nextIdle, nextReaction, lastSpeech, shown, told, quiet>>

\* Autonomy::react
React(allowed) ==
  IF settings.enabled /\ nextReaction = 0 /\ allowed
  THEN Begin(speech) /\ nextReaction' = ReactionGap
  ELSE NoReaction

-----------------------------------------------------------------------------
(* The turns of the loop.                                                  *)

\* Hysteresis::update: only Samples contrary samples in a row turn it round.
Filtered(f, contrary) ==
  IF ~contrary THEN [f EXCEPT !.pending = 0]
  ELSE IF f.pending + 1 = Samples THEN [active |-> ~f.active, pending |-> 0]
  ELSE [f EXCEPT !.pending = @ + 1]

NoFilter == [active |-> FALSE, pending |-> 0]

\* Time passes, the finger moves, and the sensors see something else.
Elapse ==
  /\ detector' = Aged(detector)
  /\ emote' = Sooner(emote) /\ speech' = Sooner(speech)
  /\ nextIdle' = Sooner(nextIdle) /\ nextReaction' = Sooner(nextReaction)
  /\ lastSpeech' = Later(lastSpeech) /\ nextPoll' = Sooner(nextPoll)
  /\ shown' = Later(shown) /\ told' = Later(told) /\ quiet' = Later(quiet)

World ==
  /\ pc = "world" /\ pc' = "sense"
  /\ Elapse
  /\ \/ finger = None /\ finger' = None /\ UNCHANGED <<contacts, left, sight, settings>>
     \/ /\ finger = None /\ finger' \in 0 .. Far
        /\ Spend("touches") /\ contacts' = contacts + 1
        /\ UNCHANGED <<sight, settings>>
     \/ /\ finger # None /\ finger' \in {None} \cup 0 .. Far
        /\ UNCHANGED <<contacts, left, sight, settings>>
     \/ /\ Spend("sights") /\ sight' \in [near : BOOLEAN, dark : BOOLEAN] \ {sight}
        /\ UNCHANGED <<finger, contacts, settings>>
     \/ /\ Spend("changes")
        /\ \/ \E s \in Switches : settings' = [settings EXCEPT ![s] = ~@]
           \/ \E p \in Paces : settings' = [settings EXCEPT !.pace = p]
           \/ \E p \in Paces : settings' = [settings EXCEPT !.speech_pace = p]
        /\ UNCHANGED <<finger, contacts, sight>>
  /\ UNCHANGED <<enabled, filter, sensing, near, dark, gestures>>

\* The sensors are read, and Autonomy::tick comes next (Controller::sensor_sample); or they
\* are started, or not due.  Autonomy::sensors reacts when something comes near.
\* The filter of the brightness is like that of the proximity and left out.
Sense ==
  /\ pc = "sense" /\ pc' = "tick"
  /\ \/ /\ sensing /\ nextPoll' = 0
        /\ filter' = Filtered(filter, sight.near # filter.active)
        /\ near' = filter'.active /\ dark' = sight.dark
        /\ React(near' /\ ~near /\ settings.sensors)
        /\ UNCHANGED <<sensing, left>>
     \/ /\ sensing /\ nextPoll' = 0 /\ Spend("faults")
        /\ sensing' = FALSE /\ filter' = NoFilter /\ near' = FALSE /\ dark' = FALSE
        /\ NoReaction
     \/ /\ sensing' \in {sensing, TRUE}
        /\ UNCHANGED <<filter, near, dark, nextPoll, left>>
        /\ NoReaction
  /\ UNCHANGED <<touchVars, sight, settings, contacts, gestures>>

\* Mistake: in the dark nothing goes either.
EndedUnlessCalm(n) == IF n = 0 /\ ~Calm THEN None ELSE n

\* What has ended goes.
Ended(n) == IF n = 0 THEN None ELSE n

\* Autonomy::tick
Tick ==
  /\ pc = "tick" /\ pc' = "touch"
  /\ IF nextPoll > 0 THEN NoReaction /\ UNCHANGED nextPoll
     ELSE /\ nextPoll' = Poll
          /\ UNCHANGED nextReaction
          /\ \/ /\ ~settings.enabled
                /\ emote' = None /\ speech' = None /\ nextIdle' = Interval[settings.pace]
                /\ UNCHANGED <<lastSpeech, shown, told, quiet>>
             \/ /\ settings.enabled
                /\ ~(~Calm /\ nextIdle = 0 /\ Ended(emote) = None)
                /\ emote' = Ended(emote)
                /\ speech' = IF settings.speech THEN Ended(speech) ELSE None
                /\ nextIdle' = IF Calm THEN Interval[settings.pace]
                               ELSE IF nextIdle = None THEN FirstIdle ELSE nextIdle
                /\ UNCHANGED <<lastSpeech, shown, told, quiet>>
             \/ /\ settings.enabled /\ ~Calm /\ nextIdle = 0 /\ Ended(emote) = None
                /\ Begin(Ended(speech)) \/ BeginSilently
  /\ UNCHANGED <<touchVars, sensorVars, near, dark, settings, left, contacts, gestures>>

\* The panel is read, or started again; a gesture may come to Autonomy.
Touch ==
  /\ pc = "touch" /\ pc' = "world"
  /\ \/ /\ enabled
        /\ LET gesture == IF finger = None THEN LiftedGesture(detector) ELSE TouchedGesture(detector, finger)
           IN  /\ detector' = IF finger = None THEN Lifted(detector) ELSE Touched(detector, finger)
               /\ gestures' = gestures + (IF gesture = "none" THEN 0 ELSE 1)
               /\ \/ NoReaction
                  \/ gesture \in {"tap", "stroke"} /\ React(settings.touch)
        /\ UNCHANGED <<enabled, left>>
     \/ /\ enabled /\ Spend("faults") /\ enabled' = FALSE
        /\ UNCHANGED <<detector, gestures>> /\ NoReaction
     \/ /\ ~enabled /\ enabled' \in BOOLEAN /\ detector' = Fresh
        /\ UNCHANGED <<gestures, left>> /\ NoReaction
  /\ UNCHANGED <<finger, sensorVars, near, dark, settings, nextPoll, contacts>>

Init ==
  /\ pc = "world" /\ finger = None /\ enabled \in BOOLEAN /\ detector = Fresh
  /\ sight = [near |-> FALSE, dark |-> FALSE] /\ filter = NoFilter /\ sensing = FALSE
  /\ near = FALSE /\ dark = FALSE /\ settings \in Starts
  /\ emote = None /\ speech = None /\ nextIdle = None /\ nextReaction = 0 /\ lastSpeech = None
  /\ nextPoll = 0 /\ left \in Budgets /\ contacts = 0 /\ gestures = 0
  /\ shown = None /\ told = None /\ quiet = None

Next == World \/ Sense \/ Tick \/ Touch

Spec == Init /\ [][Next]_vars

-----------------------------------------------------------------------------
(* Properties.                                                             *)

\* A contact of the finger is at most one gesture, however long it lasts, wherever it goes,
\* and whatever samples are missing or the panel fails (touch.rs:88-147).
OneGesturePerTouch == gestures <= contacts

\* A reaction ends and a speech ends, whatever the settings and the light have become since
\* (autonomy.rs:92-140).
ReactionEnds ==
  /\ emote # None => shown <= EmoteLife + Poll
  /\ speech # None => told <= SpeechLife + Poll

\* Two speeches begin at least as far apart as the present setting asks, reactions without a
\* word in between or not (autonomy.rs:164-173, 230-250).
SpeechSpaced ==
  [][told' = 0 /\ told # 0 /\ quiet # None => quiet >= SpeechInterval[settings.speech_pace]]_vars
=============================================================================
