-------------------------------- MODULE Body --------------------------------
(***************************************************************************)
(* The two servos of the body, as the end of the main loop drives them     *)
(* (firmware/src/main.rs:442-557) with the commands of actuators.rs: the   *)
(* power of the servos, their torque, the position that was last asked for *)
(* and the one they are really in.                                         *)
(*                                                                         *)
(* A tick is a turn of the loop that does something; where a gaze leads to *)
(* (behavior.rs, servo_positions) is a set of targets.  Of the lights only *)
(* that they may fail is kept.  The servos do not confirm a command: one   *)
(* may be lost.  The head may be turned by hand, and the firmware may      *)
(* restart, which the servos do not notice.                                *)
(***************************************************************************)
EXTENDS Integers, Sequences

CONSTANTS
  Places,     \* positions of a servo
  Step,       \* how far one command moves it (step_position)
  Gap,        \* ticks between two commands (100 ms)
  ReleaseAfter,  \* ticks from the last command to the release (800 ms)
  ProbeEvery,    \* ticks between two attempts to find out the position (500 ms)
  IdleEvery,     \* ticks between two releases in the neutral position (5000 ms)
  Neutral,    \* servo_positions of ActuatorTarget::NEUTRAL without trim
  Targets,    \* what the controller asks for: [at, neutral, trimmed]
  Budgets,    \* bounds: how often the target changes, the head is turned by hand, something
              \* fails, a command is lost and the firmware restarts in a behaviour
  Never

Axes == {"x", "y"}

ASSUME BodyAssumption ==
  /\ Places \subseteq Nat /\ Never \notin Nat
  /\ {Step, Gap, ReleaseAfter, ProbeEvery, IdleEvery} \subseteq Nat \ {0} /\ Gap <= ReleaseAfter
  /\ Neutral \in [Axes -> Places]
  /\ Targets \subseteq [at : [Axes -> Places], neutral : BOOLEAN, trimmed : BOOLEAN]
  /\ [at |-> Neutral, neutral |-> TRUE, trimmed |-> FALSE] \in Targets
  /\ Budgets \subseteq [targets : Nat, hands : Nat, faults : Nat, losses : Nat, restarts : Nat]

VARIABLES
  phase,      \* "boot", "tick", "probe", "move", "step", "idle", "end"
  target,     \* actuator_target and the trim
  ready,      \* actuator_ready
  known,      \* servo_position_known
  on,         \* torque_enabled
  last,       \* last_target
  since,      \* ticks since last_servo_write_ms, or Never
  probeIn,    \* ticks until next_position_probe_ms
  idleIn,     \* ticks until next_idle_torque_off_ms
  servos,     \* the servos: [Axes -> [at, goal, torque]]
  powered,    \* VM_EN
  left,       \* what is left of the budget
  lost,       \* history: was a command lost?
  stuck,      \* history: could the power not be cut?
  held        \* history: ticks since the servos had reason to hold the head or a command was lost

firmware == <<target, ready, known, on, last, since, probeIn, idleIn>>
bvars == <<phase, firmware, servos, powered, left, lost, stuck, held>>

Least(m, n) == IF m <= n THEN m ELSE n
Most(m, n) == IF m >= n THEN m ELSE n

Spend(what) == left[what] > 0 /\ left' = [left EXCEPT ![what] = @ - 1]

-----------------------------------------------------------------------------
(* Commands to the servos.                                                 *)

\* In the order in which they are written: the axis and what is told to its servo.
Goals   == <<<<"x", "goal">>, <<"y", "goal">>>>
Torques == <<<<"x", "torque">>, <<"y", "torque">>>>

\* Those of the commands that arrive.
Those(commands, which) == {commands[i] : i \in which}

\* The servos when the commands of arrived have reached them.
Carried(arrived, goal, torque) ==
  [a \in Axes |-> [servos[a] EXCEPT !.goal   = IF <<a, "goal">> \in arrived THEN goal[a] ELSE @,
                                    !.torque = IF <<a, "torque">> \in arrived THEN torque ELSE @]]

\* The commands are written one after the other; writing one may fail, which ends it and the
\* use of the servos, or one may not arrive.
Send(commands, goal, torque) ==
  LET Arrive(which) == servos' = Carried(Those(commands, which), goal, torque)
  IN  \/ /\ ready' = TRUE
         /\ Arrive(1 .. Len(commands))
         /\ UNCHANGED <<left, lost>>
      \/ \E done \in 0 .. Len(commands) - 1 :
           /\ Spend("faults") /\ ready' = FALSE
           /\ Arrive(1 .. done)
           /\ UNCHANGED lost
      \/ \E missing \in 1 .. Len(commands) :
           /\ Spend("losses") /\ ready' = TRUE /\ lost' = TRUE
           /\ Arrive((1 .. Len(commands)) \ {missing})

Position == [a \in Axes |-> servos[a].at]

Turn(goal) == Send(Goals, goal, TRUE)
LetGo      == Send(Torques, Position, FALSE)

\* After a loss it is all the same how long the head was held before.
HeldAfterAll == held' = IF left'["losses"] = left["losses"] THEN held ELSE 0

\* disable: the power is cut, unless the bus fails.
Slack(s) == [a \in Axes |-> [s[a] EXCEPT !.torque = FALSE]]

Disable(s) ==
  \/ /\ powered' = FALSE /\ servos' = Slack(s)
     /\ UNCHANGED <<left, stuck>>
  \/ /\ Spend("faults") /\ stuck' = TRUE
     /\ servos' = s
     /\ UNCHANGED powered

\* Mistake: a step that is not limited by what it leads to.
StepAcross(current, goal) ==
  IF current < goal THEN current + Step ELSE IF current < Step THEN 0 ELSE current - Step

\* step_position
StepPosition(current, goal) ==
  IF current < goal THEN Least(current + Step, goal)
  ELSE Most(IF current < Step THEN 0 ELSE current - Step, goal)

-----------------------------------------------------------------------------
(* The start, and a restart of the firmware alone.                         *)

\* prepare and release_startup_torque.  The power is cut for a moment while it is prepared,
\* which the servos may or may not notice.  Both are told to let go even if one cannot be.
Start ==
  /\ phase = "boot" /\ phase' = "tick"
  /\ target' = [at |-> Neutral, neutral |-> TRUE, trimmed |-> FALSE]
  /\ known' = FALSE /\ on' = FALSE /\ last' = Neutral /\ since' = Never
  /\ probeIn' = 0 /\ idleIn' = 0 /\ held' = 0
  /\ \/ /\ ready' = FALSE /\ Spend("faults")
        /\ powered' \in {powered, FALSE} /\ stuck' = powered'
        /\ servos' = IF powered' THEN servos ELSE Slack(servos)
        /\ UNCHANGED lost
     \/ /\ ready' = TRUE /\ powered' = TRUE /\ stuck' = FALSE
        /\ servos' = Slack(servos)
        /\ UNCHANGED <<left, lost>>
     \/ /\ ready' = TRUE /\ powered' = TRUE /\ stuck' = FALSE
        /\ Spend("losses") /\ lost' = TRUE
        /\ \E a \in Axes : servos' = [Slack(servos) EXCEPT ![a] = servos[a]]
     \/ /\ ready' = FALSE
        /\ \E failing \in Axes :
             \/ /\ powered' = FALSE /\ servos' = Slack(servos) /\ stuck' = FALSE
                /\ Spend("faults")
             \/ /\ powered' = TRUE /\ stuck' = TRUE
                /\ servos' = [Slack(servos) EXCEPT ![failing] = servos[failing]]
                /\ left["faults"] >= 2 /\ left' = [left EXCEPT !["faults"] = @ - 2]
        /\ UNCHANGED lost

Reset ==
  /\ Spend("restarts")
  /\ phase' = "boot"
  /\ UNCHANGED <<firmware, servos, powered, lost, stuck, held>>

-----------------------------------------------------------------------------
(* A turn of the loop.                                                     *)

Sooner(n) == IF n = 0 THEN 0 ELSE n - 1

\* Does anything still have to hold the head?  A command that was lost is made good only by
\* the next movement or by the neutral position.
Moving == lost /\ (~target.neutral \/ last # target.at)

\* Time passes; a servo with torque turns, one without may be turned.
Tick ==
  /\ phase = "tick" /\ phase' = "probe"
  /\ \/ UNCHANGED target /\ UNCHANGED left
     \/ target' \in Targets \ {target} /\ Spend("targets")
  /\ \E turned \in SUBSET {a \in Axes : powered /\ servos[a].torque} :
       servos' = [a \in Axes |-> IF a \in turned THEN [servos[a] EXCEPT !.at = @ +
                                   (IF servos[a].goal >= @ THEN Least(Step, servos[a].goal - @)
                                    ELSE -Least(Step, @ - servos[a].goal))]
                                 ELSE servos[a]]
  /\ since' = IF since = Never THEN Never ELSE Least(since + 1, ReleaseAfter)
  /\ probeIn' = Sooner(probeIn) /\ idleIn' = Sooner(idleIn)
  /\ held' = IF Moving THEN 0 ELSE Least(held + 1, ReleaseAfter + IdleEvery + 2)
  /\ UNCHANGED <<ready, known, on, last, powered, lost, stuck>>

Hand ==
  /\ phase = "tick"
  /\ Spend("hands")
  /\ \E a \in {b \in Axes : ~powered \/ ~servos[b].torque}, p \in Places :
       servos' = [servos EXCEPT ![a].at = p]
  /\ UNCHANGED <<phase, firmware, powered, lost, stuck, held>>

\* The lights fail, or the position is looked for before the first movement.
Probe ==
  /\ phase = "probe" /\ phase' = "move"
  /\ \/ ready /\ ready' = FALSE /\ Spend("faults") /\ UNCHANGED <<known, last, probeIn>>
     \/ /\ ready /\ ~known /\ probeIn = 0
        /\ ~target.neutral \/ target.trimmed
        /\ probeIn' = ProbeEvery
        /\ \/ known' = TRUE /\ last' = Position /\ UNCHANGED left
           \/ Spend("faults") /\ UNCHANGED <<known, last>>
        /\ UNCHANGED ready
     \/ /\ ~(ready /\ ~known /\ probeIn = 0 /\ (~target.neutral \/ target.trimmed))
        /\ UNCHANGED <<ready, known, last, probeIn, left>>
  /\ UNCHANGED <<target, on, since, idleIn, servos, powered, lost, stuck, held>>

\* Mistake: the torque comes on before the goals that are left from last time are replaced.
HoldAnyhow == Send(Torques \o Goals, Position, TRUE)

\* What is sent before the first step: hold where you are.
Hold == Send(Goals \o Torques, Position, TRUE)

MoveDue == last # target.at /\ (since # Never => since >= Gap)
ReleaseDue == on /\ last = target.at /\ since # Never /\ since >= ReleaseAfter

StepFrom(at) == [a \in Axes |-> StepPosition(at[a], target.at[a])]

\* A step, while the torque is on.
StepOn ==
  /\ ready /\ on
  /\ Turn(StepFrom(last))
  /\ IF ready' THEN last' = StepFrom(last) /\ since' = 0 ELSE UNCHANGED <<last, since>>
  /\ held' = 0
  /\ UNCHANGED on

\* Without torque the position is read anew, held, and only then is the torque switched on.
HoldHere ==
  /\ MoveDue /\ ~on /\ Position # target.at
  /\ Hold /\ on' = ready'
  /\ last' = Position /\ held' = 0
  /\ UNCHANGED since

AlreadyThere ==
  /\ MoveDue /\ ~on /\ Position = target.at
  /\ last' = Position
  /\ UNCHANGED <<ready, on, since, servos, left, lost, held>>

Unreadable ==
  /\ MoveDue /\ ~on
  /\ Spend("faults") /\ since' = 0
  /\ UNCHANGED <<ready, on, last, servos, lost, held>>

Release ==
  /\ ~MoveDue /\ ReleaseDue
  /\ LetGo /\ on' = FALSE
  /\ HeldAfterAll
  /\ UNCHANGED <<last, since>>

Move ==
  /\ phase = "move"
  /\ \/ /\ ready /\ known
        /\ \/ phase' = "step" /\ HoldHere
           \/ phase' = "idle" /\ ((MoveDue /\ StepOn) \/ AlreadyThere \/ Unreadable \/ Release)
     \/ /\ ~(ready /\ known /\ (MoveDue \/ ReleaseDue))
        /\ phase' = "idle"
        /\ UNCHANGED <<ready, on, last, since, servos, left, lost, held>>
  /\ UNCHANGED <<target, known, probeIn, idleIn, powered, stuck>>

\* The first step follows at once.
FirstStep ==
  /\ phase = "step" /\ phase' = "idle"
  /\ \/ StepOn
     \/ ~ready /\ UNCHANGED <<ready, on, last, since, servos, left, lost, held>>
  /\ UNCHANGED <<target, known, probeIn, idleIn, powered, stuck>>

\* Mistake: only if the firmware believes that it is on.
IdleDueIfOn ==
  /\ ready /\ on /\ target.neutral /\ last = target.at /\ idleIn = 0
  /\ since # Never => since >= ReleaseAfter

\* In the neutral position the torque is released again and again.
IdleDue ==
  /\ ready /\ target.neutral /\ last = target.at /\ idleIn = 0
  /\ since # Never => since >= ReleaseAfter

Idle ==
  /\ phase = "idle" /\ phase' = "end"
  /\ \/ /\ IdleDue
        /\ LetGo /\ on' = FALSE
        /\ HeldAfterAll
        /\ idleIn' = IdleEvery
     \/ ~IdleDue /\ UNCHANGED <<ready, on, idleIn, servos, left, lost, held>>
  /\ UNCHANGED <<target, known, last, since, probeIn, powered, stuck>>

\* After a failure in this turn the power is cut, once.
End ==
  /\ phase = "end" /\ phase' = "tick"
  /\ \/ ~ready /\ powered /\ ~stuck /\ Disable(servos)
     \/ ~(~ready /\ powered /\ ~stuck) /\ UNCHANGED <<servos, powered, left, stuck>>
  /\ UNCHANGED <<firmware, lost, held>>

BodyInit ==
  /\ phase = "boot" /\ target = [at |-> Neutral, neutral |-> TRUE, trimmed |-> FALSE]
  /\ ready = FALSE /\ known = FALSE /\ on = FALSE /\ last = Neutral /\ since = Never
  /\ probeIn = 0 /\ idleIn = 0
  /\ servos \in [Axes -> [at : {Neutral[a] : a \in Axes}, goal : Places, torque : {FALSE}]]
  /\ powered = FALSE /\ left \in Budgets
  /\ lost = FALSE /\ stuck = FALSE /\ held = 0

Loop == Start \/ Tick \/ Probe \/ Move \/ FirstStep \/ Idle \/ End
BodyNext == Loop \/ Hand \/ Reset

BodySpec == BodyInit /\ [][BodyNext]_bvars /\ WF_bvars(Loop)

-----------------------------------------------------------------------------
(* Properties.                                                             *)

\* The head never jumps: when the torque of a servo comes on, its goal is where the head is,
\* though the goal it still had may be anywhere and the head may have been turned by hand
\* since the firmware last knew (docs/protocol.md:151-153).  A command to hold that does not
\* arrive is the exception.
NoJump ==
  [][\A a \in Axes : ~servos[a].torque /\ servos'[a].torque /\ ~lost' =>
       servos'[a].goal = servos[a].at]_bvars

\* No servo is left with its torque on: it is off ReleaseAfter after the last step, through
\* failures of half a movement and restarts of the firmware, and even if a release was lost it
\* is off once the head has been neutral for a while.  Only a bus that fails while the power
\* is cut leaves it on: the power is not cut again (main.rs:525-555).
HoldEnds ==
  phase = "tick" /\ powered /\ ~stuck /\ (\E a \in Axes : servos[a].torque) =>
    IF lost THEN held <= Most(ReleaseAfter, IdleEvery) ELSE held < ReleaseAfter

\* When nothing changes and nothing fails any more, the steps come to an end, at the target.
\* Without a movement to make the position is never looked for.
Arrives ==
  <>[](ready => last = target.at \/ (~known /\ target.neutral /\ ~target.trimmed))
=============================================================================
