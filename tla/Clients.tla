------------------------------ MODULE Clients ------------------------------
(***************************************************************************)
(* The plugins inside the firmware (firmware/src/client): the timer, the   *)
(* settings panel, and the Manager that shows their panels and Cards and   *)
(* hands taps to them.  Operators on a record c of their state;            *)
(* Controller has it as a variable and calls them as model.rs does.        *)
(*                                                                         *)
(* A time is the number of ticks left until it, or gone by since it;       *)
(* Age(c) is the only operator in which time passes.  Of the texts of a    *)
(* panel only what decides what its buttons do is kept, of the settings    *)
(* only which of them a button changes (their values are in Storage).      *)
(***************************************************************************)
EXTENDS Integers

CONSTANTS
  Minute,        \* MINUTE_MS, in ticks
  Steps,         \* the minutes of +1h, +10m and +1m
  Adjust,        \* ADJUST_MINUTES
  MaxMinutes,    \* MAX_MINUTES
  PanelIdle,     \* PANEL_IDLE_MS, and so on, in ticks
  LauncherIdle, SettingsIdle,
  Almost, Final, AlmostEvery, FinalEvery, GlanceSide,
  Celebrate, NodHalf, DoneKeep,
  CueLife,       \* CUE_EMOTE_MS
  CueRenew,      \* CUE_RENEW_MS
  None

ASSUME ClientsAssumption ==
  /\ {Minute, Adjust, MaxMinutes, PanelIdle, LauncherIdle, SettingsIdle, AlmostEvery,
      FinalEvery, GlanceSide, NodHalf, CueLife, CueRenew} \subseteq Nat \ {0}
  /\ {Almost, Final, Celebrate, DoneKeep} \subseteq Nat
  /\ Steps \in [1 .. 3 -> Nat \ {0}] /\ Minute >= 5

Least(m, n) == IF m <= n THEN m ELSE n

\* What a user sees of them: the gestures that the timer asks for, panels and Cards.
Cues   == {"almost", "final", "nod", "done"} \X {"left", "right", "center", "up", "down"}
Panels == {<<"launcher">>} \cup ({"timer"} \X {"setting", "running"} \X Nat)
                           \cup ({"settings"} \X (0 .. 2))
Banners == {"card"} \X {"running", "done"}

Views == [panel : Panels \cup {None}, card : Banners \cup {None}]

ASSUME NoneAssumption ==
  None \notin Int /\ None \notin Cues /\ None \notin Panels /\ None \notin Banners

-----------------------------------------------------------------------------
(* The timer.  `panel` is what is left to its panel, or None; `left` what  *)
(* is left to the end, negative until the next tick sees that it is past.  *)

Timer(state, minutes, panel, total, left, since) ==
  [state |-> state, minutes |-> minutes, panel |-> panel, total |-> total, left |-> left,
   since |-> since]

Off            == Timer("idle", 0, None, 0, 0, 0)
SettingOf(m)   == Timer("setting", Least(m, MaxMinutes), PanelIdle, 0, 0, 0)
RunningFor(m)  == Timer("running", 0, None, m * Minute, m * Minute, 0)
DoneSince(n)   == Timer("done", 0, None, 0, 0, n)

\* Timer::tick, without its cue; the time since the end counts from the end, not from the
\* tick that sees it.
TimerTicked(t) ==
  CASE t.state = "setting" /\ t.panel <= 0 -> Off
    [] t.state = "running" /\ t.left <= 0 -> DoneSince(-t.left)
    [] t.state = "running" /\ t.left > 0 /\ t.panel # None -> IF t.panel <= 0 THEN [t EXCEPT !.panel = None] ELSE t
    [] t.state = "done" /\ t.since >= DoneKeep -> Off
    [] OTHER -> t

TimerOpened(t) ==
  CASE t.state = "idle"    -> SettingOf(0)
    [] t.state = "running" -> [t EXCEPT !.panel = PanelIdle]
    [] t.state = "done"    -> Off
    [] t.state = "setting" -> t

\* What the buttons of the timer's panel do, in the order of setting_button and
\* running_button.
SettingOps == <<"+1h", "+10m", "+1m", "CLEAR", "START", "CLOSE">>
RunningOps == <<"+10m", "-10m", "STOP", "CLOSE">>

AfterSetting(t, op) ==
  CASE op = "+1h"   -> SettingOf(t.minutes + Steps[1])
    [] op = "+10m"  -> SettingOf(t.minutes + Steps[2])
    [] op = "+1m"   -> SettingOf(t.minutes + Steps[3])
    [] op = "CLEAR" -> SettingOf(0)
    [] op = "START" -> IF t.minutes = 0 THEN SettingOf(0) ELSE RunningFor(t.minutes)
    [] op = "CLOSE" -> Off

\* A new total moves the end.
WithTotal(t, total) == Timer(t.state, t.minutes, PanelIdle, total, t.left + total - t.total, t.since)

AfterRunning(t, op) ==
  CASE op = "+10m"  -> WithTotal(t, Least(t.total + Adjust * Minute, MaxMinutes * Minute))
    [] op = "-10m"  -> IF t.left > Adjust * Minute THEN WithTotal(t, t.total - Adjust * Minute)
                       ELSE WithTotal(t, t.total)
    [] op = "STOP"  -> Off
    [] op = "CLOSE" -> [t EXCEPT !.panel = None]

TimerButton(t, i) ==
  CASE t.state = "setting" -> AfterSetting(t, SettingOps[i])
    [] t.state = "running" /\ t.panel # None -> AfterRunning(t, RunningOps[i])
    [] OTHER -> t

\* The cue: <<phase, direction>>, or None.  Each phase begins with a look to both sides.
Glance(phase, since) ==
  <<phase, CASE since \div GlanceSide = 0 -> "left" [] since \div GlanceSide = 1 -> "right" [] OTHER -> "center">>

Cue(t) ==
  LET almost == Least(Almost, t.total \div 5)
      final  == Least(Final, almost \div 2)
      left   == IF t.left < 0 THEN 0 ELSE t.left
  IN  CASE t.state = "running" /\ left > almost -> None
        [] t.state = "running" /\ left <= almost /\ left > final ->
             Glance("almost", (almost - left) % AlmostEvery)
        [] t.state = "running" /\ left <= final -> Glance("final", (final - left) % FinalEvery)
        [] t.state = "done" /\ t.since < Celebrate ->
             <<"nod", IF (t.since \div NodHalf) % 2 = 0 THEN "up" ELSE "down">>
        [] t.state = "done" /\ t.since >= Celebrate -> <<"done", "center">>
        [] OTHER -> None

-----------------------------------------------------------------------------
(* The settings panel (preferences.rs): `open` is what is left to it, or   *)
(* None.  A button turns the page, closes, saves or changes a setting.     *)

Page(n)   == <<"page", n>>
Change(s) == <<"change", s>>
Save      == <<"save">>
Close     == <<"close">>
Nothing   == <<"nothing">>

SettingsEffect(page, i) ==
  CASE page = 0 -> <<Change("enabled"), Change("speech"), Change("motion"), Change("led"),
                     Page(1), Close>>[i]
    [] page = 1 -> <<Change("touch"), Change("sensors"), Change("dark_quiet"), Change("pace"),
                     Save, Page(2)>>[i]
    [] page = 2 -> <<Change("expression"), Change("speech_pace"), Page(0), Page(1),
                     Save, Close>>[i]

SettingsButton(s, i) ==
  LET did == SettingsEffect(s.page, i)
  IN  IF s.open = None THEN s
      ELSE [page |-> IF did[1] = "page" THEN did[2] ELSE s.page,
            open |-> IF did = Close THEN None ELSE SettingsIdle]

-----------------------------------------------------------------------------
(* Both, and the Manager.  `cue` is the Emote the timer asks for, or None; *)
(* `last` the cue it last asked for, `lastAge` ago.                        *)

NoClients ==
  [timer |-> Off, cue |-> None, last |-> None, lastAge |-> 0,
   settings |-> [page |-> 0, open |-> None], launcher |-> None]

\* Timer::update_cue
Cued(c) ==
  LET cue == Cue(c.timer)
      due == c.last # cue \/ c.lastAge >= CueRenew
  IN  IF cue = None THEN [c EXCEPT !.cue = None, !.last = None, !.lastAge = 0]
      ELSE IF due THEN [c EXCEPT !.cue = cue, !.last = cue, !.lastAge = 0]
      ELSE c

\* Manager::tick
Ticked(c) ==
  [Cued([c EXCEPT !.timer = TimerTicked(@)])
     EXCEPT !.settings.open = IF @ # None /\ @ <= 0 THEN None ELSE @,
            !.launcher      = IF @ # None /\ @ <= 0 THEN None ELSE @]

\* Manager::view: what the panel shows, and whose Card is in the banner.
PanelOf(c) ==
  CASE c.launcher # None -> <<"launcher">>
    [] c.launcher = None /\ c.timer.panel # None -> <<"timer", c.timer.state, c.timer.minutes>>
    [] c.launcher = None /\ c.timer.panel = None /\ c.settings.open # None -> <<"settings", c.settings.page>>
    [] OTHER -> None

CardOf(c) == IF c.timer.state \in {"running", "done"} THEN <<"card", c.timer.state>> ELSE None

View(c) == [panel |-> PanelOf(c), card |-> CardOf(c)]

Buttons(panel) ==
  CASE panel[1] = "launcher" -> 3
    [] panel[1] = "settings" -> 6
    [] panel[1] = "timer"    -> IF panel[2] = "setting" THEN 6 ELSE 4

\* Manager::open: there are two plugins, so a long press shows the list.
Opened(c) == IF PanelOf(c) # None THEN c ELSE [c EXCEPT !.launcher = LauncherIdle]

CardTapped(c) == [c EXCEPT !.timer = TimerOpened(@)]

\* Manager::button: the owner of the panel is the one that it was drawn for.
Pressed(c, owner, i) ==
  CASE owner = "launcher" ->
         LET closed == [c EXCEPT !.launcher = None]
         IN  (CASE i = 1 -> [closed EXCEPT !.timer = TimerOpened(@)]
                [] i = 2 -> [closed EXCEPT !.settings = [page |-> 0, open |-> SettingsIdle]]
                [] i = 3 -> closed)
    [] owner = "timer"    -> [c EXCEPT !.timer = TimerButton(@, i)]
    [] owner = "settings" -> [c EXCEPT !.settings = SettingsButton(@, i)]

\* ... and what that is, for the history.
Effect(c, owner, i) ==
  CASE owner = "launcher" -> <<<<"open", "timer">>, <<"open", "settings">>, Close>>[i]
    [] owner = "timer"    -> (CASE c.timer.state = "setting" -> <<"op", SettingOps[i]>>
                                [] c.timer.state = "running" /\ c.timer.panel # None ->
                                     <<"op", RunningOps[i]>>
                                [] OTHER -> Nothing)
    [] owner = "settings" -> IF c.settings.open = None THEN Nothing
                             ELSE SettingsEffect(c.settings.page, i)

\* A tick passes.
Sooner(n) == IF n = None THEN None ELSE n - 1

TimerLater(t) ==
  Timer(t.state, t.minutes, Sooner(t.panel), t.total,
        IF t.state = "running" THEN t.left - 1 ELSE t.left,
        IF t.state = "done" THEN t.since + 1 ELSE t.since)

Age(c) ==
  [timer    |-> TimerLater(c.timer),
   cue      |-> c.cue,
   last     |-> c.last,
   lastAge  |-> IF c.last = None THEN 0 ELSE Least(c.lastAge + 1, CueRenew),
   settings |-> [c.settings EXCEPT !.open = Sooner(@)],
   launcher |-> Sooner(c.launcher)]

-----------------------------------------------------------------------------
(* What a user reads.                                                      *)

\* The labels of a panel, in the order in which they are drawn.
Labels(panel) ==
  CASE panel[1] = "launcher" -> <<"TIMER", "SETTINGS", "CLOSE">>
    [] panel[1] = "timer" -> IF panel[2] = "setting"
                             THEN <<"+1h", "+10m", "+1m", "CLEAR", "START", "CLOSE">>
                             ELSE <<"+10m", "-10m", "STOP", "CLOSE">>
    [] panel[1] = "settings" ->
         CASE panel[2] = 0 -> <<"AUTO", "TEXT", "MOVE", "LED", "NEXT", "CLOSE">>
           [] panel[2] = 1 -> <<"TOUCH", "SENSE", "DARK", "PACE", "SAVE", "MORE">>
           [] panel[2] = 2 -> <<"EXPRESSION", "SPEECH", "FIRST", "BACK", "SAVE", "CLOSE">>

\* What a label promises.
Promise(panel, label) ==
  CASE panel[1] = "timer" -> <<"op", label>>
    [] panel[1] = "launcher" -> (CASE label = "TIMER" -> <<"open", "timer">>
                                   [] label = "SETTINGS" -> <<"open", "settings">>
                                   [] label = "CLOSE" -> Close)
    [] panel[1] = "settings" ->
         CASE label = "AUTO"  -> Change("enabled")    [] label = "TEXT"  -> Change("speech")
           [] label = "MOVE"  -> Change("motion")     [] label = "LED"   -> Change("led")
           [] label = "TOUCH" -> Change("touch")      [] label = "SENSE" -> Change("sensors")
           [] label = "DARK"  -> Change("dark_quiet") [] label = "PACE"  -> Change("pace")
           [] label = "EXPRESSION" -> Change("expression")
           [] label = "SPEECH" -> Change("speech_pace")
           [] label \in {"NEXT", "MORE"} -> Page(panel[2] + 1)
           [] label = "BACK"  -> Page(panel[2] - 1)
           [] label = "FIRST" -> Page(0)
           [] label = "SAVE"  -> Save
           [] label = "CLOSE" -> Close
=============================================================================
