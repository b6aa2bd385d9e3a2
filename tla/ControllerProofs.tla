-------------------------- MODULE ControllerProofs --------------------------
(***************************************************************************)
(* What is proved of Controller: the display shows what it should, a tap   *)
(* does what is seen, and a cue ends, for any panels' durations, Cards,    *)
(* reactions and budgets.                                                  *)
(***************************************************************************)
EXTENDS Controller, FiniteSetTheorems, NaturalsInduction, WellFoundedInduction, TLAPS

-----------------------------------------------------------------------------
(* Types.                                                                  *)

Timers == [state : {"idle", "setting", "running", "done"}, minutes : Nat,
           panel : Int \cup {None}, total : Nat, left : Int, since : Nat]

\* The panel of the timer is open while its time is set, and may be while it runs; no more
\* is left to it than its total.
TimerType(t) ==
  /\ t \in Timers
  /\ t.left <= t.total
  /\ t.state = "setting" => t.panel # None
  /\ t.panel # None => t.state \in {"setting", "running"}

Opening == Int \cup {None}
Settings == [page : 0 .. 2, open : Opening]

ClientsType(c) ==
  /\ c \in [timer : Timers, cue : Cues \cup {None}, last : Cues \cup {None}, lastAge : Nat,
            settings : Settings, launcher : Opening]
  /\ TimerType(c.timer)

Faces == {<<"face", e, p, r>> : e \in {<<"none">>} \cup Expressions,
                                p \in BOOLEAN, r \in {<<>>} \cup {<<x>> : x \in Reactions}}

\* What there can be in an area of the screen.
Looks == {Blank, Unknown, <<"startup">>, <<"black", 3>>} \cup Composed \cup Faces

Pictures == [Areas -> Looks]
Frames == [pixels : Pictures, flushed : Pictures, synced : BOOLEAN, written : BOOLEAN]

TypeOK ==
  /\ pc \in {"turn", "tick", "touch", "receive"}
  /\ state \in DisplayState
  /\ mode \in {"demo", "forward"} /\ startup \in BOOLEAN
  /\ local \in Views
  /\ ClientsType(clients)
  /\ reaction \in Reactions \cup {None} /\ dirty \in BOOLEAN /\ nextPoll \in Int
  /\ frame \in Frames
  /\ lcd \in Pictures
  /\ budget \in Budgets
  /\ {gestures, messages, faults} \subseteq Nat
  /\ shown \in BOOLEAN /\ quiet \in 0 .. CueLife

-----------------------------------------------------------------------------
(* The invariants.                                                         *)

\* What the frame buffer has sent is on the display unless a transfer failed, and a
\* transfer that succeeded has left nothing to be sent.
Flushed ==
  /\ frame.synced => lcd = frame.flushed
  /\ frame.synced /\ ~frame.written => frame.flushed = frame.pixels
  /\ shown => frame.synced /\ ~frame.written

\* The View taken over is that of the clients, whose cues are taken at once.
TakenOver == local = View(clients) /\ clients.cue = None

\* The screen of the start stays until the host or a panel has something to show.
Starting == startup => local = View(NoClients) /\ \A i \in 1 .. 3 : state.slots[i] = None

\* The frame buffer holds what is to be shown, or the next tick will draw it.
UpToDate ==
  IF dirty THEN nextPoll <= 0 /\ (pc = "tick" \/ (pc = "turn" /\ ~shown))
  ELSE frame.pixels = Picture(state, local, reaction, startup)

\* The Emote of a cue has no more time left than is allowed since the timer had a cue.
CueFading ==
  /\ pc = "tick" /\ Cue(clients.timer) # None => quiet = 0
  /\ state.emote # None /\ state.emote.source = "client" =>
       quiet + state.emote.left <= CueLife /\ (pc # "tick" => state.emote.left > 0)

Current == Flushed /\ TakenOver /\ Starting /\ UpToDate

-----------------------------------------------------------------------------
(* The clients.                                                            *)

LEMMA NonePlain ==
  /\ \A n \in Int : n # None
  /\ \A c \in Cues : c # None
  /\ \A p \in Panels : p # None
  /\ \A b \in Banners : b # None
BY NoneAssumption

LEMMA Durations ==
  /\ Minute \in Nat /\ MaxMinutes \in Nat /\ Adjust \in Nat /\ PanelIdle \in Nat
  /\ LauncherIdle \in Nat /\ SettingsIdle \in Nat /\ CueLife \in Nat /\ CueLife > 0
  /\ CueRenew \in Nat /\ Almost \in Nat /\ Final \in Nat
  /\ Steps[1] \in Nat /\ Steps[2] \in Nat /\ Steps[3] \in Nat
BY ClientsAssumption

LEMMA LeastType ==
  ASSUME NEW m \in Nat, NEW n \in Nat
  PROVE  Least(m, n) \in Nat /\ Least(m, n) <= m /\ Least(m, n) <= n
BY DEF Least

LEMMA Product ==
  ASSUME NEW m \in Nat, NEW n \in Nat
  PROVE  m * n \in Nat
OBVIOUS

LEMMA OffType == TimerType(Off)
BY DEF TimerType, Timers, Timer, Off

LEMMA SettingType ==
  ASSUME NEW m \in Nat
  PROVE  TimerType(SettingOf(m))
<1>1. PanelIdle \in Int /\ PanelIdle # None
  BY Durations, NonePlain
<1>2. Least(m, MaxMinutes) \in Nat
  BY Durations, LeastType
<1> QED
  BY <1>1, <1>2 DEF SettingOf, Timer, TimerType, Timers

LEMMA RunningType ==
  ASSUME NEW m \in Nat
  PROVE  TimerType(RunningFor(m))
<1>1. m * Minute \in Nat
  BY Durations, Product
<1> QED
  BY <1>1 DEF RunningFor, Timer, TimerType, Timers

LEMMA TimerTickedType ==
  ASSUME NEW t, TimerType(t)
  PROVE  TimerType(TimerTicked(t))
<1>1. CASE t.state = "setting"
  BY <1>1, OffType DEF TimerTicked, TimerType
<1>2. CASE t.state = "running" /\ t.left <= 0
  <2>1. TimerTicked(t) = DoneSince(-t.left)
    BY <1>2 DEF TimerTicked, TimerType, Timers
  <2>2. -t.left \in Nat
    BY <1>2 DEF TimerType, Timers
  <2> QED
    BY <2>1, <2>2 DEF DoneSince, Timer, TimerType, Timers
<1>3. CASE t.state = "running" /\ ~(t.left <= 0)
  <2>1. TimerTicked(t) \in {t, [t EXCEPT !.panel = None]}
    BY <1>3 DEF TimerTicked
  <2> QED
    BY <1>3, <2>1 DEF TimerType, Timers
<1>4. CASE t.state \in {"done", "idle"}
  BY <1>4, OffType DEF TimerTicked
<1> QED
  BY <1>1, <1>2, <1>3, <1>4 DEF TimerType, Timers

\* A tick gives the timer no reason for a cue that it did not have.
LEMMA CueBefore ==
  ASSUME NEW t, TimerType(t), Cue(TimerTicked(t)) # None
  PROVE  Cue(t) # None
<1>1. Cue(Off) = None
  BY DEF Cue, Timer, Off
<1> DEFINE almost == Least(Almost, t.total \div 5)
           final  == Least(Final, almost \div 2)
<1>2. almost \in Nat /\ final \in Nat
  <2>1. t.total \div 5 \in Nat
    BY DEF TimerType, Timers
  <2>2. almost \in Nat
    BY <2>1, Durations, LeastType
  <2>3. almost \div 2 \in Nat
    BY <2>2
  <2> QED
    BY <2>2, <2>3, Durations, LeastType
<1> HIDE DEF almost, final
<1>3. \A p \in {"almost", "final"} : \A n \in Int : Glance(p, n) # None
  <2> TAKE p \in {"almost", "final"}
  <2> TAKE n \in Int
  <2>1. Glance(p, n) \in Cues
    BY DEF Glance, Cues
  <2> QED
    BY <2>1, NonePlain
<1>4. CASE t.state = "setting"
  BY <1>1, <1>4 DEF TimerTicked, Cue
<1>5. CASE t.state = "running" /\ t.left <= 0
  <2>1. Cue(t) = Glance("final", (final - (IF t.left < 0 THEN 0 ELSE t.left)) % FinalEvery)
    BY <1>2, <1>5 DEF Cue, almost, final, TimerType, Timers
  <2>2. (final - (IF t.left < 0 THEN 0 ELSE t.left)) % FinalEvery \in Int
    BY <1>2, ClientsAssumption DEF TimerType, Timers
  <2> QED
    BY <1>3, <2>1, <2>2
<1>6. CASE t.state = "running" /\ ~(t.left <= 0)
  <2>1. TimerTicked(t) \in {t, [t EXCEPT !.panel = None]}
    BY <1>6 DEF TimerTicked
  <2>2. Cue([t EXCEPT !.panel = None]) = Cue(t)
    BY DEF Cue, TimerType, Timers
  <2> QED
    BY <2>1, <2>2
<1>7. CASE t.state = "done"
  BY <1>1, <1>7 DEF TimerTicked
<1>8. CASE t.state = "idle"
  BY <1>8 DEF TimerTicked
<1> QED
  BY <1>4, <1>5, <1>6, <1>7, <1>8 DEF TimerType, Timers

\* What the gestures make of the timer.
LEMMA TimerOpenedType ==
  ASSUME NEW t, TimerType(t)
  PROVE  TimerType(TimerOpened(t))
<1>1. CASE t.state = "running"
  <2>1. PanelIdle \in Int /\ PanelIdle # None
    BY Durations, NonePlain
  <2>2. TimerOpened(t) = [t EXCEPT !.panel = PanelIdle]
    BY <1>1 DEF TimerOpened
  <2> QED
    BY <1>1, <2>1, <2>2 DEF TimerType, Timers
<1>2. CASE t.state # "running"
  BY <1>2, OffType, SettingType DEF TimerOpened, TimerType, Timers
<1> QED
  BY <1>1, <1>2

LEMMA AfterSettingType ==
  ASSUME NEW t, TimerType(t), NEW i \in 1 .. 6
  PROVE  TimerType(AfterSetting(t, SettingOps[i]))
<1>1. t.minutes \in Nat
  BY DEF TimerType, Timers
<1>2. t.minutes + Steps[1] \in Nat /\ t.minutes + Steps[2] \in Nat /\ t.minutes + Steps[3] \in Nat
  BY <1>1, Durations
<1>3. /\ TimerType(SettingOf(t.minutes + Steps[1])) /\ TimerType(SettingOf(t.minutes + Steps[2]))
      /\ TimerType(SettingOf(t.minutes + Steps[3])) /\ TimerType(SettingOf(0))
      /\ TimerType(RunningFor(t.minutes)) /\ TimerType(Off)
  BY <1>1, <1>2, SettingType, RunningType, OffType
<1>4. SettingOps[i] \in {"+1h", "+10m", "+1m", "CLEAR", "START", "CLOSE"}
  BY DEF SettingOps
<1> QED
  BY <1>3, <1>4 DEF AfterSetting

LEMMA WithTotalType ==
  ASSUME NEW t, TimerType(t), t.state = "running", NEW total \in Nat
  PROVE  TimerType(WithTotal(t, total))
<1>1. PanelIdle \in Int /\ PanelIdle # None
  BY Durations, NonePlain
<1>2. /\ t.left + total - t.total \in Int /\ t.left + total - t.total <= total
      /\ t.minutes \in Nat /\ t.since \in Nat
  BY DEF TimerType, Timers
<1> QED
  BY <1>1, <1>2 DEF WithTotal, Timer, TimerType, Timers

LEMMA AfterRunningType ==
  ASSUME NEW t, TimerType(t), t.state = "running", NEW i \in 1 .. 4
  PROVE  TimerType(AfterRunning(t, RunningOps[i]))
<1> DEFINE change == Adjust * Minute
           most   == MaxMinutes * Minute
<1>1. change \in Nat /\ most \in Nat
  BY Durations, Product
<1> HIDE DEF change, most
<1>2. t.total \in Nat /\ t.left \in Int /\ t.left <= t.total
  BY DEF TimerType, Timers
<1>3. Least(t.total + change, most) \in Nat
  BY <1>1, <1>2, LeastType
<1>4. TimerType(WithTotal(t, Least(t.total + change, most)))
  BY <1>3, WithTotalType
<1>5. TimerType(WithTotal(t, t.total))
  BY <1>2, WithTotalType
<1>6. t.left > change => TimerType(WithTotal(t, t.total - change))
  <2> HAVE t.left > change
  <2>1. t.total - change \in Nat
    BY <1>1, <1>2
  <2> QED
    BY <2>1, WithTotalType
<1>7. TimerType([t EXCEPT !.panel = None])
  BY DEF TimerType, Timers
<1>8. RunningOps[i] \in {"+10m", "-10m", "STOP", "CLOSE"}
  BY DEF RunningOps
<1> QED
  BY <1>4, <1>5, <1>6, <1>7, <1>8, OffType DEF AfterRunning, change, most

LEMMA TimerButtonType ==
  ASSUME NEW t, TimerType(t), NEW i \in 1 .. 6, t.state # "setting" => i <= 4
  PROVE  TimerType(TimerButton(t, i))
<1>1. CASE t.state = "setting"
  BY <1>1, AfterSettingType DEF TimerButton
<1>2. CASE t.state = "running" /\ t.panel # None
  <2>1. i \in 1 .. 4
    BY <1>2
  <2> QED
    BY <1>2, <2>1, AfterRunningType DEF TimerButton
<1>3. CASE t.state # "setting" /\ ~(t.state = "running" /\ t.panel # None)
  BY <1>3 DEF TimerButton
<1> QED
  BY <1>1, <1>2, <1>3

LEMMA SettingsButtonType ==
  ASSUME NEW s \in Settings, NEW i \in 1 .. 6
  PROVE  SettingsButton(s, i) \in Settings
<1>1. SettingsIdle \in Opening /\ None \in Opening
  BY Durations DEF Opening
<1>2. LET did == SettingsEffect(s.page, i) IN did[1] = "page" => did[2] \in 0 .. 2
  <2>1. s.page \in {0, 1, 2} /\ i \in {1, 2, 3, 4, 5, 6}
    BY DEF Settings
  <2>2. CASE s.page = 0
    BY <2>1, <2>2 DEF SettingsEffect, Page, Change, Save, Close
  <2>3. CASE s.page = 1
    BY <2>1, <2>3 DEF SettingsEffect, Page, Change, Save, Close
  <2>4. CASE s.page = 2
    BY <2>1, <2>4 DEF SettingsEffect, Page, Change, Save, Close
  <2> QED
    BY <2>1, <2>2, <2>3, <2>4
<1> QED
  BY <1>1, <1>2 DEF SettingsButton, Settings

\* The clients keep their types; only a tick asks for a cue.
LEMMA OpenedType ==
  ASSUME NEW c, ClientsType(c)
  PROVE  ClientsType(Opened(c)) /\ Opened(c).cue = c.cue
<1>1. LauncherIdle \in Opening
  BY Durations DEF Opening
<1> QED
  BY <1>1 DEF Opened, ClientsType

LEMMA CardTappedType ==
  ASSUME NEW c, ClientsType(c)
  PROVE  ClientsType(CardTapped(c)) /\ CardTapped(c).cue = c.cue
<1>1. TimerType(TimerOpened(c.timer))
  BY TimerOpenedType DEF ClientsType
<1>2. TimerOpened(c.timer) \in Timers
  BY <1>1 DEF TimerType
<1> QED
  BY <1>1, <1>2 DEF CardTapped, ClientsType

LEMMA PressedType ==
  ASSUME NEW c, ClientsType(c), PanelOf(c) # None, NEW i \in 1 .. Buttons(PanelOf(c))
  PROVE  /\ ClientsType(Pressed(c, PanelOf(c)[1], i))
         /\ Pressed(c, PanelOf(c)[1], i).cue = c.cue
<1>1. CASE c.launcher # None
  <2>1. PanelOf(c) = <<"launcher">> /\ Buttons(PanelOf(c)) = 3
    BY <1>1 DEF PanelOf, Buttons
  <2>2. i \in {1, 2, 3} /\ PanelOf(c)[1] = "launcher"
    BY <2>1
  <2>3. /\ TimerType(TimerOpened(c.timer)) /\ TimerOpened(c.timer) \in Timers
        /\ SettingsIdle \in Opening /\ None \in Opening
    BY TimerOpenedType, Durations DEF ClientsType, TimerType, Opening
  <2> DEFINE closed == [c EXCEPT !.launcher = None]
  <2>4. ClientsType(closed) /\ closed.cue = c.cue /\ closed.timer = c.timer
    BY <2>3 DEF ClientsType
  <2>5. CASE i = 1
    <3>1. Pressed(c, "launcher", i) = [closed EXCEPT !.timer = TimerOpened(c.timer)]
      BY <2>4, <2>5 DEF Pressed
    <3> HIDE DEF closed
    <3> QED
      BY <2>2, <2>3, <2>4, <3>1 DEF ClientsType
  <2>6. CASE i = 2
    <3>1. Pressed(c, "launcher", i) = [closed EXCEPT !.settings = [page |-> 0, open |-> SettingsIdle]]
      BY <2>6 DEF Pressed
    <3>2. [page |-> 0, open |-> SettingsIdle] \in Settings
      BY <2>3 DEF Settings
    <3> HIDE DEF closed
    <3> QED
      BY <2>2, <2>4, <3>1, <3>2 DEF ClientsType
  <2>7. CASE i = 3
    <3>1. Pressed(c, "launcher", i) = closed
      BY <2>7 DEF Pressed
    <3> HIDE DEF closed
    <3> QED
      BY <2>2, <2>4, <3>1
  <2> QED
    BY <2>2, <2>5, <2>6, <2>7
<1>2. CASE c.launcher = None /\ c.timer.panel # None
  <2>1. PanelOf(c) = <<"timer", c.timer.state, c.timer.minutes>>
    BY <1>2 DEF PanelOf
  <2>2. i \in 1 .. 6 /\ (c.timer.state # "setting" => i <= 4)
    BY <2>1 DEF Buttons
  <2>3. TimerType(TimerButton(c.timer, i)) /\ TimerButton(c.timer, i) \in Timers
    BY <2>2, TimerButtonType DEF ClientsType, TimerType
  <2>4. Pressed(c, "timer", i) = [c EXCEPT !.timer = TimerButton(c.timer, i)]
    BY DEF Pressed
  <2> QED
    BY <2>1, <2>3, <2>4 DEF ClientsType
<1>3. CASE c.launcher = None /\ c.timer.panel = None
  <2>1. PanelOf(c) = <<"settings", c.settings.page>> /\ c.settings.open # None
    BY <1>3 DEF PanelOf
  <2>2. i \in 1 .. 6
    BY <2>1 DEF Buttons
  <2>3. SettingsButton(c.settings, i) \in Settings
    BY <2>2, SettingsButtonType DEF ClientsType
  <2>4. Pressed(c, "settings", i) = [c EXCEPT !.settings = SettingsButton(c.settings, i)]
    BY DEF Pressed
  <2> QED
    BY <2>1, <2>3, <2>4 DEF ClientsType
<1> QED
  BY <1>1, <1>2, <1>3

LEMMA TimerLaterType ==
  ASSUME NEW t, TimerType(t)
  PROVE  /\ TimerType(TimerLater(t)) /\ TimerLater(t) \in Timers
         /\ TimerLater(t).state = t.state /\ TimerLater(t).minutes = t.minutes
         /\ (TimerLater(t).panel = None <=> t.panel = None)
<1> DEFINE left  == IF t.state = "running" THEN t.left - 1 ELSE t.left
           since == IF t.state = "done" THEN t.since + 1 ELSE t.since
<1>1. Sooner(t.panel) \in Opening /\ (Sooner(t.panel) = None <=> t.panel = None)
  BY NonePlain DEF Sooner, TimerType, Timers, Opening
<1>2. /\ t.left \in Int /\ t.total \in Nat /\ t.left <= t.total /\ t.since \in Nat /\ t.minutes \in Nat
      /\ t.state \in {"idle", "setting", "running", "done"}
  BY DEF TimerType, Timers
<1>3. left \in Int /\ left <= t.total /\ since \in Nat
  BY <1>2
<1> HIDE DEF left, since
<1>4. TimerLater(t) = [state |-> t.state, minutes |-> t.minutes, panel |-> Sooner(t.panel),
                       total |-> t.total, left |-> left, since |-> since]
  BY DEF TimerLater, Timer, left, since
<1>5. TimerLater(t) \in Timers
  BY <1>1, <1>2, <1>3, <1>4 DEF Timers, Opening
<1> QED
  BY <1>1, <1>3, <1>4, <1>5 DEF TimerType

\* Time does not change what is seen of the clients.
LEMMA AgeType ==
  ASSUME NEW c, ClientsType(c)
  PROVE  ClientsType(Age(c)) /\ View(Age(c)) = View(c) /\ Age(c).cue = c.cue
<1> DEFINE s == [c.settings EXCEPT !.open = Sooner(@)]
           n == IF c.last = None THEN 0 ELSE Least(c.lastAge + 1, CueRenew)
<1>1. /\ TimerType(TimerLater(c.timer)) /\ TimerLater(c.timer) \in Timers
      /\ TimerLater(c.timer).state = c.timer.state
      /\ TimerLater(c.timer).minutes = c.timer.minutes
      /\ (TimerLater(c.timer).panel = None <=> c.timer.panel = None)
  BY TimerLaterType DEF ClientsType
<1>2. \A m \in Opening : Sooner(m) \in Opening /\ (Sooner(m) = None <=> m = None)
  BY NonePlain DEF Sooner, Opening
<1>3. n \in Nat
  <2>1. c.lastAge + 1 \in Nat
    BY DEF ClientsType
  <2> QED
    BY <2>1, Durations, LeastType
<1>4. c.launcher \in Opening /\ c.settings \in Settings /\ c.settings.open \in Opening
  BY DEF ClientsType, Settings
<1>6. s \in Settings /\ s.page = c.settings.page /\ s.open = Sooner(c.settings.open)
  BY <1>2, <1>4 DEF Settings
<1>7. Age(c) = [timer |-> TimerLater(c.timer), cue |-> c.cue, last |-> c.last, lastAge |-> n,
                settings |-> s, launcher |-> Sooner(c.launcher)]
  BY DEF Age
<1> HIDE DEF s, n
<1>5. /\ Age(c).timer = TimerLater(c.timer) /\ Age(c).launcher = Sooner(c.launcher)
      /\ Age(c).settings = s /\ Age(c).cue = c.cue
  BY <1>7
<1>8. ClientsType(Age(c))
  <2>1. Age(c).launcher \in Opening
    BY <1>2, <1>4, <1>5
  <2>2. c.cue \in Cues \cup {None} /\ c.last \in Cues \cup {None}
    BY DEF ClientsType
  <2> QED
    BY <1>1, <1>3, <1>5, <1>6, <1>7, <2>1, <2>2 DEF ClientsType
<1>9. PanelOf(Age(c)) = PanelOf(c)
  BY <1>1, <1>2, <1>4, <1>5, <1>6 DEF PanelOf
<1>10. CardOf(Age(c)) = CardOf(c)
  BY <1>1, <1>5 DEF CardOf
<1> QED
  BY <1>5, <1>8, <1>9, <1>10 DEF View

LEMMA CueType ==
  ASSUME NEW t, TimerType(t)
  PROVE  Cue(t) \in Cues \cup {None}
<1>1. \A p \in {"almost", "final"} : \A n : Glance(p, n) \in Cues
  BY DEF Glance, Cues
<1>2. \A d \in {"up", "down"} : <<"nod", d>> \in Cues
  BY DEF Cues
<1>3. <<"done", "center">> \in Cues
  BY DEF Cues
<1>4. CASE t.state = "running"
  BY <1>1, <1>4 DEF Cue
<1>5. CASE t.state = "done"
  BY <1>2, <1>3, <1>5 DEF Cue
<1>6. CASE t.state \in {"idle", "setting"}
  BY <1>6 DEF Cue
<1> QED
  BY <1>4, <1>5, <1>6 DEF TimerType, Timers

\* A tick asks for a cue only while the timer has reason for one.
LEMMA TickedType ==
  ASSUME NEW c, ClientsType(c)
  PROVE  /\ ClientsType(Ticked(c))
         /\ (c.cue = None /\ Ticked(c).cue # None => Cue(c.timer) # None)
<1> DEFINE t == TimerTicked(c.timer)
           d == [c EXCEPT !.timer = TimerTicked(@)]
           e == Cued(d)
<1>1. TimerType(t) /\ t \in Timers /\ Cue(t) \in Cues \cup {None} /\ (Cue(t) # None => Cue(c.timer) # None)
  BY TimerTickedType, CueType, CueBefore DEF ClientsType, TimerType
<1>2. d = [c EXCEPT !.timer = t]
  BY DEF ClientsType
<1> HIDE DEF t
<1>3. ClientsType(d) /\ d.cue = c.cue /\ d.timer = t
  BY <1>1, <1>2 DEF ClientsType
<1> HIDE DEF d
<1>4. ClientsType(e) /\ (e.cue # None => e.cue = d.cue \/ Cue(t) # None)
  <2>1. CASE Cue(d.timer) = None
    <3>1. e = [timer |-> t, cue |-> None, last |-> None, lastAge |-> 0,
               settings |-> d.settings, launcher |-> d.launcher]
      BY <1>3, <2>1 DEF Cued, ClientsType
    <3> HIDE DEF e
    <3> QED
      BY <1>1, <1>3, <3>1 DEF ClientsType
  <2>2. CASE Cue(d.timer) # None /\ e # d
    <3>1. e = [timer |-> t, cue |-> Cue(t), last |-> Cue(t), lastAge |-> 0,
               settings |-> d.settings, launcher |-> d.launcher]
      BY <1>3, <2>2 DEF Cued, ClientsType
    <3> HIDE DEF e
    <3> QED
      BY <1>1, <1>3, <2>2, <3>1 DEF ClientsType
  <2>3. CASE e = d
    BY <1>3, <2>3
  <2> QED
    BY <2>1, <2>2, <2>3
<1> HIDE DEF e
<1>5. Ticked(c) = [e EXCEPT !.settings.open = IF @ # None /\ @ <= 0 THEN None ELSE @,
                            !.launcher      = IF @ # None /\ @ <= 0 THEN None ELSE @]
  BY DEF Ticked, e, d
<1>6. e.settings \in Settings /\ e.launcher \in Opening
  BY <1>4 DEF ClientsType
<1> DEFINE s == [e.settings EXCEPT !.open = IF @ # None /\ @ <= 0 THEN None ELSE @]
           l == IF e.launcher # None /\ e.launcher <= 0 THEN None ELSE e.launcher
<1>7. s \in Settings /\ l \in Opening
  BY <1>6 DEF Settings, Opening
<1>8. Ticked(c) = [timer |-> e.timer, cue |-> e.cue, last |-> e.last, lastAge |-> e.lastAge,
                   settings |-> s, launcher |-> l]
  BY <1>4, <1>5 DEF ClientsType
<1> HIDE DEF s, l
<1>9. ClientsType(Ticked(c)) /\ Ticked(c).cue = e.cue
  BY <1>4, <1>7, <1>8 DEF ClientsType
<1> QED
  BY <1>1, <1>3, <1>4, <1>9

LEMMA CuesTakenType ==
  ASSUME NEW c, ClientsType(c)
  PROVE  ClientsType(CuesTaken(c)) /\ View(CuesTaken(c)) = View(c) /\ CuesTaken(c).cue = None
<1>1. /\ CuesTaken(c).timer = c.timer /\ CuesTaken(c).settings = c.settings
      /\ CuesTaken(c).launcher = c.launcher /\ CuesTaken(c).cue = None
  BY DEF CuesTaken, ClientsType
<1>2. ClientsType(CuesTaken(c))
  BY DEF CuesTaken, ClientsType
<1>3. PanelOf(CuesTaken(c)) = PanelOf(c) /\ CardOf(CuesTaken(c)) = CardOf(c)
  BY <1>1 DEF PanelOf, CardOf
<1> QED
  BY <1>1, <1>2, <1>3 DEF View

LEMMA ViewType ==
  ASSUME NEW c, ClientsType(c)
  PROVE  View(c) \in Views
<1>1. PanelOf(c) \in Panels \cup {None}
  <2>1. <<"launcher">> \in Panels
    BY DEF Panels
  <2>2. c.timer.panel # None => <<"timer", c.timer.state, c.timer.minutes>> \in Panels
    BY DEF Panels, ClientsType, TimerType, Timers
  <2>3. <<"settings", c.settings.page>> \in Panels
    BY DEF Panels, ClientsType, Settings
  <2> QED
    BY <2>1, <2>2, <2>3 DEF PanelOf
<1>2. CardOf(c) \in Banners \cup {None}
  <2>1. \A s \in {"running", "done"} : <<"card", s>> \in Banners
    BY DEF Banners
  <2> QED
    BY <2>1 DEF CardOf
<1> QED
  BY <1>1, <1>2 DEF View, Views

-----------------------------------------------------------------------------
(* The picture.                                                            *)

LEMMA NoEntry ==
  /\ \A what \in Composed, left \in Remaining : [what |-> what, left |-> left] # None
  /\ \A e \in SlotEntry : e # None
  /\ \A e \in Presence : e # None
  /\ \A e \in Emote : e # None
  /\ \A r \in Reactions : r # None
<1>1. SlotEntry \subseteq [what : Composed, left : Remaining]
  BY DEF SlotEntry, Composed
<1> QED
  BY <1>1, EntryAssumption

\* What each operation of DisplayState makes of an entry.
LEMMA ExpireType ==
  ASSUME NEW s \in DisplayState
  PROVE  /\ Expire(s) \in DisplayState
         /\ \A i \in 1 .. 3 : Expire(s).slots[i] \in {s.slots[i], None}
         /\ Expire(s).emote \in {s.emote, None}
         /\ (Expire(s).emote # None => Expire(s).emote.left # 0)
<1>1. \A e : Rest(e) \in {e, None} /\ (Rest(e) # None => e.left # 0)
  BY DEF Rest
<1>2. Expire(s) = [slots |-> [i \in 1 .. 3 |-> Rest(s.slots[i])], presence |-> Rest(s.presence),
                   emote |-> Rest(s.emote)]
  BY DEF Expire
<1> QED
  BY <1>1, <1>2 DEF DisplayState

\* Two states that look the same.
SameLook(s, t) ==
  /\ \A i \in 1 .. 3 : /\ s.slots[i] = None <=> t.slots[i] = None
                       /\ s.slots[i] # None => s.slots[i].what = t.slots[i].what
  /\ s.presence = None <=> t.presence = None
  /\ s.emote = None <=> t.emote = None
  /\ s.emote # None => s.emote.what = t.emote.what

LEMMA OlderType ==
  ASSUME NEW s \in DisplayState
  PROVE  /\ Older(s) \in DisplayState /\ SameLook(Older(s), s)
         /\ (s.emote # None =>
              /\ Older(s).emote.source = s.emote.source
              /\ Older(s).emote.left = IF s.emote.left = 0 THEN 0 ELSE s.emote.left - 1)
<1>1. ASSUME NEW e \in SlotEntry \cup {None}
      PROVE  /\ Later(e) \in SlotEntry \cup {None} /\ (Later(e) = None <=> e = None)
             /\ (e # None => Later(e).what = e.what)
  <2>1. CASE e = None
    BY <2>1 DEF Later
  <2>2. CASE e # None
    <3>1. e.left \in Remaining
      BY <2>2 DEF SlotEntry
    <3>2. e.left \in {0, Forever} \/ e.left - 1 \in Remaining
      BY <3>1 DEF Remaining, Forever
    <3>3. Later(e) \in SlotEntry /\ Later(e).what = e.what
      BY <2>2, <3>2 DEF Later, SlotEntry
    <3> QED
      BY <2>2, <3>3, NoEntry
  <2> QED
    BY <2>1, <2>2
<1>2. ASSUME NEW e \in Presence \cup {None}
      PROVE  Later(e) \in Presence \cup {None} /\ (Later(e) = None <=> e = None)
  <2>1. CASE e = None
    BY <2>1 DEF Later
  <2>2. CASE e # None
    <3>1. e.left \in Remaining
      BY <2>2 DEF Presence
    <3>2. e.left \in {0, Forever} \/ e.left - 1 \in Remaining
      BY <3>1 DEF Remaining, Forever
    <3>3. Later(e) \in Presence
      BY <2>2, <3>2 DEF Later, Presence
    <3> QED
      BY <2>2, <3>3, NoEntry
  <2> QED
    BY <2>1, <2>2
<1>3. ASSUME NEW e \in Emote \cup {None}
      PROVE  /\ Later(e) \in Emote \cup {None} /\ (Later(e) = None <=> e = None)
             /\ (e # None => /\ Later(e).what = e.what /\ Later(e).source = e.source
                             /\ Later(e).left = IF e.left = 0 THEN 0 ELSE e.left - 1)
  <2>1. CASE e = None
    BY <2>1 DEF Later
  <2>2. CASE e # None
    <3>1. e.left \in Nat
      BY <2>2 DEF Emote
    <3>2. /\ Later(e) \in Emote /\ Later(e).what = e.what /\ Later(e).source = e.source
          /\ Later(e).left = IF e.left = 0 THEN 0 ELSE e.left - 1
      <4>1. CASE e.left = 0
        BY <2>2, <4>1 DEF Later
      <4>2. CASE e.left # 0
        <5>1. Later(e) = [e EXCEPT !.left = @ - 1] /\ e.left - 1 \in Nat
          BY <2>2, <3>1, <4>2 DEF Later, Forever
        <5> QED
          BY <2>2, <4>2, <5>1 DEF Emote
      <4> QED
        BY <4>1, <4>2
    <3> QED
      BY <2>2, <3>2, NoEntry
  <2> QED
    BY <2>1, <2>2
<1>4. Older(s) = [slots |-> [i \in 1 .. 3 |-> Later(s.slots[i])], presence |-> Later(s.presence),
                  emote |-> Later(s.emote)]
  BY DEF Older
<1>5. /\ \A i \in 1 .. 3 : s.slots[i] \in SlotEntry \cup {None}
      /\ s.presence \in Presence \cup {None} /\ s.emote \in Emote \cup {None}
  BY DEF DisplayState
<1>6. Older(s) \in DisplayState
  BY <1>1, <1>2, <1>3, <1>4, <1>5 DEF DisplayState
<1>7. SameLook(Older(s), s)
  BY <1>1, <1>2, <1>3, <1>4, <1>5 DEF SameLook
<1> QED
  BY <1>3, <1>4, <1>5, <1>6, <1>7

\* What is in slot i for the user (compose).
LookOf(s, v, i) ==
  IF i = 1 /\ v.card # None THEN v.card
  ELSE IF i = 3 /\ v.panel # None THEN <<"panel", v.panel>>
  ELSE IF s.slots[i] = None THEN Blank
  ELSE s.slots[i].what

Composition(s, v, r, start) ==
  IF start THEN [a \in Areas |-> <<"startup">>]
  ELSE IF v.panel # None \/ s.slots[3] # None
  THEN [a \in Areas |-> DrawnIn(LookOf(s, v, 3), a)]
  ELSE [a \in Areas |-> CASE a = "top" -> LookOf(s, v, 1) [] a = "middle" -> Face(s, v, r)
                          [] a = "bottom" -> LookOf(s, v, 2)]

LEMMA PictureIs ==
  ASSUME NEW s \in DisplayState, NEW v \in Views, NEW r, NEW start \in BOOLEAN
  PROVE  Picture(s, v, r, start) = Composition(s, v, r, start)
<1> DEFINE composed == Compose(s, v)
           what(i)  == IF composed.slots[i] = None THEN Blank ELSE composed.slots[i].what
<1>1. /\ composed.slots[1] = IF v.card # None THEN Entry(v.card, 0) ELSE s.slots[1]
      /\ composed.slots[2] = s.slots[2]
      /\ composed.slots[3] = IF v.panel # None THEN Entry(<<"panel", v.panel>>, 0) ELSE s.slots[3]
  <2>1. s.slots \in [1 .. 3 -> SlotEntry \cup {None}]
        /\ s = [slots |-> s.slots, presence |-> s.presence, emote |-> s.emote]
    BY DEF DisplayState
  <2>2. composed.slots = [[s.slots EXCEPT ![1] = IF v.card # None THEN Entry(v.card, 0) ELSE @]
                            EXCEPT ![3] = IF v.panel # None THEN Entry(<<"panel", v.panel>>, 0) ELSE @]
    BY <2>1 DEF Compose
  <2> HIDE DEF composed
  <2> QED
    BY <2>1, <2>2
<1>2. \A w \in Composed : Entry(w, 0) # None /\ Entry(w, 0).what = w
  BY NoEntry DEF Entry, Remaining, Forever
<1>3. (v.card # None => v.card \in Composed) /\ (v.panel # None => <<"panel", v.panel>> \in Composed)
  BY DEF Views, Composed
<1> HIDE DEF composed
<1>4. \A i \in 1 .. 3 : what(i) = LookOf(s, v, i)
  BY <1>1, <1>2, <1>3 DEF LookOf
<1>5. composed.slots[3] # None <=> v.panel # None \/ s.slots[3] # None
  BY <1>1, <1>2, <1>3
<1>6. Picture(s, v, r, start) =
           IF start THEN [a \in Areas |-> <<"startup">>]
           ELSE IF composed.slots[3] # None
           THEN [a \in Areas |-> DrawnIn(what(3), a)]
           ELSE [a \in Areas |-> CASE a = "top" -> what(1) [] a = "middle" -> Face(s, v, r)
                                   [] a = "bottom" -> what(2)]
  BY DEF Picture, composed
<1>7. what(1) = LookOf(s, v, 1) /\ what(2) = LookOf(s, v, 2) /\ what(3) = LookOf(s, v, 3)
  BY <1>4
<1> HIDE DEF what
<1> QED
  BY <1>5, <1>6, <1>7 DEF Composition

LEMMA PictureSame ==
  ASSUME NEW s \in DisplayState, NEW t \in DisplayState, SameLook(s, t),
         NEW v \in Views, NEW r, NEW start \in BOOLEAN
  PROVE  Picture(s, v, r, start) = Picture(t, v, r, start)
<1>1. \A i \in 1 .. 3 : LookOf(s, v, i) = LookOf(t, v, i)
  BY DEF LookOf, SameLook
<1>2. Face(s, v, r) = Face(t, v, r)
  BY DEF Face, SameLook
<1>3. s.slots[3] = None <=> t.slots[3] = None
  BY DEF SameLook
<1>4. Composition(s, v, r, start) = Composition(t, v, r, start)
  <2>1. LookOf(s, v, 1) = LookOf(t, v, 1) /\ LookOf(s, v, 2) = LookOf(t, v, 2)
        /\ LookOf(s, v, 3) = LookOf(t, v, 3)
    BY <1>1
  <2>2. CASE start
    BY <2>2 DEF Composition
  <2>3. CASE ~start /\ (v.panel # None \/ s.slots[3] # None)
    BY <1>3, <2>1, <2>3 DEF Composition
  <2>4. CASE ~start /\ v.panel = None /\ s.slots[3] = None
    BY <1>2, <1>3, <2>1, <2>4 DEF Composition, Areas
  <2> QED
    BY <2>2, <2>3, <2>4
<1> QED
  BY <1>4, PictureIs

LEMMA PictureType ==
  ASSUME NEW s \in DisplayState, NEW v \in Views, NEW r \in Reactions \cup {None},
         NEW start \in BOOLEAN
  PROVE  Picture(s, v, r, start) \in Pictures
<1>1. Face(s, v, r) \in Faces
  <2> DEFINE e == IF s.emote # None THEN s.emote.what ELSE <<"none">>
             p == s.presence # None
             q == IF s.presence = None /\ s.emote = None /\ v.panel = None /\ r # None
                  THEN <<r>> ELSE <<>>
  <2>1. e \in {<<"none">>} \cup Expressions
    BY DEF DisplayState, Emote
  <2>2. p \in BOOLEAN /\ q \in {<<>>} \cup {<<x>> : x \in Reactions}
    OBVIOUS
  <2>3. Face(s, v, r) = <<"face", e, p, q>>
    BY DEF Face
  <2> HIDE DEF e, p, q
  <2> QED
    BY <2>1, <2>2, <2>3 DEF Faces
<1>2. \A i \in 1 .. 3 : LookOf(s, v, i) \in Composed \cup {Blank}
  <2> TAKE i \in 1 .. 3
  <2>1. s.slots[i] # None => s.slots[i].what \in Composed
    BY DEF DisplayState, SlotEntry, Composed
  <2>2. v.card # None => v.card \in Composed
    BY DEF Views, Composed
  <2>3. v.panel # None => <<"panel", v.panel>> \in Composed
    BY DEF Views, Composed
  <2> QED
    BY <2>1, <2>2, <2>3 DEF LookOf
<1>3. \A a \in Areas : DrawnIn(LookOf(s, v, 3), a) \in Looks
  BY <1>2 DEF DrawnIn, Looks
<1>4. <<"startup">> \in Looks /\ LookOf(s, v, 1) \in Looks /\ LookOf(s, v, 2) \in Looks
      /\ Face(s, v, r) \in Looks
  BY <1>1, <1>2 DEF Looks
<1>5. Composition(s, v, r, start) \in Pictures
  BY <1>3, <1>4 DEF Composition, Pictures, Areas
<1> QED
  BY <1>5, PictureIs

-----------------------------------------------------------------------------
(* The frame buffer.                                                       *)

\* What a transfer of f leaves, whether it succeeds or fails somewhere: the frame
\* buffer knows what is on the display, or knows that it does not.
LEMMA FlushLemma ==
  ASSUME NEW f \in Frames, lcd \in Pictures, faults \in Nat, shown \in BOOLEAN,
         f.synced => lcd = f.flushed,
         f.synced /\ ~f.written => f.flushed = f.pixels,
         Flush(f)
  PROVE  /\ Flushed' /\ frame' \in Frames /\ frame'.pixels = f.pixels
         /\ lcd' \in Pictures /\ faults' \in Nat /\ shown' \in BOOLEAN
<1> DEFINE changed == IF f.synced THEN {a \in Areas : f.flushed[a] # f.pixels[a]} ELSE Areas
           idle == /\ f.synced /\ ~f.written
                   /\ frame' = f /\ shown' = TRUE
                   /\ UNCHANGED <<lcd, faults>>
           done == /\ ~f.synced \/ f.written
                   /\ frame' = [pixels |-> f.pixels, flushed |-> f.pixels, synced |-> TRUE, written |-> FALSE]
                   /\ lcd' = [a \in Areas |-> IF a \in changed THEN f.pixels[a] ELSE lcd[a]]
                   /\ shown' = TRUE
                   /\ UNCHANGED faults
<1>1. CASE idle
  BY <1>1 DEF Flushed, Frames
<1>2. CASE done
  <2>1. \A a \in Areas : a \notin changed => f.synced /\ lcd[a] = f.pixels[a]
    OBVIOUS
  <2>2. lcd' = f.pixels
    <3>1. f.pixels = [a \in Areas |-> f.pixels[a]]
      BY DEF Frames, Pictures
    <3> HIDE DEF changed
    <3> QED
      BY <1>2, <2>1, <3>1
  <2> QED
    BY <1>2, <2>2 DEF Flushed, Frames
<1>3. CASE /\ faults' = faults + 1 /\ shown' = FALSE
           /\ \E sent \in SUBSET changed, failing \in changed :
                /\ failing \notin sent
                /\ frame' = AfterFailure(f, sent \cup {failing})
                /\ lcd' = [a \in Areas |-> IF a \in sent THEN f.pixels[a]
                                           ELSE IF a = failing THEN Unknown ELSE lcd[a]]
  <2>1. PICK sent \in SUBSET changed, failing \in changed :
                /\ frame' = AfterFailure(f, sent \cup {failing})
                /\ lcd' = [a \in Areas |-> IF a \in sent THEN f.pixels[a]
                                           ELSE IF a = failing THEN Unknown ELSE lcd[a]]
    BY <1>3
  <2> DEFINE flushed == [a \in Areas |-> IF f.synced /\ a \in sent \cup {failing}
                                         THEN f.pixels[a] ELSE f.flushed[a]]
  <2>2. \A a \in Areas : f.pixels[a] \in Looks /\ f.flushed[a] \in Looks /\ lcd[a] \in Looks
    BY DEF Frames, Pictures
  <2>3. flushed \in Pictures /\ lcd' \in Pictures
    BY <2>1, <2>2 DEF Pictures, Looks
  <2>4. frame' = [pixels |-> f.pixels, flushed |-> flushed, synced |-> FALSE, written |-> f.written]
    BY <2>1 DEF AfterFailure
  <2> HIDE DEF flushed
  <2>5. frame' \in Frames /\ frame'.pixels = f.pixels /\ ~frame'.synced
    BY <2>3, <2>4 DEF Frames
  <2>6. shown' = FALSE /\ faults' = faults + 1
    BY <1>3
  <2>7. Flushed'
    BY <2>5, <2>6 DEF Flushed
  <2>8. faults' \in Nat
    BY <2>6
  <2>9. shown' \in BOOLEAN
    BY <2>6
  <2> QED
    BY <2>3, <2>5, <2>7, <2>8, <2>9
<1> QED
  BY <1>1, <1>2, <1>3 DEF Flush

LEMMA DrawLemma ==
  ASSUME TypeOK, Flushed, NEW s \in DisplayState, NEW v \in Views,
         NEW r \in Reactions \cup {None}, NEW start \in BOOLEAN, Draw(s, v, r, start)
  PROVE  /\ Flushed' /\ frame' \in Frames /\ frame'.pixels = Picture(s, v, r, start)
         /\ lcd' \in Pictures /\ faults' \in Nat /\ shown' \in BOOLEAN
<1> DEFINE p == Picture(s, v, r, start)
           f == Drawn(frame, p)
<1>1. p \in Pictures
  BY PictureType
<1> HIDE DEF p
<1>2. f = [pixels |-> p, flushed |-> frame.flushed, synced |-> frame.synced, written |-> TRUE]
  BY DEF Drawn
<1>3. f \in Frames /\ f.pixels = p /\ (f.synced => lcd = f.flushed) /\ f.written
  BY <1>1, <1>2 DEF TypeOK, Frames, Flushed
<1>4. Flush(f)
  BY DEF Draw, p
<1>5. lcd \in Pictures /\ faults \in Nat /\ shown \in BOOLEAN
  BY DEF TypeOK
<1> HIDE DEF f
<1> QED
  BY <1>3, <1>4, <1>5, FlushLemma DEF p

LEMMA FlushAgain ==
  ASSUME TypeOK, Flushed, Flush(frame)
  PROVE  /\ Flushed' /\ frame' \in Frames /\ frame'.pixels = frame.pixels
         /\ lcd' \in Pictures /\ faults' \in Nat /\ shown' \in BOOLEAN
<1>1. frame \in Frames /\ lcd \in Pictures /\ faults \in Nat /\ shown \in BOOLEAN
  BY DEF TypeOK
<1> QED
  BY <1>1, FlushLemma DEF Flushed

-----------------------------------------------------------------------------
(* The steps.  What each leaves is drawn, and of its type.                 *)

\* The variables of the screen, after it was drawn or was left.
Screen == Flushed /\ frame \in Frames /\ lcd \in Pictures /\ faults \in Nat /\ shown \in BOOLEAN

LEMMA EmptyStateType == EmptyState \in DisplayState
BY DEF EmptyState, DisplayState

LEMMA EntryType ==
  ASSUME NEW what \in Contents, NEW ttl \in Nat
  PROVE  Entry(what, ttl) \in SlotEntry
BY DEF Entry, SlotEntry, Remaining

LEMMA WithEmoteType ==
  ASSUME NEW s \in DisplayState, NEW what \in Expressions, NEW life \in Nat,
         NEW from \in {"client", "host"}
  PROVE  /\ WithEmote(s, what, life, from) \in DisplayState
         /\ WithEmote(s, what, life, from).slots = s.slots
         /\ WithEmote(s, what, life, from).emote = [what |-> what, left |-> life, source |-> from]
<1>1. [what |-> what, left |-> life, source |-> from] \in Emote
  BY DEF Emote
<1> QED
  BY <1>1 DEF WithEmote, DisplayState

LEMMA CueTakenType ==
  ASSUME NEW c, ClientsType(c), NEW s \in DisplayState
  PROVE  /\ CueTaken(c, s) \in DisplayState /\ CueTaken(c, s).slots = s.slots
         /\ (c.cue = None => CueTaken(c, s) = s)
         /\ (c.cue # None => /\ CueTaken(c, s).emote.left = CueLife
                             /\ CueTaken(c, s).emote.source = "client")
<1>1. CASE c.cue = None
  BY <1>1 DEF CueTaken
<1>2. CASE c.cue # None
  <2>1. c.cue \in Cues /\ CueLife \in Nat
    BY <1>2, Durations DEF ClientsType
  <2> DEFINE w == <<"cue", c.cue>>
  <2>2. w \in Expressions
    BY <2>1 DEF Expressions
  <2>3. CueTaken(c, s) = WithEmote(s, w, CueLife, "client")
    BY <1>2 DEF CueTaken
  <2> HIDE DEF w
  <2>4. /\ CueTaken(c, s) \in DisplayState /\ CueTaken(c, s).slots = s.slots
        /\ CueTaken(c, s).emote = [what |-> w, left |-> CueLife, source |-> "client"]
    <3> DEFINE e == [what |-> w, left |-> CueLife, source |-> "client"]
    <3>1. e \in Emote
      BY <2>1, <2>2 DEF Emote
    <3>2. CueTaken(c, s) = [s EXCEPT !.emote = e]
      BY <2>3 DEF WithEmote
    <3> HIDE DEF e
    <3>3. /\ CueTaken(c, s) \in DisplayState /\ CueTaken(c, s).slots = s.slots
          /\ CueTaken(c, s).emote = e
      BY <3>1, <3>2 DEF DisplayState
    <3> QED
      BY <3>3 DEF e
  <2> QED
    BY <1>2, <2>4
<1> QED
  BY <1>1, <1>2

\* Time passes: everything looks the same, but for a reaction that is yet to be drawn.
LEMMA TurnCurrent ==
  ASSUME TypeOK, Current, Turn
  PROVE  TypeOK' /\ Current'
<1>1. /\ ClientsType(clients') /\ View(clients') = View(clients) /\ clients'.cue = clients.cue
  BY AgeType DEF Turn, TypeOK
<1>2. state' \in DisplayState /\ SameLook(state', state)
  BY OlderType DEF Turn, TypeOK
<1>3. \/ nextPoll' = nextPoll - 1 /\ UNCHANGED <<reaction, dirty>>
      \/ reaction' \in Reactions /\ nextPoll' = 0 /\ dirty' = TRUE
  <2>1. budget.reactions \subseteq Reactions
    BY ControllerAssumption DEF TypeOK
  <2> QED
    BY <2>1 DEF Turn, Sensed
<1>4. quiet' \in 0 .. CueLife
  <2>1. quiet \in Nat /\ quiet + 1 \in Nat
    BY Durations DEF TypeOK
  <2>2. CueLife \in Nat
    BY Durations
  <2>3. Least(quiet + 1, CueLife) \in Nat /\ Least(quiet + 1, CueLife) <= CueLife
    BY <2>1, <2>2, LeastType
  <2>4. quiet' \in {0, Least(quiet + 1, CueLife)}
    BY DEF Turn
  <2> QED
    BY <2>2, <2>3, <2>4
<1>5. UNCHANGED <<mode, startup, local, frame, lcd, budget, gestures, messages, faults, shown>>
      /\ pc = "turn" /\ pc' = "tick"
  BY DEF Turn, bounds
<1>6. TypeOK'
  <2>1. nextPoll' \in Int
    BY <1>3 DEF TypeOK
  <2>2. reaction' \in Reactions \cup {None}
    BY <1>3 DEF TypeOK
  <2>3. dirty' \in BOOLEAN
    BY <1>3 DEF TypeOK
  <2>4. pc' \in {"turn", "tick", "touch", "receive"}
    BY <1>5
  <2> QED
    BY <1>1, <1>2, <1>4, <1>5, <2>1, <2>2, <2>3, <2>4 DEF TypeOK
<1>7. Flushed' /\ TakenOver'
  BY <1>1, <1>5 DEF Current, Flushed, TakenOver
<1>8. Starting'
  BY <1>2, <1>5 DEF Current, Starting, SameLook
<1>9. UpToDate'
  <2>1. CASE dirty'
    <3>1. nextPoll \in Int /\ (dirty => nextPoll <= 0)
      BY DEF TypeOK, Current, UpToDate
    <3>2. CASE nextPoll' = nextPoll - 1 /\ dirty' = dirty
      <4>1. dirty
        BY <2>1, <3>2
      <4>2. nextPoll' <= 0
        BY <3>1, <3>2, <4>1
      <4> QED
        BY <1>5, <2>1, <4>2 DEF UpToDate
    <3>3. CASE nextPoll' = 0
      BY <1>5, <2>1, <3>3 DEF UpToDate
    <3> QED
      BY <1>3, <3>2, <3>3
  <2>2. CASE ~dirty'
    <3>1. ~dirty /\ reaction' = reaction
      BY <1>3, <2>2 DEF TypeOK
    <3>2. frame.pixels = Picture(state, local, reaction, startup)
      BY <3>1 DEF Current, UpToDate
    <3>3. Picture(state', local, reaction, startup) = Picture(state, local, reaction, startup)
      BY <1>2, PictureSame DEF TypeOK
    <3> QED
      BY <1>5, <2>2, <3>1, <3>2, <3>3 DEF UpToDate
  <2> QED
    BY <2>1, <2>2
<1> QED
  BY <1>6, <1>7, <1>8, <1>9 DEF Current
\* What is left besides the screen and what it shows.
Loop ==
  /\ pc \in {"turn", "tick", "touch", "receive"} /\ mode \in {"demo", "forward"}
  /\ nextPoll \in Int /\ budget \in Budgets /\ {gestures, messages} \subseteq Nat
  /\ quiet \in 0 .. CueLife

Device ==
  /\ state \in DisplayState /\ ClientsType(clients) /\ reaction \in Reactions \cup {None}
  /\ TakenOver /\ Starting

Shows == frame.pixels = Picture(state, local, reaction, startup)

LEMMA Together ==
  ASSUME Loop', Device', Screen', Shows', startup' \in BOOLEAN, dirty' = FALSE
  PROVE  TypeOK' /\ Current'
<1> DEFINE c == clients'
<1>1. ClientsType(c) /\ local' = View(c)
  BY DEF Device, TakenOver
<1> HIDE DEF c
<1>2. local' \in Views
  BY <1>1, ViewType
<1>3. dirty' \in BOOLEAN
  OBVIOUS
<1>4. TypeOK'
  BY <1>2, <1>3 DEF TypeOK, Loop, Device, Screen
<1>5. UpToDate'
  BY DEF UpToDate, Shows
<1> QED
  BY <1>4, <1>5 DEF Current, Device, Screen

LEMMA Apart ==
  ASSUME TypeOK, Current
  PROVE  /\ Loop /\ Device /\ Screen /\ startup \in BOOLEAN
         /\ pc \in {"touch", "receive"} => ~dirty
         /\ ~dirty => Shows
BY DEF TypeOK, Current, Loop, Device, Screen, Shows, UpToDate

\* The clients are polled: what they ask for is taken over and drawn, or nothing is new.
LEMMA TickCurrent ==
  ASSUME TypeOK, Current, Tick
  PROVE  TypeOK' /\ Current'
<1> DEFINE poll == nextPoll <= 0
           c == IF poll THEN Ticked(clients) ELSE clients
           s == CueTaken(c, state)
           v == IF poll THEN View(c) ELSE local
           start(r) == startup /\ v = local /\ (poll => r = None)
           changed(r) == poll /\ (c.cue # None \/ v # local \/ r # reaction \/ dirty \/ start(r) # startup)
<1>0. Loop /\ Device /\ Screen /\ startup \in BOOLEAN /\ (~dirty => Shows)
  BY Apart
<1>1. ClientsType(c) /\ (~poll => c = clients /\ c.cue = None)
  BY <1>0, TickedType DEF Device, TakenOver
<1>2. v = View(c) /\ v \in Views
  BY <1>0, <1>1, ViewType DEF Device, TakenOver
<1>3. s \in DisplayState /\ s.slots = state.slots /\ (c.cue = None => s = state)
  BY <1>0, <1>1, CueTakenType DEF Device
<1>4. PICK r \in IF poll THEN {reaction, None} \cup budget.reactions ELSE {reaction} :
           /\ clients' = CuesTaken(c) /\ local' = v /\ reaction' = r /\ startup' = start(r)
           /\ nextPoll' = IF poll THEN Poll ELSE nextPoll
           /\ dirty' = (dirty /\ ~poll)
           /\ state' = Expire(s)
           /\ IF changed(r) \/ Expire(s) # s THEN Draw(Expire(s), v, r, start(r)) ELSE Flush(frame)
  BY DEF Tick
<1>5. pc' = "touch" /\ UNCHANGED <<mode, budget, gestures, messages, quiet>>
  BY DEF Tick
<1> HIDE DEF c, s, v
<1>6. r \in Reactions \cup {None}
  BY <1>0, ControllerAssumption DEF Device, Loop
<1>7. /\ Expire(s) \in DisplayState
      /\ \A i \in 1 .. 3 : Expire(s).slots[i] \in {s.slots[i], None}
  BY <1>3, ExpireType
<1>8. start(r) \in BOOLEAN /\ (start(r) => startup /\ v = local)
  BY <1>0
<1>9. nextPoll' \in Int
  BY <1>0, <1>4, ControllerAssumption DEF Loop
<1>10. Loop'
  BY <1>0, <1>5, <1>9 DEF Loop
<1>11. Device'
  <2>1. ClientsType(clients') /\ View(clients') = v /\ clients'.cue = None
    BY <1>1, <1>2, <1>4, CuesTakenType
  <2>2. state' \in DisplayState /\ reaction' \in Reactions \cup {None} /\ TakenOver'
    BY <1>4, <1>6, <1>7, <2>1 DEF TakenOver
  <2>3. Starting'
    BY <1>0, <1>3, <1>4, <1>7, <1>8 DEF Device, Starting
  <2> QED
    BY <2>1, <2>2, <2>3 DEF Device
<1>12. dirty' = FALSE /\ (dirty => poll)
  <2>1. dirty => poll
    BY DEF Current, UpToDate
  <2> QED
    BY <1>4, <2>1
<1>13. Screen' /\ Shows'
  <2>1. CASE changed(r) \/ Expire(s) # s
    <3>1. Draw(Expire(s), v, r, start(r))
      BY <1>4, <2>1
    <3> HIDE DEF start
    <3>2. /\ Flushed' /\ frame' \in Frames /\ frame'.pixels = Picture(Expire(s), v, r, start(r))
          /\ lcd' \in Pictures /\ faults' \in Nat /\ shown' \in BOOLEAN
      BY <1>0, <1>2, <1>6, <1>7, <1>8, <3>1, DrawLemma DEF Screen
    <3> QED
      BY <1>4, <3>2 DEF Screen, Shows
  <2>2. CASE ~(changed(r) \/ Expire(s) # s)
    <3>1. Flush(frame)
      BY <1>4, <2>2
    <3>2. /\ Flushed' /\ frame' \in Frames /\ frame'.pixels = frame.pixels
          /\ lcd' \in Pictures /\ faults' \in Nat /\ shown' \in BOOLEAN
      BY <1>0, <3>1, FlushAgain DEF Screen
    <3>3. ~dirty /\ v = local /\ r = reaction /\ start(r) = startup /\ Expire(s) = state
      <4>1. CASE poll
        BY <1>3, <2>2, <4>1
      <4>2. CASE ~poll
        <5>1. ~dirty /\ s = state /\ v = local /\ r = reaction
          BY <1>1, <1>3, <1>4, <1>12, <4>2 DEF v
        <5>2. start(r) = startup
          BY <1>0, <4>2, <5>1
        <5> QED
          BY <2>2, <5>1, <5>2
      <4> QED
        BY <4>1, <4>2
    <3> QED
      BY <1>0, <1>4, <3>2, <3>3 DEF Screen, Shows
  <2> QED
    BY <2>1, <2>2
<1>14. startup' \in BOOLEAN
  BY <1>4, <1>8
<1> HIDE DEF start, changed, poll
<1> QED
  BY <1>10, <1>11, <1>12, <1>13, <1>14, Together

\* A gesture that the clients take.
LEMMA RefreshCurrent ==
  ASSUME TypeOK, Current, pc = "touch", NEW c, ClientsType(c), c.cue = None,
         Refresh(c), reaction' = reaction
  PROVE  Device' /\ Screen' /\ Shows' /\ startup' \in BOOLEAN
<1> DEFINE v == View(c)
<1>1. Device /\ Screen /\ startup \in BOOLEAN /\ Shows
  BY Apart
<1>2. CueTaken(c, state) = state
  BY DEF CueTaken
<1>3. /\ clients' = CuesTaken(c) /\ state' = state /\ local' = v
      /\ startup' = (startup /\ v = local)
      /\ IF v # local THEN Draw(state, v, reaction, FALSE) ELSE Flush(frame)
  BY <1>2 DEF Refresh
<1>4. v \in Views
  BY ViewType
<1>5. ClientsType(clients') /\ View(clients') = v /\ clients'.cue = None
  BY <1>3, CuesTakenType
<1> HIDE DEF v
<1>6. Device'
  BY <1>1, <1>3, <1>5 DEF Device, TakenOver, Starting
<1>7. CASE v # local
  <2>1. startup' = FALSE
    BY <1>3, <1>7
  <2>2. Draw(state, v, reaction, FALSE)
    BY <1>3, <1>7
  <2>3. /\ Flushed' /\ frame' \in Frames /\ frame'.pixels = Picture(state, v, reaction, FALSE)
        /\ lcd' \in Pictures /\ faults' \in Nat /\ shown' \in BOOLEAN
    BY <1>1, <1>4, <2>2, DrawLemma DEF Screen, Device
  <2>4. Shows'
    BY <1>3, <2>1, <2>3 DEF Shows
  <2> QED
    BY <1>6, <2>1, <2>3, <2>4 DEF Screen
<1>8. CASE v = local
  <2>1. startup' = startup
    BY <1>1, <1>3, <1>8
  <2>2. Flush(frame)
    BY <1>3, <1>8
  <2>3. /\ Flushed' /\ frame' \in Frames /\ frame'.pixels = frame.pixels
        /\ lcd' \in Pictures /\ faults' \in Nat /\ shown' \in BOOLEAN
    BY <1>1, <2>2, FlushAgain DEF Screen
  <2>4. Shows'
    BY <1>1, <1>3, <1>8, <2>1, <2>3 DEF Shows
  <2> QED
    BY <1>1, <1>6, <2>1, <2>3, <2>4 DEF Screen
<1> QED
  BY <1>7, <1>8

\* A gesture that the device answers itself, or does not.
LEMMA ReactCurrent ==
  ASSUME TypeOK, Current, pc = "touch", React
  PROVE  Device' /\ Screen' /\ Shows' /\ startup' \in BOOLEAN
<1>1. Device /\ Screen /\ Loop
  BY Apart
<1>2. local \in Views /\ state \in DisplayState
  BY DEF TypeOK
<1>3. reaction' \in Reactions \cup {None}
  BY <1>1, ControllerAssumption DEF React, Device, Loop
<1>4. startup' = FALSE /\ Draw(state, local, reaction', FALSE)
      /\ UNCHANGED <<clients, state, local>>
  BY DEF React
<1> DEFINE r == reaction'
<1>5. r \in Reactions \cup {None} /\ Draw(state, local, r, FALSE)
  BY <1>3, <1>4
<1> HIDE DEF r
<1>6. /\ Flushed' /\ frame' \in Frames /\ frame'.pixels = Picture(state, local, r, FALSE)
      /\ lcd' \in Pictures /\ faults' \in Nat /\ shown' \in BOOLEAN
  BY <1>1, <1>2, <1>5, DrawLemma DEF Screen
<1>7. Shows'
  BY <1>4, <1>6 DEF Shows, r
<1>8. Device'
  BY <1>1, <1>3, <1>4 DEF Device, TakenOver, Starting
<1>9. Screen'
  BY <1>6 DEF Screen
<1> QED
  BY <1>4, <1>7, <1>8, <1>9

LEMMA UnrefreshedCurrent ==
  ASSUME TypeOK, Current, pc = "touch", Unrefreshed, reaction' = reaction
  PROVE  Device' /\ Screen' /\ Shows' /\ startup' \in BOOLEAN
<1>1. Device /\ Screen /\ startup \in BOOLEAN /\ Shows
  BY Apart
<1>2. UNCHANGED <<clients, state, local, startup>> /\ Flush(frame)
  BY DEF Unrefreshed
<1>3. /\ Flushed' /\ frame' \in Frames /\ frame'.pixels = frame.pixels
      /\ lcd' \in Pictures /\ faults' \in Nat /\ shown' \in BOOLEAN
  BY <1>1, <1>2, FlushAgain DEF Screen
<1>4. Device'
  BY <1>1, <1>2 DEF Device, TakenOver, Starting
<1>5. Shows'
  BY <1>1, <1>2, <1>3 DEF Shows
<1>6. Screen'
  BY <1>3 DEF Screen
<1> QED
  BY <1>1, <1>2, <1>4, <1>5, <1>6

\* A message that changes what the host shows.
LEMMA ShowCurrent ==
  ASSUME TypeOK, Current, pc = "receive", NEW s \in DisplayState, Show(s),
         UNCHANGED <<local, clients, reaction>>
  PROVE  Device' /\ Screen' /\ Shows' /\ startup' \in BOOLEAN
<1>1. Device /\ Screen
  BY Apart
<1>2. Expire(s) \in DisplayState
  BY ExpireType
<1>3. local \in Views /\ reaction \in Reactions \cup {None}
  BY DEF TypeOK
<1>4. state' = Expire(s) /\ startup' = FALSE /\ Draw(Expire(s), local, reaction, FALSE)
  BY DEF Show
<1>5. /\ Flushed' /\ frame' \in Frames /\ frame'.pixels = Picture(Expire(s), local, reaction, FALSE)
      /\ lcd' \in Pictures /\ faults' \in Nat /\ shown' \in BOOLEAN
  BY <1>1, <1>2, <1>3, <1>4, DrawLemma DEF Screen
<1>6. Device'
  BY <1>1, <1>2, <1>4 DEF Device, TakenOver, Starting
<1>7. Shows'
  BY <1>4, <1>5 DEF Shows
<1>8. Screen'
  BY <1>5 DEF Screen
<1> QED
  BY <1>4, <1>6, <1>7, <1>8

\* What a message makes of the state.
LEMMA SlotType ==
  ASSUME NEW s \in DisplayState, NEW i \in 1 .. 3, NEW e \in SlotEntry \cup {None}
  PROVE  [s EXCEPT !.slots[i] = e] \in DisplayState
<1>1. [s.slots EXCEPT ![i] = e] \in [1 .. 3 -> SlotEntry \cup {None}]
  BY DEF DisplayState
<1>2. [s EXCEPT !.slots[i] = e] = [s EXCEPT !.slots = [s.slots EXCEPT ![i] = e]]
  BY DEF DisplayState
<1> DEFINE slots == [s.slots EXCEPT ![i] = e]
<1> HIDE DEF slots
<1>3. [s EXCEPT !.slots = slots] \in DisplayState
  BY <1>1 DEF DisplayState, slots
<1> QED
  BY <1>2, <1>3 DEF slots

LEMMA ClearedType ==
  ASSUME NEW s \in DisplayState
  PROVE  Cleared(s) \in DisplayState
<1> DEFINE e == IF s.emote # None /\ s.emote.source = "client" THEN s.emote ELSE None
<1>1. e \in Emote \cup {None} /\ Cleared(s) = [EmptyState EXCEPT !.emote = e]
  BY DEF Cleared, DisplayState
<1> HIDE DEF e
<1> QED
  BY <1>1 DEF EmptyState, DisplayState

\* Each message, for what it shows.
LEMMA ReceiveCurrent ==
  ASSUME TypeOK, Current, Receive
  PROVE  TypeOK' /\ Current'
<1>0. Loop /\ Device /\ Screen /\ startup \in BOOLEAN /\ state \in DisplayState
  BY Apart DEF Device
<1>1. pc = "receive" /\ ~dirty
  BY Apart DEF Receive, ShowText, ShowCard, EndImage, ClearSlot, Clear, SetPresence, SetEmote,
            SetMode, NoMessage, Message
<1>2. Shows
  BY <1>1, Apart
<1>3. ASSUME NEW s \in DisplayState, NEW kind, Message(kind), Show(s)
      PROVE  TypeOK' /\ Current'
  <2>1. UNCHANGED <<local, clients, reaction, dirty, nextPoll, budget, gestures, quiet, mode>>
        /\ messages' = messages + 1 /\ pc' = "turn"
    BY <1>3 DEF Message, Show
  <2>2. Device' /\ Screen' /\ Shows' /\ startup' \in BOOLEAN
    BY <1>1, <1>3, <2>1, ShowCurrent
  <2>3. Loop'
    BY <1>0, <2>1 DEF Loop
  <2>4. dirty' = FALSE
    BY <1>1, <2>1 DEF TypeOK
  <2> QED
    BY <2>2, <2>3, <2>4, Together
<1>4. ASSUME UNCHANGED <<state, startup, local, clients, reaction, dirty, nextPoll, budget,
                         gestures, quiet>>,
             Flush(frame) \/ UNCHANGED <<frame, lcd, shown, faults>>,
             mode' \in {"demo", "forward"}, messages' \in Nat, pc' = "turn"
      PROVE  TypeOK' /\ Current'
  <2>1. Loop'
    BY <1>0, <1>4 DEF Loop
  <2>2. Device' /\ startup' \in BOOLEAN
    BY <1>0, <1>4 DEF Device, TakenOver, Starting
  <2>3. Screen' /\ Shows'
    <3>1. CASE UNCHANGED <<frame, lcd, shown, faults>>
      BY <1>0, <1>2, <1>4, <3>1 DEF Screen, Shows, Flushed
    <3>2. CASE Flush(frame)
      <4>1. /\ Flushed' /\ frame' \in Frames /\ frame'.pixels = frame.pixels
            /\ lcd' \in Pictures /\ faults' \in Nat /\ shown' \in BOOLEAN
        BY <1>0, <3>2, FlushAgain DEF Screen
      <4> QED
        BY <1>2, <1>4, <4>1 DEF Screen, Shows
    <3> QED
      BY <1>4, <3>1, <3>2
  <2>4. dirty' = FALSE
    BY <1>1, <1>4 DEF TypeOK
  <2> QED
    BY <2>1, <2>2, <2>3, <2>4, Together
<1>5. Lives \subseteq Nat
  BY ControllerAssumption
<1>6. CASE ShowText
  <2>1. PICK i \in 1 .. 3, ttl \in Lives : Show([state EXCEPT !.slots[i] = Entry(<<"text", i>>, ttl)])
    BY <1>6 DEF ShowText
  <2>2. <<"text", i>> \in Contents
    BY DEF Contents
  <2>3. [state EXCEPT !.slots[i] = Entry(<<"text", i>>, ttl)] \in DisplayState
    BY <1>0, <1>5, <2>2, EntryType, SlotType
  <2>4. Message("text")
    BY <1>6 DEF ShowText
  <2> QED
    BY <1>3, <2>1, <2>3, <2>4
<1>7. CASE ShowCard
  <2>1. PICK i \in 1 .. 3, card \in Cards, ttl \in Lives :
          Show([state EXCEPT !.slots[i] = Entry(<<"host card", i, card>>, ttl)])
    BY <1>7 DEF ShowCard
  <2>2. <<"host card", i, card>> \in Contents
    BY DEF Contents
  <2>3. [state EXCEPT !.slots[i] = Entry(<<"host card", i, card>>, ttl)] \in DisplayState
    BY <1>0, <1>5, <2>2, EntryType, SlotType
  <2>4. Message("card")
    BY <1>7 DEF ShowCard
  <2> QED
    BY <1>3, <2>1, <2>3, <2>4
<1>8. CASE EndImage
  <2>1. PICK ttl \in Lives : Show([state EXCEPT !.slots[3] = Entry(<<"image", 3>>, ttl)])
    BY <1>8 DEF EndImage
  <2>2. <<"image", 3>> \in Contents
    BY DEF Contents
  <2>3. [state EXCEPT !.slots[3] = Entry(<<"image", 3>>, ttl)] \in DisplayState
    BY <1>0, <1>5, <2>2, EntryType, SlotType
  <2>4. Message("image")
    BY <1>8 DEF EndImage
  <2> QED
    BY <1>3, <2>1, <2>3, <2>4
<1>9. CASE ClearSlot
  <2>1. PICK i \in 1 .. 3 : Show([state EXCEPT !.slots[i] = None])
    BY <1>9 DEF ClearSlot
  <2>2. [state EXCEPT !.slots[i] = None] \in DisplayState
    BY <1>0, SlotType
  <2>3. Message("clear slot")
    BY <1>9 DEF ClearSlot
  <2> QED
    BY <1>3, <2>1, <2>2, <2>3
<1>10. CASE Clear
  BY <1>0, <1>3, <1>10, ClearedType DEF Clear
<1>11. CASE SetPresence
  <2>1. PICK ttl \in Lives : Show([state EXCEPT !.presence = Entry(<<"presence">>, ttl)])
    BY <1>11 DEF SetPresence
  <2>2. Entry(<<"presence">>, ttl) \in Presence
    BY <1>5 DEF Entry, Presence, Remaining
  <2>3. [state EXCEPT !.presence = Entry(<<"presence">>, ttl)] \in DisplayState
    BY <1>0, <2>2 DEF DisplayState
  <2>4. Message("presence")
    BY <1>11 DEF SetPresence
  <2> QED
    BY <1>3, <2>1, <2>3, <2>4
<1>12. CASE SetEmote
  <2>1. PICK life \in Lives : Show(WithEmote(state, <<"host">>, life, "host"))
    BY <1>12 DEF SetEmote
  <2> DEFINE what == <<"host">>
  <2>2. what \in Expressions /\ life \in Nat
    BY <1>5 DEF Expressions
  <2> HIDE DEF what
  <2>3. "host" \in {"client", "host"}
    OBVIOUS
  <2>4. WithEmote(state, what, life, "host") \in DisplayState
    BY <1>0, <2>2, <2>3, WithEmoteType, Zenon
  <2>5. Show(WithEmote(state, what, life, "host"))
    BY <2>1 DEF what
  <2>6. Message("emote")
    BY <1>12 DEF SetEmote
  <2> QED
    BY <1>3, <2>4, <2>5, <2>6
<1>13. CASE SetMode
  <2>1. /\ UNCHANGED <<state, startup, local, clients, reaction, dirty, nextPoll, budget, gestures,
                       quiet>>
        /\ Flush(frame)
        /\ mode' \in {"demo", "forward"} /\ messages' = messages + 1 /\ pc' = "turn"
    BY <1>13 DEF SetMode, Message
  <2> QED
    BY <1>0, <1>4, <2>1 DEF Loop
<1>14. CASE NoMessage
  <2>1. /\ UNCHANGED <<state, startup, local, clients, reaction, dirty, nextPoll, budget, gestures,
                       quiet>>
        /\ UNCHANGED <<frame, lcd, shown, faults>>
        /\ mode' = mode /\ messages' = messages /\ pc' = "turn"
    BY <1>14 DEF NoMessage, bounds
  <2> QED
    BY <1>0, <1>4, <2>1 DEF Loop
<1> QED
  BY <1>6, <1>7, <1>8, <1>9, <1>10, <1>11, <1>12, <1>13, <1>14 DEF Receive

\* Each gesture.
LEMMA TouchCurrent ==
  ASSUME TypeOK, Current, Touch
  PROVE  TypeOK' /\ Current'
<1>0. Loop /\ Device /\ Screen /\ startup \in BOOLEAN /\ ClientsType(clients)
      /\ local = View(clients) /\ clients.cue = None
  BY Apart DEF Device, TakenOver
<1>1. pc = "touch" /\ ~dirty
  BY Apart DEF Touch, LongPress, Stroke, TapPanel, TapCard, TapHost, NoGesture, Gesture
<1>2. Shows
  BY <1>1, Apart
<1>3. ASSUME Gesture, Device' /\ Screen' /\ Shows' /\ startup' \in BOOLEAN
      PROVE  TypeOK' /\ Current'
  <2>1. UNCHANGED <<mode, dirty, nextPoll, budget, messages, quiet>>
        /\ gestures' = gestures + 1 /\ pc' = "receive"
    BY <1>3 DEF Gesture
  <2>2. Loop'
    BY <1>0, <2>1 DEF Loop
  <2>3. dirty' = FALSE
    BY <1>1, <2>1 DEF TypeOK
  <2> QED
    BY <1>3, <2>2, <2>3, Together
<1>4. ASSUME Gesture, NEW c, ClientsType(c), c.cue = clients.cue, Refresh(c), reaction' = reaction
      PROVE  TypeOK' /\ Current'
  <2>1. Device' /\ Screen' /\ Shows' /\ startup' \in BOOLEAN
    BY <1>0, <1>1, <1>4, RefreshCurrent
  <2> QED
    BY <1>3, <1>4, <2>1
<1>5. ASSUME Gesture, React
      PROVE  TypeOK' /\ Current'
  BY <1>1, <1>3, <1>5, ReactCurrent
<1>6. ASSUME Gesture, Unrefreshed, reaction' = reaction
      PROVE  TypeOK' /\ Current'
  BY <1>1, <1>3, <1>6, UnrefreshedCurrent
<1>7. CASE LongPress
  BY <1>0, <1>4, <1>7, OpenedType DEF LongPress
<1>8. CASE Stroke
  BY <1>5, <1>8 DEF Stroke
<1>9. CASE TapPanel
  <2>1. PICK button \in 0 .. Buttons(local.panel) :
          IF button = 0 THEN Unrefreshed ELSE Refresh(Pressed(clients, local.panel[1], button))
    BY <1>9 DEF TapPanel
  <2>2. Gesture /\ reaction' = reaction /\ local.panel # None
    BY <1>9 DEF TapPanel
  <2>3. CASE button = 0
    BY <1>6, <2>1, <2>2, <2>3
  <2>4. CASE button # 0
    <3>1. local.panel = PanelOf(clients)
      BY <1>0 DEF View
    <3>2. Buttons(local.panel) \in Nat
      BY <2>2, <3>1 DEF Buttons, PanelOf
    <3>3. button \in 1 .. Buttons(local.panel)
      BY <2>4, <3>2
    <3>4. ClientsType(Pressed(clients, local.panel[1], button))
          /\ Pressed(clients, local.panel[1], button).cue = clients.cue
      BY <1>0, <2>2, <3>1, <3>3, PressedType
    <3> QED
      BY <1>4, <2>1, <2>2, <2>4, <3>4
  <2> QED
    BY <2>3, <2>4
<1>10. CASE TapCard
  BY <1>0, <1>4, <1>10, CardTappedType DEF TapCard
<1>11. CASE TapHost
  <2>1. Gesture /\ (React \/ (Unrefreshed /\ reaction' = reaction))
    BY <1>11 DEF TapHost
  <2> QED
    BY <1>5, <1>6, <2>1
<1>12. CASE NoGesture
  <2>1. /\ UNCHANGED <<state, mode, startup, local, clients, reaction, dirty, nextPoll, frame, lcd,
                       budget, gestures, messages, faults, shown, quiet>>
        /\ pc' = "receive"
    BY <1>12 DEF NoGesture, bounds
  <2>2. Loop'
    BY <1>0, <2>1 DEF Loop
  <2>3. Device' /\ startup' \in BOOLEAN
    BY <1>0, <2>1 DEF Device, TakenOver, Starting
  <2>4. Screen' /\ Shows'
    BY <1>0, <1>2, <2>1 DEF Screen, Shows, Flushed
  <2>5. dirty' = FALSE
    BY <1>1, <2>1 DEF TypeOK
  <2> QED
    BY <2>2, <2>3, <2>4, <2>5, Together
<1> QED
  BY <1>7, <1>8, <1>9, <1>10, <1>11, <1>12 DEF Touch

LEMMA InitCurrent == Init => TypeOK /\ Current
<1> SUFFICES ASSUME Init PROVE TypeOK /\ Current
  OBVIOUS
<1>1. TimerType(Off) /\ Off \in Timers
  BY OffType DEF TimerType
<1>2. ClientsType(NoClients) /\ NoClients.cue = None
  BY <1>1 DEF NoClients, ClientsType, Settings, Opening
<1>3. View(NoClients) \in Views
  BY <1>2, ViewType
<1>4. EmptyState \in DisplayState /\ \A i \in 1 .. 3 : EmptyState.slots[i] = None
  BY EmptyStateType DEF EmptyState
<1> DEFINE p == Picture(EmptyState, local, None, TRUE)
<1>5. p \in Pictures
  BY <1>3, <1>4, PictureType DEF Init
<1>6. /\ state = EmptyState /\ clients = NoClients /\ local = View(NoClients) /\ reaction = None
      /\ lcd = p /\ frame = [pixels |-> p, flushed |-> p, synced |-> TRUE, written |-> FALSE]
      /\ pc = "turn" /\ mode = "demo" /\ nextPoll = 0 /\ budget \in Budgets
      /\ gestures = 0 /\ messages = 0 /\ faults = 0 /\ quiet = CueLife
  BY DEF Init
<1>7. startup \in BOOLEAN /\ dirty = ~startup /\ shown = startup
  BY DEF Init
<1>8. startup => p = Picture(state, local, reaction, startup)
  BY <1>6, <1>7
<1> HIDE DEF p
<1>9. frame \in Frames
  BY <1>5, <1>6 DEF Frames
<1>10. TypeOK
  <2>1. quiet \in 0 .. CueLife
    BY <1>6, Durations
  <2>2. dirty \in BOOLEAN /\ shown \in BOOLEAN
    BY <1>7
  <2> QED
    BY <1>2, <1>3, <1>4, <1>5, <1>6, <1>7, <1>9, <2>1, <2>2 DEF TypeOK
<1>11. Flushed /\ TakenOver /\ Starting
  BY <1>2, <1>4, <1>6 DEF Flushed, TakenOver, Starting
<1>12. UpToDate
  <2>1. CASE startup
    <3>1. ~dirty
      BY <1>7, <2>1
    <3> QED
      BY <1>6, <1>8, <2>1, <3>1 DEF UpToDate
  <2>2. CASE ~startup
    <3>1. dirty /\ ~shown
      BY <1>7, <2>2
    <3> QED
      BY <1>6, <3>1 DEF UpToDate
  <2> QED
    BY <2>1, <2>2
<1> QED
  BY <1>10, <1>11, <1>12 DEF Current

\* What the display should show is in the frame buffer, or is drawn at the next tick.
LEMMA CurrentAlways == Spec => [](TypeOK /\ Current)
<1>1. TypeOK /\ Current /\ [Next]_vars => (TypeOK /\ Current)'
  <2> SUFFICES ASSUME TypeOK, Current, [Next]_vars PROVE TypeOK' /\ Current'
    OBVIOUS
  <2>1. CASE Turn
    BY <2>1, TurnCurrent
  <2>2. CASE Tick
    BY <2>2, TickCurrent
  <2>3. CASE Touch
    BY <2>3, TouchCurrent
  <2>4. CASE Receive
    BY <2>4, ReceiveCurrent
  <2>5. CASE UNCHANGED vars
    BY <2>5 DEF TypeOK, Current, Flushed, TakenOver, Starting, UpToDate, vars, bounds
  <2> QED
    BY <2>1, <2>2, <2>3, <2>4, <2>5 DEF Next
<1> QED
  BY <1>1, InitCurrent, PTL DEF Spec

\* Every variable has its type.
THEOREM TypeCorrect == Spec => []TypeOK
BY CurrentAlways, PTL

\* The display shows what the state, the clients and the reaction ask for whenever the last
\* transfer has succeeded, outside of the time between what the sensors bring about and the
\* tick that draws it: for any number of messages, gestures and failures of the display.
THEOREM ScreenTheorem == Spec => []ScreenIsCurrent
<1>1. TypeOK /\ Current => ScreenIsCurrent
  <2> SUFFICES ASSUME TypeOK, Current, pc # "tick", shown
               PROVE  lcd = Picture(state, View(clients), reaction, startup)
    BY DEF ScreenIsCurrent
  <2>1. lcd = frame.pixels
    BY DEF Current, Flushed
  <2>2. ~dirty
    BY DEF Current, UpToDate
  <2> QED
    BY <2>1, <2>2 DEF Current, UpToDate, TakenOver
<1> QED
  BY <1>1, CurrentAlways, PTL

-----------------------------------------------------------------------------
(* The cue.                                                                *)

\* A gesture changes nothing of what the host shows, nor of the cue on the face.
LEMMA TouchState ==
  ASSUME TypeOK, Current, Touch
  PROVE  state' = state /\ quiet' = quiet /\ pc = "touch" /\ pc' = "receive"
<1>0. /\ ClientsType(clients) /\ local = View(clients) /\ clients.cue = None
  BY Apart DEF Device, TakenOver
<1>1. ASSUME NEW c, c.cue = None, Refresh(c) PROVE state' = state
  BY <1>1 DEF Refresh, CueTaken
<1>2. CASE LongPress
  BY <1>0, <1>1, <1>2, OpenedType DEF LongPress, Gesture
<1>3. CASE Stroke
  BY <1>3 DEF Stroke, Gesture, React
<1>4. CASE TapPanel
  <2>1. PICK button \in 0 .. Buttons(local.panel) :
          IF button = 0 THEN Unrefreshed ELSE Refresh(Pressed(clients, local.panel[1], button))
    BY <1>4 DEF TapPanel
  <2>2. Gesture /\ local.panel # None
    BY <1>4 DEF TapPanel
  <2>3. CASE button = 0
    BY <2>1, <2>2, <2>3 DEF Unrefreshed, Gesture
  <2>4. CASE button # 0
    <3>1. local.panel = PanelOf(clients)
      BY <1>0 DEF View
    <3>2. Buttons(local.panel) \in Nat
      BY <2>2, <3>1 DEF Buttons, PanelOf
    <3>3. button \in 1 .. Buttons(local.panel)
      BY <2>4, <3>2
    <3>4. Pressed(clients, local.panel[1], button).cue = None
      BY <1>0, <2>2, <3>1, <3>3, PressedType
    <3>5. state' = state
      BY <1>1, <2>1, <2>4, <3>4
    <3> QED
      BY <2>2, <3>5 DEF Gesture
  <2> QED
    BY <2>3, <2>4
<1>5. CASE TapCard
  BY <1>0, <1>1, <1>5, CardTappedType DEF TapCard, Gesture
<1>6. CASE TapHost
  <2>1. Gesture /\ (React \/ Unrefreshed)
    BY <1>6 DEF TapHost
  <2> QED
    BY <2>1 DEF Gesture, React, Unrefreshed
<1>7. CASE NoGesture
  BY <1>7 DEF NoGesture
<1> QED
  BY <1>2, <1>3, <1>4, <1>5, <1>6, <1>7 DEF Touch

\* The Emote of s fades if it is that of a cue.
Fades(s) == s.emote # None /\ s.emote.source = "client" =>
              quiet + s.emote.left <= CueLife /\ s.emote.left > 0

\* What is in a slot is of that slot.
Placed(s) == \A i \in 1 .. 3 : s.slots[i] # None => s.slots[i].what[2] = i

\* A message lets a cue be, replaces it or removes it, and puts content into its slot.
LEMMA ReceiveState ==
  ASSUME TypeOK, Receive
  PROVE  /\ state' = state \/ \E s \in DisplayState :
              /\ state' = Expire(s)
              /\ s.emote # None /\ s.emote.source = "client" => s.emote = state.emote
              /\ Placed(state) => Placed(s)
         /\ quiet' = quiet /\ pc = "receive" /\ pc' = "turn"
<1>0. state \in DisplayState /\ Lives \subseteq Nat
  BY ControllerAssumption DEF TypeOK
<1>1. ASSUME NEW s \in DisplayState, s.emote # None /\ s.emote.source = "client" => s.emote = state.emote,
             Placed(state) => Placed(s), NEW kind, Message(kind), Show(s)
      PROVE  /\ \E t \in DisplayState : 
                  /\ state' = Expire(t)
                  /\ t.emote # None /\ t.emote.source = "client" => t.emote = state.emote
                  /\ Placed(state) => Placed(t)
             /\ quiet' = quiet /\ pc = "receive" /\ pc' = "turn"
  <2>1. quiet' = quiet /\ pc = "receive" /\ pc' = "turn" /\ state' = Expire(s)
    BY <1>1 DEF Message, Show
  <2> QED
    BY <1>1, <2>1
<1>2. ASSUME NEW i \in 1 .. 3, NEW e \in SlotEntry \cup {None}, e # None => e.what[2] = i
      PROVE  /\ [state EXCEPT !.slots[i] = e] \in DisplayState
             /\ [state EXCEPT !.slots[i] = e].emote = state.emote
             /\ Placed(state) => Placed([state EXCEPT !.slots[i] = e])
  <2>1. [state EXCEPT !.slots[i] = e].emote = state.emote
    BY <1>0 DEF DisplayState
  <2>2. \A j \in 1 .. 3 : [state EXCEPT !.slots[i] = e].slots[j] = IF j = i THEN e ELSE state.slots[j]
    BY <1>0 DEF DisplayState
  <2>3. Placed(state) => Placed([state EXCEPT !.slots[i] = e])
    BY <1>2, <2>2 DEF Placed
  <2> QED
    BY <1>0, <2>1, <2>3, SlotType
<1>3. CASE ShowText
  <2>1. PICK i \in 1 .. 3, ttl \in Lives : Show([state EXCEPT !.slots[i] = Entry(<<"text", i>>, ttl)])
    BY <1>3 DEF ShowText
  <2>2. <<"text", i>> \in Contents
    BY DEF Contents
  <2> DEFINE e == Entry(<<"text", i>>, ttl)
  <2>3. e \in SlotEntry /\ e.what[2] = i
    BY <1>0, <2>2, EntryType DEF Entry
  <2>4. Message("text") /\ Show([state EXCEPT !.slots[i] = e])
    BY <1>3, <2>1 DEF ShowText
  <2> HIDE DEF e
  <2> QED
    BY <1>1, <1>2, <2>3, <2>4
<1>4. CASE ShowCard
  <2>1. PICK i \in 1 .. 3, card \in Cards, ttl \in Lives :
          Show([state EXCEPT !.slots[i] = Entry(<<"host card", i, card>>, ttl)])
    BY <1>4 DEF ShowCard
  <2>2. <<"host card", i, card>> \in Contents
    BY DEF Contents
  <2> DEFINE e == Entry(<<"host card", i, card>>, ttl)
  <2>3. e \in SlotEntry /\ e.what[2] = i
    BY <1>0, <2>2, EntryType DEF Entry
  <2>4. Message("card") /\ Show([state EXCEPT !.slots[i] = e])
    BY <1>4, <2>1 DEF ShowCard
  <2> HIDE DEF e
  <2> QED
    BY <1>1, <1>2, <2>3, <2>4
<1>5. CASE EndImage
  <2>1. PICK ttl \in Lives : Show([state EXCEPT !.slots[3] = Entry(<<"image", 3>>, ttl)])
    BY <1>5 DEF EndImage
  <2>2. <<"image", 3>> \in Contents
    BY DEF Contents
  <2> DEFINE e == Entry(<<"image", 3>>, ttl)
  <2>3. e \in SlotEntry /\ e.what[2] = 3
    BY <1>0, <2>2, EntryType DEF Entry
  <2>4. Message("image") /\ Show([state EXCEPT !.slots[3] = e])
    BY <1>5, <2>1 DEF EndImage
  <2> HIDE DEF e
  <2> QED
    BY <1>1, <1>2, <2>3, <2>4, 3 \in 1 .. 3
<1>6. CASE ClearSlot
  <2>1. PICK i \in 1 .. 3 : Show([state EXCEPT !.slots[i] = None])
    BY <1>6 DEF ClearSlot
  <2>2. Message("clear slot")
    BY <1>6 DEF ClearSlot
  <2> QED
    BY <1>1, <1>2, <2>1, <2>2
<1>7. CASE Clear
  <2>1. Cleared(state) \in DisplayState
    BY <1>0, ClearedType
  <2>2. Cleared(state).emote \in {state.emote, None}
    BY DEF Cleared, EmptyState
  <2>3. Placed(Cleared(state))
    BY DEF Placed, Cleared, EmptyState
  <2> QED
    BY <1>1, <1>7, <2>1, <2>2, <2>3 DEF Clear
<1>8. CASE SetPresence
  <2>1. PICK ttl \in Lives : Show([state EXCEPT !.presence = Entry(<<"presence">>, ttl)])
    BY <1>8 DEF SetPresence
  <2> DEFINE e == Entry(<<"presence">>, ttl)
  <2>2. e \in Presence
    BY <1>0 DEF Entry, Presence, Remaining
  <2> HIDE DEF e
  <2>3. [state EXCEPT !.presence = e] \in DisplayState /\ [state EXCEPT !.presence = e].emote = state.emote
    BY <1>0, <2>2 DEF DisplayState
  <2>4. Message("presence") /\ Show([state EXCEPT !.presence = e])
    BY <1>8, <2>1 DEF SetPresence, e
  <2>5. Placed(state) => Placed([state EXCEPT !.presence = e])
    BY <1>0 DEF Placed, DisplayState
  <2> QED
    BY <1>1, <2>3, <2>4, <2>5
<1>9. CASE SetEmote
  <2>1. PICK life \in Lives : Show(WithEmote(state, <<"host">>, life, "host"))
    BY <1>9 DEF SetEmote
  <2> DEFINE what == <<"host">>
  <2>2. what \in Expressions /\ life \in Nat
    BY <1>0 DEF Expressions
  <2> HIDE DEF what
  <2>3. "host" \in {"client", "host"}
    OBVIOUS
  <2> DEFINE s == WithEmote(state, what, life, "host")
  <2>4. s \in DisplayState
    BY <1>0, <2>2, <2>3, WithEmoteType, Zenon
  <2>5. s.emote = [what |-> what, left |-> life, source |-> "host"]
    BY <1>0, <2>2, <2>3, WithEmoteType, Zenon
  <2>6. Message("emote") /\ Show(s)
    BY <1>9, <2>1 DEF SetEmote, what
  <2>7. s.slots = state.slots
    BY <1>0, <2>2, <2>3, WithEmoteType, Zenon
  <2> HIDE DEF s
  <2>8. s.emote.source = "host" /\ (Placed(state) => Placed(s))
    BY <2>5, <2>7 DEF Placed
  <2> QED
    BY <1>1, <2>4, <2>6, <2>8
<1>10. CASE SetMode
  BY <1>10 DEF SetMode, Message
<1>11. CASE NoMessage
  BY <1>11 DEF NoMessage
<1> QED
  BY <1>3, <1>4, <1>5, <1>6, <1>7, <1>8, <1>9, <1>10, <1>11 DEF Receive

LEMMA CueAlways == Spec => []CueFading
<1>1. Init => CueFading
  BY DEF Init, EmptyState, CueFading
<1>2. TypeOK /\ Current /\ CueFading /\ [Next]_vars => CueFading'
  <2> SUFFICES ASSUME TypeOK, Current, CueFading, [Next]_vars PROVE CueFading'
    OBVIOUS
  <2>0. /\ state \in DisplayState /\ ClientsType(clients) /\ quiet \in Nat /\ clients.cue = None
        /\ CueLife \in Nat /\ CueLife > 0
    BY Durations DEF TypeOK, Current, TakenOver
  <2>1. ASSUME NEW s \in DisplayState, Fades(s), state' = Expire(s), quiet' = quiet, pc' # "tick"
        PROVE  CueFading'
    <3>1. Expire(s).emote \in {s.emote, None}
      BY ExpireType
    <3> QED
      BY <2>1, <3>1 DEF CueFading, Fades
  <2>2. CASE Turn
    <3>1. pc = "turn" /\ pc' = "tick" /\ state' = Older(state)
          /\ quiet' = IF Cue(clients'.timer) # None THEN 0 ELSE Least(quiet + 1, CueLife)
      BY <2>2 DEF Turn
    <3>2. quiet' \in Nat /\ quiet' <= quiet + 1
      BY <2>0, <3>1 DEF Least
    <3>3. state'.emote # None /\ state'.emote.source = "client" =>
            quiet' + state'.emote.left <= CueLife
      <4> SUFFICES ASSUME state'.emote # None, state'.emote.source = "client"
                   PROVE  quiet' + state'.emote.left <= CueLife
        OBVIOUS
      <4>1. state.emote # None
        BY <2>0, <3>1, OlderType DEF SameLook
      <4>2. /\ state'.emote.source = state.emote.source
            /\ state'.emote.left = IF state.emote.left = 0 THEN 0 ELSE state.emote.left - 1
        BY <2>0, <3>1, <4>1, OlderType
      <4>3. quiet + state.emote.left <= CueLife /\ state.emote.left > 0
        BY <3>1, <4>1, <4>2 DEF CueFading
      <4>4. state.emote.left \in Nat
        BY <2>0, <4>1 DEF DisplayState, Emote
      <4>5. state'.emote.left = state.emote.left - 1
        BY <4>2, <4>3
      <4> DEFINE q == quiet'
                 l == state.emote.left
      <4>6. q \in Nat /\ q <= quiet + 1 /\ l \in Nat /\ quiet + l <= CueLife
        BY <3>2, <4>3, <4>4
      <4> HIDE DEF q, l
      <4>7. q + (l - 1) <= CueLife
        BY <2>0, <4>6
      <4> QED
        BY <4>5, <4>7 DEF q, l
    <3> QED
      BY <3>1, <3>3 DEF CueFading
  <2>3. CASE Tick
    <3> DEFINE poll == nextPoll <= 0
               c == IF poll THEN Ticked(clients) ELSE clients
               s == CueTaken(c, state)
    <3>1. pc = "tick" /\ pc' = "touch" /\ state' = Expire(s) /\ quiet' = quiet
      BY <2>3 DEF Tick
    <3>2. ClientsType(c) /\ (c.cue # None => Cue(clients.timer) # None)
      BY <2>0, TickedType
    <3> HIDE DEF c
    <3>3. s \in DisplayState /\ (c.cue = None => s = state)
          /\ (c.cue # None => s.emote.left = CueLife /\ s.emote.source = "client")
      BY <2>0, <3>2, CueTakenType
    <3>4. c.cue # None => quiet = 0
      BY <3>1, <3>2 DEF CueFading
    <3> HIDE DEF s
    <3>5. s.emote # None /\ s.emote.source = "client" => quiet + s.emote.left <= CueLife
      <4>1. CASE c.cue = None
        BY <3>3, <4>1 DEF CueFading
      <4>2. CASE c.cue # None
        BY <2>0, <3>3, <3>4, <4>2
      <4> QED
        BY <4>1, <4>2
    <3>6. state'.emote # None =>
            state'.emote = s.emote /\ state'.emote.left \in Nat /\ state'.emote.left # 0
      BY <3>1, <3>3, ExpireType DEF DisplayState, Emote
    <3> QED
      BY <3>1, <3>5, <3>6 DEF CueFading
  <2>4. CASE Touch
    BY <2>4, TouchState DEF CueFading
  <2>5. CASE Receive
    <3>1. quiet' = quiet /\ pc = "receive" /\ pc' = "turn"
      BY <2>5, ReceiveState
    <3>2. CASE state' = state
      BY <3>1, <3>2 DEF CueFading
    <3>3. ASSUME NEW s \in DisplayState, state' = Expire(s),
                 s.emote # None /\ s.emote.source = "client" => s.emote = state.emote
          PROVE  CueFading'
      <4>1. Fades(s)
        BY <3>1, <3>3 DEF Fades, CueFading
      <4> QED
        BY <2>1, <3>1, <3>3, <4>1
    <3> QED
      BY <2>5, <3>2, <3>3, ReceiveState
  <2>6. CASE UNCHANGED vars
    BY <2>6 DEF CueFading, vars
  <2> QED
    BY <2>2, <2>3, <2>4, <2>5, <2>6 DEF Next
<1> QED
  BY <1>1, <1>2, CurrentAlways, PTL DEF Spec

\* A cue is gone CUE_EMOTE_MS after the timer has no reason for it, whatever the host sends.
THEOREM CueTheorem == Spec => []CueEnds
<1>1. TypeOK /\ CueFading => CueEnds
  <2> SUFFICES ASSUME TypeOK, CueFading, pc # "tick", state.emote # None,
                      state.emote.source = "client"
               PROVE  quiet < CueLife
    BY DEF CueEnds
  <2>1. quiet + state.emote.left <= CueLife /\ state.emote.left > 0
    BY DEF CueFading
  <2>2. quiet \in Nat /\ CueLife \in Nat /\ state.emote.left \in Nat
    BY Durations DEF TypeOK, DisplayState, Emote
  <2> QED
    BY <2>1, <2>2
<1> QED
  BY <1>1, TypeCorrect, CueAlways, PTL

-----------------------------------------------------------------------------
(* Where a tap goes: the rows of a Card.                                   *)

\* A non-empty set of naturals has a least element.
LEMMA LeastNatural ==
  ASSUME NEW T \in SUBSET Nat, T # {}
  PROVE  \E x \in T : \A y \in T : x <= y
<1> DEFINE R == OpToRel(<, Nat)
<1>1. IsWellFoundedOn(R, Nat)
  BY NatLessThanWellFounded
<1>2. \A x, y \in Nat : x < y => <<x, y>> \in R
  BY DEF OpToRel
<1> HIDE DEF R
<1>3. PICK x \in T : \A y \in T : <<y, x>> \notin R
  BY <1>1, WFMin
<1>4. \A y \in T : x <= y
  <2> TAKE y \in T
  <2>1. x \in Nat /\ y \in Nat /\ ~(y < x)
    BY <1>2, <1>3
  <2> QED
    BY <2>1
<1> QED
  BY <1>4

\* A function on 0 .. n can be given by its value at 0 and a step from each value to the next.
Stepping(n, V) == [(1 .. n) \X V -> V]

Built(V, v, n, step) ==
  {f \in [0 .. n -> V] : \A k \in 0 .. n : f[k] = IF k = 0 THEN v ELSE step[<<k, f[k - 1]>>]}

LEMMA Recursion ==
  ASSUME NEW V, NEW v \in V, NEW n \in Nat, NEW step \in Stepping(n, V)
  PROVE  \E f : f \in Built(V, v, n, step)
<1> USE DEF Stepping
<1> DEFINE Upto(m) == {f \in [0 .. m -> V] :
                         \A k \in 0 .. m : f[k] = IF k = 0 THEN v ELSE step[<<k, f[k - 1]>>]}
           Bad == {m \in 0 .. n : Upto(m) = {}}
<1>1. ASSUME NEW m \in Bad, \A j \in Bad : m <= j PROVE FALSE
  <2>0. m \in 0 .. n /\ Upto(m) = {}
    OBVIOUS
  <2>1. CASE m = 0
    <3>1. [k \in 0 .. 0 |-> v] \in Upto(0)
      OBVIOUS
    <3> QED
      BY <2>0, <2>1, <3>1
  <2>2. CASE m # 0
    <3>1. m - 1 \in 0 .. n /\ m \in 1 .. n /\ m - 1 < m
      BY <2>0, <2>2
    <3>2. m - 1 \notin Bad
      BY <1>1, <3>1
    <3>3. PICK f : f \in Upto(m - 1)
      BY <3>1, <3>2
    <3> DEFINE w == step[<<m, f[m - 1]>>]
               g == [k \in 0 .. m |-> IF k = m THEN w ELSE f[k]]
    <3>4. f \in [0 .. m - 1 -> V]
          /\ \A k \in 0 .. m - 1 : f[k] = IF k = 0 THEN v ELSE step[<<k, f[k - 1]>>]
      BY <3>3
    <3>5. w \in V
      <4>1. f[m - 1] \in V
        BY <3>1, <3>4
      <4>2. <<m, f[m - 1]>> \in (1 .. n) \X V
        BY <3>1, <4>1
      <4> QED
        BY <4>2
    <3>6. g \in [0 .. m -> V]
      <4> HIDE DEF w
      <4>1. \A k \in 0 .. m : k # m => k \in 0 .. m - 1
        BY <3>1
      <4> QED
        BY <3>4, <3>5, <4>1
    <3>7. ASSUME NEW k \in 0 .. m PROVE g[k] = IF k = 0 THEN v ELSE step[<<k, g[k - 1]>>]
      <4>1. CASE k = m
        <5>1. g[m] = w /\ g[m - 1] = f[m - 1]
          BY <3>1
        <5> QED
          BY <2>2, <4>1, <5>1
      <4>2. CASE k # m
        <5>1. k \in 0 .. m - 1 /\ g[k] = f[k] /\ (k # 0 => g[k - 1] = f[k - 1])
          BY <3>1, <4>2
        <5> QED
          BY <3>4, <5>1
      <4> QED
        BY <4>1, <4>2
    <3> HIDE DEF g, w
    <3>8. g \in Upto(m)
      BY <3>6, <3>7
    <3> QED
      BY <2>0, <3>8
  <2> QED
    BY <2>1, <2>2
<1>2. Bad \in SUBSET Nat /\ n \in 0 .. n
  OBVIOUS
<1> HIDE DEF Bad
<1>3. Bad = {}
  BY <1>1, <1>2, LeastNatural
<1>4. Upto(n) # {}
  BY <1>2, <1>3 DEF Bad
<1> QED
  BY <1>4 DEF Built

\* The rows of a Card, and where each begins.
Row == [height : Nat, action : Nat]

LEMMA HeightIs ==
  ASSUME NEW rows \in Seq(Row)
  PROVE  \A k \in 0 .. Len(rows) : /\ Height(rows)[k] \in Nat
           /\ Height(rows)[k] = IF k = 0 THEN 0 ELSE Height(rows)[k - 1] + rows[k].height
<1> DEFINE n == Len(rows)
           step == [p \in (1 .. n) \X Nat |-> p[2] + rows[p[1]].height]
           Is(f) == f = [k \in 0 .. n |-> IF k = 0 THEN 0 ELSE f[k - 1] + rows[k].height]
<1>1. n \in Nat /\ \A k \in 1 .. n : rows[k].height \in Nat
  <2>1. \A k \in 1 .. n : rows[k] \in Row
    OBVIOUS
  <2> QED
    BY <2>1 DEF Row
<1>2. step \in Stepping(n, Nat)
  BY <1>1 DEF Stepping
<1>3. \A k \in 1 .. n, m \in Nat : step[<<k, m>>] = m + rows[k].height
  BY <1>1
<1> HIDE DEF step
<1>4. PICK f : f \in Built(Nat, 0, n, step)
  <2>1. n \in Nat /\ 0 \in Nat
    BY <1>1
  <2> HIDE DEF n
  <2> QED
    BY <1>2, <2>1, Recursion, Zenon
<1>5. ASSUME NEW k \in 0 .. n PROVE f[k] = IF k = 0 THEN 0 ELSE f[k - 1] + rows[k].height
  <2>1. k # 0 => k \in 1 .. n /\ f[k - 1] \in Nat
    <3>1. f \in [0 .. n -> Nat]
      BY <1>4 DEF Built
    <3>2. k # 0 => k \in 1 .. n /\ k - 1 \in 0 .. n
      BY <1>1
    <3> QED
      BY <3>1, <3>2
  <2>2. f[k] = IF k = 0 THEN 0 ELSE step[<<k, f[k - 1]>>]
    BY <1>4 DEF Built
  <2> QED
    BY <1>3, <2>1, <2>2
<1>6. Is(f)
  BY <1>4, <1>5 DEF Built
<1>7. Height(rows) = CHOOSE g : Is(g)
  BY DEF Height
<1>8. Is(Height(rows))
  BY <1>6, <1>7
<1> DEFINE h == Height(rows)
           Bad == {k \in 0 .. n : h[k] \notin Nat}
<1> HIDE DEF h
<1>9. \A k \in 0 .. n : h[k] = IF k = 0 THEN 0 ELSE h[k - 1] + rows[k].height
  BY <1>8 DEF h
<1>10. ASSUME NEW k \in Bad, \A j \in Bad : k <= j PROVE FALSE
  <2>1. k \in 0 .. n /\ h[k] \notin Nat
    OBVIOUS
  <2>2. k # 0
    BY <1>9, <2>1
  <2>3. k - 1 \in 0 .. n /\ k \in 1 .. n /\ k - 1 < k
    BY <1>1, <2>1, <2>2
  <2>4. h[k - 1] \in Nat
    BY <1>10, <2>3
  <2>5. h[k] = h[k - 1] + rows[k].height
    BY <1>9, <2>1, <2>2
  <2> QED
    BY <1>1, <2>1, <2>3, <2>4, <2>5
<1>11. Bad \in SUBSET Nat
  OBVIOUS
<1> HIDE DEF Bad
<1>12. Bad = {}
  BY <1>10, <1>11, LeastNatural
<1>13. \A k \in 0 .. n : h[k] \in Nat
  BY <1>12 DEF Bad
<1> QED
  BY <1>9, <1>13 DEF h

\* The same of the search for the row that holds y.
Searches(rows, top, y) ==
  {down \in [0 .. Len(rows) -> [top : Int, action : Nat]] :
     /\ ActionAt(rows, top, y) = down[Len(rows)].action
     /\ down[0] = [top |-> top, action |-> 0]
     /\ \A k \in 1 .. Len(rows) :
          down[k] = [top    |-> down[k - 1].top + rows[k].height,
                     action |-> IF y \in down[k - 1].top .. down[k - 1].top + rows[k].height - 1
                                THEN rows[k].action ELSE down[k - 1].action]}

LEMMA ActionIs ==
  ASSUME NEW rows \in Seq(Row), NEW top \in Int, NEW y \in Int
  PROVE  \E down : down \in Searches(rows, top, y)
<1> DEFINE n == Len(rows)
           V == [top : Int, action : Nat]
           v == [top |-> top, action |-> 0]
           Below(k, above) == [top    |-> above.top + rows[k].height,
                               action |-> IF y \in above.top .. above.top + rows[k].height - 1
                                          THEN rows[k].action ELSE above.action]
           step == [p \in (1 .. n) \X V |-> Below(p[1], p[2])]
           Is(f) == f = [k \in 0 .. n |-> IF k = 0 THEN v ELSE Below(k, f[k - 1])]
<1>1. n \in Nat /\ \A k \in 1 .. n : rows[k].height \in Nat /\ rows[k].action \in Nat
  <2>1. \A k \in 1 .. n : rows[k] \in Row
    OBVIOUS
  <2> QED
    BY <2>1 DEF Row
<1>2. \A k \in 1 .. n, a \in V : Below(k, a) \in V
  BY <1>1
<1>3. v \in V
  OBVIOUS
<1> HIDE DEF V, Below, v
<1>4. step \in Stepping(n, V)
  BY <1>2 DEF Stepping
<1>5. \A k \in 1 .. n, a \in V : step[<<k, a>>] = Below(k, a)
  OBVIOUS
<1> HIDE DEF step
<1>6. PICK f : f \in Built(V, v, n, step)
  <2>1. n \in Nat
    BY <1>1
  <2> HIDE DEF n
  <2> QED
    BY <1>3, <1>4, <2>1, Recursion, Zenon
<1>7. ASSUME NEW k \in 0 .. n PROVE f[k] = IF k = 0 THEN v ELSE Below(k, f[k - 1])
  <2>1. k # 0 => k \in 1 .. n /\ f[k - 1] \in V
    <3>1. f \in [0 .. n -> V]
      BY <1>6 DEF Built
    <3>2. k # 0 => k \in 1 .. n /\ k - 1 \in 0 .. n
      BY <1>1
    <3> QED
      BY <3>1, <3>2
  <2>2. f[k] = IF k = 0 THEN v ELSE step[<<k, f[k - 1]>>]
    BY <1>6 DEF Built
  <2> QED
    BY <1>5, <2>1, <2>2
<1>8. Is(f)
  BY <1>6, <1>7 DEF Built
<1> DEFINE down == CHOOSE g : Is(g)
<1>9. ActionAt(rows, top, y) = down[n].action
  BY DEF ActionAt, Below, v
<1>10. Is(down)
  BY <1>8
<1> HIDE DEF down
<1>11. \A k \in 0 .. n : down[k] = IF k = 0 THEN v ELSE Below(k, down[k - 1])
  BY <1>10
<1> DEFINE Bad == {k \in 0 .. n : down[k] \notin V}
<1>12. ASSUME NEW k \in Bad, \A j \in Bad : k <= j PROVE FALSE
  <2>1. k \in 0 .. n /\ down[k] \notin V
    OBVIOUS
  <2>2. k # 0
    BY <1>3, <1>11, <2>1
  <2>3. k - 1 \in 0 .. n /\ k \in 1 .. n /\ k - 1 < k
    BY <1>1, <2>1, <2>2
  <2>4. down[k - 1] \in V
    BY <1>12, <2>3
  <2>5. down[k] = Below(k, down[k - 1])
    BY <1>11, <2>1, <2>2
  <2> QED
    BY <1>2, <2>1, <2>3, <2>4, <2>5
<1>13. Bad \in SUBSET Nat
  OBVIOUS
<1> HIDE DEF Bad
<1>14. Bad = {}
  BY <1>12, <1>13, LeastNatural
<1>15. \A k \in 0 .. n : down[k] \in V
  BY <1>14 DEF Bad
<1>16. down \in [0 .. n -> V]
  <2>1. down = [k \in 0 .. n |-> IF k = 0 THEN v ELSE Below(k, down[k - 1])]
    BY <1>10
  <2> QED
    BY <1>11, <1>15, <2>1
<1>17. \A k \in 1 .. n : down[k] = Below(k, down[k - 1])
  BY <1>11
<1>18. down[0] = v
  BY <1>1, <1>11
<1>19. down \in Searches(rows, top, y)
  BY <1>9, <1>16, <1>17, <1>18 DEF Searches, V, v, Below
<1> QED
  BY <1>19

\* A tap is given the action of the row that is drawn where it is, if there is one: bands do
\* not overlap, and both go down the Card by the same heights.
LEMMA RowTapped ==
  ASSUME NEW rows \in Seq(Row), NEW top \in Int, NEW y \in Int
  PROVE  ActionAt(rows, top + 4, y) = ActionDrawn(rows, top, y)
<1> DEFINE n == Len(rows)
           h == Height(rows)
           start(k) == top + 4 + h[k - 1]
           row == {k \in 1 .. n : y \in Bands(rows, top)[k]}
<1>1. n \in Nat /\ \A k \in 1 .. n : rows[k].height \in Nat /\ rows[k].action \in Nat
  <2>1. \A k \in 1 .. n : rows[k] \in Row
    OBVIOUS
  <2> QED
    BY <2>1 DEF Row
<1>2. /\ \A k \in 0 .. n : h[k] \in Nat
      /\ h[0] = 0 /\ \A k \in 1 .. n : h[k] = h[k - 1] + rows[k].height
  BY <1>1, HeightIs
<1>3. \A k \in 1 .. n : Bands(rows, top)[k] = start(k) .. start(k) + rows[k].height - 1
  BY DEF Bands
<1> HIDE DEF h
<1>4. PICK down : down \in Searches(rows, top + 4, y)
  <2> DEFINE t == top + 4
  <2>1. t \in Int
    OBVIOUS
  <2> HIDE DEF t
  <2>2. \E down : down \in Searches(rows, t, y)
    BY <2>1, ActionIs
  <2> QED
    BY <2>2 DEF t
<1> DEFINE Right(k) ==
             /\ down[k].top = top + 4 + h[k]
             /\ \A j \in 1 .. k : h[j] <= h[k]
             /\ \A j \in 1 .. k : j \in row => down[k].action = rows[j].action
             /\ (\A j \in 1 .. k : j \notin row) => down[k].action = 0
           Bad == {k \in 0 .. n : ~Right(k)}
<1>5. Right(0)
  BY <1>2, <1>4 DEF Searches
<1>6. ASSUME NEW k \in 1 .. n, Right(k - 1) PROVE Right(k)
  <2>1. k - 1 \in 0 .. n /\ k \in 0 .. n /\ h[k - 1] \in Nat /\ h[k] = h[k - 1] + rows[k].height
        /\ h[k] \in Nat /\ rows[k].height \in Nat
    BY <1>1, <1>2
  <2>2. down[k - 1].top = start(k)
    BY <1>6
  <2>3. /\ down[k].top = start(k) + rows[k].height
        /\ down[k].action = IF y \in start(k) .. start(k) + rows[k].height - 1
                            THEN rows[k].action ELSE down[k - 1].action
    <3>1. down[k] = [top    |-> down[k - 1].top + rows[k].height,
                     action |-> IF y \in down[k - 1].top .. down[k - 1].top + rows[k].height - 1
                                THEN rows[k].action ELSE down[k - 1].action]
      BY <1>4 DEF Searches
    <3> HIDE DEF start
    <3> QED
      BY <2>2, <3>1
  <2>4. down[k].top = top + 4 + h[k]
    BY <2>1, <2>3
  <2>5. k \in row <=> y \in start(k) .. start(k) + rows[k].height - 1
    BY <1>3
  <2>6. ASSUME NEW j \in 1 .. k PROVE h[j] <= h[k]
    <3>1. CASE j = k
      BY <2>1, <3>1
    <3>2. CASE j # k
      <4>1. j \in 1 .. k - 1 /\ j \in 0 .. n
        BY <1>1, <3>2
      <4>2. h[j] <= h[k - 1] /\ h[j] \in Nat
        BY <1>2, <1>6, <4>1
      <4> QED
        BY <2>1, <4>2
    <3> QED
      BY <3>1, <3>2
  <2>7. ASSUME NEW j \in 1 .. k - 1, j \in row PROVE k \notin row
    <3>1. j \in 1 .. n /\ j \in 0 .. n /\ j - 1 \in 0 .. n
      BY <1>1
    <3>2. h[j] \in Nat /\ h[j - 1] \in Nat /\ h[j] = h[j - 1] + rows[j].height /\ h[j] <= h[k - 1]
      BY <1>2, <1>6, <3>1
    <3>3. y \in start(j) .. start(j) + rows[j].height - 1
      BY <1>3, <2>7, <3>1
    <3>4. rows[j].height \in Nat
      BY <1>1, <3>1
    <3>5. y < top + 4 + h[j]
      <4> DEFINE a == h[j - 1]
                 r == rows[j].height
      <4>1. a \in Nat /\ r \in Nat /\ h[j] = a + r /\ y <= top + 4 + a + r - 1
        BY <3>2, <3>3, <3>4
      <4> HIDE DEF a, r
      <4> QED
        BY <4>1
    <3>6. y < start(k)
      <4> DEFINE a == h[j]
                 b == h[k - 1]
      <4>1. a \in Nat /\ b \in Nat /\ a <= b /\ y < top + 4 + a
        BY <2>1, <3>2, <3>5
      <4> HIDE DEF a, b
      <4>2. y < top + 4 + b
        BY <4>1
      <4> QED
        BY <4>2 DEF b
    <3>7. start(k) \in Int
      BY <2>1
    <3> HIDE DEF start
    <3>8. y \notin start(k) .. start(k) + rows[k].height - 1
      BY <3>6, <3>7
    <3> QED
      BY <2>5, <3>8
  <2>8. ASSUME NEW j \in 1 .. k, j \in row PROVE down[k].action = rows[j].action
    <3>1. CASE j = k
      BY <2>3, <2>5, <2>8, <3>1
    <3>2. CASE j # k
      <4>1. j \in 1 .. k - 1
        BY <3>2
      <4> QED
        BY <1>6, <2>3, <2>5, <2>7, <2>8, <4>1
    <3> QED
      BY <3>1, <3>2
  <2>9. ASSUME \A j \in 1 .. k : j \notin row PROVE down[k].action = 0
    <3>1. k \notin row /\ \A j \in 1 .. k - 1 : j \notin row
      BY <2>9
    <3> QED
      BY <1>6, <2>3, <2>5, <3>1
  <2> QED
    BY <2>4, <2>6, <2>8, <2>9
<1>7. ASSUME NEW k \in Bad, \A j \in Bad : k <= j PROVE FALSE
  <2>1. k \in 0 .. n /\ ~Right(k)
    OBVIOUS
  <2> HIDE DEF Right
  <2>2. k # 0
    BY <1>5, <2>1
  <2>3. k - 1 \in 0 .. n /\ k \in 1 .. n /\ k - 1 < k
    BY <1>1, <2>1, <2>2
  <2>4. Right(k - 1)
    BY <1>7, <2>3
  <2> QED
    BY <1>6, <2>1, <2>3, <2>4
<1> HIDE DEF Right
<1>8. Bad \in SUBSET Nat
  OBVIOUS
<1> HIDE DEF Bad
<1>9. Bad = {}
  BY <1>7, <1>8, LeastNatural
<1>10. Right(n)
  BY <1>1, <1>9 DEF Bad
<1>11. CASE row = {}
  <2>1. \A j \in 1 .. n : j \notin row
    BY <1>11
  <2>2. down[n].action = 0
    BY <1>10, <2>1 DEF Right
  <2> HIDE DEF row
  <2> QED
    BY <1>4, <1>11, <2>2 DEF row, Searches, ActionDrawn
<1>12. CASE row # {}
  <2> DEFINE j == CHOOSE k \in row : TRUE
  <2>1. j \in row /\ j \in 1 .. n
    BY <1>12
  <2> HIDE DEF j
  <2>2. down[n].action = rows[j].action
    BY <1>10, <2>1 DEF Right
  <2> QED
    BY <1>4, <1>12, <2>2 DEF j, Searches, ActionDrawn
<1> QED
  BY <1>11, <1>12

-----------------------------------------------------------------------------
(* ... the buttons of the panels.                                          *)

\* The effect of a button is what its label says, in each panel.
LEMMA ButtonMeans ==
  ASSUME NEW c, ClientsType(c), PanelOf(c) # None, NEW i \in 1 .. Buttons(PanelOf(c))
  PROVE  Effect(c, PanelOf(c)[1], i) = Promise(PanelOf(c), Labels(PanelOf(c))[i])
<1> DEFINE p == PanelOf(c)
<1>1. CASE c.launcher # None
  <2>1. p = <<"launcher">> /\ i \in 1 .. 3
    BY <1>1 DEF PanelOf, Buttons
  <2> HIDE DEF p
  <2>2. Labels(p) = <<"TIMER", "SETTINGS", "CLOSE">>
    BY <2>1 DEF Labels
  <2>3. Effect(c, p[1], i) = <<<<"open", "timer">>, <<"open", "settings">>, Close>>[i]
    BY <2>1 DEF Effect
  <2>4. /\ Promise(p, "TIMER") = <<"open", "timer">>
        /\ Promise(p, "SETTINGS") = <<"open", "settings">>
        /\ Promise(p, "CLOSE") = Close
    BY <2>1 DEF Promise
  <2> QED
    BY <2>1, <2>2, <2>3, <2>4 DEF p
<1>2. CASE c.launcher = None /\ c.timer.panel # None
  <2>1. p = <<"timer", c.timer.state, c.timer.minutes>> /\ c.timer.state \in {"setting", "running"}
    BY <1>2 DEF PanelOf, ClientsType, TimerType
  <2>2. i \in IF c.timer.state = "setting" THEN 1 .. 6 ELSE 1 .. 4
    BY <2>1 DEF Buttons
  <2> HIDE DEF p
  <2>3. \A label : Promise(p, label) = <<"op", label>>
    BY <2>1 DEF Promise
  <2>4. CASE c.timer.state = "setting"
    <3>1. Effect(c, p[1], i) = <<"op", SettingOps[i]>> /\ Labels(p) = SettingOps
      BY <2>1, <2>4 DEF Effect, Labels, SettingOps
    <3> QED
      BY <2>3, <3>1 DEF p
  <2>5. CASE c.timer.state = "running"
    <3>1. Effect(c, p[1], i) = <<"op", RunningOps[i]>> /\ Labels(p) = RunningOps
      BY <1>2, <2>1, <2>5 DEF Effect, Labels, RunningOps
    <3> QED
      BY <2>3, <3>1 DEF p
  <2> QED
    BY <2>1, <2>4, <2>5
<1>3. CASE c.launcher = None /\ c.timer.panel = None
  <2>1. c.settings.open # None /\ p = <<"settings", c.settings.page>> /\ c.settings.page \in {0, 1, 2}
    BY <1>3 DEF PanelOf, ClientsType, Settings
  <2>2. i \in 1 .. 6
    BY <2>1 DEF Buttons
  <2>3. Effect(c, p[1], i) = SettingsEffect(c.settings.page, i)
    BY <2>1 DEF Effect
  <2> HIDE DEF p
  <2>4. i \in {1, 2, 3, 4, 5, 6}
    BY <2>2
  <2>5. CASE c.settings.page = 0
    <3>1. Labels(p) = <<"AUTO", "TEXT", "MOVE", "LED", "NEXT", "CLOSE">>
      BY <2>1, <2>5 DEF Labels
    <3>2. /\ Promise(p, "AUTO") = Change("enabled") /\ Promise(p, "TEXT") = Change("speech")
          /\ Promise(p, "MOVE") = Change("motion") /\ Promise(p, "LED") = Change("led")
          /\ Promise(p, "NEXT") = Page(1) /\ Promise(p, "CLOSE") = Close
      BY <2>1, <2>5 DEF Promise
    <3>3. SettingsEffect(0, i) = <<Change("enabled"), Change("speech"), Change("motion"),
                                   Change("led"), Page(1), Close>>[i]
      BY DEF SettingsEffect
    <3> QED
      BY <2>3, <2>4, <2>5, <3>1, <3>2, <3>3 DEF p
  <2>6. CASE c.settings.page = 1
    <3>1. Labels(p) = <<"TOUCH", "SENSE", "DARK", "PACE", "SAVE", "MORE">>
      BY <2>1, <2>6 DEF Labels
    <3>2. /\ Promise(p, "TOUCH") = Change("touch") /\ Promise(p, "SENSE") = Change("sensors")
          /\ Promise(p, "DARK") = Change("dark_quiet") /\ Promise(p, "PACE") = Change("pace")
          /\ Promise(p, "SAVE") = Save /\ Promise(p, "MORE") = Page(2)
      BY <2>1, <2>6 DEF Promise
    <3>3. SettingsEffect(1, i) = <<Change("touch"), Change("sensors"), Change("dark_quiet"),
                                   Change("pace"), Save, Page(2)>>[i]
      BY DEF SettingsEffect
    <3> QED
      BY <2>3, <2>4, <2>6, <3>1, <3>2, <3>3 DEF p
  <2>7. CASE c.settings.page = 2
    <3>1. Labels(p) = <<"EXPRESSION", "SPEECH", "FIRST", "BACK", "SAVE", "CLOSE">>
      BY <2>1, <2>7 DEF Labels
    <3>2. /\ Promise(p, "EXPRESSION") = Change("expression")
          /\ Promise(p, "SPEECH") = Change("speech_pace")
          /\ Promise(p, "FIRST") = Page(0) /\ Promise(p, "BACK") = Page(1)
          /\ Promise(p, "SAVE") = Save /\ Promise(p, "CLOSE") = Close
      BY <2>1, <2>7 DEF Promise
    <3>3. SettingsEffect(2, i) = <<Change("expression"), Change("speech_pace"), Page(0), Page(1),
                                   Save, Close>>[i]
      BY DEF SettingsEffect
    <3> QED
      BY <2>3, <2>4, <2>7, <3>1, <3>2, <3>3 DEF p
  <2> QED
    BY <2>1, <2>5, <2>6, <2>7
<1> QED
  BY <1>1, <1>2, <1>3

-----------------------------------------------------------------------------
(* ... and what is seen there.                                             *)

\* What the display shows when it is touched.
LEMMA Seen ==
  ASSUME TypeOK, Current, pc = "touch", shown
  PROVE  lcd = Composition(state, local, reaction, startup)
<1>1. local \in Views /\ state \in DisplayState /\ startup \in BOOLEAN
  BY DEF TypeOK
<1>2. lcd = Picture(state, local, reaction, startup)
  BY Apart DEF Shows, Current, Flushed
<1> QED
  BY <1>1, <1>2, PictureIs

\* What a panel is good for, and the Card of a client.
LEMMA PanelMeans ==
  ASSUME TypeOK, Current, pc = "touch", shown, local.panel # None,
         NEW t, t.seen = lcd[AreaAt(BannerHeight)], t.button \in 0 .. Buttons(local.panel),
         t.did = IF t.button = 0 THEN Nothing ELSE Effect(clients, local.panel[1], t.button)
  PROVE  t.did = Meaning(t)
<1>0. /\ ClientsType(clients) /\ local = View(clients) /\ local \in Views /\ state \in DisplayState
      /\ startup \in BOOLEAN
  BY DEF TypeOK, Current, TakenOver
<1>1. ~startup
  <2>1. View(NoClients).panel = None
    BY DEF View, PanelOf, NoClients, Off, Timer
  <2> QED
    BY <2>1 DEF Current, Starting
<1>2. lcd = [a \in Areas |-> DrawnIn(LookOf(state, local, 3), a)]
  BY <1>1, Seen DEF Composition
<1>3. AreaAt(BannerHeight) = "middle" /\ "middle" \in Areas
  BY DEF AreaAt, BannerHeight, BottomBannerY, Areas
<1>4. t.seen = <<"panel", local.panel>>
  BY <1>2, <1>3 DEF LookOf, DrawnIn
<1>5. Meaning(t) = IF t.button = 0 THEN Nothing
                   ELSE Promise(local.panel, Labels(local.panel)[t.button])
  BY <1>4 DEF Meaning
<1>6. local.panel = PanelOf(clients)
  BY <1>0 DEF View
<1>7. CASE t.button # 0
  <2>1. Buttons(local.panel) \in Nat
    BY <1>6 DEF Buttons, PanelOf
  <2>2. t.button \in 1 .. Buttons(local.panel)
    BY <1>7, <2>1
  <2>3. Effect(clients, local.panel[1], t.button) = Promise(local.panel, Labels(local.panel)[t.button])
    BY <1>0, <1>6, <2>2, ButtonMeans
  <2> QED
    BY <1>5, <1>7, <2>3
<1> QED
  BY <1>5, <1>7

LEMMA CardMeans ==
  ASSUME TypeOK, Current, pc = "touch", shown, local.panel = None, local.card # None,
         state.slots[3] = None, NEW t, t.seen = lcd[AreaAt(0)], t.did = <<"card">>
  PROVE  t.did = Meaning(t)
<1>0. local \in Views /\ state \in DisplayState /\ startup \in BOOLEAN
  BY DEF TypeOK
<1>1. ~startup
  <2>1. View(NoClients).card = None
    BY DEF View, CardOf, NoClients, Off, Timer
  <2> QED
    BY <2>1 DEF Current, Starting
<1>2. lcd = [a \in Areas |-> CASE a = "top" -> LookOf(state, local, 1)
                               [] a = "middle" -> Face(state, local, reaction)
                               [] a = "bottom" -> LookOf(state, local, 2)]
  BY <1>1, Seen DEF Composition
<1>3. AreaAt(0) = "top" /\ "top" \in Areas
  BY DEF AreaAt, BannerHeight, BottomBannerY, Areas
<1>4. t.seen = local.card /\ local.card \in Banners
  BY <1>0, <1>2, <1>3 DEF LookOf, Views
<1>5. t.seen[1] = "card"
  BY <1>4 DEF Banners
<1> QED
  BY <1>5 DEF Meaning

LEMMA Triple ==
  ASSUME NEW A, NEW B, NEW C, NEW w \in A \X B \X C
  PROVE  \E a \in A, b \in B, c \in C : w = <<a, b, c>>
OBVIOUS

\* The host is told of its content by the slot and, of a Card, by the row that is drawn there.
LEMMA ContentMeans ==
  ASSUME state \in DisplayState, Placed(state), NEW y \in Int, NEW slot \in 1 .. 3,
         TappedSlot(y) = slot, state.slots[slot] # None,
         NEW t, t.y = y, t.seen = state.slots[slot].what
                         \/ (state.slots[slot].what = <<"image", 3>> /\ t.seen = <<"black", 3>>)
  PROVE  Named(t) = Hit(y) /\ t.seen[1] \in {"text", "host card", "image", "black"}
<1> DEFINE w == state.slots[slot].what
<1>1. w \in Contents /\ w[2] = slot
  BY DEF DisplayState, SlotEntry, Placed
<1>2. Hit(y) = IF w[1] = "host card"
               THEN <<slot, w[3].id, ActionAt(w[3].rows, SlotTop(slot) + 4, y)>> ELSE <<slot, 0, 0>>
  <2>1. CardIn(slot) <=> w[1] = "host card"
    <3>1. slot # 0
      OBVIOUS
    <3> QED
      BY <3>1 DEF CardIn
  <2>2. Hit(y) = IF CardIn(slot)
                 THEN <<slot, w[3].id, ActionAt(w[3].rows, SlotTop(slot) + 4, y)>> ELSE <<slot, 0, 0>>
    BY DEF Hit
  <2> QED
    BY <2>1, <2>2
<1> HIDE DEF w
<1>3. CASE \E i \in 1 .. 3 : w = <<"text", i>>
  <2>1. w = <<"text", slot>> /\ t.seen = w
    BY <1>1, <1>3 DEF w
  <2> QED
    BY <1>2, <2>1 DEF Named
<1>4. CASE w = <<"image", 3>>
  <2>1. slot = 3 /\ t.seen \in {<<"image", 3>>, <<"black", 3>>}
    BY <1>1, <1>4 DEF w
  <2>2. Hit(y) = <<3, 0, 0>>
    BY <1>2, <1>4, <2>1
  <2>3. t.seen[1] \in {"image", "black"} /\ t.seen[2] = 3
    BY <2>1
  <2>4. Named(t) = <<3, 0, 0>>
    BY <2>3 DEF Named
  <2> QED
    BY <2>2, <2>3, <2>4
<1>5. CASE \E i \in 1 .. 3, card \in Cards : w = <<"host card", i, card>>
  <2>0. PICK i \in 1 .. 3, card \in Cards : w = <<"host card", i, card>>
    BY <1>5
  <2>1. w = <<"host card", slot, card>> /\ w[1] # "image"
    BY <1>1, <2>0
  <2>2. t.seen = <<"host card", slot, card>>
    <3>1. w # <<"image", 3>>
      BY <2>1
    <3> QED
      BY <2>1, <3>1 DEF w
  <2>3. card.rows \in Seq(Row)
    BY ControllerAssumption DEF Row
  <2> DEFINE top == SlotTop(slot)
  <2>4. top \in Int /\ top = IF slot = 2 THEN 192 ELSE 0
    BY DEF SlotTop, BottomBannerY
  <2> HIDE DEF top
  <2>5. t.seen[1] = "host card" /\ t.seen[2] = slot /\ t.seen[3] = card
    <3> DEFINE q == <<"host card", slot, card>>
    <3>1. q[1] = "host card" /\ q[2] = slot /\ q[3] = card
      OBVIOUS
    <3> HIDE DEF q
    <3>2. t.seen = q
      BY <2>2 DEF q
    <3> QED
      BY <3>1, <3>2
  <2>6. Named(t) = <<slot, card.id, ActionDrawn(card.rows, top, y)>>
    BY <2>4, <2>5 DEF Named
  <2>7. Hit(y) = <<slot, card.id, ActionAt(card.rows, top + 4, y)>>
    BY <1>2, <2>1 DEF top
  <2>8. ActionAt(card.rows, top + 4, y) = ActionDrawn(card.rows, top, y)
    BY <2>3, <2>4, RowTapped
  <2> QED
    BY <2>5, <2>6, <2>7, <2>8
<1>6. \/ \E i \in 1 .. 3 : w = <<"text", i>>
      \/ w = <<"image", 3>>
      \/ \E i \in 1 .. 3, card \in Cards : w = <<"host card", i, card>>
  <2>1. CASE w \in {"text"} \X (1 .. 3)
    <3>1. w = <<"text", w[2]>> /\ w[2] \in 1 .. 3
      BY <2>1
    <3> QED
      BY <3>1
  <2>2. CASE w \in {"host card"} \X (1 .. 3) \X Cards
    <3>1. \E k \in {"host card"}, i \in 1 .. 3, card \in Cards : w = <<k, i, card>>
      <4> DEFINE K == {"host card"}
                 I == 1 .. 3
      <4>1. w \in K \X I \X Cards
        BY <2>2
      <4> HIDE DEF K, I
      <4>2. \E k \in K, i \in I, card \in Cards : w = <<k, i, card>>
        BY <4>1, Triple
      <4> QED
        BY <4>2 DEF K, I
    <3> QED
      BY <3>1
  <2> QED
    BY <1>1, <2>1, <2>2 DEF Contents
<1> QED
  BY <1>3, <1>4, <1>5, <1>6

LEMMA HostMeans ==
  ASSUME TypeOK, Current, Placed(state), pc = "touch", shown, local.panel = None,
         NEW y \in 0 .. 239, y < BannerHeight /\ local.card # None => state.slots[3] # None,
         NEW t, t.y = y, t.seen = lcd[AreaAt(y)],
         t.did = IF mode = "forward" THEN <<"event", Hit(y)>> ELSE <<"reaction">>
  PROVE  t.did = Meaning(t)
<1>0. local \in Views /\ state \in DisplayState /\ startup \in BOOLEAN /\ mode \in {"demo", "forward"}
  BY DEF TypeOK
<1>2. lcd = IF startup THEN [a \in Areas |-> <<"startup">>]
            ELSE IF state.slots[3] # None
            THEN [a \in Areas |-> DrawnIn(LookOf(state, local, 3), a)]
            ELSE [a \in Areas |-> CASE a = "top" -> LookOf(state, local, 1)
                                    [] a = "middle" -> Face(state, local, reaction)
                                    [] a = "bottom" -> LookOf(state, local, 2)]
  BY Seen DEF Composition
<1>3. AreaAt(y) \in Areas
  BY DEF AreaAt, Areas
<1>4. ASSUME t.seen[1] \in {"face", "blank", "startup"}, TappedSlot(y) = 0
      PROVE  t.did = Meaning(t)
  <2>1. Hit(y) = <<0, 0, 0>>
    BY <1>4 DEF Hit, CardIn
  <2> QED
    BY <1>0, <1>4, <2>1 DEF Meaning
<1>5. ASSUME NEW slot \in 1 .. 3, TappedSlot(y) = slot, state.slots[slot] # None,
             t.seen = state.slots[slot].what
               \/ (state.slots[slot].what = <<"image", 3>> /\ t.seen = <<"black", 3>>)
      PROVE  t.did = Meaning(t)
  <2>1. Named(t) = Hit(y) /\ t.seen[1] \in {"text", "host card", "image", "black"}
    <3>1. y \in Int
      OBVIOUS
    <3> QED
      BY <1>0, <1>5, <3>1, ContentMeans, Zenon
  <2> QED
    BY <1>0, <2>1 DEF Meaning
<1>6. CASE startup
  <2>1. \A i \in 1 .. 3 : state.slots[i] = None
    BY <1>6 DEF Current, Starting
  <2>2. TappedSlot(y) = 0
    BY <2>1 DEF TappedSlot
  <2>3. t.seen[1] = "startup"
    BY <1>2, <1>3, <1>6
  <2> QED
    BY <1>4, <2>2, <2>3
<1>7. CASE ~startup /\ state.slots[3] # None
  <2>1. t.seen = DrawnIn(state.slots[3].what, AreaAt(y))
    BY <1>2, <1>3, <1>7 DEF LookOf
  <2>2. TappedSlot(y) = 3
    BY <1>7 DEF TappedSlot
  <2> QED
    BY <1>5, <1>7, <2>1, <2>2, 3 \in 1 .. 3 DEF DrawnIn
<1>8. CASE ~startup /\ state.slots[3] = None /\ y < BannerHeight
  <2>1. t.seen = IF state.slots[1] = None THEN Blank ELSE state.slots[1].what
    BY <1>2, <1>3, <1>8 DEF LookOf, AreaAt
  <2>2. TappedSlot(y) = IF state.slots[1] # None THEN 1 ELSE 0
    BY <1>8 DEF TappedSlot, BannerHeight, BottomBannerY
  <2> QED
    BY <1>4, <1>5, <2>1, <2>2, 1 \in 1 .. 3 DEF Blank
<1>9. CASE ~startup /\ state.slots[3] = None /\ y \in BannerHeight .. BottomBannerY - 1
  <2>1. t.seen = Face(state, local, reaction)
    BY <1>2, <1>3, <1>9 DEF AreaAt, BannerHeight, BottomBannerY
  <2>2. t.seen[1] = "face"
    BY <2>1 DEF Face
  <2>3. TappedSlot(y) = 0
    BY <1>9 DEF TappedSlot, BannerHeight, BottomBannerY
  <2> QED
    BY <1>4, <2>2, <2>3
<1>10. CASE ~startup /\ state.slots[3] = None /\ y >= BottomBannerY
  <2>1. t.seen = IF state.slots[2] = None THEN Blank ELSE state.slots[2].what
    BY <1>2, <1>3, <1>10 DEF LookOf, AreaAt, BannerHeight, BottomBannerY
  <2>2. TappedSlot(y) = IF state.slots[2] # None THEN 2 ELSE 0
    BY <1>10 DEF TappedSlot, BannerHeight, BottomBannerY
  <2> QED
    BY <1>4, <1>5, <2>1, <2>2, 2 \in 1 .. 3 DEF Blank
<1> QED
  BY <1>0, <1>6, <1>7, <1>8, <1>9, <1>10 DEF BannerHeight, BottomBannerY

\* A tap is kept until the next turn, and meant what it did when it was made.
Meant ==
  /\ Placed(state)
  /\ pc \in {"tick", "touch"} => tap = None
  /\ pc = "receive" /\ tap # None /\ tap.sure => tap.did = Meaning(tap)

LEMMA TouchMeant ==
  ASSUME TypeOK, Current, Meant, Touch
  PROVE  Meant'
<1>1. state' = state /\ pc = "touch" /\ pc' = "receive" /\ mode' = mode /\ Placed(state)
  BY TouchState DEF Meant, Touch, LongPress, Stroke, TapPanel, TapCard, TapHost, NoGesture, Gesture
<1>2. ASSUME tap' = None PROVE Meant'
  BY <1>1, <1>2 DEF Meant
<1>3. ASSUME NEW t, tap' = t, t.sure => t.did = Meaning(t) PROVE Meant'
  <2>1. Meaning(tap)' = Meaning(t)
    BY <1>1, <1>3 DEF Meaning
  <2> QED
    BY <1>1, <1>3, <2>1 DEF Meant
<1>4. CASE LongPress \/ Stroke \/ NoGesture
  <2>1. tap' = None
    BY <1>1, <1>4 DEF Meant, LongPress, Stroke, NoGesture
  <2> QED
    BY <1>2, <2>1
<1>5. CASE TapPanel
  <2>1. local.panel # None
    BY <1>5 DEF TapPanel
  <2>2. PICK b \in 0 .. Buttons(local.panel) :
          Tapped(BannerHeight, b, IF b = 0 THEN Nothing ELSE Effect(clients, local.panel[1], b))
    BY <1>5 DEF TapPanel
  <2> DEFINE did == IF b = 0 THEN Nothing ELSE Effect(clients, local.panel[1], b)
             t == [seen |-> lcd[AreaAt(BannerHeight)], sure |-> shown, y |-> BannerHeight,
                   button |-> b, did |-> did]
  <2>3. tap' = t
    BY <2>2 DEF Tapped
  <2>4. t.seen = lcd[AreaAt(BannerHeight)] /\ t.button = b /\ t.did = did /\ (t.sure => shown)
    OBVIOUS
  <2> HIDE DEF t
  <2>5. t.sure => t.did = Meaning(t)
    BY <1>1, <2>1, <2>2, <2>4, PanelMeans
  <2> QED
    BY <1>3, <2>3, <2>5
<1>6. CASE TapCard
  <2>1. local.panel = None /\ local.card # None /\ state.slots[3] = None /\ Tapped(0, 0, <<"card">>)
    BY <1>6 DEF TapCard
  <2> DEFINE t == [seen |-> lcd[AreaAt(0)], sure |-> shown, y |-> 0, button |-> 0, did |-> <<"card">>]
  <2>2. tap' = t
    BY <2>1 DEF Tapped
  <2>3. t.seen = lcd[AreaAt(0)] /\ t.did = <<"card">> /\ (t.sure => shown)
    OBVIOUS
  <2> HIDE DEF t
  <2>4. t.sure => t.did = Meaning(t)
    BY <1>1, <2>1, <2>3, CardMeans
  <2> QED
    BY <1>3, <2>2, <2>4
<1>7. CASE TapHost
  <2>1. local.panel = None
    BY <1>7 DEF TapHost
  <2>2. PICK y \in TapRows :
          /\ y < BannerHeight /\ local.card # None => state.slots[3] # None
          /\ Tapped(y, 0, IF mode = "forward" THEN <<"event", Hit(y)>> ELSE <<"reaction">>)
    BY <1>7 DEF TapHost
  <2> DEFINE did == IF mode = "forward" THEN <<"event", Hit(y)>> ELSE <<"reaction">>
             t == [seen |-> lcd[AreaAt(y)], sure |-> shown, y |-> y, button |-> 0, did |-> did]
  <2>3. tap' = t
    BY <2>2 DEF Tapped
  <2>4. t.seen = lcd[AreaAt(y)] /\ t.y = y /\ t.did = did /\ (t.sure => shown)
    OBVIOUS
  <2>5. y \in 0 .. 239
    BY ControllerAssumption
  <2> HIDE DEF t
  <2>6. t.sure => t.did = Meaning(t)
    BY <1>1, <2>1, <2>2, <2>4, <2>5, HostMeans
  <2> QED
    BY <1>3, <2>3, <2>6
<1> QED
  BY <1>4, <1>5, <1>6, <1>7 DEF Touch

LEMMA MeantAlways == Spec => []Meant
<1>1. Init => Meant
  BY DEF Init, EmptyState, Meant, Placed
<1>2. TypeOK /\ Current /\ Meant /\ [Next]_vars => Meant'
  <2> SUFFICES ASSUME TypeOK, Current, Meant, [Next]_vars PROVE Meant'
    OBVIOUS
  <2>0. state \in DisplayState /\ ClientsType(clients) /\ Placed(state)
    BY DEF TypeOK, Meant
  <2>1. CASE Turn
    <3>1. Placed(state')
      BY <2>0, <2>1, OlderType DEF Turn, Placed, SameLook
    <3> QED
      BY <2>1, <3>1 DEF Turn, Meant
  <2>2. CASE Tick
    <3> DEFINE poll == nextPoll <= 0
               c == IF poll THEN Ticked(clients) ELSE clients
               s == CueTaken(c, state)
    <3>1. pc = "tick" /\ pc' = "touch" /\ state' = Expire(s) /\ tap' = tap
      BY <2>2 DEF Tick
    <3>2. ClientsType(c)
      BY <2>0, TickedType
    <3> HIDE DEF c
    <3>3. s \in DisplayState /\ s.slots = state.slots
      BY <2>0, <3>2, CueTakenType
    <3> HIDE DEF s
    <3>4. Placed(state')
      BY <2>0, <3>1, <3>3, ExpireType DEF Placed
    <3> QED
      BY <3>1, <3>4 DEF Meant
  <2>3. CASE Touch
    BY <2>3, TouchMeant
  <2>4. CASE Receive
    <3>1. pc = "receive" /\ pc' = "turn"
      BY <2>4, ReceiveState
    <3>2. Placed(state')
      <4>1. ASSUME NEW s \in DisplayState, state' = Expire(s), Placed(s) PROVE Placed(state')
        BY <4>1, ExpireType DEF Placed
      <4> QED
        BY <2>0, <2>4, <4>1, ReceiveState
    <3> QED
      BY <3>1, <3>2 DEF Meant
  <2>5. CASE UNCHANGED vars
    BY <2>5 DEF Meant, Meaning, vars
  <2> QED
    BY <2>1, <2>2, <2>3, <2>4, <2>5 DEF Next
<1> QED
  BY <1>1, <1>2, CurrentAlways, PTL DEF Spec

\* A tap does what the display shows at that place, for every Card, every row of it and every
\* button of every panel.
THEOREM TapTheorem == Spec => []TapDoesWhatIsSeen
<1>1. TypeOK /\ Meant => TapDoesWhatIsSeen
  BY DEF TypeOK, Meant, TapDoesWhatIsSeen
<1> QED
  BY <1>1, TypeCorrect, MeantAlways, PTL
=============================================================================
