------------------------------ MODULE Container ------------------------------
(***************************************************************************)
(* A plugin in a container of its own: the loop of `stackchan plugin-run`  *)
(* and its child, a program on the client library, on one side;            *)
(* SocketSpawner and the life of the plugin in the daemon on the other,    *)
(* and the queue of the socket between them.  Neither side can start or    *)
(* kill the other; they only connect and close.  The plugin may open       *)
(* connections besides; either side may be restarted.                      *)
(***************************************************************************)
EXTENDS Integers, Sequences, SequencesExt

CONSTANTS
  MaxDrain,      \* MAX_DRAIN
  MaxBacklog,    \* the queue of the socket
  MaxFailures,   \* MAX_FAILURES
  MaxUnread,     \* bound of the model: messages the child has not read
  MaxTroubles    \* bound of the model: other connections, restarts, stops and
                 \* failures of accept

ASSUME ContainerAssumption ==
  MaxDrain \in Nat /\ MaxBacklog \in Nat \ {0} /\ MaxFailures \in Nat \ {0}
  /\ MaxUnread \in Nat \ {0} /\ MaxTroubles \in Nat

VARIABLES
  daemon,     \* "up" or "down"
  state,      \* of the plugin's life in the daemon
  due,        \* whether retry_at has passed
  failures,
  backlog,    \* who waits to be accepted: "runner", "other", or "dead" when it has gone
  link,       \* whose connection the life uses, or "none"
  runner,     \* "sleeping", "receiving", or where its child is: "greeting", "waiting"
              \* for Init, or "playing"
  launched,   \* the launch frame is written into the runner's connection
  said,       \* the child has written its Hello there
  unread,     \* messages of the daemon that the child has not read
  closed,     \* the daemon's side of that connection is closed
  troubles
cvars == <<daemon, state, due, failures, backlog, link, runner, launched, said, unread, closed, troubles>>

ContainerInit ==
  /\ daemon = "down" /\ state = "idle" /\ due = TRUE /\ failures = 0
  /\ backlog = <<>> /\ link = "none"
  /\ runner = "sleeping" /\ launched = FALSE /\ said = FALSE /\ unread = <<>> /\ closed = FALSE
  /\ troubles = 0

Trouble == troubles < MaxTroubles /\ troubles' = troubles + 1

-----------------------------------------------------------------------------
(* plugin-run.                                                             *)

\* connect; without a daemon the loop only sleeps again.
Connect ==
  /\ runner = "sleeping" /\ daemon = "up" /\ Len(backlog) < MaxBacklog
  /\ runner' = "receiving"
  /\ launched' = FALSE /\ said' = FALSE /\ unread' = <<>> /\ closed' = FALSE
  /\ backlog' = Append(backlog, "runner")
  /\ UNCHANGED <<daemon, state, due, failures, link, troubles>>

\* receive, and the child is started; or the connection ended before that.
Receive ==
  /\ runner = "receiving" /\ (launched \/ closed)
  /\ runner' = IF launched THEN "greeting" ELSE "sleeping"
  /\ UNCHANGED <<daemon, state, due, failures, backlog, link, launched, said, unread, closed, troubles>>

\* The runner's end is closed: where it was queued it is dead, and a life that used
\* it reads the end.
HungUp == [i \in 1 .. Len(backlog) |-> IF backlog[i] = "runner" THEN "dead" ELSE backlog[i]]
Left   == IF link = "runner" THEN "gone" ELSE link

\* The container is restarted.
ContainerRestarts ==
  /\ runner # "sleeping" /\ Trouble
  /\ runner' = "sleeping" /\ backlog' = HungUp /\ link' = Left
  /\ UNCHANGED <<daemon, state, due, failures, launched, said, unread, closed>>

-----------------------------------------------------------------------------
(* Its child: connect and Connection of the client library, and the loops  *)
(* of the plugins clock and image-demo.                                    *)

\* What a step of the child leaves alone; when it ends, its connection is closed.
Child(next) ==
  /\ runner' = next
  /\ link' = IF next = "sleeping" THEN Left ELSE link
  /\ UNCHANGED <<daemon, state, due, failures, backlog, launched, closed, troubles>>

\* write_frame of the Hello.
Greets ==
  /\ runner = "greeting"
  /\ said' = ~closed
  /\ Child(IF closed THEN "sleeping" ELSE "waiting")
  /\ UNCHANGED unread

\* recv of the first message, which has to be Init, or the end.
AwaitInit ==
  /\ runner = "waiting" /\ (unread # <<>> \/ closed)
  /\ IF unread = <<>> THEN Child("sleeping") /\ UNCHANGED unread
     ELSE /\ Child(IF Head(unread) = "Init" THEN "playing" ELSE "sleeping")
          /\ unread' = Tail(unread)
  /\ UNCHANGED said

\* recv_timeout with a message: Rejected is printed, an Action answered by a card.
Hear ==
  /\ runner = "playing" /\ unread # <<>>
  /\ Child(IF closed /\ Head(unread) = "Action" THEN "sleeping" ELSE "playing")
  /\ unread' = Tail(unread)
  /\ UNCHANGED said

\* recv_timeout at the end of stdin, once every message before it is read.
HearEnd ==
  /\ runner = "playing" /\ unread = <<>> /\ closed
  /\ Child("sleeping")
  /\ UNCHANGED <<said, unread>>

\* send into the closed connection.
SendFails ==
  /\ runner = "playing" /\ closed
  /\ Child("sleeping")
  /\ UNCHANGED <<said, unread>>

\* run returns of its own: a setting is wrong, or a grant it needs is missing.
Leaves ==
  /\ runner = "playing"
  /\ Child("sleeping")
  /\ UNCHANGED <<said, unread>>

-----------------------------------------------------------------------------
\* Something else in the container connects.
OtherConnects ==
  /\ daemon = "up" /\ Len(backlog) < MaxBacklog /\ Trouble
  /\ backlog' = Append(backlog, "other")
  /\ UNCHANGED <<daemon, state, due, failures, link, runner, launched, said, unread, closed>>

-----------------------------------------------------------------------------
(* The daemon.                                                             *)

\* Mistake: the stream is dropped, while reader and writer hold theirs.
ShutDropped(who) == closed' = closed

\* kill: the connection is shut, in both directions.
Shut(who) == closed' = (closed \/ who = "runner")

\* fail, after a life that was stable or not.
Failed(stable) ==
  LET n == IF stable THEN 1 ELSE failures + 1
  IN  /\ failures' = n /\ due' = FALSE
      /\ state' = IF n > MaxFailures THEN "disabled" ELSE "idle"

\* drain of what is left behind the first k of the queue.
Drained(k) ==
  LET rest == SubSeq(backlog, k + 1, Len(backlog))
      n    == IF Len(rest) < MaxDrain THEN Len(rest) ELSE MaxDrain
  IN  /\ backlog' = SubSeq(rest, n + 1, Len(rest))
      /\ closed' = (closed \/ "runner" \in ToSet(SubSeq(rest, 1, n)))

\* start_if_due: refuse.
TurnAway ==
  /\ daemon = "up" /\ backlog # <<>> /\ ~(state = "idle" /\ due)
  /\ Drained(0)
  /\ UNCHANGED <<daemon, state, due, failures, link, runner, launched, said, unread, troubles>>

\* spawn, where the launch frame is written.
Launch ==
  /\ daemon = "up" /\ state = "idle" /\ due /\ backlog # <<>> /\ Head(backlog) # "dead"
  /\ Drained(1)
  /\ link' = Head(backlog) /\ state' = "handshake"
  /\ launched' = (launched \/ Head(backlog) = "runner")
  /\ UNCHANGED <<daemon, due, failures, runner, said, unread, troubles>>

\* spawn, where the peer has gone or does not read.
LaunchFails ==
  /\ daemon = "up" /\ state = "idle" /\ due /\ backlog # <<>> /\ Head(backlog) # "runner"
  /\ Drained(1) /\ Failed(FALSE)
  /\ UNCHANGED <<daemon, link, runner, launched, said, unread, troubles>>

\* spawn, where accept itself fails: whoever waits goes on waiting.
AcceptFails ==
  /\ daemon = "up" /\ state = "idle" /\ due /\ Trouble
  /\ Failed(FALSE)
  /\ UNCHANGED <<daemon, backlog, link, runner, launched, said, unread, closed>>

\* The plugin's Hello, answered with Init; it may have gone since, and a connection
\* of something else may say it too.
Greeted ==
  /\ state = "handshake" /\ (link = "runner" => said)
  /\ state' = "running"
  /\ unread' = IF link = "runner" THEN Append(unread, "Init") ELSE unread
  /\ UNCHANGED <<daemon, due, failures, backlog, link, runner, launched, said, closed, troubles>>

\* Rejected, or the Action of a row.
Tells ==
  /\ state = "running" /\ link = "runner" /\ Len(unread) < MaxUnread
  /\ \E message \in {"Rejected", "Action"} : unread' = Append(unread, message)
  /\ UNCHANGED <<daemon, state, due, failures, backlog, link, runner, launched, said, closed, troubles>>

\* Closed, or the deadline of the Hello.
Ends ==
  /\ state = "handshake" \/ (state = "running" /\ link = "gone")
  /\ \E stable \in BOOLEAN : (stable => state = "running") /\ Failed(stable)
  /\ Shut(link) /\ link' = "none"
  /\ UNCHANGED <<daemon, backlog, runner, launched, said, unread, troubles>>

\* The plugin is stopped for what it sends or does not read.
Stopped ==
  /\ state = "running" /\ Trouble
  /\ \E stable \in BOOLEAN : Failed(stable)
  /\ Shut(link) /\ link' = "none"
  /\ UNCHANGED <<daemon, backlog, runner, launched, said, unread>>

\* The end of the wait.
RetryDue ==
  /\ state = "idle" /\ ~due
  /\ due' = TRUE
  /\ UNCHANGED <<daemon, state, failures, backlog, link, runner, launched, said, unread, closed, troubles>>

\* The daemon dies with every connection and the socket's queue.
DaemonDies ==
  /\ daemon = "up" /\ Trouble
  /\ daemon' = "down" /\ state' = "idle" /\ due' = TRUE /\ failures' = 0
  /\ backlog' = <<>> /\ link' = "none"
  /\ closed' = (closed \/ runner # "sleeping")
  /\ UNCHANGED <<runner, launched, said, unread>>

\* SocketSpawner::new: the socket is bound anew.
DaemonStarts ==
  /\ daemon = "down" /\ daemon' = "up"
  /\ UNCHANGED <<state, due, failures, backlog, link, runner, launched, said, unread, closed, troubles>>

ContainerNext ==
  \/ Connect \/ Receive \/ ContainerRestarts \/ OtherConnects
  \/ Greets \/ AwaitInit \/ Hear \/ HearEnd \/ SendFails \/ Leaves
  \/ TurnAway \/ Launch \/ LaunchFails \/ AcceptFails \/ Greeted \/ Tells \/ Ends \/ Stopped \/ RetryDue
  \/ DaemonDies \/ DaemonStarts

\* Both loops go on, and the child reads what there is; nothing makes it leave, and
\* nothing makes a Hello come in time.
ContainerFairness ==
  /\ WF_cvars(Connect) /\ WF_cvars(Receive)
  /\ WF_cvars(Greets) /\ WF_cvars(AwaitInit) /\ WF_cvars(Hear) /\ WF_cvars(HearEnd)
  /\ WF_cvars(TurnAway) /\ WF_cvars(Launch \/ LaunchFails)
  /\ WF_cvars(Ends) /\ WF_cvars(RetryDue)

-----------------------------------------------------------------------------
\* Whatever ended a life - the plugin, its container, the daemon, a refusal, a launch
\* that failed or a hand-shake that did not come - the plugin runs again while there
\* is a daemon, until its failures in a row disable it: neither side waits for ever
\* for the other (run and serve of plugin_run.rs, the client library, SocketSpawner,
\* start_if_due).
Reconnects == []<>(daemon = "down" \/ state \in {"running", "disabled"})
=============================================================================
