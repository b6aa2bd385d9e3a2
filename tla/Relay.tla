-------------------------------- MODULE Relay --------------------------------
(***************************************************************************)
(* One route of `stackchan relay`: the thread that accepts connections of  *)
(* a plugin and counts them, and for each the thread of forward with the   *)
(* thread it starts for the way upstream.  Each step is one blocking call  *)
(* or one access to the count.  What is copied is left out.                *)
(***************************************************************************)
EXTENDS Integers, FiniteSets

CONSTANTS
  Conns,           \* connections plugins open, one after the other each
  MaxConnections

ASSUME RelayAssumption == MaxConnections \in Nat \ {0}

VARIABLES
  active,   \* the count
  thread,   \* where the thread of each connection is
  copier,   \* for each connection, its two calls of io::copy
  ended,    \* the ends the plugin and the device have closed
  shut      \* connections whose two sockets the relay has shut
rvars == <<active, thread, copier, ended, shut>>

Ways == {"up", "down"}
Source(way) == IF way = "up" THEN "plugin" ELSE "device"
Target(way) == IF way = "up" THEN "device" ELSE "plugin"

RelayInit ==
  /\ active = 0
  /\ thread = [c \in Conns |-> "free"]
  /\ copier = [c \in Conns |-> [way \in Ways |-> "done"]]
  /\ ended = [c \in Conns |-> {}]
  /\ shut = {}

\* A plugin connects to the socket of the route.
Open(c) ==
  /\ thread[c] = "free"
  /\ thread' = [thread EXCEPT ![c] = "waiting"]
  /\ ended' = [ended EXCEPT ![c] = {}]
  /\ shut' = shut \ {c}
  /\ UNCHANGED <<active, copier>>

\* accept and fetch_add; the accepting thread refuses before it accepts again.
Accept(c) ==
  /\ thread[c] = "waiting" /\ \A d \in Conns : thread[d] # "refused"
  /\ active' = active + 1
  /\ thread' = [thread EXCEPT ![c] = IF active >= MaxConnections THEN "refused" ELSE "dialing"]
  /\ UNCHANGED <<copier, ended, shut>>

\* fetch_sub, and the connection is dropped.
Refuse(c) ==
  /\ thread[c] = "refused"
  /\ active' = active - 1
  /\ thread' = [thread EXCEPT ![c] = "free"]
  /\ UNCHANGED <<copier, ended, shut>>

\* connect_timeout and try_clone, or the error that ends forward.
Dial(c) ==
  /\ thread[c] = "dialing"
  /\ \/ /\ thread' = [thread EXCEPT ![c] = "copying"]
        /\ copier' = [copier EXCEPT ![c] = [way \in Ways |-> "reading"]]
     \/ thread' = [thread EXCEPT ![c] = "ending"] /\ UNCHANGED copier
  /\ UNCHANGED <<active, ended, shut>>

\* A read that returns bytes.
Take(c, way) ==
  /\ copier[c][way] = "reading" /\ Source(way) \notin ended[c] /\ c \notin shut
  /\ copier' = [copier EXCEPT ![c][way] = "writing"]
  /\ UNCHANGED <<active, thread, ended, shut>>

\* The write: it blocks until the other side reads, or fails.
Give(c, way) ==
  /\ copier[c][way] = "writing"
  /\ copier' = [copier EXCEPT ![c][way] =
                  IF Target(way) \in ended[c] \/ c \in shut THEN "closing" ELSE "reading"]
  /\ UNCHANGED <<active, thread, ended, shut>>

\* A read that returns the end or an error.
Finish(c, way) ==
  /\ copier[c][way] = "reading" /\ (Source(way) \in ended[c] \/ c \in shut)
  /\ copier' = [copier EXCEPT ![c][way] = "closing"]
  /\ UNCHANGED <<active, thread, ended, shut>>

\* Mistake: only the way that ended is closed.
CloseHalf(c, way) ==
  /\ copier[c][way] = "closing"
  /\ copier' = [copier EXCEPT ![c][way] = "done"]
  /\ UNCHANGED <<active, thread, ended, shut>>

\* Both sockets are shut, in both directions.
CloseBoth(c, way) ==
  /\ copier[c][way] = "closing"
  /\ copier' = [copier EXCEPT ![c][way] = "done"]
  /\ shut' = shut \cup {c}
  /\ UNCHANGED <<active, thread, ended>>

\* join.
Join(c) ==
  /\ thread[c] = "copying" /\ \A way \in Ways : copier[c][way] = "done"
  /\ thread' = [thread EXCEPT ![c] = "ending"]
  /\ UNCHANGED <<active, copier, ended, shut>>

\* fetch_sub, whatever forward returned.
Leave(c) ==
  /\ thread[c] = "ending"
  /\ active' = active - 1
  /\ thread' = [thread EXCEPT ![c] = "free"]
  /\ UNCHANGED <<copier, ended, shut>>

\* The plugin or the device closes its end.
Hangup(c) ==
  /\ thread[c] \in {"waiting", "copying"}
  /\ \E end \in {"plugin", "device"} : ended' = [ended EXCEPT ![c] = @ \cup {end}]
  /\ UNCHANGED <<active, thread, copier, shut>>

Serve(c) ==
  \/ Accept(c) \/ Refuse(c) \/ Dial(c) \/ Join(c) \/ Leave(c)
  \/ \E way \in Ways : Give(c, way) \/ Finish(c, way) \/ CloseBoth(c, way)

RelayNext ==
  \E c \in Conns : Open(c) \/ Hangup(c) \/ Serve(c) \/ \E way \in Ways : Take(c, way)

\* Threads run, and a peer that keeps its end open reads in the end.
RelayFairness ==
  \A c \in Conns :
    /\ WF_rvars(Accept(c) \/ Refuse(c) \/ Dial(c) \/ Join(c) \/ Leave(c))
    /\ \A way \in Ways : WF_rvars(Give(c, way) \/ Finish(c, way) \/ CloseBoth(c, way))

-----------------------------------------------------------------------------
\* A connection that one side has closed gives its place back, although the other
\* side keeps its end open, and when all have ended the count is zero again, however
\* refusals, failures to connect and ends interleave (serve, forward).
SlotsComeBack ==
  /\ \A c \in Conns :
       thread[c] = "copying" /\ ended[c] # {} ~> thread[c] = "free"
  /\ []((\A c \in Conns : thread[c] \in {"free", "waiting"}) => active = 0)
=============================================================================
