--------------------------- MODULE SlotSyncProofs ---------------------------
(* Proofs about SlotSync for every value of its constants: what the daemon *)
(* believes of the screen, by when that shows what is planned, and what is *)
(* left of a daemon that dies.                                             *)
EXTENDS SlotSync, FiniteSetTheorems, WellFoundedInduction, SequenceTheorems, TLAPS

-----------------------------------------------------------------------------
(* Types.                                                                  *)

DaemonType ==
  /\ alive \in BOOLEAN /\ pc \in {"idle", "input", "status", "plan", "slots"}
  /\ lag \in 0 .. MaxLag /\ ran \in BOOLEAN
  /\ plan \in [Slots -> Contents \cup {None}]
  /\ life \in [Contents -> Life \cup {None}]
  /\ sent \in [Slots -> Sent \cup {None}]
  /\ imageAge \in Nat
  /\ todo \in Seq(Slots) /\ queue \in Seq(SlotMessage)
  /\ waiting \in Waiting \cup {None} /\ mode \in Nat

DeviceState ==
  [screen : [Slots -> Shown \cup {None}], pixels : [{1, 2} -> Contents \cup {None}],
   incoming : Transfer \cup {None}, presence : Presence \cup {None}, input : Nat]

DeviceType ==
  /\ Device \in DeviceState
  /\ reset \in BOOLEAN /\ late \in Message \cup {None}

SpoolType ==
  /\ budget \in Budgets /\ faults \in Nat
  /\ files \in [Requests -> {"none", "temporary", "ready", "gone"}]
  /\ request \in [Requests -> Request \cup {None}]
  /\ \A r \in Requests : files[r] # "none" => request[r] # None
  /\ done \in Seq(Requests)
  /\ before \in [Requests -> SUBSET Requests]
  /\ stuck \in SUBSET Requests
  /\ due \in [Requests -> Int]

ClockType == calm \in 0 .. CalmMax /\ dead \in 0 .. CalmMax /\ unsure \in SUBSET Slots

\* Where the turn is, and what it works on.
FlowOK ==
  /\ pc = "slots" <=> todo # <<>>
  /\ queue # <<>> => pc = "slots"
  /\ pc = "input" => mode # 0
  /\ pc = "status" => waiting # None
  /\ ~alive => pc = "idle"
  /\ \A i \in Slots : plan[i] # None => life[plan[i]] # None

TypeOK == DaemonType /\ DeviceType /\ SpoolType /\ ClockType /\ FlowOK

-----------------------------------------------------------------------------
(* Seconds and lifetimes.                                                  *)

\* Division and remainder.
LEMMA DivMod ==
  ASSUME NEW n \in Int, NEW m \in Int, m > 0
  PROVE  /\ n \div m \in Int
         /\ m * (n \div m) <= n
         /\ n % m = n - (n \div m) * m
<1>1. n \div m \in Int
  OBVIOUS
<1>2. m * (n \div m) <= n
  OBVIOUS
<1>3. n % m = n - (n \div m) * m
  OBVIOUS
<1> QED
  BY <1>1, <1>2, <1>3

\* Whole seconds, at least one and no more than the interval and the margin, are
\* a lifetime that the device is given.
LEMMA WholeSeconds ==
  ASSUME NEW k \in Int, k <= (Refresh + Margin) \div Second
  PROVE  AtLeast(1, k) * Second \in Ttls
<1> DEFINE most == (Refresh + Margin) \div Second
           whole == Refresh \div Second
<1>1. /\ Second \in Nat \ {0} /\ Refresh \in Nat \ {0} /\ Margin \in Nat
      /\ Refresh % Second = 0
  BY SlotSyncAssumption
<1>2. /\ most \in Int
      /\ Second * most <= Refresh + Margin
  <2>1. Refresh + Margin \in Int
    BY <1>1
  <2> QED
    BY <1>1, <2>1, DivMod
<1>3. Second <= Refresh
  <2>1. whole \in Int /\ 0 = Refresh - whole * Second
    BY <1>1, DivMod
  <2> HIDE DEF whole
  <2>2. whole >= 1
    BY <1>1, <2>1
  <2> QED
    BY <1>1, <2>1, <2>2
<1> HIDE DEF most
<1>4. CASE k < 1
  <2>1. AtLeast(1, k) * Second = Second
    BY <1>1, <1>4 DEF AtLeast
  <2> QED
    BY <1>1, <1>3, <2>1 DEF Ttls
<1>5. CASE k >= 1
  <2>1. AtLeast(1, k) = k
    BY <1>5 DEF AtLeast
  <2>2. k <= most
    BY DEF most
  <2>3. k * Second <= Second * most
    BY <1>1, <1>2, <1>5, <2>2
  <2>4. k * Second \in Int /\ Second * most \in Int /\ k * Second >= 1
    BY <1>1, <1>2, <1>5
  <2> QED
    BY <1>1, <1>2, <2>1, <2>3, <2>4 DEF Ttls
<1> QED
  BY <1>4, <1>5

\* Rounding up to seconds gives a whole number.
LEMMA UpToInt == \A n \in Int : UpTo(n) \in Int
<1> SUFFICES ASSUME NEW n \in Int PROVE UpTo(n) \in Int
  OBVIOUS
<1>1. n + Second - 1 \in Int /\ Second \in Nat \ {0}
  BY SlotSyncAssumption
<1> DEFINE k == n + Second - 1
<1> HIDE DEF k
<1>2. k \div Second \in Int
  BY <1>1, DivMod DEF k
<1> QED
  BY <1>2 DEF UpTo, k

\* The lifetime of what is sent to the device, device_ttl.
LEMMA DeviceTtlRange ==
  ASSUME NEW c \in Contents, life[c] \in Life, lag \in Int
  PROVE  DeviceTtl(c) \in Ttls
<1> DEFINE most == (Refresh + Margin) \div Second
           k == IF life[c].bounded THEN AtMost(most, UpTo(Remaining(c))) ELSE most
<1>1. most \in Int
  BY SlotSyncAssumption, DivMod
<1>2. UpTo(Remaining(c)) \in Int
  BY UpToInt DEF Remaining, Life
<1>3. DeviceTtl(c) = AtLeast(1, k) * Second
  BY DEF DeviceTtl
<1> HIDE DEF most
<1>4. k \in Int /\ k <= most
  BY <1>1, <1>2 DEF AtMost, Life
<1> HIDE DEF k
<1> QED
  BY <1>3, <1>4, WholeSeconds DEF most

-----------------------------------------------------------------------------
(* The device.                                                             *)

\* The overlay is one of the slots.
LEMMA OverlaySlot == Overlay \in Slots /\ Cardinality(Slots) \in Nat \ {0}
<1>1. Cardinality(Slots) \in Nat /\ Slots = 1 .. Cardinality(Slots) /\ Slots # {}
  BY SlotSyncAssumption, FS_CardinalityType
<1> DEFINE n == Cardinality(Slots)
<1> HIDE DEF n
<1>2. n \in Nat /\ Slots = 1 .. n /\ Slots # {}
  BY <1>1 DEF n
<1>3. n \in Slots /\ n \in Nat \ {0}
  BY <1>2
<1> QED
  BY <1>3 DEF Overlay, n

\* Controller::handle keeps what the device shows well formed.
LEMMA HandledType ==
  ASSUME NEW d \in DeviceState, NEW m \in Message
  PROVE  Handled(d, m) \in DeviceState
<1>1. CASE m.kind = "show"
  <2>1. m.slot \in Slots /\ m.src \in Contents /\ m.ttl \in Ttls
    BY <1>1 DEF Message, SlotMessage
  <2>2. [src |-> m.src, left |-> m.ttl] \in Shown
    BY <2>1 DEF Shown
  <2> QED
    BY <1>1, <2>1, <2>2 DEF Handled, DeviceState
<1>2. CASE m.kind = "clear"
  <2>1. m.slot \in Slots
    BY <1>2 DEF Message, SlotMessage
  <2> QED
    BY <1>2, <2>1 DEF Handled, DeviceState
<1>3. CASE m.kind = "begin"
  <2>1. [src |-> m.src, ttl |-> m.ttl, row |-> 1] \in Transfer
    BY <1>3 DEF Message, SlotMessage, Transfer
  <2> QED
    BY <1>3, <2>1 DEF Handled, DeviceState
<1>4. CASE m.kind = "rows"
  <2>1. CASE ~Accepts(d, m)
    BY <1>4, <2>1 DEF Handled
  <2>2. CASE Accepts(d, m)
    <3>1. m.src \in Images /\ m.row \in {1, 2}
      BY <1>4 DEF Message, SlotMessage
    <3>2. d.incoming \in Transfer /\ d.incoming # None
      BY <1>4, <2>2 DEF Accepts, DeviceState
    <3>3. [d.incoming EXCEPT !.row = m.row + 1] \in Transfer
      BY <3>1, <3>2 DEF Transfer
    <3>4. [d.pixels EXCEPT ![m.row] = m.src] \in [{1, 2} -> Contents \cup {None}]
      BY <3>1 DEF DeviceState, Contents
    <3>5. Handled(d, m) = [d EXCEPT !.pixels = [d.pixels EXCEPT ![m.row] = m.src],
                                    !.incoming = [d.incoming EXCEPT !.row = m.row + 1]]
      BY <1>4, <2>2 DEF Handled, DeviceState
    <3> QED
      BY <3>3, <3>4, <3>5 DEF DeviceState
  <2> QED
    BY <2>1, <2>2
<1>5. CASE m.kind = "end"
  <2>1. CASE ~Accepts(d, m)
    BY <1>5, <2>1 DEF Handled, DeviceState
  <2>2. CASE Accepts(d, m)
    <3>1. d.incoming \in Transfer /\ m.src \in Images
      BY <1>5, <2>2 DEF Accepts, DeviceState, Message, SlotMessage
    <3>2. [src |-> m.src, left |-> d.incoming.ttl] \in Shown
      BY <3>1 DEF Transfer, Shown, Contents
    <3>3. Handled(d, m) = [d EXCEPT !.screen[Overlay] = [src |-> m.src, left |-> d.incoming.ttl],
                                    !.incoming = None]
      BY <1>5, <2>2 DEF Handled
    <3> DEFINE e == [src |-> m.src, left |-> d.incoming.ttl]
    <3> HIDE DEF e
    <3>4. [d.screen EXCEPT ![Overlay] = e] \in [Slots -> Shown \cup {None}]
      BY <3>2, OverlaySlot DEF DeviceState, e
    <3> QED
      BY <3>3, <3>4 DEF DeviceState, e
  <2> QED
    BY <2>1, <2>2
<1>6. CASE m.kind = "status"
  <2>1. [id |-> m.id, left |-> m.ttl] \in Presence
    BY <1>6 DEF Message, SlotMessage, Presence
  <2> QED
    BY <1>6, <2>1 DEF Handled, DeviceState
<1>7. CASE m.kind = "input"
  <2>1. m.id \in Nat
    BY <1>7 DEF Message, SlotMessage
  <2> QED
    BY <1>7, <2>1 DEF Handled, DeviceState
<1> QED
  BY <1>1, <1>2, <1>3, <1>4, <1>5, <1>6, <1>7 DEF Message, SlotMessage

\* Becoming a state of the device is having it.
LEMMA Becomes ==
  ASSUME NEW d \in DeviceState, Become(d)
  PROVE  Device' = d
BY DEF Become, Device, DeviceState

\* The device stays what it is as long as its variables do.
LEMMA SameDevice ==
  ASSUME screen' = screen, pixels' = pixels, incoming' = incoming,
         presence' = presence, input' = input
  PROVE  Device' = Device
BY DEF Device

\* A call to the device, whatever becomes of it, leaves everything well formed.
LEMMA CallType ==
  ASSUME DeviceType, SpoolType, ClockType, NEW m \in Message,
         (Delivered(m) /\ unsure' \in SUBSET Slots) \/ Fails(m)
  PROVE  /\ DeviceType' /\ faults' \in Nat
         /\ calm' \in 0 .. CalmMax /\ unsure' \in SUBSET Slots
<1>1. /\ Device \in DeviceState /\ reset \in BOOLEAN /\ faults \in Nat
      /\ calm \in 0 .. CalmMax /\ unsure \in SUBSET Slots
  BY DEF DeviceType, SpoolType, ClockType
<1>2. Handled(Device, m) \in DeviceState
  BY <1>1, HandledType
<1>3. 0 \in 0 .. CalmMax
  BY SlotSyncAssumption DEF CalmMax
<1>4. Touches(m) \in SUBSET Slots
  BY OverlaySlot DEF Touches, Message, SlotMessage
<1>5. CASE Delivered(m) /\ unsure' \in SUBSET Slots
  BY <1>1, <1>2, <1>5, Becomes DEF Delivered, DeviceType
<1>6. CASE Rejected(m)
  <2>1. Device' \in DeviceState /\ reset' \in BOOLEAN /\ late' = None
    BY <1>2, <1>6, Becomes DEF Rejected
  <2>2. faults' \in Nat /\ calm' = 0
    BY <1>1, <1>6 DEF Rejected
  <2>3. unsure' \in SUBSET Slots
    BY <1>1, <1>4, <1>6 DEF Rejected
  <2> QED
    BY <1>3, <2>1, <2>2, <2>3 DEF DeviceType
<1>7. CASE Unanswered(m)
  <2>1. Device' \in DeviceState /\ reset' \in BOOLEAN /\ late' \in Message \cup {None}
    BY <1>1, <1>2, <1>7, Becomes DEF Unanswered
  <2>2. faults' \in Nat /\ calm' = 0 /\ unsure' = unsure
    BY <1>1, <1>7 DEF Unanswered
  <2> QED
    BY <1>1, <1>3, <2>1, <2>2 DEF DeviceType
<1> QED
  BY <1>5, <1>6, <1>7 DEF Fails

\* A Reset makes the daemon forget, and nothing else.
LEMMA ForgetType ==
  ASSUME sent \in [Slots -> Sent \cup {None}]
  PROVE  Forget \in [Slots -> Sent \cup {None}]
BY DEF Forget

\* The spool stays well formed while nothing is written to it or taken from it.
LEMMA SpoolSame ==
  ASSUME SpoolType, UNCHANGED <<budget, files, request, done, before, stuck, due>>,
         faults' \in Nat
  PROVE  SpoolType'
BY DEF SpoolType, Requests

-----------------------------------------------------------------------------
(* The spool.                                                              *)

\* A non-empty set of naturals has a least element.
LEMMA LeastNatural ==
  ASSUME NEW T \in SUBSET Nat, T # {}
  PROVE  \E x \in T : \A y \in T : x <= y
<1> DEFINE R == OpToRel(<, Nat)
<1>1. IsWellFoundedOn(R, Nat)
  BY NatLessThanWellFounded
<1>2. \A x, y \in Nat : x < y => <<x, y>> \in R
  BY DEF OpToRel
<1> HIDE DEF R
<1>3. PICK x \in T : \A y \in T : <<y, x>> \notin R
  BY <1>1, WFMin
<1>4. \A y \in T : x <= y
  <2> TAKE y \in T
  <2>1. x \in Nat /\ y \in Nat /\ ~(y < x)
    BY <1>2, <1>3
  <2> QED
    BY <2>1
<1> QED
  BY <1>4

\* The requests are finitely many numbers.
LEMMA RequestNumbers ==
  ASSUME SpoolType
  PROVE  /\ budget.requests \in Nat /\ Requests = 1 .. budget.requests
         /\ \A rs \in SUBSET Requests : IsFiniteSet(rs) /\ Cardinality(rs) \in Nat
<1>1. budget.requests \in Nat /\ Requests = 1 .. budget.requests
  BY SlotSyncAssumption DEF SpoolType, Requests
<1>2. IsFiniteSet(Requests)
  BY <1>1, FS_Interval
<1> QED
  BY <1>1, <1>2, FS_Subset, FS_CardinalityType

\* Of the requests of a kind the newest is one of them.
LEMMA NewestIs ==
  ASSUME SpoolType, NEW rs \in SUBSET Requests, NEW k, NEW old
  PROVE  LET new == Newest(rs, k, old)
         IN  \/ new = old /\ \A r \in rs : request[r].kind # k
             \/ new \in rs /\ request[new].kind = k
<1> DEFINE mine == {r \in rs : request[r].kind = k}
           n == budget.requests
<1>1. n \in Nat /\ mine \in SUBSET (1 .. n)
  BY RequestNumbers
<1>2. Newest(rs, k, old) = IF mine = {} THEN old
                           ELSE CHOOSE r \in mine : \A q \in mine : q <= r
  BY DEF Newest
<1> HIDE DEF mine, n
<1>3. CASE mine # {}
  <2> DEFINE T == {n - r : r \in mine}
  <2>1. T \in SUBSET Nat /\ T # {}
    BY <1>1, <1>3
  <2>2. PICK x \in T : \A y \in T : x <= y
    <3> HIDE DEF T
    <3> QED
      BY <2>1, LeastNatural
  <2>3. PICK r \in mine : x = n - r
    OBVIOUS
  <2>4. ASSUME NEW q \in mine PROVE q <= r
    <3>1. n - r <= n - q
      BY <2>2, <2>3
    <3> QED
      BY <1>1, <3>1
  <2>5. Newest(rs, k, old) \in mine
    BY <1>2, <1>3, <2>4
  <2> QED
    BY <2>5 DEF mine
<1>4. CASE mine = {}
  BY <1>2, <1>4 DEF mine
<1> QED
  BY <1>3, <1>4

\* The requests that are carried out are told in the order of their files.
LEMMA OrderedRequests ==
  ASSUME SpoolType, NEW rs \in SUBSET Requests, NEW order \in InOrder(rs)
  PROVE  /\ order \in Seq(Requests) /\ Len(order) = Cardinality(rs)
         /\ \A i \in 1 .. Len(order) : order[i] \in rs
         /\ \A i, j \in 1 .. Len(order) : i < j => order[i] < order[j]
<1> DEFINE n == Cardinality(rs)
<1>1. n \in Nat
  BY RequestNumbers
<1>2. order \in [1 .. n -> rs]
      /\ \A i, j \in 1 .. n : i < j => order[i] < order[j]
  BY DEF InOrder
<1> HIDE DEF n
<1>3. order \in Seq(Requests) /\ Len(order) = n
  BY <1>1, <1>2
<1> QED
  BY <1>2, <1>3 DEF n

-----------------------------------------------------------------------------
(* Every action keeps the types.                                           *)

LEMMA WriteType == TypeOK /\ WriteTemporary => TypeOK'
<1> SUFFICES ASSUME TypeOK, WriteTemporary PROVE TypeOK'
  OBVIOUS
<1>1. /\ UNCHANGED <<daemonVars, deviceVars, faults, budget, calm, dead, unsure>>
      /\ UNCHANGED <<done, stuck, due>>
  BY DEF WriteTemporary
<1>2. DaemonType' /\ ClockType' /\ FlowOK'
  BY <1>1 DEF TypeOK, DaemonType, ClockType, FlowOK, daemonVars
<1>3. DeviceType'
  BY <1>1, SameDevice DEF TypeOK, DeviceType, deviceVars
<1>4. PICK r \in Requests, k \in Kinds, t \in StatusLives :
        /\ files' = [files EXCEPT ![r] = "temporary"]
        /\ request' = [request EXCEPT ![r] = [kind |-> k, ttl |-> t]]
        /\ before' = [before EXCEPT ![r] = {q \in Requests : files[q] \in {"ready", "gone"}}]
  BY DEF WriteTemporary
<1>5. SpoolType'
  <2>1. /\ Requests' = Requests /\ budget' \in Budgets /\ faults' \in Nat
        /\ done' \in Seq(Requests) /\ stuck' \in SUBSET Requests /\ due' \in [Requests -> Int]
    BY <1>1 DEF TypeOK, SpoolType, Requests
  <2>2. [kind |-> k, ttl |-> t] \in Request /\ [kind |-> k, ttl |-> t] # None
    BY NoneAssumption DEF Request
  <2>3. /\ files \in [Requests -> {"none", "temporary", "ready", "gone"}]
        /\ request \in [Requests -> Request \cup {None}]
        /\ before \in [Requests -> SUBSET Requests]
        /\ \A q \in Requests : files[q] # "none" => request[q] # None
    BY DEF TypeOK, SpoolType
  <2>4. files' \in [Requests -> {"none", "temporary", "ready", "gone"}]
    BY <1>4, <2>3
  <2>5. request' \in [Requests -> Request \cup {None}]
    BY <1>4, <2>2, <2>3
  <2>6. before' \in [Requests -> SUBSET Requests]
    BY <1>4, <2>3
  <2>7. \A q \in Requests : files'[q] # "none" => request'[q] # None
    BY <1>4, <2>2, <2>3
  <2> QED
    BY <2>1, <2>4, <2>5, <2>6, <2>7 DEF SpoolType
<1> QED
  BY <1>2, <1>3, <1>5 DEF TypeOK

LEMMA RenameType == TypeOK /\ Rename => TypeOK'
<1> SUFFICES ASSUME TypeOK, Rename PROVE TypeOK'
  OBVIOUS
<1>1. UNCHANGED <<daemonVars, deviceVars, request, faults, budget, history>>
  BY DEF Rename
<1>2. DaemonType' /\ ClockType' /\ FlowOK'
  BY <1>1 DEF TypeOK, DaemonType, ClockType, FlowOK, daemonVars, history
<1>3. DeviceType'
  BY <1>1, SameDevice DEF TypeOK, DeviceType, deviceVars
<1>4. SpoolType'
  <2>1. PICK r \in Requests : files[r] = "temporary" /\ files' = [files EXCEPT ![r] = "ready"]
    BY DEF Rename
  <2>2. /\ Requests' = Requests
        /\ UNCHANGED <<budget, faults, request, done, before, stuck, due>>
    BY <1>1 DEF Requests, history, spoolPast
  <2> QED
    BY <2>1, <2>2 DEF TypeOK, SpoolType
<1> QED
  BY <1>2, <1>3, <1>4 DEF TypeOK

LEMMA BeginTurnType == TypeOK /\ BeginTurn => TypeOK'
<1> SUFFICES ASSUME TypeOK, BeginTurn PROVE TypeOK'
  OBVIOUS
<1>1. /\ UNCHANGED <<alive, ran, plan, life, sent, imageAge, todo, queue, deviceVars>>
      /\ UNCHANGED <<request, budget, calm, dead, unsure, before>>
      /\ alive /\ pc = "idle" /\ lag' = 0
      /\ pc' = IF mode' # 0 THEN "input" ELSE IF waiting' # None THEN "status" ELSE "plan"
  BY DEF BeginTurn
<1>2. DeviceType' /\ ClockType'
  BY <1>1, SameDevice DEF TypeOK, DeviceType, ClockType, deviceVars
<1>3. PICK taken \in Taken({r \in Requests : files[r] = "ready"}) :
        \E removed \in SUBSET taken :
          /\ faults' = IF removed # taken THEN faults + 1 ELSE faults
          /\ files' = [r \in Requests |-> IF r \in removed THEN "gone" ELSE files[r]]
          /\ stuck' = stuck \cup (taken \ removed)
          /\ LET status == Newest(removed, "status", 0)
             IN  /\ waiting' = IF status = 0 THEN waiting
                               ELSE [id |-> status, left |-> request[status].ttl,
                                     bounded |-> request[status].ttl # Forever]
                 /\ mode' = Newest(removed, "input", mode)
                 /\ \E order \in InOrder(removed) : done' = done \o order
                 /\ due' = [r \in Requests |-> IF r = status THEN request[r].ttl ELSE due[r]]
  BY DEF BeginTurn, CarriedOut
<1>4. PICK removed \in SUBSET taken :
        /\ faults' = IF removed # taken THEN faults + 1 ELSE faults
        /\ files' = [r \in Requests |-> IF r \in removed THEN "gone" ELSE files[r]]
        /\ stuck' = stuck \cup (taken \ removed)
        /\ LET status == Newest(removed, "status", 0)
           IN  /\ waiting' = IF status = 0 THEN waiting
                             ELSE [id |-> status, left |-> request[status].ttl,
                                   bounded |-> request[status].ttl # Forever]
               /\ mode' = Newest(removed, "input", mode)
               /\ \E order \in InOrder(removed) : done' = done \o order
               /\ due' = [r \in Requests |-> IF r = status THEN request[r].ttl ELSE due[r]]
  BY <1>3
<1>5. SpoolType /\ DaemonType /\ FlowOK
  BY DEF TypeOK
<1>6. /\ taken \in SUBSET Requests /\ removed \in SUBSET Requests
      /\ \A r \in taken : files[r] = "ready" /\ request[r] \in Request
  <2>1. \A r \in taken : r \in Requests /\ files[r] = "ready"
    BY DEF Taken
  <2> QED
    BY <1>5, <2>1 DEF SpoolType
<1> DEFINE status == Newest(removed, "status", 0)
<1>7. status = 0 \/ status \in removed
  BY <1>5, <1>6, NewestIs
<1>8. \A r \in removed : r \in Nat /\ request[r].ttl \in Nat
  <2>1. Requests \subseteq Nat
    BY <1>5, RequestNumbers
  <2>2. \A r \in Request : r.ttl \in Nat
    BY SlotSyncAssumption DEF Request
  <2> QED
    BY <1>6, <2>1, <2>2
<1>9. waiting' \in Waiting \cup {None}
  <2>1. CASE status = 0
    BY <1>4, <1>5, <2>1 DEF DaemonType
  <2>2. CASE status # 0
    BY <1>4, <1>7, <1>8, <2>2 DEF Waiting
  <2> QED
    BY <2>1, <2>2
<1>10. mode' \in Nat
  <2>1. mode' = mode \/ mode' \in removed
    BY <1>4, <1>5, <1>6, NewestIs
  <2> QED
    BY <1>5, <1>8, <2>1 DEF DaemonType
<1>11. DaemonType'
  BY <1>1, <1>5, <1>9, <1>10, SlotSyncAssumption DEF DaemonType
<1>12. FlowOK'
  BY <1>1, <1>5 DEF FlowOK
<1>13. SpoolType'
  <2>1. Requests' = Requests /\ budget' \in Budgets
    BY <1>1, <1>5 DEF Requests, SpoolType
  <2>2. faults' \in Nat
    BY <1>4, <1>5 DEF SpoolType
  <2>3. /\ files' \in [Requests -> {"none", "temporary", "ready", "gone"}]
        /\ \A r \in Requests : files'[r] # "none" => request'[r] # None
    BY <1>1, <1>4, <1>5, <1>6, NoneAssumption DEF SpoolType
  <2>4. done' \in Seq(Requests)
    <3>1. PICK order \in InOrder(removed) : done' = done \o order
      BY <1>4
    <3>2. order \in Seq(Requests) /\ done \in Seq(Requests)
      BY <1>5, <1>6, OrderedRequests DEF SpoolType
    <3> QED
      BY <3>1, <3>2
  <2>5. stuck' \in SUBSET Requests
    BY <1>4, <1>5, <1>6 DEF SpoolType
  <2>6. due' \in [Requests -> Int]
    <3>1. due' = [r \in Requests |-> IF r = status THEN request[r].ttl ELSE due[r]]
      BY <1>4
    <3>2. due \in [Requests -> Int] /\ 0 \notin Requests
      BY <1>5, RequestNumbers DEF SpoolType
    <3> HIDE DEF status
    <3> QED
      BY <1>7, <1>8, <3>1, <3>2
  <2>7. request' = request /\ before' = before
    BY <1>1
  <2> QED
    BY <1>5, <2>1, <2>2, <2>3, <2>4, <2>5, <2>6, <2>7 DEF SpoolType
<1> QED
  BY <1>2, <1>11, <1>12, <1>13 DEF TypeOK

\* The messages of the turn are well formed.
LEMMA InputMessage ==
  ASSUME TypeOK
  PROVE  [kind |-> "input", id |-> mode] \in Message
BY DEF TypeOK, DaemonType, Message

LEMMA StatusMessage ==
  ASSUME TypeOK, waiting # None
  PROVE  [kind |-> "status", id |-> waiting.id, ttl |-> StatusTtl] \in Message
<1>1. waiting \in Waiting /\ lag \in Int
  BY DEF TypeOK, DaemonType
<1>2. UpTo(waiting.left + lag) \in Int
  BY <1>1, UpToInt DEF Waiting
<1>3. AtLeast(1, UpTo(waiting.left + lag)) \in Nat
  BY <1>2 DEF AtLeast
<1>4. AtLeast(1, UpTo(waiting.left + lag)) * Second \in Nat
  BY <1>3, SlotSyncAssumption
<1>5. StatusTtl \in Nat
  BY <1>4 DEF StatusTtl, Forever
<1>6. waiting.id \in Nat
  BY <1>1 DEF Waiting
<1> QED
  BY <1>5, <1>6 DEF Message

LEMMA FlushInputType == TypeOK /\ FlushInput => TypeOK'
<1> SUFFICES ASSUME TypeOK, FlushInput PROVE TypeOK'
  OBVIOUS
<1> DEFINE m == [kind |-> "input", id |-> mode]
<1>1. /\ pc = "input" /\ pc' = IF waiting # None THEN "status" ELSE "plan"
      /\ UNCHANGED <<alive, lag, ran, plan, life, imageAge, todo, queue, waiting, spoolVars>>
      /\ UNCHANGED <<budget, dead, spoolPast>>
      /\ \/ Delivered(m) /\ sent' = Forget /\ mode' = 0 /\ UNCHANGED unsure
         \/ Fails(m) /\ UNCHANGED <<sent, mode>>
  BY DEF FlushInput
<1>2. m \in Message
  BY InputMessage
<1> HIDE DEF m
<1>3. DaemonType /\ DeviceType /\ SpoolType /\ ClockType /\ FlowOK
  BY DEF TypeOK
<1>4. (Delivered(m) /\ unsure' \in SUBSET Slots) \/ Fails(m)
  BY <1>1, <1>3 DEF ClockType
<1>5. DeviceType' /\ faults' \in Nat /\ calm' \in 0 .. CalmMax /\ unsure' \in SUBSET Slots
  BY <1>2, <1>3, <1>4, CallType
<1>6. sent' \in [Slots -> Sent \cup {None}] /\ mode' \in Nat
  BY <1>1, <1>3, ForgetType DEF DaemonType
<1>7. DaemonType' /\ FlowOK'
  BY <1>1, <1>3, <1>6 DEF DaemonType, FlowOK
<1>8. SpoolType'
  BY <1>1, <1>3, <1>5, SpoolSame DEF spoolVars, spoolPast
<1>9. ClockType'
  BY <1>1, <1>3, <1>5 DEF ClockType
<1> QED
  BY <1>5, <1>7, <1>8, <1>9 DEF TypeOK

LEMMA FlushStatusType == TypeOK /\ FlushStatus => TypeOK'
<1> SUFFICES ASSUME TypeOK, FlushStatus PROVE TypeOK'
  OBVIOUS
<1> DEFINE m == [kind |-> "status", id |-> waiting.id, ttl |-> StatusTtl]
<1>1. /\ pc = "status" /\ pc' = "plan"
      /\ UNCHANGED <<alive, lag, ran, plan, life, imageAge, todo, queue, mode, spoolVars>>
      /\ UNCHANGED <<budget, dead, spoolPast>>
      /\ \/ waiting' = None /\ UNCHANGED <<deviceVars, faults, calm, unsure, sent>>
         \/ Delivered(m) /\ sent' = Forget /\ waiting' = None /\ UNCHANGED unsure
         \/ Fails(m) /\ UNCHANGED <<sent, waiting>>
  BY DEF FlushStatus
<1>2. DaemonType /\ DeviceType /\ SpoolType /\ ClockType /\ FlowOK
  BY DEF TypeOK
<1>3. m \in Message
  BY <1>1, <1>2, StatusMessage DEF FlowOK
<1> HIDE DEF m
<1>4. DeviceType' /\ faults' \in Nat /\ calm' \in 0 .. CalmMax /\ unsure' \in SUBSET Slots
  <2>1. CASE UNCHANGED <<deviceVars, faults, calm, unsure, sent>>
    BY <1>2, <2>1, SameDevice DEF deviceVars, DeviceType, ClockType, SpoolType
  <2>2. CASE (Delivered(m) /\ UNCHANGED unsure) \/ Fails(m)
    <3>1. (Delivered(m) /\ unsure' \in SUBSET Slots) \/ Fails(m)
      BY <1>2, <2>2 DEF ClockType
    <3> QED
      BY <1>2, <1>3, <3>1, CallType
  <2> QED
    BY <1>1, <2>1, <2>2
<1>5. sent' \in [Slots -> Sent \cup {None}] /\ waiting' \in Waiting \cup {None}
  BY <1>1, <1>2, ForgetType DEF DaemonType
<1>6. DaemonType' /\ FlowOK'
  BY <1>1, <1>2, <1>5 DEF DaemonType, FlowOK
<1>7. SpoolType'
  BY <1>1, <1>2, <1>4, SpoolSame DEF spoolVars, spoolPast
<1>8. ClockType'
  BY <1>1, <1>2, <1>4 DEF ClockType
<1> QED
  BY <1>4, <1>6, <1>7, <1>8 DEF TypeOK

LEMMA MakePlanType == TypeOK /\ MakePlan => TypeOK'
<1> SUFFICES ASSUME TypeOK, MakePlan PROVE TypeOK'
  OBVIOUS
<1> DEFINE kept == [i \in Slots |-> IF plan[i] # None /\ Live(plan[i]) THEN plan[i] ELSE None]
           Lived(l) == [c \in Contents |->
                          IF life[c] # None \/ \A i \in Slots : plan'[i] # c THEN life[c]
                          ELSE IF l = Forever THEN [left |-> 0, bounded |-> FALSE]
                          ELSE [left |-> l - lag, bounded |-> TRUE]]
<1>1. /\ pc = "plan" /\ pc' = "slots" /\ todo' = [i \in Slots |-> i]
      /\ UNCHANGED <<alive, lag, ran, sent, imageAge, queue, waiting, mode, deviceVars>>
      /\ UNCHANGED <<spoolVars, faults, budget, dead, unsure, spoolPast>>
      /\ calm' = IF plan' = plan THEN calm ELSE 0
      /\ \/ plan' = kept /\ UNCHANGED life
         \/ plan' \in Plans \ {kept} /\ \E l \in budget.lives : life' = Lived(l)
  BY DEF MakePlan
<1>2. DaemonType /\ DeviceType /\ SpoolType /\ ClockType /\ FlowOK
  BY DEF TypeOK
<1>3. budget.contents \subseteq Contents /\ budget.lives \subseteq Nat
  BY <1>2, SlotSyncAssumption DEF SpoolType, Contents
<1>4. /\ plan' \in [Slots -> Contents \cup {None}]
      /\ life' \in [Contents -> Life \cup {None}]
      /\ \A i \in Slots : plan'[i] # None => life'[plan'[i]] # None
  <2>1. CASE plan' = kept /\ UNCHANGED life
    BY <1>2, <2>1 DEF DaemonType, FlowOK
  <2>2. CASE plan' \in Plans \ {kept} /\ \E l \in budget.lives : life' = Lived(l)
    <3>1. plan' \in [Slots -> Contents \cup {None}]
      BY <1>3, <2>2 DEF Plans
    <3>2. PICK l \in Nat : life' = Lived(l)
      BY <1>3, <2>2
    <3>3. /\ [left |-> 0, bounded |-> FALSE] \in Life /\ [left |-> l - lag, bounded |-> TRUE] \in Life
          /\ life \in [Contents -> Life \cup {None}]
      BY <1>2, SlotSyncAssumption DEF Life, DaemonType
    <3>4. life' \in [Contents -> Life \cup {None}]
      BY <3>2, <3>3
    <3>5. \A i \in Slots : plan'[i] # None => life'[plan'[i]] # None
      BY <3>1, <3>2, <3>3, NoneAssumption
    <3> QED
      BY <3>1, <3>4, <3>5
  <2> QED
    BY <1>1, <2>1, <2>2
<1> HIDE DEF kept, Lived
<1>5. todo' \in Seq(Slots) /\ todo' # <<>>
  <2> DEFINE n == Cardinality(Slots)
  <2>1. Slots = 1 .. n /\ n \in Nat \ {0}
    BY SlotSyncAssumption, OverlaySlot
  <2> HIDE DEF n
  <2>2. [i \in 1 .. n |-> i] \in Seq(1 .. n) /\ Len([i \in 1 .. n |-> i]) = n
    BY <2>1
  <2>3. [i \in 1 .. n |-> i] # <<>>
    BY <2>1, <2>2
  <2> QED
    BY <1>1, <2>1, <2>2, <2>3
<1>6. queue = <<>>
  BY <1>1, <1>2 DEF FlowOK
<1>7. DaemonType'
  BY <1>1, <1>2, <1>4, <1>5 DEF DaemonType
<1>8. FlowOK'
  BY <1>1, <1>2, <1>4, <1>5, <1>6 DEF FlowOK
<1>9. DeviceType'
  BY <1>1, <1>2, SameDevice DEF DeviceType, deviceVars
<1>10. SpoolType'
  BY <1>1, <1>2, SpoolSame DEF spoolVars, spoolPast, SpoolType
<1>11. ClockType'
  BY <1>1, <1>2, SlotSyncAssumption DEF ClockType, CalmMax
<1> QED
  BY <1>7, <1>8, <1>9, <1>10, <1>11 DEF TypeOK

\* What sync_slots sends for a slot are messages about slots.
LEMMA MessagesType ==
  ASSUME NEW i \in Slots, NEW c \in Contents, life[c] \in Life, lag \in Int
  PROVE  Messages(i, c) \in Seq(SlotMessage) /\ Messages(i, c) # <<>>
<1> DEFINE begin == [kind |-> "begin", src |-> c, ttl |-> DeviceTtl(c)]
           rows1 == [kind |-> "rows", src |-> c, row |-> 1]
           rows2 == [kind |-> "rows", src |-> c, row |-> 2]
           end == [kind |-> "end", src |-> c]
           show == [kind |-> "show", slot |-> i, src |-> c, ttl |-> DeviceTtl(c)]
<1>1. DeviceTtl(c) \in Ttls
  BY DeviceTtlRange
<1>2. CASE c \in Images
  <2>1. begin \in SlotMessage /\ rows1 \in SlotMessage /\ rows2 \in SlotMessage
        /\ end \in SlotMessage
    BY <1>1, <1>2 DEF SlotMessage
  <2>2. Messages(i, c) = <<begin, rows1, rows2, end>>
    BY <1>2 DEF Messages
  <2> HIDE DEF begin, rows1, rows2, end
  <2> QED
    BY <2>1, <2>2
<1>3. CASE c \notin Images
  <2>1. show \in SlotMessage
    BY <1>1, <1>3 DEF SlotMessage
  <2>2. Messages(i, c) = <<show>>
    BY <1>3 DEF Messages
  <2> HIDE DEF show
  <2> QED
    BY <2>1, <2>2
<1> QED
  BY <1>2, <1>3

\* Going on to the next slot ends the turn after the last one.
LEMMA NextSlotType ==
  ASSUME DaemonType, todo # <<>>, NextSlot
  PROVE  /\ todo' \in Seq(Slots) /\ queue' = <<>>
         /\ pc' \in {"idle", "slots"} /\ (pc' = "slots" <=> todo' # <<>>)
         /\ lag' \in 0 .. MaxLag /\ ran' \in BOOLEAN
<1>1. Tail(todo) \in Seq(Slots)
  BY DEF DaemonType
<1> QED
  BY <1>1, SlotSyncAssumption DEF NextSlot, DaemonType

LEMMA KeepSlotType == TypeOK /\ KeepSlot => TypeOK'
<1> SUFFICES ASSUME TypeOK, KeepSlot PROVE TypeOK'
  OBVIOUS
<1>1. /\ pc = "slots" /\ NextSlot
      /\ sent' = sent \/ sent' = [sent EXCEPT ![Head(todo)] = None]
      /\ UNCHANGED <<alive, plan, life, imageAge, waiting, mode, deviceVars, spoolVars>>
      /\ UNCHANGED <<faults, budget, history>>
  BY DEF KeepSlot
<1>2. DaemonType /\ DeviceType /\ SpoolType /\ ClockType /\ FlowOK
  BY DEF TypeOK
<1>3. /\ todo' \in Seq(Slots) /\ queue' = <<>>
      /\ pc' \in {"idle", "slots"} /\ (pc' = "slots" <=> todo' # <<>>)
      /\ lag' \in 0 .. MaxLag /\ ran' \in BOOLEAN
  BY <1>1, <1>2, NextSlotType DEF FlowOK
<1>4. sent' \in [Slots -> Sent \cup {None}]
  BY <1>1, <1>2 DEF DaemonType
<1>5. queue' \in Seq(SlotMessage)
  BY <1>3
<1>6. DaemonType'
  BY <1>1, <1>2, <1>3, <1>4, <1>5 DEF DaemonType
<1>7. FlowOK'
  BY <1>1, <1>2, <1>3 DEF FlowOK
<1>8. DeviceType'
  BY <1>1, <1>2, SameDevice DEF DeviceType, deviceVars
<1>9. SpoolType'
  BY <1>1, <1>2, SpoolSame DEF spoolVars, spoolPast, SpoolType, history
<1>10. ClockType'
  BY <1>1, <1>2 DEF ClockType, history
<1> QED
  BY <1>6, <1>7, <1>8, <1>9, <1>10 DEF TypeOK

LEMMA SyncSlotType == TypeOK /\ SyncSlot => TypeOK'
<1> SUFFICES ASSUME TypeOK, SyncSlot PROVE TypeOK'
  OBVIOUS
<1> DEFINE i == Head(todo)
<1>1. /\ pc = "slots"
      /\ \/ plan[i] # None /\ queue' = Messages(i, plan[i])
         \/ queue' = <<[kind |-> "clear", slot |-> i]>>
      /\ UNCHANGED <<alive, pc, lag, ran, plan, life, sent, imageAge, todo, waiting, mode>>
      /\ UNCHANGED <<deviceVars, spoolVars, faults, budget, history>>
  BY DEF SyncSlot
<1>2. DaemonType /\ DeviceType /\ SpoolType /\ ClockType /\ FlowOK
  BY DEF TypeOK
<1>3. i \in Slots
  BY <1>1, <1>2 DEF DaemonType, FlowOK
<1>4. queue' \in Seq(SlotMessage)
  <2>1. CASE plan[i] # None /\ queue' = Messages(i, plan[i])
    <3>1. plan[i] \in Contents /\ life[plan[i]] # None /\ lag \in Int
      BY <1>2, <1>3, <2>1 DEF DaemonType, FlowOK
    <3>2. life[plan[i]] \in Life
      BY <1>2, <3>1 DEF DaemonType
    <3> HIDE DEF i
    <3> QED
      BY <1>3, <2>1, <3>1, <3>2, MessagesType
  <2>2. CASE queue' = <<[kind |-> "clear", slot |-> i]>>
    <3> DEFINE m == [kind |-> "clear", slot |-> i]
    <3>1. m \in SlotMessage
      BY <1>3 DEF SlotMessage
    <3>2. queue' = <<m>>
      BY <2>2
    <3> HIDE DEF m
    <3> QED
      BY <3>1, <3>2
  <2> QED
    BY <1>1, <2>1, <2>2
<1> HIDE DEF i
<1>5. DaemonType'
  BY <1>1, <1>2, <1>4 DEF DaemonType
<1>6. FlowOK'
  BY <1>1, <1>2 DEF FlowOK
<1>7. DeviceType'
  BY <1>1, <1>2, SameDevice DEF DeviceType, deviceVars
<1>8. SpoolType'
  BY <1>1, <1>2, SpoolSame DEF spoolVars, spoolPast, SpoolType, history
<1>9. ClockType'
  BY <1>1, <1>2 DEF ClockType, history
<1> QED
  BY <1>5, <1>6, <1>7, <1>8, <1>9 DEF TypeOK

\* A step that sends a message of the slot at hand.
LEMMA SendFacts ==
  ASSUME TypeOK, SendMessage
  PROVE  /\ Head(todo) \in Slots /\ Head(queue) \in SlotMessage /\ Head(queue) \in Message
         /\ todo # <<>> /\ queue # <<>> /\ Tail(queue) \in Seq(SlotMessage)
         /\ plan[Head(todo)] # None => DeviceTtl(plan[Head(todo)]) \in Ttls
         /\ (Len(queue) = 1) <=> (Tail(queue) = <<>>)
<1>1. DaemonType /\ FlowOK /\ pc = "slots" /\ queue # <<>>
  BY DEF TypeOK, SendMessage
<1>2. Head(todo) \in Slots /\ todo # <<>> /\ Head(queue) \in SlotMessage
      /\ Tail(queue) \in Seq(SlotMessage)
  BY <1>1 DEF DaemonType, FlowOK
<1>3. ASSUME plan[Head(todo)] # None PROVE DeviceTtl(plan[Head(todo)]) \in Ttls
  <2>1. plan[Head(todo)] \in Contents /\ life[plan[Head(todo)]] # None /\ lag \in Int
    BY <1>1, <1>2, <1>3 DEF DaemonType, FlowOK
  <2>2. life[plan[Head(todo)]] \in Life
    BY <1>1, <2>1 DEF DaemonType
  <2> QED
    BY <2>1, <2>2, DeviceTtlRange
<1>4. (Len(queue) = 1) <=> (Tail(queue) = <<>>)
  <2> DEFINE rest == Tail(queue)
  <2>1. Len(rest) = Len(queue) - 1 /\ Len(queue) \in Nat
    BY <1>1 DEF DaemonType
  <2>2. rest \in Seq(SlotMessage)
    BY <1>2
  <2> HIDE DEF rest
  <2>3. (rest = <<>>) <=> (Len(rest) = 0)
    BY <2>2, EmptySeq
  <2>4. (Len(queue) = 1) <=> (rest = <<>>)
    BY <2>1, <2>3
  <2> QED
    BY <2>4 DEF rest
<1> QED
  BY <1>1, <1>2, <1>3, <1>4 DEF Message

LEMMA SendMessageType == TypeOK /\ SendMessage => TypeOK'
<1> SUFFICES ASSUME TypeOK, SendMessage PROVE TypeOK'
  OBVIOUS
<1> DEFINE i == Head(todo)
           m == Head(queue)
           ttl == DeviceTtl(plan[i])
           entry == IF plan[i] = None THEN None
                    ELSE [src |-> plan[i], age |-> lag, left |-> ttl - lag]
<1>1. /\ pc = "slots" /\ queue # <<>>
      /\ UNCHANGED <<alive, plan, life, waiting, mode, spoolVars, budget, dead, spoolPast>>
      /\ \/ /\ Delivered(m)
            /\ unsure' = unsure \/ unsure' = unsure \ {i}
            /\ sent' = Forget \/ sent' = [Forget EXCEPT ![i] = entry]
            /\ imageAge' = lag \/ imageAge' = imageAge
            /\ \/ Len(queue) = 1 /\ NextSlot
               \/ Len(queue) # 1 /\ queue' = Tail(queue) /\ UNCHANGED <<todo, pc, lag, ran>>
         \/ Fails(m) /\ NextSlot /\ UNCHANGED <<sent, imageAge>>
  BY DEF SendMessage
<1>2. DaemonType /\ DeviceType /\ SpoolType /\ ClockType /\ FlowOK
  BY DEF TypeOK
<1>3. /\ i \in Slots /\ m \in Message /\ todo # <<>> /\ Tail(queue) \in Seq(SlotMessage)
      /\ plan[i] # None => ttl \in Ttls
      /\ (Len(queue) = 1) <=> (Tail(queue) = <<>>)
  BY SendFacts
<1>4. entry \in Sent \cup {None}
  <2>1. lag \in Int /\ plan[i] \in Contents \cup {None} /\ (plan[i] # None => ttl \in Int)
    BY <1>2, <1>3 DEF DaemonType, Ttls
  <2> HIDE DEF ttl
  <2> QED
    BY <2>1 DEF Sent
<1> HIDE DEF i, m, ttl, entry
<1>5. DeviceType' /\ faults' \in Nat /\ calm' \in 0 .. CalmMax /\ unsure' \in SUBSET Slots
  <2>1. (Delivered(m) /\ unsure' \in SUBSET Slots) \/ Fails(m)
    BY <1>1, <1>2 DEF ClockType
  <2> QED
    BY <1>2, <1>3, <2>1, CallType
<1>6. /\ sent' \in [Slots -> Sent \cup {None}]
      /\ imageAge' \in Nat
  BY <1>1, <1>2, <1>3, <1>4, ForgetType DEF DaemonType
<1>7. /\ todo' \in Seq(Slots) /\ queue' \in Seq(SlotMessage)
      /\ pc' \in {"idle", "slots"} /\ (pc' = "slots" <=> todo' # <<>>)
      /\ queue' # <<>> => pc' = "slots"
      /\ lag' \in 0 .. MaxLag /\ ran' \in BOOLEAN
  <2>1. CASE NextSlot
    <3>1. /\ todo' \in Seq(Slots) /\ queue' = <<>>
          /\ pc' \in {"idle", "slots"} /\ (pc' = "slots" <=> todo' # <<>>)
          /\ lag' \in 0 .. MaxLag /\ ran' \in BOOLEAN
      BY <1>2, <1>3, <2>1, NextSlotType
    <3> QED
      BY <3>1
  <2>2. CASE queue' = Tail(queue) /\ UNCHANGED <<todo, pc, lag, ran>>
    BY <1>1, <1>2, <1>3, <2>2 DEF DaemonType, FlowOK
  <2> QED
    BY <1>1, <2>1, <2>2
<1>8. DaemonType'
  BY <1>1, <1>2, <1>6, <1>7 DEF DaemonType
<1>9. FlowOK'
  BY <1>1, <1>2, <1>7 DEF FlowOK
<1>10. SpoolType'
  BY <1>1, <1>2, <1>5, SpoolSame DEF spoolVars, spoolPast
<1>11. ClockType'
  BY <1>1, <1>2, <1>5 DEF ClockType
<1> QED
  BY <1>5, <1>8, <1>9, <1>10, <1>11 DEF TypeOK

\* A tick takes one from what is left, down to a bound below zero.
LEMMA OlderType ==
  /\ \A e \in Life : Older(e) \in Life
  /\ \A e \in Sent : Older(e) \in Sent
  /\ \A e \in Waiting : Older(e) \in Waiting
  /\ \A e \in Shown : Expired(e) \in Shown \cup {None}
  /\ \A e \in Presence : Expired(e) \in Presence \cup {None}
  /\ Expired(None) = None
<1>1. MaxLag \in Nat
  BY SlotSyncAssumption
<1>2. \A n \in Int : AtLeast(n - 1, -MaxLag) \in Int
  BY <1>1 DEF AtLeast
<1>3. \A n \in Nat \ {0, 1} : AtLeast(n - 1, -MaxLag) = n - 1
  BY <1>1 DEF AtLeast
<1>4. \A e \in Life : Older(e) \in Life
  BY <1>2 DEF Older, Life
<1>5. \A e \in Sent : Older(e) \in Sent
  BY <1>2 DEF Older, Sent
<1>6. \A e \in Waiting : Older(e) \in Waiting
  BY <1>2 DEF Older, Waiting
<1>7. ASSUME NEW e \in Shown PROVE Expired(e) \in Shown \cup {None}
  <2>1. e.left \in Nat \ {0} /\ e.left \in Ttls /\ e # None
    BY NoneAssumption DEF Shown, Ttls
  <2>2. CASE e.left = 1
    BY <2>1, <2>2 DEF Expired, Forever
  <2>3. CASE e.left # 1
    <3>1. Expired(e) = [e EXCEPT !.left = AtLeast(e.left - 1, -MaxLag)]
      BY <2>1, <2>3 DEF Expired, Older, Forever, Shown
    <3>2. AtLeast(e.left - 1, -MaxLag) = e.left - 1
      BY <1>3, <2>1, <2>3
    <3>3. e.left - 1 \in Ttls
      BY <2>1, <2>3, SlotSyncAssumption DEF Ttls
    <3> QED
      BY <3>1, <3>2, <3>3 DEF Shown
  <2> QED
    BY <2>2, <2>3
<1>8. ASSUME NEW e \in Presence PROVE Expired(e) \in Presence \cup {None}
  <2>1. e.left \in Nat
    BY DEF Presence
  <2>2. CASE e.left \in {0, 1}
    BY <2>1, <2>2 DEF Expired, Forever
  <2>3. CASE e.left \notin {0, 1}
    <3>1. Expired(e) = [e EXCEPT !.left = AtLeast(e.left - 1, -MaxLag)]
      BY <2>1, <2>3, NoneAssumption DEF Expired, Older, Forever, Presence
    <3>2. AtLeast(e.left - 1, -MaxLag) = e.left - 1
      BY <1>3, <2>1, <2>3
    <3> QED
      BY <2>1, <2>3, <3>1, <3>2 DEF Presence
  <2> QED
    BY <2>2, <2>3
<1> QED
  BY <1>4, <1>5, <1>6, <1>7, <1>8 DEF Expired

LEMMA TickType == TypeOK /\ Tick => TypeOK'
<1> SUFFICES ASSUME TypeOK, Tick PROVE TypeOK'
  OBVIOUS
<1>1. DaemonType /\ DeviceType /\ SpoolType /\ ClockType /\ FlowOK
  BY DEF TypeOK
<1>2. /\ UNCHANGED <<alive, pc, plan, todo, queue, mode, pixels, incoming, input, reset, late>>
      /\ UNCHANGED <<spoolVars, faults, budget, unsure, done, before, stuck>>
  BY DEF Tick
<1>3. lag' \in 0 .. MaxLag /\ ran' \in BOOLEAN
  <2>1. lag' = (IF alive /\ pc # "idle" THEN lag + 1 ELSE 0)
        /\ ran' = (ran /\ pc # "idle")
        /\ (alive /\ pc # "idle" => lag < MaxLag)
    BY DEF Tick
  <2>2. lag \in 0 .. MaxLag /\ MaxLag \in Nat
    BY <1>1, SlotSyncAssumption DEF DaemonType
  <2> QED
    BY <2>1, <2>2
<1>4. life' \in [Contents -> Life \cup {None}]
  <2>1. life' = [c \in Contents |-> IF life[c] = None \/ ~life[c].bounded THEN life[c]
                                    ELSE Older(life[c])]
    BY DEF Tick
  <2>2. \A c \in Contents : life[c] \in Life \cup {None}
    BY <1>1 DEF DaemonType
  <2> QED
    BY <2>1, <2>2, OlderType
<1>5. \A c \in Contents : life[c] # None => life'[c] # None
  <2>1. life' = [c \in Contents |-> IF life[c] = None \/ ~life[c].bounded THEN life[c]
                                    ELSE Older(life[c])]
    BY DEF Tick
  <2>2. \A c \in Contents : life[c] # None => Older(life[c]) \in Life
    BY <1>1, OlderType DEF DaemonType
  <2> QED
    BY <2>1, <2>2, NoneAssumption
<1>6. sent' \in [Slots -> Sent \cup {None}]
  <2>1. sent' = [i \in Slots |->
                   IF sent[i] = None THEN None
                   ELSE [Older(sent[i]) EXCEPT !.age = AtMost(@ + 1, Refresh + MaxLag)]]
    BY DEF Tick
  <2>2. \A e \in Sent : [e EXCEPT !.age = AtMost(e.age + 1, Refresh + MaxLag)] \in Sent
    BY SlotSyncAssumption DEF Sent, AtMost
  <2>3. \A i \in Slots : sent[i] # None => Older(sent[i]) \in Sent
    BY <1>1, OlderType DEF DaemonType
  <2> DEFINE Entry(i) == [Older(sent[i]) EXCEPT !.age = AtMost(@ + 1, Refresh + MaxLag)]
  <2>4. \A i \in Slots : sent[i] # None => Entry(i) \in Sent
    BY <2>2, <2>3
  <2>5. sent' = [i \in Slots |-> IF sent[i] = None THEN None ELSE Entry(i)]
    BY <2>1
  <2> HIDE DEF Entry
  <2>6. \A i \in Slots : (IF sent[i] = None THEN None ELSE Entry(i)) \in Sent \cup {None}
    BY <2>4
  <2> QED
    BY <2>5, <2>6
<1>7. imageAge' \in Nat
  <2>1. imageAge' = AtMost(imageAge + 1, ImageGap + MaxLag)
    BY DEF Tick
  <2>2. imageAge \in Nat
    BY <1>1 DEF DaemonType
  <2> QED
    BY <2>1, <2>2, SlotSyncAssumption DEF AtMost
<1>8. waiting' \in Waiting \cup {None} /\ (waiting # None => waiting' # None)
  <2>1. waiting' = IF waiting = None THEN None ELSE Older(waiting)
    BY DEF Tick
  <2>2. waiting # None => Older(waiting) \in Waiting
    BY <1>1, OlderType DEF DaemonType
  <2> QED
    BY <2>1, <2>2, NoneAssumption
<1>9. DaemonType'
  BY <1>1, <1>2, <1>3, <1>4, <1>6, <1>7, <1>8 DEF DaemonType
<1>10. FlowOK'
  <2>1. \A i \in Slots : plan[i] # None => life'[plan[i]] # None
    BY <1>1, <1>5 DEF FlowOK, DaemonType
  <2> QED
    BY <1>1, <1>2, <1>8, <2>1 DEF FlowOK
<1>11. DeviceType'
  <2>1. /\ screen \in [Slots -> Shown \cup {None}] /\ presence \in Presence \cup {None}
        /\ pixels \in [{1, 2} -> Contents \cup {None}] /\ incoming \in Transfer \cup {None}
        /\ input \in Nat /\ reset \in BOOLEAN /\ late \in Message \cup {None}
    BY <1>1 DEF DeviceType, Device, DeviceState
  <2>2. screen' = [i \in Slots |-> Expired(screen[i])] /\ presence' = Expired(presence)
    BY DEF Tick
  <2>3. screen' \in [Slots -> Shown \cup {None}] /\ presence' \in Presence \cup {None}
    BY <2>1, <2>2, OlderType
  <2> QED
    BY <1>2, <2>1, <2>3 DEF DeviceType, Device, DeviceState
<1>12. SpoolType'
  <2>1. due' \in [Requests -> Int]
    BY <1>1, SlotSyncAssumption DEF Tick, SpoolType
  <2> QED
    BY <1>1, <1>2, <2>1 DEF SpoolType, spoolVars, Requests
<1>13. ClockType'
  <2>1. calm' = AtMost(calm + 1, CalmMax)
        /\ dead' = IF alive THEN 0 ELSE AtMost(dead + 1, CalmMax)
    BY DEF Tick
  <2>2. CalmMax \in Nat
    BY SlotSyncAssumption DEF CalmMax
  <2> QED
    BY <1>1, <1>2, <2>1, <2>2 DEF ClockType, AtMost
<1> QED
  BY <1>9, <1>10, <1>11, <1>12, <1>13 DEF TypeOK

LEMMA LateRequestType == TypeOK /\ LateRequest => TypeOK'
<1> SUFFICES ASSUME TypeOK, LateRequest PROVE TypeOK'
  OBVIOUS
<1>1. DaemonType /\ DeviceType /\ SpoolType /\ ClockType /\ FlowOK
  BY DEF TypeOK
<1>2. /\ late # None /\ late' = None /\ calm' = 0
      /\ Become(Device) \/ Become(Handled(Device, late))
      /\ UNCHANGED <<daemonVars, reset, spoolVars, faults, budget, dead, unsure, spoolPast>>
  BY DEF LateRequest
<1>3. DeviceType'
  <2>1. Device \in DeviceState /\ late \in Message
    BY <1>1, <1>2 DEF DeviceType
  <2>2. Handled(Device, late) \in DeviceState
    BY <2>1, HandledType
  <2>3. Device' \in DeviceState
    BY <1>2, <2>1, <2>2, Becomes
  <2> QED
    BY <1>1, <1>2, <2>3 DEF DeviceType
<1>4. DaemonType' /\ FlowOK'
  BY <1>1, <1>2 DEF DaemonType, FlowOK, daemonVars
<1>5. SpoolType'
  BY <1>1, <1>2, SpoolSame DEF spoolVars, spoolPast, SpoolType
<1>6. ClockType'
  BY <1>1, <1>2, SlotSyncAssumption DEF ClockType, CalmMax
<1> QED
  BY <1>3, <1>4, <1>5, <1>6 DEF TypeOK

\* A device that has just started shows nothing.
LEMMA BlankType == Blank \in DeviceState
<1> DEFINE pair == <<None, None>>
<1>1. pair \in [{1, 2} -> Contents \cup {None}]
  OBVIOUS
<1> HIDE DEF pair
<1>2. [screen |-> [i \in Slots |-> None], pixels |-> pair, incoming |-> None,
       presence |-> None, input |-> 0] \in DeviceState
  BY <1>1 DEF DeviceState
<1> QED
  BY <1>2 DEF Blank, pair

LEMMA RestartType == TypeOK /\ Restart => TypeOK'
<1> SUFFICES ASSUME TypeOK, Restart PROVE TypeOK'
  OBVIOUS
<1>1. DaemonType /\ DeviceType /\ SpoolType /\ ClockType /\ FlowOK
  BY DEF TypeOK
<1>2. /\ faults' = faults + 1 /\ Become(Blank) /\ late' = None /\ reset' \in {TRUE, reset}
      /\ unsure' = (IF reset' THEN unsure ELSE Slots) /\ calm' = 0
      /\ UNCHANGED <<daemonVars, spoolVars, budget, dead, spoolPast>>
  BY DEF Restart
<1>3. DeviceType'
  BY <1>1, <1>2, BlankType, Becomes DEF DeviceType
<1>4. DaemonType' /\ FlowOK'
  BY <1>1, <1>2 DEF DaemonType, FlowOK, daemonVars
<1>5. SpoolType'
  BY <1>1, <1>2, SpoolSame DEF spoolVars, spoolPast, SpoolType
<1>6. ClockType'
  BY <1>1, <1>2, SlotSyncAssumption DEF ClockType, CalmMax
<1> QED
  BY <1>3, <1>4, <1>5, <1>6 DEF TypeOK

LEMMA DaemonDiesType == TypeOK /\ DaemonDies => TypeOK'
<1> SUFFICES ASSUME TypeOK, DaemonDies PROVE TypeOK'
  OBVIOUS
<1>1. DaemonType /\ DeviceType /\ SpoolType /\ ClockType /\ FlowOK
  BY DEF TypeOK
<1>2. /\ faults' = faults + 1 /\ calm' = 0 /\ dead' = 0
      /\ UNCHANGED <<deviceVars, spoolVars, budget, unsure, spoolPast>>
      /\ alive' = FALSE /\ pc' = "idle" /\ lag' = 0 /\ ran' = FALSE
      /\ plan' = [i \in Slots |-> None] /\ sent' = plan'
      /\ life' = [c \in Contents |->
                    IF life[c] = None THEN None ELSE [left |-> -MaxLag, bounded |-> TRUE]]
      /\ imageAge' = ImageGap + MaxLag /\ todo' = <<>> /\ queue' = <<>>
      /\ waiting' = None /\ mode' = 0
  BY DEF DaemonDies
<1>3. MaxLag \in Nat /\ ImageGap \in Nat /\ 0 \in 0 .. CalmMax
  BY SlotSyncAssumption DEF CalmMax
<1>4. DaemonType'
  <2>1. [left |-> -MaxLag, bounded |-> TRUE] \in Life
    BY <1>3 DEF Life
  <2>2. life' \in [Contents -> Life \cup {None}]
    BY <1>2, <2>1
  <2>3. plan' \in [Slots -> Contents \cup {None}] /\ sent' \in [Slots -> Sent \cup {None}]
    BY <1>2
  <2>4. todo' \in Seq(Slots) /\ queue' \in Seq(SlotMessage)
    BY <1>2
  <2>5. /\ alive' \in BOOLEAN /\ pc' \in {"idle", "input", "status", "plan", "slots"}
        /\ lag' \in 0 .. MaxLag /\ ran' \in BOOLEAN /\ imageAge' \in Nat
        /\ waiting' \in Waiting \cup {None} /\ mode' \in Nat
    <3>1. ImageGap + MaxLag \in Nat /\ 0 \in 0 .. MaxLag
      BY <1>3
    <3> QED
      BY <1>2, <3>1
  <2> QED
    BY <2>2, <2>3, <2>4, <2>5 DEF DaemonType
<1>5. FlowOK'
  BY <1>2 DEF FlowOK
<1>6. DeviceType'
  BY <1>1, <1>2, SameDevice DEF DeviceType, deviceVars
<1>7. SpoolType'
  BY <1>1, <1>2, SpoolSame DEF spoolVars, spoolPast, SpoolType
<1>8. ClockType'
  BY <1>1, <1>2, <1>3 DEF ClockType
<1> QED
  BY <1>4, <1>5, <1>6, <1>7, <1>8 DEF TypeOK

LEMMA DaemonStartsType == TypeOK /\ DaemonStarts => TypeOK'
<1> SUFFICES ASSUME TypeOK, DaemonStarts PROVE TypeOK'
  OBVIOUS
<1>1. DaemonType /\ DeviceType /\ SpoolType /\ ClockType /\ FlowOK
  BY DEF TypeOK
<1>2. /\ ~alive /\ alive' = TRUE /\ reset' = TRUE /\ calm' = 0 /\ dead' = 0
      /\ UNCHANGED <<pc, lag, ran, plan, life, sent, imageAge, todo, queue, waiting, mode>>
      /\ UNCHANGED <<screen, pixels, incoming, presence, input, late, spoolVars, faults, budget>>
      /\ UNCHANGED <<unsure, spoolPast>>
  BY DEF DaemonStarts
<1>3. DaemonType' /\ FlowOK'
  BY <1>1, <1>2 DEF DaemonType, FlowOK
<1>4. DeviceType'
  BY <1>1, <1>2, SameDevice DEF DeviceType
<1>5. SpoolType'
  BY <1>1, <1>2, SpoolSame DEF spoolVars, spoolPast, SpoolType
<1>6. ClockType'
  BY <1>1, <1>2, SlotSyncAssumption DEF ClockType, CalmMax
<1> QED
  BY <1>3, <1>4, <1>5, <1>6 DEF TypeOK

\* The state keeps its types: whatever fails, no deadline on the device leaves the range
\* that device_ttl gives it, and no message is sent for a slot that has none.
THEOREM TypeCorrect == Spec => []TypeOK
<1>1. Init => TypeOK
  <2> SUFFICES ASSUME Init PROVE TypeOK
    OBVIOUS
  <2>1. MaxLag \in Nat /\ ImageGap \in Nat /\ CalmMax \in Nat /\ budget.requests \in Nat
    BY SlotSyncAssumption DEF CalmMax, Init
  <2>2. todo = <<>> /\ todo \in Seq(Slots) /\ queue = <<>> /\ queue \in Seq(SlotMessage)
        /\ done \in Seq(Requests)
    BY DEF Init
  <2>3. Device = Blank
    BY DEF Init, Device, Blank
  <2>4. DaemonType
    <3>1. plan \in [Slots -> Contents \cup {None}] /\ sent \in [Slots -> Sent \cup {None}]
          /\ life \in [Contents -> Life \cup {None}]
      BY DEF Init
    <3>2. /\ alive \in BOOLEAN /\ pc \in {"idle", "input", "status", "plan", "slots"}
          /\ lag \in 0 .. MaxLag /\ ran \in BOOLEAN /\ imageAge \in Nat
          /\ waiting \in Waiting \cup {None} /\ mode \in Nat
      <4>1. ImageGap + MaxLag \in Nat /\ 0 \in 0 .. MaxLag
        BY <2>1
      <4> QED
        BY <4>1 DEF Init
    <3> QED
      BY <2>2, <3>1, <3>2 DEF DaemonType
  <2>8. FlowOK
    BY <2>2 DEF Init, FlowOK
  <2>5. DeviceType
    BY <2>3, BlankType DEF Init, DeviceType
  <2>6. SpoolType
    BY <2>1, <2>2 DEF Init, SpoolType
  <2>7. ClockType
    BY <2>1 DEF Init, ClockType
  <2> QED
    BY <2>4, <2>5, <2>6, <2>7, <2>8 DEF TypeOK
<1>2. TypeOK /\ [Next]_vars => TypeOK'
  <2> SUFFICES ASSUME TypeOK, [Next]_vars PROVE TypeOK'
    OBVIOUS
  <2>1. CASE UNCHANGED vars
    <3>1. /\ UNCHANGED <<daemonVars, deviceVars, spoolVars, faults, budget>>
          /\ UNCHANGED <<calm, dead, unsure, spoolPast>>
      BY <2>1 DEF vars, history
    <3>2. DaemonType' /\ FlowOK' /\ ClockType'
      BY <3>1 DEF TypeOK, DaemonType, FlowOK, ClockType, daemonVars
    <3>3. DeviceType'
      BY <3>1, SameDevice DEF TypeOK, DeviceType, deviceVars
    <3>4. SpoolType'
      BY <3>1, SpoolSame DEF TypeOK, SpoolType, spoolVars, spoolPast
    <3> QED
      BY <3>2, <3>3, <3>4 DEF TypeOK
  <2> QED
    BY <2>1, WriteType, RenameType, BeginTurnType, FlushInputType, FlushStatusType,
       MakePlanType, KeepSlotType, SyncSlotType, SendMessageType, TickType,
       LateRequestType, RestartType, DaemonDiesType, DaemonStartsType DEF Next, Turn
<1> QED
  BY <1>1, <1>2, PTL DEF Spec

-----------------------------------------------------------------------------
(* The spool: at most once, and in order.                                  *)

\* The files are written in the order of their numbers; what a request finds complete is
\* older than itself and stays complete; and what was left behind when it was carried
\* out, though complete before it, could not be removed.
SpoolOrder ==
  /\ \A q, r \in Requests : q < r /\ files[r] # "none" => files[q] # "none"
  /\ \A r \in Requests : \A q \in before[r] : q < r /\ files[q] \in {"ready", "gone"}
  /\ \A r \in Requests : files[r] = "none" => before[r] = {}
  /\ \A i \in 1 .. Len(done) : files[done[i]] = "gone"
  /\ \A r \in Requests : files[r] = "gone" =>
       \A q \in before[r] : files[q] = "gone" \/ q \in stuck

\* Both are inductive together.
LEMMA SpoolStep ==
  ASSUME TypeOK, SpoolOrder, RequestsInOrder, Next
  PROVE  SpoolOrder' /\ RequestsInOrder'
<1>1. SpoolType
  BY DEF TypeOK
<1>2. /\ Requests \in SUBSET Nat
      /\ files \in [Requests -> {"none", "temporary", "ready", "gone"}]
      /\ before \in [Requests -> SUBSET Requests] /\ done \in Seq(Requests)
      /\ stuck \in SUBSET Requests
  BY <1>1, RequestNumbers DEF SpoolType
<1>3. CASE UNCHANGED <<budget, files, done, before, stuck>>
  BY <1>3 DEF SpoolOrder, RequestsInOrder, Requests
<1>4. CASE WriteTemporary
  <2>1. /\ UNCHANGED <<budget, done, stuck>> /\ Requests' = Requests
    BY <1>4 DEF WriteTemporary, Requests
  <2>2. PICK r \in Requests :
          /\ files[r] = "none" /\ \A q \in Requests : q < r => files[q] # "none"
          /\ files' = [files EXCEPT ![r] = "temporary"]
          /\ before' = [before EXCEPT ![r] = {q \in Requests : files[q] \in {"ready", "gone"}}]
    BY <1>4 DEF WriteTemporary
  <2>3. \A q \in Requests : files[q] # "none" => q < r
    <3> SUFFICES ASSUME NEW q \in Requests, files[q] # "none" PROVE q < r
      OBVIOUS
    <3>1. ~(r < q)
      BY <2>2 DEF SpoolOrder
    <3>2. q # r
      BY <2>2
    <3> QED
      BY <1>2, <3>1, <3>2
  <2>4. \A q \in Requests : q # r => files'[q] = files[q] /\ before'[q] = before[q]
    BY <1>2, <2>2
  <2>5. files'[r] = "temporary" /\ before'[r] = {q \in Requests : files[q] \in {"ready", "gone"}}
    BY <1>2, <2>2
  <2>6. \A i \in 1 .. Len(done) : done[i] \in Requests /\ done[i] # r
    BY <1>2, <2>2 DEF SpoolOrder
  <2>7. \A p, q \in Requests : p < q /\ files'[q] # "none" => files'[p] # "none"
    BY <1>2, <2>2, <2>4, <2>5 DEF SpoolOrder
  <2>8. \A p \in Requests : \A q \in before'[p] : q < p /\ files'[q] \in {"ready", "gone"}
    <3> SUFFICES ASSUME NEW p \in Requests, NEW q \in before'[p]
                 PROVE  q < p /\ files'[q] \in {"ready", "gone"}
      OBVIOUS
    <3>1. q \in Requests /\ files[q] \in {"ready", "gone"} /\ (p # r => q < p)
      <4>1. CASE p = r
        <5>1. q \in {x \in Requests : files[x] \in {"ready", "gone"}}
          BY <2>5, <4>1
        <5> QED
          BY <4>1, <5>1
      <4>2. CASE p # r
        <5>1. q \in before[p]
          BY <2>4, <4>2
        <5> QED
          BY <1>2, <5>1 DEF SpoolOrder
      <4> QED
        BY <4>1, <4>2
    <3>2. q # r
      BY <2>2, <3>1
    <3> QED
      BY <2>3, <2>4, <3>1, <3>2
  <2>9. \A p \in Requests : files'[p] = "none" => before'[p] = {}
    BY <2>4, <2>5 DEF SpoolOrder
  <2>10. \A i \in 1 .. Len(done) : files'[done[i]] = "gone"
    BY <2>4, <2>6 DEF SpoolOrder
  <2>11. \A p \in Requests : files'[p] = "gone" =>
            \A q \in before'[p] : files'[q] = "gone" \/ q \in stuck
    <3> SUFFICES ASSUME NEW p \in Requests, files'[p] = "gone", NEW q \in before'[p]
                 PROVE  files'[q] = "gone" \/ q \in stuck
      OBVIOUS
    <3>1. p # r /\ files[p] = "gone" /\ q \in before[p]
      BY <2>4, <2>5
    <3>2. q \in Requests /\ files[q] \in {"ready", "gone"}
      BY <1>2, <3>1 DEF SpoolOrder
    <3>3. q # r
      BY <2>2, <3>2
    <3> QED
      BY <2>4, <3>1, <3>2, <3>3 DEF SpoolOrder
  <2>12. SpoolOrder'
    BY <2>1, <2>7, <2>8, <2>9, <2>10, <2>11 DEF SpoolOrder
  <2>13. RequestsInOrder'
    BY <2>1, <2>4, <2>6 DEF RequestsInOrder
  <2> QED
    BY <2>12, <2>13
<1>5. CASE Rename
  <2>1. /\ UNCHANGED <<budget, done, before, stuck>> /\ Requests' = Requests
    BY <1>5 DEF Rename, Requests, history, spoolPast
  <2>2. PICK r \in Requests : files[r] = "temporary" /\ files' = [files EXCEPT ![r] = "ready"]
    BY <1>5 DEF Rename
  <2>3. /\ files'[r] = "ready"
        /\ \A q \in Requests : q # r => files'[q] = files[q]
    BY <1>2, <2>2
  <2>4. \A i \in 1 .. Len(done) : done[i] \in Requests
    BY <1>2
  <2>5. \A p \in Requests : \A q \in before[p] : q \in Requests
    BY <1>2
  <2>6. SpoolOrder'
    BY <2>1, <2>2, <2>3, <2>4, <2>5 DEF SpoolOrder
  <2>7. RequestsInOrder'
    BY <2>1 DEF RequestsInOrder
  <2> QED
    BY <2>6, <2>7
<1>6. CASE BeginTurn
  <2>1. /\ UNCHANGED <<budget, before>> /\ Requests' = Requests
    BY <1>6 DEF BeginTurn, Requests
  <2>0. PICK taken \in Taken({r \in Requests : files[r] = "ready"}) :
          \E removed \in SUBSET taken :
            /\ files' = [r \in Requests |-> IF r \in removed THEN "gone" ELSE files[r]]
            /\ stuck' = stuck \cup (taken \ removed)
            /\ \E order \in InOrder(removed) : done' = done \o order
    BY <1>6 DEF BeginTurn, CarriedOut
  <2>2. PICK removed \in SUBSET taken :
          /\ files' = [r \in Requests |-> IF r \in removed THEN "gone" ELSE files[r]]
          /\ stuck' = stuck \cup (taken \ removed)
          /\ \E order \in InOrder(removed) : done' = done \o order
    BY <2>0
  <2>3. /\ taken \in SUBSET Requests /\ removed \in SUBSET Requests
        /\ \A r \in taken : files[r] = "ready"
        /\ \A r \in taken, q \in Requests : files[q] = "ready" /\ q \notin taken => r < q
    BY DEF Taken
  <2>4. PICK order \in InOrder(removed) : done' = done \o order
    BY <2>2
  <2>5. /\ order \in Seq(Requests)
        /\ \A i \in 1 .. Len(order) : order[i] \in removed
        /\ \A i, j \in 1 .. Len(order) : i < j => order[i] < order[j]
    BY <1>1, <2>3, OrderedRequests
  <2>6. /\ Len(done) \in Nat /\ Len(order) \in Nat /\ Len(done') = Len(done) + Len(order)
        /\ \A i \in 1 .. Len(done) : done'[i] = done[i]
        /\ \A i \in 1 .. Len(done') : i > Len(done) =>
             i - Len(done) \in 1 .. Len(order) /\ done'[i] = order[i - Len(done)]
    BY <1>2, <2>4, <2>5
  <2>7. \A r \in Requests : files'[r] = IF r \in removed THEN "gone" ELSE files[r]
    BY <2>2
  <2>8. \A i \in 1 .. Len(done) : done[i] \in Requests /\ files[done[i]] = "gone"
                                  /\ done[i] \notin removed
    BY <1>2, <2>3 DEF SpoolOrder
  <2>9. \A i \in 1 .. Len(done') : i \in 1 .. Len(done) \/ i > Len(done)
    BY <2>6
  <2>10. \A i \in 1 .. Len(done') : files'[done'[i]] = "gone"
    <3> SUFFICES ASSUME NEW i \in 1 .. Len(done') PROVE files'[done'[i]] = "gone"
      OBVIOUS
    <3>1. CASE i \in 1 .. Len(done)
      BY <2>6, <2>7, <2>8, <3>1
    <3>2. CASE i > Len(done)
      <4>1. done'[i] \in removed
        BY <2>5, <2>6, <3>2
      <4> QED
        BY <2>3, <2>7, <4>1
    <3> QED
      BY <2>9, <3>1, <3>2
  <2>11. ASSUME NEW r \in Requests, files'[r] = "gone", NEW q \in before[r]
         PROVE  files'[q] = "gone" \/ q \in stuck'
    <3>1. q \in Requests /\ q < r /\ files[q] \in {"ready", "gone"}
      BY <1>2 DEF SpoolOrder
    <3>2. CASE files[r] = "gone"
      BY <2>2, <2>7, <3>1, <3>2 DEF SpoolOrder
    <3>3. CASE files[r] # "gone"
      <4>1. r \in removed /\ r \in taken
        BY <2>7, <2>11, <3>3
      <4>2. CASE files[q] = "gone"
        BY <2>7, <3>1, <4>2
      <4>3. CASE files[q] = "ready"
        <5>1. ~(r < q)
          BY <1>2, <3>1
        <5>2. q \in taken
          BY <2>3, <3>1, <4>1, <4>3, <5>1
        <5> QED
          BY <2>2, <2>7, <3>1, <5>2
      <4> QED
        BY <3>1, <4>2, <4>3
    <3> QED
      BY <3>2, <3>3
  <2>12. SpoolOrder'
    <3>1. \A q, r \in Requests : q < r /\ files'[r] # "none" => files'[q] # "none"
      BY <2>3, <2>7 DEF SpoolOrder
    <3>2. \A r \in Requests : \A q \in before[r] : q < r /\ files'[q] \in {"ready", "gone"}
      BY <1>2, <2>7 DEF SpoolOrder
    <3>3. \A r \in Requests : files'[r] = "none" => before[r] = {}
      BY <2>7 DEF SpoolOrder
    <3> QED
      BY <2>1, <2>10, <2>11, <3>1, <3>2, <3>3 DEF SpoolOrder
  <2>13. ASSUME NEW i \in 1 .. Len(done'), NEW j \in 1 .. Len(done'), i < j
         PROVE  /\ done'[i] # done'[j]
                /\ done'[j] \in before[done'[i]] => done'[j] \in stuck'
    <3>1. CASE i \in 1 .. Len(done) /\ j \in 1 .. Len(done)
      BY <2>2, <2>6, <2>13, <3>1 DEF RequestsInOrder
    <3>2. CASE i \in 1 .. Len(done) /\ j > Len(done)
      <4>1. done'[i] = done[i] /\ done'[j] \in removed /\ files[done'[j]] = "ready"
        BY <2>3, <2>5, <2>6, <3>2
      <4>2. done[i] \in Requests /\ files[done[i]] = "gone"
        BY <2>8, <3>2
      <4>3. done'[j] \in before[done[i]] => done'[j] \in stuck
        BY <4>1, <4>2 DEF SpoolOrder
      <4> QED
        BY <2>2, <4>1, <4>2, <4>3
    <3>3. CASE i > Len(done) /\ j > Len(done)
      <4> DEFINE a == i - Len(done)
                 b == j - Len(done)
      <4>1. a \in 1 .. Len(order) /\ b \in 1 .. Len(order) /\ a < b
            /\ done'[i] = order[a] /\ done'[j] = order[b]
        BY <2>6, <2>13, <3>3
      <4> HIDE DEF a, b
      <4>2. order[a] < order[b] /\ order[a] \in Requests /\ order[b] \in Requests
        BY <2>3, <2>5, <4>1
      <4>3. order[b] \notin before[order[a]]
        <5>1. order[b] \in before[order[a]] => order[b] < order[a]
          BY <4>2 DEF SpoolOrder
        <5> QED
          BY <1>2, <4>2, <5>1
      <4>4. done'[i] # done'[j]
        BY <1>2, <4>1, <4>2
      <4> QED
        BY <4>1, <4>3, <4>4
    <3> QED
      BY <2>6, <2>9, <2>13, <3>1, <3>2, <3>3
  <2>14. RequestsInOrder'
    BY <2>1, <2>13 DEF RequestsInOrder
  <2> QED
    BY <2>12, <2>14
<1>7. ASSUME Next PROVE UNCHANGED <<budget, files, done, before, stuck>>
                        \/ WriteTemporary \/ Rename \/ BeginTurn
  BY <1>7 DEF Next, Turn, FlushInput, FlushStatus, MakePlan, KeepSlot, SyncSlot, SendMessage,
     Tick, LateRequest, Restart, DaemonDies, DaemonStarts, spoolVars, spoolPast, history
<1> QED
  BY <1>3, <1>4, <1>5, <1>6, <1>7

\* A request of the spool is carried out at most once, in the order in which the files
\* were completed, however many there are, whatever the daemon takes at once, and though
\* it may die between two steps (spool::drain).
THEOREM RequestsTheorem == Spec => []RequestsInOrder
<1> DEFINE Inv == SpoolOrder /\ RequestsInOrder
<1>1. Init => Inv
  <2> SUFFICES ASSUME Init PROVE Inv
    OBVIOUS
  <2>1. done = <<>> /\ files = [r \in Requests |-> "none"] /\ before = [r \in Requests |-> {}]
    BY DEF Init
  <2>2. 1 .. Len(done) = {}
    BY <2>1
  <2> QED
    BY <2>1, <2>2 DEF SpoolOrder, RequestsInOrder
<1>2. TypeOK /\ Inv /\ [Next]_vars => Inv'
  <2>1. CASE Next
    BY <2>1, SpoolStep
  <2>2. CASE UNCHANGED vars
    BY <2>2 DEF vars, spoolVars, history, spoolPast, SpoolOrder, RequestsInOrder, Requests
  <2> QED
    BY <2>1, <2>2
<1>3. Inv => RequestsInOrder
  OBVIOUS
<1> HIDE DEF Inv
<1> QED
  BY <1>1, <1>2, <1>3, TypeCorrect, PTL DEF Spec

-----------------------------------------------------------------------------
(* What a daemon leaves behind.                                            *)

\* While no daemon runs every slot loses what it shows, tick by tick; what is still under
\* way has come before the first tick.
Fading ==
  ~alive => /\ late # None => dead = 0
            /\ \A i \in Slots : screen[i] # None => screen[i].left + dead <= Refresh + Margin

\* Without a daemon only time, the device and the users of the spool go on.
LEMMA WithoutDaemon ==
  ASSUME TypeOK, Next, ~alive'
  PROVE  WriteTemporary \/ Rename \/ Tick \/ LateRequest \/ Restart \/ DaemonDies
<1>1. ~DaemonStarts
  BY DEF DaemonStarts
<1>2. Turn => alive /\ alive' = alive
  BY DEF Turn, BeginTurn, FlushInput, FlushStatus, MakePlan, KeepSlot, SyncSlot, SendMessage,
         TypeOK, FlowOK
<1> QED
  BY <1>1, <1>2 DEF Next

LEMMA FadingStep ==
  ASSUME TypeOK, TypeOK', Fading, Next
  PROVE  Fading'
<1> SUFFICES ASSUME ~alive' PROVE Fading'
  BY DEF Fading
<1>1. /\ screen \in [Slots -> Shown \cup {None}] /\ screen' \in [Slots -> Shown \cup {None}]
      /\ dead \in 0 .. CalmMax /\ late \in Message \cup {None}
      /\ alive \in BOOLEAN
  BY DEF TypeOK, DaemonType, DeviceType, DeviceState, Device, ClockType
<1>2. Refresh \in Nat /\ Margin \in Nat /\ MaxLag \in Nat /\ Second \in Nat
  BY SlotSyncAssumption
<1>3. \A i \in Slots : screen'[i] # None => screen'[i].left + 0 <= Refresh + Margin
  BY <1>1, <1>2 DEF Shown, Ttls
<1>4. CASE dead' = 0
  BY <1>3, <1>4 DEF Fading
<1>5. CASE WriteTemporary \/ Rename
  <2>1. UNCHANGED <<alive, late, dead, screen>>
    BY <1>5 DEF WriteTemporary, Rename, daemonVars, deviceVars, history
  <2> QED
    BY <2>1 DEF Fading
<1>6. CASE Tick
  <2>1. /\ late = None /\ late' = None /\ alive' = alive
        /\ screen' = [i \in Slots |-> Expired(screen[i])]
        /\ dead' = AtMost(dead + 1, CalmMax)
    BY <1>6 DEF Tick
  <2>2. dead' <= dead + 1
    BY <1>1, <1>2, <2>1 DEF AtMost, CalmMax
  <2>3. ASSUME NEW i \in Slots, screen'[i] # None
        PROVE  screen'[i].left + dead' <= Refresh + Margin
    <3>1. screen[i] \in Shown /\ screen[i].left # 1 /\ screen'[i] = Older(screen[i])
      BY <1>1, <2>1, <2>3 DEF Expired, Shown, Ttls, Forever
    <3>2. screen'[i].left = screen[i].left - 1
      BY <1>2, <3>1 DEF Older, AtLeast, Shown, Ttls
    <3>3. screen[i].left + dead <= Refresh + Margin
      BY <2>1, <3>1, NoneAssumption DEF Fading
    <3>4. screen[i].left \in Int /\ dead' \in Int
      BY <1>1, <1>2, <2>1, <3>1 DEF Shown, Ttls, AtMost, CalmMax
    <3> QED
      BY <1>1, <1>2, <2>2, <3>2, <3>3, <3>4
  <2> QED
    BY <2>1, <2>3 DEF Fading
<1>7. CASE LateRequest
  <2>1. late' = None /\ late # None /\ dead' = dead /\ alive' = alive
    BY <1>7 DEF LateRequest, daemonVars
  <2>2. dead' = 0
    BY <2>1 DEF Fading
  <2> QED
    BY <1>4, <2>2
<1>8. CASE Restart
  <2>1. late' = None /\ \A i \in Slots : screen'[i] = None
    BY <1>8 DEF Restart, Become, Blank
  <2> QED
    BY <2>1 DEF Fading
<1>9. CASE DaemonDies
  BY <1>4, <1>9 DEF DaemonDies
<1> QED
  BY <1>5, <1>6, <1>7, <1>8, <1>9, WithoutDaemon

\* Once a daemon is gone, its contents leave the screen within the interval at which it
\* sent them again and a margin, for every interval and margin (device_ttl).
THEOREM DeadDaemonTheorem == Spec => []DeadDaemonLeavesNothing
<1>1. Init => Fading
  BY DEF Init, Fading
<1>2. TypeOK /\ TypeOK' /\ Fading /\ [Next]_vars => Fading'
  <2>1. CASE UNCHANGED vars
    BY <2>1 DEF vars, daemonVars, deviceVars, history, Fading
  <2> QED
    BY <2>1, FadingStep
<1>3. TypeOK /\ Fading => DeadDaemonLeavesNothing
  <2> SUFFICES ASSUME TypeOK, Fading, ~alive, dead > Refresh + Margin, NEW i \in Slots
               PROVE  screen[i] = None
    BY DEF DeadDaemonLeavesNothing
  <2>1. screen[i] \in Shown \cup {None} /\ dead \in 0 .. CalmMax
    BY DEF TypeOK, DeviceType, DeviceState, Device, ClockType
  <2>2. Refresh \in Nat /\ Margin \in Nat /\ MaxLag \in Nat
    BY SlotSyncAssumption
  <2> QED
    BY <2>1, <2>2 DEF Fading, Shown, Ttls, CalmMax
<1> QED
  BY <1>1, <1>2, <1>3, TypeCorrect, PTL DEF Spec

-----------------------------------------------------------------------------
(* The status, however late it is sent.                                    *)

\* What is asked of the device for a request of the spool: a lifetime that ends, with
\* rounding and the time of the call, when the request asked for it.
InTime(id, ttl) ==
  /\ id \in Requests /\ files[id] = "gone"
  /\ ttl # Forever => ttl < due[id] + Second + MaxLag

\* A status that waits has what is left to its request, and what was sent of it, carried out
\* or under way, ends in time.
StatusInTime ==
  /\ waiting # None => /\ waiting.id \in Requests /\ files[waiting.id] = "gone"
                       /\ waiting.left = AtLeast(due[waiting.id], -MaxLag)
  /\ late # None => (late.kind = "status" => InTime(late.id, late.ttl))
  /\ presence # None => InTime(presence.id, presence.left)

\* Rounding up adds less than a second.
LEMMA RoundedUp ==
  ASSUME NEW n \in Int, n > 0
  PROVE  AtLeast(1, UpTo(n)) * Second \in Int /\ AtLeast(1, UpTo(n)) * Second < n + Second
<1> DEFINE k == n + Second - 1
           whole == k \div Second
<1>1. Second \in Nat \ {0} /\ k \in Int
  BY SlotSyncAssumption
<1>2. whole \in Int /\ Second * whole <= k
  BY <1>1, DivMod
<1>3. UpTo(n) = whole
  BY DEF UpTo
<1> HIDE DEF whole
<1>4. AtLeast(1, whole) * Second \in Int
  BY <1>1, <1>2 DEF AtLeast
<1>5. CASE whole <= 1
  <2>1. AtLeast(1, whole) = 1
    BY <1>2, <1>5 DEF AtLeast
  <2> QED
    BY <1>1, <1>3, <2>1
<1>6. CASE whole > 1
  <2>1. AtLeast(1, whole) = whole
    BY <1>2, <1>6 DEF AtLeast
  <2>2. whole * Second = Second * whole /\ Second * whole \in Int
    BY <1>1, <1>2
  <2> QED
    BY <1>1, <1>2, <1>3, <2>1, <2>2
<1> QED
  BY <1>2, <1>5, <1>6

\* Only a status changes the status on the device.
LEMMA HandledPresence ==
  ASSUME NEW d \in DeviceState, NEW m \in Message
  PROVE  Handled(d, m).presence = IF m.kind = "status" THEN [id |-> m.id, left |-> m.ttl]
                                  ELSE d.presence
<1>1. m.kind \in {"show", "clear", "begin", "rows", "end", "status", "input"}
  BY DEF Message, SlotMessage
<1>2. CASE m.kind \in {"show", "clear"}
  BY <1>2 DEF Handled, DeviceState
<1>3. CASE m.kind \in {"begin", "rows"}
  BY <1>3 DEF Handled, DeviceState
<1>4. CASE m.kind \in {"end", "status", "input"}
  BY <1>4 DEF Handled, DeviceState
<1> QED
  BY <1>1, <1>2, <1>3, <1>4

\* What a call, and what comes of one that failed, make of the status.
LEMMA PresenceAfter ==
  ASSUME DeviceType, NEW m \in Message, Become(Device) \/ Become(Handled(Device, m))
  PROVE  presence' = presence \/ (m.kind = "status" /\ presence' = [id |-> m.id, left |-> m.ttl])
<1>1. Device.presence = presence
  BY DEF Device
<1>2. Handled(Device, m).presence = IF m.kind = "status" THEN [id |-> m.id, left |-> m.ttl]
                                    ELSE presence
  BY <1>1, HandledPresence DEF DeviceType
<1> QED
  BY <1>1, <1>2 DEF Become

\* A call of the daemon.
CallOf(m) == Delivered(m) \/ Fails(m)

LEMMA CallBecomes ==
  ASSUME NEW m, CallOf(m)
  PROVE  /\ Become(Device) \/ Become(Handled(Device, m))
         /\ late' = None \/ late' = m
BY DEF CallOf, Delivered, Fails, Rejected, Unanswered

\* Each call in time leaves all in time.
LEMMA CallInTime ==
  ASSUME DeviceType, NEW m \in Message, CallOf(m), StatusInTime,
         m.kind = "status" => InTime(m.id, m.ttl),
         UNCHANGED <<budget, files, due>>, waiting' = waiting \/ waiting' = None
  PROVE  StatusInTime'
<1>1. /\ presence' = presence \/ (m.kind = "status" /\ presence' = [id |-> m.id, left |-> m.ttl])
      /\ late' = None \/ late' = m
  BY CallBecomes, PresenceAfter
<1>2. Requests' = Requests
  BY DEF Requests
<1>3. late' # None => (late'.kind = "status" => InTime(late'.id, late'.ttl))
  BY <1>1
<1>4. presence' # None => InTime(presence'.id, presence'.left)
  <2>1. CASE presence' = presence
    BY <2>1 DEF StatusInTime
  <2>2. CASE m.kind = "status" /\ presence' = [id |-> m.id, left |-> m.ttl]
    BY <2>2
  <2> QED
    BY <1>1, <2>1, <2>2
<1> QED
  BY <1>2, <1>3, <1>4 DEF StatusInTime, InTime

\* A request that is gone stays so, and a turn sets the deadline of none but one it takes.
LEMMA GoneStays ==
  ASSUME TypeOK, Next
  PROVE  /\ Requests' = Requests
         /\ \A r \in Requests : files[r] = "gone" =>
              /\ files'[r] = "gone"
              /\ ~Tick => due'[r] = due[r]
<1>1. SpoolType
  BY DEF TypeOK
<1>2. /\ files \in [Requests -> {"none", "temporary", "ready", "gone"}]
      /\ due \in [Requests -> Int] /\ Requests \in SUBSET Nat
  BY <1>1, RequestNumbers DEF SpoolType
<1>3. CASE BeginTurn
  <2>1. Requests' = Requests
    BY <1>3 DEF BeginTurn, Requests
  <2>2. PICK taken \in Taken({r \in Requests : files[r] = "ready"}) :
          \E removed \in SUBSET taken :
            /\ files' = [r \in Requests |-> IF r \in removed THEN "gone" ELSE files[r]]
            /\ due' = [r \in Requests |-> IF r = Newest(removed, "status", 0)
                                          THEN request[r].ttl ELSE due[r]]
    BY <1>3 DEF BeginTurn, CarriedOut
  <2>3. PICK removed \in SUBSET taken :
          /\ files' = [r \in Requests |-> IF r \in removed THEN "gone" ELSE files[r]]
          /\ due' = [r \in Requests |-> IF r = Newest(removed, "status", 0)
                                        THEN request[r].ttl ELSE due[r]]
    BY <2>2
  <2>4. removed \in SUBSET Requests /\ \A r \in removed : files[r] = "ready"
    BY DEF Taken
  <2> DEFINE status == Newest(removed, "status", 0)
  <2>5. status = 0 \/ status \in removed
    BY <1>1, <2>4, NewestIs
  <2>6. 0 \notin Requests
    BY <1>1, RequestNumbers
  <2>7. due' = [r \in Requests |-> IF r = status THEN request[r].ttl ELSE due[r]]
    BY <2>3
  <2> HIDE DEF status
  <2> QED
    BY <1>2, <2>1, <2>3, <2>4, <2>5, <2>6, <2>7
<1>4. CASE WriteTemporary
  BY <1>2, <1>4 DEF WriteTemporary, Requests
<1>5. CASE Rename
  BY <1>2, <1>5 DEF Rename, Requests, history, spoolPast
<1>6. CASE Tick
  BY <1>6 DEF Tick, Requests, spoolVars
<1>7. ASSUME Next PROVE UNCHANGED <<budget, files, due>>
                        \/ WriteTemporary \/ Rename \/ BeginTurn \/ Tick
  BY <1>7 DEF Next, Turn, FlushInput, FlushStatus, MakePlan, KeepSlot, SyncSlot, SendMessage,
     LateRequest, Restart, DaemonDies, DaemonStarts, spoolVars, spoolPast, history
<1>8. CASE UNCHANGED <<budget, files, due>>
  BY <1>8 DEF Requests
<1> QED
  BY <1>3, <1>4, <1>5, <1>6, <1>7, <1>8

LEMMA StatusStep ==
  ASSUME TypeOK, StatusInTime, Next
  PROVE  StatusInTime'
<1>1. DaemonType /\ DeviceType /\ SpoolType /\ FlowOK
  BY DEF TypeOK
<1>2. /\ Requests' = Requests
      /\ \A r \in Requests : files[r] = "gone" =>
           files'[r] = "gone" /\ (~Tick => due'[r] = due[r])
  BY GoneStays
<1>3. MaxLag \in Nat /\ Second \in Nat \ {0}
  BY SlotSyncAssumption
\* Whoever neither sends nor lets time pass keeps what was in time.
<1>4. ASSUME ~Tick, presence' = presence \/ presence' = None, late' = late \/ late' = None,
             waiting' = waiting \/ waiting' = None
      PROVE  StatusInTime'
  BY <1>2, <1>4 DEF StatusInTime, InTime
<1>5. CASE Tick
  <2>1. /\ late = None /\ late' = None /\ presence' = Expired(presence)
        /\ waiting' = IF waiting = None THEN None ELSE Older(waiting)
        /\ due' = [r \in Requests |-> IF due[r] <= -Second - MaxLag THEN due[r] ELSE due[r] - 1]
    BY <1>5 DEF Tick
  <2>2. due \in [Requests -> Int]
    BY <1>1 DEF SpoolType
  <2>3. waiting' # None => /\ waiting'.id \in Requests /\ files'[waiting'.id] = "gone"
                           /\ waiting'.left = AtLeast(due'[waiting'.id], -MaxLag)
    <3> SUFFICES ASSUME waiting # None
                 PROVE  /\ waiting'.id \in Requests /\ files'[waiting'.id] = "gone"
                        /\ waiting'.left = AtLeast(due'[waiting'.id], -MaxLag)
      BY <2>1
    <3>1. waiting \in Waiting /\ waiting' = [waiting EXCEPT !.left = AtLeast(waiting.left - 1, -MaxLag)]
      BY <1>1, <2>1 DEF DaemonType, Older
    <3>2. waiting'.id = waiting.id /\ waiting'.left = AtLeast(waiting.left - 1, -MaxLag)
      BY <3>1 DEF Waiting
    <3>3. /\ waiting.id \in Requests /\ files[waiting.id] = "gone"
          /\ waiting.left = AtLeast(due[waiting.id], -MaxLag)
      BY DEF StatusInTime
    <3> DEFINE n == due[waiting.id]
    <3>4. n \in Int /\ due'[waiting.id] = IF n <= -Second - MaxLag THEN n ELSE n - 1
      BY <2>1, <2>2, <3>3
    <3>5. waiting.left = AtLeast(n, -MaxLag)
      BY <3>3
    <3> HIDE DEF n
    <3>6. AtLeast(AtLeast(n, -MaxLag) - 1, -MaxLag)
            = AtLeast(IF n <= -Second - MaxLag THEN n ELSE n - 1, -MaxLag)
      BY <1>3, <3>4 DEF AtLeast
    <3> QED
      BY <1>2, <3>2, <3>3, <3>4, <3>5, <3>6
  <2>4. presence' # None => InTime(presence.id, presence.left)'
    <3> SUFFICES ASSUME presence' # None PROVE InTime(presence.id, presence.left)'
      OBVIOUS
    <3>1. presence \in Presence \cup {None}
      BY <1>1 DEF DeviceType, Device, DeviceState
    <3>2. presence \in Presence /\ presence # None
      BY <2>1, <3>1 DEF Expired
    <3>3. /\ presence.id \in Requests /\ files[presence.id] = "gone"
          /\ presence.left # Forever => presence.left < due[presence.id] + Second + MaxLag
      BY <3>2 DEF StatusInTime, InTime
    <3>4. CASE presence.left = Forever
      <4>1. presence' = presence
        BY <2>1, <3>4 DEF Expired
      <4> QED
        BY <1>2, <3>3, <3>4, <4>1 DEF InTime
    <3>5. CASE presence.left # Forever
      <4>1. presence.left \in Nat \ {0, 1} /\ presence' = Older(presence)
        BY <2>1, <3>2, <3>5 DEF Expired, Forever, Presence
      <4>2. presence' = [presence EXCEPT !.left = AtLeast(presence.left - 1, -MaxLag)]
        BY <4>1 DEF Older
      <4>3. AtLeast(presence.left - 1, -MaxLag) = presence.left - 1
        BY <1>3, <4>1 DEF AtLeast
      <4>4. presence'.id = presence.id /\ presence'.left = presence.left - 1
        BY <3>2, <4>2, <4>3 DEF Presence
      <4>5. due[presence.id] \in Int /\ due'[presence.id] >= due[presence.id] - 1
            /\ due'[presence.id] \in Int
        BY <1>3, <2>1, <2>2, <3>3
      <4>6. presence'.left < due'[presence'.id] + Second + MaxLag
        BY <1>3, <3>3, <3>5, <4>1, <4>4, <4>5
      <4> QED
        BY <1>2, <3>3, <4>4, <4>6 DEF InTime
    <3> QED
      BY <3>4, <3>5
  <2> QED
    BY <1>2, <2>1, <2>3, <2>4 DEF StatusInTime
<1>6. CASE ~Tick /\ BeginTurn
  <2>1. UNCHANGED <<presence, late, request>>
    BY <1>6 DEF BeginTurn, deviceVars
  <2>2. PICK taken \in Taken({r \in Requests : files[r] = "ready"}) :
          \E removed \in SUBSET taken :
            /\ files' = [r \in Requests |-> IF r \in removed THEN "gone" ELSE files[r]]
            /\ LET status == Newest(removed, "status", 0)
               IN  /\ waiting' = IF status = 0 THEN waiting
                                 ELSE [id |-> status, left |-> request[status].ttl,
                                       bounded |-> request[status].ttl # Forever]
                   /\ due' = [r \in Requests |-> IF r = status THEN request[r].ttl ELSE due[r]]
    BY <1>6 DEF BeginTurn, CarriedOut
  <2>3. PICK removed \in SUBSET taken :
          /\ files' = [r \in Requests |-> IF r \in removed THEN "gone" ELSE files[r]]
          /\ LET status == Newest(removed, "status", 0)
             IN  /\ waiting' = IF status = 0 THEN waiting
                               ELSE [id |-> status, left |-> request[status].ttl,
                                     bounded |-> request[status].ttl # Forever]
                 /\ due' = [r \in Requests |-> IF r = status THEN request[r].ttl ELSE due[r]]
    BY <2>2
  <2>4. removed \in SUBSET Requests /\ \A r \in removed : files[r] = "ready"
    BY DEF Taken
  <2> DEFINE status == Newest(removed, "status", 0)
  <2>5. status = 0 \/ status \in removed
    BY <1>1, <2>4, NewestIs
  <2>6. waiting' = IF status = 0 THEN waiting
                   ELSE [id |-> status, left |-> request[status].ttl,
                         bounded |-> request[status].ttl # Forever]
    BY <2>3
  <2>7. due' = [r \in Requests |-> IF r = status THEN request[r].ttl ELSE due[r]]
    BY <2>3
  <2> HIDE DEF status
  <2>8. CASE status = 0
    BY <1>4, <1>6, <2>1, <2>6, <2>8
  <2>9. CASE status # 0
    <3>1. status \in Requests /\ files'[status] = "gone" /\ files[status] = "ready"
      BY <2>3, <2>4, <2>5, <2>9
    <3>2. request[status].ttl \in Nat
      <4>1. request[status] \in Request
        BY <1>1, <3>1 DEF SpoolType
      <4> QED
        BY <4>1, SlotSyncAssumption DEF Request
    <3>3. due'[status] = request[status].ttl
      BY <2>7, <3>1
    <3>4. waiting'.id = status /\ waiting'.left = request[status].ttl
      BY <2>6, <2>9
    <3>5. request[status].ttl = AtLeast(request[status].ttl, -MaxLag)
      BY <1>3, <3>2 DEF AtLeast
    <3> QED
      BY <1>2, <1>6, <2>1, <3>1, <3>3, <3>4, <3>5 DEF StatusInTime, InTime
  <2> QED
    BY <2>8, <2>9
<1>7. CASE FlushInput
  <2> DEFINE m == [kind |-> "input", id |-> mode]
  <2>1. /\ CallOf(m) /\ waiting' = waiting /\ m.kind # "status"
        /\ UNCHANGED <<budget, files, due>>
    BY <1>7 DEF FlushInput, CallOf, spoolVars, spoolPast
  <2>2. m \in Message
    BY InputMessage
  <2> HIDE DEF m
  <2> QED
    BY <1>1, <2>1, <2>2, CallInTime
<1>8. CASE FlushStatus
  <2> DEFINE m == [kind |-> "status", id |-> waiting.id, ttl |-> StatusTtl]
  <2>1. /\ UNCHANGED <<budget, files, due>>
        /\ waiting' = waiting \/ waiting' = None
        /\ \/ UNCHANGED <<deviceVars, files, due>>
           \/ CallOf(m) /\ ~(waiting.bounded /\ waiting.left + lag <= 0)
    BY <1>8 DEF FlushStatus, CallOf, spoolVars, spoolPast
  <2>2. waiting # None /\ waiting \in Waiting
    BY <1>1, <1>8 DEF FlushStatus, FlowOK, DaemonType
  <2>3. CASE UNCHANGED deviceVars
    <3>1. ~Tick \/ StatusInTime'
      BY <1>5
    <3> QED
      BY <1>4, <2>1, <2>3, <3>1 DEF deviceVars
  <2>4. CASE CallOf(m) /\ ~(waiting.bounded /\ waiting.left + lag <= 0)
    <3>1. m \in Message
      BY <2>2, StatusMessage
    <3>2. m.id = waiting.id /\ m.ttl = StatusTtl
      OBVIOUS
    <3>3. /\ waiting.id \in Requests /\ files[waiting.id] = "gone"
          /\ waiting.left = AtLeast(due[waiting.id], -MaxLag)
      BY <2>2 DEF StatusInTime
    <3>4. StatusTtl # Forever => StatusTtl < due[waiting.id] + Second + MaxLag
      <4> SUFFICES ASSUME StatusTtl # Forever PROVE StatusTtl < due[waiting.id] + Second + MaxLag
        OBVIOUS
      <4>1. waiting.bounded /\ StatusTtl = AtLeast(1, UpTo(waiting.left + lag)) * Second
        BY DEF StatusTtl
      <4>2. waiting.left \in Int /\ lag \in 0 .. MaxLag /\ due[waiting.id] \in Int
        BY <1>1, <2>2, <3>3 DEF Waiting, DaemonType, SpoolType
      <4>3. waiting.left + lag \in Int /\ waiting.left + lag > 0
        BY <1>3, <2>4, <4>1, <4>2
      <4>4. StatusTtl \in Int /\ StatusTtl < waiting.left + lag + Second
        BY <4>1, <4>3, RoundedUp
      <4>5. waiting.left = due[waiting.id]
        BY <1>3, <3>3, <4>2, <4>3 DEF AtLeast
      <4> QED
        BY <1>3, <4>2, <4>4, <4>5
    <3> HIDE DEF m
    <3>5. InTime(m.id, m.ttl)
      BY <3>2, <3>3, <3>4 DEF InTime
    <3> QED
      BY <1>1, <2>1, <2>4, <3>1, <3>5, CallInTime
  <2> QED
    BY <2>1, <2>3, <2>4
<1>9. CASE SendMessage
  <2>1. /\ CallOf(Head(queue)) /\ waiting' = waiting
        /\ UNCHANGED <<budget, files, due>>
    BY <1>9 DEF SendMessage, CallOf, spoolVars, spoolPast
  <2>2. Head(queue) \in Message /\ Head(queue) \in SlotMessage
    BY <1>9, SendFacts
  <2>3. Head(queue).kind # "status"
    BY <2>2 DEF SlotMessage
  <2> QED
    BY <1>1, <2>1, <2>2, <2>3, CallInTime
<1>10. CASE ~Tick /\ LateRequest
  <2>1. /\ late # None /\ late' = None /\ waiting' = waiting
        /\ Become(Device) \/ Become(Handled(Device, late))
    BY <1>10 DEF LateRequest, daemonVars
  <2>2. late \in Message
    BY <1>1, <2>1 DEF DeviceType
  <2>3. presence' = presence \/ (late.kind = "status" /\ presence' = [id |-> late.id, left |-> late.ttl])
    BY <1>1, <2>1, <2>2, PresenceAfter
  <2>4. CASE late.kind = "status" /\ presence' = [id |-> late.id, left |-> late.ttl]
    <3>1. InTime(presence'.id, presence'.left)
      BY <2>1, <2>4 DEF StatusInTime
    <3> QED
      BY <1>2, <1>10, <2>1, <3>1 DEF StatusInTime, InTime
  <2> QED
    BY <1>4, <1>10, <2>1, <2>3, <2>4
<1>11. ASSUME ~Tick, Next
       PROVE  \/ BeginTurn \/ FlushInput \/ FlushStatus \/ SendMessage \/ LateRequest
              \/ /\ presence' = presence \/ presence' = None
                 /\ late' = late \/ late' = None
                 /\ waiting' = waiting \/ waiting' = None
  BY <1>11 DEF Next, Turn, MakePlan, KeepSlot, SyncSlot, WriteTemporary, Rename, Restart,
     DaemonDies, DaemonStarts, Become, Blank, deviceVars, daemonVars
<1> QED
  BY <1>4, <1>5, <1>6, <1>7, <1>8, <1>9, <1>10, <1>11

\* However often a status cannot be sent, and though a call that failed may be carried out
\* late: the device does not show it for longer than was asked, but for the rounding to
\* seconds and the time of the call (flush_pending).
THEOREM StatusTheorem == Spec => []StatusNotLate
<1>1. Init => StatusInTime
  BY DEF Init, StatusInTime
<1>2. TypeOK /\ StatusInTime /\ [Next]_vars => StatusInTime'
  <2>1. CASE UNCHANGED vars
    BY <2>1 DEF vars, daemonVars, deviceVars, spoolVars, history, spoolPast, StatusInTime, InTime,
       Requests
  <2> QED
    BY <2>1, StatusStep
<1>3. StatusInTime => StatusNotLate
  BY DEF StatusInTime, StatusNotLate, InTime
<1> QED
  BY <1>1, <1>2, <1>3, TypeCorrect, PTL DEF Spec

-----------------------------------------------------------------------------
(* What the daemon believes of the screen.                                 *)

\* The rows of a transfer that have come are in the buffer; images are shown in Overlay.
Received(d) ==
  /\ d.incoming # None => \A k \in {1, 2} : k < d.incoming.row => d.pixels[k] = d.incoming.src
  /\ \A i \in Slots : d.screen[i] # None => (d.screen[i].src \in Images => i = Overlay)

\* What is still under way comes before a Reset.
LateResets == late # None => reset

\* An image is planned for Overlay, and nothing that expires before the turn ends: so
\* device_ttl gives the same answer all through the turn.
Planned ==
  /\ \A i \in Slots : plan[i] \in Images => i = Overlay
  /\ pc = "slots" => \A i \in Slots : plan[i] # None =>
                       (life[plan[i]].bounded => Remaining(plan[i]) > 0)

\* The messages of a slot.
Clear(i)   == [kind |-> "clear", slot |-> i]
Show(i, c) == [kind |-> "show", slot |-> i, src |-> c, ttl |-> DeviceTtl(c)]
Begin(c)   == [kind |-> "begin", src |-> c, ttl |-> DeviceTtl(c)]
Rows(c, k) == [kind |-> "rows", src |-> c, row |-> k]
End(c)     == [kind |-> "end", src |-> c]

\* What is left to send of a slot is a clear, all of slot_messages, or the rest of an image
\* that the device is receiving, unless it has restarted.
Sending(i) ==
  LET c == plan[i]
  IN  \/ c = None /\ queue = <<Clear(i)>>
      \/ c # None /\ c \notin Images /\ queue = <<Show(i, c)>>
      \/ c \in Images /\ queue = <<Begin(c), Rows(c, 1), Rows(c, 2), End(c)>>
      \/ /\ c \in Images /\ late = None
         /\ queue \in {<<Rows(c, 1), Rows(c, 2), End(c)>>, <<Rows(c, 2), End(c)>>, <<End(c)>>}
         /\ incoming # None => (incoming.src = c /\ incoming.ttl = DeviceTtl(c))

AtWork == queue # <<>> => Sending(Head(todo))

Belief == Received(Device) /\ LateResets /\ Planned /\ AtWork /\ BeliefTrue

\* A device that handles a message is still one that shows what it has received.
LEMMA HandledReceived ==
  ASSUME NEW d \in DeviceState, NEW m \in Message, Received(d)
  PROVE  Received(Handled(d, m))
<1> DEFINE e == Handled(d, m)
<1>1. e \in DeviceState
  BY HandledType
<1>2. CASE m.kind = "show"
  <2>1. /\ m.slot \in Slots /\ m.src \notin Images
        /\ e = [d EXCEPT !.screen[m.slot] = [src |-> m.src, left |-> m.ttl]]
    BY <1>2 DEF Handled, Message, SlotMessage
  <2>2. /\ e.incoming = d.incoming /\ e.pixels = d.pixels
        /\ \A i \in Slots : e.screen[i] = IF i = m.slot THEN [src |-> m.src, left |-> m.ttl]
                                          ELSE d.screen[i]
    BY <2>1 DEF DeviceState
  <2> HIDE DEF e
  <2> QED
    BY <2>1, <2>2 DEF Received, e
<1>3. CASE m.kind = "clear"
  <2>1. /\ m.slot \in Slots /\ e = [d EXCEPT !.screen[m.slot] = None]
    BY <1>3 DEF Handled, Message, SlotMessage
  <2>2. /\ e.incoming = d.incoming /\ e.pixels = d.pixels
        /\ \A i \in Slots : e.screen[i] = IF i = m.slot THEN None ELSE d.screen[i]
    BY <2>1 DEF DeviceState
  <2> HIDE DEF e
  <2> QED
    BY <2>1, <2>2 DEF Received, e
<1>4. CASE m.kind = "begin"
  <2>1. e = [d EXCEPT !.incoming = [src |-> m.src, ttl |-> m.ttl, row |-> 1]]
    BY <1>4 DEF Handled
  <2>2. e.incoming.row = 1 /\ e.screen = d.screen
    BY <2>1 DEF DeviceState
  <2> HIDE DEF e
  <2> QED
    BY <2>2 DEF Received, e
<1>5. CASE m.kind = "rows"
  <2>1. CASE ~Accepts(d, m)
    BY <1>5, <2>1 DEF Handled
  <2>2. CASE Accepts(d, m)
    <3>1. /\ m.row \in {1, 2} /\ d.incoming \in Transfer /\ d.incoming # None
          /\ d.incoming.src = m.src /\ d.incoming.row = m.row
      BY <1>5, <2>2 DEF Accepts, DeviceState, Message, SlotMessage
    <3>2. e = [d EXCEPT !.pixels = [d.pixels EXCEPT ![m.row] = m.src],
                        !.incoming = [d.incoming EXCEPT !.row = m.row + 1]]
      BY <1>5, <2>2 DEF Handled, DeviceState
    <3>3. /\ e.pixels = [d.pixels EXCEPT ![m.row] = m.src]
          /\ e.incoming = [d.incoming EXCEPT !.row = m.row + 1]
          /\ e.screen = d.screen
      BY <3>2 DEF DeviceState
    <3>4. e.incoming.src = m.src /\ e.incoming.row = m.row + 1
      BY <3>1, <3>3 DEF Transfer
    <3>5. \A k \in {1, 2} : e.pixels[k] = IF k = m.row THEN m.src ELSE d.pixels[k]
      BY <3>1, <3>3 DEF DeviceState
    <3> HIDE DEF e
    <3>6. \A k \in {1, 2} : k < m.row + 1 => (k = m.row \/ k < m.row)
      BY <3>1
    <3> QED
      BY <3>1, <3>3, <3>4, <3>5, <3>6 DEF Received, e
  <2> QED
    BY <2>1, <2>2
<1>6. CASE m.kind = "end"
  <2>1. e.incoming = None
    BY <1>6 DEF Handled, DeviceState
  <2>2. \A i \in Slots : e.screen[i] = d.screen[i] \/ i = Overlay
    BY <1>6, OverlaySlot DEF Handled, DeviceState
  <2> HIDE DEF e
  <2> QED
    BY <2>1, <2>2 DEF Received, e
<1>7. CASE m.kind \in {"status", "input"}
  <2>1. e.incoming = d.incoming /\ e.pixels = d.pixels /\ e.screen = d.screen
    BY <1>7 DEF Handled, DeviceState
  <2> HIDE DEF e
  <2> QED
    BY <2>1 DEF Received, e
<1> QED
  BY <1>2, <1>3, <1>4, <1>5, <1>6, <1>7 DEF Message, SlotMessage

\* What a step makes of the device, if no time passes.
LEMMA DeviceStep ==
  ASSUME TypeOK, Next, ~Tick
  PROVE  \/ Device' = Device
         \/ Device' = Blank
         \/ \E m \in Message : Device' = Handled(Device, m)
<1>1. DeviceType /\ Device \in DeviceState
  BY DEF TypeOK, DeviceType
<1>2. ASSUME NEW m \in Message, Become(Device) \/ Become(Handled(Device, m))
      PROVE  Device' = Device \/ Device' = Handled(Device, m)
  BY <1>1, <1>2, HandledType, Becomes
<1>3. CASE FlushInput
  <2> DEFINE m == [kind |-> "input", id |-> mode]
  <2>1. CallOf(m)
    BY <1>3 DEF FlushInput, CallOf
  <2>2. m \in Message
    BY InputMessage
  <2> HIDE DEF m
  <2> QED
    BY <1>2, <2>1, <2>2, CallBecomes
<1>4. CASE FlushStatus
  <2> DEFINE m == [kind |-> "status", id |-> waiting.id, ttl |-> StatusTtl]
  <2>1. UNCHANGED deviceVars \/ CallOf(m)
    BY <1>4 DEF FlushStatus, CallOf
  <2>2. m \in Message
    BY <1>4, StatusMessage DEF FlushStatus, TypeOK, FlowOK
  <2> HIDE DEF m
  <2> QED
    BY <1>2, <2>1, <2>2, CallBecomes, SameDevice DEF deviceVars
<1>5. CASE SendMessage
  <2>1. CallOf(Head(queue))
    BY <1>5 DEF SendMessage, CallOf
  <2>2. Head(queue) \in Message
    BY <1>5, SendFacts
  <2> QED
    BY <1>2, <2>1, <2>2, CallBecomes
<1>6. CASE LateRequest
  <2>1. late \in Message /\ (Become(Device) \/ Become(Handled(Device, late)))
    BY <1>1, <1>6 DEF LateRequest, DeviceType
  <2> QED
    BY <1>2, <2>1
<1>7. CASE Restart
  BY <1>7, BlankType, Becomes DEF Restart
<1>8. ASSUME Next, ~Tick
      PROVE  \/ FlushInput \/ FlushStatus \/ SendMessage \/ LateRequest \/ Restart
             \/ UNCHANGED <<screen, pixels, incoming, presence, input>>
  BY <1>8 DEF Next, Turn, BeginTurn, MakePlan, KeepSlot, SyncSlot, WriteTemporary, Rename,
     DaemonDies, DaemonStarts, deviceVars
<1> QED
  BY <1>3, <1>4, <1>5, <1>6, <1>7, <1>8, SameDevice

LEMMA ReceivedStep ==
  ASSUME TypeOK, Received(Device), Next
  PROVE  Received(Device')
<1>1. Device \in DeviceState
  BY DEF TypeOK, DeviceType
<1>2. CASE Tick
  <2>1. /\ Device.screen = screen /\ Device.incoming = incoming /\ Device.pixels = pixels
        /\ Device'.screen = screen' /\ Device'.incoming = incoming' /\ Device'.pixels = pixels'
    BY DEF Device
  <2>2. /\ incoming' = incoming /\ pixels' = pixels
        /\ screen' = [i \in Slots |-> Expired(screen[i])]
    BY <1>2 DEF Tick
  <2>3. ASSUME NEW i \in Slots, screen'[i] # None
        PROVE  screen[i] # None /\ screen'[i].src = screen[i].src
    <3>1. screen[i] \in Shown \cup {None}
      BY <1>1, <2>1 DEF DeviceState
    <3>2. screen'[i] = Expired(screen[i]) /\ Expired(None) = None
      BY <2>2, OlderType
    <3>3. screen[i] \in Shown /\ screen[i] # None
      BY <2>3, <3>1, <3>2
    <3>4. \A e \in Shown : Expired(e) # None => Expired(e).src = e.src
      BY DEF Expired, Older, Shown
    <3> QED
      BY <2>3, <3>2, <3>3, <3>4
  <2> QED
    BY <2>1, <2>2, <2>3 DEF Received
<1>3. CASE ~Tick
  <2>1. CASE Device' = Blank
    BY <2>1 DEF Blank, Received
  <2>2. CASE \E m \in Message : Device' = Handled(Device, m)
    BY <1>1, <2>2, HandledReceived
  <2> QED
    BY <1>3, <2>1, <2>2, DeviceStep
<1> QED
  BY <1>2, <1>3

LEMMA LateStep == LateResets /\ Next => LateResets'
<1> SUFFICES ASSUME LateResets, Next PROVE LateResets'
  OBVIOUS
<1>1. ASSUME Next
      PROVE  \/ UNCHANGED <<late, reset>> \/ late' = None \/ reset' = TRUE
  BY <1>1 DEF Next, Turn, BeginTurn, FlushInput, FlushStatus, MakePlan, KeepSlot, SyncSlot,
     SendMessage, Tick, WriteTemporary, Rename, LateRequest, Restart, DaemonDies, DaemonStarts,
     Fails, Delivered, Rejected, Unanswered, deviceVars
<1> QED
  BY <1>1 DEF LateResets

\* What is planned, and not over, does not come to its end in a tick of the turn.
LEMMA TurnTick ==
  ASSUME TypeOK, Planned, Tick, pc = "slots", NEW i \in Slots, plan[i] # None
  PROVE  /\ DeviceTtl(plan[i])' = DeviceTtl(plan[i])
         /\ life'[plan[i]].bounded => Remaining(plan[i])' > 0
<1> DEFINE c == plan[i]
<1>1. DaemonType /\ FlowOK
  BY DEF TypeOK
<1>2. c \in Contents /\ c # None /\ life[c] # None /\ life[c] \in Life
  BY <1>1 DEF DaemonType, FlowOK
<1>3. /\ alive /\ lag < MaxLag /\ lag' = lag + 1 /\ plan' = plan
      /\ life'[c] = IF life[c] = None \/ ~life[c].bounded THEN life[c] ELSE Older(life[c])
  BY <1>1, <1>2 DEF Tick, FlowOK
<1>4. lag \in Nat /\ MaxLag \in Nat
  BY <1>1, SlotSyncAssumption DEF DaemonType
<1>5. c' = c
  BY <1>3
<1>6. CASE ~life[c].bounded
  <2>1. life'[c] = life[c]
    BY <1>3, <1>6
  <2> QED
    BY <1>5, <1>6, <2>1 DEF DeviceTtl
<1>7. CASE life[c].bounded
  <2>1. life'[c] = [life[c] EXCEPT !.left = AtLeast(life[c].left - 1, -MaxLag)]
    BY <1>2, <1>3, <1>7 DEF Older
  <2>2. Remaining(c) > 0 /\ Remaining(c) = life[c].left + lag /\ life[c].left \in Int
    BY <1>2, <1>7 DEF Planned, Remaining, Life
  <2>3. AtLeast(life[c].left - 1, -MaxLag) = life[c].left - 1
    BY <1>3, <1>4, <2>2 DEF AtLeast
  <2>4. life'[c].bounded = life[c].bounded /\ life'[c].left = life[c].left - 1
    BY <1>2, <2>1, <2>3 DEF Life
  <2>5. life'[c].left + lag' = life[c].left + lag
    BY <1>3, <1>4, <2>2, <2>4
  <2> HIDE DEF c
  <2>6. Remaining(c)' = Remaining(c)
    BY <1>5, <2>5 DEF Remaining
  <2>7. DeviceTtl(c)' = DeviceTtl(c)
    BY <1>5, <2>4, <2>6 DEF DeviceTtl
  <2> QED
    BY <2>2, <2>6, <2>7 DEF c
<1> QED
  BY <1>6, <1>7

LEMMA PlannedStep ==
  ASSUME TypeOK, Planned, Next
  PROVE  Planned'
<1>1. DaemonType /\ FlowOK /\ SpoolType
  BY DEF TypeOK
<1>2. CASE MakePlan
  <2> DEFINE kept == [i \in Slots |-> IF plan[i] # None /\ Live(plan[i]) THEN plan[i] ELSE None]
             Lived(l) == [c \in Contents |->
                            IF life[c] # None \/ \A i \in Slots : plan'[i] # c THEN life[c]
                            ELSE IF l = Forever THEN [left |-> 0, bounded |-> FALSE]
                            ELSE [left |-> l - lag, bounded |-> TRUE]]
  <2>1. /\ lag' = lag /\ pc = "plan"
        /\ \/ plan' = kept /\ UNCHANGED life
           \/ plan' \in Plans \ {kept} /\ \E l \in budget.lives : life' = Lived(l)
    BY <1>2 DEF MakePlan
  <2>2. lag \in Int
    BY <1>1 DEF DaemonType
  <2>3. CASE plan' = kept /\ UNCHANGED life
    <3>1. \A i \in Slots : plan'[i] # None => plan'[i] = plan[i] /\ Live(plan[i])
      BY <2>3
    <3>2. \A i \in Slots : plan'[i] \in Images => i = Overlay
      <4>1. \A i \in Slots : plan'[i] \in Images => plan'[i] # None
        BY NoneAssumption DEF Contents
      <4> QED
        BY <3>1, <4>1 DEF Planned
    <3>3. ASSUME NEW i \in Slots, plan'[i] # None, life'[plan'[i]].bounded
          PROVE  Remaining(plan[i])' > 0
      <4>1. plan'[i] = plan[i] /\ Live(plan[i]) /\ life' = life /\ life[plan[i]] # None
        BY <1>1, <2>3, <3>1, <3>3 DEF FlowOK
      <4> QED
        BY <2>1, <3>3, <4>1 DEF Live, Remaining
    <3> QED
      BY <3>2, <3>3 DEF Planned
  <2>4. CASE plan' \in Plans /\ \E l \in budget.lives : life' = Lived(l)
    <3>1. PICK l \in budget.lives : life' = Lived(l)
      BY <2>4
    <3>2. l \in Nat /\ budget.contents \subseteq Contents
      BY <1>1, SlotSyncAssumption DEF SpoolType, Contents
    <3>3. /\ \A i \in Slots : plan'[i] \in budget.contents \cup {None}
          /\ \A i \in Slots : plan'[i] \in Images => i = Overlay
          /\ \A i \in Slots : plan'[i] # None => Live(plan'[i])
      BY <2>4 DEF Plans
    <3>4. ASSUME NEW i \in Slots, plan'[i] # None, life'[plan'[i]].bounded
          PROVE  Remaining(plan[i])' > 0
      <4> DEFINE c == plan'[i]
      <4>1. c \in Contents /\ c # None /\ Live(c)
        BY <3>2, <3>3, <3>4
      <4>2. CASE life[c] # None
        <5>1. life'[c] = life[c]
          BY <3>1, <4>1, <4>2
        <5> QED
          BY <2>1, <3>4, <4>1, <4>2, <5>1 DEF Live, Remaining
      <4>3. CASE life[c] = None
        <5>1. life'[c] = IF l = Forever THEN [left |-> 0, bounded |-> FALSE]
                         ELSE [left |-> l - lag, bounded |-> TRUE]
          BY <3>1, <4>1, <4>3
        <5>2. l # Forever /\ life'[c].left = l - lag
          BY <3>4, <5>1
        <5>3. life'[c].left + lag' = l
          BY <2>1, <2>2, <3>2, <5>2
        <5> QED
          BY <3>2, <5>2, <5>3 DEF Forever, Remaining
      <4> QED
        BY <4>2, <4>3
    <3> QED
      BY <3>3, <3>4 DEF Planned
  <2> QED
    BY <2>1, <2>3, <2>4
<1>3. CASE Tick
  <2>1. plan' = plan /\ pc' = pc
    BY <1>3 DEF Tick
  <2>2. \A i \in Slots : pc = "slots" /\ plan[i] # None =>
          (life'[plan[i]].bounded => Remaining(plan[i])' > 0)
    BY <1>3, TurnTick
  <2> QED
    BY <2>1, <2>2 DEF Planned
<1>4. CASE UNCHANGED <<plan, life, pc, lag>>
  BY <1>4 DEF Planned, Remaining
<1>5. CASE plan' = plan /\ life' = life /\ (pc' # "slots" \/ (pc = "slots" /\ lag' = lag))
  BY <1>5 DEF Planned, Remaining
<1>6. CASE DaemonDies
  <2>1. pc' = "idle" /\ \A i \in Slots : plan'[i] = None
    BY <1>6 DEF DaemonDies
  <2> QED
    BY <2>1, NoneAssumption DEF Planned, Contents
<1>7. ASSUME Next
      PROVE  \/ MakePlan \/ Tick \/ DaemonDies \/ UNCHANGED <<plan, life, pc, lag>>
             \/ plan' = plan /\ life' = life /\ (pc' # "slots" \/ (pc = "slots" /\ lag' = lag))
  BY <1>7 DEF Next, Turn, BeginTurn, FlushInput, FlushStatus, KeepSlot, SyncSlot, SendMessage,
     NextSlot, WriteTemporary, Rename, LateRequest, Restart, DaemonStarts, daemonVars
<1> QED
  BY <1>2, <1>3, <1>4, <1>5, <1>6, <1>7

LEMMA Tuples ==
  ASSUME NEW a, NEW b, NEW c, NEW d
  PROVE  /\ Head(<<a, b, c, d>>) = a /\ Tail(<<a, b, c, d>>) = <<b, c, d>>
         /\ Head(<<b, c, d>>) = b /\ Tail(<<b, c, d>>) = <<c, d>>
         /\ Head(<<c, d>>) = c /\ Tail(<<c, d>>) = <<d>>
         /\ Head(<<d>>) = d /\ Tail(<<d>>) = <<>>
         /\ <<a, b, c, d>> # <<>> /\ <<b, c, d>> # <<>> /\ <<c, d>> # <<>> /\ <<d>> # <<>>
OBVIOUS

\* The next message of a slot, and those that follow it.

LEMMA QueueHead ==
  ASSUME TypeOK, Planned, AtWork, queue # <<>>
  PROVE  LET i == Head(todo)
             c == plan[i]
             m == Head(queue)
             rest == Tail(queue)
             begun == late = None /\ (incoming # None => incoming.src = c /\ incoming.ttl = DeviceTtl(c))
         IN  /\ i \in Slots
             /\ \/ c = None /\ m = Clear(i) /\ rest = <<>>
                \/ c \in Contents \ Images /\ c # None /\ m = Show(i, c) /\ rest = <<>>
                \/ /\ c \in Images /\ c # None /\ i = Overlay
                   /\ \/ m = Begin(c) /\ rest = <<Rows(c, 1), Rows(c, 2), End(c)>>
                      \/ m = Rows(c, 1) /\ rest = <<Rows(c, 2), End(c)>> /\ begun
                      \/ m = Rows(c, 2) /\ rest = <<End(c)>> /\ begun
                      \/ m = End(c) /\ rest = <<>> /\ begun
<1> DEFINE i == Head(todo)
           c == plan[i]
           begun == late = None /\ (incoming # None => incoming.src = c /\ incoming.ttl = DeviceTtl(c))
<1>1. DaemonType /\ FlowOK
  BY DEF TypeOK
<1>2. i \in Slots /\ c \in Contents \cup {None}
  BY <1>1 DEF DaemonType, FlowOK
<1>3. c \in Images => c # None /\ i = Overlay
  BY <1>2, NoneAssumption DEF Planned, Contents
<1>4. Sending(i)
  BY DEF AtWork
<1>5. CASE c = None /\ queue = <<Clear(i)>>
  <2> HIDE DEF i, c
  <2> QED
    BY <1>2, <1>5, Tuples DEF i, c
<1>6. CASE c # None /\ c \notin Images /\ queue = <<Show(i, c)>>
  <2>1. Head(queue) = Show(i, c) /\ Tail(queue) = <<>>
    BY <1>6, Tuples
  <2> QED
    BY <1>2, <1>6, <2>1
<1>7. CASE c \in Images /\ queue = <<Begin(c), Rows(c, 1), Rows(c, 2), End(c)>>
  <2>1. Head(queue) = Begin(c) /\ Tail(queue) = <<Rows(c, 1), Rows(c, 2), End(c)>>
    BY <1>7, Tuples
  <2> QED
    BY <1>2, <1>3, <1>7, <2>1
<1>8. CASE c \in Images /\ begun /\ queue = <<Rows(c, 1), Rows(c, 2), End(c)>>
  <2>1. Head(queue) = Rows(c, 1) /\ Tail(queue) = <<Rows(c, 2), End(c)>>
    BY <1>8, Tuples
  <2> QED
    BY <1>2, <1>3, <1>8, <2>1
<1>9. CASE c \in Images /\ begun /\ queue = <<Rows(c, 2), End(c)>>
  <2>1. Head(queue) = Rows(c, 2) /\ Tail(queue) = <<End(c)>>
    BY <1>9, Tuples
  <2> QED
    BY <1>2, <1>3, <1>9, <2>1
<1>10. CASE c \in Images /\ begun /\ queue = <<End(c)>>
  <2>1. Head(queue) = End(c) /\ Tail(queue) = <<>>
    BY <1>10, Tuples
  <2> QED
    BY <1>2, <1>3, <1>10, <2>1
<1> QED
  BY <1>4, <1>5, <1>6, <1>7, <1>8, <1>9, <1>10 DEF Sending

\* The device takes the beginning of an image, and rows that come in order.
LEMMA HandledTransfer ==
  ASSUME NEW d \in DeviceState, NEW m \in Message
  PROVE  /\ m.kind = "begin" =>
              Handled(d, m).incoming = [src |-> m.src, ttl |-> m.ttl, row |-> 1]
         /\ m.kind = "rows" /\ Accepts(d, m) =>
              /\ d.incoming # None
              /\ Handled(d, m).incoming.src = d.incoming.src
              /\ Handled(d, m).incoming.ttl = d.incoming.ttl
<1>1. CASE m.kind = "begin"
  BY <1>1 DEF Handled, DeviceState
<1>2. CASE m.kind = "rows" /\ Accepts(d, m)
  <2>1. d.incoming # None /\ d.incoming \in Transfer
    BY <1>2 DEF Accepts, DeviceState
  <2>2. Handled(d, m).incoming = [d.incoming EXCEPT !.row = m.row + 1]
    BY <1>2 DEF Handled, DeviceState
  <2> QED
    BY <1>2, <2>1, <2>2 DEF Transfer
<1> QED
  BY <1>1, <1>2

LEMMA AtWorkStep ==
  ASSUME TypeOK, Planned, AtWork, Next
  PROVE  AtWork'
<1>1. DaemonType /\ DeviceType /\ FlowOK
  BY DEF TypeOK
<1>2. CASE queue' = <<>>
  BY <1>2 DEF AtWork
<1>3. CASE UNCHANGED <<queue, todo, plan, life, lag>> /\ (UNCHANGED <<late, incoming>> \/ late # None
                                                          \/ (late' = None /\ incoming' = None))
  <2>1. \A c : DeviceTtl(c)' = DeviceTtl(c')
    BY <1>3 DEF DeviceTtl, Remaining
  <2> QED
    BY <1>3, <2>1 DEF AtWork, Sending, Clear, Show, Begin, Rows, End
<1>4. CASE SyncSlot
  <2> DEFINE i == Head(todo)
  <2>1. /\ UNCHANGED <<todo, plan, life, lag>>
        /\ \/ plan[i] # None /\ queue' = Messages(i, plan[i])
           \/ plan[i] = None /\ queue' = <<[kind |-> "clear", slot |-> i]>>
    BY <1>4 DEF SyncSlot
  <2>2. \A c : DeviceTtl(c') = DeviceTtl(c)'
    BY <2>1 DEF DeviceTtl, Remaining
  <2>3. Head(todo') = i /\ plan'[i] = plan[i]
    BY <2>1
  <2>4. CASE plan[i] = None
    BY <2>1, <2>3, <2>4 DEF AtWork, Sending, Clear
  <2>5. CASE plan[i] # None /\ plan[i] \notin Images
    BY <2>1, <2>2, <2>3, <2>5 DEF AtWork, Sending, Messages, Show
  <2>6. CASE plan[i] # None /\ plan[i] \in Images
    BY <2>1, <2>2, <2>3, <2>6 DEF AtWork, Sending, Messages, Begin, Rows, End
  <2> QED
    BY <2>4, <2>5, <2>6
<1>5. CASE Tick /\ queue # <<>>
  <2> DEFINE i == Head(todo)
             c == plan[i]
  <2>1. UNCHANGED <<queue, todo, plan, late, incoming>> /\ pc = "slots"
    BY <1>1, <1>5 DEF Tick, FlowOK
  <2>2. i \in Slots
    BY <1>5, QueueHead
  <2>3. c # None => DeviceTtl(c)' = DeviceTtl(c)
    BY <1>5, <2>1, <2>2, TurnTick
  <2>4. Sending(i)
    BY <1>5 DEF AtWork
  <2>5. i' = i /\ c' = c
    BY <2>1
  <2>6. c \in Images => c # None
    BY NoneAssumption DEF Contents
  <2> HIDE DEF i
  <2>7. c # None => /\ Show(i, c)' = Show(i, c)
                    /\ Begin(c)' = Begin(c)
    BY <2>3, <2>5 DEF Show, Begin
  <2>8. Clear(i)' = Clear(i) /\ \A k \in {1, 2} : Rows(c, k)' = Rows(c, k)
        /\ End(c)' = End(c)
    BY <2>5 DEF Clear, Rows, End
  <2>9. Sending(i)'
    BY <2>1, <2>3, <2>4, <2>5, <2>6, <2>7, <2>8 DEF Sending
  <2> QED
    BY <2>9, <2>5 DEF AtWork, i
<1>6. CASE SendMessage /\ queue' # <<>>
  <2> DEFINE i == Head(todo)
             c == plan[i]
             m == Head(queue)
  <2>1. queue # <<>> /\ m \in Message
    BY <1>6, SendFacts DEF SendMessage
  <2>2. /\ Delivered(m) /\ queue' = Tail(queue)
        /\ UNCHANGED <<todo, pc, lag, plan, life>>
    BY <1>6 DEF SendMessage, NextSlot
  <2>3. /\ c \in Images /\ c # None
        /\ \/ m = Begin(c) /\ queue' = <<Rows(c, 1), Rows(c, 2), End(c)>>
           \/ /\ m = Rows(c, 1) /\ queue' = <<Rows(c, 2), End(c)>>
              /\ incoming # None => incoming.src = c /\ incoming.ttl = DeviceTtl(c)
           \/ /\ m = Rows(c, 2) /\ queue' = <<End(c)>>
              /\ incoming # None => incoming.src = c /\ incoming.ttl = DeviceTtl(c)
    BY <1>6, <2>1, <2>2, QueueHead
  <2>4. Device \in DeviceState /\ Device.incoming = incoming
    BY <1>1 DEF DeviceType, Device
  <2>5. Accepts(Device, m) /\ incoming' = Handled(Device, m).incoming /\ late' = None
    BY <2>2 DEF Delivered, Become
  <2>6. i' = i /\ c' = c /\ DeviceTtl(c)' = DeviceTtl(c)
    BY <2>2 DEF DeviceTtl, Remaining
  <2> HIDE DEF m, i
  <2>7. incoming'.src = c /\ incoming'.ttl = DeviceTtl(c)
    <3>1. CASE m = Begin(c)
      <4>1. m.kind = "begin" /\ m.src = c /\ m.ttl = DeviceTtl(c)
        BY <3>1 DEF Begin
      <4>2. incoming' = [src |-> c, ttl |-> DeviceTtl(c), row |-> 1]
        BY <2>1, <2>4, <2>5, <4>1, HandledTransfer
      <4> QED
        BY <4>2
    <3>2. CASE m = Rows(c, 1) \/ m = Rows(c, 2)
      <4>1. m.kind = "rows"
        BY <3>2 DEF Rows
      <4>2. incoming # None /\ incoming'.src = incoming.src /\ incoming'.ttl = incoming.ttl
        BY <2>1, <2>4, <2>5, <4>1, HandledTransfer
      <4>3. m # Begin(c)
        BY <4>1 DEF Begin
      <4> QED
        BY <2>3, <4>2, <4>3
    <3> QED
      BY <2>3, <3>1, <3>2
  <2>8. \A k \in {1, 2} : Rows(c, k)' = Rows(c, k)
    BY <2>6 DEF Rows
  <2>9. End(c)' = End(c)
    BY <2>6 DEF End
  <2>10. Sending(i)'
    BY <2>3, <2>5, <2>6, <2>7, <2>8, <2>9 DEF Sending
  <2> QED
    BY <2>6, <2>10 DEF AtWork, i
<1>7. CASE LateRequest
  BY <1>3, <1>7 DEF LateRequest, daemonVars
<1>8. CASE Restart
  <2>1. UNCHANGED <<queue, todo, plan, life, lag>> /\ late' = None /\ incoming' = None
    BY <1>8 DEF Restart, Become, Blank, daemonVars
  <2> QED
    BY <1>3, <2>1
<1>9. CASE WriteTemporary \/ Rename
  <2>1. UNCHANGED <<queue, todo, plan, life, lag, late, incoming>>
    BY <1>9 DEF WriteTemporary, Rename, daemonVars, deviceVars
  <2> QED
    BY <1>3, <2>1
<1>10. ASSUME Next
       PROVE  \/ queue' = <<>> \/ SyncSlot \/ (Tick /\ queue # <<>>)
              \/ (SendMessage /\ queue' # <<>>) \/ LateRequest \/ Restart
              \/ (WriteTemporary \/ Rename)
  <2>1. BeginTurn \/ FlushInput \/ FlushStatus \/ MakePlan \/ DaemonStarts => queue' = <<>>
    BY <1>1 DEF FlowOK, BeginTurn, FlushInput, FlushStatus, MakePlan, DaemonStarts
  <2>2. KeepSlot \/ DaemonDies => queue' = <<>>
    BY DEF KeepSlot, NextSlot, DaemonDies
  <2>3. Tick => queue' = queue
    BY DEF Tick
  <2> QED
    BY <1>10, <2>1, <2>2, <2>3 DEF Next, Turn
<1> QED
  BY <1>2, <1>4, <1>5, <1>6, <1>7, <1>8, <1>9, <1>10

\* What BeliefTrue says of one slot: what it shows is what was sent, until its deadline.
ShownAsSent(i) ==
  /\ Seen(i) = {sent[i].src}
  /\ screen[i].left \in sent[i].left .. sent[i].left + MaxLag

\* ... where the daemon can know it.
Sure(i) ==
  /\ i \notin unsure /\ sent[i] # None /\ sent[i].left > 0
  /\ ~reset /\ late = None
  /\ queue # <<>> => Head(todo) # i

LEMMA Believed == BeliefTrue <=> \A i \in Slots : Sure(i) => ShownAsSent(i)
BY DEF BeliefTrue, Sure, ShownAsSent

\* A message about another slot leaves what is seen in this one.
LEMMA SeenElsewhere ==
  ASSUME DeviceType, Received(Device), NEW m \in Message, NEW i \in Slots, i \notin Touches(m),
         Become(Device) \/ Become(Handled(Device, m))
  PROVE  screen'[i] = screen[i] /\ Seen(i)' = Seen(i)
<1> DEFINE d == Handled(Device, m)
<1>1. /\ Device \in DeviceState /\ Device.screen = screen /\ Device.pixels = pixels
      /\ screen \in [Slots -> Shown \cup {None}]
  BY DEF DeviceType, Device, DeviceState
<1>2. d.screen[i] = screen[i]
  <2>1. CASE m.kind \in {"show", "clear"}
    <3>1. m.slot # i
      BY <2>1 DEF Touches
    <3> QED
      BY <1>1, <2>1, <3>1 DEF Handled, DeviceState
  <2>2. CASE m.kind = "end"
    <3>1. i # Overlay
      BY <2>2 DEF Touches
    <3> QED
      BY <1>1, <2>2, <3>1 DEF Handled, DeviceState
  <2>3. CASE m.kind \in {"begin", "rows"}
    BY <1>1, <2>3 DEF Handled, DeviceState
  <2>4. CASE m.kind \in {"status", "input"}
    BY <1>1, <2>4 DEF Handled, DeviceState
  <2> QED
    BY <2>1, <2>2, <2>3, <2>4 DEF Message, SlotMessage
<1>3. d.pixels = pixels \/ i # Overlay
  <2>1. CASE m.kind = "rows"
    BY <2>1 DEF Touches
  <2>2. CASE m.kind \in {"show", "clear"}
    BY <1>1, <2>2 DEF Handled, DeviceState
  <2>3. CASE m.kind \in {"begin", "end"}
    BY <1>1, <2>3 DEF Handled, DeviceState
  <2>4. CASE m.kind \in {"status", "input"}
    BY <1>1, <2>4 DEF Handled, DeviceState
  <2> QED
    BY <2>1, <2>2, <2>3, <2>4 DEF Message, SlotMessage
<1>4. screen[i] # None => (screen[i].src \in Images => i = Overlay)
  BY <1>1 DEF Received
<1>5. (screen' = screen /\ pixels' = pixels) \/ (screen' = d.screen /\ pixels' = d.pixels)
  BY <1>1 DEF Become
<1> HIDE DEF d
<1>6. screen'[i] = screen[i] /\ (pixels' = pixels \/ i # Overlay)
  BY <1>2, <1>3, <1>5
<1> QED
  BY <1>4, <1>6 DEF Seen

\* A call about another slot leaves a belief true that it leaves sure.
LEMMA SureElsewhere ==
  ASSUME DeviceType, Received(Device), LateResets, BeliefTrue, sent \in [Slots -> Sent \cup {None}],
         NEW m \in Message, NEW i \in Slots, i \notin Touches(m),
         queue # <<>> => Head(todo) # i,
         \/ Delivered(m) /\ sent'[i] = Forget[i] /\ (i \in unsure => i \in unsure')
         \/ Fails(m) /\ sent'[i] = sent[i],
         Sure(i)'
  PROVE  ShownAsSent(i)'
<1>1. Become(Device) \/ Become(Handled(Device, m))
  BY CallBecomes DEF CallOf
<1>2. screen'[i] = screen[i] /\ Seen(i)' = Seen(i)
  BY <1>1, SeenElsewhere
<1>3. i \notin unsure' /\ sent'[i] # None /\ sent'[i].left > 0 /\ ~reset' /\ late' = None
  BY DEF Sure
<1>4. ~reset /\ sent'[i] = sent[i] /\ i \notin unsure
  <2>1. CASE Delivered(m) /\ sent'[i] = Forget[i] /\ (i \in unsure => i \in unsure')
    BY <1>3, <2>1 DEF Forget
  <2>2. CASE Rejected(m) /\ sent'[i] = sent[i]
    BY <1>3, <2>2 DEF Rejected
  <2>3. CASE Unanswered(m)
    BY <1>3, <2>3 DEF Unanswered
  <2> QED
    BY <2>1, <2>2, <2>3 DEF Fails
<1>5. late = None
  BY <1>4 DEF LateResets
<1>6. Sure(i)
  BY <1>3, <1>4, <1>5 DEF Sure
<1>7. ShownAsSent(i)
  BY <1>6, Believed
<1> QED
  BY <1>2, <1>4, <1>7 DEF ShownAsSent

\* The last message of a slot, delivered, shows what was planned.
LEMMA LastDelivered ==
  ASSUME TypeOK, Received(Device), Planned, AtWork, SendMessage,
         NEW m, m = Head(queue), Delivered(m), Len(queue) = 1,
         NEW i, i = Head(todo), NEW c, c = plan[i], c # None
  PROVE  /\ Seen(i)' = {c}
         /\ screen'[i].left = DeviceTtl(c)
<1>1. queue # <<>> /\ Tail(queue) = <<>>
  BY SendFacts
<1>2. /\ i \in Slots
      /\ \/ c \in Contents \ Images /\ m = Show(i, c)
         \/ /\ c \in Images /\ i = Overlay /\ m = End(c)
            /\ incoming # None => incoming.src = c /\ incoming.ttl = DeviceTtl(c)
  BY <1>1, QueueHead, Tuples
<1>3. /\ Device \in DeviceState /\ Device.screen = screen /\ Device.pixels = pixels
      /\ Device.incoming = incoming
      /\ screen \in [Slots -> Shown \cup {None}] /\ pixels \in [{1, 2} -> Contents \cup {None}]
      /\ incoming \in Transfer \cup {None}
  BY DEF TypeOK, DeviceType, Device, DeviceState
<1>4. /\ Accepts(Device, m)
      /\ screen' = Handled(Device, m).screen /\ pixels' = Handled(Device, m).pixels
  BY DEF Delivered, Become
<1>6. CASE c \in Contents \ Images /\ m = Show(i, c)
  <2>1. screen'[i] = [src |-> c, left |-> DeviceTtl(c)]
    BY <1>2, <1>3, <1>4, <1>6 DEF Handled, DeviceState, Show
  <2>2. screen'[i] # None
    <3>1. DeviceTtl(c) \in Ttls
      BY SendFacts
    <3>2. screen'[i] \in Shown
      BY <1>6, <2>1, <3>1 DEF Shown
    <3> QED
      BY <3>2, NoneAssumption
  <2>3. screen'[i].src = c /\ screen'[i].left = DeviceTtl(c)
    BY <2>1
  <2> QED
    BY <1>6, <2>2, <2>3 DEF Seen
<1>7. CASE c \in Images /\ i = Overlay /\ m = End(c)
  <2>1. m.kind = "end" /\ m.src = c
    BY <1>7 DEF End
  <2>2. incoming # None /\ incoming.row = 3 /\ incoming.src = c
    BY <1>3, <1>4, <2>1 DEF Accepts
  <2>3. incoming.ttl = DeviceTtl(c)
    BY <1>2, <1>7, <2>1, <2>2 DEF Show
  <2>4. pixels[1] = c /\ pixels[2] = c
    <3>1. \A k \in {1, 2} : k < 3
      OBVIOUS
    <3> QED
      BY <1>3, <2>2, <3>1 DEF Received
  <2>5. Handled(Device, m) = [Device EXCEPT !.screen[Overlay] = [src |-> c, left |-> incoming.ttl],
                                            !.incoming = None]
    BY <1>3, <1>4, <2>1 DEF Handled
  <2>6. screen' = [screen EXCEPT ![i] = [src |-> c, left |-> incoming.ttl]] /\ pixels' = pixels
    BY <1>3, <1>4, <1>7, <2>5 DEF DeviceState
  <2>7. screen'[i] = [src |-> c, left |-> DeviceTtl(c)]
    BY <1>2, <1>3, <2>3, <2>6
  <2>8. screen'[i] # None
    <3>1. DeviceTtl(c) \in Ttls
      BY <1>2, <1>7, SendFacts, NoneAssumption DEF Contents
    <3>2. screen'[i] \in Shown
      BY <1>7, <2>7, <3>1 DEF Shown, Contents
    <3> QED
      BY <3>2, NoneAssumption
  <2>9. screen'[i].src = c /\ screen'[i].left = DeviceTtl(c)
    BY <2>7
  <2> QED
    BY <1>7, <2>4, <2>6, <2>8, <2>9 DEF Seen
<1> QED
  BY <1>2, <1>6, <1>7

LEMMA BeliefSend ==
  ASSUME TypeOK, Received(Device), LateResets, Planned, AtWork, BeliefTrue, SendMessage
  PROVE  BeliefTrue'
<1> PICK i : i = Head(todo)
  OBVIOUS
<1> PICK c : c = plan[i]
  OBVIOUS
<1> PICK m : m = Head(queue)
  OBVIOUS
<1>1. /\ i \in Slots /\ m \in Message /\ queue # <<>>
      /\ c # None => DeviceTtl(c) \in Ttls
  BY SendFacts
<1>2. DaemonType /\ DeviceType /\ lag \in Nat
  BY DEF TypeOK, DaemonType
<1>3. Touches(m) = {i}
  BY <1>1, QueueHead DEF Touches, Clear, Show, Begin, Rows, End
<1>4. /\ \/ /\ Delivered(m) /\ Len(queue) = 1
            /\ unsure' = unsure \ {i}
            /\ sent' = [Forget EXCEPT ![i] = IF c = None THEN None
                                             ELSE [src |-> c, age |-> lag, left |-> DeviceTtl(c) - lag]]
         \/ /\ Delivered(m) /\ Len(queue) # 1 /\ unsure' = unsure /\ sent' = Forget
            /\ queue' = Tail(queue) /\ todo' = todo
         \/ Fails(m) /\ sent' = sent
  BY DEF SendMessage
<1>5. sent \in [Slots -> Sent \cup {None}] /\ Forget \in [Slots -> Sent \cup {None}]
  BY <1>2, ForgetType DEF DaemonType
<1> SUFFICES ASSUME NEW j \in Slots, Sure(j)' PROVE ShownAsSent(j)'
  <2>1. BeliefTrue' <=> \A j \in Slots : Sure(j)' => ShownAsSent(j)'
    BY Believed DEF BeliefTrue, Sure, ShownAsSent
  <2> QED
    BY <2>1
<1>6. CASE j # i
  <2>1. j \notin Touches(m)
    BY <1>3, <1>6
  <2>2. \/ Delivered(m) /\ sent'[j] = Forget[j] /\ (j \in unsure => j \in unsure')
        \/ Fails(m) /\ sent'[j] = sent[j]
    BY <1>4, <1>5, <1>6
  <2> QED
    BY <1>1, <1>2, <1>5, <1>6, <2>1, <2>2, SureElsewhere
<1>7. CASE j = i
  <2>1. /\ i \notin unsure' /\ sent'[i] # None /\ ~reset'
        /\ queue' # <<>> => Head(todo') # i
    BY <1>7 DEF Sure
  <2> DEFINE entry == IF c = None THEN None
                      ELSE [src |-> c, age |-> lag, left |-> DeviceTtl(c) - lag]
  <2>2. CASE Fails(m)
    BY <1>1, <1>3, <2>1, <2>2 DEF Fails, Rejected, Unanswered
  <2>3. CASE Delivered(m) /\ Len(queue) # 1 /\ queue' = Tail(queue) /\ todo' = todo
    <3>1. Tail(queue) # <<>>
      BY <2>3, SendFacts
    <3> QED
      BY <2>1, <2>3, <3>1
  <2>4. CASE Delivered(m) /\ Len(queue) = 1 /\ sent' = [Forget EXCEPT ![i] = entry]
    <3>1. sent'[i] = entry
      BY <1>1, <1>5, <2>4
    <3>2. c # None /\ sent'[i].src = c /\ sent'[i].left = DeviceTtl(c) - lag
      BY <2>1, <3>1
    <3> HIDE DEF entry
    <3>3. Seen(i)' = {c} /\ screen'[i].left = DeviceTtl(c)
      BY <2>4, <3>2, LastDelivered
    <3>4. DeviceTtl(c) \in Int /\ lag \in 0 .. MaxLag /\ MaxLag \in Nat
      BY <1>1, <1>2, <3>2, SlotSyncAssumption DEF Ttls, DaemonType
    <3>5. screen'[i].left \in sent'[i].left .. sent'[i].left + MaxLag
      <4> DEFINE t == DeviceTtl(c)
      <4>1. t \in Int /\ screen'[i].left = t /\ sent'[i].left = t - lag
        BY <3>2, <3>3, <3>4
      <4> HIDE DEF t
      <4>2. t \in (t - lag) .. (t - lag + MaxLag)
        BY <3>4, <4>1
      <4> QED
        BY <4>1, <4>2
    <3>6. ShownAsSent(i)'
      BY <3>2, <3>3, <3>5 DEF ShownAsSent
    <3> QED
      BY <1>7, <3>6
  <2> QED
    BY <1>4, <2>2, <2>3, <2>4
<1> QED
  BY <1>6, <1>7

LEMMA BeliefTick ==
  ASSUME TypeOK, BeliefTrue, Tick, NEW i \in Slots, Sure(i)'
  PROVE  ShownAsSent(i)'
<1>1. /\ sent[i] \in Sent \cup {None} /\ screen[i] \in Shown \cup {None}
      /\ MaxLag \in Nat
  BY SlotSyncAssumption DEF TypeOK, DaemonType, DeviceType, DeviceState, Device
<1>2. /\ sent'[i] = IF sent[i] = None THEN None
                    ELSE [Older(sent[i]) EXCEPT !.age = AtMost(@ + 1, Refresh + MaxLag)]
      /\ screen'[i] = Expired(screen[i])
      /\ UNCHANGED <<pixels, reset, late, unsure, queue, todo>>
  BY DEF Tick
<1>3. /\ i \notin unsure /\ sent'[i] # None /\ sent'[i].left > 0
      /\ ~reset /\ late = None
      /\ queue # <<>> => Head(todo) # i
  BY <1>2 DEF Sure
<1>4. sent[i] \in Sent /\ sent[i] # None
  BY <1>1, <1>2, <1>3
<1>5. sent'[i].src = sent[i].src /\ sent'[i].left = AtLeast(sent[i].left - 1, -MaxLag)
  BY <1>2, <1>4 DEF Older, Sent
<1>6. sent[i].left \in Int /\ sent[i].left > 1 /\ sent'[i].left = sent[i].left - 1
  BY <1>1, <1>3, <1>4, <1>5 DEF AtLeast, Sent
<1>7. ShownAsSent(i)
  <2>1. Sure(i)
    BY <1>3, <1>4, <1>6 DEF Sure
  <2> QED
    BY <2>1, Believed
<1>8. screen[i] # None
  BY <1>7 DEF ShownAsSent, Seen
<1>9. screen[i] \in Shown /\ screen[i].left \in Nat /\ screen[i].left >= sent[i].left
      /\ screen[i].left <= sent[i].left + MaxLag
  BY <1>1, <1>6, <1>7, <1>8 DEF ShownAsSent, Shown, Ttls
<1>10. screen'[i] = [screen[i] EXCEPT !.left = AtLeast(screen[i].left - 1, -MaxLag)]
  BY <1>2, <1>6, <1>8, <1>9 DEF Expired, Older, Forever
<1>11. AtLeast(screen[i].left - 1, -MaxLag) = screen[i].left - 1
  BY <1>1, <1>6, <1>9 DEF AtLeast
<1>12. screen'[i].src = screen[i].src /\ screen'[i].left = screen[i].left - 1
  BY <1>9, <1>10, <1>11 DEF Shown
<1>13. screen'[i] # None
  <2>1. Expired(screen[i]) \in Shown \cup {None}
    BY <1>9, OlderType
  <2>2. screen[i].left # 1
    BY <1>6, <1>9
  <2>3. screen[i].left - 1 \in Ttls
    BY <1>6, <1>9, SlotSyncAssumption DEF Shown, Ttls
  <2>4. screen'[i] \in Shown
    BY <1>9, <1>10, <1>11, <2>3 DEF Shown
  <2> QED
    BY <2>4, NoneAssumption
<1>14. Seen(i)' = Seen(i)
  BY <1>2, <1>8, <1>12, <1>13 DEF Seen
<1>15. screen'[i].left \in sent'[i].left .. sent'[i].left + MaxLag
  BY <1>1, <1>6, <1>9, <1>12
<1> QED
  BY <1>5, <1>7, <1>14, <1>15 DEF ShownAsSent

LEMMA BeliefStep ==
  ASSUME TypeOK, Belief, Next
  PROVE  BeliefTrue'
<1>1. DaemonType /\ DeviceType /\ FlowOK
      /\ sent \in [Slots -> Sent \cup {None}]
  BY DEF TypeOK, DaemonType
<1>2. Received(Device) /\ LateResets /\ Planned /\ AtWork /\ BeliefTrue
  BY DEF Belief
<1>3. CASE SendMessage
  BY <1>2, <1>3, BeliefSend
<1> SUFFICES ASSUME ~SendMessage, NEW i \in Slots, Sure(i)' PROVE ShownAsSent(i)'
  <2>1. BeliefTrue' <=> \A i \in Slots : Sure(i)' => ShownAsSent(i)'
    BY DEF BeliefTrue, Sure, ShownAsSent
  <2> QED
    BY <1>3, <2>1
<1>4. /\ i \notin unsure' /\ sent'[i] # None /\ ~reset' /\ late' = None
  BY DEF Sure
<1>5. CASE FlushInput
  <2> DEFINE m == [kind |-> "input", id |-> mode]
  <2>1. \/ Delivered(m) /\ sent' = Forget /\ unsure' = unsure
        \/ Fails(m) /\ sent' = sent
    BY <1>5 DEF FlushInput
  <2>2. m \in Message /\ Touches(m) = {}
    BY InputMessage DEF Touches
  <2>3. queue = <<>>
    BY <1>1, <1>5 DEF FlowOK, FlushInput
  <2> HIDE DEF m
  <2> QED
    BY <1>1, <1>2, <2>1, <2>2, <2>3, SureElsewhere
<1>6. CASE FlushStatus /\ ~UNCHANGED <<deviceVars, unsure, sent, queue>>
  <2> DEFINE m == [kind |-> "status", id |-> waiting.id, ttl |-> StatusTtl]
  <2>1. \/ Delivered(m) /\ sent' = Forget /\ unsure' = unsure
        \/ Fails(m) /\ sent' = sent
    BY <1>6 DEF FlushStatus
  <2>2. m \in Message /\ Touches(m) = {}
    BY <1>1, <1>6, StatusMessage DEF Touches, FlushStatus, FlowOK
  <2>3. queue = <<>>
    BY <1>1, <1>6 DEF FlowOK, FlushStatus
  <2> HIDE DEF m
  <2> QED
    BY <1>1, <1>2, <2>1, <2>2, <2>3, SureElsewhere
\* Whoever leaves the device and the belief as they are, or forgets a slot.
<1>7. CASE /\ UNCHANGED <<deviceVars, unsure>>
           /\ sent'[i] = sent[i] \/ sent'[i] = None
           /\ queue = <<>> \/ (queue' = queue /\ todo' = todo)
  <2>1. Sure(i)
    BY <1>4, <1>7 DEF Sure, deviceVars
  <2>2. ShownAsSent(i)
    BY <1>2, <2>1, Believed
  <2> QED
    BY <1>4, <1>7, <2>2 DEF ShownAsSent, Seen, deviceVars
<1>8. CASE Tick
  BY <1>2, <1>8, BeliefTick
<1>9. CASE LateRequest
  BY <1>2, <1>4, <1>9 DEF LateRequest, LateResets
<1>10. CASE Restart
  BY <1>4, <1>10 DEF Restart
<1>11. CASE DaemonDies \/ DaemonStarts
  BY <1>4, <1>11 DEF DaemonDies, DaemonStarts
<1>12. BeginTurn \/ MakePlan \/ KeepSlot \/ SyncSlot \/ WriteTemporary \/ Rename =>
         /\ UNCHANGED <<deviceVars, unsure>>
         /\ sent'[i] = sent[i] \/ sent'[i] = None
         /\ queue = <<>> \/ (queue' = queue /\ todo' = todo)
  <2>1. BeginTurn \/ MakePlan => queue = <<>> /\ UNCHANGED <<deviceVars, unsure, sent>>
    BY <1>1 DEF BeginTurn, MakePlan, FlowOK
  <2>2. SyncSlot => queue = <<>> /\ UNCHANGED <<deviceVars, unsure, sent>>
    BY DEF SyncSlot, history
  <2>3. KeepSlot => /\ queue = <<>> /\ UNCHANGED <<deviceVars, unsure>>
                    /\ sent' = sent \/ sent' = [sent EXCEPT ![Head(todo)] = None]
    BY DEF KeepSlot, history
  <2>4. WriteTemporary \/ Rename => UNCHANGED <<deviceVars, unsure, sent, queue, todo>>
    BY DEF WriteTemporary, Rename, daemonVars, history
  <2>5. sent' = [sent EXCEPT ![Head(todo)] = None] => sent'[i] = sent[i] \/ sent'[i] = None
    BY <1>1
  <2> QED
    BY <2>1, <2>2, <2>3, <2>4, <2>5
<1>13. FlushStatus => queue = <<>>
  BY <1>1 DEF FlowOK, FlushStatus
<1> QED
  BY <1>5, <1>6, <1>7, <1>8, <1>9, <1>10, <1>11, <1>12, <1>13 DEF Next, Turn

\* Of the screen the daemon believes what is true, all the time.
LEMMA BeliefAlways == Spec => []Belief
<1>1. Init => Belief
  <2> SUFFICES ASSUME Init PROVE Belief
    OBVIOUS
  <2>1. Device = Blank
    BY DEF Init, Device, Blank
  <2>2. Received(Device)
    BY <2>1 DEF Blank, Received
  <2>3. pc = "idle" /\ queue = <<>> /\ late = None /\ reset = TRUE
        /\ \A i \in Slots : plan[i] = None
    BY DEF Init
  <2>4. Planned
    BY <2>3, NoneAssumption DEF Planned, Contents
  <2> QED
    BY <2>2, <2>3, <2>4 DEF Belief, LateResets, AtWork, BeliefTrue
<1>2. TypeOK /\ Belief /\ [Next]_vars => Belief'
  <2> SUFFICES ASSUME TypeOK, Belief, [Next]_vars PROVE Belief'
    OBVIOUS
  <2>1. CASE Next
    <3>1. Received(Device) /\ LateResets /\ Planned /\ AtWork
      BY DEF Belief
    <3>2. Received(Device)'
      BY <2>1, <3>1, ReceivedStep
    <3> QED
      BY <2>1, <3>1, <3>2, LateStep, PlannedStep, AtWorkStep, BeliefStep DEF Belief
  <2>2. CASE UNCHANGED vars
    <3>1. UNCHANGED <<daemonVars, deviceVars, unsure>>
      BY <2>2 DEF vars, history
    <3>2. Device' = Device
      BY <3>1, SameDevice DEF deviceVars
    <3>3. Received(Device)'
      BY <3>2 DEF Belief
    <3>4. LateResets' /\ Planned'
      BY <3>1 DEF Belief, daemonVars, deviceVars, LateResets, Planned, Remaining
    <3>5. AtWork'
      BY <3>1 DEF Belief, daemonVars, deviceVars, AtWork, Sending, Clear, Show, Begin, Rows, End,
         DeviceTtl, Remaining
    <3>6. BeliefTrue'
      BY <3>1 DEF Belief, daemonVars, deviceVars, BeliefTrue, Seen
    <3> QED
      BY <3>3, <3>4, <3>5, <3>6 DEF Belief
  <2> QED
    BY <2>1, <2>2
<1> QED
  BY <1>1, <1>2, TypeCorrect, PTL DEF Spec

\* What the daemon takes to be on the device is there, as one whole image if it is an image,
\* for every number of slots and length of the intervals: a call whose effect is not known
\* comes with a Reset, and a half sent image is never taken for the whole (sync_slots).
THEOREM BeliefTheorem == Spec => []BeliefTrue
<1>1. Belief => BeliefTrue
  BY DEF Belief
<1> QED
  BY <1>1, BeliefAlways, PTL

-----------------------------------------------------------------------------
(* By when the screen is right.                                            *)

\* Does the turn have yet to look at the slot?
Ahead(i) ==
  pc \in {"input", "status", "plan"} \/ (pc = "slots" /\ \E k \in 1 .. Len(todo) : todo[k] = i)

\* For how long a slot that is due can have gone without being sent: it is looked at in every
\* turn, as of the time at which that began.
Latest(i) ==
  IF pc = "idle" THEN IF ran THEN Refresh - 1 + MaxLag ELSE Refresh + MaxLag
  ELSE IF Ahead(i) THEN Refresh + MaxLag + lag ELSE Refresh - 1 + lag

\* The device shows what is planned, and will until that is over or sent again.
Lasting(i) ==
  \/ life[plan[i]].bounded /\ life[plan[i]].left <= screen[i].left
  \/ /\ sent[i].age < Refresh + MaxLag => Refresh + Margin <= screen[i].left + sent[i].age
     /\ Refresh + Margin <= screen[i].left + Latest(i)
Kept(i) ==
  /\ ~reset /\ sent[i] # None /\ sent[i].src = plan[i] /\ Seen(i) = {plan[i]}
  /\ plan[i] \in Images => AtMost(sent[i].age, ImageGap + MaxLag) <= imageAge
  /\ Lasting(i)

\* Whatever was sent was sent before the calm began, and will be sent again.
Pending(i) ==
  /\ calm <= Latest(i)
  /\ sent[i] # None /\ sent[i].src = plan[i] => AtMost(calm, Refresh + MaxLag) <= sent[i].age
  /\ plan[i] \in Images => AtMost(calm, ImageGap + MaxLag) <= imageAge

SlotSettling(i) ==
  alive /\ plan[i] # None /\ ~Over(plan[i]) => Kept(i) \/ Pending(i)
SlotEmptying(i) ==
  alive /\ plan[i] = None /\ screen[i] # None => calm + screen[i].left <= Refresh + Margin

Aged == \A i \in Slots : sent[i] # None => sent[i].age >= 0

Settling == Aged /\ \A i \in Slots : SlotSettling(i) /\ SlotEmptying(i)

LEMMA Times ==
  /\ MaxLag \in Nat /\ Refresh \in Nat /\ Refresh >= 1 /\ Margin \in Nat /\ ImageGap \in Nat
  /\ ImageGap <= Refresh /\ 2 * MaxLag < Margin
  /\ CalmMax \in Nat /\ CalmMax > Refresh + Margin
<1>1. /\ MaxLag \in Nat /\ Refresh \in Nat /\ Refresh >= 1 /\ Margin \in Nat /\ ImageGap \in Nat
  BY SlotSyncAssumption
<1> QED
  BY <1>1, SettleAssumption DEF CalmMax

\* A slot is not late before the calm begins, and never by more than two turns.
LEMMA LatestRange ==
  ASSUME TypeOK, NEW i \in Slots
  PROVE  Latest(i) \in Nat /\ Latest(i) <= Refresh + 2 * MaxLag
<1>1. lag \in Nat /\ lag <= MaxLag
  BY Times DEF TypeOK, DaemonType
<1>2. Latest(i) \in {Refresh - 1 + MaxLag, Refresh + MaxLag, Refresh + MaxLag + lag, Refresh - 1 + lag}
  BY DEF Latest
<1> QED
  BY <1>1, <1>2, Times

LEMMA LatestNext ==
  ASSUME TypeOK', NEW i \in Slots
  PROVE  Latest(i)' \in Nat /\ Latest(i)' <= Refresh + 2 * MaxLag
<1>1. lag' \in Nat /\ lag' <= MaxLag
  BY Times DEF TypeOK, DaemonType
<1>2. Latest(i)' \in {Refresh - 1 + MaxLag, Refresh + MaxLag, Refresh + MaxLag + lag', Refresh - 1 + lag'}
  BY DEF Latest
<1> QED
  BY <1>1, <1>2, Times

\* A slot that was disturbed just now is right or pending, whatever is on the device.
LEMMA Disturbed ==
  ASSUME TypeOK', Aged', calm' = 0, NEW i \in Slots
  PROVE  SlotSettling(i)' /\ SlotEmptying(i)'
<1>1. lag' \in 0 .. MaxLag /\ imageAge' \in Nat /\ screen'[i] \in Shown \cup {None}
  BY DEF TypeOK, DaemonType, DeviceType, Device, DeviceState
<1>2. Latest(i)' \in Nat
  BY LatestNext
<1>3. AtMost(calm', Refresh + MaxLag) = 0 /\ AtMost(calm', ImageGap + MaxLag) = 0
  BY Times DEF AtMost
<1>4. Pending(i)'
  BY <1>1, <1>2, <1>3 DEF Pending, Aged
<1>5. ASSUME screen'[i] # None PROVE calm' + screen'[i].left <= Refresh + Margin
  BY <1>1, <1>5, Times DEF Shown, Ttls
<1> QED
  BY <1>4, <1>5 DEF SlotSettling, SlotEmptying

\* A slot that nobody looks at stays right or pending: the daemon has the same record of it,
\* or forgets it by a Reset, and the device shows the same.
LEMMA Undisturbed ==
  ASSUME NEW i \in Slots, SlotSettling(i), TypeOK, TypeOK',
         UNCHANGED <<alive, plan, life, calm>>,
         (sent'[i] = sent[i] /\ reset' = reset) \/ (sent'[i] = Forget[i] /\ reset' = FALSE),
         imageAge' = imageAge \/ plan[i] \notin Images,
         Latest(i) <= Latest(i)',
         Seen(i) = {plan[i]} => Seen(i)' = {plan[i]} /\ screen'[i].left = screen[i].left
  PROVE  SlotSettling(i)'
<1> SUFFICES ASSUME alive, plan[i] # None, ~Over(plan[i]) PROVE Kept(i)' \/ Pending(i)'
  BY DEF SlotSettling, Over
<1>1. Latest(i) \in Nat /\ calm \in Nat
  BY LatestRange DEF TypeOK, ClockType
<1>2. Latest(i)' \in Nat
  BY LatestNext
<1>3. reset \in BOOLEAN
  BY DEF TypeOK, DeviceType
<1>4. CASE Kept(i)
  <2>1. ~reset /\ reset' = FALSE /\ sent'[i] = sent[i] /\ sent[i] # None
    BY <1>3, <1>4 DEF Kept, Forget
  <2>2. Seen(i)' = {plan[i]} /\ screen'[i].left = screen[i].left
    BY <1>4 DEF Kept
  <2>3. screen[i].left \in Int
    <3>1. screen[i] # None
      BY <1>4 DEF Kept, Seen
    <3>2. screen[i] \in Shown
      BY <3>1 DEF TypeOK, DeviceType, Device, DeviceState
    <3> QED
      BY <3>2, Times DEF Shown, Ttls
  <2>4. Lasting(i)'
    <3>1. Lasting(i)
      BY <1>4 DEF Kept
    <3>2. CASE life[plan[i]].bounded /\ life[plan[i]].left <= screen[i].left
      BY <2>2, <3>2 DEF Lasting
    <3>3. CASE /\ sent[i].age < Refresh + MaxLag => Refresh + Margin <= screen[i].left + sent[i].age
               /\ Refresh + Margin <= screen[i].left + Latest(i)
      <4>1. Refresh + Margin <= screen'[i].left + Latest(i)'
        BY <1>1, <1>2, <2>2, <2>3, <3>3, Times
      <4> QED
        BY <2>1, <2>2, <3>3, <4>1 DEF Lasting
    <3> QED
      BY <3>1, <3>2, <3>3 DEF Lasting
  <2> QED
    BY <1>4, <2>1, <2>2, <2>4 DEF Kept
<1>5. CASE Pending(i)
  <2>1. sent'[i] = sent[i] \/ sent'[i] = None
    BY DEF Forget
  <2>2. calm' <= Latest(i)'
    BY <1>1, <1>2, <1>5 DEF Pending
  <2> QED
    BY <1>5, <2>1, <2>2 DEF Pending
<1> QED
  BY <1>4, <1>5 DEF SlotSettling

\* Whoever goes on to the next slot has not made it later than it was allowed to be.
LEMMA LookedAt ==
  ASSUME TypeOK, NextSlot, NEW i \in Slots
  PROVE  Refresh - 1 + lag <= Latest(i)' /\ (i # Head(todo) /\ pc = "slots" => Latest(i) <= Latest(i)')
<1>1. lag \in Nat /\ lag <= MaxLag /\ todo \in Seq(Slots)
  BY Times DEF TypeOK, DaemonType
<1>2. \/ pc' = "idle" /\ ran' = TRUE /\ todo' = <<>> /\ todo' = Tail(todo)
      \/ pc' = "slots" /\ lag' = lag /\ todo' = Tail(todo) /\ todo' # <<>>
  BY DEF NextSlot
<1>3. Latest(i)' \in {Refresh - 1 + MaxLag, Refresh + MaxLag + lag, Refresh - 1 + lag}
  BY <1>2 DEF Latest
<1>4. Refresh - 1 + lag <= Latest(i)'
  BY <1>1, <1>3, Times
<1>5. ASSUME i # Head(todo), pc = "slots" PROVE Latest(i) <= Latest(i)'
  <2>1. todo # <<>>
    BY <1>5 DEF TypeOK, FlowOK
  <2>2. ASSUME NEW k \in 1 .. Len(todo), todo[k] = i
        PROVE  k - 1 \in 1 .. Len(Tail(todo)) /\ Tail(todo)[k - 1] = i
    <3>1. todo[1] = Head(todo) /\ Len(Tail(todo)) = Len(todo) - 1 /\ Len(todo) \in Nat
      BY <1>1, <2>1
    <3>2. k # 1 /\ k - 1 \in 1 .. Len(Tail(todo))
      BY <1>5, <2>2, <3>1
    <3>3. Tail(todo)[k - 1] = todo[k]
      BY <1>1, <2>1, <3>2
    <3> QED
      BY <2>2, <3>2, <3>3
  <2>3. CASE pc' = "idle" /\ ran' = TRUE /\ todo' = <<>> /\ todo' = Tail(todo)
    <3>1. Len(Tail(todo)) = 0
      <4>1. Tail(todo) = <<>>
        BY <2>3
      <4>2. Len(<<>>) = 0
        OBVIOUS
      <4> QED
        BY <4>1, <4>2
    <3>2. ~Ahead(i)
      BY <1>5, <2>2, <3>1 DEF Ahead
    <3>3. Latest(i) = Refresh - 1 + lag
      BY <1>5, <3>2 DEF Latest
    <3> QED
      BY <1>4, <3>3
  <2>4. CASE pc' = "slots" /\ lag' = lag /\ todo' = Tail(todo) /\ todo' # <<>>
    <3>1. Ahead(i) => Ahead(i)'
      BY <1>5, <2>2, <2>4 DEF Ahead
    <3>2. CASE Ahead(i)
      <4>1. Latest(i) = Refresh + MaxLag + lag /\ Latest(i)' = Refresh + MaxLag + lag
        BY <1>5, <2>4, <3>1, <3>2 DEF Latest
      <4> QED
        BY <1>1, <4>1, Times
    <3>3. CASE ~Ahead(i)
      <4>1. Latest(i) = Refresh - 1 + lag
        BY <1>5, <3>3 DEF Latest
      <4> QED
        BY <1>4, <4>1
    <3> QED
      BY <3>2, <3>3
  <2> QED
    BY <1>2, <2>3, <2>4
<1> QED
  BY <1>4, <1>5

\* sync_slots keeps a slot only until it is due, as of the time at which the turn began.
LEMMA KeepHead ==
  ASSUME TypeOK, TypeOK', Planned, Aged, KeepSlot, NEW i, i = Head(todo), SlotSettling(i)
  PROVE  SlotSettling(i)'
<1>1. /\ todo # <<>> /\ pc = "slots" /\ queue = <<>>
      /\ UNCHANGED <<alive, plan, life, imageAge, deviceVars, calm>> /\ NextSlot
  BY DEF TypeOK, FlowOK, KeepSlot, history
<1>2. i \in Slots
  BY <1>1 DEF TypeOK, DaemonType
<1> SUFFICES ASSUME alive, plan[i] # None, ~Over(plan[i]) PROVE Kept(i)' \/ Pending(i)'
  BY <1>1 DEF SlotSettling, Over
<1>3. /\ sent' = sent /\ (Unchanged(i) \/ TooSoon(i))
  BY DEF KeepSlot
<1>4. Refresh - 1 + lag <= Latest(i)' /\ Latest(i)' \in Nat
  BY <1>1, <1>2, LookedAt, LatestNext
<1>5. lag \in Nat /\ lag <= MaxLag /\ imageAge \in Nat /\ calm \in Nat
      /\ (sent[i] # None => sent[i].age \in Int)
  <2>1. sent[i] \in Sent \cup {None}
    BY <1>2 DEF TypeOK, DaemonType
  <2> QED
    BY <2>1, Times DEF TypeOK, DaemonType, ClockType, Sent
<1>6. CASE Kept(i)
  <2>1. sent[i] # None /\ sent[i].src = plan[i] /\ Lasting(i)
        /\ (plan[i] \in Images => AtMost(sent[i].age, ImageGap + MaxLag) <= imageAge)
    BY <1>6 DEF Kept
  <2> DEFINE a == sent[i].age
  <2>2. a - lag < Refresh
    <3>1. CASE Unchanged(i)
      BY <3>1 DEF Unchanged
    <3>2. CASE TooSoon(i)
      <4>1. imageAge - lag < ImageGap /\ AtMost(a, ImageGap + MaxLag) <= imageAge
        BY <2>1, <3>2 DEF TooSoon
      <4>2. a \in Int
        BY <1>5, <2>1
      <4> HIDE DEF a
      <4> QED
        BY <1>5, <4>1, <4>2, Times DEF AtMost
    <3> QED
      BY <1>3, <3>1, <3>2
  <2>3. screen[i].left \in Int
    <3>1. screen[i] # None
      BY <1>6 DEF Kept, Seen
    <3>2. screen[i] \in Shown
      BY <1>2, <3>1 DEF TypeOK, DeviceType, Device, DeviceState
    <3> QED
      BY <3>2, Times DEF Shown, Ttls
  <2>4. UNCHANGED <<screen, pixels, reset>>
    BY <1>1 DEF deviceVars
  <2>5. Lasting(i)'
    <3>1. CASE life[plan[i]].bounded /\ life[plan[i]].left <= screen[i].left
      BY <1>1, <2>4, <3>1 DEF Lasting
    <3>2. CASE a < Refresh + MaxLag => Refresh + Margin <= screen[i].left + a
      <4> DEFINE n == screen[i].left
      <4>1. a \in Int /\ n \in Int
        BY <1>5, <2>1, <2>3
      <4> HIDE DEF a, n
      <4>2. Refresh + Margin <= n + Latest(i)'
        BY <1>4, <1>5, <2>2, <3>2, <4>1, Times DEF n
      <4> QED
        BY <1>1, <1>3, <2>4, <3>2, <4>2 DEF Lasting, a, n
    <3> QED
      BY <2>1, <3>1, <3>2 DEF Lasting
  <2>6. Seen(i)' = Seen(i)
    BY <2>4 DEF Seen
  <2> QED
    BY <1>1, <1>3, <1>6, <2>4, <2>5, <2>6 DEF Kept
<1>7. CASE Pending(i)
  <2>1. calm - lag < Refresh
    <3>1. CASE Unchanged(i)
      <4> DEFINE a == sent[i].age
      <4>1. a - lag < Refresh /\ AtMost(calm, Refresh + MaxLag) <= a /\ a \in Int
        BY <1>5, <1>7, <3>1 DEF Unchanged, Pending
      <4> HIDE DEF a
      <4> QED
        BY <1>5, <4>1, Times DEF AtMost
    <3>2. CASE TooSoon(i)
      <4>1. imageAge - lag < ImageGap /\ AtMost(calm, ImageGap + MaxLag) <= imageAge
        BY <1>7, <3>2 DEF TooSoon, Pending
      <4> QED
        BY <1>5, <4>1, Times DEF AtMost
    <3> QED
      BY <1>3, <3>1, <3>2
  <2>2. calm <= Latest(i)'
    BY <1>4, <1>5, <2>1, Times
  <2> QED
    BY <1>1, <1>3, <1>7, <2>2 DEF Pending
<1> QED
  BY <1>6, <1>7 DEF SlotSettling

\* What the device is sent it shows to the end, or for an interval and the margin.
LEMMA DeviceTtlLasts ==
  ASSUME NEW c \in Contents, life[c] \in Life, lag \in Nat
  PROVE  DeviceTtl(c) = Refresh + Margin \/ (life[c].bounded /\ life[c].left <= DeviceTtl(c))
<1> DEFINE most == (Refresh + Margin) \div Second
           rest == Remaining(c)
<1>1. /\ Second \in Nat \ {0} /\ Refresh \in Nat /\ Margin \in Nat
      /\ Refresh % Second = 0 /\ Margin % Second = 0 /\ Refresh >= 1
  BY SlotSyncAssumption
<1>2. most \in Int /\ most * Second = Refresh + Margin
  <2> DEFINE x == Refresh \div Second
             y == Margin \div Second
  <2>1. x \in Int /\ 0 = Refresh - x * Second /\ y \in Int /\ 0 = Margin - y * Second
    BY <1>1, DivMod
  <2> HIDE DEF x, y
  <2>2. Refresh + Margin = (x + y) * Second
    BY <1>1, <2>1
  <2>3. \A n \in Int : (n * Second) \div Second = n
    BY <1>1
  <2>4. x + y \in Int /\ most = x + y
    BY <2>1, <2>2, <2>3
  <2> QED
    BY <2>2, <2>4
<1> HIDE DEF most
<1>3. rest \in Int /\ life[c].left <= rest /\ UpTo(rest) \in Int
  <2>1. life[c].left \in Int /\ rest = life[c].left + lag
    BY DEF Remaining, Life
  <2> QED
    BY <2>1, UpToInt
<1> HIDE DEF rest
<1>4. rest <= UpTo(rest) * Second
  <2> DEFINE k == rest + Second - 1
  <2>1. k \in Int /\ UpTo(rest) = k \div Second /\ k = rest + Second - 1
    BY <1>1, <1>3 DEF UpTo
  <2> HIDE DEF k
  <2>2. k % Second < Second
    BY <1>1, <2>1
  <2> DEFINE whole == k \div Second
  <2>3. whole \in Int /\ k % Second = k - whole * Second
    <3>1. Second \in Int /\ Second > 0 /\ k \in Int
      BY <1>1, <2>1
    <3>2. k \div Second \in Int /\ k % Second = k - (k \div Second) * Second
      BY ONLY <3>1, DivMod
    <3> QED
      BY <3>2
  <2>4. UpTo(rest) = whole
    BY <2>1
  <2> HIDE DEF whole
  <2>5. whole * Second \in Int
    BY <1>1, <2>3
  <2> QED
    BY <1>1, <1>3, <2>1, <2>2, <2>3, <2>4, <2>5
<1>5. most >= 1
  BY <1>1, <1>2
<1>6. CASE ~life[c].bounded \/ most <= UpTo(rest)
  <2>1. DeviceTtl(c) = AtLeast(1, most) * Second
    BY <1>3, <1>6 DEF DeviceTtl, AtMost, most, rest
  <2> QED
    BY <1>2, <1>5, <2>1 DEF AtLeast
<1>7. CASE life[c].bounded /\ ~(most <= UpTo(rest))
  <2>1. DeviceTtl(c) = AtLeast(1, UpTo(rest)) * Second
    BY <1>7 DEF DeviceTtl, AtMost, most, rest
  <2> DEFINE n == UpTo(rest)
             t == AtLeast(1, n)
  <2>2. t \in Int /\ n <= t
    BY <1>3 DEF AtLeast
  <2>3. n \in Int /\ rest <= n * Second
    BY <1>3, <1>4
  <2> HIDE DEF n, t
  <2>4. n * Second <= t * Second /\ n * Second \in Int /\ t * Second \in Int
    BY <1>1, <2>2, <2>3
  <2>5. rest <= t * Second
    BY <1>3, <2>3, <2>4
  <2>6. DeviceTtl(c) = t * Second
    BY <2>1 DEF t, n
  <2>7. life[c].left \in Int
    BY DEF Life
  <2> QED
    BY <1>3, <1>7, <2>4, <2>5, <2>6, <2>7
<1> QED
  BY <1>6, <1>7

\* The slot whose last message is delivered is right.
LEMMA JustSent ==
  ASSUME TypeOK, TypeOK', Received(Device), Planned, AtWork, SendMessage,
         Delivered(Head(queue)), Len(queue) = 1,
         NEW i, i = Head(todo), NEW c, c = plan[i], c # None,
         sent'[i] = [src |-> c, age |-> lag, left |-> DeviceTtl(c) - lag],
         c \in Images => imageAge' = lag
  PROVE  Kept(i)'
<1>1. i \in Slots /\ DeviceTtl(c) \in Ttls
  BY SendFacts
<1>2. Seen(i)' = {c} /\ screen'[i].left = DeviceTtl(c)
  BY LastDelivered
<1>3. reset' = FALSE /\ plan' = plan /\ life' = life
  BY DEF Delivered, SendMessage
<1>4. lag \in Nat /\ c \in Contents /\ life[c] \in Life
  <2>1. DaemonType /\ FlowOK
    BY DEF TypeOK
  <2>2. lag \in Nat /\ c \in Contents /\ life[c] # None
    BY <1>1, <2>1, Times DEF DaemonType, FlowOK
  <2> QED
    BY <2>1, <2>2 DEF DaemonType
<1> DEFINE t == DeviceTtl(c)
<1>5. t \in Int /\ t = DeviceTtl(c)
  BY <1>1, Times DEF Ttls
<1>6. t = Refresh + Margin \/ (life[c].bounded /\ life[c].left <= t)
  BY <1>4, DeviceTtlLasts
<1> HIDE DEF t
<1>7. /\ sent'[i] # None /\ sent'[i].src = c /\ sent'[i].age = lag
      /\ screen'[i].left = t
  <2>1. sent'[i] = [src |-> c, age |-> lag, left |-> t - lag]
    BY <1>5
  <2>2. sent'[i] \in Sent
    BY <1>4, <1>5, <2>1 DEF Sent
  <2> QED
    BY <1>2, <1>5, <2>1, <2>2, NoneAssumption
<1>8. Lasting(i)'
  <2>1. Latest(i)' \in Nat
    BY <1>1, LatestNext
  <2>2. CASE t = Refresh + Margin
    <3>1. Refresh + Margin <= screen'[i].left + sent'[i].age
          /\ Refresh + Margin <= screen'[i].left + Latest(i)'
      BY <1>4, <1>7, <2>1, <2>2, Times
    <3> QED
      BY <3>1 DEF Lasting
  <2>3. CASE life[c].bounded /\ life[c].left <= t
    BY <1>3, <1>7, <2>3 DEF Lasting
  <2> QED
    BY <1>6, <2>2, <2>3
<1>9. c \in Images => AtMost(sent'[i].age, ImageGap + MaxLag) <= imageAge'
  BY <1>4, <1>7, Times DEF AtMost
<1> QED
  BY <1>2, <1>3, <1>7, <1>8, <1>9 DEF Kept

\* The rows of an image that is seen already are the same rows.
LEMMA SameImage ==
  ASSUME TypeOK, Received(Device), Planned, AtWork, SendMessage,
         Delivered(Head(queue)), Len(queue) # 1, NEW i, i = Head(todo)
  PROVE  /\ i \in Slots /\ plan[i] # None
         /\ Seen(i) = {plan[i]} => Seen(i)' = {plan[i]} /\ screen'[i].left = screen[i].left
<1> DEFINE c == plan[i]
           m == Head(queue)
<1>1. queue # <<>> /\ Tail(queue) # <<>>
  BY SendFacts
<1>2. /\ i \in Slots /\ c \in Images /\ c # None
      /\ m = Begin(c) \/ m = Rows(c, 1) \/ m = Rows(c, 2)
  BY <1>1, QueueHead
<1>3. /\ Device \in DeviceState /\ Device.screen = screen /\ Device.pixels = pixels
      /\ Device.incoming = incoming
      /\ screen \in [Slots -> Shown \cup {None}] /\ pixels \in [{1, 2} -> Contents \cup {None}]
      /\ incoming \in Transfer \cup {None}
  BY DEF TypeOK, DeviceType, Device, DeviceState
<1>4. /\ Accepts(Device, m)
      /\ screen' = Handled(Device, m).screen /\ pixels' = Handled(Device, m).pixels
  BY DEF Delivered, Become
<1> HIDE DEF c, m
<1>5. screen' = screen /\ (pixels' = pixels \/ \E k \in {1, 2} : pixels' = [pixels EXCEPT ![k] = c])
  <2>1. CASE m = Begin(c)
    BY <1>3, <1>4, <2>1 DEF Handled, DeviceState, Begin
  <2>2. ASSUME NEW k \in {1, 2}, m = Rows(c, k)
        PROVE  screen' = screen /\ pixels' = [pixels EXCEPT ![k] = c]
    <3>1. m.kind = "rows" /\ m.src = c /\ m.row = k
      BY <2>2 DEF Rows
    <3>2. incoming # None
      BY <1>3, <1>4, <3>1 DEF Accepts
    <3>3. Handled(Device, m) = [Device EXCEPT !.pixels[k] = c, !.incoming.row = k + 1]
      BY <1>3, <1>4, <3>1 DEF Handled
    <3> QED
      BY <1>3, <1>4, <3>3 DEF DeviceState
  <2> QED
    BY <1>2, <2>1, <2>2
<1>6. Seen(i) = {c} => Seen(i)' = {c}
  <2> SUFFICES ASSUME Seen(i) = {c} PROVE Seen(i)' = {c}
    OBVIOUS
  <2>1. screen[i] # None /\ screen'[i] = screen[i]
    BY <1>5 DEF Seen
  <2>2. CASE screen[i].src \in Images
    <3>1. pixels[1] = c /\ pixels[2] = c
      BY <2>1, <2>2 DEF Seen
    <3>2. pixels'[1] = c /\ pixels'[2] = c
      BY <1>3, <1>5, <3>1
    <3> QED
      BY <2>1, <2>2, <3>2 DEF Seen
  <2>3. CASE screen[i].src \notin Images
    BY <2>1, <2>3 DEF Seen
  <2> QED
    BY <2>2, <2>3
<1> QED
  BY <1>2, <1>5, <1>6 DEF c

\* A clear leaves nothing.
LEMMA Cleared ==
  ASSUME TypeOK, SendMessage, Planned, AtWork, Delivered(Head(queue)), NEW i, i = Head(todo),
         plan[i] = None
  PROVE  screen'[i] = None
<1> DEFINE m == Head(queue)
<1>1. m = Clear(i) /\ i \in Slots
  <2>1. queue # <<>>
    BY SendFacts
  <2>2. plan[i] \notin Contents
    BY NoneAssumption
  <2> QED
    BY <2>1, <2>2, QueueHead DEF Contents
<1>2. /\ Device \in DeviceState /\ Device.screen = screen
      /\ screen \in [Slots -> Shown \cup {None}]
  BY DEF TypeOK, DeviceType, Device, DeviceState
<1>3. screen' = Handled(Device, m).screen
  BY DEF Delivered, Become
<1> HIDE DEF m
<1>4. Handled(Device, m) = [Device EXCEPT !.screen[i] = None]
  BY <1>1 DEF Handled, Clear
<1> QED
  BY <1>1, <1>2, <1>3, <1>4 DEF DeviceState

\* A message shows what is planned, or more of what is shown already, or is about another
\* slot, or its failure begins the calm anew.
LEMMA SettleSend ==
  ASSUME TypeOK, TypeOK', Aged', Received(Device), Planned, AtWork, SendMessage,
         NEW j \in Slots, SlotSettling(j), SlotEmptying(j)
  PROVE  SlotSettling(j)' /\ SlotEmptying(j)'
<1> PICK i : i = Head(todo)
  OBVIOUS
<1> PICK c : c = plan[i]
  OBVIOUS
<1> PICK m : m = Head(queue)
  OBVIOUS
<1> DEFINE entry == IF c = None THEN None
                    ELSE [src |-> c, age |-> lag, left |-> DeviceTtl(c) - lag]
<1>1. i \in Slots /\ m \in Message /\ queue # <<>>
  BY SendFacts
<1>2. Touches(m) = {i}
  BY <1>1, QueueHead DEF Touches, Clear, Show, Begin, Rows, End
<1>3. /\ \/ /\ Delivered(m) /\ Len(queue) = 1
            /\ sent' = [Forget EXCEPT ![i] = entry]
            /\ imageAge' = (IF c \in Images THEN lag ELSE imageAge)
            /\ NextSlot
         \/ /\ Delivered(m) /\ Len(queue) # 1
            /\ sent' = Forget /\ imageAge' = imageAge /\ UNCHANGED <<todo, pc, lag, ran>>
         \/ Fails(m)
      /\ UNCHANGED <<alive, plan, life>> /\ pc = "slots"
  BY DEF SendMessage
<1>4. DeviceType /\ Forget \in [Slots -> Sent \cup {None}]
  BY ForgetType DEF TypeOK, DaemonType
<1>5. CASE Fails(m)
  <2>1. calm' = 0
    BY <1>5 DEF Fails, Rejected, Unanswered
  <2> QED
    BY <2>1, Disturbed
<1>6. Delivered(m) => reset' = FALSE /\ calm' = calm /\ Become(Handled(Device, m))
  BY DEF Delivered
<1>7. CASE Delivered(m) /\ ~Fails(m) /\ j # i
  <2>1. screen'[j] = screen[j] /\ Seen(j)' = Seen(j)
    BY <1>1, <1>2, <1>4, <1>6, <1>7, SeenElsewhere
  <2>2. sent'[j] = Forget[j]
    BY <1>3, <1>4, <1>7
  <2>3. Latest(j) <= Latest(j)'
    <3>1. CASE NextSlot
      BY <1>3, <1>7, <3>1, LookedAt
    <3>2. CASE UNCHANGED <<todo, pc, lag, ran>>
      <4>1. Latest(j)' = Latest(j)
        BY <3>2 DEF Latest, Ahead
      <4> QED
        BY <4>1, LatestRange
    <3> QED
      BY <1>3, <1>7, <3>1, <3>2
  <2>4. imageAge' = imageAge \/ plan[j] \notin Images
    BY <1>1, <1>3, <1>7 DEF Planned
  <2>5. SlotSettling(j)'
    BY <1>3, <1>6, <1>7, <2>1, <2>2, <2>3, <2>4, Undisturbed
  <2>6. SlotEmptying(j)'
    BY <1>3, <1>6, <1>7, <2>1 DEF SlotEmptying
  <2> QED
    BY <2>5, <2>6
<1>8. CASE Delivered(m) /\ ~Fails(m) /\ j = i /\ Len(queue) = 1
  <2>1. CASE c = None
    <3>1. screen'[i] = None /\ plan'[i] = None
      BY <1>3, <1>8, <2>1, Cleared
    <3> QED
      BY <1>8, <3>1 DEF SlotSettling, SlotEmptying
  <2>2. CASE c # None
    <3>1. sent'[i] = entry /\ (c \in Images => imageAge' = lag)
      BY <1>1, <1>3, <1>4, <1>8
    <3>2. sent'[i] = [src |-> c, age |-> lag, left |-> DeviceTtl(c) - lag]
      BY <2>2, <3>1
    <3> HIDE DEF entry
    <3>3. Kept(i)'
      BY <1>8, <2>2, <3>1, <3>2, JustSent
    <3> QED
      BY <1>3, <1>8, <2>2, <3>3 DEF SlotSettling, SlotEmptying
  <2> QED
    BY <2>1, <2>2
<1>9. CASE Delivered(m) /\ ~Fails(m) /\ j = i /\ Len(queue) # 1
  <2>1. /\ plan[i] # None
        /\ Seen(i) = {plan[i]} => Seen(i)' = {plan[i]} /\ screen'[i].left = screen[i].left
    BY <1>9, SameImage
  <2>2. sent' = Forget /\ imageAge' = imageAge /\ UNCHANGED <<todo, pc, lag, ran>>
    BY <1>3, <1>9
  <2>3. Latest(i)' = Latest(i) /\ Latest(i) \in Int
    BY <1>1, <2>2, LatestRange DEF Latest, Ahead
  <2>4. Latest(i) <= Latest(i)'
    BY <2>3
  <2>5. SlotSettling(i)'
    BY <1>1, <1>3, <1>6, <1>9, <2>1, <2>2, <2>4, Undisturbed
  <2> QED
    BY <1>3, <1>9, <2>1, <2>5 DEF SlotEmptying
<1> QED
  BY <1>3, <1>5, <1>7, <1>8, <1>9

\* A tick takes one from all that is left, and is one more of calm.
LEMMA SettleTick ==
  ASSUME TypeOK, TypeOK', Aged, Tick, NEW i \in Slots, SlotSettling(i), SlotEmptying(i)
  PROVE  SlotSettling(i)' /\ SlotEmptying(i)'
<1>1. /\ UNCHANGED <<alive, pc, plan, todo, queue, pixels, reset>>
      /\ calm' = AtMost(calm + 1, CalmMax)
      /\ imageAge' = AtMost(imageAge + 1, ImageGap + MaxLag)
      /\ screen'[i] = Expired(screen[i])
      /\ sent'[i] = IF sent[i] = None THEN None
                    ELSE [Older(sent[i]) EXCEPT !.age = AtMost(@ + 1, Refresh + MaxLag)]
  BY DEF Tick
<1>2. /\ calm \in Nat /\ calm' \in Nat /\ calm' <= calm + 1 /\ imageAge \in Nat
      /\ screen[i] \in Shown \cup {None} /\ sent[i] \in Sent \cup {None}
      /\ plan[i] # None => plan[i] \in Contents /\ life[plan[i]] \in Life
  <2>1. DaemonType /\ FlowOK /\ ClockType /\ calm \in Nat /\ calm' \in Nat
    BY DEF TypeOK, ClockType
  <2>2. calm' <= calm + 1
    BY <1>1, <2>1, Times DEF AtMost
  <2>3. screen[i] \in Shown \cup {None}
    BY DEF TypeOK, DeviceType, Device, DeviceState
  <2>4. imageAge \in Nat /\ sent[i] \in Sent \cup {None}
    BY <2>1 DEF DaemonType
  <2>5. plan[i] # None => plan[i] \in Contents /\ life[plan[i]] \in Life
    BY <2>1 DEF DaemonType, FlowOK
  <2> QED
    BY <2>1, <2>2, <2>3, <2>4, <2>5
\* What is on the screen has one tick less.
<1>3. ASSUME screen[i] # None
      PROVE  /\ screen[i].left \in Nat /\ screen[i].left >= 1
             /\ screen[i].left = 1 => screen'[i] = None
             /\ screen[i].left > 1 => /\ screen'[i] # None /\ screen'[i].src = screen[i].src
                                      /\ screen'[i].left = screen[i].left - 1
  <2>1. screen[i] \in Shown /\ screen[i].left \in Ttls
    BY <1>2, <1>3 DEF Shown
  <2>2. screen[i].left \in Nat /\ screen[i].left >= 1
    BY <2>1, Times DEF Ttls
  <2>3. screen[i].left = 1 => screen'[i] = None
    BY <1>1, <1>3 DEF Expired, Forever
  <2>4. ASSUME screen[i].left > 1
        PROVE  /\ screen'[i] # None /\ screen'[i].src = screen[i].src
               /\ screen'[i].left = screen[i].left - 1
    <3>1. AtLeast(screen[i].left - 1, -MaxLag) = screen[i].left - 1
      BY <2>2, <2>4, Times DEF AtLeast
    <3>2. screen'[i] = [screen[i] EXCEPT !.left = screen[i].left - 1]
      BY <1>1, <1>3, <2>2, <2>4, <3>1 DEF Expired, Older, Forever
    <3>3. screen'[i].src = screen[i].src /\ screen'[i].left = screen[i].left - 1
      BY <2>1, <3>2 DEF Shown
    <3>4. screen[i].left - 1 \in Ttls
      BY <2>1, <2>4, Times DEF Ttls
    <3>5. screen'[i] \in Shown
      BY <2>1, <3>2, <3>4 DEF Shown
    <3> QED
      BY <3>3, <3>5, NoneAssumption
  <2> QED
    BY <2>2, <2>3, <2>4
<1>4. SlotEmptying(i)'
  <2> SUFFICES ASSUME alive, plan[i] = None, screen'[i] # None
               PROVE  calm' + screen'[i].left <= Refresh + Margin
    BY <1>1 DEF SlotEmptying
  <2>1. screen[i] # None
    BY <1>1 DEF Expired
  <2>2. calm + screen[i].left <= Refresh + Margin
    BY <2>1 DEF SlotEmptying
  <2> QED
    BY <1>2, <1>3, <2>1, <2>2, Times
<1> SUFFICES ASSUME alive, plan[i] # None, ~Over(plan[i])' PROVE Kept(i)' \/ Pending(i)'
  BY <1>1, <1>4 DEF SlotSettling
<1> DEFINE c == plan[i]
\* It is a tick later, in the turn or before the next.
<1>5. Latest(i)' = Latest(i) + 1
  <2>1. \/ pc = "idle" /\ ran
        \/ Calling /\ lag < MaxLag
    BY DEF Tick
  <2>2. CASE pc = "idle" /\ ran
    <3>1. pc' = "idle" /\ ~ran'
      BY <1>1, <2>2 DEF Tick
    <3> QED
      BY <2>2, <3>1, Times DEF Latest
  <2>3. CASE pc # "idle"
    <3>1. lag' = lag + 1 /\ Ahead(i)' = Ahead(i) /\ lag \in Nat
      BY <1>1, <2>3, Times DEF Tick, Ahead, TypeOK, DaemonType
    <3> QED
      BY <1>1, <2>3, <3>1, Times DEF Latest
  <2>4. Calling => pc # "idle"
    BY DEF Calling, TypeOK, FlowOK
  <2> QED
    BY <2>1, <2>2, <2>3, <2>4
<1>6. Latest(i) \in Nat /\ Latest(i)' <= Refresh + 2 * MaxLag
  BY LatestRange, LatestNext
\* What is not over was not over.
<1>7. /\ life'[c].bounded = life[c].bounded
      /\ life[c].bounded => /\ life[c].left \in Int /\ life[c].left > 1
                            /\ life'[c].left = life[c].left - 1
  <2>1. c \in Contents /\ life[c] \in Life /\ life[c] # None
    BY <1>2, NoneAssumption
  <2>2. life'[c] = IF life[c] = None \/ ~life[c].bounded THEN life[c] ELSE Older(life[c])
    BY <2>1 DEF Tick
  <2>3. CASE ~life[c].bounded
    BY <2>2, <2>3
  <2>4. CASE life[c].bounded
    <3>1. life'[c] = [life[c] EXCEPT !.left = AtLeast(life[c].left - 1, -MaxLag)]
      BY <2>1, <2>2, <2>4 DEF Older
    <3>2. life'[c].bounded = life[c].bounded
          /\ life'[c].left = AtLeast(life[c].left - 1, -MaxLag) /\ life[c].left \in Int
      BY <2>1, <3>1 DEF Life
    <3>3. ~(life'[c].left <= 0)
      BY <1>1, <2>4, <3>2 DEF Over
    <3> QED
      BY <3>2, <3>3, Times DEF AtLeast
  <2> QED
    BY <2>3, <2>4
<1>8. ~Over(c)
  BY <1>7 DEF Over
<1>9. ASSUME sent[i] # None
      PROVE  /\ sent[i].age \in Nat /\ sent'[i] # None /\ sent'[i].src = sent[i].src
             /\ sent'[i].age = AtMost(sent[i].age + 1, Refresh + MaxLag)
  <2>1. sent[i] \in Sent /\ sent[i].age \in Nat
    BY <1>2, <1>9 DEF Aged, Sent
  <2>2. Older(sent[i]) \in Sent /\ Older(sent[i]).src = sent[i].src
        /\ Older(sent[i]).age = sent[i].age
    BY <2>1, OlderType DEF Older, Sent
  <2>3. sent'[i] = [Older(sent[i]) EXCEPT !.age = AtMost(sent[i].age + 1, Refresh + MaxLag)]
    BY <1>1, <1>9, <2>2
  <2>4. AtMost(sent[i].age + 1, Refresh + MaxLag) \in Int
    BY <2>1, Times DEF AtMost
  <2>5. sent'[i] \in Sent
    BY <2>2, <2>3, <2>4 DEF Sent
  <2> QED
    BY <2>1, <2>2, <2>3, <2>5, NoneAssumption DEF Sent
<1> HIDE DEF c
<1>10. CASE Kept(i)
  <2> DEFINE n == screen[i].left
             a == sent[i].age
  <2>1. /\ ~reset /\ sent[i] # None /\ sent[i].src = c /\ Seen(i) = {c} /\ Lasting(i)
        /\ c \in Images => AtMost(a, ImageGap + MaxLag) <= imageAge
    BY <1>10 DEF Kept, c
  <2>2. screen[i] # None /\ n \in Nat /\ a \in Nat
    <3>1. screen[i] # None
      BY <2>1 DEF Seen
    <3> QED
      BY <1>3, <1>9, <2>1, <3>1
  <2>3. \/ life[c].bounded /\ life[c].left <= n
        \/ /\ a < Refresh + MaxLag => Refresh + Margin <= n + a
           /\ Refresh + Margin <= n + Latest(i)
    BY <2>1 DEF Lasting, c
  <2>4. n = screen[i].left /\ a = sent[i].age
    OBVIOUS
  <2> HIDE DEF n, a
  <2>5. n > 1
    BY <1>5, <1>6, <1>7, <2>2, <2>3, Times
  <2>6. screen'[i] # None /\ screen'[i].src = screen[i].src /\ screen'[i].left = n - 1
    BY <1>3, <2>2, <2>4, <2>5
  <2>7. Seen(i)' = Seen(i)
    BY <1>1, <2>2, <2>6 DEF Seen
  <2>8. sent'[i] # None /\ sent'[i].src = c /\ sent'[i].age = AtMost(a + 1, Refresh + MaxLag)
    BY <1>9, <2>1, <2>4
  <2>9. Lasting(i)'
    <3>1. CASE life[c].bounded /\ life[c].left <= n
      <4>1. life'[c].bounded /\ life'[c].left <= screen'[i].left
        BY <1>7, <2>2, <2>6, <3>1
      <4> QED
        BY <1>1, <4>1 DEF Lasting, c
    <3>2. CASE /\ a < Refresh + MaxLag => Refresh + Margin <= n + a
               /\ Refresh + Margin <= n + Latest(i)
      <4>1. Refresh + Margin <= screen'[i].left + Latest(i)'
        BY <1>5, <1>6, <2>2, <2>6, <3>2, Times
      <4>2. sent'[i].age < Refresh + MaxLag => Refresh + Margin <= screen'[i].left + sent'[i].age
        BY <2>2, <2>6, <2>8, <3>2, Times DEF AtMost
      <4> QED
        BY <4>1, <4>2 DEF Lasting
    <3> QED
      BY <2>3, <3>1, <3>2
  <2>10. c \in Images => AtMost(sent'[i].age, ImageGap + MaxLag) <= imageAge'
    BY <1>1, <1>2, <2>1, <2>2, <2>8, Times DEF AtMost
  <2> QED
    BY <1>1, <2>1, <2>7, <2>8, <2>9, <2>10 DEF Kept, c
<1>11. CASE Pending(i)
  <2>1. /\ calm <= Latest(i)
        /\ sent[i] # None /\ sent[i].src = c => AtMost(calm, Refresh + MaxLag) <= sent[i].age
        /\ c \in Images => AtMost(calm, ImageGap + MaxLag) <= imageAge
    BY <1>11 DEF Pending, c
  <2>2. calm' <= Latest(i)'
    BY <1>2, <1>5, <1>6, <2>1
  <2>3. ASSUME sent'[i] # None, sent'[i].src = c
        PROVE  AtMost(calm', Refresh + MaxLag) <= sent'[i].age
    <3> DEFINE a == sent[i].age
    <3>1. sent[i] # None
      BY <1>1, <2>3
    <3>2. a \in Nat /\ AtMost(calm, Refresh + MaxLag) <= a
          /\ sent'[i].age = AtMost(a + 1, Refresh + MaxLag)
      BY <1>9, <2>1, <2>3, <3>1
    <3> HIDE DEF a
    <3> QED
      BY <1>2, <3>2, Times DEF AtMost
  <2>4. c \in Images => AtMost(calm', ImageGap + MaxLag) <= imageAge'
    BY <1>1, <1>2, <2>1, Times DEF AtMost
  <2> QED
    BY <1>1, <2>2, <2>3, <2>4 DEF Pending, c
<1> QED
  BY <1>8, <1>10, <1>11 DEF SlotSettling, c

\* What was sent was sent by now.
LEMMA AgedStep ==
  ASSUME TypeOK, Aged, Next
  PROVE  Aged'
<1>1. lag \in Nat /\ sent \in [Slots -> Sent \cup {None}] /\ Forget \in [Slots -> Sent \cup {None}]
  BY ForgetType, Times DEF TypeOK, DaemonType
<1> SUFFICES ASSUME NEW j \in Slots, sent'[j] # None PROVE sent'[j].age >= 0
  BY DEF Aged
<1>2. CASE sent'[j] = sent[j] \/ sent'[j] = Forget[j]
  BY <1>2 DEF Forget, Aged
<1>3. CASE Tick
  <2>1. sent'[j] = IF sent[j] = None THEN None
                   ELSE [Older(sent[j]) EXCEPT !.age = AtMost(@ + 1, Refresh + MaxLag)]
    BY <1>3 DEF Tick
  <2>2. sent[j] # None /\ sent[j] \in Sent /\ sent[j].age \in Nat
    BY <1>1, <2>1 DEF Aged, Sent
  <2>3. Older(sent[j]) \in Sent /\ Older(sent[j]).age = sent[j].age
    BY <2>2, OlderType DEF Older, Sent
  <2>4. sent'[j].age = AtMost(sent[j].age + 1, Refresh + MaxLag)
    BY <2>1, <2>2, <2>3 DEF Sent
  <2> QED
    BY <2>2, <2>4, Times DEF AtMost
<1>4. CASE SendMessage
  <2> DEFINE i == Head(todo)
             entry == [src |-> plan[i], age |-> lag, left |-> DeviceTtl(plan[i]) - lag]
  <2>1. sent' = sent \/ sent' = Forget
        \/ sent' = [Forget EXCEPT ![i] = IF plan[i] = None THEN None ELSE entry]
    BY <1>4 DEF SendMessage
  <2>2. entry.age = lag
    OBVIOUS
  <2> HIDE DEF entry, i
  <2>3. CASE sent' = [Forget EXCEPT ![i] = IF plan[i] = None THEN None ELSE entry]
    <3>1. sent'[j] = Forget[j] \/ sent'[j] = entry
      BY <1>1, <2>3
    <3> QED
      BY <1>1, <1>2, <2>2, <3>1
  <2> QED
    BY <1>2, <2>1, <2>3
<1>5. CASE KeepSlot
  <2>1. sent' = sent \/ sent' = [sent EXCEPT ![Head(todo)] = None]
    BY <1>5 DEF KeepSlot
  <2>2. sent'[j] = sent[j]
    BY <1>1, <2>1
  <2> QED
    BY <1>2, <2>2
<1>6. BeginTurn \/ MakePlan \/ SyncSlot \/ WriteTemporary \/ Rename \/ LateRequest \/ Restart
      \/ DaemonStarts => sent' = sent
  BY DEF BeginTurn, MakePlan, SyncSlot, WriteTemporary, Rename, LateRequest, Restart,
     DaemonStarts, daemonVars
<1>7. FlushInput \/ FlushStatus => sent' = sent \/ sent' = Forget
  BY DEF FlushInput, FlushStatus
<1>8. ~DaemonDies
  BY DEF DaemonDies
<1> QED
  BY <1>2, <1>3, <1>4, <1>5, <1>6, <1>7, <1>8 DEF Next, Turn

\* In a step that changes neither the screen nor the plan, nor the time of calm, an empty slot
\* is as near to being empty.
LEMMA EmptyingKept ==
  ASSUME NEW i \in Slots, SlotEmptying(i), UNCHANGED <<alive, plan, calm>>,
         screen'[i] = screen[i]
  PROVE  SlotEmptying(i)'
BY DEF SlotEmptying

\* A plan that is made anew and is the same leaves the contents as they are.
LEMMA SamePlan ==
  ASSUME TypeOK, MakePlan, plan' = plan
  PROVE  life' = life
<1>1. /\ plan \in [Slots -> Contents \cup {None}] /\ life \in [Contents -> Life \cup {None}]
      /\ \A i \in Slots : plan[i] # None => life[plan[i]] # None
  BY DEF TypeOK, DaemonType, FlowOK
<1>2. CASE life' = life
  BY <1>2
<1>3. ASSUME NEW l,
             life' = [c \in Contents |->
                        IF life[c] # None \/ \A i \in Slots : plan'[i] # c THEN life[c]
                        ELSE IF l = Forever THEN [left |-> 0, bounded |-> FALSE]
                        ELSE [left |-> l - lag, bounded |-> TRUE]]
      PROVE  life' = life
  <2>1. \A c \in Contents : life[c] # None \/ \A i \in Slots : plan'[i] # c
    BY <1>1, NoneAssumption
  <2>2. \A c \in Contents : life'[c] = life[c]
    BY <1>3, <2>1
  <2>3. life' = [c \in Contents |-> life'[c]]
    BY <1>3
  <2> QED
    BY <1>1, <2>2, <2>3
<1> QED
  BY <1>2, <1>3 DEF MakePlan

LEMMA SettleStep ==
  ASSUME TypeOK, TypeOK', Belief, Settling, Next, NEW i \in Slots
  PROVE  SlotSettling(i)' /\ SlotEmptying(i)'
<1>1. DaemonType /\ DeviceType /\ FlowOK
  BY DEF TypeOK
<1>2. Received(Device) /\ Planned /\ AtWork
  BY DEF Belief
<1>3. Aged /\ SlotSettling(i) /\ SlotEmptying(i)
  BY DEF Settling
<1>4. Aged'
  BY <1>3, AgedStep
<1>5. CASE calm' = 0
  BY <1>4, <1>5, Disturbed
<1>6. CASE SendMessage
  BY <1>2, <1>3, <1>4, <1>6, SettleSend
<1>7. CASE Tick
  BY <1>3, <1>7, SettleTick
\* Whoever only reads the device and the record of the slot.
<1>8. ASSUME UNCHANGED <<alive, plan, life, calm, sent, imageAge>>, UNCHANGED deviceVars,
             Latest(i) <= Latest(i)'
      PROVE  SlotSettling(i)' /\ SlotEmptying(i)'
  <2>1. UNCHANGED <<screen, pixels, reset>>
    BY <1>8 DEF deviceVars
  <2>2. Seen(i)' = Seen(i)
    BY <2>1 DEF Seen
  <2>3. SlotSettling(i)'
    BY <1>3, <1>8, <2>1, <2>2, Undisturbed
  <2> QED
    BY <1>3, <1>8, <2>1, <2>3, EmptyingKept
<1>9. Latest(i) \in Nat /\ lag \in Nat
  BY <1>1, LatestRange, Times DEF DaemonType
<1>10. CASE BeginTurn
  <2>1. /\ UNCHANGED <<alive, plan, life, calm, sent, imageAge>> /\ UNCHANGED deviceVars
        /\ pc = "idle" /\ pc' \in {"input", "status", "plan"} /\ lag' = 0
    BY <1>10 DEF BeginTurn
  <2>2. Latest(i)' = Refresh + MaxLag + 0
    BY <2>1 DEF Latest, Ahead
  <2>3. Latest(i) \in {Refresh - 1 + MaxLag, Refresh + MaxLag}
    BY <2>1 DEF Latest
  <2>4. Latest(i) <= Latest(i)'
    BY <2>2, <2>3, Times
  <2> QED
    BY <1>8, <2>1, <2>4
\* A call about something else.
<1>11. ASSUME NEW m \in Message, Touches(m) = {}, Delivered(m), sent' = Forget,
              UNCHANGED <<alive, plan, life, imageAge>>, Latest(i)' = Latest(i)
       PROVE  SlotSettling(i)' /\ SlotEmptying(i)'
  <2>1. reset' = FALSE /\ calm' = calm /\ Become(Handled(Device, m))
    BY <1>11 DEF Delivered
  <2>2. screen'[i] = screen[i] /\ Seen(i)' = Seen(i)
    BY <1>1, <1>2, <1>11, <2>1, SeenElsewhere
  <2>3. Latest(i) <= Latest(i)'
    BY <1>9, <1>11
  <2>4. SlotSettling(i)'
    BY <1>3, <1>11, <2>1, <2>2, <2>3, Undisturbed
  <2> QED
    BY <1>3, <1>11, <2>1, <2>2, <2>4, EmptyingKept
<1>12. \A m \in Message : Fails(m) => calm' = 0
  BY DEF Fails, Rejected, Unanswered
<1>13. CASE FlushInput
  <2> DEFINE m == [kind |-> "input", id |-> mode]
  <2>1. (Delivered(m) /\ sent' = Forget) \/ Fails(m)
    BY <1>13 DEF FlushInput
  <2>2. m \in Message /\ Touches(m) = {}
    BY InputMessage DEF Touches
  <2>3. /\ UNCHANGED <<alive, plan, life, imageAge, lag>>
        /\ pc = "input" /\ pc' \in {"status", "plan"}
    BY <1>13 DEF FlushInput
  <2>4. Latest(i)' = Latest(i)
    BY <2>3 DEF Latest, Ahead
  <2> HIDE DEF m
  <2> QED
    BY <1>5, <1>11, <1>12, <2>1, <2>2, <2>3, <2>4
<1>14. CASE FlushStatus
  <2> DEFINE m == [kind |-> "status", id |-> waiting.id, ttl |-> StatusTtl]
  <2>1. \/ UNCHANGED deviceVars /\ calm' = calm /\ sent' = sent
        \/ Delivered(m) /\ sent' = Forget
        \/ Fails(m)
    BY <1>14 DEF FlushStatus
  <2>2. m \in Message /\ Touches(m) = {}
    BY <1>1, <1>14, StatusMessage DEF Touches, FlushStatus, FlowOK
  <2>3. /\ UNCHANGED <<alive, plan, life, imageAge, lag>>
        /\ pc = "status" /\ pc' = "plan"
    BY <1>14 DEF FlushStatus
  <2>4. Latest(i)' = Latest(i)
    BY <2>3 DEF Latest, Ahead
  <2>5. Latest(i) <= Latest(i)'
    BY <1>9, <2>4
  <2> HIDE DEF m
  <2> QED
    BY <1>5, <1>8, <1>11, <1>12, <2>1, <2>2, <2>3, <2>4, <2>5
<1>15. CASE MakePlan
  <2>1. /\ UNCHANGED <<alive, sent, imageAge, lag>> /\ UNCHANGED deviceVars
        /\ pc = "plan" /\ pc' = "slots" /\ todo' = [k \in Slots |-> k]
        /\ calm' = IF plan' = plan THEN calm ELSE 0
    BY <1>15 DEF MakePlan
  <2>2. CASE plan' = plan
    <3>1. life' = life /\ calm' = calm
      BY <1>15, <2>1, <2>2, SamePlan
    <3>2. i \in 1 .. Len(todo') /\ todo'[i] = i
      <4>1. DOMAIN todo' = 1 .. Len(todo') /\ DOMAIN todo' = Slots
        BY <2>1 DEF TypeOK, DaemonType
      <4> QED
        BY <2>1, <4>1
    <3>3. Ahead(i) /\ Ahead(i)'
      BY <2>1, <3>2 DEF Ahead
    <3>4. Latest(i)' = Latest(i)
      BY <2>1, <3>3 DEF Latest
    <3>5. Latest(i) <= Latest(i)'
      BY <1>9, <3>4
    <3> QED
      BY <1>8, <2>1, <2>2, <3>1, <3>5
  <2> QED
    BY <1>5, <2>1, <2>2
<1>16. CASE KeepSlot
  <2>1. /\ UNCHANGED <<alive, plan, life, calm, imageAge>> /\ UNCHANGED deviceVars
        /\ pc = "slots" /\ NextSlot
        /\ sent' = sent \/ (plan[Head(todo)] = None /\ sent' = [sent EXCEPT ![Head(todo)] = None])
    BY <1>16 DEF KeepSlot, history
  <2>2. UNCHANGED <<screen, pixels, reset>>
    BY <2>1 DEF deviceVars
  <2>3. SlotEmptying(i)'
    BY <1>3, <2>1, <2>2, EmptyingKept
  <2>4. CASE i = Head(todo)
    BY <1>2, <1>3, <1>16, <2>3, <2>4, KeepHead
  <2>5. CASE i # Head(todo)
    <3>1. Latest(i) <= Latest(i)'
      BY <2>1, <2>5, LookedAt
    <3>2. sent'[i] = sent[i] /\ Seen(i)' = Seen(i)
      BY <1>1, <2>1, <2>2, <2>5 DEF DaemonType, Seen
    <3>3. SlotSettling(i)'
      BY <1>3, <2>1, <2>2, <3>1, <3>2, Undisturbed
    <3> QED
      BY <2>3, <3>3
  <2> QED
    BY <2>4, <2>5
<1>17. CASE SyncSlot
  <2>1. /\ UNCHANGED <<alive, plan, life, calm, sent, imageAge>> /\ UNCHANGED deviceVars
        /\ UNCHANGED <<pc, todo, lag, ran>>
    BY <1>17 DEF SyncSlot, history
  <2>2. Latest(i)' = Latest(i)
    BY <2>1 DEF Latest, Ahead
  <2>3. Latest(i) <= Latest(i)'
    BY <1>9, <2>2
  <2> QED
    BY <1>8, <2>1, <2>3
<1>18. CASE WriteTemporary \/ Rename
  <2>1. UNCHANGED <<daemonVars, calm>> /\ UNCHANGED deviceVars
    BY <1>18 DEF WriteTemporary, Rename, history
  <2>2. UNCHANGED <<alive, plan, life, calm, sent, imageAge>> /\ UNCHANGED <<pc, todo, lag, ran>>
    BY <2>1 DEF daemonVars
  <2>3. Latest(i)' = Latest(i)
    BY <2>2 DEF Latest, Ahead
  <2>4. Latest(i) <= Latest(i)'
    BY <1>9, <2>3
  <2> QED
    BY <1>8, <2>1, <2>2, <2>4
<1>19. LateRequest \/ Restart \/ DaemonDies \/ DaemonStarts => calm' = 0
  BY DEF LateRequest, Restart, DaemonDies, DaemonStarts
<1> QED
  BY <1>5, <1>6, <1>7, <1>10, <1>13, <1>14, <1>15, <1>16, <1>17, <1>18, <1>19 DEF Next, Turn

\* Once nothing has failed and the plan has not changed for an interval and two turns, the
\* device shows just what is planned and goes on to, and once for an interval and the margin
\* it shows nothing where nothing is planned: for every number of slots, every length of the
\* intervals and whatever went wrong before (sync_slots, device_ttl).
THEOREM SettledTheorem == Spec => []Settled
<1>1. Init => Settling
  <2> SUFFICES ASSUME Init PROVE Settling
    OBVIOUS
  <2>1. \A i \in Slots : plan[i] = None /\ sent[i] = None /\ screen[i] = None
    BY DEF Init, Blank
  <2> QED
    BY <2>1 DEF Settling, Aged, SlotSettling, SlotEmptying
<1>2. TypeOK /\ TypeOK' /\ Belief /\ Settling /\ [Next]_vars => Settling'
  <2> SUFFICES ASSUME TypeOK, TypeOK', Belief, Settling, [Next]_vars PROVE Settling'
    OBVIOUS
  <2>1. CASE Next
    <3>1. Aged'
      BY <2>1, AgedStep DEF Settling
    <3>2. \A i \in Slots : SlotSettling(i)' /\ SlotEmptying(i)'
      BY <2>1, SettleStep
    <3> QED
      BY <3>1, <3>2 DEF Settling
  <2>2. CASE UNCHANGED vars
    <3>1. UNCHANGED <<daemonVars, deviceVars, calm>>
      BY <2>2 DEF vars, history
    <3>2. UNCHANGED <<alive, pc, lag, ran, plan, life, sent, imageAge, todo, screen, pixels, reset, calm>>
      BY <3>1 DEF daemonVars, deviceVars
    <3>3. ASSUME NEW i \in Slots
          PROVE  (SlotSettling(i)' <=> SlotSettling(i)) /\ (SlotEmptying(i)' <=> SlotEmptying(i))
      <4>1. Latest(i)' = Latest(i) /\ Seen(i)' = Seen(i)
        BY <3>2 DEF Latest, Ahead, Seen
      <4>2. (Kept(i)' <=> Kept(i)) /\ (Pending(i)' <=> Pending(i))
        BY <3>2, <4>1 DEF Kept, Lasting, Pending
      <4> QED
        BY <3>2, <4>2 DEF SlotSettling, SlotEmptying, Over
    <3> QED
      BY <3>2, <3>3 DEF Settling, Aged
  <2> QED
    BY <2>1, <2>2
<1>3. TypeOK /\ Settling => Settled
  <2> SUFFICES ASSUME TypeOK, Settling, NEW i \in Slots, alive
               PROVE  /\ plan[i] # None /\ calm > SettleTime /\ ~Over(plan[i]) => Seen(i) = {plan[i]}
                      /\ plan[i] = None /\ calm > EmptyTime => screen[i] = None
    BY DEF Settled
  <2>1. calm \in Nat /\ screen[i] \in Shown \cup {None}
    BY DEF TypeOK, ClockType, DeviceType, Device, DeviceState
  <2>2. ASSUME plan[i] # None, calm > SettleTime, ~Over(plan[i]) PROVE Seen(i) = {plan[i]}
    <3>1. Kept(i) \/ Pending(i)
      BY <2>2 DEF Settling, SlotSettling
    <3>2. ~Pending(i)
      BY <2>1, <2>2, LatestRange, Times DEF Pending, SettleTime
    <3> QED
      BY <3>1, <3>2 DEF Kept
  <2>3. ASSUME plan[i] = None, calm > EmptyTime, screen[i] # None PROVE FALSE
    <3>1. calm + screen[i].left <= Refresh + Margin
      BY <2>3 DEF Settling, SlotEmptying
    <3>2. screen[i].left \in Nat /\ screen[i].left >= 1
      BY <2>1, <2>3, Times DEF Shown, Ttls
    <3> QED
      BY <2>1, <2>3, <3>1, <3>2, Times DEF EmptyTime
  <2> QED
    BY <2>2, <2>3
<1> QED
  BY <1>1, <1>2, <1>3, TypeCorrect, BeliefAlways, PTL DEF Spec
=============================================================================
