--------------------------- MODULE WifiStaProofs ---------------------------
(***************************************************************************)
(* Proofs about the bring-up: for any number of retries, lost networks and *)
(* restarts, its types, that key material is drawn only behind it, that    *)
(* the station never gives up silently, and that its attempts are bounded. *)
(*                                                                         *)
(* None of the last three is inductive.  A draw depends on how app_main    *)
(* got there (BringUpOrder); an idle station on what is still in the event *)
(* queue (OfflineIsPending); the attempts on the counter, and on the one   *)
(* STA_START being handled before it counts anything (StartIsFirst,        *)
(* AttemptsCounted).                                                       *)
(***************************************************************************)
EXTENDS WifiSta, TLAPS

Event == {"STA_START", "STA_DISCONNECTED", "GOT_IP"}

\* What app_main has done when it waits, and when it draws.
BringUpOrder ==
  /\ app \in {"wait", "sessions"} => radio /\ mode = "STA"
  /\ app = "sessions" => started = "ok"

\* The mode is set between esp_wifi_set_mode and esp_wifi_start.
ModeIsSet == app = "mode set" => mode = "STA"

\* Before esp_wifi_start nothing has happened.
Untouched ==
  app \in {"gate", "init", "mode set"} =>
    /\ station = "off" /\ events = <<>> /\ handler = "idle"
    /\ s_attempts = 0 /\ connects = 0

\* An idle station is about to try again, has an event that makes it, or has
\* reported failure.
Pending == \E i \in 1 .. Len(events) : events[i] # "GOT_IP"
OfflineIsPending ==
  radio /\ station = "idle" =>
    handler = "backoff" \/ Pending \/ "FAILED" \in bits

\* STA_START is posted once, before any other event.
StartIsFirst ==
  \A i \in 1 .. Len(events) :
    events[i] = "STA_START" =>
      i = 1 /\ s_attempts = 0 /\ connects = 0 /\ handler = "idle"

\* The first attempt and one for each count, the last of which may be to come.
AttemptsCounted ==
  /\ connects <= s_attempts + 1
  /\ handler = "backoff" => connects <= s_attempts

WifiInv ==
  /\ TypeOK /\ connects \in Nat
  /\ BringUpOrder /\ ModeIsSet /\ Untouched
  /\ OfflineIsPending
  /\ StartIsFirst /\ AttemptsCounted
  /\ NoBlindDraw

-----------------------------------------------------------------------------
\* The event queue: what taking and posting an event do to it.
LEMMA TakeQueue ==
  ASSUME NEW q \in Seq(Event), q # <<>>
  PROVE  /\ Len(q) \in Nat \ {0} /\ Head(q) = q[1]
         /\ Tail(q) \in Seq(Event)
         /\ Len(Tail(q)) = Len(q) - 1
         /\ \A i \in 1 .. Len(Tail(q)) : Tail(q)[i] = q[i + 1]
  OBVIOUS

LEMMA PostQueue ==
  ASSUME NEW q \in Seq(Event), NEW e \in Event
  PROVE  /\ Len(q) \in Nat
         /\ Append(q, e) \in Seq(Event)
         /\ Len(Append(q, e)) = Len(q) + 1
         /\ \A i \in 1 .. Len(q) : Append(q, e)[i] = q[i]
         /\ Append(q, e)[Len(q) + 1] = e
  OBVIOUS

\* Handling an event other than STA_START leaves no STA_START behind.
LEMMA TakeOther ==
  ASSUME TypeOK, StartIsFirst, NEW e \in Event, Take(e)
  PROVE  /\ events' \in Seq(Event)
         /\ \A i \in 1 .. Len(events') : events'[i] # "STA_START"
         /\ e = "GOT_IP" /\ Pending => Pending'
  <1>1. /\ events \in Seq(Event) /\ events # <<>> /\ events' = Tail(events)
        /\ events[1] = e
    BY TakeQueue DEF TypeOK, Take, Event
  <1>2. /\ Len(events) \in Nat \ {0} /\ Tail(events) \in Seq(Event)
        /\ Len(Tail(events)) = Len(events) - 1
        /\ \A i \in 1 .. Len(Tail(events)) : Tail(events)[i] = events[i + 1]
    BY <1>1, TakeQueue
  <1>3. \A i \in 1 .. Len(events') : events'[i] # "STA_START"
    BY <1>1, <1>2 DEF StartIsFirst
  <1>4. ASSUME e = "GOT_IP", Pending PROVE Pending'
    <2>1. PICK i \in 1 .. Len(events) : events[i] # "GOT_IP"
      BY <1>4 DEF Pending
    <2>2. i - 1 \in 1 .. Len(events') /\ events'[i - 1] = events[i]
      BY <1>1, <1>2, <1>4, <2>1
    <2> QED BY <2>1, <2>2 DEF Pending
  <1> QED BY <1>1, <1>2, <1>3, <1>4

\* Posting one event behind the others.
LEMMA PostOther ==
  ASSUME TypeOK, StartIsFirst, NEW e \in Event, Post(e)
  PROVE  /\ events' \in Seq(Event)
         /\ e # "STA_START" => \A i \in 1 .. Len(events') :
                events'[i] = "STA_START" => i = 1 /\ events[1] = "STA_START"
                                            /\ events # <<>>
         /\ Pending => Pending'
         /\ e # "GOT_IP" => Pending'
  <1>1. events \in Seq(Event) /\ events' = Append(events, e)
    BY DEF TypeOK, Post, Event
  <1>2. /\ Len(events) \in Nat /\ events' \in Seq(Event)
        /\ Len(events') = Len(events) + 1
        /\ \A i \in 1 .. Len(events) : events'[i] = events[i]
        /\ events'[Len(events) + 1] = e
    BY <1>1, PostQueue
  <1>3. \A i \in 1 .. Len(events') : i \in 1 .. Len(events) \/ i = Len(events) + 1
    BY <1>2
  <1>4. ASSUME e # "STA_START", NEW i \in 1 .. Len(events'),
               events'[i] = "STA_START"
        PROVE  i = 1 /\ events[1] = "STA_START" /\ events # <<>>
    <2>1. i \in 1 .. Len(events) /\ events[i] = "STA_START"
      BY <1>2, <1>3, <1>4
    <2>2. i = 1
      BY <2>1 DEF StartIsFirst
    <2>3. events # <<>>
      BY <2>1, <2>2, <1>1
    <2> QED BY <2>1, <2>2, <2>3
  <1>5. ASSUME Pending PROVE Pending'
    BY <1>5, <1>2 DEF Pending
  <1>6. ASSUME e # "GOT_IP" PROVE Pending'
    BY <1>6, <1>2 DEF Pending
  <1> QED BY <1>2, <1>4, <1>5, <1>6

-----------------------------------------------------------------------------
LEMMA InitInv == Init => WifiInv
  <1> SUFFICES ASSUME Init PROVE WifiInv
    OBVIOUS
  <1> USE DEF Init, PowerOn
  <1>1. TypeOK /\ connects \in Nat
    BY WifiAssumption DEF TypeOK, Bits
  <1>2. BringUpOrder /\ ModeIsSet /\ Untouched /\ OfflineIsPending /\ NoBlindDraw
    BY DEF BringUpOrder, ModeIsSet, Untouched, OfflineIsPending, NoBlindDraw
  <1>3. StartIsFirst /\ AttemptsCounted
    BY DEF StartIsFirst, AttemptsCounted
  <1> QED BY <1>1, <1>2, <1>3 DEF WifiInv

\* app_main's steps change neither the queue nor the event task, but for
\* StartRadio, which posts STA_START into an empty queue.
LEMMA AppKeepsInv ==
  ASSUME WifiInv, AppStep PROVE WifiInv'
  <1> USE DEF WifiInv
  <1>1. CASE StartRadio
    <2>1. /\ events = <<>> /\ s_attempts = 0 /\ connects = 0 /\ handler = "idle"
          /\ UNCHANGED <<started, mode, drew, taskVars, losses, panics>>
          /\ app' = "wait" /\ radio' = TRUE /\ station' = "idle"
          /\ mode \in {"NULL", "STA"}
      BY <1>1 DEF StartRadio, Untouched, TypeOK
    <2>2. /\ events' \in Seq(Event)
          /\ Len(events') = 1 /\ events'[1] = "STA_START"
      <3>1. <<>> \in Seq(Event) /\ Len(<<>>) = 0 /\ "STA_START" \in Event
        BY DEF Event
      <3>2. events' = Append(<<>>, "STA_START")
        BY <1>1, <2>1 DEF StartRadio
      <3> HIDE DEF WifiInv
      <3> QED BY <3>1, <3>2, PostQueue
    <2>3. TypeOK' /\ (connects \in Nat)'
      <3>1. UNCHANGED <<started, mode, s_attempts, bits, handler, connects, losses,
                        panics>>
        BY <2>1 DEF taskVars
      <3> QED BY <2>1, <2>2, <3>1 DEF TypeOK, Event
    <2>4. OfflineIsPending' /\ StartIsFirst' /\ AttemptsCounted'
      BY <2>1, <2>2 DEF OfflineIsPending, Pending, StartIsFirst,
                        AttemptsCounted, taskVars
    <2>5. Untouched' /\ ModeIsSet' /\ NoBlindDraw'
      BY <2>1 DEF Untouched, ModeIsSet, NoBlindDraw
    <2>6. BringUpOrder'
      BY <1>1, <2>1 DEF StartRadio, BringUpOrder, ModeIsSet
    <2> QED BY <2>3, <2>4, <2>5, <2>6
  <1>2. CASE ~StartRadio
    <2>1. UNCHANGED <<taskVars, driverVars, events, panics>>
      BY <1>2 DEF AppStep, Gate, SetUp, NoMemory, WaitReturns, WaitTimesOut, Draw
    <2> USE <2>1 DEF taskVars, driverVars
    <2>2. OfflineIsPending' /\ StartIsFirst' /\ AttemptsCounted'
          /\ (connects \in Nat)'
      BY DEF OfflineIsPending, Pending, StartIsFirst, AttemptsCounted
    <2>3. TypeOK'
      BY <1>2 DEF TypeOK, AppStep, Gate, SetUp, NoMemory, WaitReturns,
                  WaitTimesOut, StartReturns, Draw
    <2>4. BringUpOrder' /\ Untouched' /\ ModeIsSet'
      BY <1>2 DEF BringUpOrder, Untouched, ModeIsSet, AppStep, Gate, SetUp,
                  NoMemory, WaitReturns, WaitTimesOut, StartReturns, Draw
    <2>5. NoBlindDraw'
      <3>1. CASE Draw
        <4>1. radio = TRUE /\ started = "ok" /\ rf_entropy_available = TRUE
          BY <3>1 DEF Draw, BringUpOrder, TypeOK, rf_entropy_available
        <4>2. drew' = drew \cup {[radio |-> TRUE, started |-> "ok",
                                  served |-> TRUE]}
          BY <3>1, <4>1 DEF Draw
        <4> QED BY <4>2 DEF NoBlindDraw
      <3>2. CASE ~Draw
        BY <1>2, <3>2 DEF NoBlindDraw, AppStep, Gate, SetUp, NoMemory,
                          WaitReturns, WaitTimesOut
      <3> QED BY <3>1, <3>2
    <2> QED BY <2>2, <2>3, <2>4, <2>5
  <1> QED BY <1>1, <1>2

\* A restart is a new power-on; what was drawn stays drawn.
LEMMA PanicKeepsInv ==
  ASSUME WifiInv, Panic PROVE WifiInv'
  <1> USE DEF WifiInv
  <1>1. /\ app' = "gate" /\ started' = "no" /\ mode' = "NULL" /\ radio' = FALSE
        /\ s_attempts' = 0 /\ bits' = {} /\ events' = <<>>
        /\ handler' = "idle" /\ station' = "off" /\ connects' = 0
    BY DEF Panic, PowerOn
  <1>2. /\ panics \in 0 .. MaxPanics /\ panics < MaxPanics /\ panics' = panics + 1
        /\ losses' = losses /\ drew' = drew
    BY DEF Panic, TypeOK
  <1>3. TypeOK' /\ (connects \in Nat)'
    <2>1. s_attempts' \in 0 .. MAX_ATTEMPTS /\ panics' \in 0 .. MaxPanics
      BY <1>1, <1>2, WifiAssumption
    <2>2. events' \in Seq(Event)
      BY <1>1
    <2> QED BY <1>1, <1>2, <2>1, <2>2 DEF TypeOK, Event
  <1>4. BringUpOrder' /\ ModeIsSet' /\ Untouched' /\ OfflineIsPending' /\ NoBlindDraw'
    BY <1>1, <1>2 DEF BringUpOrder, ModeIsSet, Untouched, OfflineIsPending,
                      NoBlindDraw
  <1>5. StartIsFirst' /\ AttemptsCounted'
    BY <1>1 DEF StartIsFirst, AttemptsCounted
  <1> QED BY <1>3, <1>4, <1>5

\* The event task and the driver change nothing app_main's part of the
\* invariant is about, and act only when the radio has been started.
LEMMA AppPartKept ==
  ASSUME WifiInv, UNCHANGED <<appVars, radio, panics>>,
         app \notin {"gate", "init", "mode set"}
  PROVE  BringUpOrder' /\ ModeIsSet' /\ Untouched' /\ NoBlindDraw'
  BY DEF WifiInv, BringUpOrder, ModeIsSet, Untouched, NoBlindDraw, appVars

\* The counter and its limit are numbers.
LEMMA AttemptsTyped ==
  ASSUME TypeOK
  PROVE  /\ s_attempts \in 0 .. MAX_ATTEMPTS /\ MAX_ATTEMPTS \in Nat
         /\ s_attempts \in Nat
  <1>1. s_attempts \in 0 .. MAX_ATTEMPTS
    BY DEF TypeOK
  <1>2. MAX_ATTEMPTS \in Nat
    BY WifiAssumption
  <1> QED BY <1>1, <1>2

\* What is left of TypeOK' in a step of the event task or the driver.
LEMMA TypesKept ==
  ASSUME TypeOK, UNCHANGED <<appVars, radio, panics>>,
         losses' \in 0 .. MaxLosses,
         s_attempts' \in 0 .. MAX_ATTEMPTS, bits' \subseteq Bits,
         events' \in Seq(Event), handler' \in {"idle", "backoff"},
         station' \in {"off", "idle", "connecting", "joined", "address"}
  PROVE  TypeOK'
  <1>1. /\ app' = app /\ started' = started /\ mode' = mode
        /\ (radio \in BOOLEAN)' /\ panics' = panics
    BY DEF TypeOK, appVars
  <1> QED BY <1>1 DEF TypeOK, Event

LEMMA EventKeepsInv ==
  ASSUME WifiInv, EventStep PROVE WifiInv'
  <1> USE DEF WifiInv
  <1>1. CASE OnStaStart
    <2>1. /\ Take("STA_START") /\ "STA_START" \in Event
          /\ UNCHANGED <<s_attempts, bits, handler, radio, losses, appVars, panics>>
          /\ connects' = connects + 1
          /\ station' = IF station = "idle" THEN "connecting" ELSE station
      BY <1>1 DEF OnStaStart, esp_wifi_connect, Event
    <2>2. /\ events' \in Seq(Event)
          /\ \A i \in 1 .. Len(events') : events'[i] # "STA_START"
      BY <2>1, TakeOther
    <2>3. connects = 0 /\ s_attempts = 0 /\ handler = "idle"
      <3>1. Len(events) \in Nat \ {0} /\ events[1] = "STA_START"
        BY <2>1, TakeQueue DEF TypeOK, Take, Event
      <3> QED BY <3>1 DEF StartIsFirst
    <2>4. BringUpOrder' /\ ModeIsSet' /\ Untouched' /\ NoBlindDraw'
      BY <2>1, AppPartKept DEF Untouched, Take, TypeOK, appVars
    <2>5. TypeOK' /\ (connects \in Nat)'
      <3>1. /\ losses \in 0 .. MaxLosses /\ s_attempts \in 0 .. MAX_ATTEMPTS
            /\ bits \subseteq Bits
            /\ station' \in {"off", "idle", "connecting", "joined", "address"}
        BY <2>1 DEF TypeOK
      <3> QED BY <2>1, <2>2, <2>3, <3>1, TypesKept
    <2>6. OfflineIsPending' /\ StartIsFirst' /\ AttemptsCounted'
      BY <2>1, <2>2, <2>3 DEF OfflineIsPending, StartIsFirst, AttemptsCounted
    <2> QED BY <2>4, <2>5, <2>6
  <1>2. CASE OnDisconnected
    <2>1. /\ Take("STA_DISCONNECTED") /\ "STA_DISCONNECTED" \in Event
          /\ UNCHANGED <<connects, radio, station, losses, appVars, panics>>
          /\ handler = "idle"
      BY <1>2 DEF OnDisconnected, Take, Event, driverVars
    <2>2. \/ /\ s_attempts < MAX_ATTEMPTS /\ s_attempts' = s_attempts + 1
             /\ handler' = "backoff" /\ bits' = bits
          \/ /\ s_attempts' = s_attempts /\ handler' = "idle"
             /\ bits' = bits \cup {"FAILED"}
      BY <1>2, <2>1 DEF OnDisconnected, MayRetry, CountAttempt
    <2>3. /\ events' \in Seq(Event)
          /\ \A i \in 1 .. Len(events') : events'[i] # "STA_START"
      BY <2>1, TakeOther
    <2>4. BringUpOrder' /\ ModeIsSet' /\ Untouched' /\ NoBlindDraw'
      BY <2>1, AppPartKept DEF Untouched, Take, TypeOK, appVars
    <2>5. TypeOK' /\ (connects \in Nat)'
      <3>1. /\ losses \in 0 .. MaxLosses
            /\ bits' \subseteq Bits /\ handler' \in {"idle", "backoff"}
            /\ station \in {"off", "idle", "connecting", "joined", "address"}
        BY <2>1, <2>2 DEF TypeOK, Bits
      <3>2. s_attempts' \in 0 .. MAX_ATTEMPTS
        BY <2>2, AttemptsTyped
      <3> QED BY <2>1, <2>3, <3>1, <3>2, TypesKept
    <2>6. OfflineIsPending' /\ StartIsFirst'
      BY <2>1, <2>2, <2>3 DEF OfflineIsPending, StartIsFirst
    <2>7. AttemptsCounted'
      BY <2>1, <2>2, AttemptsTyped DEF AttemptsCounted
    <2> QED BY <2>4, <2>5, <2>6, <2>7
  <1>3. CASE BackOffEnds
    <2>1. /\ handler = "backoff" /\ handler' = "idle"
          /\ UNCHANGED <<s_attempts, bits, radio, losses, events, appVars, panics>>
          /\ connects' = connects + 1
          /\ station' = IF station = "idle" THEN "connecting" ELSE station
      BY <1>3 DEF BackOffEnds, esp_wifi_connect
    <2>2. BringUpOrder' /\ ModeIsSet' /\ Untouched' /\ NoBlindDraw'
      BY <2>1, AppPartKept DEF Untouched, TypeOK, appVars
    <2>3. TypeOK' /\ (connects \in Nat)'
      <3>1. /\ losses \in 0 .. MaxLosses /\ bits \subseteq Bits
            /\ station' \in {"off", "idle", "connecting", "joined", "address"}
            /\ events \in Seq(Event)
        BY <2>1 DEF TypeOK, Event
      <3> QED BY <2>1, <3>1, AttemptsTyped, TypesKept
    <2>4. OfflineIsPending' /\ StartIsFirst'
      BY <2>1 DEF OfflineIsPending, StartIsFirst
    <2>5. AttemptsCounted'
      BY <2>1, AttemptsTyped DEF AttemptsCounted
    <2> QED BY <2>2, <2>3, <2>4, <2>5
  <1>4. CASE OnGotIp
    <2>1. /\ Take("GOT_IP") /\ "GOT_IP" \in Event
          /\ UNCHANGED <<handler, radio, station, losses, appVars, panics>>
          /\ s_attempts' = 0 /\ connects' = 0 /\ handler = "idle"
          /\ bits' = bits \cup {"CONNECTED"}
      BY <1>4 DEF OnGotIp, Take, Event, driverVars
    <2>2. /\ events' \in Seq(Event)
          /\ \A i \in 1 .. Len(events') : events'[i] # "STA_START"
          /\ Pending => Pending'
      BY <2>1, TakeOther
    <2>3. BringUpOrder' /\ ModeIsSet' /\ Untouched' /\ NoBlindDraw'
      BY <2>1, AppPartKept DEF Untouched, Take, TypeOK, appVars
    <2>4. TypeOK' /\ (connects \in Nat)'
      <3>1. /\ losses \in 0 .. MaxLosses /\ bits' \subseteq Bits
            /\ station \in {"off", "idle", "connecting", "joined", "address"}
        BY <2>1 DEF TypeOK, Bits
      <3>2. s_attempts' \in 0 .. MAX_ATTEMPTS
        BY <2>1, AttemptsTyped
      <3> QED BY <2>1, <2>2, <3>1, <3>2, TypesKept
    <2>5. OfflineIsPending' /\ StartIsFirst' /\ AttemptsCounted'
      BY <2>1, <2>2 DEF OfflineIsPending, StartIsFirst, AttemptsCounted
    <2> QED BY <2>3, <2>4, <2>5
  <1> QED BY <1>1, <1>2, <1>3, <1>4 DEF EventStep

\* Whatever the driver does, an idle station has its event behind it.
LEMMA DriverKeepsInv ==
  ASSUME WifiInv, Join \/ JoinFails \/ Lease \/ Lose PROVE WifiInv'
  <1> USE DEF WifiInv
  <1>1. /\ UNCHANGED <<appVars, radio, panics>>
        /\ UNCHANGED <<s_attempts, bits, handler, connects>>
        /\ station \in {"connecting", "joined", "address"}
    BY DEF Join, JoinFails, Lease, Lose, Driver, taskVars
  <1>2. BringUpOrder' /\ ModeIsSet' /\ Untouched' /\ NoBlindDraw'
    BY <1>1, AppPartKept DEF Untouched
  <1>3. \/ events' = events
        \/ Post("STA_DISCONNECTED")
        \/ Post("GOT_IP")
    BY DEF Join, JoinFails, Lease, Lose
  <1>4. "STA_DISCONNECTED" \in Event /\ "GOT_IP" \in Event
    BY DEF Event
  <1>5. events' \in Seq(Event)
    <2>1. events \in Seq(Event)
      BY DEF TypeOK, Event
    <2> QED BY <1>3, <1>4, <2>1, PostOther
  <1>6. TypeOK' /\ (connects \in Nat)'
    <2>1. losses' \in 0 .. MaxLosses
      <3>1. losses \in 0 .. MaxLosses /\ MaxLosses \in Nat
        BY WifiAssumption DEF TypeOK
      <3>2. losses' = losses \/ (losses < MaxLosses /\ losses' = losses + 1)
        BY DEF Join, JoinFails, Lease, Lose
      <3> QED BY <3>1, <3>2
    <2>2. station' \in {"idle", "joined", "address"}
      BY DEF Join, JoinFails, Lease, Lose, Driver
    <2>3. bits \subseteq Bits /\ handler \in {"idle", "backoff"}
      BY DEF TypeOK
    <2> QED BY <1>1, <1>5, <2>1, <2>2, <2>3, AttemptsTyped, TypesKept
  <1>7. StartIsFirst'
    <2>1. SUFFICES ASSUME NEW i \in 1 .. Len(events'), events'[i] = "STA_START"
                   PROVE  /\ i = 1
                          /\ s_attempts = 0 /\ connects = 0 /\ handler = "idle"
      BY <1>1 DEF StartIsFirst
    <2>2. CASE events' = events
      BY <2>1, <2>2 DEF StartIsFirst
    <2>3. CASE Post("STA_DISCONNECTED") \/ Post("GOT_IP")
      <3>1. i = 1 /\ events[1] = "STA_START" /\ events # <<>>
        BY <1>4, <2>1, <2>3, PostOther
      <3>2. 1 \in 1 .. Len(events)
        <4>1. events \in Seq(Event)
          BY DEF TypeOK, Event
        <4>2. Len(events) \in Nat \ {0}
          BY <3>1, <4>1, TakeQueue
        <4> QED BY <4>2
      <3> QED BY <3>1, <3>2 DEF StartIsFirst
    <2> QED BY <1>3, <2>2, <2>3
  <1>8. OfflineIsPending'
    <2>1. station' = "idle" => Post("STA_DISCONNECTED")
      BY DEF Join, JoinFails, Lease, Lose, Driver
    <2>2. station' = "idle" => Pending'
      BY <1>4, <2>1, PostOther
    <2> QED BY <2>2 DEF OfflineIsPending
  <1>9. AttemptsCounted'
    BY <1>1 DEF AttemptsCounted
  <1> QED BY <1>2, <1>6, <1>7, <1>8, <1>9

LEMMA StutterKeepsInv ==
  ASSUME WifiInv, UNCHANGED vars PROVE WifiInv'
  BY DEF WifiInv, vars, appVars, taskVars, driverVars, TypeOK, BringUpOrder,
         ModeIsSet, Untouched, OfflineIsPending, Pending, StartIsFirst,
         AttemptsCounted, NoBlindDraw

LEMMA InvInductive == Spec => []WifiInv
  <1>1. WifiInv /\ [Next]_vars => WifiInv'
    BY AppKeepsInv, PanicKeepsInv, EventKeepsInv, DriverKeepsInv,
       StutterKeepsInv DEF Next
  <1> QED BY InitInv, <1>1, PTL DEF Spec

-----------------------------------------------------------------------------
(***************************************************************************)
(* The theorems.                                                           *)
(***************************************************************************)
\* The types of the bring-up; in particular s_attempts never passes
\* MAX_ATTEMPTS (on_wifi_event).
THEOREM TypeCorrect == Spec => []TypeOK
  <1>1. WifiInv => TypeOK
    BY DEF WifiInv
  <1> QED BY InvInductive, <1>1, PTL

\* randombytes is called only while the radio runs and after wifi_sta_start has
\* succeeded, and is never refused (app_main, rf_entropy_available).
THEOREM KeysComeAfterBringUp == Spec => []NoBlindDraw
  <1>1. WifiInv => NoBlindDraw
    BY DEF WifiInv
  <1> QED BY InvInductive, <1>1, PTL

\* When nothing is left that could make the station try again, FAILED is set
\* (on_wifi_event).
THEOREM OfflineIsReported == Spec => []NeverSilentlyOffline
  <1>1. WifiInv => NeverSilentlyOffline
    <2>1. events = <<>> => ~Pending
      BY DEF Pending
    <2> QED BY <2>1 DEF WifiInv, OfflineIsPending, NeverSilentlyOffline
  <1> QED BY InvInductive, <1>1, PTL

\* Between two addresses esp_wifi_connect is called at most MAX_ATTEMPTS + 1
\* times (on_wifi_event, on_ip_event).
THEOREM RetriesAreBounded == Spec => []BoundedRetries
  <1>1. WifiInv => BoundedRetries
    <2>1. ASSUME WifiInv PROVE BoundedRetries
      <3>1. /\ connects \in Nat /\ connects <= s_attempts + 1
            /\ s_attempts \in 0 .. MAX_ATTEMPTS /\ MAX_ATTEMPTS \in Nat
        BY <2>1, AttemptsTyped DEF WifiInv, AttemptsCounted
      <3> QED BY <3>1 DEF BoundedRetries
    <2> QED BY <2>1
  <1> QED BY InvInductive, <1>1, PTL
=============================================================================
