------------------------------ MODULE WifiSta ------------------------------
(***************************************************************************)
(* From power-on to the first session: the gate in app_main (main/main.c), *)
(* the station bring-up (main/wifi_sta.c) and the guard in front of the    *)
(* random number generator (components/mlkem/esp_randombytes.c).           *)
(*                                                                         *)
(* Two tasks run: app_main, which blocks in wifi_sta_start, and the system *)
(* event task, which runs the two handlers one event at a time and sleeps  *)
(* inside one of them before a retry.  The Wi-Fi driver joins the network, *)
(* fails, or loses it again at any moment, and posts events.               *)
(***************************************************************************)
EXTENDS Naturals, Sequences

CONSTANTS
  MAX_ATTEMPTS,  \* retries between two addresses
  MaxLosses,     \* bound: how often a joined network is lost
  MaxPanics      \* bound: how often an ESP_ERROR_CHECK restarts the board

ASSUME WifiAssumption ==
  MAX_ATTEMPTS \in Nat /\ MaxLosses \in Nat /\ MaxPanics \in Nat

VARIABLES
  app,         \* where app_main is
  started,     \* what wifi_sta_start returned
  mode,        \* the mode esp_wifi_set_mode has set
  radio,       \* the radio runs
  s_attempts,
  bits,        \* s_events
  events,      \* the event loop's queue
  handler,     \* the event task: idle, or asleep before a retry
  station,     \* the driver: off, idle, connecting, joined, or with an address
  losses, panics,
  connects,    \* history: calls of esp_wifi_connect since the last address
  drew         \* history: the radio at each draw of key material

appVars == <<app, started, mode, drew>>
taskVars == <<s_attempts, bits, handler, connects>>
driverVars == <<radio, station, losses>>
vars == <<appVars, taskVars, driverVars, events, panics>>

Bits == {"CONNECTED", "FAILED"}

PowerOn ==
  [app |-> "gate", started |-> "no", mode |-> "NULL", radio |-> FALSE,
   s_attempts |-> 0, bits |-> {}, events |-> <<>>, handler |-> "idle",
   station |-> "off", connects |-> 0]

Init ==
  /\ app = PowerOn.app /\ started = PowerOn.started /\ mode = PowerOn.mode
  /\ radio = PowerOn.radio /\ s_attempts = PowerOn.s_attempts
  /\ bits = PowerOn.bits /\ events = PowerOn.events
  /\ handler = PowerOn.handler /\ station = PowerOn.station
  /\ connects = PowerOn.connects
  /\ losses = 0 /\ panics = 0
  /\ drew = {}

(* randombytes serves once a mode is set; before that it refuses.          *)
rf_entropy_available == mode # "NULL"

(***************************************************************************)
(* app_main.                                                               *)
(***************************************************************************)
\* Self-tests, buffer placement and cycle counter: all pass, or nothing more
\* happens.  They run on fixed inputs and draw nothing.
Gate ==
  /\ app = "gate"
  /\ app' \in {"init", "stopped"}
  /\ UNCHANGED <<started, mode, drew, taskVars, driverVars, events, panics>>

\* wifi_sta_start as far as esp_wifi_set_mode: event group, network interface,
\* event loop, driver, handlers.
SetUp ==
  /\ app = "init"
  /\ app' = "mode set"
  /\ mode' = "STA"
  /\ UNCHANGED <<started, drew, taskVars, driverVars, events, panics>>

\* No memory for the event group: the only failure wifi_sta_start reports
\* before it waits.
NoMemory ==
  /\ app = "init"
  /\ started' = "failed"
  /\ app' = "stopped"
  /\ UNCHANGED <<mode, drew, taskVars, driverVars, events, panics>>

\* esp_wifi_start.
StartRadio ==
  /\ app = "mode set"
  /\ app' = "wait"
  /\ radio' = TRUE
  /\ station' = "idle"
  /\ events' = Append(events, "STA_START")
  /\ UNCHANGED <<started, mode, drew, taskVars, losses, panics>>

\* ESP_ERROR_CHECK: any of those calls fails, and the board starts over.
Panic ==
  /\ app \in {"init", "mode set"}
  /\ panics < MaxPanics
  /\ panics' = panics + 1
  /\ app' = PowerOn.app /\ started' = PowerOn.started /\ mode' = PowerOn.mode
  /\ radio' = PowerOn.radio /\ s_attempts' = PowerOn.s_attempts
  /\ bits' = PowerOn.bits /\ events' = PowerOn.events
  /\ handler' = PowerOn.handler /\ station' = PowerOn.station
  /\ connects' = PowerOn.connects
  /\ UNCHANGED <<losses, drew>>

\* Fault: the result of wifi_sta_start is not looked at.
StartReturnsUnchecked(ok) ==
  /\ started' = IF ok THEN "ok" ELSE "failed"
  /\ app' = "sessions"
\* wifi_sta_start returns; without a network the client is not started.
StartReturns(ok) ==
  /\ started' = IF ok THEN "ok" ELSE "failed"
  /\ app' = IF ok THEN "sessions" ELSE "stopped"

\* xEventGroupWaitBits: a bit is set, and CONNECTED decides.
WaitReturns ==
  /\ app = "wait"
  /\ bits # {}
  /\ StartReturns("CONNECTED" \in bits)
  /\ UNCHANGED <<mode, drew, taskVars, driverVars, events, panics>>

\* Fault: the wait is for ever.
WaitForEver == FALSE /\ UNCHANGED vars
\* No bit for CONNECT_TIMEOUT_MS * MAX_ATTEMPTS.
WaitTimesOut ==
  /\ app = "wait"
  /\ bits = {}
  /\ StartReturns(FALSE)
  /\ UNCHANGED <<mode, drew, taskVars, driverVars, events, panics>>

\* The two sessions draw nonces and coins, and app_main returns.
Draw ==
  /\ app = "sessions"
  /\ drew' = drew \cup {[radio |-> radio, started |-> started,
                         served |-> rf_entropy_available]}
  /\ app' \in {"sessions", "stopped"}
  /\ UNCHANGED <<started, mode, taskVars, driverVars, events, panics>>

AppStep == Gate \/ SetUp \/ NoMemory \/ StartRadio \/ WaitReturns
           \/ WaitTimesOut \/ Draw

(***************************************************************************)
(* The event task.                                                         *)
(***************************************************************************)
Take(event) ==
  /\ handler = "idle"
  /\ events # <<>> /\ Head(events) = event
  /\ events' = Tail(events)

\* esp_wifi_connect starts to join; on a station that is busy it does nothing.
esp_wifi_connect ==
  /\ station' = IF station = "idle" THEN "connecting" ELSE station
  /\ connects' = connects + 1

OnStaStart ==
  /\ Take("STA_START")
  /\ esp_wifi_connect
  /\ UNCHANGED <<s_attempts, bits, handler, radio, losses, appVars, panics>>

\* Fault: one retry too many.
MayRetryOnceMore == s_attempts <= MAX_ATTEMPTS
MayRetry == s_attempts < MAX_ATTEMPTS

\* Fault: retries are not counted.
CountNothing == UNCHANGED s_attempts
CountAttempt == s_attempts' = s_attempts + 1

OnDisconnected ==
  /\ Take("STA_DISCONNECTED")
  /\ \/ /\ MayRetry
        /\ CountAttempt
        /\ handler' = "backoff"
        /\ UNCHANGED bits
     \/ /\ ~MayRetry
        /\ bits' = bits \cup {"FAILED"}
        /\ UNCHANGED <<s_attempts, handler>>
  /\ UNCHANGED <<connects, driverVars, appVars, panics>>

\* Fault: the handler returns after its sleep.
BackOffOnly ==
  /\ handler = "backoff" /\ handler' = "idle"
  /\ UNCHANGED <<s_attempts, bits, connects, driverVars, events, appVars, panics>>
\* vTaskDelay in the handler: no other event is handled before the retry.
BackOffEnds ==
  /\ handler = "backoff" /\ handler' = "idle"
  /\ esp_wifi_connect
  /\ UNCHANGED <<s_attempts, bits, radio, losses, events, appVars, panics>>

OnGotIp ==
  /\ Take("GOT_IP")
  /\ s_attempts' = 0
  /\ bits' = bits \cup {"CONNECTED"}
  /\ connects' = 0
  /\ UNCHANGED <<handler, driverVars, appVars, panics>>

EventStep == OnStaStart \/ OnDisconnected \/ BackOffEnds \/ OnGotIp

(***************************************************************************)
(* The driver and the network.                                             *)
(***************************************************************************)
Driver(from, to) == /\ station = from /\ station' = to
                    /\ UNCHANGED <<radio, taskVars, appVars, panics>>
Post(event) == events' = Append(events, event)

Join == Driver("connecting", "joined") /\ UNCHANGED <<events, losses>>
JoinFails == /\ Driver("connecting", "idle")
             /\ Post("STA_DISCONNECTED") /\ UNCHANGED losses
Lease == Driver("joined", "address") /\ Post("GOT_IP") /\ UNCHANGED losses
Lose == /\ losses < MaxLosses /\ losses' = losses + 1
        /\ Driver("joined", "idle") \/ Driver("address", "idle")
        /\ Post("STA_DISCONNECTED")

Next == AppStep \/ Panic \/ EventStep \/ Join \/ JoinFails \/ Lease \/ Lose

Spec == Init /\ [][Next]_vars

(* The scheduler runs both tasks: the wait has a timeout and the handlers  *)
(* only sleep.  Nothing is assumed of the driver or the access point.      *)
FairSpec == Spec /\ WF_vars(AppStep) /\ WF_vars(EventStep)

-----------------------------------------------------------------------------
\* Types: the attempts never pass their limit, whatever the driver does.
TypeOK ==
  /\ app \in {"gate", "init", "mode set", "wait", "sessions", "stopped"}
  /\ started \in {"no", "ok", "failed"}
  /\ mode \in {"NULL", "STA"} /\ radio \in BOOLEAN
  /\ s_attempts \in 0 .. MAX_ATTEMPTS
  /\ bits \subseteq Bits
  /\ events \in Seq({"STA_START", "STA_DISCONNECTED", "GOT_IP"})
  /\ handler \in {"idle", "backoff"}
  /\ station \in {"off", "idle", "connecting", "joined", "address"}
  /\ losses \in 0 .. MaxLosses /\ panics \in 0 .. MaxPanics

\* "Nothing in the protocol may generate a nonce or an ML-KEM keypair before
\* this returns successfully" (wifi_sta.c): key material is drawn only while
\* the radio runs, after an address was assigned, and is never refused.
NoBlindDraw ==
  \A draw \in drew : draw.radio /\ draw.started = "ok" /\ draw.served

\* The station never stops trying without saying so: when the radio runs, no
\* event is waiting and nobody is connecting, FAILED is set.
NeverSilentlyOffline ==
  radio /\ station = "idle" /\ handler = "idle" /\ events = <<>>
    => "FAILED" \in bits

\* "Back off a little; hammering the AP does not help" (wifi_sta.c): between
\* two addresses the access point sees no more than the first attempt and
\* MAX_ATTEMPTS retries.
BoundedRetries == connects <= MAX_ATTEMPTS + 1

\* wifi_sta_start returns, although the network may neither answer nor refuse.
StartEnds == (app = "wait") ~> (started # "no")

\* "The random source refuses to serve until then" (wifi_sta.c): randombytes
\* returns nothing before wifi_sta_start has succeeded.
RefusesUntilConnected == rf_entropy_available => started = "ok"
=============================================================================
