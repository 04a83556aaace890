# PQC-IoT-1, specified and verified

This directory holds TLA+ specifications of the program in this repository: an
ESP32-S3 node that opens a post-quantum session (ML-KEM-768, a pre-shared key,
AES-256-GCM records) to a gateway, and the gateway. The specifications are
written from the C and Python sources, checked with TLC on small instances, and
the results that matter most are proved with TLAPS for every value of the
constants.

## The system

| Component | Code | State it keeps | Operations |
|---|---|---|---|
| Protocol client | `firmware/esp32s3-dut/main/pqc_session.c` | socket, `s_hello`, `s_frame`, `s_out`, `pqc_session_t` (session id, `c2s`, `send_seq`) | connect, ClientHello, ServerHello and its MAC, ClientFinished, records, Close |
| Session driver | `firmware/esp32s3-dut/main/main.c` (`app_main`) | the gate's four verdicts, two results | placement, cycle counter, self-test, vectors; then the station, mode A, mode B |
| Gateway | `server/pqc_server.py` | static key file, device table, locals of `handle_connection`, ephemeral key file | accept, handshake, record loop, key generation and decapsulation by `openssl` |
| Wire protocol library | `server/protocol.py` | `RecordStream` (last sequence number) | framing, key schedule, ClientHello, records |
| Device table and tool | `DeviceTable` in `pqc_server.py`, `tools/register_device.py` | `devices.json`, its cached copy and modification time | reload on look-up; remote read-change-write |
| Wi-Fi station | `firmware/esp32s3-dut/main/wifi_sta.c` | attempt counter, event bits, address | start with timeout, event handlers with retries |
| Random number guard | `components/mlkem/esp_randombytes.c` | none (asks the radio) | refuse or draw |
| Self-test, ACVP tests | `mlkem_selftest.c`, `mlkem_kat.c`, `acvp_vectors.h` | failed vectors | round trips, implicit rejection, ten groups of vectors |
| Benchmark firmware | `firmware/esp32s3-bench/main/` | samples, probe task, static result | setup, timed windows, sorted figures, stack probe |
| Reference client | `server/test_client.py` | keys of one connection | a happy path and six wrong clients (`--negative`) |
| Rogue server, drill | `server/rogue_server.py`, `tests/hostile_server_drill.py` | a recorded ServerHello; the entry being graded | nine ways to misbehave; a script that exchanges the servers, resets the board and grades it by the line it prints |

A device and the gateway share nothing but a TCP connection, a PSK (in
`device_config.h` and in `devices.json`) and the gateway's static public key
(pinned in the firmware). A session is

    device                                   gateway
      connect  ------------------------------> accept
      ClientHello (key id, device, nonce,
        ct to the pinned key, PSK MAC) ------>  key id? device? PSK MAC?  then decapsulate
                                                mode B: ephemeral key pair, private half in a file
              <------------------ ServerHello (nonce, session id, [ek], MAC)
      MAC?  then [encapsulate to ek]
      ClientFinished ([ct], MAC) ------------>  [decapsulate], erase the ephemeral key, MAC?
      Data, Data, ... , Close --------------->  open each, log; close

### What is hard about it

* *Two implementations of one key schedule.* The C firmware and the Python
  server build the transcripts, salts, labels and stages of two modes
  separately. A difference does not crash: a MAC fails, or keys differ.
* *Order of checks.* The server's MAC covers the ephemeral key and must be
  verified before that key is used; the PSK MAC must be verified before
  decapsulation; the ephemeral private key must be erased on every way out.
* *Failure anywhere.* Every socket call may fail or time out; a board may reset
  and leave its connection half open; a path may be lost without a FIN; the
  server may be interrupted, killed and restarted. A close and a timeout look
  the same to the firmware, but not to the server.
* *One connection at a time.* The server handles a connection to its end before
  it accepts the next, with at most four more waiting in the kernel.
* *Nonces.* `send_seq` restarts at 0 in every session and is advanced only after
  the write of a record that is already sealed.
* *One-way data.* The device gets no answer to its records or its Close.
* *A file as an interface.* `devices.json` is read by a running server and rewritten
  by a tool on the same host, without a lock, and compared by a modification time
  whose clock ticks only every few milliseconds.
* *Tests that judge.* The vectors must tell every wrong library from a right one;
  the drill and the client's negative cases grade a program by what it prints or by
  how a socket ends, with programs being killed and a board reset in between.

### What makes each part correct

* Client and gateway: a correctly provisioned device is never refused, and a
  wrongly provisioned one is refused by the check meant for it; accepted means
  both ends hold the same keys; no key work for strangers; nothing is
  encapsulated to a key the pinned server did not make; no nonce is used twice;
  records arrive in order and at most once; a session logged as closed
  has lost no record that was sent;
  an ephemeral private key does not outlive the handshake; every run ends and
  every connection releases the server.
* Device table: an answer comes from a whole table, and from none older than the
  tick of the look-up; a registration that succeeded is found; no registration ends
  a running server, and no edit by hand either, says the code.
* Wi-Fi station: a start ends; attempts are bounded; the station never gives up
  without saying so.
* Bring-up gate and random number guard: no key material without the radio and an
  address, nor on a unit whose ML-KEM, memory or clock is not what it should be; and
  no good unit is turned away.
* Benchmark: a figure belongs to the operation printed beside it, is that of an
  undisturbed call when most windows were, and none is printed for an operation
  that failed.
* Rejection tests: the firmware agrees on nothing with a server that attacks it, the
  gateway delivers nothing of a client that does; the drill accuses no firmware
  that refused, and passes none that did not.

`PROJECT.json` lists the hazards one by one with the lines where they bite.

## Modules

| Module | What it is |
|---|---|
| `PqcTerms` | symbolic cryptography shared by both ends: hashes, HKDF, ML-KEM with implicit rejection, AES-GCM boxes |
| `PqcKeys` | the key schedule of `protocol.py`, which the gateway, the rogue and the reference client share |
| `PqcNet` | the TCP connections: two queues of frames per connection, the state of both ends, the accept queue, lost paths |
| `PqcClient` | `pqc_session.c` and the tail of `app_main`, one action per socket call, plus board resets |
| `PqcServer` | `pqc_server.py` with `protocol.py`, one action per socket call, `openssl` process and check, plus exceptions, signals, restart and a table that changes |
| `PqcSession` | their composition: `Next`, fairness, every property, the refinement |
| `RecordChannel` | the abstract specification: what a session promises, without messages or cryptography |
| `RogueServer` | `rogue_server.py` in its nine modes |
| `TestClient` | `test_client.py`: the happy path and the six negative cases |
| `HostileServerDrill` | `hostile_server_drill.py` over `PqcClient`, `PqcServer` and `RogueServer`: ssh commands, resets, captures, grading |
| `Rejections` | the composition of both halves of the rejection tests, and what they promise |
| `DeviceTable` | `devices.json`, the server's cached copy (`DeviceTable` in `pqc_server.py`) and runs of `register_device.py`, one action per file access |
| `BringUp` | the checks of `app_main`: `verify_buffer_placement`, `verify_cycle_counter`, `mlkem_selftest.c`, `mlkem_kat.c` over the groups of `acvp_vectors.h` |
| `WifiSta` | `app_main`'s order, `wifi_sta.c` with its two handlers, the Wi-Fi driver under them, and the guard of `esp_randombytes.c`; the gate is one choice |
| `Boot` | `app_main` from power-on: `WifiSta` with the checks of `BringUp` for its gate |
| `BenchMeasure` | `bench_measure`: timed windows with ticks, early errors and a counter that wraps; sorted figures |
| `StackProbe` | the benchmark's `app_main`, `run_one` and `bench_stack_usage` with its probe task, over `BenchMeasure` |
| `MCPqcSession`, `MCRejections`, `MCDeviceTable`, `MCBoot`, `MCStackProbe` | values for TLC |
| `PqcTypeProofs` | lemmas about `PqcClient`, `PqcServer` and `PqcNet` alone: what each action leaves typed, in whatever composition it is taken |
| `PqcEndsProofs`, `PqcSessionProofs` | the theorems about `PqcSession`: types, nonces and ephemeral keys; agreement, delivery and the refinement |
| `RejectionsProofs`, `WifiStaProofs`, `BootProofs`, `DeviceTableProofs`, `StackProbeProofs` | the theorems about `Rejections`, `WifiSta`, `Boot`, `DeviceTable` and `StackProbe` |

Which module builds on which (a module in brackets is the specification the one
before it implements):

    PqcSession [RecordChannel]  = PqcClient + PqcServer
    HostileServerDrill          = PqcClient + PqcServer + RogueServer
    Rejections                  = HostileServerDrill + TestClient
    Boot [WifiSta]              = BringUp + WifiSta
    StackProbe                  = BenchMeasure + the stack probe
    DeviceTable                 stands alone

The first three are over `PqcNet`, `PqcKeys` and `PqcTerms`.

`PqcServer` reads the device table as one variable, at once, in each look-up.
`DeviceTable` justifies this: `AnswersAreCurrent` says that although a look-up is
up to three file accesses, its answer is one that an atomic look-up during the
call could have given (or one of the same tick; or, if the file was unreadable
meanwhile, the last good one). That `SystemExit` may end the server in a look-up is `UncaughtException` in
`PqcServer`. `WifiSta` ends where `PqcClient` begins: its `Draw` stands for any
call of `randombytes` in the two sessions. `WifiSta` leaves open whether the gate
lets `app_main` through; `Boot` decides it, and implements `WifiSta`
(`BootImplementsWifiSta`), so that whatever holds of every choice holds of it.

### Correspondence with the code

* *Control.* `cpc[d]` is the position in `pqc_session_run`, `spc` the one in
  `handle_connection`; names of variables and operators are the source's
  (`s_hello`, `session`, `hello`, `psk`, `inbound`, `derive_stage1`, ...). An
  action is the code between two points where something else can interfere:
  a socket call, a process started, a check. What the code does in one such
  stretch (derive, destroy, send, set `send_seq`) is one action. Each early
  return goes through `Fail` (client) or `Leave` (server), which hold what every
  return does: close the socket, drop the locals, and in the server the
  `finally` clauses.
* *Cryptography.* A byte string is a term (who made it from what); equal terms
  are equal bytes. This takes hashes to be collision-free and random draws to be
  fresh, and nothing else: ML-KEM decapsulation with the wrong key yields the
  implicit-rejection secret instead of an error, as FIPS 203 and OpenSSL do; a
  key id of four bytes may collide (`KeyId` is any function). The two ends have
  derivations of their own (`ClientKeys`, `ClientExpectedMac` and
  `derive_keys`, `derive_stage1`, `derive_stage2`), so that a difference between
  them would show.
* *Frames.* A connection carries whole frames. Both readers treat a frame that
  breaks off exactly as they treat the end of the stream at the same place, and
  neither writer writes again after a failed write, so a torn frame is an absent
  one followed by the end. What is left in a socket's receive queue when its
  owner closes is dropped.
* *Timeouts.* A read that finds nothing may time out at any moment
  (`ReadFails`, `ReadEnds`): the specifications have no clock, and the two sides'
  timers are independent. A connection on which a timeout or any other fault
  happened is recorded in the history variable `disturbed`; only `CleanDelivery`
  and the bookkeeping of `CleanDelivery` use it, no guard does.
* *History variables* (`established`, `sent`, `sealed`, `refused`,
  `encapsulated`, `looked`, `decapsulated`, `accepted`, `delivered`, `verdict`)
  record what happened; no guard reads them.
* *Buffers.* `send_record` builds records in the buffer the ServerHello was
  read into, so `s_frame` is cleared there; `session_id` has been copied out by
  then.
* *The device table's file* is a record: the PSKs it holds if it is whole, its
  length in entries, its mode and its modification time. A file cut short never
  parses; an entry by hand may be of the wrong length. `write_text` is a
  truncation and a write at offset 0, so two overlapping writes may leave the
  tail of the longer. `tables` is the history of whole contents; `since` is what
  the current look-up started from.
* *The table's clock.* A change of the file either advances `clock` or shares the
  tick of the change before it (`MaxSameTick` bounds how often). `psk_for` compares
  modification times, so of the tables of one tick it may go on with the first:
  `firstOfTick` is the oldest table a look-up may answer from.
* *The vectors.* Of a vector only the kind of its input matters (a seed, a canonical
  key, a ciphertext that is genuine or modified, a key that is valid or not): the
  counts and, for the groups where vectors differ, the order are those of
  `acvp_vectors.h`; the bytes are not modelled. A library is a function from
  parameter set to what each of its functions does with each kind of input,
  consistently: a library wrong on one key in a million is outside the model, as it
  is out of any vector's reach.
* *The cycle counter* begins anywhere, also just before it wraps; `elapsed` is how
  long the window in microseconds turned out, at least what was asked for.
* *The Wi-Fi driver* joins, fails, gets an address or loses the network at any
  moment and posts the event; `events` is the event loop's queue and `handler`
  the event task, which sleeps inside `on_wifi_event` before a retry.
  `esp_wifi_connect` on a started station reports no error here: the ones it has
  are for a driver not started and a bad SSID, both excluded before.
  `ESP_ERROR_CHECK` (`Panic`) restarts the board.
* *The benchmark*'s probe task and its caller run on different cores: their reads
  and writes of `s_probe_op`, `s_probe_result`, `s_op_failures` and the
  notification are separate actions. A stack figure is named after the operation
  whose peak it is. A call takes its operation's cycles, or fewer if it fails, and a
  tick interrupt may add to any window. The two calls that warm up are one step
  with `Measure`. The number of failed calls is abstracted to whether there was one.
* *The rogue* shares the network, the key and the table's first PSK with the real
  server and only one of the two listens. A process that ends takes its queued
  connections with it. What the drill left in `REPLAY_STORE` on an earlier day may
  still be there. A malformed ephemeral key is a term of its own, which
  `mlkem768_enc` refuses (`WellFormed`).
* *The drill* is one entry of `MODES`: the entries before it have ended, and its
  script only goes on. An ssh command may fail (`MaxSshFaults`), which `ssh` does
  not notice. The board runs from the entry's first reset to its mark; the verdict
  line is the pair of results `app_main` prints.
* *The reference client* opens one connection per case, on a server with nothing
  else to do; its cases share nothing. `expect_rejection` prints "rejected" for any
  exception (`Raises`).
* *`Fault:` definitions.* A definition whose comment begins with "Fault:" is the
  definition after it with a plausible bug (a dropped label, a missing timeout,
  a truncated nonce). No specification uses it. Putting it in place of its
  neighbour makes the property named in `PROJECT.json` fail, which shows that
  the property depends on that code.

Left out: `--once`, argument parsing, logging and timing figures, the `s2c` key (derived on both sides, never used by either
program), sending from server to device (the server never does).

## Runs

Deadlock checking is off in every run: when all devices are done and the
server waits in `accept()`, or `app_main` has returned, the system has stopped, as
it should.

| Run | Instance | Checks | Shows |
|---|---|---|---|
| `session_modes` | 1 device, A then B, 3 records each, 1 lost path, 1 interrupted server | `TypeOK`, `OnlyMismatchRefused`, `AgreeOnKeys`, `ClosedIsComplete`, `DeliveredInOrder` | `app_main` exactly as it is run: no check refuses a correct device, keys agree, what is delivered is a prefix of what was sent, a session logged as closed has lost nothing that was sent |
| `session_reset` | 1 device, B, 3 records, 1 reset, 1 lost path, 1 kill and restart | `NonceOnce`, `ChannelSpec` | a device that resets anywhere, with its old connection half open, repeats no nonce and mixes no keys |
| `session_mismatch` | 3 devices in B, each provisioned wrongly in its own way, a table that changes, 1 interrupted server | `OnlyMismatchRefused`, `NoWorkForStrangers`, `EncapsulatesToTheServer`, `EphemeralErased` | each mistake is caught by the check it is for, before the work that check protects; no ephemeral key is left |
| `session_live` | 2 devices, B, 1 record, accept queue of 1, 1 lost path, 1 kill | `RunsEnd`, `ServerReturns`, `CleanDelivery`, `ChannelSpec` | two devices compete for one server: every connection is a record channel; under fairness every run ends, every connection releases the server, an undisturbed session is delivered whole |
| `rejections` | drill: 9 modes, 1 board running A then B, 1 ssh fault, a ServerHello left in the store or not; client: 7 cases in 2 suites | `TypeOK`, `FirmwareRefuses`, `DrillAccusesNobody`, `ServerRefuses` | on a connection the rogue attacked nothing is agreed, encapsulated or sent, whatever the board was doing when the servers were exchanged; the drill blames only a board that printed no verdict, unless an ssh command failed; the gateway accepts and delivers nothing from the wrong clients |
| `drill_blind` | the same | `PassMeansRefused` | expected violation, see Findings |
| `negative_blind` | the same | `RejectedMeansRefused` | expected violation, see Findings |
| `table_overlap` | no file at first, 2 registrations that come in turn, overlap or end half way, 1 edit by hand, 1 shared tick | `TypeOK`, `AnswersAreCurrent`, `ProvisionedDevicesWork`, `OnlyEditsEndServing` | every order of the file accesses: an answer comes from a whole table, none older than the look-up's tick; what was registered undisturbed is found; only the edit ends the server |
| `table_edit` | 1 edit by hand | `ServingContinues` | expected violation, see Findings |
| `boot` | a good board with every library that deviates at one level, in any of its functions, and a conforming library on every board; `MAX_ATTEMPTS` = 8 as in the code, lost networks, a restart | `TypeOK`, `NoBlindDraw`, `NeverSilentlyOffline`, `BoundedRetries`, `OnlyVerifiedDraw`, `NoFalseAlarm`, `StartEnds` | key material is drawn only on a unit that is what it should be, and only with radio and address; no good unit is stopped; retries are bounded, end in `FAILED`, and the start returns |
| `wifi_entropy` | a gate that may pass or not | `RefusesUntilConnected` | expected violation, see Findings |
| `probe_figures` | 3 operations, 4 windows each, a counter modulo 16 that begins at 0, 12 or 15; 1 operation with too little headroom; the last may outlast the wait | `FigureIsOfItsOp`, `NoFigureOfAFailure`, `FiguresAreClean` | each printed stack figure is its operation's own or 0; the least and the middle sample are an undisturbed call's; one failed call, the probe's included, withholds the line |

Each run asks one question of one composition; where a former run's question fits
into another's instance (the table's registrations in turn, the bring-up behind a
gate that is one choice) it is asked there.

*Bounds of the sessions.* `MaxConn`, `MaxResets`, `MaxCuts`, `MaxExits`, `MaxKills`,
`RecordCount` and the number of devices are the only bounds. Connections do not
interact except through the accept queue, the device table and the server's
single control flow, so two devices (or one device with two connections) give
every pairwise interaction: an old half-open connection before a new one, a
connection refused by a full queue, a session cut while the other waits. One
fault of a kind already reaches every action and every early return; faults of
different kinds are combined within a run. Three records are what `app_main`
sends, and the fewest for which a gap, a repeat and a swap differ. The accept
queue is 1 or 2 instead of 4 so that it is full in the small instance.

*Bounds of the other runs.* `DeviceTable`: two registrations are the fewest that
interact, with a third device registered from the beginning so that losing an
entry shows; `AtOnce` says how many may overlap, `MaxDeaths`, `MaxEdits` and `MaxSameTick` how
many end half way, how often the file is edited and how often two changes share a
tick. The server may start again at any time. The theorems hold for all of these
bounds. `Boot`: a library of `MCBoot` deviates at one level only, and a board with a
conforming library in whatever way; the checks of one level do not look at the
other's, and `BootProofs` proves the same for every set of units. The counter
wraps at 1000 instead of 2^32, inside the window for two of its beginnings. `MaxLosses` lets a network be lost
before and after the first address; `MAX_ATTEMPTS` is the code's. `StackProbe`:
two ML-KEM operations and one of X25519 give a late probe one to disturb and one
after it, and a failed setup one to leave out; the middle one has too little headroom
(`Deep`). The firmware measures nine in the same way. Four windows are the fewest with an even number and
a majority, and the wrap at 16 falls inside a window for two of the three
beginnings. `Slow` names the operations a call of which may outlast the 20 s wait.
`Rejections`: a drill entry is one or two rounds of at most two connections each;
`MaxResets` and `MaxConn` allow all of them.

*Fairness of the sessions.* `FairSpec` asks for weak fairness of each device's next step and of
the server's next step. A powered board and a running process execute; every
`recv`, `send` and `connect` of the client returns within `CONNECT_TIMEOUT_MS`
(`pqc_session.c:198-201`), the server's within 20 s (`pqc_server.py:206`), so a
step is always taken. Nothing is assumed of resets, lost paths, kills and
restarts: a dead server need not come back, and `RunsEnd` holds without it.
The fairness is of the whole step, not of single actions: a run that always
times out is a fair one.

*Fairness of the bring-up.* `BootFairSpec` asks for weak fairness of
`app_main`'s step (a check, the result, or what follows) and of the event task's: `xEventGroupWaitBits` has a
timeout (`wifi_sta.c:107-109`) and the handlers only sleep. Nothing is assumed of
the driver or the access point: `StartEnds` holds with a network that neither
answers nor refuses. The other modules check safety only.

## The abstract specification

`RecordChannel` says what a connection is for: the device opens it under a
secret no other channel has, the gateway may then join with the same secret,
records are delivered one by one, each exactly once, in the order sent, and an
ended channel delivers nothing. `PqcSession!ChannelSpec` instantiates it with
the agreed key and session id for the secret. The runs `session_reset` and
`session_live` check that every behaviour of the two programs is a behaviour of
these channels, and `PqcSessionProofs!ProtocolImplementsChannels` proves it for every
value of the constants.

## Proofs

Every theorem is checked by tlapm for all constants that satisfy the modules'
assumptions: any set of devices, any sequence of suites, any number of records,
resets, lost paths and connections, any provisioning.

* **`PqcTypeProofs!TypeCorrect`**: `Spec => []TypeOK`. The invariant `TypeInv`
  strengthens `TypeOK` where steps need it: frames in the queues are typed; a
  device has opened at most one connection per run and boot
  (`OneConnectionPerRun`), which with `MaxConn >= Len(Runs) * (MaxResets + 1)`
  is why `opened` stays below `MaxConn`, although no guard says so.
* **`PqcEndsProofs!NoncesAreUsedOnce`**: `Spec => []NonceOnce`. `NonceOnce`
  says nothing of where keys come from, so it is not inductive. `NonceInv` adds
  three links: the record key of a connection names that connection through its
  client nonce (`KeyNamesConnection`), the session a device holds is that of its
  current connection (`SessionInv`), and every sealed box bears a key of one
  connection and a nonce below that session's `send_seq`, or equal to it only
  when the session is over (`BoxesInv`). The last case is the record that was
  sealed and could not be written: the code never uses the session again.
* **`PqcEndsProofs!EphemeralKeysAreErased`**: under the assumption that no
  signal ends the server (`MaxKills = 0`), `Spec => []EphemeralErased`. The
  assumption is needed: a signal skips the `finally` clause.
* **`PqcSessionProofs`**: `BothEndsAgree` (`AgreeOnKeys`), `RecordsArriveInOrder`
  (`DeliveredInOrder`), `ClosedSessionsAreComplete` (`ClosedIsComplete`),
  `RefusalsNameAMismatch` (`OnlyMismatchRefused`), `StrangersGetNoWork`
  (`NoWorkForStrangers`), `EphemeralKeyIsTheServers` (`EncapsulatesToTheServer`)
  and the refinement `ProtocolImplementsChannels`, for any provisioning and every
  fault of the model. All rest on one invariant, `AgreeInv`. For each connection there
  is a suite such that everything either end will ever write to it is known from
  the connection alone: `FrameAt` is the i-th frame its device writes,
  `ServerHelloOf` the answer. `Queues` says that what is under way are those frames,
  from the one behind the last the gateway has taken (`Taken`) to one between
  `Least` and `Most` of what the device has written: no fault puts a frame
  anywhere else. `DeviceSide` and `Handling` say the same of the locals of the
  two programs. Then each check compares terms that both ends have built from the
  same parts, so it fails only where provisioning differs (`Outcome`), and a key
  in one place equals the key in the other because the transcript is in it. That a
  session logged as closed is complete needs `Least`: a path that is whole has
  everything the device wrote either in the queue or taken, and the gateway sees
  the end only of an empty queue. The refinement takes each action to the step of one
  channel: `SendRecord` to a send, `ReadRecord` to a delivery, a completed handshake to
  opening or joining, the rest to a stutter; that no two channels share a secret is
  `NonceInv`.
* **`RejectionsProofs`**, for any capacity of queue and connections, any number of ssh
  faults, exits and resets, any pinned keys and PSKs: `RejectionsTypeCorrect`
  (`TypeOK`), `TheFirmwareRefuses` (`FirmwareRefuses`), `TheDrillAccusesNobody`
  (`DrillAccusesNobody`), `TheGatewayRefuses` (`ServerRefuses`). `EndsInv` says
  which server holds which connection and that a queued one is queued once.
  - *The firmware.* A connection the rogue has not answered carries nothing down
    and the board has agreed on nothing there (`Unanswered`, `Nothing`); one it has
    attacked only carries what the board cannot get past: a MAC that is not the expected
    one, or an ephemeral key that encapsulation refuses (`Hopeless`, `Doomed`). Each of
    the nine modes yields such a frame, one of another type or length, or none: the flipped and the impostor's MAC by
    the shape of the term, the recorded one because the ClientHello under it is
    of a connection that is over (`StoreIsOld`) and nonces are fresh.
  - *The drill.* As long as ssh works: only the rogue listens while the board is
    captured, in the entry's mode. In a mode B attack no mode B session gets
    beyond an attacked or silent connection (`ModeBFails`); otherwise the rogue
    answers one connection and is gone, so one of the two sessions fails
    (`OneAnswer`). Hence the line it reads does not say "accepted".
  - *The gateway.* The i-th frame a case writes is known (`FrameOfCase`), and what is
    on the stream are the frames behind those taken (`CaseStream`). So the ClientHello
    that is authenticated has the case's flaw (`UnwelcomeRefused`), a flipped MAC or
    key differs in shape from what the gateway derives, and the second copy of
    record 0 is not above the last sequence number, which is one less than the number
    of records delivered.
* **`WifiStaProofs`**: `TypeCorrect`, `KeysComeAfterBringUp` (`NoBlindDraw`),
  `OfflineIsReported` (`NeverSilentlyOffline`) and `RetriesAreBounded`
  (`BoundedRetries`), for any `MAX_ATTEMPTS` and any number of lost networks and
  restarts. The event queue is what the argument turns on: an idle station is
  asleep before a retry, or has an event other than `GOT_IP` queued, or has
  reported failure (`OfflineIsPending`); `STA_START` is the first event and comes
  once, before anything was counted (`StartIsFirst`), so each further attempt
  has its count in `s_attempts` (`AttemptsCounted`).

* **`BootProofs`**, for any set of units, any clock and any width of the counter.
  `BootImplementsWifiSta`: each step of `Boot` is one of `WifiSta` or a stutter.
  `OnlyVerifiedUnitsDraw` (`OnlyVerifiedDraw`) and `GoodUnitsPass` (`NoFalseAlarm`)
  rest on one lemma per check: the difference of the two
  readings modulo the width is the time that passed, wherever the counter stood;
  each group's count is zero exactly if the library treats each of its kinds of
  input right, because a vector of each kind is in the group. The invariant
  carries the verdicts (`FlagsTell`), the count so far (`CountTells`) and that
  nobody is past the gate unless all four held (`GateTells`).
  `VerifiedKeysComeAfterBringUp` is `NoBlindDraw` of the composition.
* **`DeviceTableProofs`**, for any number of devices, registrations at once, deaths,
  edits and shared ticks. `TableTypeCorrect`: `TypeOK`. `AnswersStayCurrent`
  (`AnswersAreCurrent`): what the cache holds is a table the file has held, no
  older than the modification time kept with it (`CacheKnown`); the file is the
  last of them whenever it is whole (`FileIsLast`); a look-up that meets a torn file
  knows it (`SinceKnown`); so a cache whose time equals the file's is of the last
  tick. `RegistrationsKeepServing` (`OnlyEditsEndServing`), from a table without
  malformed entries: none gets into a registration's copy or into the file until
  someone edits it, and a server past its look at the mode has a private file.
  `RegisteredDevicesAreFound` (`ProvisionedDevicesWork`): with registrations one at
  a time each copies the last table into an emptied file, so an entry once written
  is in every table after (`Orderly`), and a look-up that found a registration done
  answers from one of these (`DoneIsIn`).

* **`StackProbeProofs`**, for any lists of operations, any number of windows and any
  width of the counter. `FailuresAreNotReported` (`NoFigureOfAFailure`): an operation
  that has failed comes before the present one, or is it and its failure is noted
  (`FailuresKnown`), also when the call was a late probe's. `StacksAreTheirOps`
  (`FigureIsOfItsOp`), if only the last operation may outlast the wait
  (`OnlyLastIsSlow`): the probes of former operations have ended and what the tasks share
  is the present one's (`ProbesOver`). `FiguresMeasureTheCall` (`FiguresAreClean`):
  each sample is the call's cycles or a tick more, wherever the counter wraps, and at
  least as many as there were clean windows are the call's (`SamplesKnown`); sorting
  permutes them (`SortedSamples`), so the least is one of these if there was any, and
  the middle one if they are the majority.

The modules' assumptions say what the code provides. `ServerAssumption`: the table has
an answer for every device. `ClientAssumption`: `MaxConn` is large enough for one
connection per call of `pqc_session_run`. `DrillAssumption`: the board runs A, then B, as
`app_main` does, and the rogue's throw-away key is not the one pinned.
`RejectionsAssumption`: the test client has a connection of its own, the id it makes up is
in no table, and the PSK it draws is not the first device's. `BenchAssumption` and
`ProbeAssumption`: a call takes less than the counter's period, and each operation is
measured once.

What is model-checked only: liveness (`RunsEnd`, `ServerReturns`, `CleanDelivery`,
`StartEnds`), since the prover does not handle fairness. Every invariant and the
refinement that a passing run checks is proved. The inductive invariants were checked
by TLC on the instances of the runs before they were proved.

## Findings

1. *`table_edit`.* `psk_for` keeps "the last good table ... because someone is
   mid-edit" (`pqc_server.py:86-87`), but a malformed entry and a wrong mode are
   reported by `SystemExit`, which its `except (OSError, ValueError)` does not
   catch: such an edit ends the server. A file cut short is survived, and no
   registration has this effect (`OnlyEditsEndServing`).
2. *`wifi_entropy`.* "The random source refuses to serve until then"
   (`wifi_sta.c:7`): the guard opens when `esp_wifi_set_mode` has been called, and
   stays open when `wifi_sta_start` fails. `app_main` keeps the order by itself
   (`NoBlindDraw`).
3. *`drill_blind`.* "A pass means the firmware refused. Silence is not a pass."
   (`hostile_server_drill.py:111`). For the seven entries of one connection
   `evaluate` looks for "session completed", which takes two sessions, and the
   rogue serves one connection and exits: a board that accepted in mode A prints
   "session failed (mode A ok, mode B FAILED)" and is graded ok. The code as it
   stands gets there when the recording round of the replay entry timed out: the
   round that is graded then records, with an honest ServerHello. A rogue that
   never started gives ok for the same entries.
4. *`negative_blind`.* The cases of `test_client.py` that write a bad record "expect
   the connection to be gone" (247), and "The server must refuse data after a bad
   ClientFinished." (244). They raise `ProtocolError("connection still open")`, or
   `recv` raises `socket.timeout`, if it is not, and `expect_rejection` prints
   "rejected" for both; without any server it does so for all six cases.

Limits of use: conditions that properties need and the code does not enforce, and
smaller disagreements. No run is kept for them.

* `EphemeralErased` needs a server that no signal ends: `pqc_server.py:294-297`
  destroys the ephemeral key in a `finally` clause, "whether the handshake
  succeeded or not", there is no signal handler, and SIGTERM ends Python without
  unwinding. The drill's own `pkill` between ServerHello and ClientFinished leaves
  `eph.pem` behind.
* `docs/protocol.md:348-349` has the handshake repeated when the rekey interval
  elapses or `seq` reaches 2^32; the firmware never reads `REKEY_INTERVAL_S` and
  runs two sessions in all.
* `ProvisionedDevicesWork` excludes registrations that overlap: `register_device.py`
  rewrites the whole table without a lock, so of two one may be lost, although
  both report success.
* After two changes in one tick of the file system's clock the server may serve the
  first until the file changes again; `AnswersAreCurrent` says no more than that.
* `FigureIsOfItsOp` needs every operation but the last to end within the 20 s
  wait (`Slow`): `bench_stack_usage` ignores whether its wait timed out, and a
  late probe's notification and result go to the next operation. The operations
  measured take well under a second.
* The happy path of `test_client.py` prints its pass when its records and Close are
  written: like the firmware it gets no answer, and a gateway that dropped them
  all would pass.
* The vectors check `check_pk`; that `mlkem768_enc` calls it before it encapsulates
  to a received key, which `FirmwareRefuses` depends on (`WellFormed`), is left to
  the library.
* `main.c:184` prints "ML-KEM verified against NIST ACVP vectors on this device" also
  when it was not; the gate is two lines below.
* `generate_kat_header.py --limit 2` would leave ML-KEM-512's decapsulation key
  check with invalid keys only, and a library that refuses every key would pass
  it (the fault `kat512_dkcheck_first`).

## Not modelled, and the plan

Every program of the repository that keeps state is modelled. What is left, in
order:

1. An abstract device table, whose look-ups and registrations are atomic, with
   `DeviceTable` shown to implement it up to the clock's tick; today
   `AnswersAreCurrent` says it of each answer.
2. `Frames`: the byte stream under a frame, with short reads and a stream that
   breaks off, as a refinement of the frame queue in `PqcNet`.
3. `--once` in `PqcServer`: a server that ends after a connection, which the runs
   have as an interrupted one.

*Partly modelled.* The gateway lacks `--once`. The wire protocol library lacks how
`read_exactly` puts a frame together from a stream of bytes. ML-KEM
(`mlkem-native`, a git submodule that is not in the tree, and its build glue) is
symbolic in the sessions, and in the bring-up what each function does with each
kind of input.

*Not modelled.* `pin_server_key.py`, `generate_kat_header.py` and the commit hook
convert or search files and keep no state; what they produce are constants here
(`Pinned`, `KeyId`, the vector groups).

*The size of the vectors.* 24,408 of the implementation's 26,356 lines are the
generated `acvp_vectors.h`: arrays of bytes whose only part in the control is the
ten groups of `BringUp` with their counts and kinds. A share of lines therefore
says little about this repository; of the lines that are not vectors most are
mapped.
