-------------------------------- MODULE Boot --------------------------------
(***************************************************************************)
(* app_main (main/main.c) from power-on to the first session: the checks   *)
(* of BringUp decide whether WifiSta's bring-up of the station begins.     *)
(* A panic starts both over.                                               *)
(***************************************************************************)
EXTENDS BringUp, WifiSta

bootVars == <<vars, bringUpVars>>

BootInit == Init /\ BringUpInit

Check == app = "gate" /\ BringUpStep /\ UNCHANGED vars

\* Fault: the conformance vectors are run and reported, not asked for.
ResultWithoutKat ==
  /\ app = "gate" /\ stage = "result"
  /\ stage' = "done"
  /\ app' = IF placement_ok /\ counter_ok /\ selftest_ok THEN "init" ELSE "stopped"
  /\ UNCHANGED <<unit, case, failed, placement_ok, counter_ok, selftest_ok>>
  /\ UNCHANGED <<started, mode, drew, taskVars, driverVars, events, panics>>
\* The result is printed; if anything failed, app_main returns.
Result ==
  /\ app = "gate" /\ stage = "result"
  /\ stage' = "done"
  /\ app' = IF BringUpPasses THEN "init" ELSE "stopped"
  /\ UNCHANGED <<unit, case, failed, placement_ok, counter_ok, selftest_ok>>
  /\ UNCHANGED <<started, mode, drew, taskVars, driverVars, events, panics>>

AfterGate == app # "gate" /\ AppStep /\ UNCHANGED bringUpVars
Restart == Panic /\ Restarted
Handler == EventStep /\ UNCHANGED bringUpVars
Radio == (Join \/ JoinFails \/ Lease \/ Lose) /\ UNCHANGED bringUpVars

MainTask == Check \/ Result \/ AfterGate
BootNext == MainTask \/ Restart \/ Handler \/ Radio

BootSpec == BootInit /\ [][BootNext]_bootVars
BootFairSpec == BootSpec /\ WF_bootVars(MainTask) /\ WF_bootVars(Handler)

-----------------------------------------------------------------------------
\* No key material is drawn on a unit that fails its purpose: the board is
\* sound and the library treats every kind of input as FIPS 203 says, the
\* malformed keys and modified ciphertexts among them (mlkem_kat.c: the vectors
\* decide "whether the firmware implements ML-KEM, as opposed to something
\* self-consistent that merely behaves like it").
OnlyVerifiedDraw ==
  drew # {} => Conforms(unit.library) /\ Sound(unit.board)

\* The checks accuse no good unit, wherever its cycle counter stands when the
\* window begins and however long the window turns out.
NoFalseAlarm ==
  app = "stopped" /\ started = "no" =>
    ~(Conforms(unit.library) /\ Sound(unit.board))
=============================================================================
