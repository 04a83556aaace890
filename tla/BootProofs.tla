----------------------------- MODULE BootProofs -----------------------------
(***************************************************************************)
(* Proofs about Boot, for every set of units, every clock and every width  *)
(* of the cycle counter: that app_main with its checks in front is still   *)
(* the bring-up of WifiSta, and that the checks let key material be drawn  *)
(* only on a unit that serves its purpose.                                 *)
(*                                                                         *)
(* The second is not inductive: what is known of a unit when the sessions  *)
(* draw was found out steps before, one flag or group of vectors at a time *)
(* (FlagsTell, CountTells), and the gate is passed on all of it (GateTells).*)
(***************************************************************************)
EXTENDS Boot, WifiStaProofs, FiniteSetTheorems

-----------------------------------------------------------------------------
(***************************************************************************)
(* Boot implements WifiSta.                                                *)
(***************************************************************************)
\* A step of app_main with its checks is a step of the bring-up, where all the
\* checks together are the one Gate, or changes nothing there.
LEMMA BootStepIsWifiStep == BootNext => Next \/ UNCHANGED vars
  <1> SUFFICES ASSUME BootNext PROVE Next \/ UNCHANGED vars
    OBVIOUS
  <1>1. CASE Check
    BY <1>1 DEF Check
  <1>2. CASE Result
    <2>1. Gate
      BY <1>2 DEF Result, Gate
    <2> QED BY <2>1 DEF Next, AppStep
  <1>3. CASE AfterGate
    BY <1>3 DEF AfterGate, Next
  <1>4. CASE Restart
    BY <1>4 DEF Restart, Next
  <1>5. CASE Handler
    BY <1>5 DEF Handler, Next
  <1>6. CASE Radio
    BY <1>6 DEF Radio, Next
  <1> QED BY <1>1, <1>2, <1>3, <1>4, <1>5, <1>6 DEF BootNext, MainTask

\* app_main with its checks behaves as the bring-up says (main.c, wifi_sta.c).
THEOREM BootImplementsWifiSta == BootSpec => Spec
  <1>1. BootInit => Init
    BY DEF BootInit
  <1>2. [BootNext]_bootVars => [Next]_vars
    BY BootStepIsWifiStep DEF bootVars
  <1> QED BY <1>1, <1>2, PTL DEF BootSpec, Spec

-----------------------------------------------------------------------------
(***************************************************************************)
(* What the checks measure.                                                *)
(***************************************************************************)
\* A difference of two readings of a counter that wraps is the time between
\* them, if it is shorter than a round of the counter.
LEMMA WrappedDifference ==
  ASSUME NEW W \in Nat \ {0}, NEW c \in 0 .. W - 1, NEW x \in 0 .. W - 1
  PROVE  (((c + x) % W) - c) % W = x
  <1>1. CASE c + x < W
    <2>1. (c + x) % W = c + x
      BY <1>1
    <2>2. (c + x) - c = x /\ x % W = x
      OBVIOUS
    <2> QED BY <2>1, <2>2
  <1>2. CASE c + x >= W
    <2>1. (c + x) % W = c + x - W
      BY <1>2
    <2>2. (c + x - W) - c = x - W /\ (x - W) % W = x
      OBVIOUS
    <2> QED BY <2>1, <2>2
  <1> QED BY <1>1, <1>2

LEMMA CyclesElapsed ==
  ASSUME unit \in Unit
  PROVE  Cycles = unit.board.mhz * unit.board.elapsed
  <1> DEFINE b == unit.board
             x == b.mhz * b.elapsed
  <1>1. b.mhz \in Nat /\ b.elapsed \in Nat /\ b.c0 \in 0 .. Wrap - 1 /\ x < Wrap
    BY BringUpAssumption DEF Board
  <1>2. x \in Nat
    BY <1>1
  <1>3. x \in 0 .. Wrap - 1 /\ Wrap \in Nat \ {0}
    BY <1>1, <1>2, BringUpAssumption
  <1> HIDE DEF x
  <1>4. (((b.c0 + x) % Wrap) - b.c0) % Wrap = x
    BY <1>1, <1>3, WrappedDifference
  <1> QED BY <1>4 DEF Cycles, x

\* The counter passes exactly at a clock less than 2 MHz off.
LEMMA CounterTells ==
  ASSUME unit \in Unit
  PROVE  CounterRight <=> MHZ - 2 < unit.board.mhz /\ unit.board.mhz < MHZ + 2
  <1> DEFINE m == unit.board.mhz
             e == unit.board.elapsed
  <1>1. m \in Nat /\ e \in Nat \ {0} /\ MHZ \in Nat
    BY BringUpAssumption DEF Board
  <1>2. CounterRight <=>
          (IF m * e - MHZ * e < 0 THEN 0 - (m * e - MHZ * e)
                                  ELSE m * e - MHZ * e) < 2 * e
    BY CyclesElapsed DEF CounterRight
  <1> HIDE DEF m, e
  <1>3. m * e - MHZ * e = (m - MHZ) * e
    BY <1>1
  <1>4. CASE m - MHZ >= 2
    <2>1. (m - MHZ) * e >= 2 * e
      BY <1>1, <1>4
    <2> QED BY <1>1, <1>2, <1>3, <1>4, <2>1 DEF m, e
  <1>5. CASE MHZ - m >= 2
    <2>1. (MHZ - m) * e >= 2 * e /\ (m - MHZ) * e = 0 - ((MHZ - m) * e)
      BY <1>1, <1>5
    <2> QED BY <1>1, <1>2, <1>3, <1>5, <2>1 DEF m, e
  <1>6. CASE m - MHZ \in {0 - 1, 0, 1}
    <2>1. (m - MHZ) * e \in {0 - e, 0, e}
      BY <1>1, <1>6
    <2> QED BY <1>1, <1>2, <1>3, <1>6, <2>1 DEF m, e
  <1> QED BY <1>1, <1>4, <1>5, <1>6

-----------------------------------------------------------------------------
(***************************************************************************)
(* What the vectors measure: a group has no failure exactly when the       *)
(* library treats every kind of input in it as FIPS 203 says.              *)
(***************************************************************************)
LEMMA NoneFailed ==
  ASSUME NEW k \in Nat, NEW S \in SUBSET (1 .. k)
  PROVE  Cardinality(S) \in Nat /\ (Cardinality(S) = 0 <=> S = {})
  <1>1. IsFiniteSet(1 .. k)
    BY FS_Interval
  <1>2. IsFiniteSet(S)
    BY <1>1, FS_Subset
  <1> QED BY <1>2, FS_CardinalityType, FS_EmptySet

LEMMA LibraryTyped ==
  ASSUME unit \in Unit, NEW l \in Level
  PROVE  /\ l = 512 \/ l = 768
         /\ lib(l) \in [keypair : Answers, enc : Answers, dec : Answers,
                       reject : Answers \cup {"same"},
                       check_pk : Checks, check_sk : Checks]
  BY BringUpAssumption DEF Library, Level, lib

LEMMA KeygenTells ==
  ASSUME unit \in Unit, NEW l \in Level
  PROVE  kat_keygen(l) \in Nat /\ (kat_keygen(l) = 0 <=> lib(l).keypair = "fips")
  <1> DEFINE vectors == IF l = 512 THEN kat512_keygen ELSE kat768_keygen
             S == {i \in DOMAIN vectors : lib(l).keypair # "fips"}
  <1>1. DOMAIN vectors = 1 .. 25
    BY DEF kat512_keygen, kat768_keygen, Of
  <1>2. kat_keygen(l) = Cardinality(S)
    BY DEF kat_keygen, FailedOf
  <1>3. S \in SUBSET (1 .. 25) /\ (S = {} <=> lib(l).keypair = "fips")
    BY <1>1
  <1> HIDE DEF S
  <1> QED BY <1>2, <1>3, NoneFailed

LEMMA EncapTells ==
  ASSUME unit \in Unit, NEW l \in Level
  PROVE  kat_encap(l) \in Nat /\ (kat_encap(l) = 0 <=> lib(l).enc = "fips")
  <1> DEFINE vectors == IF l = 512 THEN kat512_encap ELSE kat768_encap
             S == {i \in DOMAIN vectors : lib(l).enc # "fips"}
  <1>1. DOMAIN vectors = 1 .. 25
    BY DEF kat512_encap, kat768_encap, Of
  <1>2. kat_encap(l) = Cardinality(S)
    BY DEF kat_encap, FailedOf
  <1>3. S \in SUBSET (1 .. 25) /\ (S = {} <=> lib(l).enc = "fips")
    BY <1>1
  <1> HIDE DEF S
  <1> QED BY <1>2, <1>3, NoneFailed

\* Both groups of decapsulations hold a genuine and a modified ciphertext.
LEMMA DecapTells ==
  ASSUME unit \in Unit, NEW l \in Level
  PROVE  /\ kat_decap(l) \in Nat
         /\ kat_decap(l) = 0 <=> lib(l).dec = "fips" /\ lib(l).reject = "fips"
  <1> DEFINE vectors == IF l = 512 THEN kat512_decap ELSE kat768_decap
             Wrong(v) == IF v = "genuine" THEN lib(l).dec # "fips"
                                          ELSE lib(l).reject # "fips"
             S == {i \in DOMAIN vectors : Wrong(vectors[i])}
  <1>1. DOMAIN vectors = 1 .. 10
    BY DEF kat512_decap, kat768_decap
  <1>2. \E i, j \in 1 .. 10 : vectors[i] = "genuine" /\ vectors[j] = "modified"
    <2>1. kat512_decap[4] = "genuine" /\ kat512_decap[1] = "modified"
      BY DEF kat512_decap
    <2>2. kat768_decap[1] = "genuine" /\ kat768_decap[3] = "modified"
      BY DEF kat768_decap
    <2> QED BY <2>1, <2>2
  <1>3. kat_decap(l) = Cardinality(S)
    BY DEF kat_decap, FailedOf
  <1> HIDE DEF vectors
  <1>4. S \in SUBSET (1 .. 10)
    BY <1>1
  <1>5. S = {} <=> lib(l).dec = "fips" /\ lib(l).reject = "fips"
    BY <1>1, <1>2
  <1> HIDE DEF S
  <1> QED BY <1>3, <1>4, <1>5, NoneFailed

\* Both groups of key checks hold a valid key and one that is not.
LEMMA ChecksTell ==
  ASSUME NEW check \in Checks, NEW vectors, DOMAIN vectors = 1 .. 10,
         \A i \in 1 .. 10 : vectors[i] \in {0, 1},
         \E i, j \in 1 .. 10 : vectors[i] = 0 /\ vectors[j] = 1
  PROVE  LET S == {i \in DOMAIN vectors :
                     Accepts(check, vectors[i]) # (vectors[i] # 0)}
         IN  /\ Cardinality(S) \in Nat
             /\ Cardinality(S) = 0 <=> check = "checks"
  <1> DEFINE S == {i \in DOMAIN vectors :
                     Accepts(check, vectors[i]) # (vectors[i] # 0)}
  <1>1. S \in SUBSET (1 .. 10)
    OBVIOUS
  <1>2. \A v : Accepts(check, v) = TRUE \/ Accepts(check, v) = FALSE
    BY DEF Accepts
  <1>3. CASE check = "checks"
    <2>1. \A v \in {0, 1} : Accepts(check, v) = (v # 0)
      BY <1>3 DEF Accepts
    <2>2. S = {}
      BY <2>1
    <2> QED BY <1>1, <1>3, <2>2, NoneFailed
  <1>4. CASE check = "accepts"
    <2>1. PICK i \in 1 .. 10 : vectors[i] = 0
      OBVIOUS
    <2>2. i \in S
      BY <1>4, <2>1 DEF Accepts
    <2> QED BY <1>1, <1>4, <2>2, NoneFailed
  <1>5. CASE check = "refuses"
    <2>1. PICK j \in 1 .. 10 : vectors[j] = 1
      OBVIOUS
    <2>2. j \in S
      BY <1>5, <2>1 DEF Accepts
    <2> QED BY <1>1, <1>5, <2>2, NoneFailed
  <1> QED BY <1>3, <1>4, <1>5 DEF Checks

LEMMA KeyChecksTell ==
  ASSUME unit \in Unit, NEW l \in Level
  PROVE  /\ kat_ekcheck(l) \in Nat
         /\ kat_ekcheck(l) = 0 <=> lib(l).check_pk = "checks"
         /\ kat_dkcheck(l) \in Nat
         /\ kat_dkcheck(l) = 0 <=> lib(l).check_sk = "checks"
  <1>1. lib(l).check_pk \in Checks /\ lib(l).check_sk \in Checks
    BY LibraryTyped
  <1> DEFINE eks == IF l = 512 THEN kat512_ekcheck ELSE kat768_ekcheck
             dks == IF l = 512 THEN kat512_dkcheck ELSE kat768_dkcheck
  <1>2. /\ DOMAIN eks = 1 .. 10
        /\ \A i \in 1 .. 10 : eks[i] \in {0, 1}
        /\ \E i, j \in 1 .. 10 : eks[i] = 0 /\ eks[j] = 1
    <2>1. kat512_ekcheck[2] = 0 /\ kat512_ekcheck[1] = 1
      BY DEF kat512_ekcheck
    <2>2. kat768_ekcheck[2] = 0 /\ kat768_ekcheck[1] = 1
      BY DEF kat768_ekcheck
    <2>3. /\ DOMAIN kat512_ekcheck = 1 .. 10 /\ DOMAIN kat768_ekcheck = 1 .. 10
          /\ \A i \in 1 .. 10 : kat512_ekcheck[i] \in {0, 1}
          /\ \A i \in 1 .. 10 : kat768_ekcheck[i] \in {0, 1}
      BY DEF kat512_ekcheck, kat768_ekcheck
    <2> QED BY <2>1, <2>2, <2>3
  <1>3. /\ DOMAIN dks = 1 .. 10
        /\ \A i \in 1 .. 10 : dks[i] \in {0, 1}
        /\ \E i, j \in 1 .. 10 : dks[i] = 0 /\ dks[j] = 1
    <2>1. kat512_dkcheck[1] = 0 /\ kat512_dkcheck[3] = 1
      BY DEF kat512_dkcheck
    <2>2. kat768_dkcheck[3] = 0 /\ kat768_dkcheck[1] = 1
      BY DEF kat768_dkcheck
    <2>3. /\ DOMAIN kat512_dkcheck = 1 .. 10 /\ DOMAIN kat768_dkcheck = 1 .. 10
          /\ \A i \in 1 .. 10 : kat512_dkcheck[i] \in {0, 1}
          /\ \A i \in 1 .. 10 : kat768_dkcheck[i] \in {0, 1}
      BY DEF kat512_dkcheck, kat768_dkcheck
    <2> QED BY <2>1, <2>2, <2>3
  <1>4. kat_ekcheck(l) = Cardinality({i \in DOMAIN eks :
                           Accepts(lib(l).check_pk, eks[i]) # (eks[i] # 0)})
    BY DEF kat_ekcheck, FailedOf
  <1>5. kat_dkcheck(l) = Cardinality({i \in DOMAIN dks :
                           Accepts(lib(l).check_sk, dks[i]) # (dks[i] # 0)})
    BY DEF kat_dkcheck, FailedOf
  <1> HIDE DEF eks, dks
  <1>6. /\ kat_ekcheck(l) \in Nat
        /\ kat_ekcheck(l) = 0 <=> lib(l).check_pk = "checks"
    BY <1>1, <1>2, <1>4, ChecksTell
  <1>7. /\ kat_dkcheck(l) \in Nat
        /\ kat_dkcheck(l) = 0 <=> lib(l).check_sk = "checks"
    BY <1>1, <1>3, <1>5, ChecksTell
  <1> QED BY <1>6, <1>7

\* What the library of a case without a failure does right.
RightAt(group, functions) ==
  /\ group = 1 => functions.keypair = "fips"
  /\ group = 2 => functions.enc = "fips"
  /\ group = 3 => functions.dec = "fips" /\ functions.reject = "fips"
  /\ group = 4 => functions.check_pk = "checks"
  /\ group = 5 => functions.check_sk = "checks"
CaseRight(i, library) ==
  IF i <= 5 THEN RightAt(i, library[512]) ELSE RightAt(i - 5, library[768])

LEMMA CaseTells ==
  ASSUME unit \in Unit, NEW i \in 1 .. KatCases
  PROVE  /\ CaseFailed(i) \in Nat
         /\ CaseFailed(i) = 0 <=> CaseRight(i, unit.library)
  <1>1. i \in {1, 2, 3, 4, 5, 6, 7, 8, 9, 10}
    BY DEF KatCases
  <1>2. /\ CaseFailed(1) = kat_keygen(512) /\ CaseFailed(6) = kat_keygen(768)
        /\ CaseFailed(2) = kat_encap(512) /\ CaseFailed(7) = kat_encap(768)
        /\ CaseFailed(3) = kat_decap(512) /\ CaseFailed(8) = kat_decap(768)
        /\ CaseFailed(4) = kat_ekcheck(512) /\ CaseFailed(9) = kat_ekcheck(768)
        /\ CaseFailed(5) = kat_dkcheck(512) /\ CaseFailed(10) = kat_dkcheck(768)
    BY DEF CaseFailed
  <1>3. 512 \in Level /\ 768 \in Level
    BY DEF Level
  <1>4. /\ lib(512) = unit.library[512] /\ lib(768) = unit.library[768]
    BY DEF lib
  <1>5. CASE i \in {1, 2, 3, 4, 5}
    BY <1>2, <1>3, <1>4, <1>5, KeygenTells, EncapTells, DecapTells, KeyChecksTell
       DEF CaseRight, RightAt
  <1>6. CASE i \in {6, 7, 8, 9, 10}
    BY <1>2, <1>3, <1>4, <1>6, KeygenTells, EncapTells, DecapTells, KeyChecksTell
       DEF CaseRight, RightAt
  <1> QED BY <1>1, <1>5, <1>6

\* mlkem_kat_run as a whole: every case is right exactly for a conforming
\* library.
LEMMA CasesTell ==
  ASSUME unit \in Unit
  PROVE  (\A i \in 1 .. KatCases : CaseRight(i, unit.library))
           <=> Conforms(unit.library)
  <1> DEFINE Right(p) == \A g \in {1, 2, 3, 4, 5} : RightAt(g, p)
  <1>1. (\A i \in 1 .. KatCases : CaseRight(i, unit.library))
          <=> Right(unit.library[512]) /\ Right(unit.library[768])
    <2>1. ASSUME \A i \in 1 .. KatCases : CaseRight(i, unit.library)
          PROVE  Right(unit.library[512]) /\ Right(unit.library[768])
      <3>1. ASSUME NEW g \in {1, 2, 3, 4, 5}
            PROVE  RightAt(g, unit.library[512]) /\ RightAt(g, unit.library[768])
        <4>1. g \in 1 .. KatCases /\ g + 5 \in 1 .. KatCases /\ g <= 5
              /\ ~(g + 5 <= 5) /\ (g + 5) - 5 = g
          BY DEF KatCases
        <4> QED BY <2>1, <4>1 DEF CaseRight
      <3> QED BY <3>1
    <2>2. ASSUME Right(unit.library[512]), Right(unit.library[768]),
                 NEW i \in 1 .. KatCases
          PROVE  CaseRight(i, unit.library)
      <3>1. IF i <= 5 THEN i \in {1, 2, 3, 4, 5} ELSE i - 5 \in {1, 2, 3, 4, 5}
        BY DEF KatCases
      <3> QED BY <2>2, <3>1 DEF CaseRight
    <2> QED BY <2>1, <2>2
  <1>2. \A l \in Level : Right(unit.library[l]) <=>
          unit.library[l] = [keypair |-> "fips", enc |-> "fips",
                             dec |-> "fips", reject |-> "fips",
                             check_pk |-> "checks", check_sk |-> "checks"]
    <2> SUFFICES ASSUME NEW l \in Level
                 PROVE  Right(unit.library[l]) <=>
                          unit.library[l] = [keypair |-> "fips", enc |-> "fips",
                             dec |-> "fips", reject |-> "fips",
                             check_pk |-> "checks", check_sk |-> "checks"]
      OBVIOUS
    <2>1. unit.library[l] \in [keypair : Answers, enc : Answers, dec : Answers,
                       reject : Answers \cup {"same"},
                       check_pk : Checks, check_sk : Checks]
      BY LibraryTyped DEF lib
    <2> QED BY <2>1 DEF RightAt
  <1> HIDE DEF Right
  <1>3. 512 \in Level /\ 768 \in Level /\ \A l \in Level : l = 512 \/ l = 768
    BY DEF Level
  <1> QED BY <1>1, <1>2, <1>3 DEF Conforms

-----------------------------------------------------------------------------
(***************************************************************************)
(* The invariant.                                                          *)
(***************************************************************************)
ClockRight == MHZ - 2 < unit.board.mhz /\ unit.board.mhz < MHZ + 2

StagesTyped ==
  /\ unit \in Unit
  /\ stage \in {"placement", "counter", "selftest", "kat", "result", "done"}
  /\ case \in 1 .. KatCases + 1 /\ failed \in Nat
  /\ stage \in {"result", "done"} => case = KatCases + 1

\* What a flag says once its check has run.
FlagsTell ==
  /\ stage # "placement" => (placement_ok <=> PlacementRight)
  /\ stage \notin {"placement", "counter"} => (counter_ok <=> ClockRight)
  /\ stage \notin {"placement", "counter", "selftest"} =>
       (Conforms(unit.library) => selftest_ok)

\* What the count of failed vectors says of the cases so far.
CountTells ==
  failed = 0 <=> \A i \in 1 .. case - 1 : CaseRight(i, unit.library)

\* app_main goes on from its checks exactly when they pass.
GateTells ==
  /\ app = "gate" <=> stage # "done"
  /\ app \notin {"gate", "stopped"} => BringUpPasses
  /\ app = "stopped" /\ started = "no" => ~BringUpPasses

VerifiedInv == StagesTyped /\ FlagsTell /\ CountTells /\ GateTells
               /\ OnlyVerifiedDraw

LEMMA VerifiedInit == BootInit => VerifiedInv
  <1> SUFFICES ASSUME BootInit PROVE VerifiedInv
    OBVIOUS
  <1> USE DEF BootInit, Init, PowerOn, BringUpInit
  <1>1. StagesTyped
    BY DEF StagesTyped, KatCases
  <1>2. FlagsTell
    BY DEF FlagsTell
  <1>3. CountTells
    <2>1. case - 1 = 0 /\ 1 .. 0 = {}
      OBVIOUS
    <2> QED BY <2>1 DEF CountTells
  <1>4. GateTells /\ OnlyVerifiedDraw
    BY DEF GateTells, OnlyVerifiedDraw
  <1> QED BY <1>1, <1>2, <1>3, <1>4 DEF VerifiedInv

\* All the flags and the count together say that the unit is good; and a good
\* unit fails none of them.
LEMMA PassingTells ==
  ASSUME VerifiedInv, stage \in {"result", "done"}
  PROVE  BringUpPasses <=> Conforms(unit.library) /\ Sound(unit.board)
  <1>1. unit \in Unit /\ case - 1 = KatCases
    BY DEF VerifiedInv, StagesTyped, KatCases
  <1>2. kat_ok <=> Conforms(unit.library)
    BY <1>1, CasesTell DEF VerifiedInv, CountTells, kat_ok
  <1>3. (placement_ok <=> PlacementRight) /\ (counter_ok <=> ClockRight)
        /\ (Conforms(unit.library) => selftest_ok)
    BY DEF VerifiedInv, FlagsTell
  <1> QED BY <1>2, <1>3 DEF BringUpPasses, PlacementRight, ClockRight, Sound

\* A conforming library passes the self-test.
LEMMA SelftestPasses ==
  ASSUME Conforms(unit.library)
  PROVE  roundtrip(512) /\ roundtrip(768) /\ implicit_rejection_768
  <1>1. /\ lib(512).keypair = "fips" /\ lib(512).enc = "fips"
        /\ lib(512).dec = "fips" /\ lib(768).keypair = "fips"
        /\ lib(768).enc = "fips" /\ lib(768).dec = "fips"
        /\ lib(768).reject = "fips"
    BY DEF Conforms, Level, lib
  <1> QED BY <1>1 DEF roundtrip, implicit_rejection_768, Runs, Agree

LEMMA CheckKeepsVerified ==
  ASSUME VerifiedInv, Check PROVE VerifiedInv'
  <1>1. /\ app = "gate" /\ BringUpStep /\ unit \in Unit
        /\ app' = app /\ started' = started /\ drew' = drew /\ unit' = unit
        /\ StagesTyped /\ FlagsTell /\ CountTells /\ GateTells /\ OnlyVerifiedDraw
    BY DEF Check, VerifiedInv, StagesTyped, vars, appVars, BringUpStep,
           verify_buffer_placement, verify_cycle_counter, mlkem_selftest_run,
           KatCase
  <1>2. OnlyVerifiedDraw'
    BY <1>1 DEF OnlyVerifiedDraw, Conforms, Sound
  <1>3. stage' # "done" /\ GateTells'
    <2>1. stage' # "done"
      BY <1>1 DEF BringUpStep, verify_buffer_placement, verify_cycle_counter,
                  mlkem_selftest_run, KatCase
    <2> QED BY <1>1, <2>1 DEF GateTells
  <1>4. CASE verify_buffer_placement
    <2>1. StagesTyped' /\ CountTells'
      BY <1>1, <1>4 DEF verify_buffer_placement, StagesTyped, CountTells
    <2>2. FlagsTell'
      BY <1>1, <1>4 DEF verify_buffer_placement, FlagsTell, PlacementRight
    <2> QED BY <1>2, <1>3, <2>1, <2>2 DEF VerifiedInv
  <1>5. CASE verify_cycle_counter
    <2>1. StagesTyped' /\ CountTells'
      BY <1>1, <1>5 DEF verify_cycle_counter, StagesTyped, CountTells
    <2>2. counter_ok' <=> ClockRight
      BY <1>1, <1>5, CounterTells DEF verify_cycle_counter, ClockRight
    <2>3. FlagsTell'
      BY <1>1, <1>5, <2>2 DEF verify_cycle_counter, FlagsTell, PlacementRight,
                              ClockRight
    <2> QED BY <1>2, <1>3, <2>1, <2>3 DEF VerifiedInv
  <1>6. CASE mlkem_selftest_run
    <2>1. StagesTyped' /\ CountTells'
      BY <1>1, <1>6 DEF mlkem_selftest_run, StagesTyped, CountTells
    <2>2. Conforms(unit.library) => selftest_ok'
      BY <1>6, SelftestPasses DEF mlkem_selftest_run
    <2>3. FlagsTell'
      BY <1>1, <1>6, <2>2 DEF mlkem_selftest_run, FlagsTell, PlacementRight,
                              ClockRight, Conforms
    <2> QED BY <1>2, <1>3, <2>1, <2>3 DEF VerifiedInv
  <1>7. CASE KatCase
    <2>1. /\ stage = "kat" /\ case \in 1 .. KatCases /\ failed \in Nat
          /\ failed' = failed + CaseFailed(case) /\ case' = case + 1
          /\ stage' = IF case = KatCases THEN "result" ELSE "kat"
          /\ UNCHANGED <<unit, placement_ok, counter_ok, selftest_ok>>
      BY <1>1, <1>7 DEF KatCase, StagesTyped, KatCases
    <2>2. CaseFailed(case) \in Nat
          /\ (CaseFailed(case) = 0 <=> CaseRight(case, unit.library))
      BY <1>1, <2>1, CaseTells
    <2>3. StagesTyped'
      <3>1. case' \in 1 .. KatCases + 1 /\ failed' \in Nat
        BY <2>1, <2>2 DEF KatCases
      <3>2. stage' = "result" => case' = KatCases + 1
        BY <2>1
      <3> QED BY <1>1, <2>1, <3>1, <3>2 DEF StagesTyped
    <2>4. CountTells'
      <3>1. failed' = 0 <=> failed = 0 /\ CaseFailed(case) = 0
        BY <2>1, <2>2
      <3>2. case' - 1 = case /\ 1 .. case = (1 .. case - 1) \cup {case}
        BY <2>1 DEF KatCases
      <3>3. failed' = 0 <=> \A i \in 1 .. case' - 1 : CaseRight(i, unit.library)
        BY <1>1, <2>2, <3>1, <3>2 DEF CountTells
      <3> QED BY <1>1, <3>3 DEF CountTells
    <2>5. FlagsTell'
      BY <1>1, <2>1 DEF FlagsTell, PlacementRight, ClockRight, Conforms
    <2> QED BY <1>2, <1>3, <2>3, <2>4, <2>5 DEF VerifiedInv
  <1> QED BY <1>1, <1>4, <1>5, <1>6, <1>7 DEF BringUpStep

LEMMA ResultKeepsVerified ==
  ASSUME VerifiedInv, Result PROVE VerifiedInv'
  <1>1. /\ stage = "result" /\ stage' = "done"
        /\ app' = IF BringUpPasses THEN "init" ELSE "stopped"
        /\ UNCHANGED <<unit, case, failed, placement_ok, counter_ok, selftest_ok>>
        /\ drew' = drew
        /\ StagesTyped /\ FlagsTell /\ CountTells /\ GateTells /\ OnlyVerifiedDraw
    BY DEF Result, VerifiedInv
  <1>2. StagesTyped' /\ FlagsTell' /\ CountTells' /\ OnlyVerifiedDraw'
    BY <1>1 DEF StagesTyped, FlagsTell, CountTells, OnlyVerifiedDraw,
                PlacementRight, ClockRight, Conforms, Sound
  <1>3. GateTells'
    BY <1>1 DEF GateTells, BringUpPasses, kat_ok
  <1> QED BY <1>2, <1>3 DEF VerifiedInv

\* Behind the checks, a draw needs app_main to have passed them, and app_main
\* stops only after wifi_sta_start has returned something.
LEMMA AfterGateKeepsVerified ==
  ASSUME VerifiedInv, WifiInv, AfterGate PROVE VerifiedInv'
  <1>1. /\ app # "gate" /\ AppStep /\ UNCHANGED bringUpVars
        /\ StagesTyped /\ FlagsTell /\ CountTells /\ GateTells /\ OnlyVerifiedDraw
        /\ stage = "done"
    BY DEF AfterGate, VerifiedInv, GateTells
  <1>2. StagesTyped' /\ FlagsTell' /\ CountTells'
    BY <1>1 DEF StagesTyped, FlagsTell, CountTells, PlacementRight, ClockRight,
                Conforms, bringUpVars
  <1>3. /\ app \notin {"gate", "stopped"} /\ app' # "gate"
        /\ app' = "stopped" => started' # "no"
    <2>1. app = "sessions" => started = "ok"
      BY DEF WifiInv, BringUpOrder
    <2> QED BY <1>1, <2>1 DEF AppStep, Gate, SetUp, NoMemory, StartRadio,
                              WaitReturns, WaitTimesOut, StartReturns, Draw
  <1>4. BringUpPasses /\ BringUpPasses'
    BY <1>1, <1>3 DEF GateTells, BringUpPasses, kat_ok, bringUpVars
  <1>5. GateTells'
    BY <1>1, <1>3, <1>4 DEF GateTells, bringUpVars
  <1>6. OnlyVerifiedDraw'
    <2>1. Conforms(unit.library) /\ Sound(unit.board)
      BY <1>1, <1>4, PassingTells
    <2> QED BY <1>1, <2>1 DEF OnlyVerifiedDraw, Conforms, Sound, bringUpVars
  <1> QED BY <1>2, <1>5, <1>6 DEF VerifiedInv

LEMMA RestartKeepsVerified ==
  ASSUME VerifiedInv, Restart PROVE VerifiedInv'
  <1>1. /\ stage' = "placement" /\ case' = 1 /\ failed' = 0 /\ unit' = unit
        /\ app' = "gate" /\ drew' = drew
        /\ StagesTyped /\ OnlyVerifiedDraw
    BY DEF Restart, Restarted, Panic, PowerOn, VerifiedInv
  <1>2. StagesTyped' /\ FlagsTell' /\ GateTells' /\ OnlyVerifiedDraw'
    BY <1>1 DEF StagesTyped, FlagsTell, GateTells, OnlyVerifiedDraw, Conforms,
                Sound, KatCases
  <1>3. CountTells'
    <2>1. case' - 1 = 0 /\ 1 .. 0 = {}
      BY <1>1
    <2> QED BY <1>1, <2>1 DEF CountTells
  <1> QED BY <1>2, <1>3 DEF VerifiedInv

\* The event task, the driver and a stuttering step have no part in it.
LEMMA OthersKeepVerified ==
  ASSUME VerifiedInv, UNCHANGED bringUpVars, UNCHANGED appVars
  PROVE  VerifiedInv'
  BY DEF VerifiedInv, StagesTyped, FlagsTell, CountTells, GateTells,
         OnlyVerifiedDraw, PlacementRight, ClockRight, Conforms, Sound,
         BringUpPasses, kat_ok, bringUpVars, appVars

LEMMA VerifiedStep ==
  ASSUME VerifiedInv, WifiInv, [BootNext]_bootVars PROVE VerifiedInv'
  <1>1. CASE Handler \/ Radio \/ UNCHANGED bootVars
    <2>1. UNCHANGED bringUpVars /\ UNCHANGED appVars
      BY <1>1 DEF Handler, Radio, bootVars, vars, EventStep, OnStaStart,
                  OnDisconnected, BackOffEnds, OnGotIp, Join, JoinFails, Lease,
                  Lose, Driver
    <2> QED BY <2>1, OthersKeepVerified
  <1>2. CASE MainTask
    BY <1>2, CheckKeepsVerified, ResultKeepsVerified, AfterGateKeepsVerified
       DEF MainTask
  <1>3. CASE Restart
    BY <1>3, RestartKeepsVerified
  <1> QED BY <1>1, <1>2, <1>3 DEF BootNext

LEMMA VerifiedInductive == BootSpec => []VerifiedInv
  <1>1. BootSpec => []WifiInv
    BY BootImplementsWifiSta, InvInductive, PTL
  <1>2. VerifiedInv /\ WifiInv /\ [BootNext]_bootVars => VerifiedInv'
    BY VerifiedStep
  <1> QED BY <1>1, <1>2, VerifiedInit, PTL DEF BootSpec

-----------------------------------------------------------------------------
(***************************************************************************)
(* The theorems.                                                           *)
(***************************************************************************)
\* Key material is drawn only on a sound board with a library that treats every
\* kind of input as FIPS 203 says (main.c, mlkem_kat_run).
THEOREM OnlyVerifiedUnitsDraw == BootSpec => []OnlyVerifiedDraw
  <1>1. VerifiedInv => OnlyVerifiedDraw
    BY DEF VerifiedInv
  <1> QED BY VerifiedInductive, <1>1, PTL

\* app_main stops at its checks only on a unit that has something wrong,
\* wherever the cycle counter wraps (verify_cycle_counter).
THEOREM GoodUnitsPass == BootSpec => []NoFalseAlarm
  <1>1. VerifiedInv => NoFalseAlarm
    <2> SUFFICES ASSUME VerifiedInv, app = "stopped", started = "no"
                 PROVE  ~(Conforms(unit.library) /\ Sound(unit.board))
      BY DEF NoFalseAlarm
    <2>1. stage = "done" /\ ~BringUpPasses
      BY DEF VerifiedInv, GateTells, StagesTyped
    <2> QED BY <2>1, PassingTells
  <1> QED BY VerifiedInductive, <1>1, PTL

\* With its checks in front, app_main still draws only behind the bring-up.
THEOREM VerifiedKeysComeAfterBringUp == BootSpec => []NoBlindDraw
  BY BootImplementsWifiSta, KeysComeAfterBringUp, PTL
=============================================================================
