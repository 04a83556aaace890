------------------------------ MODULE BringUp ------------------------------
(***************************************************************************)
(* What app_main (main/main.c) checks before the radio comes up: where     *)
(* buffers are placed, that the cycle counter runs at the configured       *)
(* clock, the ML-KEM self-test (main/mlkem_selftest.c) and the NIST ACVP   *)
(* vectors (main/mlkem_kat.c over main/acvp_vectors.h).                    *)
(*                                                                         *)
(* The checks judge a unit: a board and the ML-KEM library it is linked    *)
(* with.  A library is described, per parameter set, by how each of its    *)
(* functions treats each kind of input:                                    *)
(*   keypair, enc, dec   "fips" as FIPS 203 says; "other" not so, but      *)
(*                       consistently; "error"                             *)
(*   reject              what dec makes of a modified ciphertext: "fips",  *)
(*                       "same" secret as if unmodified, "other", "error"  *)
(*   check_pk, check_sk  "checks" the key, "accepts" or "refuses" any      *)
(***************************************************************************)
EXTENDS Integers, Sequences, FiniteSets

CONSTANTS
  Unit,     \* [board, library] of the units the checks may run on
  MHZ,      \* CONFIG_ESP_DEFAULT_CPU_FREQ_MHZ
  Wrap      \* the cycle counter counts modulo this, 2^32

Level == {512, 768}
Answers == {"fips", "other", "error"}
Checks == {"checks", "accepts", "refuses"}
Library == [Level -> [keypair : Answers, enc : Answers, dec : Answers,
                      reject : Answers \cup {"same"},
                      check_pk : Checks, check_sk : Checks]]

Memory == {"null", "internal", "psram"}
Board == [malloc : Memory, spiram : Memory,
          mhz : Nat, elapsed : Nat \ {0}, c0 : 0 .. Wrap - 1]

ASSUME BringUpAssumption ==
  /\ MHZ \in Nat /\ Wrap \in Nat \ {0}
  /\ \A u \in Unit : /\ u.board \in Board /\ u.library \in Library
                     /\ u.board.mhz * u.board.elapsed < Wrap

VARIABLES
  unit,          \* the unit under test
  stage,         \* the check app_main is at
  case,          \* the next of mlkem_kat_run's cases
  failed,        \* the vectors that have failed so far
  placement_ok, counter_ok, selftest_ok

bringUpVars == <<unit, stage, case, failed, placement_ok, counter_ok, selftest_ok>>

(***************************************************************************)
(* The vectors.  Of one only the kind of its input matters: a seed, a key  *)
(* in canonical form, a ciphertext that is genuine or was modified, a key  *)
(* that is valid or not.                                                   *)
(***************************************************************************)
Of(kind, count) == [i \in 1 .. count |-> kind]

kat512_keygen == Of("seed", 25)
kat512_encap == Of("canonical", 25)
kat512_decap == <<"modified", "modified", "modified", "genuine", "genuine",
                  "genuine", "modified", "modified", "genuine", "genuine">>
\* Fault: the first two of each group, as with --limit 2.
kat512_dkcheck_first == <<0, 0>>
kat512_ekcheck == <<1, 0, 0, 0, 1, 1, 1, 0, 1, 0>>
kat512_dkcheck == <<0, 0, 1, 0, 0, 1, 1, 0, 1, 1>>

kat768_keygen == Of("seed", 25)
kat768_encap == Of("canonical", 25)
kat768_decap == <<"genuine", "genuine", "modified", "genuine", "genuine",
                  "modified", "modified", "modified", "genuine", "modified">>
kat768_ekcheck == <<1, 0, 0, 1, 1, 0, 0, 1, 1, 0>>
kat768_dkcheck == <<1, 1, 0, 1, 1, 1, 0, 0, 0, 0>>

(***************************************************************************)
(* mlkem_kat.c.  Each group counts the vectors the library gets wrong.     *)
(***************************************************************************)
lib(l) == unit.library[l]
FailedOf(vectors, Wrong(_)) ==
  Cardinality({i \in DOMAIN vectors : Wrong(vectors[i])})

kat_keygen(l) ==
  LET Wrong(v) == lib(l).keypair # "fips"
  IN  FailedOf(IF l = 512 THEN kat512_keygen ELSE kat768_keygen, Wrong)

kat_encap(l) ==
  LET Wrong(v) == lib(l).enc # "fips"
  IN  FailedOf(IF l = 512 THEN kat512_encap ELSE kat768_encap, Wrong)

kat_decap(l) ==
  LET Wrong(v) == IF v = "genuine" THEN lib(l).dec # "fips"
                                   ELSE lib(l).reject # "fips"
  IN  FailedOf(IF l = 512 THEN kat512_decap ELSE kat768_decap, Wrong)

\* What check_pk or check_sk says of a key that is valid (1) or not (0).
Accepts(check, v) == check = "accepts" \/ (check = "checks" /\ v = 1)

kat_ekcheck(l) ==
  LET Wrong(v) == Accepts(lib(l).check_pk, v) # (v # 0)
  IN  FailedOf(IF l = 512 THEN kat512_ekcheck ELSE kat768_ekcheck, Wrong)

kat_dkcheck(l) ==
  LET Wrong(v) == Accepts(lib(l).check_sk, v) # (v # 0)
  IN  FailedOf(IF l = 512 THEN kat512_dkcheck ELSE kat768_dkcheck, Wrong)

\* The cases of mlkem_kat_run, in order.
KatCases == 10
CaseFailed(i) ==
  LET l == IF i <= 5 THEN 512 ELSE 768
      group == IF i <= 5 THEN i ELSE i - 5
  IN  CASE group = 1 -> kat_keygen(l)
        [] group = 2 -> kat_encap(l)
        [] group = 3 -> kat_decap(l)
        [] group = 4 -> kat_ekcheck(l)
        [] group = 5 -> kat_dkcheck(l)

(***************************************************************************)
(* mlkem_selftest.c: consistency only.  Both ends of a round trip agree    *)
(* when encapsulation and decapsulation go wrong the same way.             *)
(***************************************************************************)
Runs(l) == "error" \notin {lib(l).keypair, lib(l).enc}
Agree(l) == lib(l).enc = lib(l).dec

roundtrip(l) == Runs(l) /\ lib(l).dec # "error" /\ Agree(l)

\* The secret of a modified ciphertext must differ from the encapsulated one.
implicit_rejection_768 ==
  /\ Runs(768)
  /\ lib(768).reject # "error"
  /\ ~(lib(768).reject = "same" /\ Agree(768))

\* Plain malloc is internal SRAM, and PSRAM is there on request.
PlacementRight == unit.board.malloc = "internal" /\ unit.board.spiram = "psram"

\* Fault: the difference of the two readings as it is.
CyclesSigned ==
  LET b == unit.board IN ((b.c0 + b.mhz * b.elapsed) % Wrap) - b.c0
\* c1 - c0, both 32 bits wide.
Cycles ==
  LET b == unit.board IN (((b.c0 + b.mhz * b.elapsed) % Wrap) - b.c0) % Wrap

\* The deviation from the configured clock is below 2 MHz.
CounterRight ==
  LET off == Cycles - MHZ * unit.board.elapsed
  IN  (IF off < 0 THEN 0 - off ELSE off) < 2 * unit.board.elapsed

(***************************************************************************)
(* Actions, in app_main's order.  Every check runs, whatever the ones      *)
(* before it said.                                                         *)
(***************************************************************************)
Restarted ==
  /\ stage' = "placement" /\ case' = 1 /\ failed' = 0
  /\ placement_ok' = FALSE /\ counter_ok' = FALSE /\ selftest_ok' = FALSE
  /\ UNCHANGED unit

BringUpInit ==
  /\ unit \in Unit
  /\ stage = "placement" /\ case = 1 /\ failed = 0
  /\ placement_ok = FALSE /\ counter_ok = FALSE /\ selftest_ok = FALSE

verify_buffer_placement ==
  /\ stage = "placement" /\ stage' = "counter"
  /\ placement_ok' = PlacementRight
  /\ UNCHANGED <<unit, case, failed, counter_ok, selftest_ok>>

verify_cycle_counter ==
  /\ stage = "counter" /\ stage' = "selftest"
  /\ counter_ok' = CounterRight
  /\ UNCHANGED <<unit, case, failed, placement_ok, selftest_ok>>

mlkem_selftest_run ==
  /\ stage = "selftest" /\ stage' = "kat"
  /\ selftest_ok' = (roundtrip(512) /\ roundtrip(768) /\ implicit_rejection_768)
  /\ UNCHANGED <<unit, case, failed, placement_ok, counter_ok>>

\* One round of mlkem_kat_run's loop.
KatCase ==
  /\ stage = "kat" /\ case <= KatCases
  /\ failed' = failed + CaseFailed(case)
  /\ case' = case + 1
  /\ stage' = IF case = KatCases THEN "result" ELSE "kat"
  /\ UNCHANGED <<unit, placement_ok, counter_ok, selftest_ok>>

BringUpStep == \/ verify_buffer_placement \/ verify_cycle_counter
               \/ mlkem_selftest_run \/ KatCase

kat_ok == failed = 0
BringUpPasses == placement_ok /\ counter_ok /\ selftest_ok /\ kat_ok

(***************************************************************************)
(* What the checks are for.                                                *)
(***************************************************************************)
\* FIPS 203 for every kind of input, at both levels.
Conforms(library) ==
  \A l \in Level :
    library[l] = [keypair |-> "fips", enc |-> "fips", dec |-> "fips",
                  reject |-> "fips", check_pk |-> "checks",
                  check_sk |-> "checks"]

\* A board as docs/hardware.md describes it.
Sound(board) == /\ board.malloc = "internal" /\ board.spiram = "psram"
                /\ MHZ - 2 < board.mhz /\ board.mhz < MHZ + 2
=============================================================================
