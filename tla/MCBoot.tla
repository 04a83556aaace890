------------------------------- MODULE MCBoot -------------------------------
(***************************************************************************)
(* Units for Boot: one good board with every library that deviates at most *)
(* at one parameter set, and the conforming library on every board.        *)
(***************************************************************************)
EXTENDS Boot

Fips == [keypair |-> "fips", enc |-> "fips", dec |-> "fips",
         reject |-> "fips", check_pk |-> "checks", check_sk |-> "checks"]
FipsLibrary == [l \in Level |-> Fips]
LevelLibrary == [keypair : Answers, enc : Answers, dec : Answers,
                 reject : Answers \cup {"same"},
                 check_pk : Checks, check_sk : Checks]

GoodBoard == [malloc |-> "internal", spiram |-> "psram", mhz |-> 240,
              elapsed |-> 2, c0 |-> 0]
Boards == [malloc : Memory, spiram : Memory, mhz : {160, 238, 239, 241, 242},
           elapsed : {2, 3}, c0 : {0, 600, 999}]

Units ==
  [board : {GoodBoard},
   library : {[FipsLibrary EXCEPT ![l] = lib_] : l \in Level, lib_ \in LevelLibrary}]
  \cup [board : Boards, library : {FipsLibrary}]
=============================================================================
