------------------------- MODULE DeviceTableProofs -------------------------
(***************************************************************************)
(* Proofs about the device table: for any number of devices, registrations *)
(* under way at once, edits by hand and ticks shared.                      *)
(***************************************************************************)
EXTENDS DeviceTable, FiniteSetTheorems, SequenceTheorems, WellFoundedInduction,
        TLAPS

Stamped(c) == [psks : Table, at : 0 .. c]
FileType(c) == [psks : Table, whole : BOOLEAN, size : Nat, private : BOOLEAN,
                exists : BOOLEAN, mtime : 0 .. c]

FileTyped ==
  /\ clock \in Nat /\ file \in FileType(clock) /\ file.mtime = clock
  /\ file.whole => file.exists
  /\ tables \in Seq(Stamped(clock))
  /\ sameTick \in 0 .. MaxSameTick

RegTyped ==
  /\ reg \in [Registrar ->
               {"start", "read", "truncated", "written", "done", "failed"}]
  /\ local \in [Registrar -> Table]
  /\ edits \in 0 .. MaxEdits /\ deaths \in 0 .. MaxDeaths
  /\ wrote \in [Registrar -> 0 .. Len(tables)]
  /\ overlapped \in BOOLEAN

TableTyped ==
  /\ spc \in {"down", "idle", "stat", "read"}
  /\ asked \in Device \cup {NoDevice}
  /\ lookingUp => spc \in {"stat", "read"}
  /\ st_mtime \in 0 .. clock
  /\ cache \in [psks : [Device -> Psk \cup {NoPsk}], mtime : 0 .. clock]
  /\ since \in [version : Nat, torn : BOOLEAN, done : SUBSET Registrar]

Typed == FileTyped /\ RegTyped /\ TableTyped

\* The tables the file has held stay in the history, in their places.
Grows == /\ Len(tables) <= Len(tables')
         /\ \A i \in 1 .. Len(tables) : tables'[i] = tables[i]

-----------------------------------------------------------------------------
LEMMA SizeIsNat == ASSUME NEW psks \in Table PROVE size(psks) \in Nat
  <1>1. IsFiniteSet(Device)
    BY TableAssumption
  <1>2. {d \in Device : psks[d] # NoPsk} \in SUBSET Device
    OBVIOUS
  <1>3. IsFiniteSet({d \in Device : psks[d] # NoPsk})
    BY <1>1, <1>2, FS_Subset
  <1> QED BY <1>3, FS_CardinalityType DEF size

\* A set of naturals with a member has a least one.
LEMMA LeastExists ==
  ASSUME NEW S \in SUBSET Nat, S # {}
  PROVE  Min(S) \in S /\ \A y \in S : Min(S) <= y
  <1> DEFINE R == OpToRel(<, Nat)
  <1>1. IsWellFoundedOn(R, Nat)
    BY NatLessThanWellFounded
  <1>2. \E x \in S : \A y \in S : ~ (<<y, x>> \in R)
    <2> HIDE DEF R
    <2> QED BY <1>1, WFMin
  <1>3. PICK x \in S : \A y \in S : ~ (<<y, x>> \in R)
    BY <1>2
  <1>4. ASSUME NEW y \in S PROVE x <= y
    <2>1. ~ (<<y, x>> \in R)
      BY <1>3
    <2>2. x \in Nat /\ y \in Nat
      OBVIOUS
    <2>3. ~ (y < x)
      BY <2>1, <2>2 DEF OpToRel
    <2> QED BY <2>2, <2>3
  <1>5. \E z \in S : \A y \in S : z <= y
    BY <1>4
  <1> QED BY <1>5 DEF Min

\* The first table of the last one's tick is in the history, and no later than
\* any other of that tick.
LEMMA FirstOfTick ==
  ASSUME FileTyped
  PROVE  /\ firstOfTick \in 0 .. Len(tables)
         /\ \A j \in 1 .. Len(tables) :
              tables[j].at = tables[Len(tables)].at => firstOfTick <= j
  <1>1. Len(tables) \in Nat
    BY LenProperties DEF FileTyped
  <1>2. CASE tables = <<>>
    <2>1. Len(tables) = 0
      BY <1>2
    <2> QED BY <1>2, <2>1 DEF firstOfTick
  <1>3. CASE tables # <<>>
    <2>1. Len(tables) # 0
      BY <1>3, EmptySeq DEF FileTyped
    <2>2. Len(tables) \in sameAsLast
      BY <1>1, <2>1 DEF sameAsLast
    <2>3. sameAsLast \in SUBSET Nat
      BY <1>1 DEF sameAsLast
    <2>4. firstOfTick \in sameAsLast /\ \A j \in sameAsLast : firstOfTick <= j
      BY <1>3, <2>2, <2>3, LeastExists DEF firstOfTick
    <2> QED BY <1>1, <2>4 DEF sameAsLast
  <1> QED BY <1>2, <1>3

-----------------------------------------------------------------------------
\* What a change of the content does to the file and its history.
LEMMA ChangeFile ==
  ASSUME FileTyped, NEW content \in Content, Change(content)
  PROVE  /\ FileTyped'
         /\ Grows
         /\ clock <= clock'
         /\ file'.exists /\ file'.psks = content.psks
         /\ file'.whole = content.whole /\ file'.private = content.private
         /\ file'.size = content.size
         /\ content.whole => /\ Len(tables') = Len(tables) + 1
                             /\ tables'[Len(tables')] =
                                  [psks |-> content.psks, at |-> clock']
         /\ ~content.whole => tables' = tables
  <1>1. clock' \in Nat /\ clock <= clock' /\ sameTick' \in 0 .. MaxSameTick
    BY TableAssumption DEF Change, FileTyped
  <1>2. content.psks \in Table /\ content.whole \in BOOLEAN
        /\ content.size \in Nat /\ content.private \in BOOLEAN
    BY DEF Content
  <1>3. file' = [psks |-> content.psks, whole |-> content.whole,
                 size |-> content.size, private |-> content.private,
                 exists |-> TRUE, mtime |-> clock']
    BY DEF Change
  <1>4. file' \in FileType(clock') /\ file'.mtime = clock'
    BY <1>1, <1>2, <1>3 DEF FileType
  <1>5. tables \in Seq(Stamped(clock'))
    <2>1. clock \in Nat
      BY DEF FileTyped
    <2>2. Stamped(clock) \subseteq Stamped(clock')
      BY <1>1, <2>1 DEF Stamped
    <2>3. tables \in Seq(Stamped(clock))
      BY DEF FileTyped
    <2> QED BY <2>2, <2>3, SeqMonotonic
  <1>6. Len(tables) \in Nat
    BY <1>5, LenProperties
  <1> DEFINE new == [psks |-> content.psks, at |-> clock']
  <1>7. new \in Stamped(clock')
    BY <1>1, <1>2 DEF Stamped
  <1>8. CASE content.whole
    <2>1. tables' = Append(tables, new)
      BY <1>8 DEF Change
    <2> HIDE DEF new
    <2>2. /\ tables' \in Seq(Stamped(clock'))
          /\ Len(tables') = Len(tables) + 1
          /\ \A i \in 1 .. Len(tables) : tables'[i] = tables[i]
          /\ tables'[Len(tables) + 1] = new
      BY <1>5, <1>7, <2>1, AppendProperties
    <2>3. FileTyped'
      BY <1>1, <1>3, <1>4, <2>2 DEF FileTyped
    <2>4. Grows
      BY <1>6, <2>2 DEF Grows
    <2> QED BY <1>1, <1>3, <1>8, <2>2, <2>3, <2>4 DEF new
  <1>9. CASE ~content.whole
    <2>1. tables' = tables
      BY <1>9 DEF Change
    <2>2. FileTyped'
      BY <1>1, <1>3, <1>4, <1>5, <2>1 DEF FileTyped
    <2>3. Grows
      BY <1>6, <2>1 DEF Grows
    <2> QED BY <1>1, <1>3, <1>9, <2>1, <2>2, <2>3
  <1> QED BY <1>8, <1>9

LEMMA Stays == ASSUME FileTyped, UNCHANGED tables PROVE Grows
  BY LenProperties DEF Grows, FileTyped

\* ... and to what a look-up under way remembers of its beginning.
LEMMA ChangeSince ==
  ASSUME TableTyped, NEW content \in Content, Change(content)
  PROVE  /\ since' \in [version : Nat, torn : BOOLEAN, done : SUBSET Registrar]
         /\ since'.version = since.version /\ since'.done = since.done
         /\ since.torn \/ ~content.whole => since'.torn
  <1> DEFINE b == since.torn \/ ~content.whole
  <1>1. since' = [since EXCEPT !.torn = b]
    BY Zenon DEF Change
  <1>2. b \in BOOLEAN /\ (since.torn \/ ~content.whole => b)
    BY Zenon
  <1>3. since \in [version : Nat, torn : BOOLEAN, done : SUBSET Registrar]
    BY DEF TableTyped
  <1> HIDE DEF b
  <1>4. /\ since' \in [version : Nat, torn : BOOLEAN, done : SUBSET Registrar]
        /\ since'.version = since.version /\ since'.done = since.done
        /\ since'.torn = b
    BY <1>1, <1>2, <1>3
  <1> QED BY <1>2, <1>4

LEMMA BeginningTyped ==
  ASSUME Typed
  PROVE  /\ Beginning \in [version : Nat, torn : BOOLEAN, done : SUBSET Registrar]
         /\ Beginning.version = firstOfTick
         /\ Beginning.torn = ~file.whole
         /\ Beginning.done = {r \in done : wrote[r] <= firstOfTick}
  <1> DEFINE v == firstOfTick
             b == ~file.whole
             D == {r \in done : wrote[r] <= firstOfTick}
  <1>1. v \in Nat
    BY FirstOfTick, LenProperties DEF Typed, FileTyped
  <1>2. b \in BOOLEAN
    BY Zenon
  <1>3. D \in SUBSET Registrar
    BY DEF done
  <1>4. Beginning = [version |-> v, torn |-> b, done |-> D]
    BY Zenon DEF Beginning
  <1> HIDE DEF v, b, D
  <1>5. /\ Beginning \in [version : Nat, torn : BOOLEAN, done : SUBSET Registrar]
        /\ Beginning.version = v /\ Beginning.torn = b /\ Beginning.done = D
    BY <1>1, <1>2, <1>3, <1>4
  <1> QED BY <1>5, Zenon DEF v, b, D

\* The server's variables stay typed when it does nothing and time passes.
LEMMA TableStays ==
  ASSUME Typed, UNCHANGED tableVars, clock' \in Nat, clock <= clock',
         since' \in [version : Nat, torn : BOOLEAN, done : SUBSET Registrar]
  PROVE  TableTyped'
  BY DEF Typed, FileTyped, TableTyped, tableVars, lookingUp

\* The registrations' variables stay typed when none of them moves.
LEMMA RegStays ==
  ASSUME Typed, UNCHANGED <<reg, local, edits, deaths, overlapped>>, Grows,
         FileTyped', wrote' \in [Registrar -> 0 .. Len(tables')]
  PROVE  RegTyped'
  BY DEF Typed, RegTyped

LEMMA WroteStays ==
  ASSUME Typed, UNCHANGED wrote, Grows, FileTyped'
  PROVE  wrote' \in [Registrar -> 0 .. Len(tables')]
  <1>1. Len(tables) \in Nat /\ Len(tables') \in Nat
    BY LenProperties DEF Typed, FileTyped
  <1> QED BY <1>1 DEF Typed, RegTyped, Grows

LEMMA NoTableTyped == NoTable \in Table
  BY DEF NoTable, Table, Entry

LEMMA LocalTyped ==
  ASSUME Typed, NEW r \in Registrar
  PROVE  [local[r] EXCEPT ![Job[r].device] = Job[r].psk] \in Table
  BY TableAssumption DEF Typed, RegTyped, Table, Entry

-----------------------------------------------------------------------------
(***************************************************************************)
(* Types.                                                                  *)
(***************************************************************************)
LEMMA EditTyped == ASSUME Typed, Edit PROVE Typed'
  <1>1. PICK content \in Edits : Change(content)
    BY DEF Edit
  <1>2. content \in Content
    BY TableAssumption
  <1>3. FileTyped' /\ Grows /\ clock <= clock' /\ clock' \in Nat
    BY <1>1, <1>2, ChangeFile DEF Typed, FileTyped
  <1>4. TableTyped'
    BY <1>1, <1>2, <1>3, ChangeSince, TableStays DEF Edit, Typed
  <1>5. wrote' \in [Registrar -> 0 .. Len(tables')]
    BY <1>3, WroteStays DEF Edit
  <1>6. edits' \in 0 .. MaxEdits
    BY TableAssumption DEF Edit, Typed, RegTyped
  <1>7. RegTyped'
    BY <1>5, <1>6 DEF Edit, Typed, RegTyped
  <1> QED BY <1>3, <1>4, <1>7 DEF Typed

LEMMA RegReadTyped ==
  ASSUME Typed, NEW r \in Registrar, RegRead(r) PROVE Typed'
  <1>1. FileTyped' /\ TableTyped'
    BY DEF RegRead, Typed, FileTyped, TableTyped, fileVars, tableVars, lookingUp
  <1>2. file.psks \in Table
    BY DEF Typed, FileTyped, FileType
  <1>3. reg' \in [Registrar ->
                    {"start", "read", "truncated", "written", "done", "failed"}]
    BY DEF RegRead, RegStep, Typed, RegTyped
  <1>4. local' \in [Registrar -> Table]
    BY <1>2, NoTableTyped DEF RegRead, Typed, RegTyped
  <1>5. overlapped' \in BOOLEAN
    BY Zenon DEF RegRead
  <1>6. UNCHANGED <<tables, edits, deaths, wrote>>
    BY DEF RegRead, fileVars
  <1>7. RegTyped'
    BY <1>3, <1>4, <1>5, <1>6 DEF Typed, RegTyped
  <1> QED BY <1>1, <1>7 DEF Typed

LEMMA RegTruncateTyped ==
  ASSUME Typed, NEW r \in Registrar, RegTruncate(r) PROVE Typed'
  <1> DEFINE p == file.private \/ ~file.exists
             content == [psks |-> NoTable, whole |-> FALSE, size |-> 0,
                         private |-> p]
  <1>1. p \in BOOLEAN
    BY Zenon
  <1>2. Change(content)
    BY Zenon DEF RegTruncate
  <1> HIDE DEF p
  <1>3. content \in Content
    BY <1>1, NoTableTyped DEF Content
  <1> HIDE DEF content
  <1>4. FileTyped' /\ Grows /\ clock <= clock' /\ clock' \in Nat
    BY <1>2, <1>3, ChangeFile DEF Typed, FileTyped
  <1>5. TableTyped'
    BY <1>2, <1>3, <1>4, ChangeSince, TableStays DEF RegTruncate, Typed
  <1>6. wrote' \in [Registrar -> 0 .. Len(tables')]
    BY <1>4, WroteStays DEF RegTruncate
  <1>7. RegTyped'
    BY <1>6 DEF RegTruncate, RegStep, Typed, RegTyped
  <1> QED BY <1>4, <1>5, <1>7 DEF Typed

\* What RegWrite leaves in the file.
Written(r) ==
  LET psks == [local[r] EXCEPT ![Job[r].device] = Job[r].psk] IN
  [psks |-> psks, whole |-> file.size <= size(psks),
   size |-> IF file.size <= size(psks) THEN size(psks) ELSE file.size,
   private |-> file.private]

LEMMA WrittenTyped ==
  ASSUME Typed, NEW r \in Registrar, RegWrite(r)
  PROVE  Written(r) \in Content /\ Change(Written(r))
  <1> DEFINE psks == [local[r] EXCEPT ![Job[r].device] = Job[r].psk]
             w == file.size <= size(psks)
             n == IF file.size <= size(psks) THEN size(psks) ELSE file.size
  <1>1. Change(Written(r))
    BY Zenon DEF RegWrite, Written
  <1>2. psks \in Table
    BY LocalTyped, Zenon
  <1>3. size(psks) \in Nat
    BY <1>2, SizeIsNat
  <1>4. file.size \in Nat /\ file.private \in BOOLEAN
    BY DEF Typed, FileTyped, FileType
  <1>5. w \in BOOLEAN /\ n \in Nat
    <2> HIDE DEF psks
    <2> QED BY <1>3, <1>4
  <1>6. Written(r) = [psks |-> psks, whole |-> w, size |-> n,
                      private |-> file.private]
    BY Zenon DEF Written
  <1> HIDE DEF psks, w, n
  <1> QED BY <1>1, <1>2, <1>4, <1>5, <1>6 DEF Content

LEMMA RegWriteTyped ==
  ASSUME Typed, NEW r \in Registrar, RegWrite(r) PROVE Typed'
  <1>1. Written(r) \in Content /\ Change(Written(r))
    BY WrittenTyped
  <1>2. FileTyped' /\ Grows /\ clock <= clock' /\ clock' \in Nat
    BY <1>1, ChangeFile DEF Typed, FileTyped
  <1>3. TableTyped'
    BY <1>1, <1>2, ChangeSince, TableStays DEF RegWrite, Typed
  <1>4. Len(tables') \in Nat /\ Len(tables) \in Nat
    BY <1>2, LenProperties DEF Typed, FileTyped
  <1>5. wrote' \in [Registrar -> 0 .. Len(tables')]
    BY <1>2, <1>4 DEF RegWrite, Typed, RegTyped, Grows
  <1>6. RegTyped'
    BY <1>5 DEF RegWrite, RegStep, Typed, RegTyped
  <1> QED BY <1>2, <1>3, <1>6 DEF Typed

LEMMA RegChmodTyped ==
  ASSUME Typed, NEW r \in Registrar, RegChmod(r) PROVE Typed'
  <1>1. file' \in FileType(clock') /\ file'.mtime = clock' /\ file'.whole = file.whole
        /\ file'.exists = file.exists
    BY DEF RegChmod, Typed, FileTyped, FileType
  <1>2. FileTyped'
    BY <1>1 DEF RegChmod, Typed, FileTyped
  <1>3. TableTyped'
    BY DEF RegChmod, Typed, TableTyped, tableVars, lookingUp
  <1>4. RegTyped'
    BY DEF RegChmod, RegStep, Typed, RegTyped
  <1> QED BY <1>2, <1>3, <1>4 DEF Typed

LEMMA RegDiesTyped ==
  ASSUME Typed, NEW r \in Registrar, RegDies(r) PROVE Typed'
  <1>1. FileTyped' /\ TableTyped'
    BY DEF RegDies, Typed, FileTyped, TableTyped, fileVars, tableVars, lookingUp
  <1>2. deaths' \in 0 .. MaxDeaths
    BY TableAssumption DEF RegDies, Typed, RegTyped
  <1>3. RegTyped'
    BY <1>2 DEF RegDies, Typed, RegTyped, fileVars
  <1> QED BY <1>1, <1>3 DEF Typed

LEMMA StartTyped == ASSUME Typed, Start PROVE Typed'
  <1>1. FileTyped' /\ RegTyped'
    BY DEF Start, Typed, FileTyped, RegTyped, fileVars, regVars
  <1>2. cache' \in [psks : [Device -> Psk \cup {NoPsk}], mtime : 0 .. clock']
    BY DEF Start, Typed, FileTyped, NothingRead, NoTable, fileVars
  <1>3. TableTyped'
    BY <1>2, TableAssumption DEF Start, Typed, TableTyped, lookingUp, fileVars
  <1> QED BY <1>1, <1>3 DEF Typed

LEMMA LookUpTyped == ASSUME Typed, NEW d \in Device, LookUp(d) PROVE Typed'
  <1>1. FileTyped' /\ RegTyped'
    BY DEF LookUp, Typed, FileTyped, RegTyped, fileVars, regVars
  <1>2. since' \in [version : Nat, torn : BOOLEAN, done : SUBSET Registrar]
    BY BeginningTyped DEF LookUp
  <1>3. spc' \in {"idle", "stat"} /\ asked' \in Device \cup {NoDevice}
        /\ (asked' # NoDevice => spc' = "stat")
    BY DEF LookUp, Answer
  <1>4. UNCHANGED <<st_mtime, cache, clock>>
    BY DEF LookUp, fileVars
  <1>5. TableTyped'
    BY <1>2, <1>3, <1>4 DEF Typed, TableTyped, lookingUp
  <1> QED BY <1>1, <1>5 DEF Typed

LEMMA StatTyped == ASSUME Typed, Stat PROVE Typed'
  <1>1. FileTyped' /\ RegTyped'
    BY DEF Stat, Typed, FileTyped, RegTyped, fileVars, regVars
  <1>2. st_mtime' \in 0 .. clock'
    BY DEF Stat, Typed, FileTyped, TableTyped, FileType, fileVars
  <1>3. spc' \in {"down", "read"} /\ asked' \in Device \cup {NoDevice}
        /\ (asked' # NoDevice => spc' = "read")
    BY DEF Stat, Exit, Typed, TableTyped, lookingUp
  <1>4. UNCHANGED <<cache, clock, since>>
    BY DEF Stat, Exit, fileVars
  <1>5. TableTyped'
    BY <1>2, <1>3, <1>4 DEF Typed, TableTyped, lookingUp
  <1> QED BY <1>1, <1>5 DEF Typed

\* A table without malformed entries may be served.
LEMMA WellFormedTable ==
  ASSUME NEW psks \in Table, ~Malformed(psks)
  PROVE  psks \in [Device -> Psk \cup {NoPsk}]
  BY DEF Malformed, Table, Entry

LEMMA ReadTyped == ASSUME Typed, Read PROVE Typed'
  <1>1. FileTyped' /\ RegTyped'
    BY DEF Read, Typed, FileTyped, RegTyped, fileVars, regVars
  <1>2. UNCHANGED <<st_mtime, clock, since>>
    BY DEF Read, fileVars
  <1>3. cache' \in [psks : [Device -> Psk \cup {NoPsk}], mtime : 0 .. clock']
    <2>1. CASE UNCHANGED cache
      BY <1>2, <2>1 DEF Typed, TableTyped
    <2>2. CASE ~Malformed(file.psks) /\ cache' = [psks |-> file.psks, mtime |-> st_mtime]
      <3>1. file.psks \in [Device -> Psk \cup {NoPsk}]
        BY <2>2, WellFormedTable DEF Typed, FileTyped, FileType
      <3>2. st_mtime \in 0 .. clock'
        BY <1>2 DEF Typed, TableTyped
      <3> QED BY <2>2, <3>1, <3>2
    <2> QED BY <2>1, <2>2 DEF Read, Unreadable, Exit
  <1>4. spc' \in {"down", "idle"} /\ asked' = NoDevice
    BY DEF Read, Unreadable, Exit, Answer, lookingUp
  <1>5. TableTyped'
    BY <1>2, <1>3, <1>4 DEF Typed, TableTyped, lookingUp
  <1> QED BY <1>1, <1>5 DEF Typed

LEMMA InitTyped == Init => Typed
  <1> SUFFICES ASSUME Init PROVE Typed
    OBVIOUS
  <1>1. /\ file \in FileType(clock) /\ file.mtime = clock /\ clock \in Nat
        /\ (file.whole => file.exists) /\ file.psks \in Table
    BY TableAssumption DEF Init, FileType
  <1>2. tables \in Seq(Stamped(clock))
    <2>1. CASE file.whole
      <3>1. [psks |-> file.psks, at |-> clock] \in Stamped(clock)
        BY <1>1 DEF Stamped
      <3>2. tables = <<[psks |-> file.psks, at |-> clock]>>
        BY <2>1 DEF Init
      <3> QED BY <3>1, <3>2
    <2>2. CASE ~file.whole
      <3>1. tables = <<>>
        BY <2>2 DEF Init
      <3> QED BY <3>1, EmptySeq
    <2> QED BY <2>1, <2>2
  <1>3. FileTyped
    BY <1>1, <1>2, TableAssumption DEF Init, FileTyped
  <1>4. Len(tables) \in Nat
    BY <1>2, LenProperties
  <1>5. local \in [Registrar -> Table]
    BY NoTableTyped DEF Init
  <1>6. RegTyped
    <2>1. reg \in [Registrar -> {"start", "read", "truncated", "written", "done",
                                "failed"}]
      BY DEF Init
    <2>2. edits \in 0 .. MaxEdits /\ deaths \in 0 .. MaxDeaths
      BY TableAssumption DEF Init
    <2>3. wrote \in [Registrar -> 0 .. Len(tables)]
      <3>1. 0 \in 0 .. Len(tables)
        BY <1>4
      <3>2. wrote = [r \in Registrar |-> 0]
        BY DEF Init
      <3> QED BY <3>1, <3>2
    <2>4. overlapped \in BOOLEAN
      BY DEF Init
    <2> QED BY <1>5, <2>1, <2>2, <2>3, <2>4 DEF RegTyped
  <1>7. TableTyped
    BY <1>1, TableAssumption
    DEF Init, TableTyped, lookingUp, NothingRead, NoTable
  <1> QED BY <1>3, <1>6, <1>7 DEF Typed

LEMMA NextTyped == Typed /\ [Next]_vars => Typed'
  <1> SUFFICES ASSUME Typed, [Next]_vars PROVE Typed'
    OBVIOUS
  <1>1. CASE UNCHANGED vars
    BY <1>1 DEF vars, fileVars, regVars, tableVars, Typed, FileTyped, RegTyped,
                TableTyped, lookingUp
  <1>2. CASE Edit
    BY <1>2, EditTyped
  <1>3. ASSUME NEW r \in Registrar, RegRead(r) PROVE Typed'
    BY <1>3, RegReadTyped
  <1>4. ASSUME NEW r \in Registrar, RegTruncate(r) PROVE Typed'
    BY <1>4, RegTruncateTyped
  <1>5. ASSUME NEW r \in Registrar, RegWrite(r) PROVE Typed'
    BY <1>5, RegWriteTyped
  <1>6. ASSUME NEW r \in Registrar, RegChmod(r) PROVE Typed'
    BY <1>6, RegChmodTyped
  <1>7. ASSUME NEW r \in Registrar, RegDies(r) PROVE Typed'
    BY <1>7, RegDiesTyped
  <1>8. CASE Start
    BY <1>8, StartTyped
  <1>9. CASE Stat
    BY <1>9, StatTyped
  <1>10. CASE Read
    BY <1>10, ReadTyped
  <1>11. ASSUME NEW d \in Device, LookUp(d) PROVE Typed'
    BY <1>11, LookUpTyped
  <1> QED BY <1>1, <1>2, <1>3, <1>4, <1>5, <1>6, <1>7, <1>8, <1>9, <1>10, <1>11
          DEF Next

\* The types hold: of devices.json, the registrations and the server, whose
\* cache (DeviceTable._psks) never holds an entry of the wrong length.
THEOREM TableTypeCorrect == Spec => []TypeOK
  <1>1. Typed => TypeOK
    BY DEF Typed, FileTyped, RegTyped, TableTyped, TypeOK, FileType, Stamped
  <1> QED BY <1>1, InitTyped, NextTyped, PTL DEF Spec

-----------------------------------------------------------------------------
(***************************************************************************)
(* AnswersAreCurrent.  It is not inductive: that an answer is recent       *)
(* enough follows from what the look-up started from (SinceKnown), from    *)
(* the cache being a table the file has held, no older than the            *)
(* modification time kept with it (CacheKnown), and from the file being    *)
(* the last of them whenever it is whole (FileIsLast).                     *)
(***************************************************************************)
FileIsLast ==
  file.whole => /\ Len(tables) > 0
                /\ tables[Len(tables)].psks = file.psks
                /\ tables[Len(tables)].at = file.mtime

SinceKnown ==
  /\ since.version <= Len(tables)
  /\ lookingUp /\ ~file.whole => since.torn

CacheKnown ==
  spc = "idle" \/ lookingUp =>
    \E j \in 1 .. Len(tables) :
      tables[j].psks = cache.psks /\ cache.mtime <= tables[j].at

Current == FileIsLast /\ SinceKnown /\ CacheKnown /\ AnswersAreCurrent

\* What every step of a registration or of an edit does to the server's side.
WriterStep ==
  /\ UNCHANGED <<tableVars, answer>> /\ Grows
  /\ since'.version = since.version /\ since'.done = since.done
  /\ since.torn => since'.torn
  /\ file.whole /\ ~file'.whole => since'.torn

LEMMA ChangeIsWriterStep ==
  ASSUME Typed, NEW content \in Content, Change(content),
         UNCHANGED <<tableVars, answer>>
  PROVE  WriterStep /\ FileIsLast'
  <1>1. /\ FileTyped' /\ Grows
        /\ file'.psks = content.psks /\ file'.whole = content.whole
        /\ content.whole => /\ Len(tables') = Len(tables) + 1
                            /\ tables'[Len(tables')] =
                                 [psks |-> content.psks, at |-> clock']
    BY ChangeFile DEF Typed
  <1>2. /\ since'.version = since.version /\ since'.done = since.done
        /\ since.torn \/ ~content.whole => since'.torn
    BY ChangeSince DEF Typed
  <1>3. WriterStep
    BY <1>1, <1>2 DEF WriterStep
  <1>4. Len(tables) \in Nat /\ file'.mtime = clock'
    BY <1>1, LenProperties DEF Typed, FileTyped
  <1>5. FileIsLast'
    BY <1>1, <1>4 DEF FileIsLast
  <1> QED BY <1>3, <1>5

\* A step that changes neither the file's content nor its history.
LEMMA SameFileIsWriterStep ==
  ASSUME Typed, FileIsLast, UNCHANGED <<tableVars, answer, since, tables>>,
         file'.psks = file.psks, file'.whole = file.whole, file'.mtime = file.mtime
  PROVE  WriterStep /\ FileIsLast'
  BY Stays DEF Typed, WriterStep, FileIsLast

LEMMA EditWrites ==
  ASSUME Typed, Edit
  PROVE  WriterStep /\ FileIsLast'
  BY TableAssumption, ChangeIsWriterStep DEF Edit

LEMMA RegistrationWrites ==
  ASSUME Typed, FileIsLast, NEW r \in Registrar,
         RegRead(r) \/ RegTruncate(r) \/ RegWrite(r) \/ RegChmod(r) \/ RegDies(r)
  PROVE  WriterStep /\ FileIsLast'
  <1>1. CASE RegRead(r)
    BY <1>1, SameFileIsWriterStep DEF RegRead, fileVars
  <1>2. CASE RegTruncate(r)
    <2> DEFINE p == file.private \/ ~file.exists
               content == [psks |-> NoTable, whole |-> FALSE, size |-> 0,
                           private |-> p]
    <2>1. Change(content) /\ UNCHANGED <<tableVars, answer>>
      BY <1>2, Zenon DEF RegTruncate
    <2>2. p \in BOOLEAN
      BY Zenon
    <2> HIDE DEF p
    <2>3. content \in Content
      BY <2>2, NoTableTyped DEF Content
    <2> HIDE DEF content
    <2> QED BY <2>1, <2>3, ChangeIsWriterStep
  <1>3. CASE RegWrite(r)
    BY <1>3, WrittenTyped, ChangeIsWriterStep DEF RegWrite
  <1>4. CASE RegChmod(r)
    <2>1. file'.psks = file.psks /\ file'.whole = file.whole /\ file'.mtime = file.mtime
      BY <1>4 DEF RegChmod, Typed, FileTyped, FileType
    <2> QED BY <1>4, <2>1, SameFileIsWriterStep DEF RegChmod
  <1>5. CASE RegDies(r)
    BY <1>5, SameFileIsWriterStep DEF RegDies, fileVars
  <1> QED BY <1>1, <1>2, <1>3, <1>4, <1>5

LEMMA WriterKeepsCurrent ==
  ASSUME Typed, Typed', Current, WriterStep, FileIsLast'
  PROVE  Current'
  <1>1. Len(tables) \in Nat /\ Len(tables') \in Nat
    BY LenProperties DEF Typed, FileTyped
  <1>2. Len(tables) <= Len(tables')
        /\ \A i \in 1 .. Len(tables) : i \in 1 .. Len(tables') /\ tables'[i] = tables[i]
    BY <1>1 DEF WriterStep, Grows
  <1>3. since.version \in Nat /\ since'.version = since.version
    BY DEF Typed, TableTyped, WriterStep
  <1>4. SinceKnown'
    <2>1. since'.version <= Len(tables')
      BY <1>1, <1>2, <1>3 DEF Current, SinceKnown
    <2>2. (lookingUp /\ ~file.whole => since.torn)'
      BY DEF Current, SinceKnown, WriterStep, tableVars, lookingUp
    <2> QED BY <2>1, <2>2 DEF SinceKnown
  <1>5. CacheKnown'
    BY <1>2 DEF Current, CacheKnown, WriterStep, tableVars, lookingUp
  <1>6. AnswersAreCurrent'
    BY <1>2 DEF Current, AnswersAreCurrent, WriterStep
  <1> QED BY <1>4, <1>5, <1>6 DEF Current

\* A table the cache was filled from, or a later one, is recent enough when the
\* modification time has not moved: it is of the last one's tick.
LEMMA SameTimeIsSameTick ==
  ASSUME Typed, Current, spc = "idle", file.mtime = cache.mtime
  PROVE  \E j \in 1 .. Len(tables) :
           tables[j].psks = cache.psks /\ (~file.whole \/ firstOfTick <= j)
  <1>1. PICK j \in 1 .. Len(tables) :
               tables[j].psks = cache.psks /\ cache.mtime <= tables[j].at
    BY DEF Current, CacheKnown
  <1>2. tables[j] \in Stamped(clock) /\ clock \in Nat /\ file.mtime = clock
    BY ElementOfSeq DEF Typed, FileTyped
  <1>3. tables[j].at = clock
    <2>1. tables[j].at \in 0 .. clock
      BY <1>2 DEF Stamped
    <2> QED BY <1>1, <1>2, <2>1
  <1>4. CASE file.whole
    <2>1. tables[Len(tables)].at = clock
      BY <1>2, <1>4 DEF Current, FileIsLast
    <2>2. firstOfTick <= j
      BY <1>3, <2>1, FirstOfTick DEF Typed
    <2> QED BY <1>1, <2>2
  <1> QED BY <1>1, <1>4

LEMMA StartCurrent == ASSUME Typed, Current, Start PROVE Current'
  <1>1. FileIsLast' /\ SinceKnown' /\ AnswersAreCurrent'
    BY DEF Start, Current, FileIsLast, SinceKnown, AnswersAreCurrent, lookingUp,
           fileVars
  <1>2. CacheKnown'
    BY DEF Start, CacheKnown, lookingUp
  <1> QED BY <1>1, <1>2 DEF Current

LEMMA StatCurrent == ASSUME Typed, Current, Stat PROVE Current'
  <1>1. FileIsLast' /\ SinceKnown' /\ AnswersAreCurrent'
    BY DEF Stat, Exit, Current, FileIsLast, SinceKnown, AnswersAreCurrent,
           lookingUp, fileVars
  <1>2. CacheKnown'
    BY DEF Stat, Exit, Current, CacheKnown, lookingUp, fileVars
  <1> QED BY <1>1, <1>2 DEF Current

LEMMA LookUpCurrent == ASSUME Typed, Current, NEW d \in Device, LookUp(d) PROVE Current'
  <1>1. UNCHANGED <<file, tables, cache>> /\ since' = Beginning /\ spc = "idle"
    BY DEF LookUp, fileVars
  <1>2. FileIsLast'
    BY <1>1 DEF Current, FileIsLast
  <1>3. Beginning.version <= Len(tables) /\ (~file.whole => Beginning.torn)
    <2>1. firstOfTick <= Len(tables)
      BY FirstOfTick, LenProperties DEF Typed, FileTyped
    <2>2. ~file.whole => Beginning.torn
      BY BeginningTyped, Zenon
    <2> QED BY <2>1, <2>2, BeginningTyped
  <1>4. SinceKnown'
    BY <1>1, <1>3 DEF SinceKnown
  <1>5. CacheKnown'
    BY <1>1 DEF Current, CacheKnown
  <1>6. CASE file.mtime = cache.mtime
    <2>1. answer' = [device |-> d, psk |-> cache.psks[d], since |-> Beginning]
      BY <1>6 DEF LookUp, Answer
    <2>2. answer'.device = d /\ answer'.psk = cache.psks[d]
          /\ answer'.since = Beginning
      BY <2>1
    <2>3. PICK j \in 1 .. Len(tables) :
                 tables[j].psks = cache.psks /\ (~file.whole \/ firstOfTick <= j)
      BY <1>1, <1>6, SameTimeIsSameTick
    <2>4. Beginning.torn \/ j >= Beginning.version
      <3>1. firstOfTick \in Nat /\ j \in Nat
        BY FirstOfTick, LenProperties DEF Typed, FileTyped
      <3> QED BY <1>3, <2>3, <3>1, BeginningTyped
    <2> QED BY <1>1, <1>2, <1>4, <1>5, <2>2, <2>3, <2>4
            DEF Current, AnswersAreCurrent
  <1>7. CASE file.mtime # cache.mtime
    <2>1. UNCHANGED answer
      BY <1>7 DEF LookUp
    <2>2. AnswersAreCurrent'
      BY <1>1, <2>1 DEF Current, AnswersAreCurrent
    <2> QED BY <1>2, <1>4, <1>5, <2>2 DEF Current
  <1> QED BY <1>6, <1>7

\* When a reload ends, what is answered is the last table, or, if the file was
\* cut short at some moment of the look-up, one the cache was filled from.
LEMMA ReadCurrent == ASSUME Typed, Current, Read PROVE Current'
  <1>1. UNCHANGED <<file, tables, since>>
    BY DEF Read, fileVars
  <1>2. Len(tables) \in Nat /\ since.version \in Nat
    BY LenProperties DEF Typed, FileTyped, TableTyped
  <1>3. FileIsLast'
    BY <1>1 DEF Current, FileIsLast
  <1>4. asked' = NoDevice
    BY DEF Read, Unreadable, Exit, Answer, lookingUp
  <1>5. SinceKnown'
    BY <1>1, <1>4 DEF Current, SinceKnown, lookingUp
  <1>6. CASE UNCHANGED answer /\ spc' = "down"
    <2>1. CacheKnown' /\ AnswersAreCurrent'
      BY <1>1, <1>4, <1>6 DEF Current, CacheKnown, AnswersAreCurrent, lookingUp
    <2> QED BY <1>3, <1>5, <2>1 DEF Current
  <1>7. CASE lookingUp /\ ~file.whole /\ Answer(cache.psks, asked, since)
             /\ UNCHANGED cache
    <2>1. since.torn
      BY <1>7 DEF Current, SinceKnown
    <2>2. PICK j \in 1 .. Len(tables) :
                 tables[j].psks = cache.psks /\ cache.mtime <= tables[j].at
      BY <1>7 DEF Current, CacheKnown
    <2>3. answer'.device = asked /\ answer'.psk = cache.psks[asked]
          /\ answer'.since = since
      BY <1>7 DEF Answer
    <2>4. AnswersAreCurrent'
      BY <1>1, <2>1, <2>2, <2>3 DEF AnswersAreCurrent
    <2>5. CacheKnown'
      BY <1>1, <1>7, <2>2 DEF CacheKnown
    <2> QED BY <1>3, <1>5, <2>4, <2>5 DEF Current
  <1>8. CASE file.whole /\ cache' = [psks |-> file.psks, mtime |-> st_mtime]
             /\ (UNCHANGED answer \/ Answer(file.psks, asked, since))
    <2> DEFINE n == Len(tables)
    <2>1. n \in 1 .. Len(tables) /\ tables[n].psks = file.psks
          /\ tables[n].at = file.mtime
      BY <1>2, <1>8 DEF Current, FileIsLast
    <2>2. file.mtime = clock /\ st_mtime \in 0 .. clock /\ clock \in Nat
      BY DEF Typed, FileTyped, TableTyped
    <2>3. CacheKnown'
      BY <1>1, <1>8, <2>1, <2>2 DEF CacheKnown
    <2>4. n >= since.version
      BY <1>2 DEF Current, SinceKnown
    <2>5. CASE Answer(file.psks, asked, since)
      <3>1. answer'.device = asked /\ answer'.psk = file.psks[asked]
            /\ answer'.since = since
        BY <2>5 DEF Answer
      <3>2. AnswersAreCurrent'
        BY <1>1, <2>1, <2>4, <3>1 DEF AnswersAreCurrent
      <3> QED BY <1>3, <1>5, <2>3, <3>2 DEF Current
    <2>6. CASE UNCHANGED answer
      <3>1. AnswersAreCurrent'
        BY <1>1, <2>6 DEF Current, AnswersAreCurrent
      <3> QED BY <1>3, <1>5, <2>3, <3>1 DEF Current
    <2> QED BY <1>8, <2>5, <2>6
  <1> QED BY <1>6, <1>7, <1>8 DEF Read, Unreadable, Exit, Answer

LEMMA InitCurrent == Init => Current
  <1> SUFFICES ASSUME Init PROVE Current
    OBVIOUS
  <1>1. FileIsLast
    <2> SUFFICES ASSUME file.whole PROVE FileIsLast
      BY DEF FileIsLast
    <2>1. tables = <<[psks |-> file.psks, at |-> clock]>> /\ clock = file.mtime
      BY DEF Init
    <2> QED BY <2>1 DEF FileIsLast
  <1>2. SinceKnown
    <2>1. Len(tables) \in Nat
      BY InitTyped, LenProperties DEF Typed, FileTyped
    <2> QED BY <2>1 DEF Init, SinceKnown, lookingUp
  <1>3. CacheKnown /\ AnswersAreCurrent
    BY DEF Init, CacheKnown, AnswersAreCurrent, lookingUp
  <1> QED BY <1>1, <1>2, <1>3 DEF Current

LEMMA NextCurrent == Typed /\ Current /\ [Next]_vars => Current'
  <1> SUFFICES ASSUME Typed, Current, [Next]_vars PROVE Current'
    OBVIOUS
  <1>0. Typed'
    BY NextTyped
  <1>1. CASE UNCHANGED vars
    BY <1>1 DEF vars, fileVars, regVars, tableVars, Current, FileIsLast, SinceKnown,
                CacheKnown, AnswersAreCurrent, lookingUp
  <1>2. CASE Edit
    BY <1>0, <1>2, EditWrites, WriterKeepsCurrent
  <1>3. ASSUME NEW r \in Registrar,
               RegRead(r) \/ RegTruncate(r) \/ RegWrite(r) \/ RegChmod(r) \/ RegDies(r)
        PROVE  Current'
    BY <1>0, <1>3, RegistrationWrites, WriterKeepsCurrent DEF Current
  <1>4. CASE Start
    BY <1>4, StartCurrent
  <1>5. CASE Stat
    BY <1>5, StatCurrent
  <1>6. CASE Read
    BY <1>6, ReadCurrent
  <1>7. ASSUME NEW d \in Device, LookUp(d) PROVE Current'
    BY <1>7, LookUpCurrent
  <1> QED BY <1>1, <1>2, <1>3, <1>4, <1>5, <1>6, <1>7 DEF Next

\* What psk_for answers is in a whole table the file has held, and one no older
\* than the first of the tick the file was last changed in when the look-up
\* began, unless the file was cut short at some moment of the look-up.
THEOREM AnswersStayCurrent == Spec => []AnswersAreCurrent
  <1>1. Current => AnswersAreCurrent
    BY DEF Current
  <1> QED BY <1>1, InitTyped, NextTyped, InitCurrent, NextCurrent, PTL DEF Spec

-----------------------------------------------------------------------------
(***************************************************************************)
(* OnlyEditsEndServing, of a table whose entries all have the right length *)
(* when the server's history begins.  Until someone edits the file, none   *)
(* of the tables on their way into it has a malformed entry, and a server  *)
(* that has looked at its mode found it private, which no step undoes.     *)
(***************************************************************************)
NoShort(psks) == \A d \in Device : psks[d] # ShortPsk

Unedited ==
  edits = 0 =>
    /\ NoShort(file.psks)
    /\ \A r \in Registrar : NoShort(local[r])
    /\ spc \in {"idle", "read"} \/ lookingUp => file.private

LEMMA RegistrationKeepsUnedited ==
  ASSUME Typed, Unedited, NEW r \in Registrar,
         RegRead(r) \/ RegTruncate(r) \/ RegWrite(r) \/ RegChmod(r) \/ RegDies(r)
  PROVE  Unedited'
  <1> SUFFICES ASSUME edits = 0 PROVE Unedited'
    BY DEF Unedited, RegRead, RegTruncate, RegWrite, RegChmod, RegDies
  <1>1. /\ NoShort(file.psks)
        /\ \A q \in Registrar : NoShort(local[q])
        /\ spc \in {"idle", "read"} \/ lookingUp => file.private
    BY DEF Unedited
  <1>2. UNCHANGED tableVars
    BY DEF RegRead, RegTruncate, RegWrite, RegChmod, RegDies
  <1>3. NoShort(NoTable)
    BY TableAssumption DEF NoShort, NoTable
  <1>4. /\ NoShort(file'.psks)
        /\ \A q \in Registrar : NoShort(local'[q])
        /\ file.private => file'.private
    <2>1. CASE RegRead(r)
      BY <1>1, <1>3, <2>1 DEF RegRead, fileVars, Typed, RegTyped
    <2>2. CASE RegTruncate(r)
      <3>1. file'.psks = NoTable
        BY <2>2 DEF RegTruncate, Change
      <3>2. file'.private = (file.private \/ ~file.exists)
        BY <2>2, Zenon DEF RegTruncate, Change
      <3>3. UNCHANGED local
        BY <2>2 DEF RegTruncate
      <3>4. file.private => file'.private
        BY <3>2, Zenon
      <3> QED BY <1>1, <1>3, <3>1, <3>3, <3>4
    <2>3. CASE RegWrite(r)
      <3> DEFINE psks == [local[r] EXCEPT ![Job[r].device] = Job[r].psk]
      <3>1. file'.psks = psks /\ file'.private = file.private
        BY <2>3, Zenon DEF RegWrite, Change
      <3>2. NoShort(psks)
        BY <1>1, TableAssumption DEF NoShort, Typed, RegTyped, Table
      <3>3. UNCHANGED local
        BY <2>3 DEF RegWrite
      <3> HIDE DEF psks
      <3> QED BY <1>1, <3>1, <3>2, <3>3
    <2>4. CASE RegChmod(r)
      BY <1>1, <2>4 DEF RegChmod, Typed, FileTyped, FileType
    <2>5. CASE RegDies(r)
      BY <1>1, <2>5 DEF RegDies, fileVars
    <2> QED BY <2>1, <2>2, <2>3, <2>4, <2>5
  <1> QED BY <1>1, <1>2, <1>4 DEF Unedited, tableVars, lookingUp

LEMMA ServerKeepsUnedited ==
  ASSUME Typed, Unedited, Start \/ Stat \/ Read \/ \E d \in Device : LookUp(d)
  PROVE  Unedited'
  <1>1. UNCHANGED <<file, local, edits>>
    BY DEF Start, Stat, Read, LookUp, fileVars, regVars
  <1>2. edits = 0 => ((spc \in {"idle", "read"} \/ lookingUp)' => file.private)
    BY TableAssumption DEF Unedited, Start, Stat, Read, LookUp, Exit, Unreadable,
       Answer, lookingUp
  <1> QED BY <1>1, <1>2 DEF Unedited

LEMMA NextUnedited == Typed /\ Unedited /\ [Next]_vars => Unedited'
  <1> SUFFICES ASSUME Typed, Unedited, [Next]_vars PROVE Unedited'
    OBVIOUS
  <1>1. CASE UNCHANGED vars
    BY <1>1 DEF vars, fileVars, regVars, tableVars, Unedited, lookingUp
  <1>2. CASE Edit
    <2>1. edits' # 0
      BY <1>2, TableAssumption DEF Edit, Typed, RegTyped
    <2> QED BY <2>1 DEF Unedited
  <1>3. ASSUME NEW r \in Registrar,
               RegRead(r) \/ RegTruncate(r) \/ RegWrite(r) \/ RegChmod(r) \/ RegDies(r)
        PROVE  Unedited'
    BY <1>3, RegistrationKeepsUnedited
  <1>4. CASE Start \/ Stat \/ Read \/ \E d \in Device : LookUp(d)
    BY <1>4, ServerKeepsUnedited
  <1> QED BY <1>1, <1>2, <1>3, <1>4 DEF Next

LEMMA StepKeepsServing ==
  ASSUME Typed, Unedited, [Next]_vars, edits = 0, spc = "idle" \/ lookingUp
  PROVE  spc' # "down"
  <1>1. NoShort(file.psks) /\ file.private
    BY DEF Unedited
  <1>2. ~Malformed(file.psks)
    BY <1>1 DEF NoShort, Malformed
  <1>3. spc # "down"
    BY DEF Typed, TableTyped
  <1>4. CASE UNCHANGED spc
    BY <1>3, <1>4
  <1>5. CASE Start
    BY <1>3, <1>5 DEF Start
  <1>6. CASE Stat
    BY <1>1, <1>6 DEF Stat
  <1>7. CASE Read
    <2>1. lookingUp
      BY <1>7 DEF Read
    <2> QED BY <1>2, <1>7, <2>1 DEF Read, Unreadable, Answer
  <1>8. ASSUME NEW d \in Device, LookUp(d) PROVE spc' # "down"
    BY <1>8 DEF LookUp, Answer
  <1>9. CASE Edit \/ \E r \in Registrar : RegRead(r) \/ RegTruncate(r) \/ RegWrite(r)
                                          \/ RegChmod(r) \/ RegDies(r)
    <2>1. UNCHANGED spc
      BY <1>9 DEF Edit, RegRead, RegTruncate, RegWrite, RegChmod, RegDies, tableVars
    <2> QED BY <1>3, <2>1
  <1> QED BY <1>4, <1>5, <1>6, <1>7, <1>8, <1>9 DEF Next, vars, tableVars

\* Beginning from a table without a malformed entry, no number of registrations,
\* overlapping in whatever order or ending half way, ends a server that serves.
THEOREM RegistrationsKeepServing ==
  ASSUME NoShort(InitFile.psks)
  PROVE  Spec => OnlyEditsEndServing
  <1>1. Init => Unedited
    BY TableAssumption DEF Init, Unedited, NoShort, NoTable, lookingUp
  <1>2. Typed /\ Unedited /\ [Next]_vars =>
          [edits = 0 /\ (spc = "idle" \/ lookingUp) => spc' # "down"]_vars
    BY StepKeepsServing
  <1> QED BY <1>1, <1>2, InitTyped, NextTyped, NextUnedited, PTL
          DEF Spec, OnlyEditsEndServing

-----------------------------------------------------------------------------
(***************************************************************************)
(* ProvisionedDevicesWork.  As long as registrations come one after the    *)
(* other and nobody edits the file, each copies the last table and adds    *)
(* its own entry, so that an entry once registered is in every table       *)
(* after (Orderly).  A look-up that found a registration done answers from *)
(* a table no older than the one it wrote (DoneIsIn, AnswersAreCurrent).   *)
(***************************************************************************)
PsksFor(d) == {Job[q].psk : q \in {q \in Registrar : Job[q].device = d}}

OneAtATime == \A r, q \in Registrar : r \in active /\ q \in active => r = q
CopiesLast ==
  \A r \in Registrar : reg[r] \in {"read", "truncated"} /\ Len(tables) > 0 =>
    local[r] = tables[Len(tables)].psks
EmptiedFirst == \A r \in Registrar : reg[r] = "truncated" => file.size = 0
DoneHasWritten ==
  \A r \in Registrar : reg[r] \in {"written", "done"} => wrote[r] >= 1
StaysRegistered ==
  \A r \in Registrar : wrote[r] >= 1 =>
    \A i \in wrote[r] .. Len(tables) :
      tables[i].psks[Job[r].device] \in PsksFor(Job[r].device)

Orderly ==
  edits = 0 /\ ~overlapped =>
    OneAtATime /\ CopiesLast /\ EmptiedFirst /\ DoneHasWritten /\ StaysRegistered

OnceThereStays == Len(tables) > 0 => file.exists

DoneIsIn ==
  /\ \A r \in since.done : reg[r] = "done" /\ wrote[r] <= since.version
  /\ answer # NoAnswer =>
       /\ answer.since.version \in Nat /\ answer.since.done \in SUBSET Registrar
       /\ \A r \in answer.since.done : reg[r] = "done"
                                       /\ wrote[r] <= answer.since.version

LEMMA RegReadOrderly ==
  ASSUME Typed, Current, OnceThereStays, Orderly, NEW r \in Registrar, RegRead(r)
  PROVE  Orderly'
  <1> SUFFICES ASSUME (edits = 0 /\ ~overlapped)'
               PROVE  (OneAtATime /\ CopiesLast /\ EmptiedFirst
                       /\ DoneHasWritten /\ StaysRegistered)'
    BY DEF Orderly
  <1>1. UNCHANGED <<file, tables, wrote>>
    BY DEF RegRead, fileVars
  <1>2. edits = 0 /\ ~overlapped /\ active = {}
    BY Zenon DEF RegRead
  <1>3. /\ OneAtATime /\ CopiesLast /\ EmptiedFirst /\ DoneHasWritten
        /\ StaysRegistered
    BY <1>2 DEF Orderly
  <1>4. \A q \in Registrar : reg[q] \notin {"read", "truncated", "written"}
    BY <1>2 DEF active
  <1>5. /\ reg[r] = "start" /\ reg'[r] \in {"read", "failed"}
        /\ \A q \in Registrar : q # r => reg'[q] = reg[q]
    BY DEF RegRead, RegStep, Typed, RegTyped
  <1>6. reg'[r] = "read" /\ Len(tables) > 0 => local'[r] = tables[Len(tables)].psks
    <2>1. CASE file.exists /\ file.whole
      <3>1. local'[r] = file.psks
        BY <2>1 DEF RegRead, Typed, RegTyped
      <3> QED BY <2>1, <3>1 DEF Current, FileIsLast
    <2>2. CASE ~file.exists
      BY <2>2 DEF OnceThereStays
    <2>3. CASE file.exists /\ ~file.whole
      <3>1. reg'[r] = "failed"
        BY <2>3 DEF RegRead, RegStep, Typed, RegTyped
      <3> QED BY <3>1
    <2> QED BY <2>1, <2>2, <2>3
  <1>7. OneAtATime'
    BY <1>4, <1>5 DEF OneAtATime, active
  <1>8. CopiesLast' /\ EmptiedFirst'
    BY <1>1, <1>4, <1>5, <1>6 DEF CopiesLast, EmptiedFirst
  <1>9. DoneHasWritten' /\ StaysRegistered'
    BY <1>1, <1>3, <1>5 DEF DoneHasWritten, StaysRegistered, PsksFor
  <1> QED BY <1>7, <1>8, <1>9

LEMMA RegTruncateOrderly ==
  ASSUME Typed, Orderly, NEW r \in Registrar, RegTruncate(r)
  PROVE  Orderly'
  <1> SUFFICES ASSUME edits = 0, ~overlapped
               PROVE  (OneAtATime /\ CopiesLast /\ EmptiedFirst
                       /\ DoneHasWritten /\ StaysRegistered)'
    BY DEF Orderly, RegTruncate
  <1>1. /\ OneAtATime /\ CopiesLast /\ EmptiedFirst /\ DoneHasWritten
        /\ StaysRegistered
    BY DEF Orderly
  <1>2. UNCHANGED <<tables, wrote, local>> /\ file'.size = 0
    BY DEF RegTruncate, Change
  <1>3. /\ reg[r] = "read" /\ reg'[r] = "truncated"
        /\ \A q \in Registrar : q # r => reg'[q] = reg[q]
    BY DEF RegTruncate, RegStep, Typed, RegTyped
  <1>4. OneAtATime'
    BY <1>1, <1>3 DEF OneAtATime, active
  <1>5. CopiesLast' /\ EmptiedFirst'
    BY <1>1, <1>2, <1>3 DEF CopiesLast, EmptiedFirst
  <1>6. DoneHasWritten' /\ StaysRegistered'
    BY <1>1, <1>2, <1>3 DEF DoneHasWritten, StaysRegistered, PsksFor
  <1> QED BY <1>4, <1>5, <1>6

\* The write is whole, since the file is empty; what it leaves is the last table
\* with one entry changed.
LEMMA RegWriteOrderly ==
  ASSUME Typed, Orderly, NEW r \in Registrar, RegWrite(r)
  PROVE  Orderly'
  <1> SUFFICES ASSUME edits = 0, ~overlapped
               PROVE  (OneAtATime /\ CopiesLast /\ EmptiedFirst
                       /\ DoneHasWritten /\ StaysRegistered)'
    BY DEF Orderly, RegWrite
  <1> DEFINE psks == [local[r] EXCEPT ![Job[r].device] = Job[r].psk]
             n == Len(tables)
  <1>1. /\ OneAtATime /\ CopiesLast /\ EmptiedFirst /\ DoneHasWritten
        /\ StaysRegistered
    BY DEF Orderly
  <1>2. /\ reg[r] = "truncated" /\ reg'[r] = "written"
        /\ \A q \in Registrar : q # r => reg'[q] = reg[q]
    BY DEF RegWrite, RegStep, Typed, RegTyped
  <1>3. Written(r) \in Content /\ Change(Written(r))
    BY WrittenTyped
  <1>4. psks \in Table /\ size(psks) \in Nat
    BY LocalTyped, SizeIsNat, Zenon
  <1>5. Written(r).psks = psks /\ Written(r).whole = (file.size <= size(psks))
    BY DEF Written
  <1>6. Written(r).whole
    <2>1. file.size = 0
      BY <1>1, <1>2 DEF EmptiedFirst
    <2>2. file.size <= size(psks)
      <3> HIDE DEF psks
      <3> QED BY <1>4, <2>1
    <2> QED BY <1>5, <2>2, Zenon
  <1>7. n \in Nat
    BY LenProperties DEF Typed, FileTyped
  <1>8. /\ Len(tables') = n + 1 /\ tables'[n + 1].psks = psks
        /\ \A i \in 1 .. n : tables'[i] = tables[i]
    <2>1. /\ Grows /\ Len(tables') = Len(tables) + 1
          /\ tables'[Len(tables')] = [psks |-> Written(r).psks, at |-> clock']
      BY <1>3, <1>6, ChangeFile DEF Typed
    <2> QED BY <1>5, <2>1 DEF Grows
  <1>9. wrote'[r] = n + 1 /\ \A q \in Registrar : q # r => wrote'[q] = wrote[q]
    BY <1>8 DEF RegWrite, Typed, RegTyped
  <1>10. OneAtATime'
    BY <1>1, <1>2 DEF OneAtATime, active
  <1>11. \A q \in Registrar : q # r => reg'[q] \notin {"read", "truncated", "written"}
    BY <1>1, <1>2 DEF OneAtATime, active
  <1>12. CopiesLast' /\ EmptiedFirst'
    BY <1>2, <1>11 DEF CopiesLast, EmptiedFirst
  <1>13. DoneHasWritten'
    BY <1>1, <1>2, <1>7, <1>9 DEF DoneHasWritten
  <1>14. ASSUME NEW q \in Registrar, wrote'[q] >= 1,
                NEW i \in wrote'[q] .. Len(tables')
         PROVE  tables'[i].psks[Job[q].device] \in PsksFor(Job[q].device)
    <2>1. wrote[q] \in Nat /\ wrote[q] <= n /\ wrote'[q] \in Nat
      BY <1>7, <1>9 DEF Typed, RegTyped
    <2>2. CASE i = n + 1
      <3>1. tables'[i].psks = psks
        BY <1>8, <2>2
      <3>2. Job[q].device \in Device /\ Job[r].device \in Device
        BY TableAssumption
      <3>3. CASE Job[q].device = Job[r].device
        <4>1. psks[Job[q].device] = Job[r].psk
          BY <3>2, <3>3 DEF Typed, RegTyped, Table
        <4>2. Job[r].psk \in PsksFor(Job[q].device)
          BY <3>3 DEF PsksFor
        <4> QED BY <3>1, <4>1, <4>2
      <3>4. CASE Job[q].device # Job[r].device
        <4>1. q # r
          BY <3>4
        <4>2. wrote[q] >= 1 /\ n \in wrote[q] .. n /\ n > 0
          BY <1>7, <1>9, <1>14, <2>1, <4>1
        <4>3. tables[n].psks[Job[q].device] \in PsksFor(Job[q].device)
          BY <1>1, <4>2 DEF StaysRegistered
        <4>4. local[r] = tables[n].psks
          BY <1>1, <1>2, <4>2 DEF CopiesLast
        <4>5. psks[Job[q].device] = local[r][Job[q].device]
          BY <3>2, <3>4 DEF Typed, RegTyped, Table
        <4> QED BY <3>1, <4>3, <4>4, <4>5
      <3> QED BY <3>3, <3>4
    <2>3. CASE i # n + 1
      <3>1. q # r /\ i \in 1 .. n
        BY <1>7, <1>8, <1>9, <1>14, <2>1, <2>3
      <3>2. wrote[q] >= 1 /\ i \in wrote[q] .. n
        BY <1>7, <1>8, <1>9, <1>14, <2>1, <2>3, <3>1
      <3> QED BY <1>1, <1>8, <3>1, <3>2 DEF StaysRegistered
    <2> QED BY <2>2, <2>3
  <1>15. StaysRegistered'
    BY <1>14 DEF StaysRegistered, PsksFor
  <1> QED BY <1>10, <1>12, <1>13, <1>15

LEMMA RegEndsOrderly ==
  ASSUME Typed, Orderly, NEW r \in Registrar, RegChmod(r) \/ RegDies(r)
  PROVE  Orderly'
  <1> SUFFICES ASSUME edits = 0, ~overlapped
               PROVE  (OneAtATime /\ CopiesLast /\ EmptiedFirst
                       /\ DoneHasWritten /\ StaysRegistered)'
    BY DEF Orderly, RegChmod, RegDies
  <1>1. /\ OneAtATime /\ CopiesLast /\ EmptiedFirst /\ DoneHasWritten
        /\ StaysRegistered
    BY DEF Orderly
  <1>2. UNCHANGED <<tables, wrote, local>>
    BY DEF RegChmod, RegDies, fileVars
  <1>3. /\ reg'[r] = "failed" \/ (reg[r] = "written" /\ reg'[r] = "done")
        /\ \A q \in Registrar : q # r => reg'[q] = reg[q]
    BY DEF RegChmod, RegDies, RegStep, Typed, RegTyped
  <1>4. file'.size = file.size
    BY DEF RegChmod, RegDies, fileVars, Typed, FileTyped, FileType
  <1>5. OneAtATime'
    BY <1>1, <1>3 DEF OneAtATime, active
  <1>6. CopiesLast' /\ EmptiedFirst'
    BY <1>1, <1>2, <1>3, <1>4 DEF CopiesLast, EmptiedFirst
  <1>7. DoneHasWritten' /\ StaysRegistered'
    BY <1>1, <1>2, <1>3 DEF DoneHasWritten, StaysRegistered, PsksFor
  <1> QED BY <1>5, <1>6, <1>7

LEMMA NextOrderly ==
  Typed /\ Current /\ OnceThereStays /\ Orderly /\ [Next]_vars => Orderly'
  <1> SUFFICES ASSUME Typed, Current, OnceThereStays, Orderly, [Next]_vars
               PROVE  Orderly'
    OBVIOUS
  <1>1. CASE UNCHANGED <<fileVars, regVars>>
    BY <1>1 DEF fileVars, regVars, Orderly, OneAtATime, CopiesLast, EmptiedFirst,
                DoneHasWritten, StaysRegistered, PsksFor, active
  <1>2. CASE Edit
    <2>1. edits' # 0
      BY <1>2, TableAssumption DEF Edit, Typed, RegTyped
    <2> QED BY <2>1 DEF Orderly
  <1>3. ASSUME NEW r \in Registrar, RegRead(r) PROVE Orderly'
    BY <1>3, RegReadOrderly
  <1>4. ASSUME NEW r \in Registrar, RegTruncate(r) PROVE Orderly'
    BY <1>4, RegTruncateOrderly
  <1>5. ASSUME NEW r \in Registrar, RegWrite(r) PROVE Orderly'
    BY <1>5, RegWriteOrderly
  <1>6. ASSUME NEW r \in Registrar, RegChmod(r) \/ RegDies(r) PROVE Orderly'
    BY <1>6, RegEndsOrderly
  <1>7. Start \/ Stat \/ Read \/ (\E d \in Device : LookUp(d)) \/ UNCHANGED vars
          => UNCHANGED <<fileVars, regVars>>
    BY DEF Start, Stat, Read, LookUp, vars
  <1> QED BY <1>1, <1>2, <1>3, <1>4, <1>5, <1>6, <1>7 DEF Next

LEMMA NextOnceThere == Typed /\ OnceThereStays /\ [Next]_vars => OnceThereStays'
  <1> SUFFICES ASSUME Typed, OnceThereStays, [Next]_vars PROVE OnceThereStays'
    OBVIOUS
  <1>1. CASE UNCHANGED <<tables, file>>
    BY <1>1 DEF OnceThereStays
  <1>2. CASE \E content : Change(content)
    <2>1. file'.exists
      BY <1>2 DEF Change
    <2> QED BY <2>1 DEF OnceThereStays
  <1>3. CASE \E r \in Registrar : RegChmod(r)
    <2>1. tables' = tables /\ file'.exists = file.exists
      BY <1>3 DEF RegChmod, Typed, FileTyped, FileType
    <2> QED BY <2>1 DEF OnceThereStays
  <1>4. \A r \in Registrar : RegTruncate(r) \/ RegWrite(r) => \E content : Change(content)
    BY Zenon DEF RegTruncate, RegWrite
  <1>5. Edit => \E content : Change(content)
    BY Zenon DEF Edit
  <1>6. Start \/ Stat \/ Read \/ (\E d \in Device : LookUp(d)) \/ UNCHANGED vars
        \/ (\E r \in Registrar : RegRead(r) \/ RegDies(r))
          => UNCHANGED <<tables, file>>
    BY DEF Start, Stat, Read, LookUp, RegRead, RegDies, vars, fileVars
  <1> QED BY <1>1, <1>2, <1>3, <1>4, <1>5, <1>6, Zenon DEF Next

\* A registration that is done stays done, with the table it wrote.
LEMMA DoneStays ==
  ASSUME Typed, [Next]_vars, NEW q \in Registrar, reg[q] = "done"
  PROVE  reg'[q] = "done" /\ wrote'[q] = wrote[q]
  <1>1. CASE UNCHANGED <<reg, wrote>>
    BY <1>1
  <1>2. ASSUME NEW r \in Registrar,
               RegRead(r) \/ RegTruncate(r) \/ RegChmod(r) \/ RegDies(r)
        PROVE  reg'[q] = "done" /\ wrote'[q] = wrote[q]
    BY <1>2 DEF RegRead, RegTruncate, RegChmod, RegDies, RegStep, active, Typed, RegTyped
  <1>3. ASSUME NEW r \in Registrar, RegWrite(r)
        PROVE  reg'[q] = "done" /\ wrote'[q] = wrote[q]
    BY <1>3 DEF RegWrite, RegStep, Typed, RegTyped
  <1>4. Edit \/ Start \/ Stat \/ Read \/ (\E d \in Device : LookUp(d)) \/ UNCHANGED vars
          => UNCHANGED <<reg, wrote>>
    BY DEF Edit, Start, Stat, Read, LookUp, vars, regVars
  <1> QED BY <1>1, <1>2, <1>3, <1>4 DEF Next

LEMMA NextDoneIsIn ==
  Typed /\ Current /\ DoneIsIn /\ [Next]_vars => DoneIsIn'
  <1> SUFFICES ASSUME Typed, Current, DoneIsIn, [Next]_vars PROVE DoneIsIn'
    OBVIOUS
  <1>1. since.version \in Nat /\ since.done \in SUBSET Registrar
    BY DEF Typed, TableTyped
  <1>2. \A r \in since.done : reg'[r] = "done" /\ wrote'[r] <= since.version
    BY <1>1, DoneStays DEF DoneIsIn
  <1>3. answer # NoAnswer =>
          /\ answer.since.version \in Nat /\ answer.since.done \in SUBSET Registrar
          /\ \A r \in answer.since.done : reg'[r] = "done"
                                          /\ wrote'[r] <= answer.since.version
    BY DoneStays DEF DoneIsIn
  <1>4. CASE /\ since'.version = since.version /\ since'.done = since.done
             /\ answer' = answer
    BY <1>2, <1>3, <1>4 DEF DoneIsIn
  <1>5. CASE \E d \in Device : LookUp(d)
    <2>1. PICK d \in Device : LookUp(d)
      BY <1>5
    <2>2. since' = Beginning /\ UNCHANGED <<reg, wrote>>
      BY <2>1 DEF LookUp, regVars
    <2>3. /\ Beginning.version \in Nat /\ Beginning.done \in SUBSET Registrar
          /\ \A r \in Beginning.done : reg[r] = "done" /\ wrote[r] <= Beginning.version
      BY BeginningTyped DEF done
    <2>4. CASE answer' = answer
      BY <1>3, <2>2, <2>3, <2>4 DEF DoneIsIn
    <2>5. CASE answer'.since = Beginning
      BY <2>2, <2>3, <2>5 DEF DoneIsIn
    <2>6. answer' = answer \/ answer'.since = Beginning
      BY <2>1 DEF LookUp, Answer
    <2> QED BY <2>4, <2>5, <2>6
  <1>6. CASE Read
    <2>1. since' = since
      BY <1>6 DEF Read
    <2>2. CASE answer'.since = since
      BY <1>1, <1>2, <2>1, <2>2 DEF DoneIsIn
    <2>3. answer' = answer \/ answer'.since = since
      BY <1>6 DEF Read, Unreadable, Exit, Answer
    <2> QED BY <1>4, <2>1, <2>2, <2>3
  <1>7. CASE Edit \/ \E r \in Registrar : RegRead(r) \/ RegTruncate(r) \/ RegWrite(r)
                                          \/ RegChmod(r) \/ RegDies(r)
    <2>1. WriterStep
      BY <1>7, EditWrites, RegistrationWrites DEF Current
    <2> QED BY <1>4, <2>1 DEF WriterStep
  <1>8. Start \/ Stat \/ UNCHANGED vars => UNCHANGED <<since, answer>>
    BY DEF Start, Stat, Exit, vars
  <1> QED BY <1>4, <1>5, <1>6, <1>7, <1>8 DEF Next

LEMMA OrderlyAnswers ==
  ASSUME Typed, Current, Orderly, DoneIsIn
  PROVE  ProvisionedDevicesWork
  <1> SUFFICES ASSUME answer # NoAnswer, ~answer.since.torn, ~overlapped, edits = 0,
                      NEW r \in answer.since.done, Job[r].device = answer.device
               PROVE  answer.psk \in PsksFor(answer.device)
    BY DEF ProvisionedDevicesWork, PsksFor
  <1>1. PICK i \in 1 .. Len(tables) :
               /\ tables[i].psks[answer.device] = answer.psk
               /\ i >= answer.since.version
    BY DEF Current, AnswersAreCurrent
  <1>2. /\ r \in Registrar /\ reg[r] = "done" /\ wrote[r] <= answer.since.version
        /\ answer.since.version \in Nat
    BY DEF DoneIsIn
  <1>3. wrote[r] >= 1 /\ wrote[r] \in Nat /\ Len(tables) \in Nat
    BY <1>2, LenProperties
       DEF Orderly, DoneHasWritten, Typed, RegTyped, FileTyped
  <1>4. i \in wrote[r] .. Len(tables)
    BY <1>1, <1>2, <1>3
  <1>5. tables[i].psks[Job[r].device] \in PsksFor(Job[r].device)
    BY <1>2, <1>3, <1>4 DEF Orderly, StaysRegistered
  <1> QED BY <1>1, <1>5

\* A device registered while the server ran is found by every look-up that began
\* a tick after its registration was done, whatever else was registered since,
\* as long as no two registrations overlapped and nobody edited the file.
THEOREM RegisteredDevicesAreFound == Spec => []ProvisionedDevicesWork
  <1>1. Init => OnceThereStays /\ Orderly /\ DoneIsIn
    <2> SUFFICES ASSUME Init PROVE OnceThereStays /\ Orderly /\ DoneIsIn
      OBVIOUS
    <2>1. OnceThereStays
      BY InitTyped DEF Init, OnceThereStays, Typed, FileTyped
    <2>2. Orderly
      BY DEF Init, Orderly, OneAtATime, CopiesLast, EmptiedFirst, DoneHasWritten,
             StaysRegistered, active
    <2>3. DoneIsIn
      BY DEF Init, DoneIsIn
    <2> QED BY <2>1, <2>2, <2>3
  <1> QED BY <1>1, InitTyped, NextTyped, InitCurrent, NextCurrent, NextOnceThere,
             NextOrderly, NextDoneIsIn, OrderlyAnswers, PTL DEF Spec
=============================================================================
