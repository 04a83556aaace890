---------------------------- MODULE DeviceTable ----------------------------
(***************************************************************************)
(* The device table: devices.json, the server's cached copy of it          *)
(* (DeviceTable in server/pqc_server.py) and the runs of                   *)
(* tools/register_device.py that change it while the server runs.          *)
(*                                                                         *)
(* Nothing locks the file.  A look-up is up to three accesses (stat, stat, *)
(* read), a registration is four (read, truncate, write, chmod), and they  *)
(* interleave in any order.  Someone may also edit the file by hand.       *)
(*                                                                         *)
(* A file cut short never parses as JSON, and one entry is as long as      *)
(* another, so of its length only the number of entries matters.           *)
(***************************************************************************)
EXTENDS Naturals, Sequences, FiniteSetsExt

CONSTANTS
  Device,     \* the device ids
  Psk,        \* well-formed PSKs
  NoPsk,      \* no entry
  ShortPsk,   \* an entry of the wrong length
  NoDevice,   \* the server is not looking anything up
  Registrar,  \* runs of register_device.py
  Job,        \* the device and PSK each of them registers
  InitFile,   \* devices.json at the beginning
  Edits,      \* what an edit by hand may leave in the file
  MaxEdits,   \* bound: edits by hand
  MaxDeaths,  \* bound: registrations that end half way
  MaxSameTick, \* bound: changes with the modification time of the one before
  AtOnce      \* registrations that may overlap

Entry == Psk \cup {NoPsk, ShortPsk}
Table == [Device -> Entry]

\* What devices.json may hold: its table, if it is whole, its length in entries
\* and whether only its owner may read it.
Content == [psks : Table, whole : BOOLEAN, size : Nat, private : BOOLEAN]

ASSUME TableAssumption ==
  /\ IsFiniteSet(Device) /\ NoDevice \notin Device
  /\ NoPsk \notin Psk /\ ShortPsk \notin Psk /\ NoPsk # ShortPsk
  /\ InitFile \in [psks : Table, whole : BOOLEAN, size : Nat, private : BOOLEAN,
                   exists : BOOLEAN, mtime : Nat]
  /\ InitFile.whole => InitFile.exists
  /\ Edits \subseteq Content
  /\ Job \in [Registrar -> [device : Device, psk : Psk]]
  /\ MaxEdits \in Nat /\ MaxDeaths \in Nat /\ MaxSameTick \in Nat
  /\ AtOnce \in Nat \ {0}

VARIABLES
  file,     \* devices.json: psks if whole, its length, its mode and mtime
  clock,    \* the kernel's coarse clock at the last write
  sameTick, \* how many changes got the modification time of the one before
  reg,      \* where each registration is
  local,    \* the table each registration has read
  edits, deaths,
  spc,      \* where in DeviceTable the server is
  asked,    \* the device psk_for was called for; NoDevice in __init__
  st_mtime, \* the modification time _reload took from its stat
  cache,    \* _psks and _mtime
  tables,   \* history: every whole table the file has held, and when
  wrote,    \* history: which of them each registration wrote, 0 for none
  overlapped, \* history: two registrations have been under way at once
  since,    \* history: what the current look-up started from
  answer    \* history: the last answer, and what its look-up started from

fileVars == <<file, clock, sameTick, tables>>
regVars == <<reg, local, edits, deaths, wrote, overlapped>>
tableVars == <<spc, asked, st_mtime, cache>>
vars == <<fileVars, regVars, tableVars, since, answer>>

NoTable == [d \in Device |-> NoPsk]
NothingRead == [psks |-> NoTable, mtime |-> 0]
NoAnswer == [device |-> NoDevice]

size(psks) == Cardinality({d \in Device : psks[d] # NoPsk})
active == {r \in Registrar : reg[r] \in {"read", "truncated", "written"}}
done == {r \in Registrar : reg[r] = "done"}
lookingUp == asked # NoDevice

\* The first table of the last one's tick.  The server cannot tell the tables of
\* one tick apart: whichever of them it has read stays cached.
sameAsLast == {i \in 1 .. Len(tables) : tables[i].at = tables[Len(tables)].at}
firstOfTick == IF tables = <<>> THEN 0 ELSE Min(sameAsLast)

\* What a look-up starts from: the oldest table it may answer from, whether the
\* file is cut short, and the registrations that are done and in that table.
Beginning == [version |-> firstOfTick, torn |-> ~file.whole,
              done |-> {r \in done : wrote[r] <= firstOfTick}]

Init ==
  /\ file = InitFile
  /\ clock = InitFile.mtime /\ sameTick = 0
  /\ reg = [r \in Registrar |-> "start"]
  /\ local = [r \in Registrar |-> NoTable]
  /\ edits = 0 /\ deaths = 0
  /\ wrote = [r \in Registrar |-> 0] /\ overlapped = FALSE
  /\ spc = "down"
  /\ asked = NoDevice
  /\ st_mtime = 0
  /\ cache = NothingRead
  /\ tables = IF file.whole THEN <<[psks |-> file.psks, at |-> clock]>> ELSE <<>>
  /\ since = [version |-> 0, torn |-> FALSE, done |-> {}]
  /\ answer = NoAnswer

(***************************************************************************)
(* The file.                                                               *)
(***************************************************************************)
\* Every change of the content sets the modification time, from a clock that
\* ticks every few milliseconds: two changes may get the same one.
Change(content) ==
  /\ \/ clock' = clock + 1 /\ UNCHANGED sameTick
     \/ /\ sameTick < MaxSameTick
        /\ clock' = clock /\ sameTick' = sameTick + 1
  /\ file' = [psks |-> content.psks, whole |-> content.whole,
              size |-> content.size, private |-> content.private,
              exists |-> TRUE, mtime |-> clock']
  /\ tables' = IF content.whole
               THEN Append(tables, [psks |-> content.psks, at |-> clock'])
               ELSE tables
  /\ since' = [since EXCEPT !.torn = @ \/ ~content.whole]

\* Someone edits devices.json: an entry half typed, a save that loses the mode.
Edit ==
  /\ edits < MaxEdits
  /\ edits' = edits + 1
  /\ \E content \in Edits : Change(content)
  /\ UNCHANGED <<reg, local, deaths, wrote, overlapped, tableVars, answer>>

(***************************************************************************)
(* register_device.py: the program it runs on the server's host.           *)
(***************************************************************************)
RegStep(r, from, to) == reg[r] = from /\ reg' = [reg EXCEPT ![r] = to]

\* Fault: the table is written without having been read.
RegReadNothing(r) ==
  /\ Cardinality(active) < AtOnce
  /\ RegStep(r, "start", "read")
  /\ local' = [local EXCEPT ![r] = NoTable]
  /\ overlapped' = (overlapped \/ active # {})
  /\ UNCHANGED <<fileVars, edits, deaths, wrote, tableVars, since, answer>>
\* json.loads of the whole table, which fails on a file cut short; the entry
\* is then added to the copy.
RegRead(r) ==
  /\ Cardinality(active) < AtOnce
  /\ \/ /\ ~file.exists
        /\ RegStep(r, "start", "read")
        /\ local' = [local EXCEPT ![r] = NoTable]
     \/ /\ file.exists /\ file.whole
        /\ RegStep(r, "start", "read")
        /\ local' = [local EXCEPT ![r] = file.psks]
     \/ /\ file.exists /\ ~file.whole
        /\ RegStep(r, "start", "failed")
        /\ UNCHANGED local
  /\ overlapped' = (overlapped \/ active # {})
  /\ UNCHANGED <<fileVars, edits, deaths, wrote, tableVars, since, answer>>

\* write_text truncates the file; umask 077 makes a new one private.
RegTruncate(r) ==
  /\ RegStep(r, "read", "truncated")
  /\ Change([psks |-> NoTable, whole |-> FALSE, size |-> 0,
             private |-> file.private \/ ~file.exists])
  /\ UNCHANGED <<local, edits, deaths, wrote, overlapped, tableVars, answer>>

\* Then it writes from the start of the file.  What another registration has
\* written there meanwhile is overwritten, but for a tail that is longer.
RegWrite(r) ==
  LET psks == [local[r] EXCEPT ![Job[r].device] = Job[r].psk] IN
  /\ RegStep(r, "truncated", "written")
  /\ Change([psks |-> psks, whole |-> file.size <= size(psks),
             size |-> IF file.size <= size(psks) THEN size(psks) ELSE file.size,
             private |-> file.private])
  /\ wrote' = [wrote EXCEPT ![r] = Len(tables')]
  /\ UNCHANGED <<local, edits, deaths, overlapped, tableVars, answer>>

RegChmod(r) ==
  /\ RegStep(r, "written", "done")
  /\ file' = [file EXCEPT !.private = TRUE]
  /\ UNCHANGED <<clock, sameTick, tables, local, edits, deaths, wrote, overlapped>>
  /\ UNCHANGED <<tableVars, since, answer>>

\* The ssh session or the host goes away in the middle.
RegDies(r) ==
  /\ deaths < MaxDeaths
  /\ deaths' = deaths + 1
  /\ r \in active
  /\ reg' = [reg EXCEPT ![r] = "failed"]
  /\ UNCHANGED <<fileVars, local, edits, wrote, overlapped, tableVars, since,
                 answer>>

(***************************************************************************)
(* DeviceTable.                                                            *)
(***************************************************************************)
\* psk_for returns what the cache holds.
Answer(psks, d, from) ==
  /\ answer' = [device |-> d, psk |-> psks[d], since |-> from]
  /\ spc' = "idle"
  /\ asked' = NoDevice

\* __init__ needs the file to be there, and calls _reload.
Start ==
  /\ spc = "down"
  /\ file.exists
  /\ spc' = "stat"
  /\ asked' = NoDevice
  /\ cache' = NothingRead
  /\ UNCHANGED <<fileVars, regVars, st_mtime, since, answer>>

\* SystemExit, or in __init__ any exception: the server ends.
Exit == /\ spc' = "down" /\ asked' = NoDevice
        /\ UNCHANGED <<cache, answer>>

\* Fault: the table is only read when the server starts.
LookUpCached(d) ==
  /\ spc = "idle"
  /\ since' = Beginning /\ Answer(cache.psks, d, Beginning)
  /\ UNCHANGED <<fileVars, regVars, st_mtime, cache>>
\* psk_for: a modification time other than the cached one asks for a reload.
LookUp(d) ==
  /\ spc = "idle"
  /\ since' = Beginning
  /\ IF file.mtime = cache.mtime
     THEN Answer(cache.psks, d, Beginning)
     ELSE spc' = "stat" /\ asked' = d /\ UNCHANGED answer
  /\ UNCHANGED <<fileVars, regVars, st_mtime, cache>>

\* _reload takes the mode and the modification time from a second stat.
Stat ==
  /\ spc = "stat"
  /\ \/ /\ file.private
        /\ st_mtime' = file.mtime
        /\ spc' = "read"
        /\ UNCHANGED <<asked, cache, answer>>
     \/ /\ ~file.private
        /\ Exit
        /\ UNCHANGED st_mtime
  /\ UNCHANGED <<fileVars, regVars, since>>

\* Fault: only OSError is caught, and a table cut short ends the server.
UnreadableEnds == Exit
\* json.loads raises a ValueError.  psk_for keeps the copy it has; __init__ has
\* none and lets it pass.
Unreadable ==
  \/ ~lookingUp /\ Exit
  \/ lookingUp /\ Answer(cache.psks, asked, since) /\ UNCHANGED cache

\* Fault: lengths are not checked.
MalformedNever(psks) == FALSE
Malformed(psks) == ShortPsk \in {psks[d] : d \in Device}

\* read_text and what becomes of it.  An entry of the wrong length is a
\* SystemExit, which psk_for does not catch.
Read ==
  /\ spc = "read"
  /\ \/ ~file.whole /\ Unreadable
     \/ file.whole /\ Malformed(file.psks) /\ Exit
     \/ /\ file.whole /\ ~Malformed(file.psks)
        /\ cache' = [psks |-> file.psks, mtime |-> st_mtime]
        /\ \/ lookingUp /\ Answer(file.psks, asked, since)
           \/ ~lookingUp /\ spc' = "idle" /\ UNCHANGED <<asked, answer>>
  /\ UNCHANGED <<fileVars, regVars, st_mtime, since>>

Next ==
  \/ Edit
  \/ \E r \in Registrar : \/ RegRead(r) \/ RegTruncate(r) \/ RegWrite(r)
                          \/ RegChmod(r) \/ RegDies(r)
  \/ Start \/ Stat \/ Read
  \/ \E d \in Device : LookUp(d)

Spec == Init /\ [][Next]_vars

-----------------------------------------------------------------------------
\* Types.  The server serves only entries it has checked: the cache holds no
\* malformed one, and no modification time that is still to come.
TypeOK ==
  /\ file \in [psks : Table, whole : BOOLEAN, size : Nat, private : BOOLEAN,
               exists : BOOLEAN, mtime : 0 .. clock]
  /\ file.whole => file.exists
  /\ reg \in [Registrar ->
               {"start", "read", "truncated", "written", "done", "failed"}]
  /\ local \in [Registrar -> Table]
  /\ edits \in 0 .. MaxEdits /\ deaths \in 0 .. MaxDeaths
  /\ spc \in {"down", "idle", "stat", "read"}
  /\ asked \in Device \cup {NoDevice}
  /\ lookingUp => spc \in {"stat", "read"}
  /\ st_mtime \in 0 .. clock
  /\ cache \in [psks : [Device -> Psk \cup {NoPsk}], mtime : 0 .. clock]
  /\ tables \in Seq([psks : Table, at : 0 .. clock])
  /\ sameTick \in 0 .. MaxSameTick
  /\ wrote \in [Registrar -> 0 .. Len(tables)]
  /\ overlapped \in BOOLEAN

\* An answer comes from a whole table, never from one being written, and from
\* none older than the first of the tick in which the file was last changed when
\* psk_for was called, unless the file was unreadable during the call: the cache
\* is then the last good table.
AnswersAreCurrent ==
  answer # NoAnswer =>
    \E i \in 1 .. Len(tables) :
      /\ tables[i].psks[answer.device] = answer.psk
      /\ answer.since.torn \/ i >= answer.since.version

\* "Newly provisioned devices now work without a restart" (pqc_server.py): once
\* register_device.py has succeeded, and a tick has passed, a look-up of that
\* device finds its PSK, if registrations came one after the other and nobody
\* edited the file by hand.
ProvisionedDevicesWork ==
  answer # NoAnswer /\ ~answer.since.torn /\ ~overlapped /\ edits = 0 =>
    \A r \in answer.since.done :
      Job[r].device = answer.device =>
        answer.psk \in {Job[q].psk : q \in {q \in Registrar :
                                             Job[q].device = answer.device}}

\* register_device.py never ends a running server, however its truncation, its
\* writes and its end half way fall between the server's stat, stat and read,
\* and however many of them overlap: only an edit by hand does.
OnlyEditsEndServing ==
  [][edits = 0 /\ (spc = "idle" \/ lookingUp) => spc' # "down"]_vars

\* "Keep serving the last good table rather than dropping every device because
\* someone is mid-edit" (pqc_server.py): nothing that happens to the file ends
\* a server that has started.
ServingContinues ==
  [][spc = "idle" \/ lookingUp => spc' # "down"]_vars
=============================================================================
