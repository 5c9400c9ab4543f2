------------------------------ MODULE StatusLog ------------------------------
(***************************************************************************)
(* What a restarted program remembers (HandlerService.cpp): the status     *)
(* file of one vision, LastStatus_<vision>.txt, of the equipment models    *)
(* with one jig.                                                           *)
(*                                                                         *)
(* Every module whose scan was reported to the handler is saved in a ring  *)
(* of NumSlots slots of the file, and every module whose result was        *)
(* reported in a second ring.  The saves, and the clearing of a lot that   *)
(* ended, are asynchronous tasks ordered only by a lock of the vision.     *)
(* When the operator asks for a restart and the handler agrees             *)
(* (RELOAD,COMPLETE), Restart_Inspector reads the file key by key, without *)
(* the lock, while the tasks write it, and answers "RT" for each module of *)
(* the first ring it does not find in the second.  The positions in the    *)
(* rings are kept in memory only: a program that is started again begins   *)
(* at the first position of a ring the file still holds.                   *)
(*                                                                         *)
(* A module is a lot and a number (stage, magazine, tray and module of the *)
(* file): the lot is the first key of a slot to be written and read, the   *)
(* others are one.  The loop of LOT,END over the visions is cut to this    *)
(* one.  The task of RUN,COMPLETE is left out: with one jig it clears      *)
(* LastStatus_.txt, the vision's name is never put into the file's, and    *)
(* this file stays as it is.                                               *)
(***************************************************************************)
EXTENDS Naturals, Sequences, FiniteSets

CONSTANTS
  Lots,
  Modules,      \* [lot, no]: the modules that are scanned
  NumSlots,     \* m_iSaveRecentlyCompleteInfoNumber
  MaxStarts,    \* bound: starts of the program
  MaxTasks,     \* bound: tasks under way for the vision
  MaxReloads,   \* bound: restarts the operator asks for
  MaxEnds,      \* bound: lots that end
  None          \* no lot, no task

ASSUME SlotsAssumption == NumSlots \in Nat \ {0}
ASSUME ModulesAssumption == Modules \subseteq [lot : Lots, no : Nat \ {0}]
ASSUME NoneAssumption == None \notin Lots
ASSUME StartsAssumption == MaxStarts \in Nat \ {0}
ASSUME ReloadsAssumption == MaxReloads \in Nat

Entries == [lot : Lots \cup {None}, no : {0} \cup {m.no : m \in Modules}]
Blank   == [lot |-> None, no |-> 0]
Rings   == {"scan", "result"}
Slots   == 0 .. NumSlots - 1

\* What Restart_Inspector does not skip.
Legible(e) == e.lot # None /\ e.no # 0

SaveTasks == [kind : Rings, what : Modules]
EndTasks  == [kind : {"lotend"}, what : Lots]
Tasks     == SaveTasks \cup EndTasks

ASSUME TasksAssumption == None \notin Tasks

VARIABLES
  status,    \* status[m]: what became of module m
  rt,        \* the modules answered "RT"
  ended,     \* the lots the handler has ended
  tasks,     \* the tasks that have not passed the vision
  holder,    \* the task that holds the vision's lock
  step,      \* what that task does next
  sweep,     \* the slot the end of a lot clears next
  index,     \* m_iScanCompleteCheckIndex, m_iInspectCompleteCheckIndex
  lastScan,  \* file: LAST SCAN COMPLETE
  slots,     \* file: RECENTLY SCAN COMPLETE, RECENTLY INSPECT COMPLETE
  reader,    \* Restart_Inspector: where it is and what it has read
  starts,    \* starts of the program
  reloads,   \* restarts the operator has asked for
  recent,    \* history: the last NumSlots saves of each ring
  steady,    \* history: the modules each ring held since the reader began
  quiet,     \* history: no result was half saved since the reader began
  cut        \* history: a crash left a slot half written

vars == <<status, rt, ended, tasks, holder, step, sweep, index, lastScan,
          slots, reader, starts, reloads, recent, steady, quiet, cut>>

handlerVars == <<status, rt, ended>>
lockVars    == <<tasks, holder, step, sweep>>
fileVars    == <<index, lastScan, slots>>
readerVars  == <<reader, reloads>>
historyVars == <<recent, steady, quiet, cut>>

Statuses == {"new", "scanned", "reported", "lost"}
Steps    == {"none", "last", "lot", "number", "lastkeys", "find", "wipe"}
Idle     == [at |-> "off", slot |-> 0, lot |-> None, seek |-> Blank, in |-> 0]
Readers  == [at : {"off", "last", "scan", "number", "search", "match"},
             slot : Slots, lot : Lots \cup {None}, seek : Entries, in : Slots]
First    == [ring |-> "scan", slot |-> 0]
Saves    == [what : Entries, run : Nat, slot : Slots]

TypeOK ==
  /\ status \in [Modules -> Statuses]
  /\ rt \subseteq Modules
  /\ ended \subseteq Lots
  /\ tasks \subseteq Tasks
  /\ holder \in tasks \cup {None}
  /\ step \in Steps
  /\ sweep \in [ring : Rings, slot : Slots]
  /\ index \in [Rings -> Slots]
  /\ lastScan \in Entries
  /\ slots \in [Rings -> [Slots -> Entries]]
  /\ reader \in Readers
  /\ starts \in 1 .. MaxStarts
  /\ reloads \in 0 .. MaxReloads
  /\ recent \in [Rings -> Seq(Saves)]
  /\ \A r \in Rings : Len(recent[r]) <= NumSlots
  /\ steady \in [Rings -> SUBSET Modules]
  /\ quiet \in BOOLEAN
  /\ cut \in BOOLEAN

Init ==
  /\ status = [m \in Modules |-> "new"]
  /\ rt = {}
  /\ ended = {}
  /\ tasks = {}
  /\ holder = None
  /\ step = "none"
  /\ sweep = First
  /\ index = [r \in Rings |-> 0]
  /\ lastScan = Blank
  /\ slots = [r \in Rings |-> [k \in Slots |-> Blank]]
  /\ reader = Idle
  /\ starts = 1
  /\ reloads = 0
  /\ recent = [r \in Rings |-> <<>>]
  /\ steady = [r \in Rings |-> {}]
  /\ quiet = TRUE
  /\ cut = FALSE

-----------------------------------------------------------------------------
(* The messages to and from the handler; each queues its task.             *)

Queue(t) ==
  /\ Cardinality(tasks) < MaxTasks
  /\ tasks' = tasks \cup {t}
  /\ UNCHANGED <<holder, step, sweep, fileVars, readerVars, starts, historyVars>>

\* The grab thread reports the scan of module m and saves it.
ScanComplete(m) ==
  /\ status[m] = "new"
  /\ m.lot \notin ended
  /\ status' = [status EXCEPT ![m] = "scanned"]
  /\ Queue([kind |-> "scan", what |-> m])
  /\ UNCHANGED <<rt, ended>>

\* The saver thread reports the result of module m and saves it.
InspectComplete(m) ==
  /\ status[m] = "scanned"
  /\ status' = [status EXCEPT ![m] = "reported"]
  /\ Queue([kind |-> "result", what |-> m])
  /\ UNCHANGED <<rt, ended>>

\* The handler has an answer for each module of the lot it sent.
Answered(l) ==
  \A m \in Modules : m.lot = l => status[m] \in {"new", "reported"} \/ m \in rt

LotEnd(l) ==
  /\ l \notin ended /\ Cardinality(ended) < MaxEnds
  /\ Answered(l)
  /\ ended' = ended \cup {l}
  /\ Queue([kind |-> "lotend", what |-> l])
  /\ UNCHANGED <<status, rt>>

-----------------------------------------------------------------------------
(* History.  A save that took the slot of one of an earlier run of the     *)
(* program overtook it.                                                    *)

Overtaken(s, i) ==
  \E j \in i + 1 .. Len(s) : s[j].slot = s[i].slot /\ s[j].run > s[i].run

\* The modules a ring with the saves s should hold.
Held(s) == {s[i].what : i \in {j \in DOMAIN s : ~Overtaken(s, j)}} \ {Blank}

\* The saves of ring r become s.
Remember(r, s) ==
  /\ recent' = [recent EXCEPT ![r] = s]
  /\ steady' = [steady EXCEPT ![r] = @ \cap Held(s)]

-----------------------------------------------------------------------------
(* The tasks.                                                              *)

\* A task finds the vision's lock free; the tasks are threads, in no order.
Free(t) == t \in tasks /\ holder = None

\* The lock is given back.
Unlock(t) ==
  /\ holder' = None
  /\ step' = "none"
  /\ tasks' = tasks \ {t}

\* A save takes the lock.  A scan is written to LAST SCAN COMPLETE first, again
\* the lot before the other keys; LAST INSPECT COMPLETE is never read.
SaveStart(t) ==
  /\ Free(t)
  /\ t.kind \in Rings
  /\ holder' = t
  /\ \/ /\ t.kind = "scan"
        /\ lastScan' = [lastScan EXCEPT !.lot = t.what.lot]
        /\ step' = "last"
     \/ /\ t.kind = "result"
        /\ step' = "lot"
        /\ UNCHANGED lastScan
  /\ UNCHANGED <<handlerVars, tasks, sweep, index, slots, readerVars, starts, historyVars>>

SaveLast ==
  /\ step = "last"
  /\ lastScan' = [lastScan EXCEPT !.no = holder.what.no]
  /\ step' = "lot"
  /\ UNCHANGED <<handlerVars, tasks, holder, sweep, index, slots, readerVars, starts, historyVars>>

\* Mutant: the position wraps one slot too late.
NextSlotLate(k) == IF k + 1 > NumSlots THEN 0 ELSE k + 1

\* The position after k.
NextSlot(k) == IF k + 1 >= NumSlots THEN 0 ELSE k + 1

\* The last saves, with room for one more.
Newer(s) == IF Len(s) = NumSlots THEN Tail(s) ELSE s

\* The position moves on and the first key of the slot, the lot, is written.
SaveLot == \E r \in Rings :
  /\ step = "lot"
  /\ holder.kind = r
  /\ index' = [index EXCEPT ![r] = NextSlot(@)]
  /\ slots' = [slots EXCEPT ![r][index'[r]].lot = holder.what.lot]
  /\ step' = "number"
  /\ Remember(r, Append(Newer(recent[r]),
                        [what |-> Blank, run |-> starts, slot |-> index'[r]]))
  /\ quiet' = (quiet /\ r # "result")
  /\ UNCHANGED <<handlerVars, tasks, holder, sweep, lastScan, readerVars, starts, cut>>

\* The other keys follow, and the lock is given back.
SaveNumber == \E r \in Rings :
  /\ step = "number"
  /\ holder.kind = r
  /\ slots' = [slots EXCEPT ![r][index[r]].no = holder.what.no]
  /\ Remember(r, [recent[r] EXCEPT ![Len(recent[r])].what = holder.what])
  /\ Unlock(holder)
  /\ UNCHANGED <<handlerVars, sweep, index, lastScan, readerVars, starts, quiet, cut>>

\* The end of a lot takes the lock and looks at LAST SCAN COMPLETE.
ClearStart(t) ==
  /\ Free(t)
  /\ t.kind = "lotend"
  /\ holder' = t
  /\ \/ /\ lastScan.lot = t.what
        /\ lastScan' = [lastScan EXCEPT !.lot = None]
        /\ step' = "lastkeys"
     \/ /\ lastScan.lot # t.what
        /\ step' = "find"
        /\ UNCHANGED lastScan
  /\ UNCHANGED <<handlerVars, tasks, sweep, index, slots, readerVars, starts, historyVars>>

ClearLast ==
  /\ step = "lastkeys"
  /\ lastScan' = [lastScan EXCEPT !.no = 0]
  /\ step' = "find"
  /\ UNCHANGED <<handlerVars, tasks, holder, sweep, index, slots, readerVars, starts, historyVars>>

\* On to the next slot, first of the scans and then of the results.
SweepOn ==
  \/ /\ sweep.slot < NumSlots - 1
     /\ sweep' = [sweep EXCEPT !.slot = @ + 1]
     /\ step' = "find"
     /\ UNCHANGED <<tasks, holder>>
  \/ /\ sweep = [ring |-> "scan", slot |-> NumSlots - 1]
     /\ sweep' = [ring |-> "result", slot |-> 0]
     /\ step' = "find"
     /\ UNCHANGED <<tasks, holder>>
  \/ /\ sweep = [ring |-> "result", slot |-> NumSlots - 1]
     /\ sweep' = First
     /\ Unlock(holder)

\* The history forgets what lot l had saved in slot k.
Forgotten(s, k, l) ==
  [i \in DOMAIN s |-> IF s[i].slot = k /\ s[i].what.lot = l
                        THEN [s[i] EXCEPT !.what = Blank] ELSE s[i]]

\* Mutant: a slot is cleared whatever lot it holds.
ClearLotEvery ==
  /\ step = "find"
  /\ slots' = [slots EXCEPT ![sweep.ring][sweep.slot].lot = None]
  /\ Remember(sweep.ring, Forgotten(recent[sweep.ring], sweep.slot, holder.what))
  /\ step' = "wipe"
  /\ UNCHANGED <<handlerVars, tasks, holder, sweep, index, lastScan, readerVars, starts,
                 quiet, cut>>

\* A slot of the lot that ended loses its first key, the lot; the lot of any
\* other slot is only read.
ClearLot ==
  /\ step = "find"
  /\ LET r == sweep.ring
         k == sweep.slot
     IN  \/ /\ slots[r][k].lot = holder.what
            /\ slots' = [slots EXCEPT ![r][k].lot = None]
            /\ Remember(r, Forgotten(recent[r], k, holder.what))
            /\ step' = "wipe"
            /\ UNCHANGED <<tasks, holder, sweep>>
         \/ /\ slots[r][k].lot # holder.what
            /\ SweepOn
            /\ UNCHANGED <<slots, recent, steady>>
  /\ UNCHANGED <<handlerVars, index, lastScan, readerVars, starts, quiet, cut>>

\* And its other keys.
ClearNumber ==
  /\ step = "wipe"
  /\ slots' = [slots EXCEPT ![sweep.ring][sweep.slot].no = 0]
  /\ SweepOn
  /\ UNCHANGED <<handlerVars, index, lastScan, readerVars, starts, historyVars>>

-----------------------------------------------------------------------------
(* Restart_Inspector reads key by key, and holds no lock.                  *)

Reading(where) == reader.at = where

ReadOnly == UNCHANGED <<status, ended, lockVars, fileVars, starts, reloads, recent, cut>>

\* The reader comes to scan slot k, or to its end behind the last one.
ToSlot(k) ==
  \/ k < NumSlots /\ reader' = [Idle EXCEPT !.at = "scan", !.slot = k]
     /\ UNCHANGED <<steady, quiet>>
  \/ k = NumSlots /\ reader' = Idle
     /\ steady' = [r \in Rings |-> {}] /\ quiet' = TRUE

\* RELOAD,COMPLETE: the lot of LAST SCAN COMPLETE is read, and without one the
\* vision is skipped.
Reload ==
  /\ Reading("off")
  /\ reloads < MaxReloads
  /\ reloads' = reloads + 1
  /\ \/ lastScan.lot = None /\ UNCHANGED <<reader, steady, quiet>>
     \/ /\ lastScan.lot # None
        /\ reader' = [Idle EXCEPT !.at = "last", !.lot = lastScan.lot]
        /\ steady' = [r \in Rings |-> Held(recent[r]) \cap Modules]
        /\ quiet' = (~cut /\ ~(step = "number" /\ holder.kind = "result"))
  /\ UNCHANGED <<handlerVars, lockVars, fileVars, starts, recent, cut>>

\* And its other keys: without them it is skipped, too.
ReadLast ==
  /\ Reading("last")
  /\ \/ lastScan.no # 0 /\ ToSlot(0)
     \/ lastScan.no = 0 /\ ToSlot(NumSlots)
  /\ ReadOnly
  /\ UNCHANGED rt

\* The lot of the next scan slot; the other keys matter only behind a lot.
ReadScanLot ==
  /\ Reading("scan")
  /\ LET lot == slots["scan"][reader.slot].lot
     IN  \/ lot = None /\ ToSlot(reader.slot + 1)
         \/ /\ lot # None
            /\ reader' = [reader EXCEPT !.at = "number", !.lot = lot]
            /\ UNCHANGED <<steady, quiet>>
  /\ ReadOnly
  /\ UNCHANGED rt

\* Its other keys; what was read is searched for among the results, from the
\* first slot on.
ReadScanNumber ==
  /\ Reading("number")
  /\ LET e == [lot |-> reader.lot, no |-> slots["scan"][reader.slot].no]
     IN  \/ Legible(e)
            /\ reader' = [reader EXCEPT !.at = "search", !.lot = None, !.seek = e]
            /\ UNCHANGED <<steady, quiet>>
         \/ ~Legible(e) /\ ToSlot(reader.slot + 1)
  /\ ReadOnly
  /\ UNCHANGED rt

\* Mutant: the search stops short of the last slot.
NotHereShort ==
  \/ /\ reader.in + 1 < NumSlots - 1
     /\ reader' = [reader EXCEPT !.at = "search", !.in = @ + 1]
     /\ UNCHANGED <<rt, steady, quiet>>
  \/ /\ reader.in + 1 >= NumSlots - 1
     /\ rt' = rt \cup ({reader.seek} \cap Modules)
     /\ ToSlot(reader.slot + 1)

\* Not in this result slot: the next one, or, behind the last one, "RT".  What
\* was read from a slot under a writer may name no module that was scanned: such
\* an answer is not recorded.
NotHere ==
  \/ /\ reader.in + 1 < NumSlots
     /\ reader' = [reader EXCEPT !.at = "search", !.in = @ + 1]
     /\ UNCHANGED <<rt, steady, quiet>>
  \/ /\ reader.in + 1 = NumSlots
     /\ rt' = rt \cup ({reader.seek} \cap Modules)
     /\ ToSlot(reader.slot + 1)

\* The lot of the next result slot; the other keys matter only behind the same
\* lot.
ReadResultLot ==
  /\ Reading("search")
  /\ \/ /\ slots["result"][reader.in].lot = reader.seek.lot
        /\ reader' = [reader EXCEPT !.at = "match"]
        /\ UNCHANGED <<rt, steady, quiet>>
     \/ slots["result"][reader.in].lot # reader.seek.lot /\ NotHere
  /\ ReadOnly

\* Its other keys: found, or not.
ReadResultNumber ==
  /\ Reading("match")
  /\ \/ /\ slots["result"][reader.in].no = reader.seek.no
        /\ ToSlot(reader.slot + 1)
        /\ UNCHANGED rt
     \/ slots["result"][reader.in].no # reader.seek.no /\ NotHere
  /\ ReadOnly

ReaderStep == \/ Reload \/ ReadLast \/ ReadScanLot \/ ReadScanNumber
              \/ ReadResultLot \/ ReadResultNumber

-----------------------------------------------------------------------------
\* The program dies and is started again: tasks, positions, locks and the
\* modules under way are gone, the file is as it was left.
Crash ==
  /\ starts < MaxStarts
  /\ starts' = starts + 1
  /\ status' = [m \in Modules |-> IF status[m] = "scanned" THEN "lost" ELSE status[m]]
  /\ tasks' = {}
  /\ holder' = None
  /\ step' = "none"
  /\ sweep' = First
  /\ index' = [r \in Rings |-> 0]
  /\ reader' = Idle
  /\ steady' = [r \in Rings |-> {}]
  /\ quiet' = TRUE
  /\ cut' = (cut \/ step = "number")
  /\ UNCHANGED <<rt, ended, lastScan, slots, reloads, recent>>

TaskStep ==
  \/ \E t \in Tasks : SaveStart(t) \/ ClearStart(t)
  \/ SaveLast \/ SaveLot \/ SaveNumber
  \/ ClearLast \/ ClearLot \/ ClearNumber

Next ==
  \/ \E m \in Modules : ScanComplete(m) \/ InspectComplete(m)
  \/ \E l \in Lots : LotEnd(l)
  \/ TaskStep
  \/ ReaderStep
  \/ Crash

Spec == Init /\ [][Next]_vars

-----------------------------------------------------------------------------
(* Properties.                                                             *)

Owed(m) == status[m] \in {"scanned", "lost"}

\* The lot of one module with a result and the number of another.
Mixes == {[lot |-> x.lot, no |-> y.no] :
            x, y \in {m \in Modules : status[m] = "reported"}}

\* A restart that finds a last scan answers "RT" for every module that was
\* scanned, has no result, and was among the last NumSlots saved of its ring all
\* the while it read - whatever lots ended, crashes came before, and tasks wrote
\* under it.  Two ways it is missed are left: a save of a later run of the
\* program took its slot (m_iScanCompleteCheckIndex starts again at 0), or a
\* result was half saved under the reader and looked like it, with the lot of one
\* module and the number of another.
OwedIsRerun ==
  [][reader.at \notin {"off", "last"} /\ reader'.at = "off" /\ starts' = starts =>
       \A m \in steady["scan"] :
         Owed(m) /\ (quiet \/ m \notin Mixes) => m \in rt']_vars

\* No restart answers "RT" for a module whose result was among the last NumSlots
\* saved since the restart began, though it reads without the lock while tasks
\* write - unless a save of a later run of the program took its slot.
SavedResultNotRerun ==
  [][\A m \in Modules : m \in rt' \ rt => m \notin steady["result"]]_vars
=============================================================================
