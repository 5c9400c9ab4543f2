--------------------------- MODULE StatusLog_proof ---------------------------
(***************************************************************************)
(* Proofs about StatusLog, for any number of slots, modules, lots, tasks,  *)
(* starts and restarts: a module that is owed a rerun, and that its ring   *)
(* should hold, stands in the file and is met by the reader, and one whose *)
(* result the ring should hold is found before it is answered.             *)
(*                                                                         *)
(* Both rest on the last saves of a ring: those of one run of the program  *)
(* are in different slots, so that only a save of a later run can have     *)
(* taken the slot of one of them, and every other one is where it was      *)
(* written.  What the reader has behind it and before it is then a matter  *)
(* of slots.                                                               *)
(***************************************************************************)
EXTENDS StatusLog, SequenceTheorems, TLAPS

\* The slot d writes before the one at k.
Back(k, d) == IF d <= k THEN k - d ELSE k - d + NumSlots

\* The modules of the saves s that stand in the file, each with its slot.
StandsIn(s) ==
  {p \in Modules \X Slots :
     \E i \in DOMAIN s : s[i].what = p[1] /\ s[i].slot = p[2] /\ ~Overtaken(s, i)}

Stands == [r \in Rings |-> StandsIn(recent[r])]

\* Of the saves s, two of one run are in different slots, and the later one is
\* not of an earlier run.
Spread(s) ==
  \A i, j \in DOMAIN s :
    i < j => s[i].run < s[j].run \/ (s[i].run = s[j].run /\ s[i].slot # s[j].slot)

\* The saves of this run are in the slots behind the position, which is at k.
Trail(s, k, run) ==
  \A i \in DOMAIN s : /\ s[i].run <= run
                      /\ s[i].run = run => s[i].slot = Back(k, Len(s) - i)

-----------------------------------------------------------------------------
(* The inductive invariant.                                                *)

\* The lock is held by a task of the kind its next step needs.
LockInv ==
  /\ holder = None <=> step = "none"
  /\ step = "last" => holder.kind = "scan"
  /\ step \in {"lot", "number"} => holder.kind \in Rings
  /\ step \in {"lastkeys", "find", "wipe"} => holder.kind = "lotend"

\* The last saves of each ring.
RingInv ==
  /\ \A r \in Rings : Spread(recent[r])
  /\ \A r \in Rings : Trail(recent[r], index[r], starts)
  /\ step = "number" => LET s == recent[holder.kind]
                        IN  s # <<>> /\ s[Len(s)].run = starts

\* A slot under a writer.
HalfInv ==
  /\ step = "number" => slots[holder.kind][index[holder.kind]].lot = holder.what.lot
  /\ step = "wipe" => slots[sweep.ring][sweep.slot].lot = None

\* A module that a ring should hold is where it was saved.
Placed ==
  \A r \in Rings : \A m \in Modules : \A k \in Slots :
    <<m, k>> \in Stands[r] => slots[r][k] = m

\* A module is saved once, after it was reported.
Once ==
  /\ \A t \in tasks : /\ t.kind = "scan" => status[t.what] # "new"
                      /\ t.kind = "result" => status[t.what] = "reported"
  /\ \A m \in Modules : \A k \in Slots :
       /\ <<m, k>> \in Stands["scan"] => status[m] # "new"
       /\ <<m, k>> \in Stands["result"] => status[m] = "reported"
       /\ \A r \in Rings : <<m, k>> \in Stands[r] => \A t \in tasks : ~(t.kind = r /\ t.what = m)

\* The slot of the results that is being written.
Half(k) == step = "number" /\ holder.kind = "result" /\ k = index["result"]

\* Slot k of the results, as the reader of its keys sees it.
Clean(k) ==
  LET e == slots["result"][k]
  IN  e.lot = None \/ e.no = 0 \/ (e \in Modules /\ status[e] = "reported")

\* What is read from the result ring is of modules with a result, and, unless a
\* slot is, or was when the program died, half written, each slot names one.
ResultInv ==
  /\ \A k \in Slots :
       /\ \/ slots["result"][k].lot = None
          \/ \E x \in Modules : status[x] = "reported" /\ x.lot = slots["result"][k].lot
       /\ \/ slots["result"][k].no = 0
          \/ \E x \in Modules : status[x] = "reported" /\ x.no = slots["result"][k].no
  /\ ~cut => \A k \in Slots : Half(k) \/ Clean(k)

\* The reader's history: what stands in the rings all the while, and no result
\* half written.
SteadyInv ==
  /\ \A r \in Rings : \A m \in Modules : m \in steady[r] => \E k \in Slots : <<m, k>> \in Stands[r]
  /\ reader.at # "off" /\ quiet => \A k \in Slots : Clean(k) /\ ~Half(k)

\* A result that stood in the ring all the while is still before the reader that
\* looks for it.
Ahead ==
  /\ reader.at \in {"scan", "number"} => reader.in = 0
  /\ reader.at \in {"search", "match"} =>
       \A m \in Modules : \A k \in Slots :
         m = reader.seek /\ m \in steady["result"] /\ <<m, k>> \in Stands["result"]
           => reader.in <= k

\* What a match of the lot says of the numbers that can follow.
MatchInv ==
  /\ reader.at \in {"search", "match"} => Legible(reader.seek)
  /\ reader.at = "match" =>
       /\ \E x \in Modules : status[x] = "reported" /\ x.lot = reader.seek.lot
       /\ quiet => \/ slots["result"][reader.in].no = 0
                   \/ \E x \in Modules : /\ status[x] = "reported"
                                         /\ x.lot = reader.seek.lot
                                         /\ x.no = slots["result"][reader.in].no

\* The modules the reader owes an answer.
Due == {m \in Modules : m \in steady["scan"] /\ Owed(m) /\ (quiet \/ m \notin Mixes)}

\* A module that is due is answered once the reader has passed its slot, and in
\* its hands while it is there.
Met ==
  \A m \in Modules : \A k \in Slots :
    m \in Due /\ <<m, k>> \in Stands["scan"] =>
      /\ reader.at \in {"scan", "number", "search", "match"} /\ k < reader.slot => m \in rt
      /\ reader.at = "number" /\ k = reader.slot => reader.lot = m.lot
      /\ reader.at \in {"search", "match"} /\ k = reader.slot => reader.seek = m

FileInv == HalfInv /\ Placed /\ Once /\ ResultInv
ReadInv == SteadyInv /\ Ahead /\ MatchInv /\ Met
IInv    == TypeOK /\ LockInv /\ RingInv /\ FileInv /\ ReadInv

-----------------------------------------------------------------------------
(* Tasks, modules and slots.                                               *)

\* What a task is about.
LEMMA TaskShape ==
  ASSUME NEW t \in Tasks
  PROVE  /\ t # None
         /\ t.kind \in Rings => t.what \in Modules /\ t = [kind |-> t.kind, what |-> t.what]
         /\ t.kind = "lotend" => t.what \in Lots
         /\ t.kind \in Rings \/ t.kind = "lotend"
  BY TasksAssumption DEF Tasks, SaveTasks, EndTasks, Rings

\* A module can be told from a blank slot and is read by a restart.
LEMMA ModuleShape ==
  ASSUME NEW m \in Modules
  PROVE  /\ m.lot \in Lots /\ m.lot # None
         /\ m.no \in Nat \ {0}
         /\ m \in Entries
         /\ m # Blank
         /\ Legible(m)
         /\ m = [lot |-> m.lot, no |-> m.no]
<1>1. m \in [lot : Lots, no : Nat \ {0}]
  BY ModulesAssumption
<1>2. m.no \in {n.no : n \in Modules}
  OBVIOUS
<1>3. m.lot # None
  BY <1>1, NoneAssumption
<1> QED
  BY <1>1, <1>2, <1>3 DEF Entries, Blank, Legible

LEMMA BlankShape == Blank \in Entries /\ Blank \notin Modules /\ Blank.lot = None
  BY NoneAssumption, ModulesAssumption DEF Blank, Entries

LEMMA NextSlotInRing ==
  ASSUME NEW k \in Slots
  PROVE  NextSlot(k) \in Slots
  BY SlotsAssumption DEF Slots, NextSlot

\* Counting back stays in the ring, and meets the position only at zero.
LEMMA BackInRing ==
  ASSUME NEW k \in Slots, NEW d \in 0 .. NumSlots - 1
  PROVE  /\ Back(k, d) \in Slots
         /\ d = 0 => Back(k, d) = k
         /\ d # 0 => Back(k, d) # k
  BY SlotsAssumption DEF Slots, Back

\* A slot is one write further behind the next position.
LEMMA BackOfNext ==
  ASSUME NEW k \in Slots, NEW d \in Nat, d + 1 < NumSlots
  PROVE  Back(NextSlot(k), d + 1) = Back(k, d)
  BY SlotsAssumption DEF Slots, Back, NextSlot

LEMMA SlotsNotEmpty == 0 \in Slots
  BY SlotsAssumption DEF Slots

-----------------------------------------------------------------------------
(* The last saves of a ring, as a sequence.                                *)

LEMMA SaveShape ==
  ASSUME NEW s \in Seq(Saves), NEW i \in DOMAIN s
  PROVE  /\ i \in 1 .. Len(s) /\ i \in Nat /\ Len(s) \in Nat /\ DOMAIN s = 1 .. Len(s)
         /\ s[i] \in Saves
         /\ s[i].what \in Entries /\ s[i].run \in Nat /\ s[i].slot \in Slots
<1>1. i \in 1 .. Len(s) /\ Len(s) \in Nat /\ DOMAIN s = 1 .. Len(s) /\ s[i] \in Saves
  OBVIOUS
<1>2. i \in Nat
  BY <1>1
<1> QED
  BY <1>1, <1>2 DEF Saves

\* What a ring should hold is what stands in one of its slots.
LEMMA HeldStands ==
  ASSUME NEW s \in Seq(Saves), NEW m \in Modules
  PROVE  m \in Held(s) <=> \E k \in Slots : <<m, k>> \in StandsIn(s)
<1>1. m # Blank
  BY ModuleShape
<1>2. ASSUME m \in Held(s)
      PROVE  \E k \in Slots : <<m, k>> \in StandsIn(s)
  <2>1. PICK i \in DOMAIN s : s[i].what = m /\ ~Overtaken(s, i)
    BY <1>2 DEF Held
  <2>2. s[i].slot \in Slots
    BY SaveShape
  <2>3. <<m, s[i].slot>> \in StandsIn(s)
    BY <2>1, <2>2 DEF StandsIn
  <2> QED
    BY <2>2, <2>3
<1>3. ASSUME NEW k \in Slots, <<m, k>> \in StandsIn(s)
      PROVE  m \in Held(s)
  BY <1>1, <1>3 DEF StandsIn, Held
<1> QED
  BY <1>2, <1>3

\* The last saves with room for one more.
LEMMA NewerShape ==
  ASSUME NEW s \in Seq(Saves), Len(s) <= NumSlots
  PROVE  /\ Newer(s) \in Seq(Saves)
         /\ Len(Newer(s)) \in Nat /\ Len(Newer(s)) + 1 <= NumSlots
         /\ \E d \in {0, 1} :
              /\ Len(Newer(s)) = Len(s) - d
              /\ \A i \in 1 .. Len(Newer(s)) : i + d \in 1 .. Len(s) /\ Newer(s)[i] = s[i + d]
<1>1. CASE Len(s) = NumSlots
  <2>1. Newer(s) = Tail(s)
    BY <1>1 DEF Newer
  <2>2. s # <<>>
    BY <1>1, SlotsAssumption
  <2>3. /\ Tail(s) \in Seq(Saves) /\ Len(Tail(s)) = Len(s) - 1
        /\ \A i \in 1 .. Len(Tail(s)) : Tail(s)[i] = s[i + 1]
    BY <2>2, HeadTailProperties
  <2>4. Len(s) - 1 \in Nat
    BY <1>1, SlotsAssumption
  <2>5. \A i \in 1 .. Len(Newer(s)) : i + 1 \in 1 .. Len(s) /\ Newer(s)[i] = s[i + 1]
    BY <2>1, <2>3, <2>4
  <2> QED
    BY <1>1, <2>1, <2>3, <2>4, <2>5
<1>2. CASE Len(s) # NumSlots
  <2>1. Newer(s) = s /\ Len(s) \in Nat
    BY <1>2 DEF Newer
  <2>2. \A i \in 1 .. Len(Newer(s)) : i + 0 \in 1 .. Len(s) /\ Newer(s)[i] = s[i + 0]
    BY <2>1
  <2>3. Len(Newer(s)) = Len(s) - 0
    BY <2>1
  <2>4. \E d \in {0, 1} :
          /\ Len(Newer(s)) = Len(s) - d
          /\ \A i \in 1 .. Len(Newer(s)) : i + d \in 1 .. Len(s) /\ Newer(s)[i] = s[i + d]
    BY <2>2, <2>3
  <2>5. Len(s) + 1 <= NumSlots
    BY <1>2, <2>1, SlotsAssumption
  <2> QED
    BY <2>1, <2>4, <2>5
<1> QED
  BY <1>1, <1>2

\* The saves s with one more, of no module yet, in the slot after k.
Opened(s, k, run) == Append(Newer(s), [what |-> Blank, run |-> run, slot |-> NextSlot(k)])

\* The saves s, the last of which was one of module m.
Closed(s, m) == [s EXCEPT ![Len(s)].what = m]

\* A save begins: one more save, of no module yet, in the next slot.  Whatever
\* stood in that slot is overtaken.
LEMMA SaveOpens ==
  ASSUME NEW s \in Seq(Saves), Len(s) <= NumSlots,
         NEW k \in Slots, NEW run \in Nat,
         Spread(s), Trail(s, k, run),
         NEW z, z = Opened(s, k, run)
  PROVE  /\ z \in Seq(Saves) /\ Len(z) <= NumSlots /\ z # <<>>
         /\ z[Len(z)].run = run
         /\ Spread(z) /\ Trail(z, NextSlot(k), run)
         /\ StandsIn(z) \subseteq StandsIn(s)
         /\ \A p \in StandsIn(z) : p[2] # NextSlot(k)
<1> DEFINE e == [what |-> Blank, run |-> run, slot |-> NextSlot(k)]
           n == Len(Newer(s))
<1>1. e \in Saves
  BY BlankShape, NextSlotInRing DEF Saves
<1>2. Newer(s) \in Seq(Saves) /\ n \in Nat /\ n + 1 <= NumSlots
  BY NewerShape
<1>3. PICK d \in {0, 1} :
        /\ n = Len(s) - d
        /\ \A i \in 1 .. n : i + d \in 1 .. Len(s) /\ Newer(s)[i] = s[i + d]
  BY NewerShape
<1>4. /\ z \in Seq(Saves) /\ Len(z) = n + 1
      /\ \A i \in 1 .. n : z[i] = Newer(s)[i]
      /\ z[n + 1] = e
  BY <1>1, <1>2, AppendProperties DEF Opened
<1>5. Len(s) \in Nat /\ DOMAIN s = 1 .. Len(s) /\ DOMAIN z = 1 .. n + 1
  BY <1>2, <1>4
<1>6. \A i \in 1 .. n : i + d \in 1 .. Len(s) /\ z[i] = s[i + d]
  BY <1>3, <1>4
<1>7. \A i \in 1 .. n : z[i].run \in Nat /\ z[i].run <= run /\ z[i] \in Saves
  <2>1. ASSUME NEW i \in 1 .. n
        PROVE  z[i].run \in Nat /\ z[i].run <= run /\ z[i] \in Saves
    <3>1. i + d \in DOMAIN s
      BY <1>5, <1>6
    <3>2. s[i + d].run <= run
      BY <3>1 DEF Trail
    <3> QED
      BY <1>6, <3>1, <3>2, SaveShape
  <2> QED
    BY <2>1
<1> HIDE DEF n, e
\* The slots of this run's saves, counted from the new position.
<1>8. ASSUME NEW i \in 1 .. n, z[i].run = run
      PROVE  z[i].slot = Back(NextSlot(k), n + 1 - i) /\ z[i].slot # NextSlot(k)
  <2>1. i + d \in DOMAIN s /\ z[i] = s[i + d]
    BY <1>5, <1>6
  <2>2. z[i].slot = Back(k, Len(s) - (i + d))
    BY <1>8, <2>1 DEF Trail
  <2>3. Len(s) - (i + d) = n - i /\ n - i \in Nat /\ (n - i) + 1 < NumSlots
        /\ (n - i) + 1 = n + 1 - i
    BY <1>2, <1>3, <1>5, SlotsAssumption
  <2>4. Back(NextSlot(k), (n - i) + 1) = Back(k, n - i)
    BY <2>3, BackOfNext
  <2>5. (n - i) + 1 \in 0 .. NumSlots - 1 /\ (n - i) + 1 # 0
    BY <2>3, SlotsAssumption
  <2>6. Back(NextSlot(k), (n - i) + 1) # NextSlot(k)
    BY <2>5, BackInRing, NextSlotInRing
  <2> QED
    BY <2>2, <2>3, <2>4, <2>6
<1>9. e.run = run /\ e.slot = NextSlot(k) /\ e.what = Blank
  BY DEF e
<1>10. Trail(z, NextSlot(k), run)
  <2>1. ASSUME NEW i \in 1 .. n
        PROVE  z[i].run <= run /\ (z[i].run = run => z[i].slot = Back(NextSlot(k), Len(z) - i))
    <3>1. z[i].run <= run
      BY <1>7
    <3>2. z[i].run = run => z[i].slot = Back(NextSlot(k), n + 1 - i)
      BY <1>8
    <3> QED
      BY <1>2, <1>4, <3>1, <3>2
  <2>2. 0 \in 0 .. NumSlots - 1
    BY SlotsAssumption
  <2>3. Back(NextSlot(k), 0) = NextSlot(k)
    BY <2>2, BackInRing, NextSlotInRing
  <2>4. Len(z) - (n + 1) = 0
    BY <1>2, <1>4
  <2>5. z[n + 1].run <= run /\ z[n + 1].slot = Back(NextSlot(k), Len(z) - (n + 1))
    BY <1>4, <1>9, <2>3, <2>4
  <2>6. \A i \in 1 .. n + 1 : i \in 1 .. n \/ i = n + 1
    BY <1>2
  <2> QED
    BY <1>5, <2>1, <2>5, <2>6 DEF Trail
<1>11. Spread(z)
  <2>1. ASSUME NEW i \in 1 .. n, NEW j \in 1 .. n, i < j
        PROVE  z[i].run < z[j].run \/ (z[i].run = z[j].run /\ z[i].slot # z[j].slot)
    <3>1. i + d \in DOMAIN s /\ j + d \in DOMAIN s /\ i + d < j + d
      BY <1>3, <1>5, <1>6, <2>1
    <3>2. s[i + d].run < s[j + d].run
          \/ (s[i + d].run = s[j + d].run /\ s[i + d].slot # s[j + d].slot)
      BY <3>1 DEF Spread
    <3>3. z[i] = s[i + d] /\ z[j] = s[j + d]
      BY <1>6
    <3> QED
      BY <3>2, <3>3
  <2>2. ASSUME NEW i \in 1 .. n
        PROVE  z[i].run < z[n + 1].run
               \/ (z[i].run = z[n + 1].run /\ z[i].slot # z[n + 1].slot)
    <3>1. z[n + 1].run = run /\ z[n + 1].slot = NextSlot(k)
      BY <1>4, <1>9
    <3>2. z[i].run \in Nat /\ z[i].run <= run
      BY <1>7
    <3>3. CASE z[i].run = run
      BY <1>8, <3>1, <3>3
    <3>4. CASE z[i].run # run
      <4>1. z[i].run < run
        <5>1. \A a, b \in Nat : a <= b /\ a # b => a < b
          OBVIOUS
        <5> QED
          BY <3>2, <3>4, <5>1
      <4> QED
        BY <3>1, <4>1
    <3> QED
      BY <3>3, <3>4
  <2>3. \A i, j \in 1 .. n + 1 : i < j => i \in 1 .. n /\ (j \in 1 .. n \/ j = n + 1)
    BY <1>2
  <2>4. ASSUME NEW i \in 1 .. n + 1, NEW j \in 1 .. n + 1, i < j
        PROVE  z[i].run < z[j].run \/ (z[i].run = z[j].run /\ z[i].slot # z[j].slot)
    BY <2>1, <2>2, <2>3, <2>4
  <2> SUFFICES ASSUME NEW i \in DOMAIN z, NEW j \in DOMAIN z, i < j
               PROVE  z[i].run < z[j].run \/ (z[i].run = z[j].run /\ z[i].slot # z[j].slot)
    BY DEF Spread
  <2>5. i \in 1 .. n + 1 /\ j \in 1 .. n + 1
    BY <1>5
  <2> QED
    BY <2>4, <2>5
<1>12. ASSUME NEW p \in StandsIn(z)
       PROVE  p \in StandsIn(s) /\ p[2] # NextSlot(k)
  <2>1. p \in Modules \X Slots
    BY DEF StandsIn
  <2>2. PICK i \in 1 .. n + 1 : z[i].what = p[1] /\ z[i].slot = p[2] /\ ~Overtaken(z, i)
    BY <1>5 DEF StandsIn
  <2>3. p[1] # Blank
    BY <2>1, ModuleShape
  <2>4. i \in 1 .. n
    BY <1>2, <1>4, <1>9, <2>2, <2>3
  <2>5. p[2] # NextSlot(k)
    <3>1. ASSUME p[2] = NextSlot(k)
          PROVE  FALSE
      <4>1. z[i].run # run
        BY <1>8, <2>2, <2>4, <3>1
      <4>2. z[n + 1].run > z[i].run /\ z[n + 1].slot = z[i].slot
        BY <1>4, <1>7, <1>9, <2>2, <2>4, <3>1, <4>1
      <4>3. n + 1 \in i + 1 .. Len(z)
        BY <1>2, <1>4, <2>4
      <4> QED
        BY <2>2, <4>2, <4>3 DEF Overtaken
    <3> QED
      BY <3>1
  <2>6. p \in StandsIn(s)
    <3>1. i + d \in 1 .. Len(s) /\ s[i + d] = z[i]
      BY <1>6, <2>4
    <3>2. ASSUME NEW j \in 1 .. Len(s), j > i + d
          PROVE  j - d \in 1 .. n + 1 /\ z[j - d] = s[j]
      <4>1. j - d \in 1 .. n /\ (j - d) + d = j
        BY <1>2, <1>3, <1>5, <2>4, <3>2
      <4>2. z[j - d] = s[(j - d) + d]
        BY <1>6, <4>1
      <4>3. j - d \in 1 .. n + 1
        BY <1>2, <4>1
      <4> QED
        BY <4>1, <4>2, <4>3
    <3>3. ASSUME Overtaken(s, i + d)
          PROVE  FALSE
      <4>1. PICK j \in i + d + 1 .. Len(s) :
              s[j].slot = s[i + d].slot /\ s[j].run > s[i + d].run
        BY <3>3 DEF Overtaken
      <4>2. j \in 1 .. Len(s) /\ j > i + d
        BY <1>5, <3>1, <4>1
      <4>3. j - d \in i + 1 .. Len(z)
        BY <1>2, <1>3, <1>4, <2>4, <3>2, <4>2
      <4>4. z[j - d] = s[j]
        BY <3>2, <4>2
      <4> QED
        BY <2>2, <3>1, <4>1, <4>3, <4>4 DEF Overtaken
    <3> QED
      BY <1>5, <2>1, <2>2, <3>1, <3>3 DEF StandsIn
  <2> QED
    BY <2>5, <2>6
<1> QED
  BY <1>2, <1>4, <1>9, <1>10, <1>11, <1>12

\* A save ends: the last one is given its module.
LEMMA SaveCloses ==
  ASSUME NEW s \in Seq(Saves), Len(s) <= NumSlots, s # <<>>,
         NEW k \in Slots, NEW run \in Nat,
         Spread(s), Trail(s, k, run), s[Len(s)].run = run,
         NEW m \in Modules, NEW z, z = Closed(s, m)
  PROVE  /\ z \in Seq(Saves) /\ Len(z) = Len(s)
         /\ Spread(z) /\ Trail(z, k, run)
         /\ \A p \in StandsIn(z) : \/ p \in StandsIn(s) /\ p[2] # k
                                   \/ p = <<m, k>>
<1> DEFINE n == Len(s)
<1>1. n \in Nat \ {0} /\ n <= NumSlots /\ DOMAIN s = 1 .. n /\ s \in [1 .. n -> Saves]
  <2>1. n # 0
    BY EmptySeq
  <2> QED
    BY <2>1
<1>2. n \in 1 .. n
  BY <1>1
<1>3. s[n] \in Saves
  BY <1>1, <1>2
<1>4. [s[n] EXCEPT !.what = m] \in Saves
  BY <1>3, ModuleShape DEF Saves
<1>5. z = [s EXCEPT ![n] = [s[n] EXCEPT !.what = m]]
  BY <1>1, <1>2 DEF Closed
<1>6. z \in [1 .. n -> Saves]
  BY <1>1, <1>4, <1>5
<1>7. z \in Seq(Saves) /\ Len(z) = n /\ DOMAIN z = 1 .. n
  BY <1>1, <1>6, LenProperties
<1>8. /\ \A i \in 1 .. n : z[i].run = s[i].run /\ z[i].slot = s[i].slot
      /\ \A i \in 1 .. n : i # n => z[i] = s[i]
      /\ z[n].what = m
  <2>1. z[n] = [s[n] EXCEPT !.what = m]
    BY <1>1, <1>2, <1>5
  <2>2. z[n].run = s[n].run /\ z[n].slot = s[n].slot /\ z[n].what = m
    BY <1>3, <2>1 DEF Saves
  <2>3. \A i \in 1 .. n : i # n => z[i] = s[i]
    BY <1>1, <1>5
  <2> QED
    BY <2>2, <2>3
<1>9. s[n].slot = k
  <2>1. s[n].slot = Back(k, n - n)
    BY <1>1, <1>2 DEF Trail
  <2>2. n - n = 0 /\ 0 \in 0 .. NumSlots - 1
    BY <1>1, SlotsAssumption
  <2>3. Back(k, 0) = k
    BY <2>2, BackInRing
  <2> QED
    BY <2>1, <2>2, <2>3
<1> HIDE DEF n
<1>10. Spread(z)
  <2> SUFFICES ASSUME NEW i \in 1 .. n, NEW j \in 1 .. n, i < j
               PROVE  z[i].run < z[j].run \/ (z[i].run = z[j].run /\ z[i].slot # z[j].slot)
    BY <1>7 DEF Spread
  <2>1. s[i].run < s[j].run \/ (s[i].run = s[j].run /\ s[i].slot # s[j].slot)
    BY <1>1 DEF Spread
  <2>2. /\ z[i].run = s[i].run /\ z[i].slot = s[i].slot
        /\ z[j].run = s[j].run /\ z[j].slot = s[j].slot
    BY <1>8
  <2> QED
    BY <2>1, <2>2
<1>11. Trail(z, k, run)
  <2> SUFFICES ASSUME NEW i \in 1 .. n
               PROVE  z[i].run <= run /\ (z[i].run = run => z[i].slot = Back(k, Len(z) - i))
    BY <1>7 DEF Trail
  <2>1. s[i].run <= run /\ (s[i].run = run => s[i].slot = Back(k, Len(s) - i))
    BY <1>1 DEF Trail
  <2>2. z[i].run = s[i].run /\ z[i].slot = s[i].slot /\ Len(z) = Len(s)
    BY <1>7, <1>8 DEF n
  <2> QED
    BY <2>1, <2>2
<1>12. ASSUME NEW p \in StandsIn(z), p # <<m, k>>
       PROVE  p \in StandsIn(s) /\ p[2] # k
  <2>1. p \in Modules \X Slots /\ p = <<p[1], p[2]>>
    BY DEF StandsIn
  <2>2. PICK i \in 1 .. n : z[i].what = p[1] /\ z[i].slot = p[2] /\ ~Overtaken(z, i)
    BY <1>7 DEF StandsIn
  <2>3. i # n
    <3>1. CASE i = n
      BY <1>2, <1>8, <1>9, <1>12, <2>1, <2>2, <3>1
    <3> QED
      BY <3>1
  <2>4. z[i] = s[i] /\ i < n
    BY <1>1, <1>8, <2>3
  <2>5. p[2] # k
    <3>1. s[i].run < s[n].run \/ (s[i].run = s[n].run /\ s[i].slot # s[n].slot)
      BY <1>1, <1>2, <2>4 DEF Spread
    <3>2. CASE s[i].slot # s[n].slot
      BY <1>9, <2>2, <2>4, <3>2
    <3>3. CASE s[i].slot = s[n].slot
      <4>1. s[i].run < s[n].run
        BY <3>1, <3>3
      <4>2. s[i].run \in Nat /\ s[n].run \in Nat
        BY <1>1, <1>2, SaveShape
      <4>3. s[n].run > s[i].run
        BY <4>1, <4>2
      <4>4. z[n].slot = z[i].slot /\ z[n].run > z[i].run
        BY <1>2, <1>8, <3>3, <4>3
      <4>5. n \in i + 1 .. Len(z)
        BY <1>1, <1>7, <2>4
      <4> QED
        BY <2>2, <4>4, <4>5 DEF Overtaken
    <3> QED
      BY <3>2, <3>3
  <2>6. ~Overtaken(s, i)
    <3>1. ASSUME NEW j \in i + 1 .. n, s[j].slot = s[i].slot, s[j].run > s[i].run
          PROVE  FALSE
      <4>1. j \in 1 .. n
        BY <1>1, <3>1
      <4>2. z[j].slot = z[i].slot /\ z[j].run > z[i].run /\ j \in i + 1 .. Len(z)
        BY <1>7, <1>8, <3>1, <4>1
      <4> QED
        BY <2>2, <4>2 DEF Overtaken
    <3> QED
      BY <3>1 DEF Overtaken, n
  <2> QED
    BY <1>1, <2>1, <2>2, <2>4, <2>5, <2>6 DEF StandsIn
<1> QED
  BY <1>7, <1>10, <1>11, <1>12 DEF n

\* The history forgets a module of lot l in slot k, nothing else.
LEMMA ForgottenShape ==
  ASSUME NEW s \in Seq(Saves), NEW l \in Lots, NEW k \in Slots,
         Spread(s), NEW z, z = Forgotten(s, k, l)
  PROVE  /\ z \in Seq(Saves) /\ Len(z) = Len(s)
         /\ \A i \in DOMAIN s : i \in DOMAIN z /\ z[i].run = s[i].run /\ z[i].slot = s[i].slot
         /\ Spread(z)
         /\ \A a \in Slots, run \in Nat : Trail(s, a, run) => Trail(z, a, run)
         /\ \A p \in StandsIn(z) : p \in StandsIn(s) /\ ~(p[2] = k /\ p[1].lot = l)
<1> DEFINE n == Len(s)
<1>1. n \in Nat /\ DOMAIN s = 1 .. n /\ s \in [1 .. n -> Saves]
  OBVIOUS
<1>2. z = [i \in 1 .. n |-> IF s[i].slot = k /\ s[i].what.lot = l
                              THEN [s[i] EXCEPT !.what = Blank] ELSE s[i]]
  BY <1>1 DEF Forgotten
<1> HIDE DEF n
<1>3. ASSUME NEW i \in 1 .. n
      PROVE  /\ z[i] \in Saves
             /\ z[i].run = s[i].run /\ z[i].slot = s[i].slot
             /\ \/ z[i] = s[i] /\ ~(s[i].slot = k /\ s[i].what.lot = l)
                \/ z[i].what = Blank
  <2>1. s[i] \in Saves
    BY <1>1
  <2>2. CASE s[i].slot = k /\ s[i].what.lot = l
    <3>1. z[i] = [s[i] EXCEPT !.what = Blank]
      BY <1>2, <2>2
    <3> QED
      BY <2>1, <3>1, BlankShape DEF Saves
  <2>3. CASE ~(s[i].slot = k /\ s[i].what.lot = l)
    <3>1. z[i] = s[i]
      BY <1>2, <2>3
    <3> QED
      BY <2>1, <2>3, <3>1
  <2> QED
    BY <2>2, <2>3
<1>4. DOMAIN z = 1 .. n
  BY <1>2
<1>5. z \in Seq(Saves) /\ Len(z) = n
  <2>1. z \in [1 .. n -> Saves]
    <3>1. \A i \in 1 .. n : z[i] \in Saves
      BY <1>3
    <3>2. z = [i \in 1 .. n |-> z[i]]
      BY <1>2
    <3> QED
      BY <3>1, <3>2
  <2> QED
    BY <1>1, <2>1, LenProperties
<1>6. Spread(z)
  <2> SUFFICES ASSUME NEW i \in 1 .. n, NEW j \in 1 .. n, i < j
               PROVE  z[i].run < z[j].run \/ (z[i].run = z[j].run /\ z[i].slot # z[j].slot)
    BY <1>4 DEF Spread
  <2>1. s[i].run < s[j].run \/ (s[i].run = s[j].run /\ s[i].slot # s[j].slot)
    BY <1>1 DEF Spread
  <2>2. /\ z[i].run = s[i].run /\ z[i].slot = s[i].slot
        /\ z[j].run = s[j].run /\ z[j].slot = s[j].slot
    BY <1>3
  <2> QED
    BY <2>1, <2>2
<1>7. ASSUME NEW a \in Slots, NEW run \in Nat, Trail(s, a, run)
      PROVE  Trail(z, a, run)
  <2> SUFFICES ASSUME NEW i \in 1 .. n
               PROVE  z[i].run <= run /\ (z[i].run = run => z[i].slot = Back(a, Len(z) - i))
    BY <1>4 DEF Trail
  <2>1. s[i].run <= run /\ (s[i].run = run => s[i].slot = Back(a, Len(s) - i))
    BY <1>1, <1>7 DEF Trail
  <2>2. z[i].run = s[i].run /\ z[i].slot = s[i].slot /\ Len(z) = Len(s)
    BY <1>3, <1>5 DEF n
  <2> QED
    BY <2>1, <2>2
<1>8. ASSUME NEW p \in StandsIn(z)
      PROVE  p \in StandsIn(s) /\ ~(p[2] = k /\ p[1].lot = l)
  <2>1. p \in Modules \X Slots
    BY DEF StandsIn
  <2>2. PICK i \in 1 .. n : z[i].what = p[1] /\ z[i].slot = p[2] /\ ~Overtaken(z, i)
    BY <1>4 DEF StandsIn
  <2>3. z[i].what # Blank
    BY <2>1, <2>2, ModuleShape
  <2>4. z[i] = s[i] /\ ~(s[i].slot = k /\ s[i].what.lot = l)
    BY <1>3, <2>3
  <2>5. ~Overtaken(s, i)
    <3>1. ASSUME NEW j \in i + 1 .. n, s[j].slot = s[i].slot, s[j].run > s[i].run
          PROVE  FALSE
      <4>1. j \in 1 .. n
        BY <1>1, <3>1
      <4>2. z[j].slot = z[i].slot /\ z[j].run > z[i].run /\ j \in i + 1 .. Len(z)
        BY <1>3, <1>5, <3>1, <4>1
      <4> QED
        BY <2>2, <4>2 DEF Overtaken
    <3> QED
      BY <3>1 DEF Overtaken, n
  <2> QED
    BY <1>1, <2>1, <2>2, <2>4, <2>5 DEF StandsIn
<1>9. \A i \in DOMAIN s : i \in DOMAIN z /\ z[i].run = s[i].run /\ z[i].slot = s[i].slot
  BY <1>1, <1>3, <1>4
<1> QED
  BY <1>5, <1>6, <1>7, <1>8, <1>9 DEF n

-----------------------------------------------------------------------------
(* Lock and rings.                                                         *)

\* A step that saves or clears is one of the task that holds the lock.
LEMMA HolderShape ==
  ASSUME TypeOK, LockInv
  PROVE  /\ step # "none" => holder \in tasks /\ holder \in Tasks
         /\ step \in {"last", "lot", "number"} =>
              holder.kind \in Rings /\ holder.what \in Modules
         /\ step \in {"lastkeys", "find", "wipe"} => holder.what \in Lots
<1>1. step # "none" => holder \in tasks /\ holder \in Tasks
  BY DEF TypeOK, LockInv
<1>2. step = "last" => holder.kind \in Rings
  BY DEF LockInv, Rings
<1> QED
  BY <1>1, <1>2, TaskShape DEF LockInv

LEMMA LockStep ==
  ASSUME TypeOK, LockInv, [Next]_vars
  PROVE  LockInv'
<1>1. ASSUME NEW m \in Modules, ScanComplete(m) \/ InspectComplete(m)
      PROVE  LockInv'
  BY <1>1 DEF ScanComplete, InspectComplete, Queue, LockInv
<1>2. ASSUME NEW l \in Lots, LotEnd(l)
      PROVE  LockInv'
  BY <1>2 DEF LotEnd, Queue, LockInv
<1>3. ASSUME NEW t \in Tasks, SaveStart(t)
      PROVE  LockInv'
  <2>1. t # None
    BY TaskShape
  <2> QED
    BY <1>3, <2>1 DEF SaveStart, LockInv
<1>4. ASSUME NEW t \in Tasks, ClearStart(t)
      PROVE  LockInv'
  <2>1. t # None
    BY TaskShape
  <2> QED
    BY <1>4, <2>1 DEF ClearStart, LockInv
<1>5. CASE SaveLast
  BY <1>5 DEF SaveLast, LockInv, Rings
<1>6. CASE SaveLot
  BY <1>6 DEF SaveLot, LockInv
<1>7. CASE SaveNumber
  BY <1>7 DEF SaveNumber, Unlock, LockInv
<1>8. CASE ClearLast
  BY <1>8 DEF ClearLast, LockInv
<1>9. CASE ClearLot
  <2>1. CASE step' = "wipe" /\ holder' = holder
    BY <1>9, <2>1 DEF ClearLot, LockInv
  <2>2. CASE SweepOn
    BY <1>9, <2>2 DEF ClearLot, SweepOn, Unlock, LockInv
  <2> QED
    BY <1>9, <2>1, <2>2 DEF ClearLot
<1>10. CASE ClearNumber
  BY <1>10 DEF ClearNumber, SweepOn, Unlock, LockInv
<1>11. CASE ReaderStep
  <2>1. UNCHANGED <<tasks, holder, step>>
    BY <1>11 DEF ReaderStep, Reload, ReadLast, ReadScanLot, ReadScanNumber,
                 ReadResultLot, ReadResultNumber, ReadOnly, lockVars
  <2> QED
    BY <2>1 DEF LockInv
<1>12. CASE Crash
  BY <1>12 DEF Crash, LockInv
<1>13. CASE UNCHANGED vars
  BY <1>13 DEF vars, LockInv
<1> QED
  BY <1>1, <1>2, <1>3, <1>4, <1>5, <1>6, <1>7, <1>8, <1>9, <1>10, <1>11, <1>12, <1>13
  DEF Next, TaskStep

\* The types of the rings' histories, and that of the starts.
HistoryOK ==
  /\ recent \in [Rings -> Seq(Saves)]
  /\ \A r \in Rings : Len(recent[r]) <= NumSlots

LEMMA TypedRing ==
  ASSUME TypeOK, NEW r \in Rings
  PROVE  /\ recent[r] \in Seq(Saves) /\ Len(recent[r]) <= NumSlots
         /\ index[r] \in Slots /\ starts \in Nat
         /\ slots[r] \in [Slots -> Entries]
  BY DEF TypeOK

\* A save begins.
LEMMA SaveLotRing ==
  ASSUME TypeOK, LockInv, RingInv, SaveLot, NEW q, q = holder.kind
  PROVE  /\ HistoryOK' /\ RingInv'
         /\ q \in Rings
         /\ index'[q] \in Slots /\ index' \in [Rings -> Slots]
         /\ \A r \in Rings \ {q} : recent'[r] = recent[r]
         /\ \A p \in StandsIn(recent'[q]) : p \in StandsIn(recent[q]) /\ p[2] # index'[q]
         /\ steady' = [steady EXCEPT ![q] = @ \cap Held(recent'[q])]
<1>1. q \in Rings
  BY HolderShape DEF SaveLot
<1> DEFINE z == Append(Newer(recent[q]), [what |-> Blank, run |-> starts, slot |-> index'[q]])
<1>2. /\ step' = "number" /\ holder' = holder /\ starts' = starts
      /\ index' = [index EXCEPT ![q] = NextSlot(@)]
      /\ recent' = [recent EXCEPT ![q] = z]
      /\ steady' = [steady EXCEPT ![q] = @ \cap Held(z)]
  BY DEF SaveLot, Remember
<1>3. /\ recent[q] \in Seq(Saves) /\ Len(recent[q]) <= NumSlots
      /\ index[q] \in Slots /\ starts \in Nat
  BY <1>1, TypedRing
<1>4. index \in [Rings -> Slots] /\ recent \in [Rings -> Seq(Saves)]
  BY DEF TypeOK
<1>5. /\ index'[q] = NextSlot(index[q]) /\ index'[q] \in Slots /\ index' \in [Rings -> Slots]
      /\ \A r \in Rings \ {q} : index'[r] = index[r]
  BY <1>1, <1>2, <1>3, <1>4, NextSlotInRing
<1>6. Spread(recent[q]) /\ Trail(recent[q], index[q], starts)
  BY <1>1 DEF RingInv
<1>7. z = Opened(recent[q], index[q], starts)
  BY <1>5 DEF Opened
<1> HIDE DEF z
<1>8. /\ z \in Seq(Saves) /\ Len(z) <= NumSlots /\ z # <<>>
      /\ z[Len(z)].run = starts
      /\ Spread(z) /\ Trail(z, NextSlot(index[q]), starts)
      /\ StandsIn(z) \subseteq StandsIn(recent[q])
      /\ \A p \in StandsIn(z) : p[2] # NextSlot(index[q])
  BY <1>3, <1>6, <1>7, SaveOpens
<1>9. recent'[q] = z /\ \A r \in Rings \ {q} : recent'[r] = recent[r]
  BY <1>1, <1>2, <1>4
<1>10. HistoryOK'
  <2>1. recent' \in [Rings -> Seq(Saves)]
    BY <1>1, <1>2, <1>4, <1>8
  <2>2. \A r \in Rings : Len(recent'[r]) <= NumSlots
    BY <1>8, <1>9, TypedRing
  <2> QED
    BY <2>1, <2>2 DEF HistoryOK
<1>11. RingInv'
  <2>1. ASSUME NEW r \in Rings
        PROVE  Spread(recent'[r]) /\ Trail(recent'[r], index'[r], starts')
    <3>1. CASE r = q
      BY <1>2, <1>5, <1>8, <1>9, <3>1
    <3>2. CASE r # q
      BY <1>2, <1>5, <1>9, <3>2 DEF RingInv
    <3> QED
      BY <3>1, <3>2
  <2>2. recent'[holder'.kind] # <<>>
        /\ recent'[holder'.kind][Len(recent'[holder'.kind])].run = starts'
    BY <1>2, <1>8, <1>9
  <2> QED
    BY <2>1, <2>2 DEF RingInv, Spread, Trail, Back
<1> QED
  BY <1>1, <1>2, <1>5, <1>8, <1>9, <1>10, <1>11

\* A save ends.
LEMMA SaveNumberRing ==
  ASSUME TypeOK, LockInv, RingInv, SaveNumber, NEW q, q = holder.kind
  PROVE  /\ HistoryOK' /\ RingInv'
         /\ q \in Rings
         /\ \A r \in Rings \ {q} : recent'[r] = recent[r]
         /\ \A p \in StandsIn(recent'[q]) :
              (p \in StandsIn(recent[q]) /\ p[2] # index[q]) \/ p = <<holder.what, index[q]>>
         /\ steady' = [steady EXCEPT ![q] = @ \cap Held(recent'[q])]
<1>1. q \in Rings /\ holder.what \in Modules
  BY HolderShape DEF SaveNumber
<1> DEFINE s == recent[q]
           z == [s EXCEPT ![Len(s)].what = holder.what]
<1>2. /\ step = "number" /\ step' = "none" /\ starts' = starts /\ index' = index
      /\ recent' = [recent EXCEPT ![q] = z]
      /\ steady' = [steady EXCEPT ![q] = @ \cap Held(z)]
  BY DEF SaveNumber, Remember, Unlock
<1>3. s \in Seq(Saves) /\ Len(s) <= NumSlots /\ index[q] \in Slots /\ starts \in Nat
  BY <1>1, TypedRing
<1>4. recent \in [Rings -> Seq(Saves)]
  BY DEF TypeOK
<1>5. /\ Spread(s) /\ Trail(s, index[q], starts)
      /\ s # <<>> /\ s[Len(s)].run = starts
  BY <1>1, <1>2 DEF RingInv
<1>6. z = Closed(s, holder.what)
  BY DEF Closed
<1> HIDE DEF s, z
<1>7. /\ z \in Seq(Saves) /\ Len(z) = Len(s)
      /\ Spread(z) /\ Trail(z, index[q], starts)
      /\ \A p \in StandsIn(z) : \/ p \in StandsIn(s) /\ p[2] # index[q]
                                \/ p = <<holder.what, index[q]>>
  BY <1>1, <1>3, <1>5, <1>6, SaveCloses
<1>8. recent'[q] = z /\ \A r \in Rings \ {q} : recent'[r] = recent[r]
  BY <1>1, <1>2, <1>4
<1>9. HistoryOK'
  <2>1. recent' \in [Rings -> Seq(Saves)]
    BY <1>1, <1>2, <1>4, <1>7
  <2>2. \A r \in Rings : Len(recent'[r]) <= NumSlots
    BY <1>3, <1>7, <1>8, TypedRing
  <2> QED
    BY <2>1, <2>2 DEF HistoryOK
<1>10. RingInv'
  <2>1. ASSUME NEW r \in Rings
        PROVE  Spread(recent'[r]) /\ Trail(recent'[r], index'[r], starts')
    <3>1. CASE r = q
      BY <1>2, <1>7, <1>8, <3>1
    <3>2. CASE r # q
      BY <1>2, <1>8, <3>2 DEF RingInv
    <3> QED
      BY <3>1, <3>2
  <2> QED
    BY <1>2, <2>1 DEF RingInv, Spread, Trail, Back
<1> QED
  BY <1>1, <1>2, <1>7, <1>8, <1>9, <1>10 DEF s

\* The end of a lot comes to a slot of it.
LEMMA ClearLotRing ==
  ASSUME TypeOK, LockInv, RingInv, ClearLot, slots[sweep.ring][sweep.slot].lot = holder.what,
         NEW q, q = sweep.ring
  PROVE  /\ HistoryOK' /\ RingInv'
         /\ q \in Rings /\ sweep.slot \in Slots
         /\ \A r \in Rings \ {q} : recent'[r] = recent[r]
         /\ \A p \in StandsIn(recent'[q]) :
              p \in StandsIn(recent[q]) /\ ~(p[2] = sweep.slot /\ p[1].lot = holder.what)
         /\ steady' = [steady EXCEPT ![q] = @ \cap Held(recent'[q])]
         /\ slots' = [slots EXCEPT ![q][sweep.slot].lot = None]
         /\ step' = "wipe" /\ UNCHANGED <<tasks, holder, sweep>>
<1>1. q \in Rings /\ sweep.slot \in Slots
  BY DEF TypeOK
<1>2. step = "find" /\ holder.what \in Lots
  BY HolderShape DEF ClearLot
<1> DEFINE s == recent[q]
           z == Forgotten(s, sweep.slot, holder.what)
<1>3. /\ step' = "wipe" /\ starts' = starts /\ index' = index
      /\ recent' = [recent EXCEPT ![q] = z]
      /\ steady' = [steady EXCEPT ![q] = @ \cap Held(z)]
      /\ slots' = [slots EXCEPT ![q][sweep.slot].lot = None]
      /\ UNCHANGED <<tasks, holder, sweep>>
  BY DEF ClearLot, Remember
<1>4. s \in Seq(Saves) /\ Len(s) <= NumSlots /\ index[q] \in Slots /\ starts \in Nat
  BY <1>1, TypedRing
<1>5. recent \in [Rings -> Seq(Saves)]
  BY DEF TypeOK
<1>6. Spread(s) /\ Trail(s, index[q], starts)
  BY <1>1 DEF RingInv
<1>7. z = Forgotten(s, sweep.slot, holder.what)
  OBVIOUS
<1> HIDE DEF s, z
<1>8. /\ z \in Seq(Saves) /\ Len(z) = Len(s)
      /\ Spread(z) /\ Trail(z, index[q], starts)
      /\ \A p \in StandsIn(z) : p \in StandsIn(s) /\ ~(p[2] = sweep.slot /\ p[1].lot = holder.what)
  BY <1>1, <1>2, <1>4, <1>6, <1>7, ForgottenShape
<1>9. recent'[q] = z /\ \A r \in Rings \ {q} : recent'[r] = recent[r]
  BY <1>1, <1>3, <1>5
<1>10. HistoryOK'
  <2>1. recent' \in [Rings -> Seq(Saves)]
    BY <1>1, <1>3, <1>5, <1>8
  <2>2. \A r \in Rings : Len(recent'[r]) <= NumSlots
    BY <1>4, <1>8, <1>9, TypedRing
  <2> QED
    BY <2>1, <2>2 DEF HistoryOK
<1>11. RingInv'
  <2>1. ASSUME NEW r \in Rings
        PROVE  Spread(recent'[r]) /\ Trail(recent'[r], index'[r], starts')
    <3>1. CASE r = q
      BY <1>3, <1>8, <1>9, <3>1
    <3>2. CASE r # q
      BY <1>3, <1>9, <3>2 DEF RingInv
    <3> QED
      BY <3>1, <3>2
  <2> QED
    BY <1>3, <2>1 DEF RingInv, Spread, Trail, Back
<1> QED
  BY <1>1, <1>3, <1>8, <1>9, <1>10, <1>11 DEF s

\* A step that leaves the histories and positions alone, and begins no slot.
LEMMA QuietRing ==
  ASSUME TypeOK, RingInv, UNCHANGED <<recent, index, starts>>,
         step' = "number" => step = "number" /\ holder' = holder
  PROVE  HistoryOK' /\ RingInv'
<1>1. HistoryOK'
  BY DEF TypeOK, HistoryOK
<1>2. RingInv'
  <2>1. ASSUME NEW r \in Rings
        PROVE  Spread(recent'[r]) /\ Trail(recent'[r], index'[r], starts')
    BY DEF RingInv
  <2>2. step' = "number" => /\ recent'[holder'.kind] # <<>>
                            /\ recent'[holder'.kind][Len(recent'[holder'.kind])].run = starts'
    BY DEF RingInv
  <2> QED
    BY <2>1, <2>2 DEF RingInv, Spread, Trail, Back
<1> QED
  BY <1>1, <1>2

\* The saves of a run that is over count for no position any more.
LEMMA CrashRing ==
  ASSUME TypeOK, RingInv, Crash
  PROVE  HistoryOK' /\ RingInv'
<1>1. recent' = recent /\ starts' = starts + 1 /\ step' = "none"
  BY DEF Crash
<1>2. HistoryOK'
  BY <1>1 DEF TypeOK, HistoryOK
<1>3. ASSUME NEW r \in Rings
      PROVE  Spread(recent'[r]) /\ Trail(recent'[r], index'[r], starts')
  <2>1. Spread(recent[r]) /\ Trail(recent[r], index[r], starts)
    BY DEF RingInv
  <2>2. recent[r] \in Seq(Saves) /\ starts \in Nat
    BY TypedRing
  <2>3. ASSUME NEW i \in DOMAIN recent[r]
        PROVE  recent[r][i].run <= starts + 1 /\ recent[r][i].run # starts + 1
    <3>1. recent[r][i].run \in Nat
      BY <2>2, SaveShape
    <3>2. recent[r][i].run <= starts
      BY <2>1 DEF Trail
    <3> QED
      BY <2>2, <3>1, <3>2
  <2> QED
    BY <1>1, <2>1, <2>3 DEF Trail
<1>4. RingInv'
  BY <1>1, <1>3 DEF RingInv, Spread, Trail, Back
<1> QED
  BY <1>2, <1>4

\* What the steps that do not write a ring leave alone.
Other ==
  \/ \E m \in Modules : ScanComplete(m) \/ InspectComplete(m)
  \/ \E l \in Lots : LotEnd(l)
  \/ \E t \in Tasks : SaveStart(t) \/ ClearStart(t)
  \/ SaveLast \/ ClearLast \/ ClearNumber
  \/ ClearLot /\ slots[sweep.ring][sweep.slot].lot # holder.what
  \/ ReaderStep
  \/ UNCHANGED vars

LEMMA Steps3 ==
  ASSUME [Next]_vars
  PROVE  \/ SaveLot
         \/ SaveNumber
         \/ ClearLot /\ slots[sweep.ring][sweep.slot].lot = holder.what
         \/ Crash
         \/ Other
  BY DEF Next, TaskStep, Other

LEMMA OtherStep ==
  ASSUME LockInv, Other
  PROVE  /\ UNCHANGED <<recent, index, starts, cut>>
         /\ step' = "number" => step = "number" /\ holder' = holder
         /\ step = "number" => step' = "number" /\ holder' = holder
         /\ step' = "number" \/ step # "number"
         /\ ClearNumber \/ slots' = slots
         /\ step' = "wipe" => step = "wipe" /\ UNCHANGED <<slots, sweep>>
<1>1. ASSUME NEW m \in Modules, ScanComplete(m) \/ InspectComplete(m)
      PROVE  UNCHANGED <<recent, index, starts, cut, step, holder, slots, sweep>>
  BY <1>1 DEF ScanComplete, InspectComplete, Queue, fileVars, historyVars
<1>2. ASSUME NEW l \in Lots, LotEnd(l)
      PROVE  UNCHANGED <<recent, index, starts, cut, step, holder, slots, sweep>>
  BY <1>2 DEF LotEnd, Queue, fileVars, historyVars
<1>3. ASSUME NEW t \in Tasks, SaveStart(t) \/ ClearStart(t)
      PROVE  /\ UNCHANGED <<recent, index, starts, cut, slots>>
             /\ step' \notin {"number", "wipe"} /\ step # "number"
  BY <1>3 DEF SaveStart, ClearStart, Free, historyVars, LockInv
<1>4. CASE SaveLast \/ ClearLast
  BY <1>4 DEF SaveLast, ClearLast, historyVars
<1>5. CASE ClearNumber
  BY <1>5 DEF ClearNumber, SweepOn, Unlock, historyVars
<1>6. CASE ClearLot /\ slots[sweep.ring][sweep.slot].lot # holder.what
  BY <1>6 DEF ClearLot, SweepOn, Unlock
<1>7. CASE ReaderStep
  BY <1>7 DEF ReaderStep, Reload, ReadLast, ReadScanLot, ReadScanNumber,
              ReadResultLot, ReadResultNumber, ReadOnly, lockVars, fileVars
<1>8. CASE UNCHANGED vars
  BY <1>8 DEF vars
<1> QED
  BY <1>1, <1>2, <1>3, <1>4, <1>5, <1>6, <1>7, <1>8 DEF Other

LEMMA RingStep ==
  ASSUME TypeOK, LockInv, RingInv, [Next]_vars
  PROVE  HistoryOK' /\ RingInv'
<1>1. CASE SaveLot
  BY <1>1, SaveLotRing
<1>2. CASE SaveNumber
  BY <1>2, SaveNumberRing
<1>3. CASE ClearLot /\ slots[sweep.ring][sweep.slot].lot = holder.what
  BY <1>3, ClearLotRing
<1>4. CASE Crash
  BY <1>4, CrashRing
<1>5. CASE Other
  BY <1>5, OtherStep, QuietRing
<1> QED
  BY <1>1, <1>2, <1>3, <1>4, <1>5, Steps3

\* A module comes to stand in a ring when its save ends, and never otherwise.
LEMMA StandsStep ==
  ASSUME TypeOK, LockInv, RingInv, [Next]_vars, NEW r \in Rings, NEW p \in StandsIn(recent'[r])
  PROVE  \/ p \in StandsIn(recent[r])
         \/ SaveNumber /\ r = holder.kind /\ p = <<holder.what, index[r]>>
<1>1. CASE SaveLot
  BY <1>1, SaveLotRing
<1>2. CASE SaveNumber
  BY <1>2, SaveNumberRing
<1>3. CASE ClearLot /\ slots[sweep.ring][sweep.slot].lot = holder.what
  BY <1>3, ClearLotRing
<1>4. CASE Crash \/ Other
  <2>1. recent' = recent
    BY <1>4, OtherStep DEF Crash
  <2> QED
    BY <2>1
<1> QED
  BY <1>1, <1>2, <1>3, <1>4, Steps3

-----------------------------------------------------------------------------
(* Types.                                                                  *)

\* What the writers of the rings write.
LEMMA SlotTypes ==
  ASSUME TypeOK, LockInv, RingInv, SaveLot \/ SaveNumber \/ ClearLot \/ ClearNumber
  PROVE  index' \in [Rings -> Slots] /\ slots' \in [Rings -> [Slots -> Entries]]
<1>1. index \in [Rings -> Slots] /\ slots \in [Rings -> [Slots -> Entries]]
  BY DEF TypeOK
<1>2. ASSUME NEW r \in Rings, NEW k \in Slots
      PROVE  /\ \A l \in Lots \cup {None} :
                  [slots EXCEPT ![r][k].lot = l] \in [Rings -> [Slots -> Entries]]
             /\ \A n \in {0} \cup {m.no : m \in Modules} :
                  [slots EXCEPT ![r][k].no = n] \in [Rings -> [Slots -> Entries]]
  <2>1. slots[r][k] \in Entries
    BY <1>1, <1>2
  <2>2. ASSUME NEW l \in Lots \cup {None}
        PROVE  [slots EXCEPT ![r][k].lot = l] \in [Rings -> [Slots -> Entries]]
    <3>1. [slots[r][k] EXCEPT !.lot = l] \in Entries
      BY <2>1 DEF Entries
    <3> QED
      BY <1>1, <3>1
  <2>3. ASSUME NEW n \in {0} \cup {m.no : m \in Modules}
        PROVE  [slots EXCEPT ![r][k].no = n] \in [Rings -> [Slots -> Entries]]
    <3>1. [slots[r][k] EXCEPT !.no = n] \in Entries
      BY <2>1 DEF Entries
    <3> QED
      BY <1>1, <3>1
  <2> QED
    BY <2>2, <2>3
<1>3. CASE SaveLot
  <2>1. PICK q \in Rings : q = holder.kind
    BY <1>3, HolderShape DEF SaveLot
  <2>2. index'[q] \in Slots /\ index' \in [Rings -> Slots]
    BY <1>3, <2>1, SaveLotRing
  <2>3. holder.what \in Modules
    BY <1>3, HolderShape DEF SaveLot
  <2>4. slots' = [slots EXCEPT ![q][index'[q]].lot = holder.what.lot]
    BY <1>3, <2>1 DEF SaveLot
  <2> QED
    BY <1>2, <2>2, <2>3, <2>4, ModuleShape
<1>4. CASE SaveNumber
  <2>1. PICK q \in Rings : q = holder.kind
    BY <1>4, HolderShape DEF SaveNumber
  <2>2. holder.what \in Modules
    BY <1>4, HolderShape DEF SaveNumber
  <2>3. slots' = [slots EXCEPT ![q][index[q]].no = holder.what.no] /\ index' = index
    BY <1>4, <2>1 DEF SaveNumber
  <2>4. holder.what.no \in {m.no : m \in Modules}
    BY <2>2
  <2> QED
    BY <1>1, <1>2, <2>3, <2>4
<1>5. CASE ClearLot
  <2>1. PICK r \in Rings, k \in Slots : r = sweep.ring /\ k = sweep.slot
    BY DEF TypeOK
  <2>2. index' = index /\ (slots' = slots \/ slots' = [slots EXCEPT ![r][k].lot = None])
    BY <1>5, <2>1 DEF ClearLot
  <2>3. [slots EXCEPT ![r][k].lot = None] \in [Rings -> [Slots -> Entries]]
    BY <1>2
  <2> QED
    BY <1>1, <2>2, <2>3
<1>6. CASE ClearNumber
  <2>1. PICK r \in Rings, k \in Slots : r = sweep.ring /\ k = sweep.slot
    BY DEF TypeOK
  <2>2. index' = index /\ slots' = [slots EXCEPT ![r][k].no = 0]
    BY <1>6, <2>1 DEF ClearNumber
  <2>3. 0 \in {0} \cup {m.no : m \in Modules}
    OBVIOUS
  <2> QED
    BY <1>1, <1>2, <2>2, <2>3
<1> QED
  BY <1>3, <1>4, <1>5, <1>6

\* The sweep goes on over the slots, or gives the lock back.
LEMMA SweepTypes ==
  ASSUME TypeOK, SweepOn
  PROVE  /\ sweep' \in [ring : Rings, slot : Slots]
         /\ step' \in {"find", "none"}
         /\ tasks' \subseteq tasks /\ (holder' = None \/ (holder' = holder /\ tasks' = tasks))
<1>1. sweep \in [ring : Rings, slot : Slots]
  BY DEF TypeOK
<1>2. CASE sweep.slot < NumSlots - 1 /\ sweep' = [sweep EXCEPT !.slot = @ + 1]
            /\ step' = "find" /\ UNCHANGED <<tasks, holder>>
  <2>1. sweep.slot + 1 \in Slots
    BY <1>1, <1>2, SlotsAssumption DEF Slots
  <2> QED
    BY <1>1, <1>2, <2>1
<1>3. CASE sweep' = [ring |-> "result", slot |-> 0] /\ step' = "find"
            /\ UNCHANGED <<tasks, holder>>
  BY <1>3, SlotsNotEmpty DEF Rings
<1>4. CASE sweep' = First /\ Unlock(holder)
  BY <1>4, SlotsNotEmpty DEF First, Rings, Unlock
<1> QED
  BY <1>2, <1>3, <1>4 DEF SweepOn

LEMMA ToSlotTypes ==
  ASSUME TypeOK, NEW k \in Nat, ToSlot(k)
  PROVE  /\ reader' \in Readers /\ steady' \in [Rings -> SUBSET Modules] /\ quiet' \in BOOLEAN
<1>1. Idle \in Readers
  BY SlotsNotEmpty, BlankShape DEF Idle, Readers
<1>2. CASE k < NumSlots /\ reader' = [Idle EXCEPT !.at = "scan", !.slot = k]
           /\ UNCHANGED <<steady, quiet>>
  <2>1. k \in Slots
    BY <1>2, SlotsAssumption DEF Slots
  <2> QED
    BY <1>1, <1>2, <2>1 DEF Readers, TypeOK
<1>3. CASE reader' = Idle /\ steady' = [r \in Rings |-> {}] /\ quiet' = TRUE
  BY <1>1, <1>3
<1> QED
  BY <1>2, <1>3 DEF ToSlot

\* What the search writes when a slot is not the one it looks for.
LEMMA NotHereTypes ==
  ASSUME TypeOK, NotHere
  PROVE  /\ reader' \in Readers /\ steady' \in [Rings -> SUBSET Modules] /\ quiet' \in BOOLEAN
         /\ rt' \subseteq Modules
<1>1. reader \in Readers /\ reader.in \in Slots /\ reader.slot \in Nat
  BY DEF TypeOK, Readers, Slots
<1>2. CASE /\ reader.in + 1 < NumSlots
           /\ reader' = [reader EXCEPT !.at = "search", !.in = @ + 1]
           /\ UNCHANGED <<rt, steady, quiet>>
  <2>1. reader.in + 1 \in Slots
    BY <1>1, <1>2, SlotsAssumption DEF Slots
  <2> QED
    BY <1>1, <1>2, <2>1 DEF Readers, TypeOK
<1>3. CASE rt' = rt \cup ({reader.seek} \cap Modules) /\ ToSlot(reader.slot + 1)
  <2>1. reader.slot + 1 \in Nat
    BY <1>1
  <2> QED
    BY <1>3, <2>1, ToSlotTypes DEF TypeOK
<1> QED
  BY <1>2, <1>3 DEF NotHere

LEMMA ReaderTypes ==
  ASSUME TypeOK, ReaderStep
  PROVE  /\ reader' \in Readers /\ steady' \in [Rings -> SUBSET Modules] /\ quiet' \in BOOLEAN
         /\ rt' \subseteq Modules /\ reloads' \in 0 .. MaxReloads
         /\ UNCHANGED <<status, ended, lockVars, fileVars, starts, recent, cut>>
<1>1. reader \in Readers /\ reader.in \in Slots /\ reader.slot + 1 \in Nat
      /\ rt \subseteq Modules /\ reloads \in 0 .. MaxReloads
      /\ steady \in [Rings -> SUBSET Modules] /\ quiet \in BOOLEAN
  BY DEF TypeOK, Readers, Slots
<1>2. CASE Reload
  <2>1. reloads' \in 0 .. MaxReloads
    BY <1>1, <1>2, ReloadsAssumption DEF Reload
  <2>2. UNCHANGED <<rt, status, ended, lockVars, fileVars, starts, recent, cut>>
    BY <1>2 DEF Reload, handlerVars
  <2>3. CASE UNCHANGED <<reader, steady, quiet>>
    BY <1>1, <2>1, <2>2, <2>3
  <2>4. CASE /\ reader' = [Idle EXCEPT !.at = "last", !.lot = lastScan.lot]
             /\ steady' = [r \in Rings |-> Held(recent[r]) \cap Modules]
             /\ quiet' = (~cut /\ ~(step = "number" /\ holder.kind = "result"))
    <3>1. lastScan.lot \in Lots \cup {None}
      BY DEF TypeOK, Entries
    <3>2. reader' \in Readers
      BY <2>4, <3>1, SlotsNotEmpty, BlankShape DEF Idle, Readers
    <3>3. steady' \in [Rings -> SUBSET Modules]
      BY <2>4
    <3>4. quiet' \in BOOLEAN
      BY <2>4
    <3> QED
      BY <1>1, <2>1, <2>2, <3>2, <3>3, <3>4
  <2> QED
    BY <1>2, <2>3, <2>4 DEF Reload
<1>3. CASE ReadLast
  BY <1>1, <1>3, ToSlotTypes, SlotsAssumption DEF ReadLast, ReadOnly
<1>4. CASE ReadScanLot
  <2>1. slots["scan"][reader.slot].lot \in Lots \cup {None}
    BY DEF TypeOK, Entries, Rings, Readers
  <2>2. CASE ToSlot(reader.slot + 1)
    BY <1>1, <1>4, <2>2, ToSlotTypes DEF ReadScanLot, ReadOnly
  <2>3. CASE /\ reader' = [reader EXCEPT !.at = "number", !.lot = slots["scan"][reader.slot].lot]
             /\ UNCHANGED <<steady, quiet>>
    BY <1>1, <1>4, <2>1, <2>3 DEF ReadScanLot, ReadOnly, Readers
  <2> QED
    BY <1>4, <2>2, <2>3 DEF ReadScanLot
<1>5. CASE ReadScanNumber
  <2> DEFINE e == [lot |-> reader.lot, no |-> slots["scan"][reader.slot].no]
  <2>1. e \in Entries
    BY DEF TypeOK, Entries, Rings, Readers
  <2> HIDE DEF e
  <2>2. CASE ToSlot(reader.slot + 1)
    BY <1>1, <1>5, <2>2, ToSlotTypes DEF ReadScanNumber, ReadOnly
  <2>3. CASE /\ reader' = [reader EXCEPT !.at = "search", !.lot = None, !.seek = e]
             /\ UNCHANGED <<steady, quiet>>
    BY <1>1, <1>5, <2>1, <2>3 DEF ReadScanNumber, ReadOnly, Readers
  <2> QED
    BY <1>5, <2>2, <2>3 DEF ReadScanNumber, e
<1>6. CASE ReadResultLot
  BY <1>1, <1>6, NotHereTypes DEF ReadResultLot, ReadOnly, Readers
<1>7. CASE ReadResultNumber
  <2>1. CASE ToSlot(reader.slot + 1) /\ UNCHANGED rt
    BY <1>1, <1>7, <2>1, ToSlotTypes DEF ReadResultNumber, ReadOnly
  <2>2. CASE NotHere
    BY <1>1, <1>7, <2>2, NotHereTypes DEF ReadResultNumber, ReadOnly
  <2> QED
    BY <1>7, <2>1, <2>2 DEF ReadResultNumber
<1> QED
  BY <1>2, <1>3, <1>4, <1>5, <1>6, <1>7 DEF ReaderStep

LEMMA TypeStep ==
  ASSUME TypeOK, LockInv, RingInv, [Next]_vars
  PROVE  TypeOK'
<1>1. HistoryOK'
  BY RingStep
<1>2. ASSUME NEW m \in Modules, ScanComplete(m)
      PROVE  TypeOK'
  <2>1. [kind |-> "scan", what |-> m] \in Tasks
    BY DEF Tasks, SaveTasks, Rings
  <2> QED
    BY <1>2, <2>1 DEF ScanComplete, Queue, TypeOK, Statuses, fileVars, readerVars, historyVars
<1>3. ASSUME NEW m \in Modules, InspectComplete(m)
      PROVE  TypeOK'
  <2>1. [kind |-> "result", what |-> m] \in Tasks
    BY DEF Tasks, SaveTasks, Rings
  <2> QED
    BY <1>3, <2>1 DEF InspectComplete, Queue, TypeOK, Statuses, fileVars, readerVars, historyVars
<1>4. ASSUME NEW l \in Lots, LotEnd(l)
      PROVE  TypeOK'
  <2>1. [kind |-> "lotend", what |-> l] \in Tasks
    BY DEF Tasks, EndTasks
  <2> QED
    BY <1>4, <2>1 DEF LotEnd, Queue, TypeOK, fileVars, readerVars, historyVars
<1>5. ASSUME NEW t \in Tasks, SaveStart(t)
      PROVE  TypeOK'
  <2>1. UNCHANGED <<status, rt, ended, tasks, sweep, index, slots, reader, starts, reloads,
                    recent, steady, quiet, cut>>
    BY <1>5 DEF SaveStart, handlerVars, readerVars, historyVars
  <2>2. lastScan \in Entries /\ holder' = t /\ t \in tasks
    BY <1>5 DEF SaveStart, Free, TypeOK
  <2>3. step' \in Steps
    BY <1>5 DEF SaveStart, Steps
  <2>4. lastScan' \in Entries
    <3>1. t.kind = "scan" => t.what.lot \in Lots \cup {None}
      BY TaskShape, ModuleShape DEF Rings
    <3> QED
      BY <1>5, <2>2, <3>1 DEF SaveStart, Entries
  <2> QED
    BY <2>1, <2>2, <2>3, <2>4 DEF TypeOK
<1>6. ASSUME NEW t \in Tasks, ClearStart(t)
      PROVE  TypeOK'
  <2>1. UNCHANGED <<status, rt, ended, tasks, sweep, index, slots, reader, starts, reloads,
                    recent, steady, quiet, cut>>
    BY <1>6 DEF ClearStart, handlerVars, readerVars, historyVars
  <2>2. lastScan \in Entries /\ holder' = t /\ t \in tasks
    BY <1>6 DEF ClearStart, Free, TypeOK
  <2>3. step' \in Steps /\ lastScan' \in Entries
    BY <1>6, <2>2 DEF ClearStart, Entries, Steps
  <2> QED
    BY <2>1, <2>2, <2>3 DEF TypeOK
<1>7. CASE SaveLast \/ ClearLast
  <2>1. UNCHANGED <<status, rt, ended, tasks, holder, sweep, index, slots, reader, starts,
                    reloads, recent, steady, quiet, cut>>
    BY <1>7 DEF SaveLast, ClearLast, handlerVars, readerVars, historyVars
  <2>2. lastScan \in Entries
    BY DEF TypeOK
  <2>3. step' \in Steps
    BY <1>7 DEF SaveLast, ClearLast, Steps
  <2>4. lastScan' \in Entries
    <3>1. CASE SaveLast
      <4>1. holder.what \in Modules
        BY <3>1, HolderShape DEF SaveLast
      <4>2. holder.what.no \in {m.no : m \in Modules}
        BY <4>1
      <4> QED
        BY <2>2, <3>1, <4>2 DEF SaveLast, Entries
    <3>2. CASE ClearLast
      BY <2>2, <3>2 DEF ClearLast, Entries
    <3> QED
      BY <1>7, <3>1, <3>2
  <2> QED
    BY <2>1, <2>2, <2>3, <2>4 DEF TypeOK
<1>8. CASE SaveLot \/ SaveNumber \/ ClearLot \/ ClearNumber
  <2>1. index' \in [Rings -> Slots] /\ slots' \in [Rings -> [Slots -> Entries]]
    BY <1>8, SlotTypes
  <2>2. /\ UNCHANGED <<status, rt, ended, lastScan, reader, reloads, starts, cut>>
        /\ quiet' \in BOOLEAN
    BY <1>8 DEF SaveLot, SaveNumber, ClearLot, ClearNumber, handlerVars, readerVars,
                historyVars, TypeOK
  <2>3. /\ step' \in Steps
        /\ holder' \in tasks' \cup {None}
        /\ tasks' \subseteq tasks
        /\ sweep' \in [ring : Rings, slot : Slots]
    <3>1. CASE SaveLot \/ SaveNumber
      BY <3>1 DEF SaveLot, SaveNumber, Unlock, TypeOK, Steps
    <3>2. CASE ClearLot \/ ClearNumber
      <4>1. CASE SweepOn
        BY <4>1, SweepTypes DEF TypeOK, Steps
      <4>2. CASE step' = "wipe" /\ UNCHANGED <<tasks, holder, sweep>>
        BY <4>2 DEF TypeOK, Steps
      <4> QED
        BY <3>2, <4>1, <4>2 DEF ClearLot, ClearNumber
    <3> QED
      BY <1>8, <3>1, <3>2
  <2>4. steady' \in [Rings -> SUBSET Modules]
    <3>1. steady \in [Rings -> SUBSET Modules]
      BY DEF TypeOK
    <3>2. steady' = steady \/ \E q \in Rings : \E H : steady' = [steady EXCEPT ![q] = @ \cap H]
      <4>1. CASE SaveLot
        BY <4>1, SaveLotRing
      <4>2. CASE SaveNumber
        BY <4>2, SaveNumberRing
      <4>3. CASE ClearLot /\ slots[sweep.ring][sweep.slot].lot = holder.what
        BY <4>3, ClearLotRing
      <4>4. CASE ClearLot /\ slots[sweep.ring][sweep.slot].lot # holder.what
        BY <4>4 DEF ClearLot
      <4>5. CASE ClearNumber
        BY <4>5 DEF ClearNumber, historyVars
      <4> QED
        BY <1>8, <4>1, <4>2, <4>3, <4>4, <4>5
    <3> QED
      BY <3>1, <3>2
  <2> QED
    BY <1>1, <2>1, <2>2, <2>3, <2>4 DEF TypeOK, HistoryOK
<1>9. CASE ReaderStep
  BY <1>9, ReaderTypes DEF TypeOK, lockVars, fileVars
<1>10. CASE Crash
  <2>1. Idle \in Readers /\ First \in [ring : Rings, slot : Slots]
    BY SlotsNotEmpty, BlankShape DEF Idle, Readers, First, Rings
  <2>2. /\ status' \in [Modules -> Statuses] /\ starts' \in 1 .. MaxStarts
        /\ index' \in [Rings -> Slots]
    BY <1>10, SlotsNotEmpty, StartsAssumption DEF Crash, TypeOK, Statuses
  <2> QED
    BY <1>10, <2>1, <2>2 DEF Crash, TypeOK, Steps
<1>11. CASE UNCHANGED vars
  BY <1>11 DEF vars, TypeOK
<1> QED
  BY <1>2, <1>3, <1>4, <1>5, <1>6, <1>7, <1>8, <1>9, <1>10, <1>11 DEF Next, TaskStep

-----------------------------------------------------------------------------
(* The file.                                                               *)

LEMMA StandsShape ==
  /\ \A r \in Rings : Stands[r] = StandsIn(recent[r])
  /\ \A r \in Rings : Stands'[r] = StandsIn(recent'[r])
  BY DEF Stands, StandsIn, Overtaken

LEMMA HalfStep ==
  ASSUME TypeOK, LockInv, RingInv, HalfInv, [Next]_vars
  PROVE  HalfInv'
<1>1. CASE SaveLot
  <2>1. PICK q \in Rings : q = holder.kind
    BY <1>1, HolderShape DEF SaveLot
  <2>2. index'[q] \in Slots
    BY <1>1, <2>1, SaveLotRing
  <2>3. slots' = [slots EXCEPT ![q][index'[q]].lot = holder.what.lot]
        /\ step' = "number" /\ holder' = holder
    BY <1>1, <2>1 DEF SaveLot
  <2>4. slots[q] \in [Slots -> Entries] /\ slots \in [Rings -> [Slots -> Entries]]
    BY DEF TypeOK
  <2>5. slots'[q][index'[q]].lot = holder.what.lot
    BY <2>2, <2>3, <2>4 DEF Entries
  <2> QED
    BY <2>1, <2>3, <2>5 DEF HalfInv
<1>2. CASE SaveNumber
  BY <1>2 DEF SaveNumber, Unlock, HalfInv
<1>3. CASE ClearLot /\ slots[sweep.ring][sweep.slot].lot = holder.what
  <2>1. PICK r \in Rings, k \in Slots : r = sweep.ring /\ k = sweep.slot
    BY DEF TypeOK
  <2>2. slots' = [slots EXCEPT ![r][k].lot = None] /\ step' = "wipe" /\ sweep' = sweep
    BY <1>3, <2>1, ClearLotRing
  <2>3. slots[r] \in [Slots -> Entries] /\ slots \in [Rings -> [Slots -> Entries]]
    BY DEF TypeOK
  <2>4. slots'[r][k].lot = None
    BY <2>2, <2>3 DEF Entries
  <2> QED
    BY <2>1, <2>2, <2>4 DEF HalfInv
<1>4. CASE Crash
  BY <1>4 DEF Crash, HalfInv
<1>5. CASE Other
  <2>1. /\ index' = index
        /\ step' = "number" => step = "number" /\ holder' = holder
        /\ ClearNumber \/ slots' = slots
        /\ step' = "wipe" => step = "wipe" /\ UNCHANGED <<slots, sweep>>
    BY <1>5, OtherStep
  <2>2. ClearNumber => step = "wipe" /\ step' # "number"
    BY DEF ClearNumber, SweepOn, Unlock
  <2> QED
    BY <2>1, <2>2 DEF HalfInv
<1> QED
  BY <1>1, <1>2, <1>3, <1>4, <1>5, Steps3

\* The second half of a save: the slot at the position holds the module.
LEMMA SavedSlot ==
  ASSUME TypeOK, LockInv, HalfInv, SaveNumber, NEW q, q = holder.kind
  PROVE  /\ q \in Rings /\ holder.what \in Modules /\ index[q] \in Slots
         /\ slots'[q][index[q]] = holder.what
         /\ \A k \in Slots \ {index[q]} : slots'[q][k] = slots[q][k]
         /\ \A r \in Rings \ {q} : slots'[r] = slots[r]
<1> DEFINE m == holder.what
<1>1. q \in Rings /\ m \in Modules /\ step = "number"
  BY HolderShape DEF SaveNumber
<1>2. slots' = [slots EXCEPT ![q][index[q]].no = m.no]
  BY DEF SaveNumber
<1>3. slots \in [Rings -> [Slots -> Entries]] /\ index[q] \in Slots
  BY <1>1 DEF TypeOK
<1>4. slots[q][index[q]] \in Entries /\ slots[q][index[q]].lot = m.lot
  BY <1>1, <1>3 DEF HalfInv
<1>5. [slots[q][index[q]] EXCEPT !.no = m.no] = [lot |-> m.lot, no |-> m.no]
  BY <1>4 DEF Entries
<1>6. m = [lot |-> m.lot, no |-> m.no]
  BY <1>1, ModuleShape
<1> QED
  BY <1>1, <1>2, <1>3, <1>5, <1>6

\* The first half writes the lot of the slot at the new position alone.
LEMMA OpenedSlot ==
  ASSUME TypeOK, LockInv, RingInv, SaveLot, NEW q, q = holder.kind
  PROVE  /\ q \in Rings /\ index'[q] \in Slots
         /\ slots'[q][index'[q]] = [slots[q][index'[q]] EXCEPT !.lot = holder.what.lot]
         /\ \A k \in Slots \ {index'[q]} : slots'[q][k] = slots[q][k]
         /\ \A r \in Rings \ {q} : slots'[r] = slots[r]
<1>1. q \in Rings /\ index'[q] \in Slots
  BY SaveLotRing
<1>2. slots' = [slots EXCEPT ![q][index'[q]].lot = holder.what.lot]
  BY DEF SaveLot
<1>3. slots \in [Rings -> [Slots -> Entries]]
  BY DEF TypeOK
<1> QED
  BY <1>1, <1>2, <1>3

\* The end of a lot writes the slot it has come to alone.
LEMMA SweptSlot ==
  ASSUME TypeOK, NEW q, NEW a, q = sweep.ring, a = sweep.slot
  PROVE  /\ q \in Rings /\ a \in Slots /\ slots[q][a] \in Entries
         /\ ClearLot /\ slots[q][a].lot = holder.what =>
              /\ slots'[q][a] = [slots[q][a] EXCEPT !.lot = None]
              /\ \A k \in Slots \ {a} : slots'[q][k] = slots[q][k]
              /\ \A r \in Rings \ {q} : slots'[r] = slots[r]
         /\ ClearNumber =>
              /\ slots'[q][a] = [slots[q][a] EXCEPT !.no = 0]
              /\ \A k \in Slots \ {a} : slots'[q][k] = slots[q][k]
              /\ \A r \in Rings \ {q} : slots'[r] = slots[r]
<1>1. q \in Rings /\ a \in Slots
  BY DEF TypeOK
<1>2. slots \in [Rings -> [Slots -> Entries]]
  BY DEF TypeOK
<1>3. ClearLot /\ slots[q][a].lot = holder.what => slots' = [slots EXCEPT ![q][a].lot = None]
  BY DEF ClearLot
<1>4. ClearNumber => slots' = [slots EXCEPT ![q][a].no = 0]
  BY DEF ClearNumber
<1> QED
  BY <1>1, <1>2, <1>3, <1>4

LEMMA PlacedStep ==
  ASSUME TypeOK, LockInv, RingInv, HalfInv, Placed, [Next]_vars
  PROVE  Placed'
<1> SUFFICES ASSUME NEW r \in Rings, NEW m \in Modules, NEW k \in Slots,
                    <<m, k>> \in StandsIn(recent'[r])
             PROVE  slots'[r][k] = m
  BY StandsShape DEF Placed
<1>1. <<m, k>> \in StandsIn(recent[r]) => slots[r][k] = m
  BY StandsShape DEF Placed
<1>2. <<m, k>>[1] = m /\ <<m, k>>[2] = k
  OBVIOUS
<1>3. CASE SaveLot
  <2>1. PICK q \in Rings : q = holder.kind
    BY <1>3, HolderShape DEF SaveLot
  <2>2. /\ \A b \in Rings \ {q} : recent'[b] = recent[b]
        /\ \A p \in StandsIn(recent'[q]) : p \in StandsIn(recent[q]) /\ p[2] # index'[q]
    BY <1>3, <2>1, SaveLotRing
  <2>3. /\ \A b \in Slots \ {index'[q]} : slots'[q][b] = slots[q][b]
        /\ \A b \in Rings \ {q} : slots'[b] = slots[b]
    BY <1>3, <2>1, OpenedSlot
  <2>4. CASE r = q
    BY <1>1, <1>2, <2>2, <2>3, <2>4
  <2>5. CASE r # q
    BY <1>1, <2>2, <2>3, <2>5
  <2> QED
    BY <2>4, <2>5
<1>4. CASE SaveNumber
  <2>1. PICK q \in Rings : q = holder.kind
    BY <1>4, HolderShape DEF SaveNumber
  <2>2. CASE r = q
    <3>1. CASE <<m, k>> = <<holder.what, index[q]>>
      BY <1>4, <2>1, <2>2, <3>1, SavedSlot
    <3>2. CASE <<m, k>> \in StandsIn(recent[q]) /\ k # index[q]
      BY <1>1, <1>4, <2>1, <2>2, <3>2, SavedSlot
    <3> QED
      BY <1>2, <1>4, <2>1, <2>2, <3>1, <3>2, SaveNumberRing
  <2>3. CASE r # q
    BY <1>1, <1>4, <2>1, <2>3, SaveNumberRing, SavedSlot
  <2> QED
    BY <2>2, <2>3
<1>5. CASE ClearLot /\ slots[sweep.ring][sweep.slot].lot = holder.what
  <2>1. PICK q \in Rings, a \in Slots : q = sweep.ring /\ a = sweep.slot
    BY DEF TypeOK
  <2>2. CASE r = q
    <3>1. <<m, k>> \in StandsIn(recent[q]) /\ ~(k = a /\ m.lot = holder.what)
      BY <1>2, <1>5, <2>1, <2>2, ClearLotRing
    <3>2. k # a
      BY <1>1, <1>5, <2>1, <2>2, <3>1
    <3>3. \A b \in Slots \ {a} : slots'[q][b] = slots[q][b]
      BY <1>5, <2>1, SweptSlot
    <3> QED
      BY <1>1, <2>2, <3>1, <3>2, <3>3
  <2>3. CASE r # q
    <3>1. \A b \in Rings \ {q} : recent'[b] = recent[b]
      BY <1>5, <2>1, ClearLotRing
    <3>2. \A b \in Rings \ {q} : slots'[b] = slots[b]
      BY <1>5, <2>1, SweptSlot
    <3> QED
      BY <1>1, <2>3, <3>1, <3>2
  <2> QED
    BY <2>2, <2>3
<1>6. CASE Crash
  BY <1>1, <1>6 DEF Crash
<1>7. CASE Other
  <2>1. recent' = recent /\ (ClearNumber \/ slots' = slots)
    BY <1>7, OtherStep
  <2>2. CASE ClearNumber
    <3>1. PICK q \in Rings, a \in Slots : q = sweep.ring /\ a = sweep.slot
      BY DEF TypeOK
    <3>2. slots[q][a].lot = None
      BY <2>2, <3>1 DEF ClearNumber, HalfInv
    <3>3. slots[r][k] = m /\ m.lot # None
      BY <1>1, <2>1, ModuleShape
    <3>4. CASE r = q
      <4>1. k # a
        BY <3>2, <3>3, <3>4
      <4>2. \A b \in Slots \ {a} : slots'[q][b] = slots[q][b]
        BY <2>2, <3>1, SweptSlot
      <4> QED
        BY <3>3, <3>4, <4>1, <4>2
    <3>5. CASE r # q
      BY <2>2, <3>1, <3>3, <3>5, SweptSlot
    <3> QED
      BY <3>4, <3>5
  <2> QED
    BY <1>1, <2>1, <2>2
<1> QED
  BY <1>3, <1>4, <1>5, <1>6, <1>7, Steps3

\* What a step makes of a slot.
LEMMA SlotStep ==
  ASSUME TypeOK, LockInv, RingInv, HalfInv, [Next]_vars, NEW r \in Rings, NEW k \in Slots,
         NEW old, NEW new, old = slots[r][k], new = slots'[r][k]
  PROVE  /\ old \in Entries
         /\ \/ new = old
            \/ SaveLot /\ holder.kind = r /\ k = index'[r]
               /\ new.lot = holder.what.lot /\ new.no = old.no
            \/ SaveNumber /\ holder.kind = r /\ k = index[r] /\ new = holder.what
            \/ new.lot = None /\ new.no = old.no
            \/ new.lot = old.lot /\ new.no = 0
<1>1. old \in Entries
  BY DEF TypeOK
<1>2. CASE SaveLot
  <2>1. PICK q \in Rings : q = holder.kind
    BY <1>2, HolderShape DEF SaveLot
  <2>2. /\ slots'[q][index'[q]] = [slots[q][index'[q]] EXCEPT !.lot = holder.what.lot]
        /\ \A b \in Slots \ {index'[q]} : slots'[q][b] = slots[q][b]
        /\ \A b \in Rings \ {q} : slots'[b] = slots[b]
    BY <1>2, <2>1, OpenedSlot
  <2>3. CASE r = q /\ k = index'[q]
    <3>1. new = [old EXCEPT !.lot = holder.what.lot]
      BY <2>2, <2>3
    <3>2. new.lot = holder.what.lot /\ new.no = old.no
      BY <1>1, <3>1 DEF Entries
    <3> QED
      BY <1>1, <1>2, <2>1, <2>3, <3>2
  <2>4. CASE ~(r = q /\ k = index'[q])
    BY <1>1, <2>2, <2>4
  <2> QED
    BY <2>3, <2>4
<1>3. CASE SaveNumber
  <2>1. PICK q \in Rings : q = holder.kind
    BY <1>3, HolderShape DEF SaveNumber
  <2>2. /\ slots'[q][index[q]] = holder.what
        /\ \A b \in Slots \ {index[q]} : slots'[q][b] = slots[q][b]
        /\ \A b \in Rings \ {q} : slots'[b] = slots[b]
    BY <1>3, <2>1, SavedSlot
  <2> QED
    BY <1>1, <1>3, <2>1, <2>2
<1>4. CASE ClearLot /\ slots[sweep.ring][sweep.slot].lot = holder.what
  <2>1. PICK q \in Rings, a \in Slots : q = sweep.ring /\ a = sweep.slot
    BY DEF TypeOK
  <2>2. /\ slots'[q][a] = [slots[q][a] EXCEPT !.lot = None]
        /\ \A b \in Slots \ {a} : slots'[q][b] = slots[q][b]
        /\ \A b \in Rings \ {q} : slots'[b] = slots[b]
    <3>1. slots' = [slots EXCEPT ![q][a].lot = None]
      BY <1>4, <2>1 DEF ClearLot
    <3>2. slots \in [Rings -> [Slots -> Entries]]
      BY DEF TypeOK
    <3> QED
      BY <3>1, <3>2
  <2>3. CASE r = q /\ k = a
    <3>1. new = [old EXCEPT !.lot = None]
      BY <2>2, <2>3
    <3>2. new.lot = None /\ new.no = old.no
      BY <1>1, <3>1 DEF Entries
    <3> QED
      BY <1>1, <3>2
  <2>4. CASE ~(r = q /\ k = a)
    BY <1>1, <2>2, <2>4
  <2> QED
    BY <2>3, <2>4
<1>5. CASE ClearNumber
  <2>1. PICK q \in Rings, a \in Slots : q = sweep.ring /\ a = sweep.slot
    BY DEF TypeOK
  <2>2. /\ slots'[q][a] = [slots[q][a] EXCEPT !.no = 0]
        /\ \A b \in Slots \ {a} : slots'[q][b] = slots[q][b]
        /\ \A b \in Rings \ {q} : slots'[b] = slots[b]
    <3>1. slots' = [slots EXCEPT ![q][a].no = 0]
      BY <1>5, <2>1 DEF ClearNumber
    <3>2. slots \in [Rings -> [Slots -> Entries]]
      BY DEF TypeOK
    <3> QED
      BY <3>1, <3>2
  <2>3. CASE r = q /\ k = a
    <3>1. new = [old EXCEPT !.no = 0]
      BY <2>2, <2>3
    <3>2. new.lot = old.lot /\ new.no = 0
      BY <1>1, <3>1 DEF Entries
    <3> QED
      BY <1>1, <3>2
  <2>4. CASE ~(r = q /\ k = a)
    BY <1>1, <2>2, <2>4
  <2> QED
    BY <2>3, <2>4
<1>6. CASE Crash \/ (Other /\ ~ClearNumber)
  <2>1. slots' = slots
    BY <1>6, OtherStep DEF Crash
  <2> QED
    BY <1>1, <2>1
<1> QED
  BY <1>2, <1>3, <1>4, <1>5, <1>6, Steps3

\* What became of a module stays true of it.
LEMMA StatusStep ==
  ASSUME TypeOK, [Next]_vars, NEW m \in Modules
  PROVE  /\ status[m] = "reported" => status'[m] = "reported"
         /\ status[m] # "new" => status'[m] # "new"
         /\ ~Crash /\ Owed(m)' => Owed(m) \/ status[m] = "new"
<1>1. status \in [Modules -> Statuses]
  BY DEF TypeOK
<1>2. ASSUME NEW n \in Modules, ScanComplete(n) \/ InspectComplete(n)
      PROVE  /\ status[n] # "reported"
             /\ \/ status[n] = "new" /\ status' = [status EXCEPT ![n] = "scanned"]
                \/ status[n] = "scanned" /\ status' = [status EXCEPT ![n] = "reported"]
  BY <1>2 DEF ScanComplete, InspectComplete
<1>3. CASE \E n \in Modules : ScanComplete(n) \/ InspectComplete(n)
  <2>1. PICK n \in Modules : ScanComplete(n) \/ InspectComplete(n)
    BY <1>3
  <2>2. CASE status[n] = "new" /\ status' = [status EXCEPT ![n] = "scanned"]
    BY <1>1, <2>2 DEF Owed
  <2>3. CASE status[n] = "scanned" /\ status' = [status EXCEPT ![n] = "reported"]
    BY <1>1, <2>3 DEF Owed
  <2> QED
    BY <1>2, <2>1, <2>2, <2>3
<1>4. CASE Crash
  BY <1>1, <1>4 DEF Crash
<1>5. CASE UNCHANGED status
  BY <1>5 DEF Owed
<1>6. \/ \E n \in Modules : ScanComplete(n) \/ InspectComplete(n)
      \/ Crash
      \/ UNCHANGED status
  BY DEF Next, TaskStep, ReaderStep, LotEnd, SaveStart, ClearStart, SaveLast, SaveLot,
         SaveNumber, ClearLast, ClearLot, ClearNumber, Reload, ReadLast, ReadScanLot,
         ReadScanNumber, ReadResultLot, ReadResultNumber, ReadOnly, handlerVars, vars
<1> QED
  BY <1>3, <1>4, <1>5, <1>6

\* A task is queued when its module gets the status that calls for it.
LEMMA TasksStep ==
  ASSUME TypeOK, [Next]_vars, NEW t \in tasks', t.kind \in Rings
  PROVE  \/ t \in tasks
         \/ /\ t.what \in Modules /\ t.kind = "scan"
            /\ status[t.what] = "new" /\ status'[t.what] # "new"
         \/ /\ t.what \in Modules /\ t.kind = "result"
            /\ status[t.what] = "scanned" /\ status'[t.what] = "reported"
<1>1. status \in [Modules -> Statuses]
  BY DEF TypeOK
<1>2. ASSUME NEW m \in Modules, ScanComplete(m)
      PROVE  \/ t \in tasks
             \/ /\ t = [kind |-> "scan", what |-> m]
                /\ status[m] = "new" /\ status'[m] # "new"
  BY <1>1, <1>2 DEF ScanComplete, Queue
<1>3. ASSUME NEW m \in Modules, InspectComplete(m)
      PROVE  \/ t \in tasks
             \/ /\ t = [kind |-> "result", what |-> m]
                /\ status[m] = "scanned" /\ status'[m] = "reported"
  BY <1>1, <1>3 DEF InspectComplete, Queue
<1>4. ASSUME NEW l \in Lots, LotEnd(l)
      PROVE  t \in tasks
  <2>1. t # [kind |-> "lotend", what |-> l]
    BY DEF Rings
  <2> QED
    BY <1>4, <2>1 DEF LotEnd, Queue
<1>5. CASE TaskStep
  <2>1. tasks' \subseteq tasks
    BY <1>5 DEF TaskStep, SaveStart, ClearStart, SaveLast, SaveLot, SaveNumber, ClearLast,
                ClearLot, ClearNumber, SweepOn, Unlock
  <2> QED
    BY <2>1
<1>6. CASE ReaderStep
  <2>1. tasks' = tasks
    BY <1>6 DEF ReaderStep, Reload, ReadLast, ReadScanLot, ReadScanNumber,
                ReadResultLot, ReadResultNumber, ReadOnly, lockVars
  <2> QED
    BY <2>1
<1>7. CASE Crash
  BY <1>7 DEF Crash
<1>8. CASE UNCHANGED vars
  BY <1>8 DEF vars
<1> QED
  BY <1>2, <1>3, <1>4, <1>5, <1>6, <1>7, <1>8 DEF Next

LEMMA OnceStep ==
  ASSUME TypeOK, LockInv, RingInv, Once, [Next]_vars
  PROVE  Once'
<1>1. ASSUME NEW t \in tasks
      PROVE  t \in Tasks
  BY DEF TypeOK
<1>2. ASSUME NEW t \in tasks'
      PROVE  /\ t.kind = "scan" => status'[t.what] # "new"
             /\ t.kind = "result" => status'[t.what] = "reported"
  <2>1. CASE t \in tasks /\ t.kind \in Rings
    <3>1. t.what \in Modules
      BY <1>1, <2>1, TaskShape
    <3>2. /\ t.kind = "scan" => status[t.what] # "new"
          /\ t.kind = "result" => status[t.what] = "reported"
      BY <2>1 DEF Once
    <3> QED
      BY <3>1, <3>2, StatusStep
  <2>2. CASE t \notin tasks /\ t.kind \in Rings
    BY <2>2, TasksStep
  <2>3. CASE t.kind \notin Rings
    BY <2>3 DEF Rings
  <2> QED
    BY <2>1, <2>2, <2>3
<1>3. SaveNumber => /\ holder \in tasks /\ holder \in Tasks
                    /\ holder.kind \in Rings /\ holder.what \in Modules
  BY HolderShape DEF SaveNumber
<1>4. ASSUME NEW r \in Rings, NEW m \in Modules, NEW k \in Slots,
             <<m, k>> \in StandsIn(recent'[r])
      PROVE  /\ r = "scan" => status'[m] # "new"
             /\ r = "result" => status'[m] = "reported"
             /\ \A t \in tasks' : ~(t.kind = r /\ t.what = m)
  <2>1. CASE <<m, k>> \in StandsIn(recent[r])
    <3>1. /\ r = "scan" => status[m] # "new"
          /\ r = "result" => status[m] = "reported"
          /\ \A t \in tasks : ~(t.kind = r /\ t.what = m)
      BY <2>1, StandsShape DEF Once
    <3>2. ASSUME NEW t \in tasks', t.kind = r, t.what = m
          PROVE  FALSE
      <4>1. \/ t.kind = "scan" /\ status[t.what] = "new"
            \/ t.kind = "result" /\ status[t.what] = "scanned"
        BY <3>1, <3>2, TasksStep
      <4> QED
        BY <3>1, <3>2, <4>1
    <3> QED
      BY <3>1, <3>2, StatusStep
  <2>2. CASE SaveNumber /\ r = holder.kind /\ <<m, k>> = <<holder.what, index[r]>>
    <3>1. m = holder.what
      BY <2>2
    <3>2. /\ r = "scan" => status'[m] # "new"
          /\ r = "result" => status'[m] = "reported"
      <4>1. /\ r = "scan" => status[m] # "new"
            /\ r = "result" => status[m] = "reported"
        BY <1>3, <2>2, <3>1 DEF Once
      <4> QED
        BY <4>1, StatusStep
    <3>3. ASSUME NEW t \in tasks', t.kind = r, t.what = m
          PROVE  FALSE
      <4>1. t \in tasks /\ t # holder
        BY <2>2 DEF SaveNumber, Unlock
      <4>2. t = [kind |-> r, what |-> m] /\ holder = [kind |-> r, what |-> m]
        BY <1>1, <1>3, <2>2, <3>1, <3>3, <4>1, TaskShape
      <4> QED
        BY <4>1, <4>2
    <3> QED
      BY <3>2, <3>3
  <2>3. \/ <<m, k>> \in StandsIn(recent[r])
        \/ SaveNumber /\ r = holder.kind /\ <<m, k>> = <<holder.what, index[r]>>
    BY <1>4, StandsStep
  <2> QED
    BY <2>1, <2>2, <2>3
<1>5. ASSUME NEW m \in Modules, NEW k \in Slots
      PROVE  /\ <<m, k>> \in Stands'["scan"] => status'[m] # "new"
             /\ <<m, k>> \in Stands'["result"] => status'[m] = "reported"
             /\ \A r \in Rings : <<m, k>> \in Stands'[r] =>
                  \A t \in tasks' : ~(t.kind = r /\ t.what = m)
  <2>1. "scan" \in Rings /\ "result" \in Rings
    BY DEF Rings
  <2> QED
    BY <1>4, <2>1, StandsShape
<1> QED
  BY <1>2, <1>5 DEF Once

\* A slot of the results that names a module with a result goes on to do so until
\* a save opens it, and names one again when the save ends.
LEMMA CleanStep ==
  ASSUME TypeOK, LockInv, RingInv, FileInv, [Next]_vars, NEW k \in Slots
  PROVE  /\ Clean(k) => Clean(k)' \/ (SaveLot /\ holder.kind = "result" /\ Half(k)')
         /\ Half(k) => Half(k)' \/ Clean(k)' \/ Crash
<1> DEFINE old == slots["result"][k]
           new == slots'["result"][k]
<1>0. "result" \in Rings
  BY DEF Rings
<1>1. /\ old \in Entries
      /\ \/ new = old
         \/ SaveLot /\ holder.kind = "result" /\ k = index'["result"]
            /\ new.lot = holder.what.lot /\ new.no = old.no
         \/ SaveNumber /\ holder.kind = "result" /\ k = index["result"] /\ new = holder.what
         \/ new.lot = None /\ new.no = old.no
         \/ new.lot = old.lot /\ new.no = 0
  BY <1>0, SlotStep DEF FileInv
<1>2. \A m \in Modules : status[m] = "reported" => status'[m] = "reported"
  BY StatusStep
<1>3. SaveNumber /\ holder.kind = "result" => holder.what \in Modules
                                              /\ status[holder.what] = "reported"
  BY HolderShape DEF SaveNumber, FileInv, Once
<1>4. SaveNumber /\ holder.kind = "result" /\ new = holder.what => Clean(k)'
  BY <1>2, <1>3 DEF Clean
<1>5. ASSUME Clean(k)
      PROVE  Clean(k)' \/ (SaveLot /\ holder.kind = "result" /\ Half(k)')
  <2>1. CASE new = old
    BY <1>2, <1>5, <2>1 DEF Clean
  <2>2. CASE SaveLot /\ holder.kind = "result" /\ k = index'["result"]
    BY <2>2 DEF SaveLot, Half
  <2>3. CASE new.lot = None \/ new.no = 0
    BY <2>3 DEF Clean
  <2> QED
    BY <1>1, <1>4, <2>1, <2>2, <2>3
<1>6. ASSUME Half(k)
      PROVE  Half(k)' \/ Clean(k)' \/ Crash
  <2>1. step = "number" /\ holder.kind = "result" /\ k = index["result"]
    BY <1>6 DEF Half
  <2>2. CASE SaveNumber
    <3>1. new = holder.what
      BY <2>1, <2>2, SavedSlot DEF FileInv
    <3> QED
      BY <1>4, <2>1, <2>2, <3>1
  <2>3. CASE Other
    BY <2>1, <2>3, OtherStep DEF Half
  <2>4. ~SaveLot /\ ~ClearLot
    BY <2>1 DEF SaveLot, ClearLot
  <2> QED
    BY <2>2, <2>3, <2>4, Steps3
<1> QED
  BY <1>5, <1>6

LEMMA ResultStep ==
  ASSUME TypeOK, LockInv, RingInv, FileInv, [Next]_vars
  PROVE  ResultInv'
<1>0. "result" \in Rings
  BY DEF Rings
<1>1. \A m \in Modules : status[m] = "reported" => status'[m] = "reported"
  BY StatusStep
<1>2. ASSUME NEW k \in Slots
      PROVE  /\ \/ slots'["result"][k].lot = None
                \/ \E x \in Modules : status'[x] = "reported" /\ x.lot = slots'["result"][k].lot
             /\ \/ slots'["result"][k].no = 0
                \/ \E x \in Modules : status'[x] = "reported" /\ x.no = slots'["result"][k].no
  <2> DEFINE old == slots["result"][k]
             new == slots'["result"][k]
  <2>1. \/ new = old
        \/ SaveLot /\ holder.kind = "result" /\ k = index'["result"]
           /\ new.lot = holder.what.lot /\ new.no = old.no
        \/ SaveNumber /\ holder.kind = "result" /\ k = index["result"] /\ new = holder.what
        \/ new.lot = None /\ new.no = old.no
        \/ new.lot = old.lot /\ new.no = 0
    BY <1>0, SlotStep DEF FileInv
  <2>2. /\ old.lot = None \/ \E x \in Modules : status[x] = "reported" /\ x.lot = old.lot
        /\ old.no = 0 \/ \E x \in Modules : status[x] = "reported" /\ x.no = old.no
    BY DEF FileInv, ResultInv
  <2>3. (SaveLot \/ SaveNumber) /\ holder.kind = "result" =>
          holder.what \in Modules /\ status[holder.what] = "reported"
    BY HolderShape DEF SaveLot, SaveNumber, FileInv, Once
  <2> HIDE DEF old, new
  <2>4. /\ new.lot = None \/ \E x \in Modules : status[x] = "reported" /\ x.lot = new.lot
        /\ new.no = 0 \/ \E x \in Modules : status[x] = "reported" /\ x.no = new.no
    BY <2>1, <2>2, <2>3
  <2> QED
    BY <1>1, <2>4 DEF new
<1>3. ASSUME ~cut', NEW k \in Slots
      PROVE  Half(k)' \/ Clean(k)'
  <2>1. CASE Crash
    <3>1. ~cut /\ step # "number"
      BY <1>3, <2>1 DEF Crash
    <3>2. Clean(k)
      BY <3>1 DEF FileInv, ResultInv, Half
    <3> QED
      BY <2>1, <3>2, CleanStep
  <2>2. CASE ~Crash
    <3>1. cut' = cut
      <4>1. CASE SaveLot \/ SaveNumber \/ ClearLot
        BY <4>1 DEF SaveLot, SaveNumber, ClearLot
      <4>2. CASE Other
        BY <4>2, OtherStep
      <4> QED
        BY <2>2, <4>1, <4>2, Steps3
    <3>2. Half(k) \/ Clean(k)
      BY <1>3, <3>1 DEF FileInv, ResultInv
    <3> QED
      BY <2>2, <3>2, CleanStep
  <2> QED
    BY <2>1, <2>2
<1> QED
  BY <1>2, <1>3 DEF ResultInv, Half, Clean

LEMMA FileStep ==
  ASSUME TypeOK, LockInv, RingInv, FileInv, [Next]_vars
  PROVE  FileInv'
  BY HalfStep, PlacedStep, OnceStep, ResultStep DEF FileInv

-----------------------------------------------------------------------------
(* The reader.                                                             *)

\* A step of anything but the reader, while the program runs.
Outside == SaveLot \/ SaveNumber \/ ClearLot \/ (Other /\ ~ReaderStep)

LEMMA Steps4 ==
  ASSUME [Next]_vars
  PROVE  Outside \/ ReaderStep \/ Crash
  BY Steps3 DEF Outside

\* It leaves the reader alone, and the histories follow it.
LEMMA OutsideStep ==
  ASSUME TypeOK, LockInv, RingInv, Outside
  PROVE  /\ [Next]_vars /\ ~Crash
         /\ UNCHANGED <<reader, rt, starts>>
         /\ \A r \in Rings : \A m \in Modules : m \in steady'[r] =>
              m \in steady[r] /\ (recent'[r] = recent[r] \/ m \in Held(recent'[r]))
         /\ quiet' => quiet /\ ~(SaveLot /\ holder.kind = "result")
<1>1. steady \in [Rings -> SUBSET Modules]
  BY DEF TypeOK
<1>2. starts \in Nat
  BY DEF TypeOK
<1>3. ASSUME NEW q \in Rings,
             \A r \in Rings \ {q} : recent'[r] = recent[r],
             steady' = [steady EXCEPT ![q] = @ \cap Held(recent'[q])]
      PROVE  \A r \in Rings : \A m \in Modules : m \in steady'[r] =>
               m \in steady[r] /\ (recent'[r] = recent[r] \/ m \in Held(recent'[r]))
  BY <1>1, <1>3
<1>4. CASE SaveLot
  <2>1. \A r \in Rings : \A m \in Modules : m \in steady'[r] =>
          m \in steady[r] /\ (recent'[r] = recent[r] \/ m \in Held(recent'[r]))
    <3>1. PICK q \in Rings : q = holder.kind
      BY <1>4, HolderShape DEF SaveLot
    <3>2. /\ \A r \in Rings \ {q} : recent'[r] = recent[r]
          /\ steady' = [steady EXCEPT ![q] = @ \cap Held(recent'[q])]
      BY <1>4, <3>1, SaveLotRing
    <3> QED
      BY <1>3, <3>2
  <2>2. UNCHANGED <<reader, rt, starts>> /\ (quiet' => quiet /\ holder.kind # "result")
    BY <1>4 DEF SaveLot, handlerVars, readerVars
  <2> QED
    BY <1>2, <1>4, <2>1, <2>2 DEF Crash, Next, TaskStep
<1>5. CASE SaveNumber
  <2>1. \A r \in Rings : \A m \in Modules : m \in steady'[r] =>
          m \in steady[r] /\ (recent'[r] = recent[r] \/ m \in Held(recent'[r]))
    <3>1. PICK q \in Rings : q = holder.kind
      BY <1>5, HolderShape DEF SaveNumber
    <3>2. /\ \A r \in Rings \ {q} : recent'[r] = recent[r]
          /\ steady' = [steady EXCEPT ![q] = @ \cap Held(recent'[q])]
      BY <1>5, <3>1, SaveNumberRing
    <3> QED
      BY <1>3, <3>2
  <2>2. UNCHANGED <<reader, rt, starts, quiet>> /\ step = "number"
    BY <1>5 DEF SaveNumber, handlerVars, readerVars
  <2> QED
    BY <1>2, <1>5, <2>1, <2>2 DEF Crash, Next, TaskStep, SaveLot
<1>6. CASE ClearLot /\ slots[sweep.ring][sweep.slot].lot = holder.what
  <2>1. \A r \in Rings : \A m \in Modules : m \in steady'[r] =>
          m \in steady[r] /\ (recent'[r] = recent[r] \/ m \in Held(recent'[r]))
    <3>1. PICK q \in Rings : q = sweep.ring
      BY DEF TypeOK
    <3>2. /\ \A r \in Rings \ {q} : recent'[r] = recent[r]
          /\ steady' = [steady EXCEPT ![q] = @ \cap Held(recent'[q])]
      BY <1>6, <3>1, ClearLotRing
    <3> QED
      BY <1>3, <3>2
  <2>2. UNCHANGED <<reader, rt, starts, quiet>> /\ step = "find"
    BY <1>6 DEF ClearLot, handlerVars, readerVars
  <2> QED
    BY <1>2, <1>6, <2>1, <2>2 DEF Crash, Next, TaskStep, SaveLot
<1>7. CASE ClearLot /\ slots[sweep.ring][sweep.slot].lot # holder.what
  <2>1. UNCHANGED <<reader, rt, starts, quiet, recent, steady>> /\ step = "find"
    BY <1>7 DEF ClearLot, handlerVars, readerVars
  <2> QED
    BY <1>1, <1>2, <1>7, <2>1 DEF Crash, Next, TaskStep, SaveLot
<1>8. CASE Other /\ ~ReaderStep /\ ~ClearLot
  <2>1. UNCHANGED <<reader, rt, starts, recent, steady, quiet>>
    BY <1>8 DEF Other, ScanComplete, InspectComplete, LotEnd, Queue, SaveStart, ClearStart,
                SaveLast, ClearLast, ClearNumber, handlerVars, readerVars, historyVars, vars
  <2>2. ~SaveLot
    <3>1. index' = index /\ (step' = "number" => step = "number")
      BY <1>8, OtherStep
    <3> QED
      BY <3>1 DEF SaveLot
  <2>3. [Next]_vars
    BY <1>8 DEF Other, Next, TaskStep
  <2> QED
    BY <1>1, <1>2, <2>1, <2>2, <2>3 DEF Crash
<1> QED
  BY <1>4, <1>5, <1>6, <1>7, <1>8 DEF Outside

\* A save that ends is of no module the reader knows of.
LEMMA KnownStands ==
  ASSUME TypeOK, LockInv, RingInv, FileInv, ReadInv, Outside,
         NEW r \in Rings, NEW m \in Modules, NEW k \in Slots,
         m \in steady'[r], <<m, k>> \in Stands'[r]
  PROVE  m \in steady[r] /\ <<m, k>> \in Stands[r]
<1>1. m \in steady[r] /\ [Next]_vars
  BY OutsideStep
<1>2. <<m, k>> \in StandsIn(recent'[r])
  BY StandsShape
<1>3. \/ <<m, k>> \in StandsIn(recent[r])
      \/ SaveNumber /\ r = holder.kind /\ <<m, k>> = <<holder.what, index[r]>>
  BY <1>1, <1>2, StandsStep
<1>4. CASE SaveNumber /\ r = holder.kind /\ <<m, k>> = <<holder.what, index[r]>>
  <2>1. holder \in tasks /\ holder.kind = r /\ holder.what = m
    BY <1>4, HolderShape DEF SaveNumber
  <2>2. \E a \in Slots : <<m, a>> \in Stands[r]
    BY <1>1 DEF ReadInv, SteadyInv
  <2> QED
    BY <2>1, <2>2 DEF FileInv, Once
<1> QED
  BY <1>1, <1>3, <1>4, StandsShape

\* The steps of the reader behind LAST SCAN COMPLETE.
Scanning == ReadScanLot \/ ReadScanNumber \/ ReadResultLot \/ ReadResultNumber

\* It goes on to the next slot, or stays at this one.
LEMMA ScanningStep ==
  ASSUME TypeOK, Scanning
  PROVE  /\ UNCHANGED <<status, ended, lockVars, fileVars, starts, reloads, recent, cut>>
         /\ reader.at \in {"scan", "number", "search", "match"}
         /\ \/ ToSlot(reader.slot + 1)
            \/ /\ reader'.at \in {"number", "search", "match"}
               /\ reader'.slot = reader.slot
               /\ UNCHANGED <<rt, steady, quiet>>
<1>1. reader \in Readers
  BY DEF TypeOK
<1> QED
  BY <1>1 DEF Scanning, ReadScanLot, ReadScanNumber, ReadResultLot, ReadResultNumber,
              NotHere, Reading, ReadOnly, Readers

LEMMA ToSlotShape ==
  ASSUME NEW k, ToSlot(k)
  PROVE  /\ reader'.at \in {"scan", "off"} /\ reader'.in = 0
         /\ reader'.at = "scan" => reader'.slot = k /\ UNCHANGED <<steady, quiet>>
         /\ reader'.at = "off" => k = NumSlots /\ \A r \in Rings : steady'[r] = {}
<1>1. CASE reader' = [Idle EXCEPT !.at = "scan", !.slot = k] /\ UNCHANGED <<steady, quiet>>
  <2>1. reader'.at = "scan" /\ reader'.slot = k /\ reader'.in = 0
    BY <1>1 DEF Idle
  <2> QED
    BY <1>1, <2>1
<1>2. CASE k = NumSlots /\ reader' = Idle /\ steady' = [r \in Rings |-> {}]
  <2>1. reader'.at = "off" /\ reader'.in = 0
    BY <1>2 DEF Idle
  <2>2. \A r \in Rings : steady'[r] = {}
    BY <1>2
  <2> QED
    BY <1>2, <2>1, <2>2
<1> QED
  BY <1>1, <1>2 DEF ToSlot

LEMMA ReaderSteps ==
  ReaderStep <=> Reload \/ ReadLast \/ Scanning
  BY DEF ReaderStep, Scanning

\* What is behind the reader when it leaves a slot has been answered.
LEMMA Passed ==
  ASSUME TypeOK, LockInv, RingInv, FileInv, ReadInv, Scanning, ToSlot(reader.slot + 1),
         NEW m \in Due, NEW k \in Slots, <<m, k>> \in Stands["scan"], k <= reader.slot
  PROVE  m \in rt'
<1>1. m \in Modules /\ m \in steady["scan"] /\ Owed(m) /\ (quiet \/ m \notin Mixes)
  BY DEF Due
<1>2. /\ reader.at \in {"scan", "number", "search", "match"} /\ k < reader.slot => m \in rt
      /\ reader.at = "number" /\ k = reader.slot => reader.lot = m.lot
      /\ reader.at \in {"search", "match"} /\ k = reader.slot => reader.seek = m
  BY <1>1 DEF ReadInv, Met
<1>3. rt \subseteq rt'
  BY DEF Scanning, ReadScanLot, ReadScanNumber, ReadResultLot, ReadResultNumber, NotHere
<1>4. reader.at \in {"scan", "number", "search", "match"}
  BY ScanningStep
<1>5. reader'.at \in {"scan", "off"}
  BY ToSlotShape
<1>6. reader \in Readers /\ reader.slot \in Nat /\ k \in Nat /\ "scan" \in Rings
  BY SlotsAssumption DEF TypeOK, Readers, Slots, Rings
<1>7. slots["scan"][k] = m /\ m.lot # None /\ Legible(m) /\ m = [lot |-> m.lot, no |-> m.no]
  BY <1>1, <1>6, ModuleShape DEF FileInv, Placed
<1>8. CASE k < reader.slot
  BY <1>2, <1>3, <1>4, <1>8
<1>9. CASE k = reader.slot
  <2>1. CASE ReadScanLot
    BY <1>5, <1>6, <1>7, <1>9, <2>1 DEF ReadScanLot, Readers
  <2>2. CASE ReadScanNumber
    <3>1. reader.lot = m.lot
      BY <1>2, <1>9, <2>2 DEF ReadScanNumber, Reading
    <3>2. [lot |-> reader.lot, no |-> slots["scan"][reader.slot].no] = m
      BY <1>7, <1>9, <3>1
    <3> QED
      BY <1>5, <1>6, <1>7, <2>2, <3>2 DEF ReadScanNumber, Readers
  <2>3. CASE (ReadResultLot \/ ReadResultNumber) /\ NotHere
    <3>1. reader.seek = m
      BY <1>2, <1>9, <2>3 DEF ReadResultLot, ReadResultNumber, Reading
    <3>2. rt' = rt \cup ({reader.seek} \cap Modules)
      BY <1>5, <1>6, <2>3 DEF NotHere, Readers
    <3> QED
      BY <1>1, <3>1, <3>2
  <2>4. CASE ReadResultLot /\ ~NotHere
    BY <1>5, <1>6, <2>4 DEF ReadResultLot, Readers
  <2>5. CASE ReadResultNumber /\ ~NotHere
    <3>1. reader.seek = m /\ reader.at = "match"
      BY <1>2, <1>9, <2>5 DEF ReadResultNumber, Reading
    <3>2. slots["result"][reader.in].no = m.no
      BY <2>5, <3>1 DEF ReadResultNumber
    <3>3. m.no # 0 /\ status[m] # "reported" /\ reader.in \in Slots
      BY <1>1, <1>6, <1>7 DEF Legible, Owed, Readers
    <3>4. CASE quiet
      <4>1. PICK x \in Modules : status[x] = "reported" /\ x.lot = m.lot /\ x.no = m.no
        BY <3>1, <3>2, <3>3, <3>4 DEF ReadInv, MatchInv
      <4>2. x = m
        BY <1>7, <4>1, ModuleShape
      <4> QED
        BY <3>3, <4>1, <4>2
    <3>5. CASE m \notin Mixes
      <4>1. PICK x \in Modules : status[x] = "reported" /\ x.lot = m.lot
        BY <3>1 DEF ReadInv, MatchInv
      <4>2. PICK y \in Modules : status[y] = "reported" /\ y.no = m.no
        BY <3>2, <3>3 DEF FileInv, ResultInv
      <4>3. [lot |-> x.lot, no |-> y.no] = m
        BY <1>7, <4>1, <4>2
      <4>4. m \in Mixes
        BY <4>1, <4>2, <4>3 DEF Mixes
      <4> QED
        BY <3>5, <4>4
    <3> QED
      BY <1>1, <3>4, <3>5
  <2> QED
    BY <2>1, <2>2, <2>3, <2>4, <2>5 DEF Scanning
<1> QED
  BY <1>6, <1>8, <1>9

LEMMA SteadyStep ==
  ASSUME TypeOK, LockInv, RingInv, FileInv, ReadInv, [Next]_vars
  PROVE  SteadyInv'
<1>1. ASSUME NEW r \in Rings, NEW m \in Modules, m \in steady'[r]
      PROVE  \E k \in Slots : <<m, k>> \in Stands'[r]
  <2>1. recent[r] \in Seq(Saves) /\ recent'[r] \in Seq(Saves)
    BY RingStep, TypedRing DEF HistoryOK
  <2>2. CASE Outside
    <3>1. m \in steady[r] /\ (recent'[r] = recent[r] \/ m \in Held(recent'[r]))
      BY <1>1, <2>2, OutsideStep
    <3>2. CASE recent'[r] = recent[r]
      <4>1. Stands'[r] = Stands[r]
        BY <3>2, StandsShape
      <4> QED
        BY <3>1, <4>1 DEF ReadInv, SteadyInv
    <3>3. CASE m \in Held(recent'[r])
      BY <2>1, <3>3, HeldStands, StandsShape
    <3> QED
      BY <3>1, <3>2, <3>3
  <2>3. CASE Crash
    BY <1>1, <2>3 DEF Crash
  <2>4. CASE ReaderStep
    <3>1. recent'[r] = recent[r]
      BY <2>4, ReaderTypes
    <3>2. Stands'[r] = Stands[r]
      BY <3>1, StandsShape
    <3>3. CASE m \in steady[r]
      BY <3>2, <3>3 DEF ReadInv, SteadyInv
    <3>4. CASE m \notin steady[r]
      <4>1. CASE Reload
        <5>1. m \in Held(recent[r])
          BY <1>1, <3>4, <4>1 DEF Reload
        <5> QED
          BY <2>1, <3>2, <5>1, HeldStands, StandsShape
      <4>2. CASE ReadLast \/ Scanning
        <5>1. \/ UNCHANGED steady
              \/ \E k \in Nat : ToSlot(k)
          <6>1. reader.slot + 1 \in Nat /\ NumSlots \in Nat /\ 0 \in Nat
            BY SlotsAssumption DEF TypeOK, Readers, Slots
          <6>2. CASE ReadLast
            BY <6>1, <6>2 DEF ReadLast
          <6>3. CASE Scanning
            BY <6>1, <6>3, ScanningStep
          <6> QED
            BY <4>2, <6>2, <6>3
        <5>2. CASE \E k \in Nat : ToSlot(k)
          <6>1. UNCHANGED steady \/ steady'[r] = {}
            BY <5>2, ToSlotShape
          <6> QED
            BY <1>1, <3>4, <6>1
        <5> QED
          BY <1>1, <3>4, <5>1, <5>2
      <4> QED
        BY <2>4, <4>1, <4>2, ReaderSteps
    <3> QED
      BY <3>3, <3>4
  <2> QED
    BY <2>2, <2>3, <2>4, Steps4
<1>2. ASSUME reader'.at # "off", quiet', NEW k \in Slots
      PROVE  Clean(k)' /\ ~Half(k)'
  <2>1. CASE Outside
    <3>1. /\ reader' = reader /\ quiet /\ ~(SaveLot /\ holder.kind = "result")
          /\ ~Crash
      BY <1>2, <2>1, OutsideStep
    <3>2. Clean(k) /\ ~Half(k)
      BY <1>2, <3>1 DEF ReadInv, SteadyInv
    <3>3. Clean(k)'
      BY <3>1, <3>2, CleanStep
    <3>4. ~Half(k)'
      <4>1. CASE SaveLot
        BY <3>1, <4>1 DEF SaveLot, Half
      <4>2. CASE SaveNumber \/ (ClearLot /\ slots[sweep.ring][sweep.slot].lot = holder.what)
        BY <4>2 DEF SaveNumber, Unlock, ClearLot, SweepOn, Half
      <4>3. CASE Other
        BY <3>2, <4>3, OtherStep DEF Half
      <4> QED
        BY <2>1, <3>1, <4>1, <4>2, <4>3, Steps3
    <3> QED
      BY <3>3, <3>4
  <2>2. CASE Crash
    BY <1>2, <2>2 DEF Crash, Idle
  <2>3. CASE ReaderStep
    <3>1. UNCHANGED <<status, tasks, holder, step, index, slots>>
      BY <2>3, ReaderTypes DEF lockVars, fileVars
    <3>2. Clean(k) /\ ~Half(k)
      <4>1. CASE reader.at # "off" /\ quiet
        BY <4>1 DEF ReadInv, SteadyInv
      <4>2. CASE Reload
        <5>1. reader.at = "off" /\ reader' # reader
          BY <1>2, <4>2 DEF Reload, Reading
        <5>2. ~cut /\ ~(step = "number" /\ holder.kind = "result")
          BY <1>2, <4>2, <5>1 DEF Reload
        <5> QED
          BY <5>2 DEF FileInv, ResultInv, Half
      <4>3. CASE ReadLast
        <5>1. ToSlot(0) \/ ToSlot(NumSlots)
          BY <4>3 DEF ReadLast
        <5>2. reader.at # "off" /\ UNCHANGED quiet
          BY <1>2, <4>3, <5>1, ToSlotShape DEF ReadLast, Reading
        <5> QED
          BY <1>2, <4>1, <5>2
      <4>4. CASE Scanning
        <5>1. reader.at # "off" /\ (UNCHANGED quiet \/ ToSlot(reader.slot + 1))
          BY <4>4, ScanningStep
        <5>2. UNCHANGED quiet
          BY <1>2, <5>1, ToSlotShape
        <5> QED
          BY <1>2, <4>1, <5>1, <5>2
      <4> QED
        BY <2>3, <4>2, <4>3, <4>4, ReaderSteps
    <3> QED
      BY <3>1, <3>2 DEF Clean, Half
  <2> QED
    BY <2>1, <2>2, <2>3, Steps4
<1> QED
  BY <1>1, <1>2 DEF SteadyInv, Clean, Half

\* The search finds that the slot it is at holds another entry.
Missed ==
  /\ NotHere
  /\ \/ ReadResultLot /\ slots["result"][reader.in].lot # reader.seek.lot
     \/ ReadResultNumber /\ slots["result"][reader.in].no # reader.seek.no

LEMMA MissedSlot ==
  ASSUME FileInv, Missed,
         NEW m \in Modules, m = reader.seek, NEW k \in Slots, <<m, k>> \in Stands["result"]
  PROVE  k # reader.in
<1>1. "result" \in Rings
  BY DEF Rings
<1>2. slots["result"][k] = m
  BY <1>1 DEF FileInv, Placed
<1> QED
  BY <1>2 DEF Missed

\* What a step of the search comes to.
LEMMA SearchStep ==
  ASSUME TypeOK, ReadResultLot \/ ReadResultNumber
  PROVE  /\ reader.at \in {"search", "match"}
         /\ \/ Missed
            \/ /\ ReadResultLot /\ UNCHANGED <<rt, steady, quiet>>
               /\ slots["result"][reader.in].lot = reader.seek.lot
               /\ reader' = [reader EXCEPT !.at = "match"]
            \/ /\ ReadResultNumber /\ ToSlot(reader.slot + 1) /\ UNCHANGED rt
  BY DEF Missed, ReadResultLot, ReadResultNumber, Reading

LEMMA AheadStep ==
  ASSUME TypeOK, LockInv, RingInv, FileInv, ReadInv, [Next]_vars
  PROVE  Ahead'
<1>1. "result" \in Rings /\ reader \in Readers /\ reader.in \in Nat
      /\ \A k \in Slots : k \in Nat
  BY SlotsAssumption DEF Rings, TypeOK, Readers, Slots
<1>2. /\ reader.at \in {"scan", "number"} => reader.in = 0
      /\ reader.at \in {"search", "match"} =>
           \A m \in Modules : \A k \in Slots :
             m = reader.seek /\ m \in steady["result"] /\ <<m, k>> \in Stands["result"]
               => reader.in <= k
  BY DEF ReadInv, Ahead
<1>3. ASSUME reader'.at \in {"scan", "number"}
      PROVE  reader'.in = 0
  <2>1. CASE Outside
    BY <1>2, <1>3, <2>1, OutsideStep
  <2>2. CASE Crash
    BY <1>3, <2>2 DEF Crash, Idle
  <2>3. CASE Reload
    BY <1>2, <1>3, <2>3 DEF Reload, Idle
  <2>4. CASE ReadLast
    BY <2>4, ToSlotShape DEF ReadLast
  <2>5. CASE ReadScanLot
    <3>1. CASE ToSlot(reader.slot + 1)
      BY <3>1, ToSlotShape
    <3>2. CASE reader.at = "scan"
               /\ reader' = [reader EXCEPT !.at = "number",
                                           !.lot = slots["scan"][reader.slot].lot]
      BY <1>1, <1>2, <3>2 DEF Readers
    <3> QED
      BY <2>5, <3>1, <3>2 DEF ReadScanLot, Reading
  <2>6. CASE ReadScanNumber
    <3>1. ToSlot(reader.slot + 1) \/ reader'.at = "search"
      BY <1>1, <2>6 DEF ReadScanNumber, Readers
    <3> QED
      BY <1>3, <3>1, ToSlotShape
  <2>7. CASE ReadResultLot \/ ReadResultNumber
    <3>1. ToSlot(reader.slot + 1) \/ reader'.at \in {"search", "match"}
      BY <1>1, <2>7 DEF ReadResultLot, ReadResultNumber, NotHere, Readers
    <3> QED
      BY <1>3, <3>1, ToSlotShape
  <2> QED
    BY <2>1, <2>2, <2>3, <2>4, <2>5, <2>6, <2>7, Steps4 DEF ReaderStep
<1>4. ASSUME reader'.at \in {"search", "match"}, NEW m \in Modules, NEW k \in Slots,
             m = reader'.seek, m \in steady'["result"], <<m, k>> \in Stands'["result"]
      PROVE  reader'.in <= k
  <2>1. CASE Outside
    <3>1. m \in steady["result"] /\ <<m, k>> \in Stands["result"] /\ reader' = reader
      BY <1>1, <1>4, <2>1, KnownStands, OutsideStep
    <3> QED
      BY <1>2, <1>4, <3>1
  <2>2. CASE Crash
    BY <1>4, <2>2 DEF Crash, Idle
  <2>3. CASE Reload
    <3>1. reader'.at \in {reader.at, "last"} /\ reader.at = "off"
      BY <2>3 DEF Reload, Reading, Idle
    <3> QED
      BY <1>4, <3>1
  <2>4. CASE ReadLast
    BY <1>4, <2>4, ToSlotShape DEF ReadLast
  <2>5. CASE Scanning
    <3>1. /\ recent' = recent
          /\ UNCHANGED <<rt, steady, quiet>>
      BY <1>4, <2>5, ScanningStep, ToSlotShape
    <3>2. <<m, k>> \in Stands["result"] /\ m \in steady["result"]
      BY <1>1, <1>4, <3>1, StandsShape
    <3>3. CASE ReadScanLot
      BY <1>1, <1>4, <3>3, ToSlotShape DEF ReadScanLot, Readers
    <3>4. CASE ReadScanNumber
      <4>1. reader.at = "number" /\ reader'.in = reader.in
        BY <1>1, <1>4, <3>4, ToSlotShape DEF ReadScanNumber, Reading, Readers
      <4> QED
        BY <1>1, <1>2, <4>1
    <3>5. CASE ReadResultLot \/ ReadResultNumber
      <4>1. reader.at \in {"search", "match"}
        BY <3>5, SearchStep
      <4>2. CASE Missed
        <5>1. reader' = [reader EXCEPT !.at = "search", !.in = @ + 1]
          BY <1>4, <4>2, ToSlotShape DEF Missed, NotHere
        <5>2. reader'.in = reader.in + 1 /\ reader.seek = m
          BY <1>1, <1>4, <5>1 DEF Readers
        <5>3. reader.in <= k /\ k # reader.in
          BY <1>2, <3>2, <4>1, <4>2, <5>2, MissedSlot
        <5> QED
          BY <1>1, <5>2, <5>3
      <4>3. CASE reader' = [reader EXCEPT !.at = "match"]
        <5>1. reader'.in = reader.in /\ reader'.seek = reader.seek
          BY <1>1, <4>3 DEF Readers
        <5> QED
          BY <1>2, <1>4, <3>2, <4>1, <5>1
      <4>4. CASE ToSlot(reader.slot + 1)
        BY <1>4, <4>4, ToSlotShape
      <4> QED
        BY <3>5, <4>2, <4>3, <4>4, SearchStep
    <3> QED
      BY <2>5, <3>3, <3>4, <3>5 DEF Scanning
  <2> QED
    BY <2>1, <2>2, <2>3, <2>4, <2>5, Steps4, ReaderSteps
<1> QED
  BY <1>3, <1>4 DEF Ahead

LEMMA MatchStep ==
  ASSUME TypeOK, LockInv, RingInv, FileInv, ReadInv, [Next]_vars
  PROVE  MatchInv'
<1>1. "result" \in Rings /\ reader \in Readers /\ reader.in \in Slots
  BY DEF Rings, TypeOK, Readers
<1>2. \A x \in Modules : status[x] = "reported" => status'[x] = "reported"
  BY StatusStep
<1>3. CASE Outside
  <2>1. /\ reader' = reader
        /\ quiet' => quiet /\ ~(SaveLot /\ holder.kind = "result")
    BY <1>3, OutsideStep
  <2>2. ASSUME reader.at = "match", quiet'
        PROVE  \/ slots'["result"][reader.in].no = 0
               \/ \E x \in Modules : /\ status[x] = "reported"
                                     /\ x.lot = reader.seek.lot
                                     /\ x.no = slots'["result"][reader.in].no
    <3> DEFINE old == slots["result"][reader.in]
               new == slots'["result"][reader.in]
    <3>1. \/ new = old
          \/ SaveLot /\ holder.kind = "result" /\ reader.in = index'["result"]
             /\ new.lot = holder.what.lot /\ new.no = old.no
          \/ SaveNumber /\ holder.kind = "result" /\ reader.in = index["result"]
             /\ new = holder.what
          \/ new.lot = None /\ new.no = old.no
          \/ new.lot = old.lot /\ new.no = 0
      BY <1>1, SlotStep DEF FileInv
    <3>2. ~(SaveNumber /\ holder.kind = "result" /\ reader.in = index["result"])
      BY <1>1, <2>1, <2>2 DEF ReadInv, SteadyInv, Half, SaveNumber
    <3>3. new.no = old.no \/ new.no = 0
      BY <3>1, <3>2
    <3>4. \/ old.no = 0
          \/ \E x \in Modules : /\ status[x] = "reported"
                                /\ x.lot = reader.seek.lot
                                /\ x.no = old.no
      BY <2>1, <2>2 DEF ReadInv, MatchInv
    <3> HIDE DEF old, new
    <3>5. \/ new.no = 0
          \/ \E x \in Modules : /\ status[x] = "reported"
                                /\ x.lot = reader.seek.lot
                                /\ x.no = new.no
      BY <3>3, <3>4
    <3> QED
      BY <3>5 DEF new
  <2>3. /\ reader.at \in {"search", "match"} => Legible(reader.seek)
        /\ reader.at = "match" =>
             \E x \in Modules : status[x] = "reported" /\ x.lot = reader.seek.lot
    BY DEF ReadInv, MatchInv
  <2> QED
    BY <1>2, <2>1, <2>2, <2>3 DEF MatchInv, Legible
<1>4. CASE Crash
  BY <1>4 DEF Crash, Idle, MatchInv
<1>5. CASE Reload
  <2>1. reader'.at \in {reader.at, "last"} /\ reader.at = "off"
    BY <1>5 DEF Reload, Reading, Idle
  <2> QED
    BY <2>1 DEF MatchInv
<1>6. CASE ReadLast
  <2>1. reader'.at \in {"scan", "off"}
    BY <1>6, ToSlotShape DEF ReadLast
  <2> QED
    BY <2>1 DEF MatchInv
<1>7. CASE Scanning
  <2>1. CASE ToSlot(reader.slot + 1)
    <3>1. reader'.at \in {"scan", "off"}
      BY <2>1, ToSlotShape
    <3> QED
      BY <3>1 DEF MatchInv
  <2>2. CASE ReadScanLot /\ ~ToSlot(reader.slot + 1)
    <3>1. reader'.at = "number"
      BY <1>1, <2>2 DEF ReadScanLot, Readers
    <3> QED
      BY <3>1 DEF MatchInv
  <2>3. CASE ReadScanNumber /\ ~ToSlot(reader.slot + 1)
    <3> DEFINE e == [lot |-> reader.lot, no |-> slots["scan"][reader.slot].no]
    <3>1. Legible(e) /\ reader' = [reader EXCEPT !.at = "search", !.lot = None, !.seek = e]
      BY <2>3 DEF ReadScanNumber
    <3> HIDE DEF e
    <3>2. reader'.at = "search" /\ reader'.seek = e
      BY <1>1, <3>1 DEF Readers
    <3> QED
      BY <3>1, <3>2 DEF MatchInv, Legible
  <2>4. CASE Missed /\ ~ToSlot(reader.slot + 1)
    <3>1. reader' = [reader EXCEPT !.at = "search", !.in = @ + 1]
      BY <2>4 DEF Missed, NotHere
    <3>2. reader'.at = "search" /\ reader'.seek = reader.seek
      BY <1>1, <3>1 DEF Readers
    <3>3. reader.at \in {"search", "match"}
      BY <2>4, SearchStep DEF Missed
    <3> QED
      BY <3>2, <3>3 DEF MatchInv, ReadInv, Legible
  <2>5. CASE /\ ReadResultLot /\ UNCHANGED <<rt, steady, quiet>>
             /\ slots["result"][reader.in].lot = reader.seek.lot
             /\ reader' = [reader EXCEPT !.at = "match"]
    <3>1. /\ reader'.at = "match" /\ reader'.seek = reader.seek /\ reader'.in = reader.in
          /\ reader.at = "search" /\ quiet' = quiet
      BY <1>1, <2>5 DEF Readers, ReadResultLot, Reading
    <3>2. slots' = slots /\ status' = status
      BY <1>7, ScanningStep DEF fileVars
    <3>3. Legible(reader.seek)
      BY <3>1 DEF ReadInv, MatchInv
    <3>4. reader.seek.lot # None
      BY <3>3 DEF Legible
    <3>5. \E x \in Modules : status[x] = "reported" /\ x.lot = reader.seek.lot
      BY <1>1, <2>5, <3>4 DEF FileInv, ResultInv
    <3>6. ASSUME quiet
          PROVE  \/ slots["result"][reader.in].no = 0
                 \/ \E x \in Modules : /\ status[x] = "reported"
                                       /\ x.lot = reader.seek.lot
                                       /\ x.no = slots["result"][reader.in].no
      <4>1. Clean(reader.in)
        BY <1>1, <3>1, <3>6 DEF ReadInv, SteadyInv
      <4> QED
        BY <2>5, <3>4, <4>1 DEF Clean
    <3> QED
      BY <3>1, <3>2, <3>3, <3>5, <3>6 DEF MatchInv, Legible
  <2> QED
    BY <1>7, <2>1, <2>2, <2>3, <2>4, <2>5, SearchStep DEF Scanning
<1> QED
  BY <1>3, <1>4, <1>5, <1>6, <1>7, Steps4, ReaderSteps

\* Nothing comes to be due while the reader is on its way.
LEMMA DueStep ==
  ASSUME TypeOK, LockInv, RingInv, FileInv, ReadInv, Outside, NEW m \in Due'
  PROVE  m \in Due
<1>1. m \in Modules /\ m \in steady'["scan"] /\ Owed(m)' /\ (quiet' \/ m \notin Mixes')
  BY DEF Due
<1>2. "scan" \in Rings /\ [Next]_vars /\ ~Crash
  BY OutsideStep DEF Rings
<1>3. m \in steady["scan"] /\ (quiet' => quiet)
  BY <1>1, <1>2, OutsideStep
<1>4. Owed(m)
  <2>1. Owed(m) \/ status[m] = "new"
    BY <1>1, <1>2, StatusStep
  <2>2. \E k \in Slots : <<m, k>> \in Stands["scan"]
    BY <1>1, <1>2, <1>3 DEF ReadInv, SteadyInv
  <2>3. status[m] # "new"
    BY <1>1, <2>2 DEF FileInv, Once
  <2> QED
    BY <2>1, <2>3
<1>5. ASSUME m \in Mixes
      PROVE  m \in Mixes'
  <2>1. PICK x \in Modules, y \in Modules :
          /\ status[x] = "reported" /\ status[y] = "reported"
          /\ m = [lot |-> x.lot, no |-> y.no]
    BY <1>5 DEF Mixes
  <2>2. status'[x] = "reported" /\ status'[y] = "reported"
    BY <1>2, <2>1, StatusStep
  <2>3. [lot |-> x.lot, no |-> y.no] = m
    BY <2>1
  <2>4. m \in {[lot |-> a.lot, no |-> b.no] :
                a, b \in {n \in Modules : status'[n] = "reported"}}
    BY <2>2, <2>3
  <2>5. Mixes' = {[lot |-> a.lot, no |-> b.no] :
                a, b \in {n \in Modules : status'[n] = "reported"}}
    BY DEF Mixes
  <2> QED
    BY <2>4, <2>5
<1> QED
  BY <1>1, <1>3, <1>4, <1>5 DEF Due

LEMMA MetStep ==
  ASSUME TypeOK, LockInv, RingInv, FileInv, ReadInv, [Next]_vars
  PROVE  Met'
<1>1. "scan" \in Rings /\ reader \in Readers /\ reader.slot \in Nat
      /\ \A k \in Slots : k \in Nat
  BY SlotsAssumption DEF Rings, TypeOK, Readers, Slots
<1>2. ASSUME NEW m \in Modules, NEW k \in Slots, m \in Due, <<m, k>> \in Stands["scan"]
      PROVE  /\ reader.at \in {"scan", "number", "search", "match"} /\ k < reader.slot => m \in rt
             /\ reader.at = "number" /\ k = reader.slot => reader.lot = m.lot
             /\ reader.at \in {"search", "match"} /\ k = reader.slot => reader.seek = m
             /\ slots["scan"][k] = m
  BY <1>1, <1>2 DEF ReadInv, Met, FileInv, Placed
<1>3. SUFFICES ASSUME NEW m \in Modules, NEW k \in Slots, m \in Due', <<m, k>> \in Stands'["scan"]
      PROVE  /\ reader'.at \in {"scan", "number", "search", "match"} /\ k < reader'.slot
                  => m \in rt'
             /\ reader'.at = "number" /\ k = reader'.slot => reader'.lot = m.lot
             /\ reader'.at \in {"search", "match"} /\ k = reader'.slot => reader'.seek = m
  BY DEF Met
<1>4. CASE Outside
  <2>1. m \in Due /\ m \in steady'["scan"]
    BY <1>3, <1>4, DueStep DEF Due
  <2>2. <<m, k>> \in Stands["scan"]
    BY <1>1, <1>3, <1>4, <2>1, KnownStands
  <2>3. reader' = reader /\ rt' = rt
    BY <1>4, OutsideStep
  <2> QED
    BY <1>2, <2>1, <2>2, <2>3
<1>5. CASE Crash
  BY <1>5 DEF Crash, Idle
<1>6. CASE Reload
  <2>1. reader'.at \in {"off", "last"}
    BY <1>6 DEF Reload, Reading, Idle
  <2> QED
    BY <2>1
<1>7. CASE ReadLast
  <2>1. ToSlot(0) \/ ToSlot(NumSlots)
    BY <1>7 DEF ReadLast
  <2>2. reader'.at = "off" \/ (reader'.at = "scan" /\ reader'.slot = 0)
    <3>1. reader'.at = "scan" => reader'.slot = 0
      <4>1. CASE ToSlot(0)
        BY <4>1, ToSlotShape
      <4>2. CASE ToSlot(NumSlots)
        <5>1. ~(NumSlots < NumSlots)
          BY SlotsAssumption
        <5> QED
          BY <4>2, <5>1 DEF ToSlot, Idle
      <4> QED
        BY <2>1, <4>1, <4>2
    <3> QED
      BY <2>1, <3>1, ToSlotShape
  <2>3. ~(k < 0)
    BY <1>1
  <2> QED
    BY <2>2, <2>3
<1>8. CASE Scanning
  <2>1. /\ UNCHANGED <<status, recent, slots>>
        /\ reader.at \in {"scan", "number", "search", "match"}
    BY <1>8, ScanningStep DEF fileVars
  <2>2. <<m, k>> \in Stands["scan"]
    BY <1>1, <1>3, <2>1, StandsShape
  <2>3. reader'.at = "off" \/ UNCHANGED <<steady, quiet>>
    BY <1>8, ScanningStep, ToSlotShape
  <2>4. reader'.at = "off" \/ m \in Due
    BY <1>3, <2>1, <2>3 DEF Due, Owed, Mixes
  <2>5. CASE ToSlot(reader.slot + 1)
    <3>1. reader'.at = "off" \/ (reader'.at = "scan" /\ reader'.slot = reader.slot + 1)
      BY <2>5, ToSlotShape
    <3>2. ASSUME reader'.at = "scan", k < reader'.slot
          PROVE  m \in rt'
      <4>1. k <= reader.slot
        BY <1>1, <3>1, <3>2
      <4> QED
        BY <1>8, <2>2, <2>4, <2>5, <3>2, <4>1, Passed
    <3> QED
      BY <3>1, <3>2
  <2>6. CASE ~ToSlot(reader.slot + 1)
    <3>1. /\ reader'.at \in {"number", "search", "match"}
          /\ reader'.slot = reader.slot /\ rt' = rt
      BY <1>8, <2>6, ScanningStep
    <3>2. m \in Due
      BY <2>4, <3>1
    <3>3. k < reader.slot => m \in rt
      BY <1>2, <2>1, <2>2, <3>2
    <3>4. ASSUME k = reader.slot
          PROVE  /\ reader'.at = "number" => reader'.lot = m.lot
                 /\ reader'.at \in {"search", "match"} => reader'.seek = m
      <4>1. slots["scan"][k] = m /\ m = [lot |-> m.lot, no |-> m.no]
        BY <1>2, <2>2, <3>2, ModuleShape
      <4>2. CASE ReadScanLot
        <5>1. reader' = [reader EXCEPT !.at = "number", !.lot = slots["scan"][reader.slot].lot]
          BY <2>6, <4>2 DEF ReadScanLot
        <5> QED
          BY <1>1, <3>4, <4>1, <5>1 DEF Readers
      <4>3. CASE ReadScanNumber
        <5>1. reader.lot = m.lot
          BY <1>2, <2>2, <3>2, <3>4, <4>3 DEF ReadScanNumber, Reading
        <5>2. [lot |-> reader.lot, no |-> slots["scan"][reader.slot].no] = m
          BY <3>4, <4>1, <5>1
        <5>3. reader' = [reader EXCEPT !.at = "search", !.lot = None, !.seek = m]
          BY <2>6, <4>3, <5>2 DEF ReadScanNumber
        <5> QED
          BY <1>1, <5>3 DEF Readers
      <4>4. CASE ReadResultLot \/ ReadResultNumber
        <5>1. reader.at \in {"search", "match"}
          BY <4>4, SearchStep
        <5>2. reader.seek = m
          BY <1>2, <2>2, <3>2, <3>4, <5>1
        <5>3. \/ reader' = [reader EXCEPT !.at = "search", !.in = @ + 1]
              \/ reader' = [reader EXCEPT !.at = "match"]
          BY <2>6, <4>4, SearchStep DEF Missed, NotHere
        <5> QED
          BY <1>1, <5>2, <5>3 DEF Readers
      <4> QED
        BY <1>8, <4>2, <4>3, <4>4 DEF Scanning
    <3> QED
      BY <3>1, <3>3, <3>4
  <2> QED
    BY <2>5, <2>6
<1> QED
  BY <1>4, <1>5, <1>6, <1>7, <1>8, Steps4, ReaderSteps

-----------------------------------------------------------------------------
(* Theorems.                                                               *)

LEMMA InitIInv == Init => IInv
<1> SUFFICES ASSUME Init
             PROVE  IInv
  OBVIOUS
<1>1. /\ index = [r \in Rings |-> 0] /\ slots = [r \in Rings |-> [k \in Slots |-> Blank]]
      /\ recent = [r \in Rings |-> <<>>] /\ steady = [r \in Rings |-> {}]
      /\ reader = Idle /\ tasks = {} /\ step = "none" /\ holder = None /\ starts = 1
      /\ "scan" \in Rings /\ "result" \in Rings
  BY DEF Init, Rings
<1>2. TypeOK
  <2>1. Idle \in Readers /\ First \in [ring : Rings, slot : Slots]
    BY SlotsNotEmpty, BlankShape DEF Idle, Readers, First, Rings
  <2>2. /\ recent \in [Rings -> Seq(Saves)]
        /\ \A r \in Rings : Len(recent[r]) <= NumSlots
    <3>1. <<>> \in Seq(Saves) /\ Len(<<>>) = 0 /\ 0 <= NumSlots
      BY SlotsAssumption
    <3> QED
      BY <1>1, <3>1
  <2>3. /\ index \in [Rings -> Slots] /\ slots \in [Rings -> [Slots -> Entries]]
        /\ steady \in [Rings -> SUBSET Modules] /\ lastScan \in Entries
    BY <1>1, SlotsNotEmpty, BlankShape DEF Init
  <2>4. starts \in 1 .. MaxStarts /\ reloads \in 0 .. MaxReloads
    BY StartsAssumption, ReloadsAssumption DEF Init
  <2>5. /\ status \in [Modules -> Statuses] /\ rt \subseteq Modules /\ ended \subseteq Lots
        /\ tasks \subseteq Tasks /\ holder \in tasks \cup {None} /\ step \in Steps
        /\ quiet \in BOOLEAN /\ cut \in BOOLEAN
    BY DEF Init, Statuses, Steps
  <2> QED
    BY <1>1, <2>1, <2>2, <2>3, <2>4, <2>5 DEF TypeOK, Init
<1>3. LockInv
  BY <1>1 DEF LockInv
<1>4. RingInv
  <2>1. DOMAIN <<>> = {}
    OBVIOUS
  <2>2. Spread(<<>>) /\ \A k : Trail(<<>>, k, 1)
    BY <2>1 DEF Spread, Trail
  <2> QED
    BY <1>1, <2>2 DEF RingInv
<1>5. \A r \in Rings : Stands[r] = {}
  <2>1. StandsIn(<<>>) = {}
    BY DEF StandsIn
  <2> QED
    BY <1>1, <2>1, StandsShape
<1>6. FileInv
  <2>1. HalfInv /\ Placed /\ Once
    BY <1>1, <1>5 DEF HalfInv, Placed, Once
  <2>2. \A k \in Slots : slots["result"][k].lot = None /\ slots["result"][k].no = 0
    BY <1>1 DEF Blank
  <2>3. ResultInv
    BY <2>2 DEF ResultInv, Clean
  <2> QED
    BY <2>1, <2>3 DEF FileInv
<1>7. ReadInv
  <2>1. reader.at = "off"
    BY <1>1 DEF Idle
  <2>2. \A r \in Rings : steady[r] = {}
    BY <1>1
  <2> QED
    BY <1>5, <2>1, <2>2, <1>1 DEF ReadInv, SteadyInv, Ahead, MatchInv, Met
<1> QED
  BY <1>2, <1>3, <1>4, <1>6, <1>7 DEF IInv

LEMMA NextIInv == IInv /\ [Next]_vars => IInv'
  BY TypeStep, LockStep, RingStep, FileStep, SteadyStep, AheadStep, MatchStep, MetStep
  DEF IInv, ReadInv

THEOREM StatusInvariant == Spec => []IInv
<1>1. Init => IInv
  BY InitIInv
<1>2. IInv /\ [Next]_vars => IInv'
  BY NextIInv
<1> QED
  BY <1>1, <1>2, PTL DEF Spec

\* Every value the status file, the rings and the reader take has its type.
THEOREM StatusTypeCorrect == Spec => []TypeOK
<1>1. IInv => TypeOK
  BY DEF IInv
<1> QED
  BY <1>1, StatusInvariant, PTL

\* Restart_Inspector (HandlerService.cpp:1944-2011), which reads key by key under
\* the tasks that write: when it ends, every module that is owed a rerun and that
\* its ring should have held all the while was answered "RT", whatever crashes
\* came before.
THEOREM OwedModulesAreFound == Spec => OwedIsRerun
<1> DEFINE Found == reader.at \notin {"off", "last"} /\ reader'.at = "off" /\ starts' = starts =>
                      \A m \in steady["scan"] :
                        Owed(m) /\ (quiet \/ m \notin Mixes) => m \in rt'
<1>1. IInv /\ [Next]_vars => [Found]_vars
  <2> SUFFICES ASSUME IInv, [Next]_vars, reader.at \notin {"off", "last"}, reader'.at = "off",
                      starts' = starts,
                      NEW m \in steady["scan"], Owed(m), quiet \/ m \notin Mixes
               PROVE  m \in rt'
    OBVIOUS
  <2>1. TypeOK /\ LockInv /\ RingInv /\ FileInv /\ ReadInv
    BY DEF IInv
  <2>2. m \in Modules /\ "scan" \in Rings
    BY <2>1 DEF TypeOK, Rings
  <2>3. m \in Due
    BY <2>2 DEF Due
  <2>4. Scanning /\ ToSlot(reader.slot + 1)
    <3>1. ~Outside
      BY <2>1, OutsideStep
    <3>2. ~Crash
      <4>1. starts \in Nat
        BY <2>1 DEF TypeOK
      <4> QED
        BY <4>1 DEF Crash
    <3>3. ~Reload /\ ~ReadLast
      BY DEF Reload, ReadLast, Reading
    <3>4. Scanning
      BY <3>1, <3>2, <3>3, Steps4, ReaderSteps
    <3> QED
      BY <2>1, <3>4, ScanningStep
  <2>5. PICK k \in Slots : <<m, k>> \in Stands["scan"]
    BY <2>1, <2>2 DEF ReadInv, SteadyInv
  <2>6. k <= reader.slot
    <3>1. reader.slot + 1 = NumSlots
      BY <2>4, ToSlotShape
    <3>2. reader.slot \in Nat /\ k \in 0 .. NumSlots - 1
      BY <2>1 DEF TypeOK, Readers, Slots
    <3> QED
      BY <3>1, <3>2, SlotsAssumption
  <2> QED
    BY <2>1, <2>3, <2>4, <2>5, <2>6, Passed
<1>2. Spec => []IInv /\ [][Next]_vars
  BY StatusInvariant, PTL DEF Spec
<1> QED
  BY <1>1, <1>2, PTL DEF OwedIsRerun

\* The search of Restart_Inspector (HandlerService.cpp:1980-2002) goes through the
\* results key by key under the tasks that write them: a module whose result the
\* ring should have held all the while is found, and not answered "RT".
THEOREM SavedResultsStay == Spec => SavedResultNotRerun
<1> DEFINE NotRerun == \A m \in Modules : m \in rt' \ rt => m \notin steady["result"]
<1>1. IInv /\ [Next]_vars => [NotRerun]_vars
  <2> SUFFICES ASSUME IInv, [Next]_vars, NEW m \in Modules, m \in rt', m \notin rt,
                      m \in steady["result"]
               PROVE  FALSE
    OBVIOUS
  <2>1. TypeOK /\ LockInv /\ RingInv /\ FileInv /\ ReadInv
    BY DEF IInv
  <2>2. ~Outside
    BY <2>1, OutsideStep
  <2>3. ~Crash /\ ~Reload /\ ~ReadLast /\ ~ReadScanLot /\ ~ReadScanNumber
    BY DEF Crash, Reload, ReadLast, ReadScanLot, ReadScanNumber, handlerVars
  <2>4. ReadResultLot \/ ReadResultNumber
    BY <2>2, <2>3, Steps4 DEF ReaderStep
  <2>5. Missed
    BY <2>1, <2>4, SearchStep
  <2>6. reader.in + 1 = NumSlots /\ m = reader.seek
    BY <2>5 DEF Missed, NotHere
  <2>7. PICK k \in Slots : <<m, k>> \in Stands["result"]
    BY <2>1 DEF ReadInv, SteadyInv, Rings
  <2>8. reader.at \in {"search", "match"}
    BY <2>1, <2>4, SearchStep
  <2>9. reader.in <= k /\ k # reader.in
    BY <2>1, <2>5, <2>6, <2>7, <2>8, MissedSlot DEF ReadInv, Ahead
  <2>10. reader.in \in Nat /\ k \in 0 .. NumSlots - 1
    BY <2>1 DEF TypeOK, Readers, Slots
  <2> QED
    BY <2>6, <2>9, <2>10, SlotsAssumption
<1>2. Spec => []IInv /\ [][Next]_vars
  BY StatusInvariant, PTL DEF Spec
<1> QED
  BY <1>1, <1>2, PTL DEF SavedResultNotRerun
=============================================================================
