-------------------------- MODULE BatchSplit_proof --------------------------
(***************************************************************************)
(* Proofs about BatchSplit, for models of any length and content: the      *)
(* types, that the batches tile the scan, and that walking them goes where *)
(* the split went.                                                         *)
(***************************************************************************)
EXTENDS BatchSplit, TLAPS

-----------------------------------------------------------------------------
(* Types.                                                                  *)

LEMMA SizeType == TypeOK => n \in Nat
<1> SUFFICES ASSUME TypeOK PROVE n \in Nat
  OBVIOUS
<1>1. n \in 0 .. MaxImages
  BY DEF TypeOK
<1>2. MaxImages \in Nat
  BY SplitAssumption
<1> QED
  BY <1>1, <1>2

\* What the model file says of an image that is there.
LEMMA ImageTypes ==
  ASSUME TypeOK, NEW i \in Nat, i < n
  PROVE  /\ ImagesOf(i) \in Nat
         /\ RawOf(i) \in Nat
         /\ images[i].place \in Stands
<1>1. i \in 0 .. n - 1
  BY SizeType
<1>2. images \in [0 .. n - 1 -> ImageData]
  BY DEF TypeOK
<1>3. images[i] \in [kind : Kinds, count : 0 .. MaxCount, place : Places]
  BY <1>1, <1>2 DEF ImageData
<1>4. images[i].count \in 0 .. MaxCount /\ images[i].place \in Places
  BY <1>3
<1>5. images[i].count \in Nat
  BY <1>4, SplitAssumption
<1>6. images[i].place \in Stands
  BY <1>4, SplitAssumption DEF Stands
<1> QED
  BY <1>5, <1>6 DEF ImagesOf, RawOf

\* The counters of a loop stay counters when it goes one sequence further.
LEMMA AdvanceType ==
  ASSUME TypeOK, NEW c \in Counters, c.image < n
  PROVE  /\ Advance(c) \in Counters
         /\ Advance(c).image = c.image + ImagesOf(c.image)
         /\ ImagesOf(c.image) \in Nat
<1>1. /\ c.image \in Nat /\ c.grab \in Nat
      /\ c.specular \in Nat /\ c.diffused \in Nat
  BY DEF Counters
<1>2. ImagesOf(c.image) \in Nat /\ RawOf(c.image) \in Nat
  BY <1>1, ImageTypes
<1>3. \A k \in Nat, cond \in BOOLEAN : k + One(cond) \in Nat
  BY DEF One
<1>4. /\ c.image + ImagesOf(c.image) \in Nat
      /\ c.grab + RawOf(c.image) \in Nat
  BY <1>1, <1>2
<1>5. /\ c.specular + One(images[c.image].kind = "specular") \in Nat
      /\ c.diffused + One(images[c.image].kind = "diffused") \in Nat
  BY <1>1, <1>3
<1> HIDE DEF Counters
<1> QED
  BY <1>2, <1>4, <1>5 DEF Advance, Counters

\* Opening and closing a batch, and entering it again.
LEMMA OpenTypes ==
  ASSUME NEW c \in Counters
  PROVE  /\ OpenAt(c) \in Batches
         /\ EnterBatch(OpenAt(c)) = c
         /\ OpenAt(c).firstImage = c.image
         /\ OpenAt(c).firstGrab = c.grab
  BY DEF OpenAt, EnterBatch, Counters, Batches

LEMMA EnterType ==
  ASSUME NEW b \in Batches
  PROVE  /\ EnterBatch(b) \in Counters
         /\ EnterBatch(b).image = b.firstImage
         /\ EnterBatch(b).grab = b.firstGrab
  BY DEF EnterBatch, Counters, Batches

LEMMA EndTypes ==
  ASSUME NEW b \in Batches, NEW z \in Int, NEW g \in Int,
         NEW e, e = [b EXCEPT !.lastImage = z, !.lastGrab = g]
  PROVE  /\ e \in Batches
         /\ EnterBatch(e) = EnterBatch(b)
         /\ e.firstImage = b.firstImage /\ e.firstGrab = b.firstGrab
         /\ e.lastImage = z /\ e.lastGrab = g
  BY DEF EnterBatch, Batches

LEMMA CloseTypes ==
  ASSUME NEW b \in Batches, NEW c \in Counters
  PROVE  /\ Close(b, c) \in Batches
         /\ EnterBatch(Close(b, c)) = EnterBatch(b)
         /\ Close(b, c).firstImage = b.firstImage
         /\ Close(b, c).firstGrab = b.firstGrab
         /\ Close(b, c).lastImage = c.image - 1
         /\ Close(b, c).lastGrab = c.grab - 1
<1>1. c.image - 1 \in Int /\ c.grab - 1 \in Int
  BY DEF Counters
<1> QED
  BY <1>1 DEF Close, EnterBatch, Batches

LEMMA AppendFacts ==
  ASSUME NEW S, NEW s \in Seq(S), NEW e \in S
  PROVE  /\ Append(s, e) \in Seq(S)
         /\ Len(Append(s, e)) = Len(s) + 1
         /\ \A k \in 1 .. Len(s) : Append(s, e)[k] = s[k]
         /\ Append(s, e)[Len(s) + 1] = e
         /\ Len(s) \in Nat
  OBVIOUS

LEMMA TypeInit == Init => TypeOK
<1> SUFFICES ASSUME Init PROVE TypeOK
  OBVIOUS
<1>1. Origin \in Counters
  BY DEF Origin, Counters
<1>2. open \in Batches
  BY <1>1, OpenTypes DEF Init
<1>3. images \in [0 .. n - 1 -> ImageData]
  BY DEF Init
<1>4. batches \in Seq(Batches) /\ Len(batches) = 0
  BY DEF Init
<1>5. last \in Stands /\ stage \in Stands
  BY SplitAssumption DEF Init, Stands, Home
<1> QED
  BY <1>1, <1>2, <1>3, <1>4, <1>5 DEF Init, TypeOK

\* No batch ends behind the last image, and there is a batch to walk.
InRange ==
  /\ \A k \in 1 .. Len(batches) : batches[k].lastImage < n
  /\ phase = "walk" => current >= 1

LEMMA TypeStep == TypeOK /\ InRange /\ [Next]_vars => TypeOK'
<1> SUFFICES ASSUME TypeOK, InRange, [Next]_vars PROVE TypeOK'
  OBVIOUS
<1>0. /\ n \in 0 .. MaxImages /\ images \in [0 .. n - 1 -> ImageData]
      /\ moving \in BOOLEAN /\ phase \in {"split", "walk", "done"}
      /\ batches \in Seq(Batches) /\ open \in Batches /\ prev \in Nat
      /\ at \in Counters /\ current \in 0 .. Len(batches)
      /\ walk \in Counters /\ n \in Nat
      /\ last \in Stands /\ stage \in Stands /\ Home \in Stands
  BY SizeType DEF TypeOK, Stands, Home
<1>a. at.image \in Nat /\ at.grab \in Nat /\ walk.image \in Nat
  BY <1>0 DEF Counters
<1>b. Len(batches) \in Nat
  BY <1>0
<1>1. CASE SplitTurn
  <2>1. at.image < n /\ at' = Advance(at) /\ prev' = at.image
        /\ UNCHANGED <<n, images, moving, phase, current, walk, last, stage>>
    BY <1>1 DEF SplitTurn, modelVars, axes
  <2>2. at' \in Counters
    BY <2>1, <1>0, AdvanceType
  <2>3. OpenAt(at) \in Batches
    BY <1>0, OpenTypes
  <2>4. Close(open, at) \in Batches
    BY <1>0, CloseTypes
  <2>5. \/ batches' = Append(batches, Close(open, at)) /\ open' = OpenAt(at)
        \/ batches' = batches /\ open' = open
    BY <1>1 DEF SplitTurn
  <2>6. batches' \in Seq(Batches) /\ open' \in Batches
        /\ Len(batches') >= Len(batches) /\ Len(batches') \in Nat
    <3>1. CASE batches' = batches /\ open' = open
      BY <3>1, <1>0, <1>b
    <3>2. CASE batches' = Append(batches, Close(open, at)) /\ open' = OpenAt(at)
      <4>1. batches' \in Seq(Batches) /\ Len(batches') = Len(batches) + 1
        BY <3>2, <2>4, <1>0, AppendFacts
      <4> QED
        BY <4>1, <3>2, <2>3, <1>b
    <3> QED
      BY <2>5, <3>1, <3>2
  <2>7. current' \in 0 .. Len(batches')
    BY <2>1, <2>6, <1>0, <1>b
  <2> QED
    BY <2>1, <2>2, <2>6, <2>7, <1>0, <1>a DEF TypeOK
<1>2. CASE SplitEnd
  <2> DEFINE final == [open EXCEPT !.lastImage = n - 1, !.lastGrab = at.grab - 1]
  <2>1. n - 1 \in Int /\ at.grab - 1 \in Int
    BY <1>0, <1>a
  <2>2. final \in Batches
    BY <2>1, <1>0, EndTypes
  <2>3. batches' = Append(batches, final) /\ phase' = "walk" /\ current' = 1
        /\ walk' = EnterBatch(batches'[1])
        /\ UNCHANGED <<n, images, moving, open, prev, at, stage>> /\ last' = Home
    BY <1>2 DEF SplitEnd, modelVars
  <2> HIDE DEF final
  <2>4. batches' \in Seq(Batches) /\ Len(batches') = Len(batches) + 1
    BY <2>2, <2>3, <1>0, AppendFacts
  <2>5. batches'[1] \in Batches /\ 1 \in 0 .. Len(batches')
    BY <2>4, <1>b
  <2>6. walk' \in Counters
    BY <2>3, <2>5, EnterType
  <2> QED
    BY <2>3, <2>4, <2>5, <2>6, <1>0 DEF TypeOK
<1>3. CASE WalkTurn
  <2>1. phase = "walk" /\ Walking /\ walk' = Advance(walk)
        /\ UNCHANGED <<n, images, moving, phase, batches, open, prev, at,
                       current>>
    BY <1>3 DEF WalkTurn, modelVars, splitVars
  <2>2. current \in 1 .. Len(batches)
    BY <2>1, <1>0, <1>b DEF InRange
  <2>3. batches[current] \in Batches
    BY <2>2, <1>0
  <2>4. batches[current].lastImage \in Int /\ batches[current].lastImage < n
    BY <2>2, <2>3 DEF InRange, Batches
  <2>5. walk.image < n
    BY <2>1, <2>4, <1>a, <1>0 DEF Walking
  <2>6. walk' \in Counters
    BY <2>1, <2>5, <1>0, AdvanceType
  <2>7. images[walk.image].place \in Stands
    BY <2>5, <1>0, <1>a, ImageTypes
  <2>8. last' \in Stands /\ stage' \in Stands
    BY <2>7, <1>0, <1>3 DEF WalkTurn, axes
  <2> QED
    BY <2>1, <2>6, <2>8, <1>0 DEF TypeOK
<1>4. CASE WalkNext
  <2>1. UNCHANGED <<n, images, moving, batches, open, prev, at, stage>>
    BY <1>4 DEF WalkNext, modelVars, splitVars
  <2>2. CASE current < Len(batches) /\ current' = current + 1 /\ last' = Home
             /\ walk' = EnterBatch(batches[current + 1]) /\ UNCHANGED phase
    <3>1. current + 1 \in 1 .. Len(batches)
      BY <2>2, <1>0, <1>b
    <3>2. batches[current + 1] \in Batches
      BY <3>1, <1>0
    <3>3. walk' \in Counters
      BY <3>2, <2>2, EnterType
    <3>4. current' \in 0 .. Len(batches')
      BY <2>1, <2>2, <3>1, <1>b
    <3> QED
      BY <2>1, <2>2, <3>3, <3>4, <1>0 DEF TypeOK
  <2>3. CASE phase' = "done" /\ UNCHANGED <<current, walk, last>>
    BY <2>1, <2>3, <1>0 DEF TypeOK
  <2> QED
    BY <1>4, <2>2, <2>3 DEF WalkNext
<1>5. CASE UNCHANGED vars
  BY <1>5, <1>0 DEF vars, modelVars, splitVars, axes, TypeOK
<1> QED
  BY <1>1, <1>2, <1>3, <1>4, <1>5 DEF Next

-----------------------------------------------------------------------------
(* Tiling.                                                                 *)

\* The batch being built begins where the last one ended, and not behind the
\* loop; the loop leaves an image at which a batch begins before it can close
\* that batch.
OpenNext ==
  phase = "split" =>
    /\ Len(batches) = 0 => open.firstImage = 0 /\ open.firstGrab = 0
    /\ Len(batches) > 0 =>
         /\ open.firstImage = batches[Len(batches)].lastImage + 1
         /\ open.firstGrab = batches[Len(batches)].lastGrab + 1
    /\ open.firstImage <= at.image
    /\ at.image = open.firstImage /\ at.image > 0 => prev = at.image
    /\ n > 0 => open.firstImage < n

\* Only the split is incomplete.
SplitOver == phase # "split" => at.image >= n

TileInv == TypeOK /\ InRange /\ BatchesTile /\ OpenNext /\ SplitOver

\* What is known of a batch when it is closed at image c, or at the end.
LEMMA TileAppend ==
  ASSUME TileInv, phase = "split", NEW e \in Batches,
         e.firstImage = open.firstImage, e.firstGrab = open.firstGrab,
         e.lastImage < n, n > 0 => e.firstImage <= e.lastImage,
         batches' = Append(batches, e), n' = n, phase' \in {"split", "walk"},
         phase' = "walk" => /\ e.lastImage = n - 1
                            /\ e.lastGrab = at.grab - 1
                            /\ at' = at
  PROVE  /\ BatchesTile'
         /\ \A k \in 1 .. Len(batches') : batches'[k].lastImage < n'
         /\ Len(batches') = Len(batches) + 1
         /\ batches'[Len(batches')] = e
<1>0. batches \in Seq(Batches) /\ Len(batches) \in Nat
  BY DEF TileInv, TypeOK
<1>1. /\ Len(batches') = Len(batches) + 1
      /\ \A k \in 1 .. Len(batches) : batches'[k] = batches[k]
      /\ batches'[Len(batches) + 1] = e
  BY <1>0, AppendFacts
<1>2. ASSUME NEW k \in 1 .. Len(batches')
      PROVE  batches'[k].lastImage < n'
  <2>1. CASE k \in 1 .. Len(batches)
    BY <2>1, <1>1 DEF TileInv, InRange
  <2>2. CASE k = Len(batches) + 1
    BY <2>2, <1>1
  <2> QED
    BY <2>1, <2>2, <1>0, <1>1
<1>3. ASSUME NEW k \in 1 .. Len(batches')
      PROVE  /\ k = 1 => batches'[k].firstImage = 0 /\ batches'[k].firstGrab = 0
             /\ k > 1 =>
                  /\ batches'[k].firstImage = batches'[k - 1].lastImage + 1
                  /\ batches'[k].firstGrab = batches'[k - 1].lastGrab + 1
             /\ n' > 0 => batches'[k].firstImage <= batches'[k].lastImage
             /\ phase' # "split" /\ k = Len(batches') =>
                  /\ batches'[k].lastImage = n' - 1
                  /\ batches'[k].lastGrab = at'.grab - 1
  <2>1. CASE k \in 1 .. Len(batches)
    <3>1. batches'[k] = batches[k] /\ k # Len(batches')
      BY <2>1, <1>0, <1>1
    <3>2. k > 1 => k - 1 \in 1 .. Len(batches)
      BY <2>1, <1>0
    <3>3. k > 1 => batches'[k - 1] = batches[k - 1]
      BY <3>2, <1>1
    <3> QED
      BY <2>1, <3>1, <3>3 DEF TileInv, BatchesTile
  <2>2. CASE k = Len(batches) + 1
    <3>1. batches'[k] = e
      BY <2>2, <1>1
    <3>2. Len(batches) > 0 => Len(batches) \in 1 .. Len(batches)
      BY <1>0
    <3>3. k > 1 => batches'[k - 1] = batches[Len(batches)] /\ Len(batches) > 0
      BY <2>2, <3>2, <1>0, <1>1
    <3>4. k = 1 => Len(batches) = 0
      BY <2>2, <1>0
    <3>5. k = 1 => e.firstImage = 0 /\ e.firstGrab = 0
      BY <3>4 DEF TileInv, OpenNext
    <3>6. k > 1 => /\ e.firstImage = batches'[k - 1].lastImage + 1
                   /\ e.firstGrab = batches'[k - 1].lastGrab + 1
      BY <3>3 DEF TileInv, OpenNext
    <3>7. phase' # "split" => phase' = "walk"
      OBVIOUS
    <3> QED
      BY <3>1, <3>5, <3>6, <3>7
  <2> QED
    BY <2>1, <2>2, <1>0, <1>1
<1>4. BatchesTile'
  BY <1>3 DEF BatchesTile
<1> QED
  BY <1>1, <1>2, <1>4

LEMMA TileInit == Init => TileInv
<1> SUFFICES ASSUME Init PROVE TileInv
  OBVIOUS
<1>1. TypeOK
  BY TypeInit
<1>2. Len(batches) = 0 /\ phase = "split" /\ at = Origin /\ prev = 0
      /\ open = OpenAt(Origin)
  BY DEF Init
<1>3. open.firstImage = 0 /\ open.firstGrab = 0 /\ at.image = 0
  BY <1>2 DEF OpenAt, Origin
<1>4. n \in Nat
  BY <1>1, SizeType
<1>5. InRange /\ BatchesTile /\ SplitOver
  BY <1>2 DEF InRange, BatchesTile, SplitOver
<1>6. OpenNext
  BY <1>2, <1>3, <1>4 DEF OpenNext
<1> QED
  BY <1>1, <1>5, <1>6 DEF TileInv

LEMMA TileStep == TileInv /\ [Next]_vars => TileInv'
<1> SUFFICES ASSUME TileInv, [Next]_vars PROVE TileInv'
  OBVIOUS
<1>0. /\ TypeOK /\ n \in Nat /\ batches \in Seq(Batches) /\ open \in Batches
      /\ at \in Counters /\ prev \in Nat /\ Len(batches) \in Nat
      /\ at.image \in Nat /\ at.grab \in Nat /\ open.firstImage \in Nat
  <2>1. TypeOK /\ n \in Nat
    BY SizeType DEF TileInv
  <2>2. batches \in Seq(Batches) /\ open \in Batches /\ at \in Counters /\ prev \in Nat
    BY <2>1 DEF TypeOK
  <2>3. Len(batches) \in Nat
    BY <2>2
  <2>4. at.image \in Nat /\ at.grab \in Nat
    BY <2>2 DEF Counters
  <2>5. open.firstImage \in Nat
    BY <2>2 DEF Batches
  <2> QED
    BY <2>1, <2>2, <2>3, <2>4, <2>5
<1>1. TypeOK'
  BY TypeStep DEF TileInv
<1>2. CASE SplitTurn
  <2>0. /\ phase = "split" /\ at.image < n /\ at' = Advance(at)
        /\ prev' = at.image
        /\ UNCHANGED <<n, images, moving, phase, current, walk>>
    BY <1>2 DEF SplitTurn, modelVars
  <2>1. at'.image = at.image + ImagesOf(at.image) /\ ImagesOf(at.image) \in Nat
    BY <2>0, <1>0, AdvanceType
  <2>2. CASE /\ at.image > 0 /\ IsAxisMoved(prev, at.image)
             /\ batches' = Append(batches, Close(open, at))
             /\ open' = OpenAt(at)
    <3>1. prev # at.image
      <4>1. images[at.image].place.pos \in Int
        BY <1>0, <2>0, ImageTypes DEF Stands
      <4>2. \A i \in Int : Distance(i, i) = 0
        BY DEF Distance
      <4>3. ~IsAxisMoved(at.image, at.image)
        BY <4>1, <4>2, SplitAssumption DEF IsAxisMoved
      <4> QED
        BY <4>3, <2>2
    <3>2. open.firstImage < at.image
      BY <3>1, <2>2, <2>0, <1>0 DEF TileInv, OpenNext
    <3> DEFINE e == Close(open, at)
    <3>3. /\ e \in Batches /\ e.firstImage = open.firstImage
          /\ e.firstGrab = open.firstGrab
          /\ e.lastImage = at.image - 1 /\ e.lastGrab = at.grab - 1
      BY <1>0, CloseTypes
    <3>4. batches' = Append(batches, e)
      BY <2>2
    <3> HIDE DEF e
    <3>5. e.lastImage < n /\ e.firstImage <= e.lastImage
      BY <3>2, <3>3, <2>0, <1>0
    <3>6. /\ BatchesTile'
          /\ \A k \in 1 .. Len(batches') : batches'[k].lastImage < n'
          /\ Len(batches') = Len(batches) + 1
          /\ batches'[Len(batches')] = e
      BY <3>3, <3>4, <3>5, <2>0, TileAppend
    <3>7. open'.firstImage = at.image /\ open'.firstGrab = at.grab
      BY <2>2, <1>0, OpenTypes
    <3>8. OpenNext'
      <4>1. Len(batches') > 0
        BY <3>6, <1>0
      <4>2. /\ open'.firstImage = batches'[Len(batches')].lastImage + 1
            /\ open'.firstGrab = batches'[Len(batches')].lastGrab + 1
        BY <3>3, <3>6, <3>7, <1>0
      <4> QED
        BY <4>1, <4>2, <3>7, <2>0, <2>1, <1>0 DEF OpenNext
    <3> QED
      BY <1>1, <3>6, <3>8, <2>0 DEF TileInv, InRange, SplitOver
  <2>3. CASE UNCHANGED <<batches, open>>
    <3>1. OpenNext'
      BY <2>3, <2>0, <2>1, <1>0 DEF TileInv, OpenNext
    <3>2. BatchesTile'
      BY <2>3, <2>0 DEF TileInv, BatchesTile
    <3> QED
      BY <1>1, <3>1, <3>2, <2>3, <2>0 DEF TileInv, InRange, SplitOver
  <2> QED
    BY <1>2, <2>2, <2>3 DEF SplitTurn
<1>3. CASE SplitEnd
  <2> DEFINE e == [open EXCEPT !.lastImage = n - 1, !.lastGrab = at.grab - 1]
  <2>0. /\ phase = "split" /\ at.image >= n /\ phase' = "walk"
        /\ current' = 1 /\ batches' = Append(batches, e)
        /\ UNCHANGED <<n, images, moving, open, prev, at>>
    BY <1>3 DEF SplitEnd, modelVars
  <2>1. n - 1 \in Int /\ at.grab - 1 \in Int
    BY <1>0
  <2>2. /\ e \in Batches /\ e.firstImage = open.firstImage
        /\ e.firstGrab = open.firstGrab
        /\ e.lastImage = n - 1 /\ e.lastGrab = at.grab - 1
    BY <2>1, <1>0 DEF Batches
  <2> HIDE DEF e
  <2>3. n > 0 => e.firstImage <= e.lastImage
    BY <2>0, <2>2, <1>0 DEF TileInv, OpenNext
  <2>4. e.lastImage < n
    BY <2>2, <1>0
  <2>5. /\ BatchesTile'
        /\ \A k \in 1 .. Len(batches') : batches'[k].lastImage < n'
    BY <2>0, <2>2, <2>3, <2>4, TileAppend
  <2> QED
    BY <1>1, <2>0, <2>5 DEF TileInv, InRange, OpenNext, SplitOver
<1>4. CASE WalkTurn
  <2>1. phase = "walk"
        /\ UNCHANGED <<n, images, moving, phase, batches, open, prev, at,
                       current>>
    BY <1>4 DEF WalkTurn, modelVars, splitVars
  <2> QED
    BY <1>1, <2>1 DEF TileInv, InRange, BatchesTile, OpenNext, SplitOver
<1>5. CASE WalkNext
  <2>1. phase = "walk" /\ UNCHANGED <<n, batches, open, prev, at>>
        /\ phase' \in {"walk", "done"} /\ current' \in {current, current + 1}
    BY <1>5 DEF WalkNext, modelVars, splitVars
  <2>2. current \in Nat
    BY <1>0 DEF TypeOK
  <2>3. current' >= 1
    BY <2>1, <2>2 DEF TileInv, InRange
  <2> QED
    BY <1>1, <2>1, <2>3 DEF TileInv, InRange, BatchesTile, OpenNext, SplitOver
<1>6. CASE UNCHANGED vars
  BY <1>1, <1>6 DEF vars, modelVars, splitVars, TileInv, InRange, BatchesTile,
                    OpenNext, SplitOver
<1> QED
  BY <1>2, <1>3, <1>4, <1>5, <1>6 DEF Next

-----------------------------------------------------------------------------
(* Walking.  The split leaves a trail of counters, one per grab sequence.   *)
(* A walk starts on the trail and advances as the split did, so it stays on *)
(* it, and it cannot step over a place where a batch begins.               *)

\* The trail O ends where the split stands; from everywhere else on it one
\* grab sequence leads on to the next place of the trail.
Trail(O) ==
  /\ at \in O
  /\ \A c \in O : c # at => /\ c.image < n /\ c.image < at.image
                            /\ Advance(c) \in O /\ c.image < Advance(c).image
  /\ \A c, d \in O : /\ c.image = d.image => c = d
                     /\ c.image < d.image => Advance(c).image <= d.image

\* Batches begin on the trail.
Marked(O) ==
  /\ phase = "split" => EnterBatch(open) \in O
  /\ \A k \in 1 .. Len(batches) : EnterBatch(batches[k]) \in O

\* No batch begins behind the start of another one and before its end.
Sorted ==
  /\ \A k \in 1 .. Len(batches) : batches[k].firstImage <= batches[k].lastImage + 1
  /\ \A k, l \in 1 .. Len(batches) :
       batches[k].firstImage < batches[l].firstImage
         => batches[k].lastImage < batches[l].firstImage
  /\ phase = "split" =>
       /\ open.firstImage <= n
       /\ \A k \in 1 .. Len(batches) : /\ batches[k].firstImage <= open.firstImage
                                       /\ batches[k].lastImage < open.firstImage

\* Where the trail shows that the axes moved a batch begins; of the place the
\* split stands at it is not decided yet, and its turn compares the right one.
Moves(O) ==
  /\ \A c \in O : c # at /\ IsAxisMoved(c.image, Advance(c).image) =>
       \/ Advance(c) = at
       \/ phase = "split" /\ Advance(c) = EnterBatch(open)
       \/ \E k \in 1 .. Len(batches) : Advance(c) = EnterBatch(batches[k])
  /\ phase = "split" /\ at.image < n =>
       \A c \in O : c # at /\ Advance(c) = at => c.image = prev \/ ImagesOf(at.image) = 0

\* The walk is on the trail, within its batch or at the start of the next.
OnTrail(O) ==
  phase # "split" =>
    /\ walk \in O
    /\ current \in 1 .. Len(batches)
    /\ batches[current].firstImage <= walk.image
    /\ current < Len(batches) => walk.image <= batches[current + 1].firstImage

Walk(O) == O \in SUBSET Counters /\ Trail(O) /\ Marked(O) /\ Moves(O) /\ OnTrail(O)

WalkInv == TileInv /\ Sorted /\ \E O : Walk(O)

\* A grab sequence that counts no image leaves every counter where it is.
LEMMA EmptySequence ==
  ASSUME TypeOK, NEW c \in Counters, c.image < n, ImagesOf(c.image) = 0
  PROVE  Advance(c) = c
<1>1. c = [image |-> c.image, grab |-> c.grab,
           specular |-> c.specular, diffused |-> c.diffused]
  BY DEF Counters
<1>2. c.image \in Nat /\ c.grab \in Nat /\ c.specular \in Nat /\ c.diffused \in Nat
  BY DEF Counters
<1>3. /\ images[c.image].kind # "specular" /\ images[c.image].kind # "diffused"
      /\ RawOf(c.image) = 0
  BY DEF ImagesOf, RawOf
<1>4. c.image + 0 = c.image /\ c.grab + 0 = c.grab
      /\ c.specular + 0 = c.specular /\ c.diffused + 0 = c.diffused
  BY <1>2
<1>5. One(FALSE) = 0
  BY DEF One
<1> QED
  BY <1>1, <1>3, <1>4, <1>5 DEF Advance

\* Nothing a sequence is advanced by changes.
LEMMA ModelFixed ==
  ASSUME UNCHANGED modelVars
  PROVE  /\ \A c : Advance(c)' = Advance(c)
         /\ \A i : ImagesOf(i)' = ImagesOf(i)
         /\ \A i, j : IsAxisMoved(i, j)' = IsAxisMoved(i, j)
  BY DEF modelVars, Advance, ImagesOf, RawOf, IsAxisMoved

\* A turn of the split makes the trail one place longer.
LEMMA TrailTurn ==
  ASSUME TileInv, SplitTurn, NEW O \in SUBSET Counters, Trail(O)
  PROVE  \E P \in SUBSET Counters : P = O \cup {Advance(at)} /\ Trail(P)'
<1>e. PICK e : e = Advance(at)
  OBVIOUS
<1>p. PICK P : P = O \cup {e}
  OBVIOUS
<1>0. /\ at.image < n /\ at' = e /\ UNCHANGED modelVars /\ n' = n
      /\ TypeOK /\ at \in Counters /\ n \in Nat
  BY <1>e, SizeType DEF SplitTurn, modelVars, TileInv, TypeOK
<1>1. e \in Counters /\ e.image = at.image + ImagesOf(at.image)
      /\ ImagesOf(at.image) \in Nat
  BY <1>0, <1>e, AdvanceType
<1>2. \A c \in Counters : c.image \in Nat
  BY DEF Counters
<1>3. \A c \in O : c.image <= at.image /\ c.image \in Nat
  BY <1>0, <1>2 DEF Trail
<1>4. e = at \/ at.image < e.image
  BY <1>0, <1>1, <1>2, <1>e, EmptySequence
<1>a. \A c : Advance(c)' = Advance(c)
  BY <1>0, ModelFixed
<1>5. ASSUME NEW c \in P, c # e
      PROVE  /\ c.image < n /\ c.image < e.image
             /\ Advance(c) \in P /\ c.image < Advance(c).image
  <2>1. CASE c = at
    BY <2>1, <1>0, <1>4, <1>5, <1>e, <1>p
  <2>2. CASE c # at
    BY <2>2, <1>1, <1>2, <1>3, <1>4, <1>5, <1>0, <1>p DEF Trail
  <2> QED
    BY <2>1, <2>2
<1>6. ASSUME NEW c \in P, NEW d \in P
      PROVE  /\ c.image = d.image => c = d
             /\ c.image < d.image => Advance(c).image <= d.image
  <2>1. CASE c \in O /\ d \in O
    BY <2>1 DEF Trail
  <2>2. CASE c = e /\ d \in O
    BY <2>2, <1>1, <1>2, <1>3, <1>4, <1>0 DEF Trail
  <2>3. CASE c \in O /\ d = e /\ e # at
    <3>1. at.image < e.image /\ c.image \in Nat /\ at.image \in Nat /\ e.image \in Nat
      BY <2>3, <1>0, <1>1, <1>2, <1>4
    <3>2. CASE c = at
      BY <3>1, <3>2, <2>3, <1>1, <1>2, <1>e
    <3>3. CASE c # at
      <4>1. Advance(c) \in O
        BY <2>3, <3>3 DEF Trail
      <4>2. Advance(c).image <= at.image /\ c.image <= at.image
            /\ Advance(c).image \in Nat
        BY <4>1, <2>3, <1>3
      <4> QED
        BY <4>2, <3>1, <2>3
    <3> QED
      BY <3>2, <3>3
  <2>4. CASE c = e /\ d = e
    BY <2>4, <1>1, <1>2
  <2> QED
    BY <2>1, <2>2, <2>3, <2>4, <1>0, <1>p DEF Trail
<1>7. P \in SUBSET Counters
  BY <1>1, <1>p
<1>8. Trail(P)'
  BY <1>0, <1>a, <1>5, <1>6, <1>p DEF Trail
<1> QED
  BY <1>7, <1>8, <1>e, <1>p

\* Batches keep their order when one is added behind the others.
LEMMA SortedAppend ==
  ASSUME TileInv, Sorted, phase = "split", NEW e \in Batches,
         e.firstImage = open.firstImage, e.firstImage <= e.lastImage + 1,
         batches' = Append(batches, e)
  PROVE  /\ \A k \in 1 .. Len(batches') :
              batches'[k].firstImage <= batches'[k].lastImage + 1
         /\ \A k, l \in 1 .. Len(batches') :
              batches'[k].firstImage < batches'[l].firstImage
                => batches'[k].lastImage < batches'[l].firstImage
         /\ \A k \in 1 .. Len(batches') : \/ k \in 1 .. Len(batches)
                                          \/ batches'[k] = e
         /\ \A k \in 1 .. Len(batches) : batches'[k] = batches[k]
         /\ batches' \in Seq(Batches)
<1>0. batches \in Seq(Batches) /\ Len(batches) \in Nat
  BY DEF TileInv, TypeOK
<1>1. /\ Len(batches') = Len(batches) + 1
      /\ \A k \in 1 .. Len(batches) : batches'[k] = batches[k]
      /\ batches'[Len(batches) + 1] = e
      /\ batches' \in Seq(Batches)
  BY <1>0, AppendFacts
<1>2. \A k \in 1 .. Len(batches') :
        \/ k \in 1 .. Len(batches) /\ batches'[k] = batches[k]
        \/ batches'[k] = e
  BY <1>0, <1>1
<1>3. \A b \in Batches : b.firstImage \in Nat /\ b.lastImage \in Int
  BY DEF Batches
<1>4. \A k \in 1 .. Len(batches) : batches[k] \in Batches
  BY <1>0
<1>5. ASSUME NEW k \in 1 .. Len(batches'), NEW l \in 1 .. Len(batches'),
             batches'[k].firstImage < batches'[l].firstImage
      PROVE  batches'[k].lastImage < batches'[l].firstImage
  <2>1. CASE k \in 1 .. Len(batches) /\ l \in 1 .. Len(batches)
    BY <2>1, <1>1, <1>5 DEF Sorted
  <2>2. CASE k \in 1 .. Len(batches) /\ batches'[l] = e
    BY <2>2, <1>1 DEF Sorted
  <2>3. CASE batches'[k] = e
    <3>1. CASE l \in 1 .. Len(batches)
      BY <3>1, <2>3, <1>1, <1>3, <1>4, <1>5 DEF Sorted
    <3>2. CASE batches'[l] = e
      BY <3>2, <2>3, <1>3, <1>5
    <3> QED
      BY <3>1, <3>2, <1>2
  <2> QED
    BY <2>1, <2>2, <2>3, <1>2
<1> QED
  BY <1>1, <1>2, <1>5 DEF Sorted

\* What a turn of the split does to the batches.
LEMMA TurnFacts ==
  ASSUME TileInv, SplitTurn
  PROVE  /\ phase = "split" /\ phase' = "split" /\ at.image < n
         /\ at' = Advance(at) /\ prev' = at.image /\ UNCHANGED modelVars
         /\ \/ /\ UNCHANGED <<batches, open>>
               /\ ~(at.image > 0 /\ IsAxisMoved(prev, at.image))
            \/ /\ at.image > 0 /\ IsAxisMoved(prev, at.image)
               /\ batches' = Append(batches, Close(open, at))
               /\ open' = OpenAt(at)
               /\ Close(open, at) \in Batches
               /\ Close(open, at).firstImage = open.firstImage
               /\ Close(open, at).lastImage = at.image - 1
               /\ EnterBatch(Close(open, at)) = EnterBatch(open)
               /\ open'.firstImage = at.image /\ EnterBatch(open') = at
<1>1. open \in Batches /\ at \in Counters
  BY DEF TileInv, TypeOK
<1> QED
  BY <1>1, CloseTypes, OpenTypes DEF SplitTurn

LEMMA SortedTurn ==
  ASSUME TileInv, Sorted, SplitTurn
  PROVE  Sorted'
<1>0. /\ open \in Batches /\ at.image \in Nat /\ n \in Nat /\ n' = n
      /\ open.firstImage \in Nat /\ open.firstImage <= at.image
      /\ phase = "split" /\ at.image < n
      /\ batches \in Seq(Batches)
  <2>1. TypeOK /\ open \in Batches /\ at \in Counters /\ batches \in Seq(Batches)
    BY DEF TileInv, TypeOK
  <2>2. open.firstImage \in Nat /\ at.image \in Nat
    BY <2>1 DEF Batches, Counters
  <2> QED
    BY <2>1, <2>2, SizeType, TurnFacts DEF TileInv, OpenNext, modelVars
<1>1. CASE UNCHANGED <<batches, open>>
  BY <1>0, <1>1, TurnFacts DEF Sorted
<1>2. CASE /\ batches' = Append(batches, Close(open, at))
           /\ open' = OpenAt(at)
           /\ Close(open, at) \in Batches
           /\ Close(open, at).firstImage = open.firstImage
           /\ Close(open, at).lastImage = at.image - 1
           /\ open'.firstImage = at.image
  <2>1. PICK e : e = Close(open, at)
    OBVIOUS
  <2>2. e \in Batches /\ e.firstImage = open.firstImage
        /\ e.lastImage = at.image - 1 /\ batches' = Append(batches, e)
        /\ e.firstImage <= e.lastImage + 1
    BY <1>0, <1>2, <2>1
  <2>3. /\ \A k \in 1 .. Len(batches') :
              batches'[k].firstImage <= batches'[k].lastImage + 1
        /\ \A k, l \in 1 .. Len(batches') :
              batches'[k].firstImage < batches'[l].firstImage
                => batches'[k].lastImage < batches'[l].firstImage
        /\ \A k \in 1 .. Len(batches') : \/ k \in 1 .. Len(batches)
                                         \/ batches'[k] = e
        /\ \A k \in 1 .. Len(batches) : batches'[k] = batches[k]
    BY <1>0, <2>2, SortedAppend
  <2>4. \A k \in 1 .. Len(batches) : batches[k] \in Batches
    BY <1>0
  <2>5. \A b \in Batches : b.firstImage \in Nat /\ b.lastImage \in Int
    BY DEF Batches
  <2>6. ASSUME NEW k \in 1 .. Len(batches')
        PROVE  /\ batches'[k].firstImage <= open'.firstImage
               /\ batches'[k].lastImage < open'.firstImage
    <3>1. CASE k \in 1 .. Len(batches)
      BY <3>1, <1>0, <1>2, <2>3, <2>4, <2>5 DEF Sorted
    <3>2. CASE batches'[k] = e
      BY <3>2, <1>0, <1>2, <2>2
    <3> QED
      BY <3>1, <3>2, <2>3
  <2>7. open'.firstImage <= n'
    BY <1>0, <1>2
  <2> QED
    BY <2>3, <2>6, <2>7 DEF Sorted
<1> QED
  BY <1>1, <1>2, TurnFacts

\* A turn of the split keeps a trail that says where the batches begin.
LEMMA SplitTurnWalk ==
  ASSUME TileInv, SplitTurn, NEW O, Walk(O)
  PROVE  \E P : Walk(P)'
<1>0. /\ TypeOK /\ n \in Nat /\ at \in Counters /\ at.image < n /\ n' = n
      /\ phase = "split" /\ phase' = "split" /\ at' = Advance(at)
      /\ prev' = at.image /\ at.image \in Nat
      /\ batches \in Seq(Batches) /\ Len(batches) \in Nat
  <2>1. TypeOK /\ at \in Counters /\ batches \in Seq(Batches)
    BY DEF TileInv, TypeOK
  <2>2. at.image \in Nat
    BY <2>1 DEF Counters
  <2> QED
    BY <2>1, <2>2, SizeType, TurnFacts DEF modelVars
<1>1. /\ O \in SUBSET Counters /\ Trail(O) /\ Marked(O) /\ Moves(O)
      /\ \A c \in O : c.image \in Nat
  <2>1. \A c \in Counters : c.image \in Nat
    BY DEF Counters
  <2> QED
    BY <2>1 DEF Walk
<1>2. PICK P \in SUBSET Counters : P = O \cup {Advance(at)} /\ Trail(P)'
  BY <1>1, TrailTurn
<1>3. /\ \A c : Advance(c)' = Advance(c)
      /\ \A i : ImagesOf(i)' = ImagesOf(i)
      /\ \A i, j : IsAxisMoved(i, j)' = IsAxisMoved(i, j)
  BY TurnFacts, ModelFixed
<1>4. at \in O
  BY <1>1 DEF Trail
<1>5. Marked(P)'
  <2>1. CASE UNCHANGED <<batches, open>>
    <3>1. EnterBatch(open)' = EnterBatch(open)
      BY <2>1 DEF EnterBatch
    <3>2. \A k \in 1 .. Len(batches) : EnterBatch(batches[k])' = EnterBatch(batches[k])
      BY <2>1 DEF EnterBatch
    <3> QED
      BY <2>1, <3>1, <3>2, <1>0, <1>1, <1>2 DEF Marked
  <2>2. CASE /\ batches' = Append(batches, Close(open, at))
             /\ Close(open, at) \in Batches
             /\ EnterBatch(Close(open, at)) = EnterBatch(open)
             /\ EnterBatch(open') = at
    <3>1. /\ Len(batches') = Len(batches) + 1
          /\ \A k \in 1 .. Len(batches) : batches'[k] = batches[k]
          /\ batches'[Len(batches) + 1] = Close(open, at)
      BY <2>2, <1>0, AppendFacts
    <3>2. ASSUME NEW k \in 1 .. Len(batches')
          PROVE  EnterBatch(batches'[k]) \in P
      <4>1. k \in 1 .. Len(batches) \/ k = Len(batches) + 1
        BY <3>1, <1>0
      <4> QED
        BY <4>1, <3>1, <2>2, <1>0, <1>1, <1>2 DEF Marked
    <3> QED
      BY <3>2, <2>2, <1>4, <1>2 DEF Marked, EnterBatch
  <2> QED
    BY <2>1, <2>2, TurnFacts
<1>6. ASSUME NEW c \in P, c # at', IsAxisMoved(c.image, Advance(c).image)
      PROVE  \/ Advance(c) = at'
             \/ Advance(c) = EnterBatch(open')
             \/ \E k \in 1 .. Len(batches') : Advance(c) = EnterBatch(batches'[k])
  <2>1. c \in O
    BY <1>6, <1>2, <1>0
  <2>2. CASE c = at
    BY <2>2, <1>0
  <2>3. CASE c # at /\ Advance(c) = at
    <3>1. c.image < at.image /\ c.image \in Nat /\ at.image > 0
      BY <2>1, <2>3, <1>0, <1>1 DEF Trail
    <3>2. CASE ImagesOf(at.image) = 0
      BY <3>2, <2>3, <1>0, EmptySequence
    <3>3. CASE ImagesOf(at.image) # 0
      <4>1. c.image = prev
        BY <3>3, <2>1, <2>3, <1>0, <1>1 DEF Moves
      <4>2. IsAxisMoved(prev, at.image)
        BY <4>1, <2>3, <1>6
      <4> QED
        BY <4>2, <3>1, <2>3, TurnFacts
    <3> QED
      BY <3>2, <3>3
  <2>4. CASE c # at /\ Advance(c) # at
    <3>1. \/ Advance(c) = EnterBatch(open)
          \/ \E k \in 1 .. Len(batches) : Advance(c) = EnterBatch(batches[k])
      BY <2>1, <2>4, <1>6, <1>1 DEF Moves
    <3>2. CASE UNCHANGED <<batches, open>>
      BY <3>1, <3>2
    <3>3. CASE /\ batches' = Append(batches, Close(open, at))
               /\ Close(open, at) \in Batches
               /\ EnterBatch(Close(open, at)) = EnterBatch(open)
      <4>1. /\ Len(batches') = Len(batches) + 1
            /\ \A k \in 1 .. Len(batches) : batches'[k] = batches[k]
            /\ batches'[Len(batches) + 1] = Close(open, at)
        BY <3>3, <1>0, AppendFacts
      <4>2. Len(batches) + 1 \in 1 .. Len(batches')
            /\ \A k \in 1 .. Len(batches) : k \in 1 .. Len(batches')
        BY <4>1, <1>0
      <4> QED
        BY <4>1, <4>2, <3>1, <3>3
    <3> QED
      BY <3>2, <3>3, TurnFacts
  <2> QED
    BY <2>2, <2>3, <2>4
<1>7. ASSUME NEW c \in P, c # at', Advance(c) = at'
      PROVE  c.image = prev' \/ ImagesOf(at'.image) = 0
  <2>1. c \in O
    BY <1>7, <1>2, <1>0
  <2>2. CASE c = at
    BY <2>2, <1>0
  <2>3. CASE c # at
    <3>1. Advance(c) \in O /\ Advance(c).image \in Nat
      BY <2>1, <2>3, <1>1 DEF Trail
    <3>2. Advance(c) = at \/ Advance(c).image < at.image
      BY <3>1, <1>1 DEF Trail
    <3>3. at'.image = at.image + ImagesOf(at.image) /\ ImagesOf(at.image) \in Nat
      BY <1>0, AdvanceType
    <3>4. ImagesOf(at.image) = 0
      BY <3>1, <3>2, <3>3, <1>0, <1>7
    <3>5. at' = at
      BY <3>4, <1>0, EmptySequence
    <3> QED
      BY <3>4, <3>5
  <2> QED
    BY <2>2, <2>3
<1>8. Moves(P)'
  BY <1>0, <1>3, <1>6, <1>7 DEF Moves, EnterBatch
<1>9. OnTrail(P)'
  BY <1>0 DEF OnTrail
<1> QED
  BY <1>2, <1>5, <1>8, <1>9 DEF Walk

\* The walk begins with the first batch, at the start of the trail.
LEMMA SplitEndWalk ==
  ASSUME TileInv, Sorted, SplitEnd, NEW O, Walk(O)
  PROVE  Sorted' /\ Walk(O)'
<1> DEFINE final == [open EXCEPT !.lastImage = n - 1, !.lastGrab = at.grab - 1]
<1>0. /\ phase = "split" /\ phase' = "walk" /\ at.image >= n /\ current' = 1
      /\ batches' = Append(batches, final) /\ walk' = EnterBatch(batches'[1])
      /\ UNCHANGED <<n, images, moving, open, prev, at>> /\ UNCHANGED modelVars
  BY DEF SplitEnd, modelVars
<1>1. /\ TypeOK /\ n \in Nat /\ open \in Batches /\ batches \in Seq(Batches)
      /\ Len(batches) \in Nat /\ n - 1 \in Int /\ at.grab - 1 \in Int
      /\ open.firstImage \in Nat
  <2>1. TypeOK /\ open \in Batches /\ batches \in Seq(Batches) /\ at \in Counters
    BY DEF TileInv, TypeOK
  <2>2. open.firstImage \in Nat /\ at.grab \in Nat
    BY <2>1 DEF Batches, Counters
  <2> QED
    BY <2>1, <2>2, SizeType
<1>2. PICK e : e = final
  OBVIOUS
<1>3. /\ e \in Batches /\ EnterBatch(e) = EnterBatch(open)
      /\ e.firstImage = open.firstImage /\ e.lastImage = n - 1
      /\ batches' = Append(batches, e)
  <2>1. e = [open EXCEPT !.lastImage = n - 1, !.lastGrab = at.grab - 1]
    BY <1>2
  <2>2. /\ e \in Batches /\ EnterBatch(e) = EnterBatch(open)
        /\ e.firstImage = open.firstImage /\ e.lastImage = n - 1
    BY <2>1, <1>1 DEF EnterBatch, Batches
  <2> QED
    BY <2>2, <1>0, <1>2
<1> HIDE DEF final
<1>4. open.firstImage <= n
  BY <1>0 DEF Sorted
<1>5. e.firstImage <= e.lastImage + 1
  BY <1>1, <1>3, <1>4
<1>6. /\ \A k \in 1 .. Len(batches') :
            batches'[k].firstImage <= batches'[k].lastImage + 1
      /\ \A k, l \in 1 .. Len(batches') :
            batches'[k].firstImage < batches'[l].firstImage
              => batches'[k].lastImage < batches'[l].firstImage
      /\ batches' \in Seq(Batches)
  BY <1>0, <1>3, <1>5, SortedAppend
<1>7. Sorted'
  BY <1>0, <1>6 DEF Sorted
<1>8. /\ Len(batches') = Len(batches) + 1
      /\ \A k \in 1 .. Len(batches) : batches'[k] = batches[k]
      /\ batches'[Len(batches) + 1] = e
  BY <1>1, <1>3, AppendFacts
<1>9. O \in SUBSET Counters /\ Trail(O) /\ Marked(O) /\ Moves(O)
  BY DEF Walk
<1>10. /\ \A c : Advance(c)' = Advance(c)
       /\ \A i, j : IsAxisMoved(i, j)' = IsAxisMoved(i, j)
  BY <1>0, ModelFixed
<1>11. Trail(O)'
  BY <1>0, <1>9, <1>10 DEF Trail
<1>12. \A k \in 1 .. Len(batches') : EnterBatch(batches'[k]) \in O
  <2> SUFFICES ASSUME NEW k \in 1 .. Len(batches') PROVE EnterBatch(batches'[k]) \in O
    OBVIOUS
  <2>1. k \in 1 .. Len(batches) \/ k = Len(batches) + 1
    BY <1>8, <1>1
  <2> QED
    BY <2>1, <1>0, <1>3, <1>8, <1>9 DEF Marked
<1>13. Marked(O)'
  BY <1>0, <1>12 DEF Marked, EnterBatch
<1>14. Moves(O)'
  <2>1. ASSUME NEW c \in O, c # at, IsAxisMoved(c.image, Advance(c).image)
        PROVE  \/ Advance(c) = at
               \/ \E k \in 1 .. Len(batches') : Advance(c) = EnterBatch(batches'[k])
    <3>1. /\ Len(batches) + 1 \in 1 .. Len(batches')
          /\ \A k \in 1 .. Len(batches) : k \in 1 .. Len(batches')
      BY <1>1, <1>8
    <3> QED
      BY <2>1, <3>1, <1>3, <1>8, <1>9 DEF Moves
  <2> QED
    BY <2>1, <1>0, <1>10 DEF Moves, EnterBatch
<1>15. OnTrail(O)'
  <2>1. 1 \in 1 .. Len(batches')
    BY <1>1, <1>8
  <2>2. batches'[1] \in Batches
    BY <2>1, <1>6
  <2>3. walk'.image = batches'[1].firstImage /\ batches'[1].firstImage \in Nat
    BY <2>2, <1>0, EnterType DEF Batches
  <2>4. walk' \in O
    BY <2>1, <1>0, <1>12
  <2>5. 1 < Len(batches') => walk'.image <= batches'[2].firstImage
    <3>1. BatchesTile'
      BY TileStep DEF TileInv, Next
    <3>2. CASE 1 < Len(batches')
      <4>1. 2 \in 1 .. Len(batches')
        BY <3>2, <1>1, <1>8
      <4>2. batches'[2].firstImage = batches'[1].lastImage + 1
        BY <4>1, <3>1 DEF BatchesTile
      <4> QED
        BY <4>2, <2>1, <2>3, <1>6
    <3> QED
      BY <3>2
  <2> QED
    BY <2>1, <2>3, <2>4, <2>5, <1>0 DEF OnTrail
<1> QED
  BY <1>7, <1>9, <1>11, <1>13, <1>14, <1>15 DEF Walk

\* The batch being walked, and what follows it on the trail.
LEMMA WalkFacts ==
  ASSUME TileInv, phase # "split", NEW O, Walk(O)
  PROVE  /\ walk \in O /\ walk.image \in Nat /\ n \in Nat /\ at.image \in Nat
         /\ at \in O /\ at.image >= n
         /\ current \in 1 .. Len(batches) /\ Len(batches) \in Nat
         /\ \A k \in 1 .. Len(batches) :
              /\ batches[k] \in Batches
              /\ batches[k].firstImage \in Nat /\ batches[k].lastImage \in Int
              /\ batches[k].lastImage < n
              /\ EnterBatch(batches[k]) \in O
              /\ EnterBatch(batches[k]).image = batches[k].firstImage
              /\ EnterBatch(batches[k]).grab = batches[k].firstGrab
              /\ k < Len(batches) =>
                   /\ batches[k + 1].firstImage = batches[k].lastImage + 1
                   /\ batches[k + 1].firstGrab = batches[k].lastGrab + 1
              /\ k = Len(batches) => /\ batches[k].lastImage = n - 1
                                     /\ batches[k].lastGrab = at.grab - 1
<1>1. /\ TypeOK /\ batches \in Seq(Batches) /\ at \in Counters /\ walk \in Counters
      /\ n \in Nat
  BY SizeType DEF TileInv, TypeOK
<1>2. walk \in O /\ current \in 1 .. Len(batches) /\ at \in O
  BY DEF Walk, OnTrail, Trail
<1>3. at.image \in Nat /\ walk.image \in Nat /\ at.image >= n
  BY <1>1 DEF Counters, TileInv, SplitOver
<1>4. Len(batches) \in Nat
  BY <1>1
<1>5. ASSUME NEW k \in 1 .. Len(batches)
      PROVE  /\ batches[k] \in Batches
             /\ batches[k].firstImage \in Nat /\ batches[k].lastImage \in Int
             /\ batches[k].lastImage < n
             /\ EnterBatch(batches[k]) \in O
             /\ EnterBatch(batches[k]).image = batches[k].firstImage
             /\ EnterBatch(batches[k]).grab = batches[k].firstGrab
  <2>1. batches[k] \in Batches
    BY <1>1
  <2>2. batches[k].firstImage \in Nat /\ batches[k].lastImage \in Int
    BY <2>1 DEF Batches
  <2>3. batches[k].lastImage < n
    BY DEF TileInv, InRange
  <2>4. EnterBatch(batches[k]) \in O
    BY DEF Walk, Marked
  <2> QED
    BY <2>1, <2>2, <2>3, <2>4, EnterType
<1>6. ASSUME NEW k \in 1 .. Len(batches)
      PROVE  /\ k < Len(batches) =>
                  /\ batches[k + 1].firstImage = batches[k].lastImage + 1
                  /\ batches[k + 1].firstGrab = batches[k].lastGrab + 1
             /\ k = Len(batches) => /\ batches[k].lastImage = n - 1
                                    /\ batches[k].lastGrab = at.grab - 1
  <2>1. CASE k < Len(batches)
    <3>1. PICK l \in 1 .. Len(batches) : l = k + 1 /\ l > 1 /\ l - 1 = k
      BY <2>1, <1>4
    <3>2. /\ batches[l].firstImage = batches[l - 1].lastImage + 1
          /\ batches[l].firstGrab = batches[l - 1].lastGrab + 1
      BY <3>1 DEF TileInv, BatchesTile
    <3> QED
      BY <2>1, <3>1, <3>2
  <2>2. CASE k = Len(batches)
    BY <2>2 DEF TileInv, BatchesTile
  <2> QED
    BY <2>1, <2>2, <1>4
<1> QED
  BY <1>1, <1>2, <1>3, <1>4, <1>5, <1>6

\* Where the walk stands on the trail there is a next place, which is not behind
\* the start of the next batch.
LEMMA WalkAhead ==
  ASSUME TileInv, phase # "split", Walking, NEW O, Walk(O)
  PROVE  /\ walk # at /\ Advance(walk) \in O
         /\ walk.image < Advance(walk).image
         /\ current < Len(batches) =>
              Advance(walk).image <= batches[current + 1].firstImage
<1>1. walk.image <= batches[current].lastImage /\ walk.image < at.image
  BY WalkFacts DEF Walking
<1>2. walk # at
  BY <1>1, WalkFacts
<1>3. Advance(walk) \in O /\ walk.image < Advance(walk).image
  BY <1>2, WalkFacts DEF Walk, Trail
<1>4. ASSUME current < Len(batches)
      PROVE  Advance(walk).image <= batches[current + 1].firstImage
  <2>1. current + 1 \in 1 .. Len(batches)
    BY <1>4, WalkFacts
  <2>2. PICK d \in O : d.image = batches[current + 1].firstImage
    BY <2>1, WalkFacts
  <2>3. walk.image < d.image
    BY <1>1, <1>4, <2>1, <2>2, WalkFacts
  <2> QED
    BY <2>2, <2>3, WalkFacts DEF Walk, Trail
<1> QED
  BY <1>2, <1>3, <1>4

\* The trail does not change while it is walked.
LEMMA TrailKept ==
  ASSUME phase # "split", phase' # "split", UNCHANGED <<modelVars, splitVars>>,
         NEW O, Walk(O)
  PROVE  O \in SUBSET Counters /\ Trail(O)' /\ Marked(O)' /\ Moves(O)'
<1>1. /\ \A c : Advance(c)' = Advance(c)
      /\ \A i, j : IsAxisMoved(i, j)' = IsAxisMoved(i, j)
      /\ n' = n
  BY ModelFixed DEF modelVars
<1>2. Trail(O)'
  BY <1>1 DEF Walk, Trail, splitVars
<1>3. Marked(O)'
  BY DEF Walk, Marked, splitVars, EnterBatch
<1>4. Moves(O)'
  BY <1>1 DEF Walk, Moves, splitVars, EnterBatch
<1> QED
  BY <1>2, <1>3, <1>4 DEF Walk

LEMMA WalkTurnWalk ==
  ASSUME TileInv, WalkTurn, NEW O, Walk(O)
  PROVE  Walk(O)'
<1>0. /\ phase # "split" /\ Walking /\ walk' = Advance(walk)
      /\ UNCHANGED <<modelVars, splitVars>> /\ UNCHANGED <<phase, current, batches>>
  BY DEF WalkTurn, splitVars
<1>1. O \in SUBSET Counters /\ Trail(O)' /\ Marked(O)' /\ Moves(O)'
  BY <1>0, TrailKept
<1>2. /\ Advance(walk) \in O /\ walk.image < Advance(walk).image
      /\ current < Len(batches) =>
           Advance(walk).image <= batches[current + 1].firstImage
  BY <1>0, WalkAhead
<1>3. \A c \in O : c.image \in Nat
  BY <1>1 DEF Counters
<1>4. batches[current].firstImage <= walk.image
      /\ batches[current].firstImage \in Nat
  BY <1>0, WalkFacts DEF Walk, OnTrail
<1>5. batches[current].firstImage <= Advance(walk).image
  BY <1>0, <1>2, <1>3, <1>4, WalkFacts
<1>6. OnTrail(O)'
  BY <1>0, <1>2, <1>5, WalkFacts DEF OnTrail
<1> QED
  BY <1>1, <1>6 DEF Walk

LEMMA WalkNextWalk ==
  ASSUME TileInv, Sorted, WalkNext, NEW O, Walk(O)
  PROVE  Walk(O)'
<1>0. /\ phase = "walk" /\ phase' # "split"
      /\ UNCHANGED <<modelVars, splitVars>> /\ batches' = batches
  BY DEF WalkNext, splitVars
<1>1. O \in SUBSET Counters /\ Trail(O)' /\ Marked(O)' /\ Moves(O)'
  BY <1>0, TrailKept
<1>2. CASE /\ current < Len(batches) /\ current' = current + 1
           /\ walk' = EnterBatch(batches[current + 1])
  <2>1. PICK l \in 1 .. Len(batches) : l = current + 1
    BY <1>0, <1>2, WalkFacts
  <2>2. walk' \in O /\ walk'.image = batches[l].firstImage
        /\ batches[l].firstImage \in Nat /\ batches[l].lastImage \in Int
    BY <2>1, <1>0, <1>2, WalkFacts
  <2>3. batches[l].firstImage <= batches[l].lastImage + 1
    BY DEF Sorted
  <2>4. l < Len(batches) => batches[l + 1].firstImage = batches[l].lastImage + 1
    BY <1>0, WalkFacts
  <2>5. OnTrail(O)'
    BY <2>1, <2>2, <2>3, <2>4, <1>0, <1>2 DEF OnTrail
  <2> QED
    BY <2>5, <1>1 DEF Walk
<1>3. CASE UNCHANGED <<current, walk>>
  BY <1>0, <1>1, <1>3 DEF Walk, OnTrail
<1> QED
  BY <1>2, <1>3 DEF WalkNext

LEMMA WalkInit == Init => WalkInv
<1> SUFFICES ASSUME Init PROVE WalkInv
  OBVIOUS
<1>1. TileInv /\ n \in Nat
  BY TileInit, SizeType DEF TileInv
<1>2. /\ Len(batches) = 0 /\ phase = "split" /\ at = Origin /\ open = OpenAt(Origin)
      /\ Origin \in Counters
  BY DEF Init, Origin, Counters
<1>3. open.firstImage = 0 /\ EnterBatch(open) = Origin
  BY <1>2, OpenTypes DEF Origin
<1>4. Sorted
  BY <1>1, <1>2, <1>3 DEF Sorted
<1>5. Walk({Origin})
  <2>1. Trail({Origin})
    BY <1>2 DEF Trail, Origin
  <2>2. Marked({Origin}) /\ Moves({Origin}) /\ OnTrail({Origin})
    BY <1>2, <1>3 DEF Marked, Moves, OnTrail
  <2> QED
    BY <2>1, <2>2, <1>2 DEF Walk
<1> QED
  BY <1>1, <1>4, <1>5 DEF WalkInv

LEMMA WalkStep == WalkInv /\ [Next]_vars => WalkInv'
<1> SUFFICES ASSUME WalkInv, [Next]_vars PROVE WalkInv'
  OBVIOUS
<1>0. TileInv /\ TileInv' /\ Sorted
  BY TileStep DEF WalkInv
<1>1. PICK O : Walk(O)
  BY DEF WalkInv
<1>2. CASE SplitTurn
  BY <1>0, <1>1, <1>2, SortedTurn, SplitTurnWalk DEF WalkInv
<1>3. CASE SplitEnd
  BY <1>0, <1>1, <1>3, SplitEndWalk DEF WalkInv
<1>4. CASE WalkTurn
  <2>1. Sorted'
    BY <1>0, <1>4 DEF Sorted, WalkTurn, splitVars, modelVars
  <2> QED
    BY <2>1, <1>0, <1>1, <1>4, WalkTurnWalk DEF WalkInv
<1>5. CASE WalkNext
  <2>1. Sorted'
    BY <1>0, <1>5 DEF Sorted, WalkNext, splitVars, modelVars
  <2> QED
    BY <2>1, <1>0, <1>1, <1>5, WalkNextWalk DEF WalkInv
<1>6. CASE UNCHANGED vars
  <2>1. Sorted'
    BY <1>0, <1>6 DEF Sorted, vars, splitVars, modelVars
  <2>2. /\ \A c : Advance(c)' = Advance(c)
        /\ \A i : ImagesOf(i)' = ImagesOf(i)
        /\ \A i, j : IsAxisMoved(i, j)' = IsAxisMoved(i, j)
    BY <1>6, ModelFixed DEF vars
  <2>3. Trail(O)' /\ Marked(O)' /\ Moves(O)' /\ OnTrail(O)'
    BY <2>2, <1>1, <1>6 DEF Walk, Trail, Marked, Moves, OnTrail, EnterBatch,
                            vars, splitVars, modelVars
  <2> QED
    BY <2>1, <2>3, <1>0, <1>1 DEF WalkInv, Walk
<1> QED
  BY <1>2, <1>3, <1>4, <1>5, <1>6 DEF Next

\* Where a walk ends the next batch starts.
LEMMA WalkMeets == WalkInv => WalksMeet
<1> SUFFICES ASSUME WalkInv, phase # "split", ~Walking
             PROVE  /\ walk.grab = batches[current].lastGrab + 1
                    /\ walk = IF current < Len(batches)
                                THEN EnterBatch(batches[current + 1]) ELSE at
  BY DEF WalksMeet
<1>0. TileInv
  BY DEF WalkInv
<1>1. PICK O : Walk(O)
  BY DEF WalkInv
<1>2. walk.image >= batches[current].lastImage + 1
  BY <1>0, <1>1, WalkFacts DEF Walking
<1>3. CASE current < Len(batches)
  <2>1. PICK l \in 1 .. Len(batches) : l = current + 1
    BY <1>0, <1>1, <1>3, WalkFacts
  <2>2. walk.image <= batches[l].firstImage
        /\ batches[l].firstImage = batches[current].lastImage + 1
    BY <2>1, <1>0, <1>1, <1>3, WalkFacts DEF Walk, OnTrail
  <2>3. PICK d \in O : d = EnterBatch(batches[l]) /\ d.image = batches[l].firstImage
                       /\ d.grab = batches[l].firstGrab
    BY <1>0, <1>1, WalkFacts
  <2>4. walk.image = d.image
    BY <2>2, <2>3, <1>0, <1>1, <1>2, WalkFacts
  <2>5. walk = d
    BY <2>4, <1>0, <1>1, WalkFacts DEF Walk, Trail
  <2>6. batches[l].firstGrab = batches[current].lastGrab + 1
    BY <2>1, <1>0, <1>1, <1>3, WalkFacts
  <2> QED
    BY <2>1, <2>3, <2>5, <2>6, <1>3
<1>4. CASE current = Len(batches)
  <2>1. batches[current].lastImage = n - 1 /\ batches[current].lastGrab = at.grab - 1
    BY <1>0, <1>1, <1>4, WalkFacts
  <2>2. walk.image >= n
    BY <2>1, <1>0, <1>1, <1>2, WalkFacts
  <2>3. walk = at
    BY <2>2, <1>0, <1>1, WalkFacts DEF Walk, Trail
  <2>4. at.grab \in Nat
    BY <1>0 DEF TileInv, TypeOK, Counters
  <2> QED
    BY <2>1, <2>3, <2>4, <1>4
<1> QED
  BY <1>0, <1>1, <1>3, <1>4, WalkFacts

\* Between two sequences of one batch the split saw no axis move.
LEMMA WalkStill ==
  WalkInv /\ WalkTurn /\ walk'.image < batches[current].lastImage + 1
    => ~IsAxisMoved(walk.image, walk'.image)
<1> SUFFICES ASSUME WalkInv, WalkTurn, walk'.image < batches[current].lastImage + 1,
                    IsAxisMoved(walk.image, walk'.image)
             PROVE  FALSE
  OBVIOUS
<1>0. TileInv /\ Sorted /\ phase # "split" /\ Walking /\ walk' = Advance(walk)
  BY DEF WalkInv, WalkTurn
<1>1. PICK O : Walk(O)
  BY DEF WalkInv
<1>2. /\ walk # at /\ Advance(walk) \in O /\ walk.image < Advance(walk).image
      /\ Advance(walk).image \in Nat
  <2>1. \A c \in Counters : c.image \in Nat
    BY DEF Counters
  <2> QED
    BY <2>1, <1>0, <1>1, WalkAhead DEF Walk
<1>3. Advance(walk) # at
  BY <1>0, <1>1, <1>2, WalkFacts
<1>4. PICK k \in 1 .. Len(batches) : Advance(walk) = EnterBatch(batches[k])
  BY <1>0, <1>1, <1>2, <1>3, WalkFacts DEF Walk, Moves
<1>5. Advance(walk).image = batches[k].firstImage
  BY <1>0, <1>1, <1>4, WalkFacts
<1>6. batches[current].firstImage < batches[k].firstImage
  BY <1>0, <1>1, <1>2, <1>5, WalkFacts DEF Walk, OnTrail
<1>7. batches[current].lastImage < batches[k].firstImage
  BY <1>0, <1>1, <1>6, WalkFacts DEF Sorted
<1> QED
  BY <1>0, <1>1, <1>5, <1>7, WalkFacts

-----------------------------------------------------------------------------
(* Motion.  GrabStart knows where the axes stand as soon as it has sent them *)
(* somewhere in this batch.                                                *)

KnowsPlace == last = Home \/ last = stage

MotionInv == WalkInv /\ KnowsPlace

LEMMA DistanceFacts ==
  ASSUME NEW a \in Int, NEW b \in Int
  PROVE  /\ Distance(a, a) = 0
         /\ Distance(a, b) = Distance(b, a)
         /\ \A c \in Int : Distance(a, c) <= Distance(a, b) + Distance(b, c)
  BY DEF Distance

LEMMA MotionInit == Init => MotionInv
  BY WalkInit DEF Init, MotionInv, KnowsPlace

LEMMA MotionStep == MotionInv /\ [Next]_vars => MotionInv'
<1> SUFFICES ASSUME MotionInv, [Next]_vars PROVE KnowsPlace'
  BY WalkStep DEF MotionInv
<1>1. CASE SplitTurn
  BY <1>1 DEF SplitTurn, axes, MotionInv, KnowsPlace
<1>2. CASE SplitEnd
  BY <1>2 DEF SplitEnd, KnowsPlace
<1>3. CASE WalkTurn
  BY <1>3 DEF WalkTurn, axes, MotionInv, KnowsPlace
<1>4. CASE WalkNext
  BY <1>4 DEF WalkNext, MotionInv, KnowsPlace
<1>5. CASE UNCHANGED vars
  BY <1>5 DEF vars, axes, MotionInv, KnowsPlace
<1> QED
  BY <1>1, <1>2, <1>3, <1>4, <1>5 DEF Next

\* The sequence a turn grabs is one of the model.
LEMMA TurnImage ==
  ASSUME WalkInv, WalkTurn
  PROVE  walk.image \in Nat /\ walk.image < n /\ images[walk.image].place \in Stands
<1>1. TileInv /\ TypeOK /\ phase # "split" /\ Walking
  BY DEF WalkInv, TileInv, WalkTurn
<1>2. PICK O : Walk(O)
  BY DEF WalkInv
<1>3. walk.image \in Nat /\ walk.image < n
  BY <1>1, <1>2, WalkFacts DEF Walking
<1> QED
  BY <1>1, <1>3, ImageTypes

\* Where the axes stand when a turn grabs its sequence.
LEMMA InPlace ==
  ASSUME MotionInv, WalkTurn
  PROVE  \/ Near(images[walk.image].place, stage')
         \/ Near(images[walk.image].place, Home) /\ last' = Home
<1>1. images[walk.image].place \in Stands
  BY TurnImage DEF MotionInv
<1>2. Near(images[walk.image].place, images[walk.image].place)
  <2>1. images[walk.image].place.pos \in Int /\ images[walk.image].place.rest \in Int
    BY <1>1 DEF Stands
  <2> QED
    BY <2>1, DistanceFacts, SplitAssumption DEF Near
<1>3. CASE Near(images[walk.image].place, last) /\ UNCHANGED axes
  BY <1>3 DEF MotionInv, KnowsPlace, axes
<1>4. CASE stage' = images[walk.image].place
  BY <1>2, <1>4
<1> QED
  BY <1>3, <1>4 DEF WalkTurn

\* The next sequence of the batch is close to this one, and this one to where
\* the axes stand.
LEMMA NoJump ==
  ASSUME MotionInv, WalkTurn, moving, walk'.image < batches[current].lastImage + 1
  PROVE  \/ Distance(images[walk'.image].place.pos, stage'.pos) <= 2 * MoveOffset
         \/ Near(images[walk.image].place, Home) /\ last' = Home
<1>0. WalkInv /\ TileInv /\ TypeOK /\ TypeOK' /\ Walking /\ phase # "split"
  <2>1. WalkInv' /\ WalkInv
    BY WalkStep DEF MotionInv, Next
  <2> QED
    BY <2>1 DEF WalkInv, TileInv, WalkTurn
<1>1. ~IsAxisMoved(walk.image, walk'.image)
  BY <1>0, WalkStill
<1>2. walk'.image \in Nat /\ walk'.image < n
  <2>1. walk' \in Counters
    BY <1>0 DEF TypeOK
  <2>2. PICK O : Walk(O)
    BY <1>0 DEF WalkInv
  <2>3. batches[current].lastImage \in Int /\ batches[current].lastImage < n /\ n \in Nat
    BY <1>0, <2>2, WalkFacts
  <2>4. walk'.image \in Nat
    BY <2>1 DEF Counters
  <2> QED
    BY <2>3, <2>4
<1>3. PICK a \in Int, b \in Int, c \in Int :
        /\ a = images[walk'.image].place.pos
        /\ b = images[walk.image].place.pos
        /\ c = stage'.pos
  <2>1. images[walk'.image].place \in Stands
    BY <1>0, <1>2, ImageTypes
  <2>2. images[walk.image].place \in Stands
    BY <1>0, TurnImage
  <2>3. stage' \in Stands
    BY <1>0 DEF TypeOK
  <2> QED
    BY <2>1, <2>2, <2>3 DEF Stands
<1>4. Distance(a, b) <= MoveOffset
  <2>1. Distance(a, b) \in Int
    BY DEF Distance
  <2> QED
    BY <2>1, <1>1, <1>3, SplitAssumption DEF IsAxisMoved
<1>5. CASE Near(images[walk.image].place, stage')
  <2>1. Distance(b, c) <= MoveOffset
    BY <1>3, <1>5 DEF Near
  <2>2. Distance(a, c) <= Distance(a, b) + Distance(b, c)
    BY DistanceFacts
  <2>3. Distance(a, b) \in Int /\ Distance(b, c) \in Int /\ Distance(a, c) \in Int
    BY DEF Distance
  <2>4. Distance(a, c) <= 2 * MoveOffset
    BY <2>1, <2>2, <2>3, <1>4, SplitAssumption
  <2> QED
    BY <2>4, <1>3
<1> QED
  BY <1>5, InPlace

-----------------------------------------------------------------------------
\* What every reachable state satisfies.
LEMMA TileAlways == Spec => []TileInv
<1> QED
  BY TileInit, TileStep, PTL DEF Spec

\* SplitBatches_AxisMove, GrabStart, CopyGrabImages: indices keep their types,
\* whatever the images of a model are.
THEOREM SplitTypeCorrect == Spec => []TypeOK
<1>1. TileInv => TypeOK
  BY DEF TileInv
<1> QED
  BY <1>1, TileAlways, PTL

\* SplitBatches_AxisMove: the batches tile the scan, one behind the other, in
\* images and in raw grabs, for every model.
THEOREM BatchesTileScan == Spec => []BatchesTile
<1>1. TileInv => BatchesTile
  BY DEF TileInv
<1> QED
  BY <1>1, TileAlways, PTL

LEMMA WalkAlways == Spec => []WalkInv
<1> QED
  BY WalkInit, WalkStep, PTL DEF Spec

\* GrabStart, CopyGrabImages: for every model the walk of a batch ends exactly
\* where the next one starts, in images, raw grabs and both kinds of sequences,
\* and the last where the split ended: no loop skips, repeats or overruns.
THEOREM WalksMeetTheSplit == Spec => []WalksMeet
<1> QED
  BY WalkMeets, WalkAlways, PTL

LEMMA MotionAlways == Spec => []MotionInv
<1> QED
  BY MotionInit, MotionStep, PTL DEF Spec

\* MoveMotionAndChangeSequence: for every model and every place the axes start
\* from, each image is grabbed within Z_MOVE_OFFSET of the place taught for it,
\* unless that place is near zero and its batch has moved nothing yet.
THEOREM ImagesGrabbedInPlace == Spec => GrabbedInPlace
<1>1. MotionInv =>
        [WalkTurn => \/ Near(images[walk.image].place, stage')
                     \/ Near(images[walk.image].place, Home) /\ last' = Home]_vars
  BY InPlace
<1> QED
  BY <1>1, MotionAlways, PTL DEF GrabbedInPlace

\* SplitBatches_AxisMove and GrabStart: for every model, no axis that parts
\* batches has further than twice Z_MOVE_OFFSET to go inside a batch.
THEOREM BatchesNeverJump == Spec => NoJumpInBatch
<1>1. MotionInv =>
        [(WalkTurn /\ moving /\ walk'.image < batches[current].lastImage + 1) =>
           \/ Distance(images[walk'.image].place.pos, stage'.pos) <= 2 * MoveOffset
           \/ Near(images[walk.image].place, Home) /\ last' = Home]_vars
  BY NoJump
<1> QED
  BY <1>1, MotionAlways, PTL DEF NoJumpInBatch
=============================================================================
