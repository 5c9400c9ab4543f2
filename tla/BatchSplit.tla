----------------------------- MODULE BatchSplit -----------------------------
(***************************************************************************)
(* How a scan is cut into batches, and how the batches are walked again.   *)
(*                                                                         *)
(* SplitBatches_AxisMove goes once through the images of a model, one grab *)
(* sequence at a time, and opens a new batch where an axis has moved.      *)
(* GrabStart and CopyGrabImages later go through each batch on their own,  *)
(* starting from the counters the batch remembers.  Three loops in three   *)
(* files have to agree on where every image lies.                          *)
(*                                                                         *)
(* The axes move while a batch is walked, too: before each grab GrabStart  *)
(* compares the place taught for the image with the one it moved to last.  *)
(***************************************************************************)
EXTENDS Integers, Sequences

CONSTANTS
  MaxImages,   \* bound on m_iNoUsedImageGrab
  MaxCount,    \* bound on m_iAddrCount, images of one plain grab sequence
  Places,      \* places of the six axes that are taught for images
  MoveOffset,  \* Z_MOVE_OFFSET
  Parked       \* where the axes stand before the scan

ASSUME SplitAssumption ==
  /\ MaxImages \in Nat
  /\ MaxCount \in Nat
  /\ Places \subseteq [pos : Int, rest : Int]
  /\ MoveOffset \in Nat
  /\ Parked \in [pos : Int, rest : Int]

Indexes == 0 .. MaxImages - 1
Kinds   == {"specular", "diffused", "plain"}
\* pos: head X, stage Y and tilt; rest: camera Z, light Z and rotation.
Stands  == [pos : Int, rest : Int]
\* What the model file says of an image.
ImageData == [kind : Kinds, count : 0 .. MaxCount, place : Places]

\* BATCH_INFO, without the axis positions, times and status nothing reads.
Batches == [firstImage : Nat, lastImage : Int, firstGrab : Nat, lastGrab : Int,
            specular : Nat, diffused : Nat]

VARIABLES
  n,         \* iNoUsedImageGrab
  images,    \* the model data of each image
  moving,    \* the camera is one whose axes move (VISION_NUMBER_2, _4)
  phase,     \* "split", then "walk", then "done"
  batches,   \* vBatches
  open,      \* currentBatch
  prev,      \* iPrevImageIdx
  at,        \* where the split stands: image, raw grab, specular, diffused index
  current,   \* the batch being walked
  walk,      \* where its walk stands
  last,      \* dPrevHeadX and the others: where the axes were sent last
  stage      \* where the axes stand

modelVars == <<n, images, moving>>
splitVars == <<batches, open, prev, at>>
axes == <<last, stage>>
vars == <<modelVars, phase, splitVars, current, walk, axes>>

Home == [pos |-> 0, rest |-> 0]
Origin == [image |-> 0, grab |-> 0, specular |-> 0, diffused |-> 0]

\* DFM_USED_CONV_IMAGE_NUMBER, DIFFUSED_USED_CONV_IMAGE_NUMBER, m_iAddrCount.
ImagesOf(i) == CASE images[i].kind = "specular" -> 2
                 [] images[i].kind = "diffused" -> 1
                 [] OTHER -> images[i].count
\* SPV_RAW_IMAGE_NUMBER, DIFFUSED_RAW_IMAGE_NUMBER, m_iAddrCount.
RawOf(i) == CASE images[i].kind = "specular" -> 8
              [] images[i].kind = "diffused" -> 4
              [] OTHER -> images[i].count

One(cond) == IF cond THEN 1 ELSE 0

\* Mutant: a diffused sequence is skipped without counting it.
AdvanceStuck(c) ==
  IF images[c.image].kind = "diffused" THEN c
  ELSE [image    |-> c.image + ImagesOf(c.image),
        grab     |-> c.grab + RawOf(c.image),
        specular |-> c.specular + One(images[c.image].kind = "specular"),
        diffused |-> c.diffused]

\* One grab sequence further.
Advance(c) ==
  [image    |-> c.image + ImagesOf(c.image),
   grab     |-> c.grab + RawOf(c.image),
   specular |-> c.specular + One(images[c.image].kind = "specular"),
   diffused |-> c.diffused + One(images[c.image].kind = "diffused")]

Distance(a, b) == IF a >= b THEN a - b ELSE b - a

\* Only the axes in "pos" count, and only for a camera whose axes move.
IsAxisMoved(i, j) ==
  moving /\ Distance(images[j].place.pos, images[i].place.pos) > MoveOffset

\* No axis further apart than Z_MOVE_OFFSET.
Near(p, q) == /\ Distance(p.pos, q.pos) <= MoveOffset
              /\ Distance(p.rest, q.rest) <= MoveOffset

\* Mutant: iStartSpecularIdx keeps the value of the first batch.
OpenNoSpecular(c) == [firstImage |-> c.image, lastImage |-> 0,
                      firstGrab |-> c.grab, lastGrab |-> 0,
                      specular |-> 0, diffused |-> c.diffused]

\* A batch that begins where the loop stands.
OpenAt(c) == [firstImage |-> c.image, lastImage |-> 0, firstGrab |-> c.grab,
              lastGrab |-> 0, specular |-> c.specular, diffused |-> c.diffused]

\* Where the loops of GrabStart and CopyGrabImages begin in batch b.
EnterBatch(b) == [image |-> b.firstImage, grab |-> b.firstGrab,
                  specular |-> b.specular, diffused |-> b.diffused]

-----------------------------------------------------------------------------
Init ==
  /\ n \in 0 .. MaxImages
  /\ images \in [0 .. n - 1 ->
                   {d \in ImageData : d.kind = "plain" \/ d.count = 1}]
  /\ moving \in BOOLEAN
  /\ phase = "split"
  /\ batches = <<>>
  /\ open = OpenAt(Origin)
  /\ prev = 0
  /\ at = Origin
  /\ current = 0
  /\ walk = Origin
  /\ last = Home
  /\ stage = Parked

\* Mutant: the closed batch takes the image at which the axis moved.
CloseLate(b, c) == [b EXCEPT !.lastImage = c.image, !.lastGrab = c.grab - 1]

\* The batch ends before the image the loop stands at.
Close(b, c) == [b EXCEPT !.lastImage = c.image - 1, !.lastGrab = c.grab - 1]

\* Mutant: iPrevImageIdx is set behind the increments, to the next sequence.
SplitTurnLate ==
  /\ phase = "split"
  /\ at.image < n
  /\ \/ /\ at.image > 0 /\ IsAxisMoved(prev, at.image)
        /\ batches' = Append(batches, Close(open, at))
        /\ open' = OpenAt(at)
     \/ /\ ~(at.image > 0 /\ IsAxisMoved(prev, at.image))
        /\ UNCHANGED <<batches, open>>
  /\ at' = Advance(at)
  /\ prev' = at'.image
  /\ UNCHANGED <<modelVars, phase, current, walk, axes>>

\* One turn of the loop: close the batch when the axes moved since the last
\* grab sequence, then go one sequence further.
SplitTurn ==
  /\ phase = "split"
  /\ at.image < n
  /\ \/ /\ at.image > 0 /\ IsAxisMoved(prev, at.image)
        /\ batches' = Append(batches, Close(open, at))
        /\ open' = OpenAt(at)
     \/ /\ ~(at.image > 0 /\ IsAxisMoved(prev, at.image))
        /\ UNCHANGED <<batches, open>>
  /\ prev' = at.image
  /\ at' = Advance(at)
  /\ UNCHANGED <<modelVars, phase, current, walk, axes>>

\* Mutant: the walk begins with the second batch.
SplitEndSkips ==
  /\ phase = "split"
  /\ at.image >= n
  /\ batches' = Append(batches, [open EXCEPT !.lastImage = n - 1,
                                             !.lastGrab = at.grab - 1])
  /\ phase' = "walk"
  /\ current' = 2
  /\ walk' = EnterBatch(batches'[1])
  /\ last' = Home
  /\ UNCHANGED <<modelVars, open, prev, at, stage>>

\* The last batch ends with the last image, though the last sequence may count
\* more images than the model has.  The first batch can be walked.
SplitEnd ==
  /\ phase = "split"
  /\ at.image >= n
  /\ batches' = Append(batches, [open EXCEPT !.lastImage = n - 1,
                                             !.lastGrab = at.grab - 1])
  /\ phase' = "walk"
  /\ current' = 1
  /\ walk' = EnterBatch(batches'[1])
  /\ last' = Home
  /\ UNCHANGED <<modelVars, open, prev, at, stage>>

Walking == walk.image < batches[current].lastImage + 1

\* Mutant: MoveMotionAndChangeSequence takes the place of every image for the
\* last one, whether the axes were sent there or not.
WalkTurnForgets ==
  /\ phase = "walk"
  /\ Walking
  /\ LET place == images[walk.image].place
     IN  /\ \/ Near(place, last) /\ UNCHANGED stage
            \/ ~Near(place, last) /\ stage' = place
         /\ last' = place
  /\ walk' = Advance(walk)
  /\ UNCHANGED <<modelVars, phase, splitVars, current>>

\* One turn of the loop of GrabStart: MoveMotionAndChangeSequence sends all axes
\* to the place taught for the image when one of them is too far from where
\* they were sent last, and waits for them; then the sequence is grabbed.
\* The loop of CopyGrabImages advances alike, and moves nothing.
WalkTurn ==
  /\ phase = "walk"
  /\ Walking
  /\ LET place == images[walk.image].place
     IN  \/ Near(place, last) /\ UNCHANGED axes
         \/ ~Near(place, last) /\ last' = place /\ stage' = place
  /\ walk' = Advance(walk)
  /\ UNCHANGED <<modelVars, phase, splitVars, current>>

\* The loop over the batches.  Each call of GrabStart takes its axes to have
\* been sent to zero, wherever the batch before has left them.
WalkNext ==
  /\ phase = "walk"
  /\ ~Walking
  /\ \/ /\ current < Len(batches)
        /\ current' = current + 1
        /\ walk' = EnterBatch(batches[current + 1])
        /\ last' = Home
        /\ UNCHANGED phase
     \/ /\ current = Len(batches)
        /\ phase' = "done"
        /\ UNCHANGED <<current, walk, last>>
  /\ UNCHANGED <<modelVars, splitVars, stage>>

Next == SplitTurn \/ SplitEnd \/ WalkTurn \/ WalkNext
Spec == Init /\ [][Next]_vars /\ WF_vars(Next)

-----------------------------------------------------------------------------
Counters == [image : Nat, grab : Nat, specular : Nat, diffused : Nat]

\* Types.
TypeOK ==
  /\ n \in 0 .. MaxImages
  /\ images \in [0 .. n - 1 -> ImageData]
  /\ moving \in BOOLEAN
  /\ phase \in {"split", "walk", "done"}
  /\ batches \in Seq(Batches)
  /\ open \in Batches
  /\ prev \in Nat
  /\ at \in Counters
  /\ current \in 0 .. Len(batches)
  /\ walk \in Counters
  /\ last \in Stands
  /\ stage \in Stands

\* SplitBatches_AxisMove: the batches lie one behind the other, in images and
\* in raw grabs, from the first to the last; none is empty unless the model is.
BatchesTile ==
  \A k \in 1 .. Len(batches) :
    /\ k = 1 => batches[k].firstImage = 0 /\ batches[k].firstGrab = 0
    /\ k > 1 => /\ batches[k].firstImage = batches[k - 1].lastImage + 1
                /\ batches[k].firstGrab = batches[k - 1].lastGrab + 1
    /\ n > 0 => batches[k].firstImage <= batches[k].lastImage
    /\ phase # "split" /\ k = Len(batches) =>
         /\ batches[k].lastImage = n - 1
         /\ batches[k].lastGrab = at.grab - 1

\* GrabStart, CopyGrabImages: the walk of a batch ends exactly where the next
\* one starts, in every counter, and the last where the split ended.  So each
\* raw image is grabbed, converted (iStartGrabIdx to iEndGrabIdx) and copied
\* once, to the place it would have without batches.
WalksMeet ==
  phase # "split" /\ ~Walking =>
    /\ walk.grab = batches[current].lastGrab + 1
    /\ walk = IF current < Len(batches) THEN EnterBatch(batches[current + 1])
              ELSE at

\* MoveMotionAndChangeSequence: an image is grabbed with every axis within
\* Z_MOVE_OFFSET of the place taught for it, though the axes are not sent there
\* for each image, however the places drift from one image to the next.  Not so
\* an image taught within Z_MOVE_OFFSET of zero on all axes: it is grabbed where
\* the batch before has left them, when nothing in its own batch has moved them.
GrabbedInPlace ==
  [][WalkTurn => \/ Near(images[walk.image].place, stage')
                 \/ Near(images[walk.image].place, Home) /\ last' = Home]_vars

\* SplitBatches_AxisMove against GrabStart: inside a batch head X, stage Y and
\* tilt may follow a drift but never jump: from where they stand the next
\* sequence of the batch is at most twice Z_MOVE_OFFSET away.
NoJumpInBatch ==
  [][(WalkTurn /\ moving /\ walk'.image < batches[current].lastImage + 1) =>
       \/ Distance(images[walk'.image].place.pos, stage'.pos) <= 2 * MoveOffset
       \/ Near(images[walk.image].place, Home) /\ last' = Home]_vars

\* The split ends, and so does each walk, unless a plain sequence counts no
\* image: then the loop turns for ever, under the lock of the context.
EndsUnlessEmptySequence ==
  <>(phase = "done" \/ \E i \in 0 .. n - 1 : ImagesOf(i) = 0)
=============================================================================
