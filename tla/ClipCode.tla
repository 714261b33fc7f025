------------------------------- MODULE ClipCode -------------------------------
(***************************************************************************)
(* How a mark id is read back from a clip (web/src/layouts.ts,             *)
(* video-rep-v1): a block of an id and its checksum, repeated Reps times,  *)
(* the copies summed as soft votes.  The source has IdBits 24, CrcBits 8   *)
(* and Reps 8.                                                             *)
(*                                                                         *)
(* What the model says of a frame is one integer for each place of each    *)
(* copy, its sign the bit and its size how sure it is.                     *)
(***************************************************************************)
EXTENDS Integers, FiniteSets, SequencesExt, Functions

CONSTANTS IdBits, CrcBits, Reps,
          CrcPoly   \* the checksum's polynomial below its leading term, highest first

ASSUME ClipAssumption ==
  /\ {IdBits, CrcBits, Reps} \subseteq Nat \ {0}
  /\ CrcPoly \in [1 .. CrcBits -> {0, 1}]

BlockBits == IdBits + CrcBits
Copies == 1 .. Reps
Block == 1 .. BlockBits
MarkIds == [1 .. IdBits -> {0, 1}]
NoId == << >>

\* crc8: the register shifts left, fed from the top.
ShiftIn(register, bit) ==
  LET top == (register[1] + bit) % 2 IN
  [i \in 1 .. CrcBits |->
     ((IF i < CrcBits THEN register[i + 1] ELSE 0) + top * CrcPoly[i]) % 2]
crc(id) == FoldLeft(ShiftIn, [i \in 1 .. CrcBits |-> 0], id)
Encoded(id) == id \o crc(id)

\* decodeBlock: the vote of the copies, and how many of their places agree with it.
Combined(soft, i) == FoldFunctionOnSet(+, 0, [r \in Copies |-> soft[r][i]], Copies)
Vote(soft) == [i \in Block |-> IF Combined(soft, i) > 0 THEN 1 ELSE 0]
Agreeing(soft, vote) ==
  Cardinality({p \in Copies \X Block : (soft[p[1]][p[2]] > 0) <=> (vote[p[2]] = 1)})
IdIn(vote) ==
  LET id == SubSeq(vote, 1, IdBits) IN
  IF (\A i \in 1 .. IdBits : id[i] = 0) \/ vote # Encoded(id) THEN NoId ELSE id
decodeBlock(soft) ==
  [ markId |-> IdIn(Vote(soft)), agreed |-> Agreeing(soft, Vote(soft)), refused |-> FALSE ]

\* VIDEO_AGREEMENT_FLOOR, 0.85 of the places.
UnderFloor(agreed) == 100 * agreed < 85 * Reps * BlockBits
floored(block) ==
  IF block.markId # NoId /\ UnderFloor(block.agreed)
  THEN [block EXCEPT !.markId = NoId, !.refused = TRUE] ELSE block

\* decodeClip averages the frames; their sum has the same signs.
Total(frames) ==
  [r \in Copies |-> [i \in Block |->
     FoldFunctionOnSet(+, 0, [k \in DOMAIN frames |-> frames[k][r][i]], DOMAIN frames)]]

\* readClip: the aggregate alone is held to the floor; the frames are counted against
\* the id it gave.
NoCount == -1
readClip(aggregate, blocks) ==
  LET clip == floored(aggregate) IN
  [ markId |-> clip.markId, agreed |-> clip.agreed, refused |-> clip.refused,
    withId |-> IF clip.markId = NoId THEN NoCount
               ELSE Cardinality({k \in DOMAIN blocks : blocks[k].markId = clip.markId}) ]
decodeClip(frames) ==
  readClip(decodeBlock(Total(frames)), [k \in DOMAIN frames |-> decodeBlock(frames[k])])

\* What the pixels really carry: an id is in them when the places of its copies that
\* the frames contradict together stay within what the layout tolerates.
Carries(frames, id) ==
  LET soft == Total(frames) IN ~UnderFloor(Agreeing(soft, Encoded(id)))
=============================================================================
