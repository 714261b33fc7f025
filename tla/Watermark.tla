------------------------------ MODULE Watermark ------------------------------
(***************************************************************************)
(* A declared watermark, from the pixels to its line in the verdict: a     *)
(* detector reads frames and reports (web/src/detector-runtime.ts), the    *)
(* report travels as a file somebody hands on (web/src/evidence.ts,        *)
(* --watermark), and the core compares it with the ids the device signed   *)
(* (core/src/watermark.ts).  Who hands the report on may lose members of   *)
(* it; nothing signs it.                                                   *)
(***************************************************************************)
EXTENDS PhotoCode, ClipCode

CONSTANTS
  Soft,         \* what the model may say of one frame
  VIDEO_FRAMES, \* sampled from a clip
  Claims        \* of a signed core: [layout, captureId, markId]

ASSUME WatermarkAssumption == Soft \subseteq [Copies -> [Block -> Int]]

VARIABLES
  claim,
  frames,     \* of the clip, as the model said them
  shown,      \* what the progress line says was read so far
  evidence,   \* NoEvidence until there is a report
  relayed     \* somebody handed it on without a member

watermarkVars == <<claim, frames, shown, evidence, relayed>>

Photo == "photo-bch-v3"
Video == "video-rep-v1"
NoEvidence == [layout |-> "no_report"]
Unsaid == ""                 \* a layout nobody named
Absent == NoId               \* an id that is not there
NoNumber == NoCount          \* a figure that is not there
Unreadable == <<-1>>         \* no bits: something that is no id

WatermarkInit ==
  /\ claim \in Claims
  /\ frames = << >>
  /\ shown = NoId
  /\ evidence = NoEvidence
  /\ relayed = FALSE

\* detect, for each frame of a clip: kept, and the clip so far decoded for the reader.
Sample(soft) ==
  /\ claim.layout = Video /\ evidence = NoEvidence /\ Len(frames) < VIDEO_FRAMES
  /\ frames' = Append(frames, soft)
  /\ shown' = decodeClip(frames').markId
  /\ UNCHANGED <<claim, evidence, relayed>>

\* evidenceOf a clip; there is no count when there is no id to count against.
ClipEvidence ==
  LET clip == decodeClip(frames) IN
  [ layout |-> Video,
    decoded |-> clip.markId,
    agreement |-> clip.agreed,
    id_refused |-> clip.refused,
    sampled |-> Len(frames),
    withId |-> clip.withId ]
\* The end of the clip, or a still once its word is decoded.  Any layout but the
\* clip's is read as a still.
Report ==
  /\ evidence = NoEvidence
  /\ \/ /\ claim.layout = Video /\ Len(frames) = VIDEO_FRAMES
        /\ evidence' = ClipEvidence
     \/ /\ claim.layout # Video /\ payload # Undecided
        /\ evidence' = [ layout |-> Photo,
                         decoded |-> IF payload = NoWord THEN Absent ELSE payload,
                         agreement |-> NoNumber, id_refused |-> FALSE,
                         sampled |-> 1, withId |-> NoNumber ]
  /\ UNCHANGED <<claim, frames, shown, relayed>>

\* The report is handed on without one of its members, or with one that cannot be read:
\* a number that is none is dropped, an id that is none is not.
Relay ==
  /\ evidence # NoEvidence /\ ~relayed
  /\ \/ evidence' = [evidence EXCEPT !.layout = Unsaid]
     \/ \E lost \in {Absent, Unreadable} : evidence' = [evidence EXCEPT !.decoded = lost]
     \/ \E figure \in {"agreement", "sampled", "withId"} :
          evidence' = [evidence EXCEPT ![figure] = NoNumber]
     \/ evidence' = [evidence EXCEPT !.id_refused = FALSE]
  /\ relayed' = TRUE
  /\ UNCHANGED <<claim, frames, shown>>

\* A still's word is decoded, once.
DecodeStill == claim.layout # Video /\ PhotoNext /\ UNCHANGED watermarkVars

WatermarkNext ==
  \/ ((\E soft \in Soft : Sample(soft)) \/ Report \/ Relay) /\ UNCHANGED photoVars
  \/ DecodeStill

-----------------------------------------------------------------------------
Outcome(result, refused, count) == [result |-> result, id_refused |-> refused, count |-> count]
NotEvaluated == Outcome("not_evaluated", FALSE, NoNumber)

\* The count is read beside the frames it was taken from, and only when it fits in them.
CountIn(e) ==
  IF e.sampled # NoNumber /\ e.withId <= e.sampled THEN e.withId ELSE NoNumber
DeclaredId(c) == IF c.layout = Photo THEN c.captureId ELSE c.markId

\* Fault: an id is held against the proof whatever the copies agreed on.
FloorAllowsAny(e) == TRUE
\* An id that may not be reported is neither a match nor held against the proof.
FloorAllows(e) == ~UnderFloor(e.agreement)

Compared(e, c) ==
  IF e.decoded = DeclaredId(c)
  THEN Outcome("matched", FALSE, IF c.layout = Video THEN CountIn(e) ELSE NoNumber)
  ELSE Outcome("contradicted", FALSE, NoNumber)
AnswerFor(e, c) ==
  CASE e.decoded = Absent ->
         Outcome("not_recovered", c.layout = Video /\ e.id_refused, NoNumber)
    [] e.decoded = Unreadable -> NotEvaluated
    [] OTHER ->
         IF c.layout = Photo THEN Compared(e, c)
         ELSE IF e.agreement = NoNumber THEN NotEvaluated
         ELSE IF FloorAllows(e) THEN Compared(e, c)
         ELSE Outcome("not_recovered", TRUE, NoNumber)

\* evaluateWatermark, with the lookup's absence before it: no report is no answer.
evaluateWatermark(e, c) ==
  IF \/ e = NoEvidence
     \/ c.layout \notin {Photo, Video}
     \/ e.layout \notin {Unsaid, c.layout}
     \/ DeclaredId(c) = Absent
  THEN NotEvaluated
  ELSE AnswerFor(e, c)

-----------------------------------------------------------------------------
Result == evaluateWatermark(evidence, claim).result
\* The report of a detector that does not apply the floor itself.
Raw == [evidence EXCEPT !.decoded = decodeBlock(Total(frames)).markId, !.id_refused = FALSE]
InThePixels(id) == IF claim.layout = Photo THEN payload = id ELSE Carries(frames, id)

\* What comes back from the pixels is what decides: a match needs the declared id in
\* them and a contradiction another one, up to what the layout tolerates and not beyond;
\* so does an id on the progress line.  A clip that carries an id in every place is
\* read.  It makes no difference to that whether the detector refuses an id the copies
\* disagree about or the core does.  A report handed on with a member missing gives at
\* most the answer it would have given whole
\* (layouts.ts, readClip; watermark.ts, evaluateWatermark).
ReadingIsEarned ==
  /\ shown # NoId => Carries(frames, shown)
  /\ Result = "matched" => InThePixels(DeclaredId(claim))
  /\ Result = "contradicted" =>
       IF claim.layout = Photo THEN payload \notin {NoWord, claim.captureId}
       ELSE \E id \in MarkIds \ {claim.markId} : Carries(frames, id)
  /\ evidence # NoEvidence /\ claim.layout = Video =>
       LET soft == Total(frames) IN
       /\ \A id \in MarkIds :
            (Agreeing(soft, Encoded(id)) = Reps * BlockBits /\ 1 \in Range(id))
              => decodeClip(frames).markId = id
       /\ ~relayed => /\ Result = evaluateWatermark(Raw, claim).result
                      /\ evidence.withId <= Len(frames)
  /\ relayed /\ Result \in {"matched", "contradicted"} =>
       LET whole == IF claim.layout = Video THEN ClipEvidence
                    ELSE [evidence EXCEPT !.layout = Photo] IN
       Result = evaluateWatermark(whole, claim).result
=============================================================================
