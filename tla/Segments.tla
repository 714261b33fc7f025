------------------------------ MODULE Segments ------------------------------
(***************************************************************************)
(* What a video's proof says of the frames in a file: `segmentsOutcome` of *)
(* core/src/verify.ts over the groups of pictures that container.ts        *)
(* locates (`recomputeSegments`, `account`) and the chain of signed        *)
(* messages that segments.ts walks (`verifyChain`).                        *)
(*                                                                         *)
(* One device recorded two videos with one key, "ours" and "theirs", of    *)
(* Count segments each.  The proof is about ours; whoever holds its file   *)
(* edits the file and the proof's unsigned entries, one change at a time.  *)
(* The verdict is read at any state.                                       *)
(*                                                                         *)
(* A segment's frames are <<recording, index>>, and so is the message the  *)
(* device signed over it: a hash stands for what was hashed.  A timing     *)
(* record is a member of Timings, and segments may share one.              *)
(***************************************************************************)
EXTENDS Integers, Sequences, SequencesExt

CONSTANTS
  Count,       \* segments of a recording, media.segment_count
  Timings,     \* the timing records there are
  NoTiming,    \* a record that the signed timescales cannot express
  TimingOf,    \* [segment of ours -> its record]
  Shown,       \* the ways a file may present its frames
  Unreadable,  \* a presentation that cannot be read
  AsRecorded,  \* the one of ours
  Foreign,     \* frames of neither recording
  Zero,        \* the prev of segment 0
  MaxEdits     \* a bound on the changes made to a file

ASSUME SegmentsAssumption ==
  /\ Count \in Nat \ {0} /\ MaxEdits \in Nat
  /\ NoTiming \notin Timings /\ TimingOf \in [0 .. Count - 1 -> Timings]
  /\ Unreadable \notin Shown /\ AsRecorded \in Shown
  /\ Foreign \notin {"ours", "theirs"} \X Nat /\ Zero \notin {"ours", "theirs"} \X Nat

VARIABLES
  core,     \* what the device signed: [presentation, root]
  entries,  \* the proof's segments, in any order; outside every signature but
            \* for the messages they rebuild
  file,     \* [is, sealed, gops, presentation, bound]: bound, that it has the
            \* tracks of a recording only; samples before the first IDR belong
            \* to no group and are left out
  edits     \* how many changes were made
vars == <<core, entries, file, edits>>

Indices == 0 .. Count - 1
Segment == {"ours", "theirs"} \X Indices
Content == Segment \cup {Foreign}

\* A vcap SEI, as it reads: the segment it names, or nothing that can be read.
Malformed == <<"malformed", 0>>
Sei == ({"ours", "theirs"} \X (0 .. Count)) \cup {Malformed}

Gop == [frames : Content, sei : Seq(Sei), timing : Timings \cup {NoTiming}, trimmed : BOOLEAN]
File ==
  [ is : {"readable", "unsupported", "malformed", "not BMFF"}, sealed : BOOLEAN,
    gops : Seq(Gop), presentation : Shown \cup {Unreadable}, bound : BOOLEAN ]
Entry ==
  [ gop : -1 .. Count, hash : Content, prev : Segment \cup {Zero}, sig : Segment \cup {Zero},
    timing : Timings ]

TypeOK ==
  /\ core \in [presentation : Shown, root : Seq(Timings)]
  /\ entries \in Seq(Entry)
  /\ file \in File
  /\ edits \in 0 .. MaxEdits

(***************************************************************************)
(* The recorder.  What it signs of its own file's presentation and timing  *)
(* may be wrong; its entries are the messages it signed, in order.         *)
(***************************************************************************)

Before(s) == IF s[2] = 0 THEN Zero ELSE <<s[1], s[2] - 1>>

EntryOf(s, timing) ==
  [gop |-> s[2], hash |-> s, prev |-> Before(s), sig |-> s, timing |-> timing]

GopOf(s, timing) ==
  [frames |-> s, sei |-> <<s>>, timing |-> timing, trimmed |-> FALSE]

Recorded == [k \in 1 .. Count |-> GopOf(<<"ours", k - 1>>, TimingOf[k - 1])]

Init ==
  /\ \E claimed \in {[k \in 1 .. Count |-> TimingOf[k - 1]], [k \in 1 .. Count |-> TimingOf[0]]} :
       /\ entries = [k \in 1 .. Count |-> EntryOf(<<"ours", k - 1>>, claimed[k])]
       /\ \E presentation \in Shown :
            core = [presentation |-> presentation, root |-> claimed]
  /\ \E is \in {"readable", "unsupported"} :
       file = [ is |-> is, sealed |-> TRUE, gops |-> Recorded,
                presentation |-> AsRecorded, bound |-> TRUE ]
  /\ edits = 0

(***************************************************************************)
(* Locating: container.ts.                                                 *)
(***************************************************************************)
\* The indices an entry of the proof has; a GOP may name no other.
Signed == {entries[i].gop : i \in DOMAIN entries}

NamesOurs(gop) == \E i \in DOMAIN gop.sei : gop.sei[i][1] = "ours"

\* account: the GOP carries one well-formed SEI, of this capture, for an entry.
Named(gop) ==
  /\ Len(gop.sei) = 1
  /\ gop.sei[1][1] = "ours"
  /\ gop.sei[1][2] \in Signed

Positions == DOMAIN file.gops
Index(k) == file.gops[k].sei[1][2]

\* Fault: a GOP named twice over is credited like any other.
CreditedTwice == {k \in Positions : Named(file.gops[k])}

\* The GOPs credited with an index: no other GOP is named by it.
Credited ==
  { k \in Positions : /\ Named(file.gops[k])
                      /\ \A j \in Positions \ {k} : Named(file.gops[j]) => Index(j) # Index(k) }

\* account: some GOP is not placed, or is not after the ones before it.
Problems ==
  \/ \E k \in Positions : ~Named(file.gops[k])
  \/ \E k \in Positions : \E j \in 1 .. k - 1 :
       Named(file.gops[j]) /\ Named(file.gops[k]) /\ Index(k) <= Index(j)

\* recomputeSegments: what the container yields.
Recomputed ==
  IF file.is # "readable" THEN file.is
  ELSE IF \E k \in Positions : NamesOurs(file.gops[k]) THEN "hashes" ELSE "unlocated"

Located == {Index(k) : k \in Credited}
GopAt(n) == file.gops[CHOOSE k \in Credited : Index(k) = n]

(***************************************************************************)
(* The chain: segments.ts.                                                 *)
(***************************************************************************)
WellFormed == \A i \in DOMAIN entries : entries[i].gop >= 0
Distinct == \A i, j \in DOMAIN entries : entries[i].gop = entries[j].gop => i = j
At(n) == entries[CHOOSE i \in DOMAIN entries : entries[i].gop = n]

\* Fault: a clip without the segment before is a chain broken.
FollowsAlways(n) ==
  IF n = 0 THEN At(n).prev = Zero ELSE n - 1 \in Signed /\ At(n).prev = At(n - 1).sig

\* The message before n, when its entry is there, is the one n must follow.
Follows(n) ==
  /\ n = 0 => At(n).prev = Zero
  /\ n # 0 /\ n - 1 \in Signed => At(n).prev = At(n - 1).sig

\* The message rebuilt from the entry is the one the signature is over.
Verifies(n) ==
  LET e == At(n) IN
  e.sig = <<"ours", n>> /\ e.hash = e.sig /\ e.prev = Before(e.sig)

\* The walk is by index and stops at the first entry that does not hold.
Walked == {n \in Signed : \A m \in Signed : m <= n => Follows(m) /\ Verifies(m)}

\* Fault: a segment that is not the signed one is left out, as if it were cut.
ContradictedNone(located) == {}

Contradicted(located) == {n \in Walked \cap located : GopAt(n).frames # At(n).hash}

\* Fault: only segments the container yields make the chain complete.
VerifiedInFile(located) == (Walked \cap located) \ Contradicted(located)

Verified(located) == Walked \ Contradicted(located)

ChainStatus(located) ==
  IF ~WellFormed \/ ~Distinct \/ Walked # Signed \/ Contradicted(located) # {}
  THEN "tampered"
  ELSE IF Verified(located) = Indices THEN "complete" ELSE "clip"

(***************************************************************************)
(* Presentation and timing: what neither a message nor a content hash      *)
(* covers.                                                                 *)
(***************************************************************************)
TimingComplete == Len(entries) = Count /\ Signed = Indices

\* The entries' timing in index order against the signed root.
RootHolds == [k \in 1 .. Count |-> At(k - 1).timing] = core.root

PresentationDiffers == file.presentation # core.presentation

\* On the original: what its own segments give is not the signed root.
OriginalTimingDiffers(located) ==
  \/ Recomputed # "hashes"
  \/ \E n \in Indices : n \notin located \/ GopAt(n).timing # core.root[n + 1]

\* Fault: a record is only compared when every entry is there.
ClipTimingDiffersIfComplete(verified) ==
  TimingComplete /\ \E n \in verified : GopAt(n).timing # At(n).timing \/ GopAt(n).trimmed

ClipTimingDiffers(verified) ==
  \/ ~TimingComplete
  \/ \E n \in verified : GopAt(n).timing # At(n).timing \/ GopAt(n).trimmed

(***************************************************************************)
(* segmentsOutcome, for a reader that recomputes or does not.              *)
(***************************************************************************)
Answer(outcome, verified, labels) ==
  [outcome |-> outcome, verified |-> verified, labels |-> labels]

Reads(recompute) == IF recompute THEN Recomputed ELSE "not BMFF"

LocatedBy(read) == IF read = "hashes" THEN Located ELSE {}
CreditedBy(read) == Verified(LocatedBy(read)) \cap LocatedBy(read)

\* The container contradicts itself, or it, the chain or the timing the proof.
Accused(read) ==
  \/ read = "malformed"
  \/ ChainStatus(LocatedBy(read)) = "tampered"
  \/ TimingComplete /\ ~RootHolds
  \/ read = "hashes" /\ Problems

\* On the original: what the recorder signed wrongly of its own file.
Misstated(read) ==
  (IF read = "hashes" /\ PresentationDiffers THEN {"presentation differs"} ELSE {})
    \cup (IF read \in {"hashes", "unlocated"} /\ OriginalTimingDiffers(LocatedBy(read))
          THEN {"timing differs"} ELSE {})

\* On a clip: what keeps signed frames from being shown as they were signed.
Unbound(verified) ==
  (IF ~file.bound THEN {"tracks not bound"}
   ELSE IF PresentationDiffers THEN {"presentation differs"} ELSE {})
    \cup (IF ClipTimingDiffers(verified) THEN {"timing differs"} ELSE {})

Outcome(recompute) ==
  LET read == Reads(recompute)
      verified == CreditedBy(read)
  IN
  IF Accused(read)
  THEN Answer("tampered", IF read # "malformed" /\ WellFormed /\ Distinct THEN verified ELSE {}, {})
  ELSE IF file.sealed
  THEN Answer(IF ChainStatus(LocatedBy(read)) = "clip" THEN "verified_clip" ELSE "authentic",
              verified, Misstated(read))
  ELSE IF verified = {}
  THEN Answer("frames_not_compared", {}, {})
  ELSE IF Unbound(verified) # {}
  THEN Answer("frames_not_compared", {}, Unbound(verified))
  ELSE Answer("verified_clip", verified, {})

(***************************************************************************)
(* Whoever holds the file.                                                 *)
(***************************************************************************)
Edit == edits < MaxEdits /\ edits' = edits + 1

EditGops(gops) ==
  /\ file' = [file EXCEPT !.gops = gops, !.sealed = FALSE]
  /\ UNCHANGED <<core, entries>>

EditGop(k, field, value) ==
  /\ file.gops[k][field] # value
  /\ Edit
  /\ EditGops([file.gops EXCEPT ![k][field] = value])

\* A cut is no forgery, and costs none of the changes.
Cut(k) == EditGops(RemoveAt(file.gops, k)) /\ UNCHANGED edits

Repeat(k) ==
  /\ Len(file.gops) <= Count
  /\ Edit
  /\ EditGops(Append(file.gops, file.gops[k]))

Move(j, k) ==
  /\ j < k
  /\ Edit
  /\ EditGops([file.gops EXCEPT ![j] = file.gops[k], ![k] = file.gops[j]])

Splice(k, n) ==
  /\ Edit
  /\ EditGops([file.gops EXCEPT ![k] = GopOf(<<"theirs", n>>, TimingOf[n])])

Repaint(k, frames) == EditGop(k, "frames", frames)
Rename(k, sei) == EditGop(k, "sei", sei)
Retime(k, timing) == EditGop(k, "timing", timing)
Trim(k) == EditGop(k, "trimmed", TRUE)

EditFile(field, value) ==
  /\ file[field] # value
  /\ Edit
  /\ file' = [file EXCEPT ![field] = value, !.sealed = FALSE]
  /\ UNCHANGED <<core, entries>>

Represent(shown) == EditFile("presentation", shown)
AddTrack == EditFile("bound", FALSE)
Rewrap(is) == EditFile("is", is)

EditEntries(new) ==
  /\ Edit
  /\ entries' = new
  /\ UNCHANGED <<core, file>>

DropEntry(i) == EditEntries(RemoveAt(entries, i))

\* A genuine entry of another segment, under a number of the editor's.
PutEntry(i, s, n) ==
  EditEntries([entries EXCEPT ![i] = [EntryOf(s, entries[i].timing) EXCEPT !.gop = n]])

AddEntry(s, n) ==
  /\ Len(entries) <= Count
  /\ EditEntries(Append(entries, [EntryOf(s, TimingOf[0]) EXCEPT !.gop = n]))

SetEntry(i, field, value) ==
  /\ entries[i][field] # value
  /\ EditEntries([entries EXCEPT ![i][field] = value])

RenamedSeis == {<<>>, <<Malformed>>} \cup {<<<<"ours", n>>>> : n \in 0 .. Count}

EditsTheFile ==
  \/ \E k \in Positions :
       \/ Cut(k)
       \/ Repeat(k)
       \/ \E j \in Positions : Move(j, k)
       \/ \E n \in Indices : Splice(k, n)
       \/ Repaint(k, Foreign)
       \/ \E sei \in RenamedSeis \cup {file.gops[k].sei \o <<<<"ours", 0>>>>} : Rename(k, sei)
       \/ \E timing \in Timings \cup {NoTiming} : Retime(k, timing)
       \/ Trim(k)
  \/ \E shown \in Shown \cup {Unreadable} : Represent(shown)
  \/ AddTrack
  \/ \E is \in {"unsupported", "malformed", "not BMFF"} : Rewrap(is)

EditsTheProof ==
  \/ \E i \in DOMAIN entries :
       \/ DropEntry(i)
       \/ \E s \in Segment : \E n \in {s[2], entries[i].gop} : PutEntry(i, s, n)
       \/ SetEntry(i, "gop", -1)
       \/ SetEntry(i, "hash", Foreign)
       \/ \E s \in Segment \cup {Zero} : SetEntry(i, "prev", s)
       \/ SetEntry(i, "sig", Zero)
       \/ \E timing \in Timings : SetEntry(i, "timing", timing)
  \/ \E s \in Segment : \E n \in {s[2], Count} : AddEntry(s, n)

Next == EditsTheFile \/ EditsTheProof

Spec == Init /\ [][Next]_vars
-----------------------------------------------------------------------------
Gops == {file.gops[k] : k \in Positions}
Genuine(gop) == \E n \in Indices : gop.frames = <<"ours", n>> /\ gop.sei = <<<<"ours", n>>>>
InSignedOrder ==
  \A k \in Positions : \A j \in 1 .. k - 1 : file.gops[j].frames[2] < file.gops[k].frames[2]

\* An entry as the recorder wrote it, which is so of every entry of a proof
\* that was at most cut.
AsWritten(e) == \E n \in Indices : e = EntryOf(<<"ours", n>>, core.root[n + 1])
EntriesAsWritten == Distinct /\ \A i \in DOMAIN entries : AsWritten(entries[i])

\* A received file that is not the original and is called a verified clip has
\* only signed segments of this recording, in the order and with the timing
\* and the presentation that were signed: no edit of the file, of the proof's
\* entries or of both together passes for a cut (segmentsOutcome).
ClipIsOfTheRecording ==
  \A recompute \in BOOLEAN :
    Outcome(recompute).outcome = "verified_clip" /\ ~file.sealed =>
      /\ \A gop \in Gops :
           /\ Genuine(gop) /\ ~gop.trimmed
           /\ gop.timing = core.root[gop.frames[2] + 1]
      /\ InSignedOrder
      /\ file.presentation = core.presentation /\ file.bound

\* Once a group names the capture, frames that are not the signed ones of the
\* segment they stand for are tampering, whatever else was done to the file or
\* to the proof to make them look like a cut (account, verifyChain).
ForeignFramesAreTampering ==
  Recomputed = "hashes" /\ (\E gop \in Gops : ~Genuine(gop)) =>
    Outcome(TRUE).outcome = "tampered"

\* A segment is credited for frames that are in the file, once, whatever the
\* verdict on the rest (verifyChain's verified list, cut to the located GOPs).
CreditIsEarned ==
  \A recompute \in BOOLEAN : \A n \in Outcome(recompute).verified :
    /\ \E gop \in Gops : gop.frames = <<"ours", n>>
    /\ \A j, k \in Positions :
         (file.gops[j].sei = <<<<"ours", n>>>> /\ file.gops[k].sei = <<<<"ours", n>>>>) => j = k

\* Cutting a recording, its entries or both, and playing what is left in
\* another way, is never called tampering as long as the entries of the
\* segments that are left stay (verify.ts: "re-muxing a clip is not an
\* accusation").
CuttingIsNotAccused ==
  (/\ file.is # "malformed"
   /\ EntriesAsWritten
   /\ \A gop \in Gops : Genuine(gop) /\ gop.frames[2] \in Signed
   /\ InSignedOrder)
  => \A recompute \in BOOLEAN : Outcome(recompute).outcome # "tampered"

\* The sealed bytes under every entry are authentic whatever a reader can
\* recompute of them, with a label only for what the recorder signed wrongly
\* (segmentsOutcome, where media.hash matches).
OriginalStands ==
  file.sealed /\ EntriesAsWritten /\ TimingComplete =>
    \A recompute \in BOOLEAN :
      LET answer == Outcome(recompute) IN
      /\ answer.outcome = "authentic"
      /\ "presentation differs" \in answer.labels => core.presentation # AsRecorded
      /\ "timing differs" \in answer.labels =>
           core.root # [k \in 1 .. Count |-> TimingOf[k - 1]]
=============================================================================
