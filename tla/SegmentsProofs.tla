--------------------------- MODULE SegmentsProofs ---------------------------
(***************************************************************************)
(* What Segments promises for recordings of every length, any timing       *)
(* records and any number of changes.                                      *)
(***************************************************************************)
EXTENDS Segments, SequenceTheorems, TLAPS

(***************************************************************************)
(* Types.                                                                  *)
(***************************************************************************)
LEMMA ConstantsOK ==
  /\ Count \in Nat \ {0} /\ MaxEdits \in Nat
  /\ NoTiming \notin Timings /\ TimingOf \in [0 .. Count - 1 -> Timings]
  /\ Unreadable \notin Shown /\ AsRecorded \in Shown
  /\ Foreign \notin {"ours", "theirs"} \X Nat /\ Zero \notin {"ours", "theirs"} \X Nat
  BY SegmentsAssumption

\* Taking one element out of a sequence leaves a sequence.
LEMMA RemoveAtType ==
  ASSUME NEW S, NEW s \in Seq(S), NEW i \in DOMAIN s
  PROVE  RemoveAt(s, i) \in Seq(S)
<1>1. Len(s) \in Nat /\ i \in 1 .. Len(s)
  BY LenProperties
<1>2. SubSeq(s, 1, i - 1) \in Seq(S)
  <2>1. \A j \in 1 .. i - 1 : s[j] \in S
    BY <1>1, ElementOfSeq
  <2> QED BY <1>1, <2>1, SubSeqProperties
<1>3. SubSeq(s, i + 1, Len(s)) \in Seq(S)
  <2>1. \A j \in i + 1 .. Len(s) : s[j] \in S
    BY <1>1, ElementOfSeq
  <2> QED BY <1>1, <2>1, SubSeqProperties
<1> QED BY <1>2, <1>3, ConcatProperties DEF RemoveAt

\* What the recorder signed of a segment is an entry, what it wrote a group.
LEMMA EntryOfType ==
  ASSUME NEW s \in Segment, NEW timing \in Timings, NEW n \in -1 .. Count
  PROVE  /\ EntryOf(s, timing) \in Entry
         /\ [EntryOf(s, timing) EXCEPT !.gop = n] \in Entry
<1>1. s[2] \in Indices /\ s[1] \in {"ours", "theirs"} /\ s = <<s[1], s[2]>>
  BY DEF Segment
<1>2. Before(s) \in Segment \cup {Zero}
  BY <1>1, ConstantsOK DEF Before, Segment, Indices
<1>3. s[2] \in -1 .. Count
  BY <1>1, ConstantsOK DEF Indices
<1> QED BY <1>2, <1>3 DEF EntryOf, Entry, Content

LEMMA GopOfType ==
  ASSUME NEW s \in Segment, NEW timing \in Timings
  PROVE  GopOf(s, timing) \in Gop
<1>1. s \in Sei
  BY ConstantsOK DEF Segment, Sei, Indices
<1>2. <<s>> \in Seq(Sei)
  BY <1>1
<1> QED BY <1>2 DEF GopOf, Gop, Content

LEMMA InitTypes == Init => TypeOK
<1> SUFFICES ASSUME Init PROVE TypeOK
  OBVIOUS
<1> USE ConstantsOK
<1> DEFINE Records == {[k \in 1 .. Count |-> TimingOf[k - 1]], [k \in 1 .. Count |-> TimingOf[0]]}
<1>1. \A k \in 1 .. Count : k - 1 \in Indices /\ TimingOf[k - 1] \in Timings /\ TimingOf[0] \in Timings
  BY DEF Indices
<1>2. \A claimed \in Records : claimed \in [1 .. Count -> Timings]
  BY <1>1
<1>3. \A claimed \in Records : claimed \in Seq(Timings)
  BY <1>2
<1>4. PICK claimed \in Records :
        /\ entries = [k \in 1 .. Count |-> EntryOf(<<"ours", k - 1>>, claimed[k])]
        /\ \E presentation \in Shown :
             core = [presentation |-> presentation, root |-> claimed]
  BY DEF Init
<1>5. \A k \in 1 .. Count : <<"ours", k - 1>> \in Segment
  BY <1>1 DEF Segment
<1>6. \A k \in 1 .. Count : EntryOf(<<"ours", k - 1>>, claimed[k]) \in Entry
  <2>1. 0 \in -1 .. Count
    OBVIOUS
  <2>2. \A k \in 1 .. Count : claimed[k] \in Timings
    BY <1>2
  <2> QED BY <1>5, <2>1, <2>2, EntryOfType
<1>7. entries \in [1 .. Count -> Entry]
  BY <1>4, <1>6
<1>8. \A k \in 1 .. Count : GopOf(<<"ours", k - 1>>, TimingOf[k - 1]) \in Gop
  BY <1>1, <1>5, GopOfType
<1>9. Recorded \in [1 .. Count -> Gop]
  BY <1>8 DEF Recorded
<1>10. entries \in Seq(Entry) /\ Recorded \in Seq(Gop)
  BY <1>7, <1>9
<1>11. core \in [presentation : Shown, root : Seq(Timings)]
  BY <1>3, <1>4
<1>12. file \in File
  <2>1. PICK is \in {"readable", "unsupported"} :
          file = [ is |-> is, sealed |-> TRUE, gops |-> Recorded,
                   presentation |-> AsRecorded, bound |-> TRUE ]
    BY DEF Init
  <2> QED BY <1>10, <2>1 DEF File
<1> QED BY <1>10, <1>11, <1>12 DEF TypeOK, Init

\* A change of the groups, of one field or of the entries, to something of
\* their type.
LEMMA EditGopsType ==
  ASSUME TypeOK, NEW gops \in Seq(Gop), EditGops(gops), edits' \in 0 .. MaxEdits
  PROVE  TypeOK'
  BY DEF TypeOK, EditGops, File

LEMMA EditType ==
  ASSUME TypeOK, Edit
  PROVE  edits' \in 0 .. MaxEdits
  BY ConstantsOK DEF TypeOK, Edit

LEMMA PutGopType ==
  ASSUME TypeOK, NEW k \in Positions, NEW gop \in Gop
  PROVE  [file.gops EXCEPT ![k] = gop] \in Seq(Gop)
<1>1. file.gops \in Seq(Gop)
  BY DEF TypeOK, File
<1> QED BY <1>1, LenProperties, ExceptSeq DEF Positions

LEMMA PositionsType ==
  ASSUME TypeOK
  PROVE  Len(file.gops) \in Nat /\ Positions = 1 .. Len(file.gops)
<1>1. file.gops \in Seq(Gop)
  BY DEF TypeOK, File
<1> QED BY <1>1, LenProperties DEF Positions

LEMMA GopType ==
  ASSUME TypeOK, NEW k \in Positions
  PROVE  file.gops[k] \in Gop
<1>1. file.gops \in Seq(Gop)
  BY DEF TypeOK, File
<1> QED BY <1>1, LenProperties, ElementOfSeq DEF Positions

LEMMA EntryType ==
  ASSUME TypeOK, NEW i \in DOMAIN entries
  PROVE  entries[i] \in Entry
  BY LenProperties, ElementOfSeq DEF TypeOK

LEMMA PutEntryType ==
  ASSUME TypeOK, NEW i \in DOMAIN entries, NEW e \in Entry
  PROVE  [entries EXCEPT ![i] = e] \in Seq(Entry)
  BY LenProperties, ExceptSeq DEF TypeOK

LEMMA EditGopType ==
  ASSUME TypeOK, NEW k \in Positions, NEW field, NEW value,
         EditGop(k, field, value),
         \/ field = "frames" /\ value \in Content
         \/ field = "sei" /\ value \in Seq(Sei)
         \/ field = "timing" /\ value \in Timings \cup {NoTiming}
         \/ field = "trimmed" /\ value \in BOOLEAN
  PROVE  TypeOK'
<1> DEFINE gop == [file.gops[k] EXCEPT ![field] = value]
<1>1. gop \in Gop
  BY GopType DEF Gop
<1>2. [file.gops EXCEPT ![k][field] = value] = [file.gops EXCEPT ![k] = gop]
  OBVIOUS
<1>3. [file.gops EXCEPT ![k] = gop] \in Seq(Gop)
  BY <1>1, PutGopType
<1> QED BY <1>2, <1>3, EditGopsType, EditType DEF EditGop

LEMMA EditFileType ==
  ASSUME TypeOK, NEW field, NEW value, EditFile(field, value),
         \/ field = "presentation" /\ value \in Shown \cup {Unreadable}
         \/ field = "bound" /\ value \in BOOLEAN
         \/ field = "is" /\ value \in {"readable", "unsupported", "malformed", "not BMFF"}
  PROVE  TypeOK'
<1>1. [file EXCEPT ![field] = value, !.sealed = FALSE] \in File
  BY DEF TypeOK, File
<1> QED BY <1>1, EditType DEF EditFile, TypeOK

LEMMA EditEntriesType ==
  ASSUME TypeOK, NEW new \in Seq(Entry), EditEntries(new)
  PROVE  TypeOK'
  BY EditType DEF EditEntries, TypeOK

LEMMA SetEntryType ==
  ASSUME TypeOK, NEW i \in DOMAIN entries, NEW field, NEW value,
         SetEntry(i, field, value),
         \/ field = "gop" /\ value = -1
         \/ field = "hash" /\ value \in Content
         \/ field \in {"prev", "sig"} /\ value \in Segment \cup {Zero}
         \/ field = "timing" /\ value \in Timings
  PROVE  TypeOK'
<1> DEFINE e == [entries[i] EXCEPT ![field] = value]
<1>1. e \in Entry
  BY EntryType, ConstantsOK DEF Entry
<1>2. [entries EXCEPT ![i][field] = value] = [entries EXCEPT ![i] = e]
  OBVIOUS
<1>3. [entries EXCEPT ![i] = e] \in Seq(Entry)
  BY <1>1, PutEntryType
<1> QED BY <1>2, <1>3, EditEntriesType DEF SetEntry

LEMMA FileStepTypes == TypeOK /\ EditsTheFile => TypeOK'
<1> SUFFICES ASSUME TypeOK, EditsTheFile PROVE TypeOK'
  OBVIOUS
<1>1. file.gops \in Seq(Gop) /\ edits \in 0 .. MaxEdits
  BY DEF TypeOK, File
<1>2. ASSUME NEW k \in Positions, Cut(k) PROVE TypeOK'
  BY <1>1, <1>2, RemoveAtType, EditGopsType DEF Cut, Positions
<1>3. ASSUME NEW k \in Positions, Repeat(k) PROVE TypeOK'
  <2>1. Append(file.gops, file.gops[k]) \in Seq(Gop)
    BY <1>1, GopType
  <2> QED BY <1>3, <2>1, EditType, EditGopsType DEF Repeat
<1>4. ASSUME NEW k \in Positions, NEW j \in Positions, Move(j, k) PROVE TypeOK'
  <2> DEFINE once == [file.gops EXCEPT ![j] = file.gops[k]]
  <2>1. once \in Seq(Gop) /\ DOMAIN once = Positions
    BY <1>1, GopType, PutGopType DEF Positions
  <2>2. [once EXCEPT ![k] = file.gops[j]] \in Seq(Gop)
    <3>1. k \in 1 .. Len(once)
      BY <2>1, LenProperties
    <3>2. file.gops[j] \in Gop
      BY GopType
    <3> HIDE DEF once
    <3> QED BY <2>1, <3>1, <3>2, ExceptSeq
  <2>3. [file.gops EXCEPT ![j] = file.gops[k], ![k] = file.gops[j]] = [once EXCEPT ![k] = file.gops[j]]
    OBVIOUS
  <2> QED BY <1>4, <2>2, <2>3, EditType, EditGopsType DEF Move
<1>5. ASSUME NEW k \in Positions, NEW n \in Indices, Splice(k, n) PROVE TypeOK'
  <2>1. <<"theirs", n>> \in Segment /\ TimingOf[n] \in Timings
    BY ConstantsOK DEF Segment, Indices
  <2>2. [file.gops EXCEPT ![k] = GopOf(<<"theirs", n>>, TimingOf[n])] \in Seq(Gop)
    BY <2>1, GopOfType, PutGopType
  <2> QED BY <1>5, <2>2, EditType, EditGopsType DEF Splice
<1>6. ASSUME NEW k \in Positions, Repaint(k, Foreign) PROVE TypeOK'
  BY <1>6, EditGopType DEF Repaint, Content
<1>7. ASSUME NEW k \in Positions,
             NEW sei \in RenamedSeis \cup {file.gops[k].sei \o <<<<"ours", 0>>>>},
             Rename(k, sei)
      PROVE  TypeOK'
  <2>1. <<"ours", 0>> \in Sei /\ Malformed \in Sei /\ \A n \in 0 .. Count : <<"ours", n>> \in Sei
    BY ConstantsOK DEF Sei
  <2>2. file.gops[k].sei \in Seq(Sei)
    BY GopType DEF Gop
  <2>3. file.gops[k].sei \o <<<<"ours", 0>>>> \in Seq(Sei)
    BY <2>1, <2>2, ConcatProperties
  <2>4. <<>> \in Seq(Sei) /\ <<Malformed>> \in Seq(Sei)
        /\ \A n \in 0 .. Count : <<<<"ours", n>>>> \in Seq(Sei)
    <3> HIDE DEF Malformed
    <3>1. \A x \in Sei : <<x>> \in Seq(Sei)
      OBVIOUS
    <3> QED BY <2>1, <3>1
  <2>5. sei \in Seq(Sei)
    <3>1. CASE sei \in RenamedSeis
      BY <2>4, <3>1 DEF RenamedSeis
    <3>2. CASE sei = file.gops[k].sei \o <<<<"ours", 0>>>>
      BY <2>3, <3>2
    <3> QED BY <3>1, <3>2
  <2> QED BY <1>7, <2>5, EditGopType DEF Rename
<1>8. ASSUME NEW k \in Positions, NEW timing \in Timings \cup {NoTiming}, Retime(k, timing)
      PROVE  TypeOK'
  BY <1>8, EditGopType DEF Retime
<1>9. ASSUME NEW k \in Positions, Trim(k) PROVE TypeOK'
  BY <1>9, EditGopType DEF Trim
<1>10. ASSUME NEW shown \in Shown \cup {Unreadable}, Represent(shown) PROVE TypeOK'
  BY <1>10, EditFileType DEF Represent
<1>11. ASSUME AddTrack PROVE TypeOK'
  BY <1>11, EditFileType DEF AddTrack
<1>12. ASSUME NEW is \in {"unsupported", "malformed", "not BMFF"}, Rewrap(is) PROVE TypeOK'
  BY <1>12, EditFileType DEF Rewrap
<1> QED
  BY <1>2, <1>3, <1>4, <1>5, <1>6, <1>7, <1>8, <1>9, <1>10, <1>11, <1>12 DEF EditsTheFile

LEMMA ProofStepTypes == TypeOK /\ EditsTheProof => TypeOK'
<1> SUFFICES ASSUME TypeOK, EditsTheProof PROVE TypeOK'
  OBVIOUS
<1>1. entries \in Seq(Entry)
  BY DEF TypeOK
<1>2. ASSUME NEW i \in DOMAIN entries, DropEntry(i) PROVE TypeOK'
  BY <1>1, <1>2, RemoveAtType, EditEntriesType DEF DropEntry
<1>3. ASSUME NEW i \in DOMAIN entries, NEW s \in Segment, NEW n \in {s[2], entries[i].gop},
             PutEntry(i, s, n)
      PROVE  TypeOK'
  <2>1. entries[i].timing \in Timings /\ n \in -1 .. Count
    BY EntryType, ConstantsOK DEF Entry, Segment, Indices
  <2>2. [entries EXCEPT ![i] = [EntryOf(s, entries[i].timing) EXCEPT !.gop = n]] \in Seq(Entry)
    BY <2>1, EntryOfType, PutEntryType
  <2> QED BY <1>3, <2>2, EditEntriesType DEF PutEntry
<1>4. ASSUME NEW i \in DOMAIN entries, SetEntry(i, "gop", -1) PROVE TypeOK'
  BY <1>4, SetEntryType
<1>5. ASSUME NEW i \in DOMAIN entries, SetEntry(i, "hash", Foreign) PROVE TypeOK'
  BY <1>5, SetEntryType DEF Content
<1>6. ASSUME NEW i \in DOMAIN entries, NEW s \in Segment \cup {Zero}, SetEntry(i, "prev", s)
      PROVE  TypeOK'
  BY <1>6, SetEntryType
<1>7. ASSUME NEW i \in DOMAIN entries, SetEntry(i, "sig", Zero) PROVE TypeOK'
  BY <1>7, SetEntryType
<1>8. ASSUME NEW i \in DOMAIN entries, NEW timing \in Timings, SetEntry(i, "timing", timing)
      PROVE  TypeOK'
  BY <1>8, SetEntryType
<1>9. ASSUME NEW s \in Segment, NEW n \in {s[2], Count}, AddEntry(s, n) PROVE TypeOK'
  <2>1. TimingOf[0] \in Timings /\ n \in -1 .. Count
    BY ConstantsOK DEF Segment, Indices
  <2>2. [EntryOf(s, TimingOf[0]) EXCEPT !.gop = n] \in Entry
    BY <2>1, EntryOfType
  <2>3. Append(entries, [EntryOf(s, TimingOf[0]) EXCEPT !.gop = n]) \in Seq(Entry)
    BY <1>1, <2>2
  <2> QED BY <1>9, <2>3, EditEntriesType DEF AddEntry
<1> QED
  BY <1>2, <1>3, <1>4, <1>5, <1>6, <1>7, <1>8, <1>9 DEF EditsTheProof

\* Nothing anybody does to the file or the proof leaves the types.
THEOREM TypeCorrect == Spec => []TypeOK
<1>1. TypeOK /\ UNCHANGED vars => TypeOK'
  BY DEF TypeOK, vars
<1> QED BY <1>1, InitTypes, FileStepTypes, ProofStepTypes, PTL DEF Spec, Next

(***************************************************************************)
(* A container read without an accusation: every group is credited, for    *)
(* the signed frames of the one segment it names.                          *)
(***************************************************************************)
LEMMA SignedIndices ==
  ASSUME TypeOK, NEW n \in Signed
  PROVE  n \in -1 .. Count
  BY EntryType DEF Signed, Entry

LEMMA NamedSei ==
  ASSUME TypeOK, NEW k \in Positions, Named(file.gops[k])
  PROVE  /\ Index(k) \in Signed
         /\ file.gops[k].sei = <<<<"ours", Index(k)>>>>
<1>1. file.gops[k].sei \in Seq(Sei) /\ Len(file.gops[k].sei) = 1
  BY GopType DEF Gop, Named
<1>2. file.gops[k].sei[1] \in Sei
  BY <1>1, ElementOfSeq
<1>3. file.gops[k].sei[1] = <<"ours", Index(k)>>
  <2>1. file.gops[k].sei[1][1] = "ours"
    BY DEF Named
  <2>2. file.gops[k].sei[1] # Malformed
    BY <2>1 DEF Malformed
  <2>3. file.gops[k].sei[1] \in {"ours", "theirs"} \X (0 .. Count)
    BY <1>2, <2>2 DEF Sei
  <2>4. PICK of \in {"ours", "theirs"}, n \in 0 .. Count : file.gops[k].sei[1] = <<of, n>>
    BY <2>3
  <2>5. of = "ours"
    BY <2>1, <2>4
  <2>6. Index(k) = n
    BY <2>4 DEF Index
  <2> QED BY <2>4, <2>5, <2>6
<1>4. file.gops[k].sei = <<file.gops[k].sei[1]>>
  BY <1>1
<1>5. Index(k) \in Signed
  BY DEF Named, Index
<1> QED BY <1>3, <1>4, <1>5

\* The group that is credited with an index is the one that index locates.
LEMMA LocatedGop ==
  ASSUME NEW k \in Credited
  PROVE  GopAt(Index(k)) = file.gops[k]
<1>1. \A i \in Credited : Index(i) = Index(k) => i = k
  BY DEF Credited
<1>2. (CHOOSE i \in Credited : Index(i) = Index(k)) = k
  BY <1>1
<1> QED BY <1>2 DEF GopAt

LEMMA AllCredited ==
  ASSUME TypeOK, ~Problems
  PROVE  \A k \in Positions :
           /\ k \in Credited
           /\ \A i \in Positions : i < k => Index(i) < Index(k)
<1>1. Len(file.gops) \in Nat /\ Positions = 1 .. Len(file.gops)
  BY PositionsType
<1>2. \A k \in Positions : Named(file.gops[k]) /\ Index(k) \in Int
  <2>1. \A k \in Positions : Named(file.gops[k])
    BY DEF Problems
  <2>2. \A k \in Positions : Index(k) \in Signed
    BY <2>1, NamedSei
  <2>3. \A k \in Positions : Index(k) \in -1 .. Count
    BY <2>2, SignedIndices
  <2> QED BY <2>1, <2>3, ConstantsOK
<1>3. \A k \in Positions : \A i \in Positions : i < k => Index(i) < Index(k)
  <2> SUFFICES ASSUME NEW k \in Positions, NEW i \in Positions, i < k
               PROVE  Index(i) < Index(k)
    OBVIOUS
  <2>1. i \in 1 .. k - 1
    BY <1>1
  <2>2. ~(Index(k) <= Index(i))
    BY <1>2, <2>1 DEF Problems
  <2> QED BY <1>2, <2>2
<1>4. \A k, i \in Positions : i # k => Index(i) # Index(k)
  <2> SUFFICES ASSUME NEW k \in Positions, NEW i \in Positions, i # k
               PROVE  Index(i) # Index(k)
    OBVIOUS
  <2>1. i < k \/ k < i
    BY <1>1
  <2>2. Index(i) < Index(k) \/ Index(k) < Index(i)
    BY <1>3, <2>1
  <2> QED BY <1>2, <2>2
<1> QED BY <1>2, <1>3, <1>4 DEF Credited

\* A message that verifies is the one the recorder signed over that segment.
LEMMA VerifiedEntry ==
  ASSUME TypeOK, WellFormed, NEW n \in Walked
  PROVE  /\ n \in Indices
         /\ At(n).hash = <<"ours", n>>
<1>1. n \in Signed /\ Verifies(n)
  <2>1. n \in Signed /\ \A m \in Signed : m <= n => Verifies(m)
    BY DEF Walked
  <2>2. n <= n
    BY <2>1, SignedIndices
  <2> QED BY <2>1, <2>2
<1>2. At(n) \in Entry
  <2>1. \E i \in DOMAIN entries : entries[i].gop = n
    BY <1>1 DEF Signed
  <2> QED BY <2>1, EntryType DEF At
<1>3. At(n).sig = <<"ours", n>> /\ At(n).hash = At(n).sig
  BY <1>1 DEF Verifies
<1>4. n \in Nat
  BY <1>1, SignedIndices DEF Signed, WellFormed
<1>5. <<"ours", n>> \in Segment
  BY <1>2, <1>3, <1>4, ConstantsOK DEF Entry
<1> QED BY <1>3, <1>5 DEF Segment

LEMMA Unaccused ==
  ASSUME NEW recompute \in BOOLEAN, Reads(recompute) = "hashes",
         Outcome(recompute).outcome # "tampered"
  PROVE  /\ WellFormed /\ ~Problems
         /\ Walked = Signed /\ Contradicted(Located) = {}
         /\ TimingComplete => RootHolds
<1>1. ~Accused("hashes")
  BY DEF Outcome, Answer
<1> QED BY <1>1 DEF Accused, LocatedBy, ChainStatus

LEMMA EveryGopIsSigned ==
  ASSUME TypeOK, WellFormed, ~Problems, Walked = Signed, Contradicted(Located) = {}
  PROVE  \A k \in Positions :
           /\ Index(k) \in Indices \cap Signed \cap Located
           /\ file.gops[k].sei = <<<<"ours", Index(k)>>>>
           /\ file.gops[k].frames = <<"ours", Index(k)>>
           /\ GopAt(Index(k)) = file.gops[k]
<1> SUFFICES ASSUME NEW k \in Positions
             PROVE  /\ Index(k) \in Indices \cap Signed \cap Located
                    /\ file.gops[k].sei = <<<<"ours", Index(k)>>>>
                    /\ file.gops[k].frames = <<"ours", Index(k)>>
                    /\ GopAt(Index(k)) = file.gops[k]
  OBVIOUS
<1>1. k \in Credited /\ Named(file.gops[k])
  BY AllCredited DEF Credited
<1>2. Index(k) \in Walked /\ file.gops[k].sei = <<<<"ours", Index(k)>>>>
  BY <1>1, NamedSei
<1>3. Index(k) \in Located /\ GopAt(Index(k)) = file.gops[k]
  BY <1>1, LocatedGop DEF Located
<1>4. Index(k) \in Indices /\ At(Index(k)).hash = <<"ours", Index(k)>>
  BY <1>2, VerifiedEntry
<1>5. GopAt(Index(k)).frames = At(Index(k)).hash
  BY <1>2, <1>3 DEF Contradicted
<1> QED BY <1>2, <1>3, <1>4, <1>5

(***************************************************************************)
(* The theorems: each is a fact about every state of its types.            *)
(***************************************************************************)
LEMMA ClipIsReadAndBound ==
  ASSUME NEW recompute \in BOOLEAN, Outcome(recompute).outcome = "verified_clip", ~file.sealed
  PROVE  /\ Reads(recompute) = "hashes"
         /\ Outcome(recompute).outcome # "tampered"
         /\ file.bound /\ ~PresentationDiffers
         /\ ~ClipTimingDiffers(CreditedBy("hashes"))
<1> DEFINE read == Reads(recompute)
<1>1. CreditedBy(read) # {} /\ Unbound(CreditedBy(read)) = {}
  BY DEF Outcome, Answer
<1>2. read = "hashes"
  BY <1>1 DEF CreditedBy, LocatedBy
<1> QED BY <1>1, <1>2 DEF Unbound

LEMMA TypedClip == TypeOK => ClipIsOfTheRecording
<1> SUFFICES ASSUME TypeOK, NEW recompute \in BOOLEAN,
                    Outcome(recompute).outcome = "verified_clip", ~file.sealed
             PROVE  /\ \A gop \in Gops :
                         /\ Genuine(gop) /\ ~gop.trimmed
                         /\ gop.timing = core.root[gop.frames[2] + 1]
                    /\ InSignedOrder
                    /\ file.presentation = core.presentation /\ file.bound
  BY DEF ClipIsOfTheRecording
<1>1. /\ Reads(recompute) = "hashes"
      /\ Outcome(recompute).outcome # "tampered"
      /\ file.bound /\ ~PresentationDiffers
      /\ ~ClipTimingDiffers(CreditedBy("hashes"))
  BY ClipIsReadAndBound
<1>2. /\ WellFormed /\ ~Problems
      /\ Walked = Signed /\ Contradicted(Located) = {}
      /\ TimingComplete => RootHolds
  BY <1>1, Unaccused
<1>3. TimingComplete /\ RootHolds
  BY <1>1, <1>2 DEF ClipTimingDiffers
<1>4. \A k \in Positions :
        /\ Index(k) \in Indices \cap Signed \cap Located
        /\ file.gops[k].sei = <<<<"ours", Index(k)>>>>
        /\ file.gops[k].frames = <<"ours", Index(k)>>
        /\ GopAt(Index(k)) = file.gops[k]
  BY <1>2, EveryGopIsSigned
<1>5. CreditedBy("hashes") = Signed \cap Located
  BY <1>2 DEF CreditedBy, LocatedBy, Verified
<1>6. \A n \in Indices : At(n).timing = core.root[n + 1]
  BY <1>3, ConstantsOK DEF RootHolds, Indices
<1>7. ASSUME NEW k \in Positions
      PROVE  /\ Genuine(file.gops[k]) /\ ~file.gops[k].trimmed
             /\ file.gops[k].timing = core.root[file.gops[k].frames[2] + 1]
  <2>1. GopAt(Index(k)).timing = At(Index(k)).timing /\ ~GopAt(Index(k)).trimmed
    BY <1>1, <1>4, <1>5 DEF ClipTimingDiffers
  <2> QED BY <1>4, <1>6, <2>1 DEF Genuine
<1>8. InSignedOrder
  <2> SUFFICES ASSUME NEW k \in Positions, NEW j \in 1 .. k - 1
               PROVE  file.gops[j].frames[2] < file.gops[k].frames[2]
    BY DEF InSignedOrder
  <2>1. j \in Positions /\ j < k
    BY PositionsType
  <2>2. Index(j) < Index(k)
    BY <1>2, <2>1, AllCredited
  <2> QED BY <1>4, <2>1, <2>2
<1>9. file.presentation = core.presentation
  BY <1>1 DEF PresentationDiffers
<1> QED BY <1>1, <1>7, <1>8, <1>9 DEF Gops

LEMMA TypedTampering == TypeOK => ForeignFramesAreTampering
<1> SUFFICES ASSUME TypeOK, Recomputed = "hashes", Outcome(TRUE).outcome # "tampered",
                    NEW gop \in Gops
             PROVE  Genuine(gop)
  BY DEF ForeignFramesAreTampering
<1>1. /\ WellFormed /\ ~Problems
      /\ Walked = Signed /\ Contradicted(Located) = {}
  BY Unaccused DEF Reads
<1> QED BY <1>1, EveryGopIsSigned DEF Gops, Genuine

LEMMA TypedCredit == TypeOK => CreditIsEarned
<1> SUFFICES ASSUME TypeOK, NEW recompute \in BOOLEAN, NEW n \in Outcome(recompute).verified
             PROVE  /\ \E gop \in Gops : gop.frames = <<"ours", n>>
                    /\ \A j, k \in Positions :
                         (file.gops[j].sei = <<<<"ours", n>>>> /\ file.gops[k].sei = <<<<"ours", n>>>>) => j = k
  BY DEF CreditIsEarned
<1>1. n \in CreditedBy(Reads(recompute)) /\ WellFormed
  <2>1. n \in CreditedBy(Reads(recompute))
    BY DEF Outcome, Answer
  <2>2. Outcome(recompute).verified # {}
    OBVIOUS
  <2> QED BY <2>1, <2>2 DEF Outcome, Answer, Accused, ChainStatus
<1>2. n \in Located /\ n \in Walked /\ n \notin Contradicted(Located)
  BY <1>1 DEF CreditedBy, LocatedBy, Verified
<1>3. n \in Indices /\ At(n).hash = <<"ours", n>>
  BY <1>1, <1>2, VerifiedEntry
<1>4. PICK i \in Credited : Index(i) = n
  BY <1>2 DEF Located
<1>5. file.gops[i].frames = <<"ours", n>> /\ i \in Positions
  BY <1>2, <1>3, <1>4, LocatedGop DEF Contradicted, Credited
<1>6. ASSUME NEW j \in Positions, file.gops[j].sei = <<<<"ours", n>>>> PROVE j = i
  <2>1. n \in Signed
    BY <1>2 DEF Walked
  <2>2. Named(file.gops[j]) /\ Index(j) = n
    BY <1>6, <2>1 DEF Named, Index
  <2> QED BY <1>4, <2>2 DEF Credited
<1> QED BY <1>5, <1>6 DEF Gops

\* A verified clip is of this recording, in its order, at its instants.
THEOREM ClipsAreOfTheRecording == Spec => []ClipIsOfTheRecording
  BY TypeCorrect, TypedClip, PTL

\* Frames that are not the signed ones are accused once a group names us.
THEOREM ForeignFramesAreAccused == Spec => []ForeignFramesAreTampering
  BY TypeCorrect, TypedTampering, PTL

\* A segment is credited once, for frames that are there.
THEOREM EveryCreditIsEarned == Spec => []CreditIsEarned
  BY TypeCorrect, TypedCredit, PTL

(***************************************************************************)
(* What was at most cut is not accused.                                    *)
(***************************************************************************)
\* The device signed one timing record for each segment; the sealed file is the one
\* it wrote.
RecordInv ==
  /\ core.root \in [1 .. Count -> Timings]
  /\ file.sealed => /\ file.gops = Recorded /\ file.presentation = AsRecorded
                    /\ file.is \in {"readable", "unsupported"}

LEMMA Recording == Spec => []RecordInv
<1>1. Init => RecordInv
  <2> SUFFICES ASSUME Init PROVE RecordInv
    OBVIOUS
  <2> DEFINE Records == {[k \in 1 .. Count |-> TimingOf[k - 1]], [k \in 1 .. Count |-> TimingOf[0]]}
  <2>1. \A claimed \in Records : claimed \in [1 .. Count -> Timings]
    BY ConstantsOK
  <2>2. core.root \in Records
    BY DEF Init
  <2> QED
    BY <2>1, <2>2 DEF Init, RecordInv
<1>2. TypeOK /\ RecordInv /\ [Next]_vars => RecordInv'
  <2> SUFFICES ASSUME TypeOK, RecordInv, [Next]_vars PROVE RecordInv'
    OBVIOUS
  <2>1. CASE UNCHANGED vars
    BY <2>1 DEF vars, RecordInv
  <2>2. ASSUME core' = core, file' = file \/ file'.sealed = FALSE PROVE RecordInv'
    BY <2>2 DEF RecordInv
  <2>3. CASE EditsTheFile
    <3>1. file \in File
      BY DEF TypeOK
    <3>2. ASSUME NEW gops, EditGops(gops) PROVE core' = core /\ file'.sealed = FALSE
      BY <3>1, <3>2 DEF EditGops, File
    <3>3. ASSUME NEW k, NEW field, NEW value, EditGop(k, field, value)
          PROVE  core' = core /\ file'.sealed = FALSE
      BY <3>2, <3>3 DEF EditGop
    <3>4. ASSUME NEW field, NEW value, EditFile(field, value)
          PROVE  core' = core /\ file'.sealed = FALSE
      BY <3>1, <3>4 DEF EditFile, File
    <3>5. core' = core /\ file'.sealed = FALSE
      BY <2>3, <3>2, <3>3, <3>4 DEF EditsTheFile, Cut, Repeat, Move, Splice, Repaint, Rename, Retime,
         Trim, Represent, AddTrack, Rewrap
    <3> QED
      BY <2>2, <3>5
  <2>4. CASE EditsTheProof
    BY <2>2, <2>4 DEF EditsTheProof, DropEntry, PutEntry, SetEntry, AddEntry, EditEntries
  <2> QED
    BY <2>1, <2>3, <2>4 DEF Next
<1> QED
  BY <1>1, <1>2, TypeCorrect, PTL DEF Spec

\* Entries as the recorder wrote them, found by their index.
LEMMA WrittenEntry ==
  ASSUME EntriesAsWritten, NEW n \in Signed
  PROVE  n \in Indices /\ At(n) = EntryOf(<<"ours", n>>, core.root[n + 1])
<1> DEFINE i == CHOOSE i \in DOMAIN entries : entries[i].gop = n
<1>1. i \in DOMAIN entries /\ entries[i].gop = n
  BY DEF Signed
<1>2. PICK m \in Indices : entries[i] = EntryOf(<<"ours", m>>, core.root[m + 1])
  BY <1>1 DEF EntriesAsWritten, AsWritten
<1>3. m = n
  BY <1>1, <1>2 DEF EntryOf
<1> QED
  BY <1>2, <1>3 DEF At

LEMMA WrittenChainHolds ==
  ASSUME TypeOK, RecordInv, EntriesAsWritten
  PROVE  /\ WellFormed /\ Distinct /\ Walked = Signed
         /\ TimingComplete => RootHolds
         /\ \A n \in Signed : At(n).hash = <<"ours", n>>
<1>1. \A n \in Signed : /\ n \in Indices /\ n \in Int
                        /\ At(n).gop = n /\ At(n).hash = <<"ours", n>> /\ At(n).sig = <<"ours", n>>
                        /\ At(n).prev = (IF n = 0 THEN Zero ELSE <<"ours", n - 1>>)
                        /\ At(n).timing = core.root[n + 1]
  <2> SUFFICES ASSUME NEW n \in Signed
               PROVE  /\ n \in Indices /\ n \in Int
                      /\ At(n).gop = n /\ At(n).hash = <<"ours", n>> /\ At(n).sig = <<"ours", n>>
                      /\ At(n).prev = (IF n = 0 THEN Zero ELSE <<"ours", n - 1>>)
                      /\ At(n).timing = core.root[n + 1]
    OBVIOUS
  <2>1. n \in Indices /\ At(n) = EntryOf(<<"ours", n>>, core.root[n + 1])
    BY WrittenEntry
  <2> QED
    BY <2>1 DEF EntryOf, Before, Indices
<1>2. WellFormed
  <2> SUFFICES ASSUME NEW i \in DOMAIN entries PROVE entries[i].gop >= 0
    BY DEF WellFormed
  <2>1. PICK m \in Indices : entries[i] = EntryOf(<<"ours", m>>, core.root[m + 1])
    BY DEF EntriesAsWritten, AsWritten
  <2> QED
    BY <2>1 DEF EntryOf, Indices
<1>3. \A n \in Signed : Follows(n) /\ Verifies(n)
  <2> SUFFICES ASSUME NEW n \in Signed PROVE Follows(n) /\ Verifies(n)
    OBVIOUS
  <2>1. Follows(n)
    <3>1. CASE n = 0
      BY <1>1, <3>1 DEF Follows
    <3>2. CASE n # 0
      <4>1. At(n).prev = <<"ours", n - 1>>
        BY <1>1, <3>2
      <4>2. n - 1 \in Signed => At(n - 1).sig = <<"ours", n - 1>>
        BY <1>1
      <4> QED
        BY <3>2, <4>1, <4>2 DEF Follows
    <3> QED
      BY <3>1, <3>2
  <2>2. Verifies(n)
    <3>1. Before(<<"ours", n>>) = IF n = 0 THEN Zero ELSE <<"ours", n - 1>>
      BY DEF Before
    <3>2. At(n).sig = <<"ours", n>> /\ At(n).hash = At(n).sig /\ At(n).prev = Before(At(n).sig)
      BY <1>1, <3>1
    <3> QED
      BY <3>2 DEF Verifies
  <2> QED
    BY <2>1, <2>2
<1>4. Walked = Signed
  BY <1>3 DEF Walked
<1>5. ASSUME TimingComplete PROVE RootHolds
  <2>1. Signed = Indices /\ core.root \in [1 .. Count -> Timings]
    BY <1>5 DEF TimingComplete, RecordInv
  <2>2. ASSUME NEW k \in 1 .. Count PROVE At(k - 1).timing = core.root[k]
    <3>1. k - 1 \in Signed /\ (k - 1) + 1 = k
      BY <2>1, ConstantsOK DEF Indices
    <3> QED
      BY <1>1, <3>1
  <2> QED
    BY <2>1, <2>2 DEF RootHolds
<1> QED
  BY <1>1, <1>2, <1>4, <1>5 DEF EntriesAsWritten

\* What is left of the groups, in their order.
GroupsLeft ==
  /\ \A gop \in Gops : Genuine(gop) /\ gop.frames[2] \in Signed
  /\ InSignedOrder

LEMMA GroupsLeftAreNamed ==
  ASSUME TypeOK, GroupsLeft
  PROVE  /\ ~Problems
         /\ \A k \in Positions : /\ Named(file.gops[k]) /\ Index(k) \in Indices \cap Signed
                                 /\ file.gops[k].frames = <<"ours", Index(k)>>
<1>1. ASSUME NEW k \in Positions
      PROVE  /\ Named(file.gops[k]) /\ Index(k) \in Indices \cap Signed
             /\ file.gops[k].frames = <<"ours", Index(k)>>
  <2>1. PICK n \in Indices : file.gops[k].frames = <<"ours", n>> /\ file.gops[k].sei = <<<<"ours", n>>>>
    BY DEF GroupsLeft, Gops, Genuine
  <2>2. n \in Signed
    BY <2>1 DEF GroupsLeft, Gops
  <2> QED
    BY <2>1, <2>2 DEF Named, Index
<1>2. ~Problems
  <2>1. \A k \in Positions : \A j \in 1 .. k - 1 : ~(Index(k) <= Index(j))
    <3> SUFFICES ASSUME NEW k \in Positions, NEW j \in 1 .. k - 1 PROVE Index(j) < Index(k)
      BY <1>1, PositionsType DEF Indices
    <3>1. j \in Positions
      BY PositionsType
    <3>2. file.gops[j].frames[2] < file.gops[k].frames[2]
      BY DEF GroupsLeft, InSignedOrder
    <3> QED
      BY <1>1, <3>1, <3>2
  <2> QED
    BY <1>1, <2>1 DEF Problems
<1> QED
  BY <1>1, <1>2

LEMMA NothingAccusesTheRest ==
  ASSUME TypeOK, RecordInv, EntriesAsWritten, GroupsLeft, file.is # "malformed",
         NEW recompute \in BOOLEAN
  PROVE  /\ ~Accused(Reads(recompute))
         /\ Contradicted(LocatedBy(Reads(recompute))) = {}
<1> DEFINE read == Reads(recompute)
<1>1. read # "malformed"
  BY DEF Reads, Recomputed
<1>2. /\ WellFormed /\ Distinct /\ Walked = Signed /\ (TimingComplete => RootHolds)
      /\ \A n \in Signed : At(n).hash = <<"ours", n>>
  BY WrittenChainHolds
<1>3. ~Problems /\ \A k \in Positions : file.gops[k].frames = <<"ours", Index(k)>>
  BY GroupsLeftAreNamed
<1>4. Contradicted(Located) = {}
  <2> SUFFICES ASSUME NEW n \in Walked \cap Located PROVE GopAt(n).frames = At(n).hash
    BY DEF Contradicted
  <2>1. PICK k \in Credited : Index(k) = n
    BY DEF Located
  <2>2. k \in Positions /\ GopAt(n) = file.gops[k]
    BY <2>1, LocatedGop DEF Credited
  <2> QED
    BY <1>2, <1>3, <2>1, <2>2
<1>5. Contradicted(LocatedBy(read)) = {}
  BY <1>4 DEF LocatedBy, Contradicted
<1>6. ChainStatus(LocatedBy(read)) # "tampered"
  BY <1>2, <1>5 DEF ChainStatus
<1> QED
  BY <1>1, <1>2, <1>3, <1>5, <1>6 DEF Accused

LEMMA TypedCut == TypeOK /\ RecordInv => CuttingIsNotAccused
<1> SUFFICES ASSUME TypeOK, RecordInv, file.is # "malformed", EntriesAsWritten, GroupsLeft,
                    NEW recompute \in BOOLEAN
             PROVE  Outcome(recompute).outcome # "tampered"
  BY DEF CuttingIsNotAccused, GroupsLeft
<1>1. ~Accused(Reads(recompute))
  BY NothingAccusesTheRest
<1> QED
  BY <1>1 DEF Outcome, Answer

(***************************************************************************)
(* The sealed original.                                                    *)
(***************************************************************************)
LEMMA SealedGroups ==
  ASSUME TypeOK, RecordInv, file.sealed
  PROVE  /\ Positions = 1 .. Count
         /\ \A k \in Positions : file.gops[k] = GopOf(<<"ours", k - 1>>, TimingOf[k - 1])
BY ConstantsOK DEF RecordInv, Recorded, Positions

LEMMA SealedGroupsAreLeft ==
  ASSUME TypeOK, RecordInv, file.sealed, TimingComplete
  PROVE  GroupsLeft
<1>1. Positions = 1 .. Count /\ Signed = Indices /\ Count \in Nat
  BY SealedGroups, ConstantsOK DEF TimingComplete
<1>2. ASSUME NEW k \in Positions
      PROVE  /\ k - 1 \in Indices /\ file.gops[k].frames = <<"ours", k - 1>>
             /\ file.gops[k].sei = <<<<"ours", k - 1>>>>
  <2>1. file.gops[k] = GopOf(<<"ours", k - 1>>, TimingOf[k - 1])
    BY SealedGroups
  <2>2. k - 1 \in Indices
    BY <1>1 DEF Indices
  <2> QED
    BY <2>1, <2>2 DEF GopOf
<1>3. \A k \in Positions : Genuine(file.gops[k]) /\ file.gops[k].frames[2] \in Signed
  BY <1>1, <1>2 DEF Genuine
<1>4. InSignedOrder
  <2> SUFFICES ASSUME NEW k \in Positions, NEW j \in 1 .. k - 1
               PROVE  file.gops[j].frames[2] < file.gops[k].frames[2]
    BY DEF InSignedOrder
  <2>1. j \in Positions /\ j - 1 < k - 1
    BY <1>1
  <2> QED
    BY <1>2, <2>1
<1> QED
  BY <1>3, <1>4 DEF GroupsLeft, Gops

\* A readable original gives the timing of its own segments.
LEMMA OriginalTiming ==
  ASSUME TypeOK, RecordInv, file.sealed, TimingComplete, file.is = "readable",
         core.root = [k \in 1 .. Count |-> TimingOf[k - 1]]
  PROVE  Recomputed = "hashes" /\ ~OriginalTimingDiffers(Located)
<1>1. Positions = 1 .. Count /\ Count \in Nat \ {0}
  BY SealedGroups, ConstantsOK
<1>2. /\ ~Problems
      /\ \A k \in Positions : Named(file.gops[k]) /\ file.gops[k].frames = <<"ours", Index(k)>>
  BY SealedGroupsAreLeft, GroupsLeftAreNamed
<1>3. Recomputed = "hashes"
  <2>1. 1 \in Positions
    BY <1>1
  <2>2. NamesOurs(file.gops[1])
    BY <1>2, <2>1 DEF Named, NamesOurs
  <2> QED
    BY <2>1, <2>2 DEF Recomputed
<1>4. ASSUME NEW n \in Indices PROVE n \in Located /\ GopAt(n).timing = core.root[n + 1]
  <2>1. n + 1 \in Positions /\ (n + 1) - 1 = n
    BY <1>1 DEF Indices
  <2>2. file.gops[n + 1] = GopOf(<<"ours", n>>, TimingOf[n])
    BY <2>1, SealedGroups
  <2>3. Index(n + 1) = n /\ file.gops[n + 1].timing = TimingOf[n]
    BY <2>2 DEF Index, GopOf
  <2>4. n + 1 \in Credited
    BY <1>2, <2>1, AllCredited
  <2>5. n \in Located /\ GopAt(n) = file.gops[n + 1]
    BY <2>3, <2>4, LocatedGop DEF Located
  <2>6. core.root[n + 1] = TimingOf[n]
    BY <1>1, <2>1
  <2> QED
    BY <2>3, <2>5, <2>6
<1> QED
  BY <1>3, <1>4 DEF OriginalTimingDiffers

LEMMA TypedOriginal == TypeOK /\ RecordInv => OriginalStands
<1> SUFFICES ASSUME TypeOK, RecordInv, file.sealed, EntriesAsWritten, TimingComplete,
                    NEW recompute \in BOOLEAN
             PROVE  /\ Outcome(recompute).outcome = "authentic"
                    /\ "presentation differs" \in Outcome(recompute).labels => core.presentation # AsRecorded
                    /\ "timing differs" \in Outcome(recompute).labels =>
                         core.root # [k \in 1 .. Count |-> TimingOf[k - 1]]
  BY DEF OriginalStands
<1> DEFINE read == Reads(recompute)
<1>1. file.is \in {"readable", "unsupported"} /\ file.presentation = AsRecorded
  BY DEF RecordInv
<1>2. ~Accused(read) /\ Contradicted(LocatedBy(read)) = {}
  BY <1>1, SealedGroupsAreLeft, NothingAccusesTheRest
<1>3. ChainStatus(LocatedBy(read)) = "complete"
  <2>1. WellFormed /\ Distinct /\ Walked = Signed /\ Signed = Indices
    BY WrittenChainHolds DEF TimingComplete
  <2> QED
    BY <1>2, <2>1 DEF ChainStatus, Verified
<1>4. Outcome(recompute) = Answer("authentic", CreditedBy(read), Misstated(read))
  BY <1>2, <1>3 DEF Outcome
<1>5. "presentation differs" \in Misstated(read) => core.presentation # AsRecorded
  BY <1>1 DEF Misstated, PresentationDiffers
<1>6. ASSUME "timing differs" \in Misstated(read)
      PROVE  core.root # [k \in 1 .. Count |-> TimingOf[k - 1]]
  <2>1. read \in {"hashes", "unlocated"} /\ OriginalTimingDiffers(LocatedBy(read))
    BY <1>6 DEF Misstated
  <2>2. read = Recomputed /\ file.is = "readable"
    BY <1>1, <2>1 DEF Reads, Recomputed
  <2> QED
    BY <2>1, <2>2, OriginalTiming DEF LocatedBy
<1>7. Outcome(recompute).outcome = "authentic" /\ Outcome(recompute).labels = Misstated(read)
  BY <1>4 DEF Answer
<1> QED
  BY <1>5, <1>6, <1>7

\* A recording that was cut, with its entries or without, or presented otherwise is
\* never called tampering while the entries of what is left stay (verify.ts).
THEOREM CutsAreNotAccused == Spec => []CuttingIsNotAccused
  BY TypeCorrect, Recording, TypedCut, PTL

\* The sealed file under all its entries is authentic whatever a reader recomputes,
\* with a label only for what the recorder signed wrongly (verify.ts).
THEOREM TheOriginalStands == Spec => []OriginalStands
  BY TypeCorrect, Recording, TypedOriginal, PTL
=============================================================================
