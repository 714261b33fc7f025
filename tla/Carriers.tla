------------------------------ MODULE Carriers ------------------------------
(***************************************************************************)
(* Which proof a file is judged by: `extractProof`, `unreadableAlternate`  *)
(* and the manifest store of core/src/carrier.ts, the trailer of           *)
(* core/src/trailer.ts, and the ranking of two verdicts in `verifyFile`,   *)
(* `verdictOfFile` and `precedence` of core/src/verify.ts.                 *)
(*                                                                         *)
(* A device sealed a capture, "own"; whoever holds the file adds, removes  *)
(* and breaks trailers and manifest stores and edits the content.  A       *)
(* reader comes with the file, perhaps a sidecar and a store of its own.   *)
(*                                                                         *)
(* A payload is the JSON of a proof: the capture it is of, the form its    *)
(* bytes take, the colour its attachments earn, and how it reads.  A       *)
(* trailer is a `free` box and a footer, or a footer alone ("no_box").     *)
(***************************************************************************)
EXTENDS Integers, Sequences, FiniteSetsExt, SequencesExt

CONSTANTS
  Payloads,    \* the payloads in circulation
  Stores,      \* the manifest stores in circulation
  Held,        \* those a reader may bring along
  SealedIn,    \* the stores a device may have written before it sealed
  MaxDepth,    \* MAX_CHAIN_DEPTH
  MaxEdits     \* a bound on the changes made to a file

\* No payload, no store, no proof.
None == [absent |-> TRUE]

Captures == {"own", "theirs"}
Payload ==
  [ of : Captures, form : {"sealed", "rewritten"}, colour : {"red", "amber"},
    reads : {"whole", "not_JSON", "throws"} ]
\* kind is "plain" or stands for a manifest the search cannot go through;
\* parent is a position in the store, or 0 for none that can be followed.
Manifest == [kind : {"plain", "unread"}, proof : Payload \cup {None}, parent : Nat]
Store == [read : BOOLEAN, manifests : Seq(Manifest)]

ASSUME CarriersAssumption ==
  /\ MaxDepth \in Nat /\ MaxEdits \in Nat
  /\ Payloads \subseteq Payload
  /\ Stores \cup Held \subseteq Store /\ SealedIn \subseteq Store
  /\ \A s \in Stores \cup Held \cup SealedIn : s.read =>
       /\ s.manifests # <<>>
       /\ \A i \in DOMAIN s.manifests : s.manifests[i].parent <= Len(s.manifests)
  \* What a device seals has no proof in it yet.
  /\ \A s \in SealedIn : \A i \in DOMAIN s.manifests : s.manifests[i].proof = None

VARIABLES
  format,   \* "jpeg", "heic" or "mp4"
  sealed,   \* the stores that were in the file when it was sealed
  file,     \* [content, stores, tail], the trailers last
  edits     \* how many changes were made
vars == <<format, sealed, file, edits>>

Trailer == [is : {"ok", "bad_CRC", "other_major", "no_box"}, payload : Payload \cup {None}]
Bytes ==
  [ content : Captures \X {"whole", "cut", "remuxed"}, stores : Seq(Store), tail : Seq(Trailer) ]

(***************************************************************************)
(* The trailer.                                                            *)
(***************************************************************************)
Intact(payload) == [is |-> "ok", payload |-> payload]
Broken(is) == [is |-> is, payload |-> None]

\* parseTrailer, by the last footer; one whose size fits no box is none.
TrailerOf(bytes) ==
  IF bytes.tail = <<>> \/ Last(bytes.tail).is = "no_box" THEN "none" ELSE Last(bytes.tail).is

WithoutLast(bytes) == [bytes EXCEPT !.tail = Front(bytes.tail)]

(***************************************************************************)
(* The manifest store: the nearest proof up the chain of parents.          *)
(***************************************************************************)
Active(store) == Len(store.manifests)

\* The manifest at each depth, 0 where the chain has ended: at one the search
\* cannot read, or back at one it visited.
Chain(store) ==
  LET at[d \in 0 .. MaxDepth] ==
        IF d = 0 THEN Active(store)
        ELSE LET below == at[d - 1]
                 above == IF below = 0 THEN 0 ELSE store.manifests[below].parent
             IN  IF below = 0 \/ above = 0 THEN 0
                 ELSE IF \/ store.manifests[below].kind = "unread"
                         \/ \E e \in 0 .. d - 1 : at[e] = above
                      THEN 0 ELSE above
  IN  at

HasProof(store, d) ==
  LET i == Chain(store)[d] IN
  i # 0 /\ store.manifests[i].kind = "plain" /\ store.manifests[i].proof # None

FirstOf(store, depths) ==
  IF depths = {} THEN None
  ELSE [payload |-> store.manifests[Chain(store)[Min(depths)]].proof, depth |-> Min(depths)]

Search(store, from, to) ==
  IF store = None \/ ~store.read THEN None
  ELSE FirstOf(store, {d \in from .. to : HasProof(store, d)})

\* credentials: the one store embedded, or the reader's when there is none.
Credentials(bytes, external) ==
  CASE Len(bytes.stores) > 1 -> None
    [] Len(bytes.stores) = 1 -> bytes.stores[1]
    [] OTHER -> external

Nearest(bytes, external, from, to) == Search(Credentials(bytes, external), from, to)
InActive(bytes, external) == Nearest(bytes, external, 0, 0)
InAncestor(bytes, external) == Nearest(bytes, external, 1, MaxDepth)

(***************************************************************************)
(* One proof judged over the bytes it goes with.                           *)
(***************************************************************************)
\* The canonical bytes are the sealed ones; a JPEG's store is outside them.
Matches(payload, bytes) ==
  /\ bytes.content = <<payload.of, "whole">>
  /\ bytes.tail = <<>>
  /\ format # "jpeg" => bytes.stores = IF payload.of = "own" THEN sealed ELSE <<>>

Judge(payload, bytes) ==
  IF payload.reads = "not_JSON" THEN "no_proof_found"
  ELSE IF payload.reads = "throws" THEN "throws"
  ELSE IF Matches(payload, bytes) THEN "authentic"
  ELSE IF format # "mp4" THEN "tampered"
  ELSE IF bytes.content[1] = payload.of /\ bytes.content[2] # "remuxed" THEN "verified_clip"
  ELSE "frames_not_compared"

Rank(outcome) ==
  CASE outcome = "authentic" -> 3
    [] outcome = "verified_clip" -> 2
    [] outcome = "frames_not_compared" -> 1
    [] OTHER -> 0

\* Two copies are one proof when they parse to the same JSON.
SameProof(p, q) ==
  /\ p.reads # "not_JSON" /\ q.reads # "not_JSON"
  /\ [p EXCEPT !.form = "sealed"] = [q EXCEPT !.form = "sealed"]

(***************************************************************************)
(* extractProof: a proof found is its payload, the bytes it is judged      *)
(* over, its source, the labels it starts with and its rival, if any.      *)
(***************************************************************************)
Found(payload, bytes, source, labels) ==
  [payload |-> payload, bytes |-> bytes, source |-> source, depth |-> 0, labels |-> labels]

Differs(copy, payload) == copy # None /\ ~SameProof(copy.payload, payload)
ManifestCopy(active, payload) ==
  IF Differs(active, payload) THEN {"manifest_copy_differs"} ELSE {}

\* Fault: the manifest is compared with the trailer, whichever proof decides.
BesideTrailerLabelsOnly(active, sidecar) == {"trailer_copy_differs"}
BesideTrailerLabels(active, sidecar) == {"trailer_copy_differs"} \cup ManifestCopy(active, sidecar)

Stands(found, rival) == [refused |-> "", found |-> found, rival |-> rival]
Refused(outcome) == [refused |-> outcome, found |-> None, rival |-> None]

OfTrailer(payload, media, sidecar, active) ==
  LET copy == ManifestCopy(active, payload) IN
  IF TrailerOf(media) # "none" THEN Refused("nested_proof")
  ELSE IF sidecar \in {None, payload}
  THEN Stands(Found(payload, media, "trailer", copy), None)
  ELSE Stands(Found(payload, media, "trailer", copy \cup {"sidecar_differs"}),
              Found(sidecar, media, "sidecar", BesideTrailerLabels(active, sidecar)))

OfManifest(bytes, sidecar, active) ==
  IF sidecar = None \/ SameProof(sidecar, active.payload)
  THEN Stands(Found(active.payload, bytes, "manifest", {}), None)
  ELSE Stands(Found(active.payload, bytes, "manifest", {"sidecar_differs"}),
              Found(sidecar, bytes, "sidecar", {"manifest_copy_differs"}))

\* Without a trailer: the active manifest, the sidecar, a manifest further up.
WithoutTrailer(bytes, sidecar, active, ancestor) ==
  IF active # None THEN OfManifest(bytes, sidecar, active)
  ELSE IF sidecar # None THEN Stands(Found(sidecar, bytes, "sidecar", {}), None)
  ELSE IF ancestor # None
  THEN Stands([Found(ancestor.payload, bytes, "manifest", {}) EXCEPT !.depth = ancestor.depth], None)
  ELSE Refused("no_proof_found")

Extract(bytes, sidecar, active, ancestor) ==
  CASE TrailerOf(bytes) = "bad_CRC" -> Refused("corrupted_proof")
    [] TrailerOf(bytes) = "other_major" -> Refused("unsupported_format_version")
    [] TrailerOf(bytes) = "ok" ->
         OfTrailer(Last(bytes.tail).payload, WithoutLast(bytes), sidecar, active)
    [] TrailerOf(bytes) = "none" -> WithoutTrailer(bytes, sidecar, active, ancestor)

(***************************************************************************)
(* The verdict of the file.  Its labels survive in the outcomes that stand *)
(* on a proof; the others carry a reason.                                  *)
(***************************************************************************)
Answer(outcome, found) ==
  [ outcome |-> outcome, proof |-> found.payload, source |-> found.source,
    labels |-> IF Rank(outcome) > 0 THEN found.labels ELSE {} ]

NoProof(outcome) == [outcome |-> outcome, proof |-> None, source |-> "none", labels |-> {}]

JudgedAs(found) == Answer(Judge(found.payload, found.bytes), found)

\* Fault: an equal outcome is enough for the sidecar.
BetterOrEqual(challenger, standing) ==
  challenger.outcome # "throws" /\ Rank(challenger.outcome) >= Rank(standing.outcome)

\* A challenger that cannot be judged to the end loses.
Better(challenger, standing) ==
  challenger.outcome # "throws" /\ Rank(challenger.outcome) > Rank(standing.outcome)

Ranked(standing, challenger) == IF Better(challenger, standing) THEN challenger ELSE standing

\* A proof that stands and cannot be judged to the end takes its rival with it.
Precedence(standing, rival) ==
  IF standing.outcome = "throws" \/ rival = None THEN standing
  ELSE Ranked(standing, JudgedAs(rival))

\* Fault: a source capture's proof accuses the file made from it.
OfAncestorAccused(depth, judged) == judged

\* A source capture's proof accuses nothing that was made from it.
OfAncestor(depth, judged) ==
  IF depth > 0 /\ judged.outcome \in {"tampered", "frames_not_compared"}
  THEN [judged EXCEPT !.outcome = "no_proof_found", !.labels = {}]
  ELSE judged

VerdictOf(x) ==
  IF x.refused # "" THEN NoProof(x.refused)
  ELSE OfAncestor(x.found.depth, Precedence(JudgedAs(x.found), x.rival))

VerdictOfFile(bytes, sidecar, external) ==
  VerdictOf(Extract(bytes, sidecar, InActive(bytes, external), InAncestor(bytes, external)))

\* unreadableAlternate: a footer this reader cannot use is set aside, once.
HasAlternate(bytes, sidecar) == sidecar # None /\ bytes.tail # <<>> /\ TrailerOf(bytes) # "ok"

\* Fault: every trailer goes, down to the bytes the sidecar is of.
AlternateBytesPeeled(bytes) == [bytes EXCEPT !.tail = <<>>]
AlternateBytes(bytes) == WithoutLast(bytes)

Alternate(sidecar, media, active) ==
  JudgedAs(Found(sidecar, media, "sidecar", {"trailer_unreadable"} \cup ManifestCopy(active, sidecar)))

Reread(verdict, bytes, sidecar, external) ==
  IF HasAlternate(bytes, sidecar)
  THEN Ranked(verdict, Alternate(sidecar, AlternateBytes(bytes),
                                 InActive(AlternateBytes(bytes), external)))
  ELSE verdict

Settled(verdict, bytes, sidecar, external) ==
  IF verdict.outcome = "throws" THEN NoProof("corrupted_proof")
  ELSE Reread(verdict, bytes, sidecar, external)

Verify(bytes, sidecar, external) ==
  Settled(VerdictOfFile(bytes, sidecar, external), bytes, sidecar, external)

(***************************************************************************)
(* The device, and whoever holds the file.                                 *)
(***************************************************************************)
Own == [of |-> "own", form |-> "sealed", colour |-> "red", reads |-> "whole"]

Init ==
  /\ format \in {"jpeg", "heic", "mp4"}
  /\ sealed \in {<<>>} \cup {<<s>> : s \in SealedIn}
  /\ \E tail \in {<<>>, <<Intact(Own)>>} :
       file = [content |-> <<"own", "whole">>, stores |-> sealed, tail |-> tail]
  /\ edits = 0

Edit(field, value) ==
  /\ file[field] # value
  /\ edits < MaxEdits
  /\ edits' = edits + 1
  /\ file' = [file EXCEPT ![field] = value]
  /\ UNCHANGED <<format, sealed>>

\* Two trailers and two stores are all the code ever looks at.
StripTrailer == file.tail # <<>> /\ Edit("tail", Front(file.tail))

AppendTrailer(t) == Len(file.tail) < 2 /\ Edit("tail", Append(file.tail, t))
BreakTrailer(is) ==
  TrailerOf(file) = "ok" /\ Edit("tail", Append(Front(file.tail), Broken(is)))
EmbedStore(s) == Len(file.stores) < 2 /\ Edit("stores", Append(file.stores, s))
DropStores == Edit("stores", <<>>)
Recut(content) == Edit("content", content)

\* Fault: the new trailer goes after the old one.
ReplaceTrailerAppending(payload) ==
  TrailerOf(file) = "ok" /\ Edit("tail", Append(file.tail, Intact(payload)))

\* replaceTrailer, by a caller that compared the cores.
ReplaceTrailer(payload) ==
  /\ TrailerOf(file) = "ok"
  /\ TrailerOf(WithoutLast(file)) = "none"
  /\ Last(file.tail).payload.reads = "whole" /\ payload.reads = "whole"
  /\ payload.of = Last(file.tail).payload.of
  /\ Edit("tail", Append(Front(file.tail), Intact(payload)))

Next ==
  \/ StripTrailer
  \/ \E payload \in Payloads : AppendTrailer(Intact(payload)) \/ ReplaceTrailer(payload)
  \/ \E is \in {"bad_CRC", "other_major", "no_box"} : AppendTrailer(Broken(is)) \/ BreakTrailer(is)
  \/ \E s \in Stores : EmbedStore(s)
  \/ DropStores
  \/ \E content \in Captures \X {"whole", "cut", "remuxed"} : Recut(content)

Spec == Init /\ [][Next]_vars
-----------------------------------------------------------------------------
Sidecars == Payloads \cup {None}
Externals == Held \cup {None}

OutcomeFor(sidecar, external) == Verify(file, sidecar, external).outcome

CarriesThrowing ==
  \/ \E i \in DOMAIN file.tail : file.tail[i].payload # None /\ file.tail[i].payload.reads = "throws"
  \/ \E i \in DOMAIN file.stores : \E j \in DOMAIN file.stores[i].manifests :
       LET proof == file.stores[i].manifests[j].proof IN proof # None /\ proof.reads = "throws"

\* Beside its own sidecar a genuine file is authentic whatever one trailer,
\* intact, broken or foreign, somebody added to it, and on a JPEG whatever
\* stores (verify.ts, the ranking; carrier.ts, unreadableAlternate).  Two
\* trailers are nested; a proof whose reading throws is never set aside.
GenuineBesideItsSidecar ==
  (/\ file.content = <<"own", "whole">> /\ Len(file.tail) <= 1
   /\ (format = "jpeg" \/ file.stores = sealed)
   /\ ~CarriesThrowing)
  => OutcomeFor(Own, None) = "authentic"

\* A sidecar that outranks what a file carries gains nothing that deleting the
\* trailer or the stores would not give (README, A sidecar beside a different
\* depth-0 proof).
Deleted ==
  (IF file.tail = <<>> THEN {} ELSE {WithoutLast(file)}) \cup {[file EXCEPT !.stores = <<>>]}

GivesAsMuch(outcome, sidecar) ==
  \E bytes \in Deleted : Rank(Verify(bytes, sidecar, None).outcome) >= Rank(outcome)

SidecarGainsWhatDeletingGives ==
  \A sidecar \in Payloads, external \in Externals :
    \/ Rank(OutcomeFor(sidecar, external)) <= Rank(OutcomeFor(None, external))
    \/ (file.tail = <<>> /\ InActive(file, external) = None)
    \/ GivesAsMuch(OutcomeFor(sidecar, external), sidecar)

\* A verdict that stands on one of several copies of a proof says so of every
\* other copy that is not the same: of the trailer, of the sidecar and of the
\* active manifest (extractProof's labels, carried through the ranking).
TellsOf(verdict, sidecar, active) ==
  Rank(verdict.outcome) > 0 =>
    /\ (verdict.source # "sidecar" /\ sidecar # None /\ ~SameProof(sidecar, verdict.proof)) =>
         "sidecar_differs" \in verdict.labels
    /\ (verdict.source # "manifest" /\ Differs(active, verdict.proof)) =>
         "manifest_copy_differs" \in verdict.labels
    /\ (verdict.source # "trailer" /\ TrailerOf(file) # "none") =>
         {"trailer_copy_differs", "trailer_unreadable"} \cap verdict.labels # {}

DifferenceIsTold ==
  \A sidecar \in Sidecars, external \in Externals :
    TellsOf(Verify(file, sidecar, external), sidecar, InActive(file, external))

\* A file made from a capture, that says so in its manifests and carries no
\* trailer, is not accused of being what it was made from (verdictOfFile).
DerivedIsNotAccused ==
  \A external \in Externals :
    (file.tail = <<>> /\ InActive(file, external) = None) =>
      OutcomeFor(None, external) \notin {"tampered", "frames_not_compared", "nested_proof"}

\* A copy of the proof a file carries, with other attachments, does not become
\* the verdict by coming as a sidecar: outcomes are ranked and ceilings are not,
\* so a copy stripped of what makes it red wins nothing (verify.ts, RANK).
KeepsOver(kept, sidecar, external) ==
  Rank(kept.outcome) > 0 /\ kept.proof.of = sidecar.of =>
    Verify(file, sidecar, external).proof = kept.proof

FilesCopyStands ==
  \A sidecar \in Payloads, external \in Externals :
    (TrailerOf(file) = "ok" \/ (file.tail = <<>> /\ InActive(file, external) # None)) =>
      KeepsOver(Verify(file, None, external), sidecar, external)

\* A copy beside a file never takes away what the file or its own sidecar says:
\* a genuine file beside its sidecar stands, and so does the copy in the file.
CopiesNeverHarm == GenuineBesideItsSidecar /\ FilesCopyStands

\* Putting attachments back into a sealed file never changes what is said of
\* its content, to a reader with or without a sidecar (replaceTrailer).
ReplacingKeepsTheOutcome ==
  [][ (\E payload \in Payloads : ReplaceTrailer(payload)) =>
        \A sidecar \in Sidecars :
          Verify(file', sidecar, None).outcome = Verify(file, sidecar, None).outcome ]_vars
=============================================================================
