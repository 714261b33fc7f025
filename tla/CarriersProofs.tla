---------------------------- MODULE CarriersProofs ----------------------------
(***************************************************************************)
(* For any proofs and stores in circulation and any number of changes to a *)
(* file: which proof it is judged by, and what is said of the others.      *)
(***************************************************************************)
EXTENDS Carriers, WellFoundedInduction, SequenceTheorems, TLAPS

(***************************************************************************)
(* The chain of parents is what its equation says, and a search finds what *)
(* is in the store.                                                        *)
(***************************************************************************)
LEMMA LeastOf ==
  ASSUME NEW S \in SUBSET Nat, S # {}
  PROVE  \E n \in S : \A m \in S : n <= m
<1> DEFINE R == {p \in Nat \X Nat : p[1] < p[2]}
<1>1. IsWellFoundedOn(R, Nat)
  BY NatLessThanWellFounded DEF OpToRel
<1> HIDE DEF R
<1>2. PICK n \in S : \A m \in S : <<m, n>> \notin R
  BY <1>1, WFMin
<1>3. ASSUME NEW m \in S PROVE n <= m
  <2>1. <<m, n>> \in R <=> m < n
    BY DEF R
  <2> QED
    BY <1>2, <2>1
<1> QED
  BY <1>3

LEMMA MinIsIn ==
  ASSUME NEW S \in SUBSET Nat, S # {}
  PROVE  Min(S) \in S
BY LeastOf DEF Min

\* What the chain holds at depth d, from what it holds above.
Link(store, at, d) ==
  IF d = 0 THEN Active(store)
  ELSE LET below == at[d - 1]
           above == IF below = 0 THEN 0 ELSE store.manifests[below].parent
       IN  IF below = 0 \/ above = 0 THEN 0
           ELSE IF \/ store.manifests[below].kind = "unread"
                   \/ \E e \in 0 .. d - 1 : at[e] = above
                THEN 0 ELSE above

LEMMA LinksAgree ==
  ASSUME NEW store, NEW f, NEW g, NEW d \in Nat,
         \A e \in 0 .. d - 1 : f[e] = g[e]
  PROVE  Link(store, f, d) = Link(store, g, d)
<1>1. CASE d = 0
  BY <1>1 DEF Link
<1>2. CASE d # 0
  <2>1. f[d - 1] = g[d - 1]
    BY <1>2
  <2>2. \A x : (\E e \in 0 .. d - 1 : f[e] = x) <=> (\E e \in 0 .. d - 1 : g[e] = x)
    OBVIOUS
  <2> QED
    BY <1>2, <2>1, <2>2 DEF Link
<1> QED
  BY <1>1, <1>2

LEMMA ChainIs ==
  ASSUME NEW store
  PROVE  Chain(store) = [d \in 0 .. MaxDepth |-> Link(store, Chain(store), d)]
<1> DEFINE Upto(n) == \E f : f = [d \in 0 .. n |-> Link(store, f, d)]
<1>1. Upto(0)
  <2> DEFINE f == [d \in 0 .. 0 |-> Active(store)]
  <2>1. f = [d \in 0 .. 0 |-> Link(store, f, d)]
    BY DEF Link
  <2> QED
    BY <2>1
<1>2. ASSUME NEW n \in Nat, Upto(n) PROVE Upto(n + 1)
  <2>1. PICK f : f = [d \in 0 .. n |-> Link(store, f, d)]
    BY <1>2
  <2> DEFINE g == [d \in 0 .. n + 1 |-> Link(store, f, d)]
  <2>2. \A e \in 0 .. n : g[e] = f[e]
    BY <2>1
  <2>3. \A d \in 0 .. n + 1 : Link(store, g, d) = Link(store, f, d)
    <3> HIDE DEF g
    <3> TAKE d \in 0 .. n + 1
    <3>1. \A e \in 0 .. d - 1 : g[e] = f[e]
      BY <2>2
    <3> QED
      BY <3>1, LinksAgree
  <2>4. g = [d \in 0 .. n + 1 |-> Link(store, g, d)]
    BY <2>3
  <2> HIDE DEF g
  <2> QED
    BY <2>4
<1>3. \A n \in Nat : Upto(n)
  <2> SUFFICES ASSUME {n \in Nat : ~Upto(n)} # {} PROVE FALSE
    OBVIOUS
  <2>1. PICK n \in Nat : ~Upto(n) /\ \A m \in Nat : ~Upto(m) => n <= m
    <3> HIDE DEF Upto
    <3> QED
      BY LeastOf
  <2>2. n # 0
    BY <1>1, <2>1
  <2>3. n - 1 \in Nat /\ ~(n <= n - 1) /\ (n - 1) + 1 = n
    BY <2>2
  <2> HIDE DEF Upto
  <2>4. Upto(n - 1)
    BY <2>1, <2>3
  <2> QED
    BY <1>2, <2>1, <2>3, <2>4
<1>4. \E f : f = [d \in 0 .. MaxDepth |-> Link(store, f, d)]
  BY <1>3, CarriersAssumption
<1> QED
  BY <1>4 DEF Chain, Link

Circulating == Stores \cup Held \cup SealedIn

LEMMA ChainStarts ==
  ASSUME NEW store
  PROVE  Chain(store)[0] = Active(store)
<1>1. 0 \in 0 .. MaxDepth
  BY CarriersAssumption
<1>2. PICK at : at = Chain(store)
  OBVIOUS
<1>3. at = [d \in 0 .. MaxDepth |-> Link(store, at, d)]
  BY <1>2, ChainIs
<1>4. at[0] = Link(store, at, 0)
  BY <1>1, <1>3
<1> QED
  BY <1>2, <1>4 DEF Link

LEMMA StoreParts ==
  ASSUME NEW store \in Circulating, store.read
  PROVE  /\ Len(store.manifests) \in Nat \ {0}
         /\ DOMAIN store.manifests = 1 .. Len(store.manifests)
         /\ \A i \in DOMAIN store.manifests :
              /\ store.manifests[i].parent \in 0 .. Len(store.manifests)
              /\ store.manifests[i].proof \in Payload \cup {None}
<1>1. store.manifests \in Seq(Manifest)
  BY CarriersAssumption DEF Circulating, Store
<1>2. /\ store.manifests # << >>
      /\ \A i \in DOMAIN store.manifests : store.manifests[i].parent <= Len(store.manifests)
  BY CarriersAssumption DEF Circulating
<1>3. PICK manifests \in Seq(Manifest) : manifests = store.manifests
  BY <1>1
<1>4. Len(manifests) \in Nat /\ DOMAIN manifests = 1 .. Len(manifests)
  BY LenProperties
<1>5. Len(manifests) # 0
  BY <1>2, <1>3, EmptySeq
<1>6. \A i \in DOMAIN manifests : manifests[i] \in Manifest
  BY <1>4, ElementOfSeq
<1>7. \A i \in DOMAIN manifests :
        manifests[i].parent \in Nat /\ manifests[i].proof \in Payload \cup {None}
  BY <1>6 DEF Manifest
<1> QED
  BY <1>2, <1>3, <1>4, <1>5, <1>7

LEMMA ChainStays ==
  ASSUME NEW store \in Circulating, store.read
  PROVE  \A d \in 0 .. MaxDepth : Chain(store)[d] \in 0 .. Len(store.manifests)
<1>1. PICK at : at = Chain(store)
  OBVIOUS
<1>2. \A d \in 0 .. MaxDepth : at[d] = Link(store, at, d)
  BY <1>1, ChainIs
<1> DEFINE Astray == {d \in 0 .. MaxDepth : at[d] \notin 0 .. Len(store.manifests)}
<1>3. ASSUME Astray # {} PROVE FALSE
  <2>1. PICK d \in Astray : \A e \in Astray : d <= e
    <3>1. Astray \in SUBSET Nat
      BY CarriersAssumption
    <3> HIDE DEF Astray
    <3> QED
      BY <1>3, <3>1, LeastOf
  <2>2. CASE d = 0
    <3>1. at[d] = Active(store)
      BY <1>2, <2>2 DEF Link
    <3> QED
      BY <2>1, <3>1, StoreParts DEF Active
  <2>3. CASE d # 0
    <3>1. d \in Nat /\ d - 1 \in 0 .. MaxDepth /\ ~(d <= d - 1)
      BY <2>3, CarriersAssumption
    <3>2. at[d - 1] \in 0 .. Len(store.manifests)
      BY <2>1, <3>1
    <3>3. at[d] \in {0, store.manifests[at[d - 1]].parent} /\ (at[d - 1] = 0 => at[d] = 0)
      BY <1>2, <2>3 DEF Link
    <3>4. at[d - 1] # 0 => at[d - 1] \in DOMAIN store.manifests
      BY <3>2, StoreParts
    <3> QED
      BY <2>1, <3>3, <3>4, StoreParts
  <2> QED
    BY <2>2, <2>3
<1> QED
  BY <1>1, <1>3

\* What a search can give: a proof of one of the store's manifests, at a depth asked for.
LEMMA SearchGives ==
  ASSUME NEW store \in Circulating \cup {None}, NEW from \in Nat, NEW to \in Nat, to <= MaxDepth
  PROVE  \/ Search(store, from, to) = None
         \/ /\ Search(store, from, to) # None
            /\ Search(store, from, to).payload \in Payload
            /\ Search(store, from, to).depth \in from .. to
            /\ store # None
            /\ \E j \in DOMAIN store.manifests :
                 store.manifests[j].proof = Search(store, from, to).payload
<1> DEFINE depths == {d \in from .. to : HasProof(store, d)}
<1>1. CASE store = None \/ ~store.read \/ depths = {}
  BY <1>1 DEF Search, FirstOf
<1>2. CASE store # None /\ store.read /\ depths # {}
  <2>1. PICK d : d = Min(depths)
    OBVIOUS
  <2>2. d \in depths
    <3>1. depths \in SUBSET Nat
      OBVIOUS
    <3> HIDE DEF depths
    <3> QED
      BY <1>2, <2>1, <3>1, MinIsIn
  <2>3. PICK i : i = Chain(store)[d]
    OBVIOUS
  <2>4. Search(store, from, to) = [payload |-> store.manifests[i].proof, depth |-> d]
    BY <1>2, <2>1, <2>3 DEF Search, FirstOf
  <2>5. d \in 0 .. MaxDepth /\ i # 0 /\ store.manifests[i].proof # None
    BY <2>2, <2>3, CarriersAssumption DEF HasProof
  <2>6. store \in Circulating
    BY <1>2
  <2>7. i \in DOMAIN store.manifests
    BY <1>2, <2>3, <2>5, <2>6, ChainStays, StoreParts
  <2>8. store.manifests[i].proof \in Payload
    BY <1>2, <2>5, <2>6, <2>7, StoreParts
  <2> HIDE DEF depths
  <2>9. Search(store, from, to) # None
    BY <2>4 DEF None
  <2> QED
    BY <1>2, <2>2, <2>4, <2>5, <2>7, <2>8, <2>9 DEF depths
<1> QED
  BY <1>1, <1>2

(***************************************************************************)
(* Any number of changes leaves a file of these parts.                     *)
(***************************************************************************)
\* A trailer that can be read holds a payload.
Tails == {t \in Trailer : t.is = "ok" => t.payload \in Payload}
WellMade(bytes) ==
  bytes \in [ content : Captures \X {"whole", "cut", "remuxed"}, stores : Seq(Circulating),
              tail : Seq(Tails) ]

FileInv ==
  /\ format \in {"jpeg", "heic", "mp4"}
  /\ sealed = << >> \/ \E s \in SealedIn : sealed = <<s>>
  /\ WellMade(file)
  /\ edits \in 0 .. MaxEdits

LEMMA NoneIsNothing ==
  /\ None \notin Payload /\ None \notin Store
  /\ \A payload, depth : [payload |-> payload, depth |-> depth] # None
BY DEF None, Payload, Store

LEMMA InCirculation ==
  /\ Own \in Payload /\ Payloads \subseteq Payload
  /\ \A payload \in Payload : Intact(payload) \in Tails
  /\ \A is \in {"bad_CRC", "other_major", "no_box"} : Broken(is) \in Tails
  /\ None \notin Circulating
<1>1. Own \in Payload /\ Payloads \subseteq Payload
  BY CarriersAssumption DEF Own, Payload, Captures
<1>2. \A payload \in Payload : Intact(payload) \in Tails
  BY DEF Intact, Tails, Trailer
<1>3. \A is \in {"bad_CRC", "other_major", "no_box"} : Broken(is) \in Tails
  BY DEF Broken, Tails, Trailer
<1>4. None \notin Circulating
  BY CarriersAssumption, NoneIsNothing DEF Circulating
<1> QED
  BY <1>1, <1>2, <1>3, <1>4

LEMMA Peeled ==
  ASSUME NEW tail \in Seq(Tails), tail # << >>
  PROVE  /\ Len(tail) \in Nat \ {0} /\ DOMAIN tail = 1 .. Len(tail)
         /\ Last(tail) \in Tails /\ Last(tail) = tail[Len(tail)]
         /\ Front(tail) \in Seq(Tails) /\ Len(Front(tail)) = Len(tail) - 1
         /\ \A i \in 1 .. Len(tail) - 1 : Front(tail)[i] = tail[i]
<1>1. Len(tail) \in Nat /\ DOMAIN tail = 1 .. Len(tail) /\ Len(tail) # 0
  BY LenProperties, EmptySeq
<1>2. Last(tail) = tail[Len(tail)] /\ Last(tail) \in Tails
  BY <1>1, ElementOfSeq DEF Last
<1>3. \A i \in 1 .. Len(tail) - 1 : tail[i] \in Tails
  BY <1>1, ElementOfSeq
<1>4. /\ SubSeq(tail, 1, Len(tail) - 1) \in Seq(Tails)
      /\ Len(SubSeq(tail, 1, Len(tail) - 1)) = Len(tail) - 1
      /\ \A i \in 1 .. Len(tail) - 1 : SubSeq(tail, 1, Len(tail) - 1)[i] = tail[i]
  BY <1>1, <1>3
<1> QED
  BY <1>1, <1>2, <1>4 DEF Front

LEMMA PeeledFile ==
  ASSUME NEW bytes, WellMade(bytes), bytes.tail # << >>
  PROVE  /\ WellMade(WithoutLast(bytes))
         /\ WithoutLast(bytes).content = bytes.content
         /\ WithoutLast(bytes).stores = bytes.stores
         /\ WithoutLast(bytes).tail = Front(bytes.tail)
<1>1. bytes.tail \in Seq(Tails)
  BY DEF WellMade
<1>2. Front(bytes.tail) \in Seq(Tails)
  BY <1>1, Peeled
<1> QED
  BY <1>2 DEF WellMade, WithoutLast

LEMMA FooterOf ==
  ASSUME NEW bytes, WellMade(bytes)
  PROVE  /\ TrailerOf(bytes) \in {"none", "ok", "bad_CRC", "other_major"}
         /\ bytes.tail = << >> => TrailerOf(bytes) = "none"
         /\ TrailerOf(bytes) = "ok" =>
              /\ bytes.tail # << >>
              /\ Last(bytes.tail).is = "ok" /\ Last(bytes.tail).payload \in Payload
<1>1. bytes.tail \in Seq(Tails)
  BY DEF WellMade
<1>2. CASE bytes.tail = << >>
  BY <1>2 DEF TrailerOf
<1>3. CASE bytes.tail # << >>
  <2>1. Last(bytes.tail) \in Tails
    BY <1>1, <1>3, Peeled
  <2> QED
    BY <1>3, <2>1 DEF TrailerOf, Tails, Trailer
<1> QED
  BY <1>2, <1>3

LEMMA EditKeeps ==
  ASSUME FileInv, NEW field, NEW value, Edit(field, value),
         WellMade([file EXCEPT ![field] = value])
  PROVE  FileInv'
<1>1. /\ file' = [file EXCEPT ![field] = value] /\ format' = format /\ sealed' = sealed
      /\ edits' = edits + 1 /\ edits < MaxEdits
  BY DEF Edit
<1>2. WellMade(file)' = WellMade(file')
  BY DEF WellMade, Tails, Trailer
<1> QED
  BY <1>1, <1>2, CarriersAssumption DEF FileInv

LEMMA NewTail ==
  ASSUME FileInv, NEW tail \in Seq(Tails)
  PROVE  WellMade([file EXCEPT !.tail = tail])
BY DEF FileInv, WellMade

LEMMA NewStores ==
  ASSUME FileInv, NEW stores \in Seq(Circulating)
  PROVE  WellMade([file EXCEPT !.stores = stores])
BY DEF FileInv, WellMade

LEMMA FileKeeps ==
  ASSUME FileInv, [Next]_vars
  PROVE  FileInv'
<1>1. file.tail \in Seq(Tails) /\ file.stores \in Seq(Circulating)
  BY DEF FileInv, WellMade
<1>2. file.tail # << >> => Front(file.tail) \in Seq(Tails)
  BY <1>1, Peeled
<1>3. TrailerOf(file) = "ok" => file.tail # << >>
  BY FooterOf DEF FileInv
<1>4. CASE StripTrailer
  BY <1>2, <1>4, NewTail, EditKeeps DEF StripTrailer
<1>5. ASSUME NEW t \in Tails, AppendTrailer(t) PROVE FileInv'
  <2>1. Append(file.tail, t) \in Seq(Tails)
    BY <1>1, AppendProperties
  <2> QED
    BY <1>5, <2>1, NewTail, EditKeeps DEF AppendTrailer
<1>6. ASSUME NEW is \in {"bad_CRC", "other_major", "no_box"}, BreakTrailer(is) PROVE FileInv'
  <2>1. Append(Front(file.tail), Broken(is)) \in Seq(Tails)
    BY <1>2, <1>3, <1>6, InCirculation, AppendProperties DEF BreakTrailer
  <2> QED
    BY <1>6, <2>1, NewTail, EditKeeps DEF BreakTrailer
<1>7. ASSUME NEW payload \in Payloads, ReplaceTrailer(payload) PROVE FileInv'
  <2>1. Intact(payload) \in Tails
    BY InCirculation
  <2>2. Append(Front(file.tail), Intact(payload)) \in Seq(Tails)
    BY <1>2, <1>3, <1>7, <2>1, AppendProperties DEF ReplaceTrailer
  <2> QED
    BY <1>7, <2>2, NewTail, EditKeeps DEF ReplaceTrailer
<1>8. ASSUME NEW s \in Stores, EmbedStore(s) PROVE FileInv'
  <2>1. s \in Circulating
    BY DEF Circulating
  <2>2. Append(file.stores, s) \in Seq(Circulating)
    BY <1>1, <2>1, AppendProperties
  <2> QED
    BY <1>8, <2>2, NewStores, EditKeeps DEF EmbedStore
<1>9. CASE DropStores
  <2>1. << >> \in Seq(Circulating)
    BY EmptySeq
  <2> QED
    BY <1>9, <2>1, NewStores, EditKeeps DEF DropStores
<1>10. ASSUME NEW content \in Captures \X {"whole", "cut", "remuxed"}, Recut(content)
       PROVE  FileInv'
  <2>1. WellMade([file EXCEPT !.content = content])
    BY DEF FileInv, WellMade
  <2> QED
    BY <1>10, <2>1, EditKeeps DEF Recut
<1>11. CASE UNCHANGED vars
  BY <1>11 DEF vars, FileInv, WellMade
<1> QED
  BY <1>4, <1>5, <1>6, <1>7, <1>8, <1>9, <1>10, <1>11, InCirculation DEF Next

LEMMA FileStarts ==
  ASSUME Init
  PROVE  FileInv
<1>1. sealed \in Seq(Circulating) /\ (sealed = << >> \/ \E s \in SealedIn : sealed = <<s>>)
  <2>1. CASE sealed = << >>
    BY <2>1, EmptySeq
  <2>2. CASE sealed # << >>
    <3>1. PICK s \in SealedIn : sealed = <<s>>
      BY <2>2 DEF Init
    <3>2. s \in Circulating
      BY DEF Circulating
    <3>3. <<s>> \in Seq(Circulating)
      BY <3>2
    <3> QED
      BY <3>1, <3>3
  <2> QED
    BY <2>1, <2>2
<1>2. PICK tail \in {<< >>, <<Intact(Own)>>} :
        file = [content |-> <<"own", "whole">>, stores |-> sealed, tail |-> tail]
  BY DEF Init
<1>3. tail \in Seq(Tails)
  <2>1. PICK t \in Tails : t = Intact(Own)
    BY InCirculation
  <2>2. << >> \in Seq(Tails) /\ <<t>> \in Seq(Tails)
    OBVIOUS
  <2> QED
    BY <1>2, <2>1, <2>2
<1>4. WellMade(file)
  BY <1>1, <1>2, <1>3 DEF WellMade, Captures
<1> QED
  BY <1>1, <1>4, CarriersAssumption DEF Init, FileInv

\* However a file is changed it keeps its parts, and a trailer that can be read holds a
\* payload (trailer.ts, buildTrailer; carrier.ts, Manifest).
THEOREM FilesKeepTheirParts == Spec => []FileInv
<1> QED
  BY FileStarts, FileKeeps, PTL DEF Spec

(***************************************************************************)
(* The verdict of a file, from the verdicts of the proofs beside it.       *)
(***************************************************************************)
Says(payload, bytes, source, labels) == JudgedAs(Found(payload, bytes, source, labels))

\* A standing verdict and its rival, a proof that cannot be judged to the end aside.
Outranked(standing, challenger) ==
  IF standing.outcome = "throws" THEN standing ELSE Ranked(standing, challenger)

LEMMA SaysWhat ==
  ASSUME NEW payload, NEW bytes, NEW source, NEW labels
  PROVE  /\ Says(payload, bytes, source, labels).outcome = Judge(payload, bytes)
         /\ Says(payload, bytes, source, labels).proof = payload
         /\ Says(payload, bytes, source, labels).source = source
BY DEF Says, JudgedAs, Found, Answer

LEMMA SaysLabels ==
  ASSUME NEW payload, NEW bytes, NEW source, NEW labels, Rank(Judge(payload, bytes)) > 0
  PROVE  Says(payload, bytes, source, labels).labels = labels
BY DEF Says, JudgedAs, Found, Answer

LEMMA Judgements ==
  ASSUME NEW payload, NEW bytes
  PROVE  Judge(payload, bytes) \in
           { "no_proof_found", "throws", "authentic", "tampered", "verified_clip",
             "frames_not_compared" }
BY DEF Judge

LEMMA RankOf ==
  ASSUME NEW outcome
  PROVE  /\ Rank(outcome) \in 0 .. 3
         /\ Rank(outcome) = 3 <=> outcome = "authentic"
         /\ Rank(outcome) = 2 <=> outcome = "verified_clip"
         /\ Rank(outcome) = 1 <=> outcome = "frames_not_compared"
BY DEF Rank

LEMMA RankedIs ==
  ASSUME NEW standing, NEW challenger
  PROVE  /\ Ranked(standing, challenger) \in {standing, challenger}
         /\ Rank(Ranked(standing, challenger).outcome) >= Rank(standing.outcome)
         /\ Rank(Ranked(standing, challenger).outcome) >= Rank(challenger.outcome)
         /\ Ranked(standing, challenger) = challenger /\ challenger # standing =>
              Rank(challenger.outcome) > Rank(standing.outcome)
         /\ standing.outcome # "throws" => Ranked(standing, challenger).outcome # "throws"
<1>1. Rank("throws") = 0
  BY DEF Rank
<1>2. Rank(standing.outcome) \in Nat /\ Rank(challenger.outcome) \in Nat
  BY RankOf
<1>3. CASE Better(challenger, standing)
  <2>1. Ranked(standing, challenger) = challenger
    BY <1>3 DEF Ranked
  <2> QED
    BY <1>2, <1>3, <2>1 DEF Better
<1>4. CASE ~Better(challenger, standing)
  <2>1. Ranked(standing, challenger) = standing
    BY <1>4 DEF Ranked
  <2>2. Rank(standing.outcome) >= Rank(challenger.outcome)
    BY <1>1, <1>2, <1>4 DEF Better
  <2> QED
    BY <1>2, <2>1, <2>2
<1> QED
  BY <1>3, <1>4

LEMMA NothingSaid ==
  ASSUME NEW outcome \in { "nested_proof", "corrupted_proof", "unsupported_format_version",
                           "no_proof_found" }
  PROVE  /\ NoProof(outcome).outcome = outcome /\ NoProof(outcome).outcome # "throws"
         /\ Rank(NoProof(outcome).outcome) = 0
BY DEF NoProof, Rank

LEMMA FoundIsSomething ==
  ASSUME NEW payload, NEW bytes, NEW source, NEW labels
  PROVE  /\ Found(payload, bytes, source, labels) # None
         /\ Found(payload, bytes, source, labels).depth = 0
BY DEF Found, None

\* A proof that stands alone, and one with a rival.
LEMMA VerdictAlone ==
  ASSUME NEW payload, NEW bytes, NEW source, NEW labels
  PROVE  VerdictOf(Stands(Found(payload, bytes, source, labels), None)) =
           Says(payload, bytes, source, labels)
BY FoundIsSomething DEF VerdictOf, Stands, OfAncestor, Precedence, Says

LEMMA VerdictBeside ==
  ASSUME NEW payload, NEW bytes, NEW source, NEW labels,
         NEW other, NEW source2, NEW labels2
  PROVE  VerdictOf(Stands(Found(payload, bytes, source, labels),
                          Found(other, bytes, source2, labels2))) =
           Outranked(Says(payload, bytes, source, labels), Says(other, bytes, source2, labels2))
<1> DEFINE found == Found(payload, bytes, source, labels)
           rival == Found(other, bytes, source2, labels2)
<1>1. found.depth = 0 /\ rival # None
  BY FoundIsSomething
<1> HIDE DEF found, rival
<1>2. VerdictOf(Stands(found, rival)) = Outranked(JudgedAs(found), JudgedAs(rival))
  BY <1>1 DEF VerdictOf, Stands, OfAncestor, Precedence, Outranked
<1> QED
  BY <1>2 DEF Says, found, rival

LEMMA VerdictRefused ==
  ASSUME NEW outcome, outcome # ""
  PROVE  VerdictOf(Refused(outcome)) = NoProof(outcome)
BY DEF VerdictOf, Refused

LEMMA OverTrailers ==
  ASSUME NEW bytes, TrailerOf(bytes) = "ok", TrailerOf(WithoutLast(bytes)) # "none",
         NEW sidecar, NEW external
  PROVE  VerdictOfFile(bytes, sidecar, external) = NoProof("nested_proof")
<1>1. VerdictOfFile(bytes, sidecar, external) = VerdictOf(Refused("nested_proof"))
  BY DEF VerdictOfFile, Extract, OfTrailer
<1> QED
  BY <1>1, VerdictRefused

LEMMA OverTrailer ==
  ASSUME NEW bytes, TrailerOf(bytes) = "ok", TrailerOf(WithoutLast(bytes)) = "none",
         NEW sidecar, NEW external,
         NEW payload, payload = Last(bytes.tail).payload, sidecar \in {None, payload},
         NEW labels, labels = ManifestCopy(InActive(bytes, external), payload)
  PROVE  VerdictOfFile(bytes, sidecar, external) =
           Says(payload, WithoutLast(bytes), "trailer", labels)
<1>1. VerdictOfFile(bytes, sidecar, external) =
        VerdictOf(Stands(Found(payload, WithoutLast(bytes), "trailer", labels), None))
  BY DEF VerdictOfFile, Extract, OfTrailer
<1> QED
  BY <1>1, VerdictAlone

LEMMA TrailerBeside ==
  ASSUME NEW bytes, TrailerOf(bytes) = "ok", TrailerOf(WithoutLast(bytes)) = "none",
         NEW sidecar, NEW external,
         NEW payload, payload = Last(bytes.tail).payload, sidecar \notin {None, payload},
         NEW ours,
         ours = ManifestCopy(InActive(bytes, external), payload) \cup {"sidecar_differs"},
         NEW theirs,
         theirs = {"trailer_copy_differs"} \cup ManifestCopy(InActive(bytes, external), sidecar)
  PROVE  VerdictOfFile(bytes, sidecar, external) =
           Outranked(Says(payload, WithoutLast(bytes), "trailer", ours),
                     Says(sidecar, WithoutLast(bytes), "sidecar", theirs))
<1>1. VerdictOfFile(bytes, sidecar, external) =
        VerdictOf(Stands(Found(payload, WithoutLast(bytes), "trailer", ours),
                         Found(sidecar, WithoutLast(bytes), "sidecar", theirs)))
  BY DEF VerdictOfFile, Extract, OfTrailer, BesideTrailerLabels
<1>2. PICK media : media = WithoutLast(bytes)
  OBVIOUS
<1>3. VerdictOf(Stands(Found(payload, media, "trailer", ours),
                       Found(sidecar, media, "sidecar", theirs))) =
        Outranked(Says(payload, media, "trailer", ours), Says(sidecar, media, "sidecar", theirs))
  BY ONLY VerdictBeside
<1> QED
  BY <1>1, <1>2, <1>3

LEMMA OverManifest ==
  ASSUME NEW bytes, TrailerOf(bytes) = "none", NEW sidecar, NEW external,
         NEW active, active = InActive(bytes, external), active # None,
         sidecar = None \/ SameProof(sidecar, active.payload)
  PROVE  VerdictOfFile(bytes, sidecar, external) = Says(active.payload, bytes, "manifest", {})
<1>1. VerdictOfFile(bytes, sidecar, external) =
        VerdictOf(Stands(Found(active.payload, bytes, "manifest", {}), None))
  BY DEF VerdictOfFile, Extract, WithoutTrailer, OfManifest
<1> QED
  BY <1>1, VerdictAlone

LEMMA ManifestBeside ==
  ASSUME NEW bytes, TrailerOf(bytes) = "none", NEW sidecar, NEW external,
         NEW active, active = InActive(bytes, external), active # None,
         sidecar # None, ~SameProof(sidecar, active.payload),
         NEW ours, ours = {"sidecar_differs"}, NEW theirs, theirs = {"manifest_copy_differs"}
  PROVE  VerdictOfFile(bytes, sidecar, external) =
           Outranked(Says(active.payload, bytes, "manifest", ours),
                     Says(sidecar, bytes, "sidecar", theirs))
<1>1. VerdictOfFile(bytes, sidecar, external) =
        VerdictOf(Stands(Found(active.payload, bytes, "manifest", ours),
                         Found(sidecar, bytes, "sidecar", theirs)))
  BY DEF VerdictOfFile, Extract, WithoutTrailer, OfManifest
<1>2. PICK proof : proof = active.payload
  OBVIOUS
<1>3. VerdictOf(Stands(Found(proof, bytes, "manifest", ours),
                       Found(sidecar, bytes, "sidecar", theirs))) =
        Outranked(Says(proof, bytes, "manifest", ours), Says(sidecar, bytes, "sidecar", theirs))
  BY ONLY VerdictBeside
<1> QED
  BY <1>1, <1>2, <1>3

LEMMA OverSidecar ==
  ASSUME NEW bytes, TrailerOf(bytes) = "none", NEW sidecar, sidecar # None, NEW external,
         InActive(bytes, external) = None
  PROVE  VerdictOfFile(bytes, sidecar, external) = Says(sidecar, bytes, "sidecar", {})
<1>1. VerdictOfFile(bytes, sidecar, external) =
        VerdictOf(Stands(Found(sidecar, bytes, "sidecar", {}), None))
  BY DEF VerdictOfFile, Extract, WithoutTrailer
<1> QED
  BY <1>1, VerdictAlone

LEMMA OverFooter ==
  ASSUME NEW bytes, TrailerOf(bytes) \in {"bad_CRC", "other_major"}, NEW sidecar, NEW external
  PROVE  \/ VerdictOfFile(bytes, sidecar, external) = NoProof("corrupted_proof")
         \/ VerdictOfFile(bytes, sidecar, external) = NoProof("unsupported_format_version")
<1>1. CASE TrailerOf(bytes) = "bad_CRC"
  BY <1>1, VerdictRefused DEF VerdictOfFile, Extract
<1>2. CASE TrailerOf(bytes) = "other_major"
  BY <1>2, VerdictRefused DEF VerdictOfFile, Extract
<1> QED
  BY <1>1, <1>2

\* What is set aside is judged again, over the bytes before the footer.
LEMMA Settles ==
  ASSUME NEW bytes, NEW sidecar, NEW external,
         NEW verdict, verdict = VerdictOfFile(bytes, sidecar, external),
         NEW media, media = WithoutLast(bytes)
  PROVE  Verify(bytes, sidecar, external) =
           IF verdict.outcome = "throws" THEN NoProof("corrupted_proof")
           ELSE IF HasAlternate(bytes, sidecar)
           THEN Ranked(verdict, Says(sidecar, media, "sidecar",
                  {"trailer_unreadable"} \cup ManifestCopy(InActive(media, external), sidecar)))
           ELSE verdict
BY DEF Verify, Settled, Reread, Alternate, AlternateBytes, Says

LEMMA OverAncestor ==
  ASSUME NEW bytes, TrailerOf(bytes) = "none", NEW external, InActive(bytes, external) = None,
         NEW ancestor, ancestor = InAncestor(bytes, external)
  PROVE  VerdictOfFile(bytes, None, external) =
           IF ancestor = None THEN NoProof("no_proof_found")
           ELSE OfAncestor(ancestor.depth, Says(ancestor.payload, bytes, "manifest", {}))
<1>1. VerdictOfFile(bytes, None, external) =
        VerdictOf(WithoutTrailer(bytes, None, None, ancestor))
  BY DEF VerdictOfFile, Extract
<1>2. CASE ancestor = None
  BY <1>1, <1>2, VerdictRefused DEF WithoutTrailer
<1>3. CASE ancestor # None
  <2>1. PICK found : found = [Found(ancestor.payload, bytes, "manifest", {})
                                EXCEPT !.depth = ancestor.depth]
    OBVIOUS
  <2>2. /\ found.depth = ancestor.depth /\ found.payload = ancestor.payload
        /\ found.bytes = bytes /\ found.source = "manifest" /\ found.labels = {}
    BY <2>1 DEF Found
  <2>3. JudgedAs(found) = Says(ancestor.payload, bytes, "manifest", {})
    BY <2>2 DEF JudgedAs, Says, Answer, Found
  <2>4. WithoutTrailer(bytes, None, None, ancestor) = Stands(found, None)
    BY <1>3, <2>1 DEF WithoutTrailer
  <2>5. VerdictOf(Stands(found, None)) = OfAncestor(found.depth, JudgedAs(found))
    BY DEF VerdictOf, Stands, Precedence
  <2> QED
    BY <1>1, <1>3, <2>2, <2>3, <2>4, <2>5
<1> QED
  BY <1>2, <1>3

(***************************************************************************)
(* What is said of the other copies.                                       *)
(***************************************************************************)
LEMMA TellsNothing ==
  ASSUME NEW verdict, Rank(verdict.outcome) = 0, NEW sidecar, NEW active
  PROVE  TellsOf(verdict, sidecar, active)
<1>1. ~(Rank(verdict.outcome) > 0)
  OBVIOUS
<1> QED
  BY <1>1 DEF TellsOf

LEMMA TellsOfEither ==
  ASSUME NEW standing, NEW challenger, NEW sidecar, NEW active,
         TellsOf(standing, sidecar, active), TellsOf(challenger, sidecar, active)
  PROVE  /\ TellsOf(Ranked(standing, challenger), sidecar, active)
         /\ TellsOf(Outranked(standing, challenger), sidecar, active)
<1>1. Ranked(standing, challenger) \in {standing, challenger}
  BY RankedIs
<1>2. Outranked(standing, challenger) \in {standing, challenger}
  BY <1>1 DEF Outranked
<1> QED
  BY <1>1, <1>2

\* What a verdict on this proof has to say of the copies beside it.
Told(payload, source, labels, sidecar, active) ==
  /\ (source # "sidecar" /\ sidecar # None /\ ~SameProof(sidecar, payload)) =>
       "sidecar_differs" \in labels
  /\ (source # "manifest" /\ Differs(active, payload)) => "manifest_copy_differs" \in labels
  /\ (source # "trailer" /\ TrailerOf(file) # "none") =>
       {"trailer_copy_differs", "trailer_unreadable"} \cap labels # {}

LEMMA TellsWhat ==
  ASSUME NEW payload, NEW bytes, NEW source, NEW labels, NEW sidecar, NEW active,
         Rank(Judge(payload, bytes)) > 0 => Told(payload, source, labels, sidecar, active)
  PROVE  TellsOf(Says(payload, bytes, source, labels), sidecar, active)
<1>1. PICK verdict : verdict = Says(payload, bytes, source, labels)
  OBVIOUS
<1>2. /\ verdict.outcome = Judge(payload, bytes) /\ verdict.proof = payload
      /\ verdict.source = source
  BY <1>1, SaysWhat
<1>3. CASE Rank(Judge(payload, bytes)) > 0
  <2>1. verdict.labels = labels
    BY <1>1, <1>3, SaysLabels
  <2>2. Told(verdict.proof, verdict.source, verdict.labels, sidecar, active)
    BY <1>2, <1>3, <2>1
  <2> QED
    BY <1>1, <2>2 DEF TellsOf, Told
<1>4. CASE ~(Rank(Judge(payload, bytes)) > 0)
  <2>1. ~(Rank(verdict.outcome) > 0)
    BY <1>2, <1>4
  <2> QED
    BY <1>1, <2>1 DEF TellsOf
<1> QED
  BY <1>3, <1>4

LEMMA CopyTold ==
  ASSUME NEW active, NEW payload
  PROVE  Differs(active, payload) => "manifest_copy_differs" \in ManifestCopy(active, payload)
BY DEF ManifestCopy

LEMMA ReadsAsItself ==
  ASSUME NEW payload, NEW bytes, Rank(Judge(payload, bytes)) > 0
  PROVE  SameProof(payload, payload) /\ payload.reads \notin {"not_JSON", "throws"}
<1>1. Judge(payload, bytes) \notin {"no_proof_found", "throws"}
  BY DEF Rank
<1>2. payload.reads # "not_JSON" /\ payload.reads # "throws"
  BY <1>1 DEF Judge
<1> QED
  BY <1>2 DEF SameProof

LEMMA VerdictTells ==
  ASSUME FileInv, NEW sidecar, NEW external, NEW active, active = InActive(file, external)
  PROVE  TellsOf(VerdictOfFile(file, sidecar, external), sidecar, active)
<1>1. CASE TrailerOf(file) = "ok"
  <2>1. PICK payload, media :
          payload = Last(file.tail).payload /\ media = WithoutLast(file)
    OBVIOUS
  <2>2. CASE TrailerOf(media) # "none"
    <3>1. VerdictOfFile(file, sidecar, external) = NoProof("nested_proof")
      BY <1>1, <2>1, <2>2, OverTrailers
    <3> QED
      BY <3>1, TellsNothing, NothingSaid
  <2>3. CASE TrailerOf(media) = "none" /\ sidecar \in {None, payload}
    <3>1. PICK labels : labels = ManifestCopy(active, payload)
      OBVIOUS
    <3>2. TellsOf(Says(payload, media, "trailer", labels), sidecar, active)
      BY <2>3, <3>1, TellsWhat, CopyTold, ReadsAsItself DEF Told
    <3>3. VerdictOfFile(file, sidecar, external) = Says(payload, media, "trailer", labels)
      BY <1>1, <2>1, <2>3, <3>1, OverTrailer
    <3> QED
      BY <3>2, <3>3
  <2>4. CASE TrailerOf(media) = "none" /\ sidecar \notin {None, payload}
    <3>1. PICK ours, theirs :
            /\ ours = ManifestCopy(active, payload) \cup {"sidecar_differs"}
            /\ theirs = {"trailer_copy_differs"} \cup ManifestCopy(active, sidecar)
      OBVIOUS
    <3>2. TellsOf(Says(payload, media, "trailer", ours), sidecar, active)
      BY <3>1, TellsWhat, CopyTold DEF Told
    <3>3. TellsOf(Says(sidecar, media, "sidecar", theirs), sidecar, active)
      BY <3>1, TellsWhat, CopyTold DEF Told
    <3>4. VerdictOfFile(file, sidecar, external) =
            Outranked(Says(payload, media, "trailer", ours), Says(sidecar, media, "sidecar", theirs))
      <4>1. /\ TrailerOf(file) = "ok" /\ TrailerOf(WithoutLast(file)) = "none"
            /\ payload = Last(file.tail).payload /\ sidecar \notin {None, payload}
            /\ ours = ManifestCopy(InActive(file, external), payload) \cup {"sidecar_differs"}
            /\ theirs = {"trailer_copy_differs"} \cup ManifestCopy(InActive(file, external), sidecar)
        BY <1>1, <2>1, <2>4, <3>1
      <4>2. VerdictOfFile(file, sidecar, external) =
              Outranked(Says(payload, WithoutLast(file), "trailer", ours),
                        Says(sidecar, WithoutLast(file), "sidecar", theirs))
        BY ONLY <4>1, TrailerBeside
      <4> QED
        BY <2>1, <4>2
    <3> QED
      BY <3>2, <3>3, <3>4, TellsOfEither
  <2> QED
    BY <2>2, <2>3, <2>4
<1>2. CASE TrailerOf(file) = "none" /\ active # None
  <2>1. CASE sidecar = None \/ SameProof(sidecar, active.payload)
    <3>1. PICK labels : labels = {}
      OBVIOUS
    <3>2. TellsOf(Says(active.payload, file, "manifest", labels), sidecar, active)
      BY <1>2, <2>1, TellsWhat DEF Told
    <3>3. VerdictOfFile(file, sidecar, external) = Says(active.payload, file, "manifest", labels)
      BY <1>2, <2>1, <3>1, OverManifest
    <3> QED
      BY <3>2, <3>3
  <2>2. CASE ~(sidecar = None \/ SameProof(sidecar, active.payload))
    <3>1. PICK ours, theirs : ours = {"sidecar_differs"} /\ theirs = {"manifest_copy_differs"}
      OBVIOUS
    <3>2. TellsOf(Says(active.payload, file, "manifest", ours), sidecar, active)
      BY <1>2, <3>1, TellsWhat DEF Told
    <3>3. TellsOf(Says(sidecar, file, "sidecar", theirs), sidecar, active)
      BY <1>2, <3>1, TellsWhat DEF Told
    <3>4. VerdictOfFile(file, sidecar, external) =
            Outranked(Says(active.payload, file, "manifest", ours),
                      Says(sidecar, file, "sidecar", theirs))
      BY <1>2, <2>2, <3>1, ManifestBeside
    <3> QED
      BY <3>2, <3>3, <3>4, TellsOfEither
  <2> QED
    BY <2>1, <2>2
<1>3. CASE TrailerOf(file) = "none" /\ active = None /\ sidecar # None
  <2>1. PICK labels : labels = {}
    OBVIOUS
  <2>2. TellsOf(Says(sidecar, file, "sidecar", labels), sidecar, active)
    BY <1>3, TellsWhat DEF Told, Differs
  <2> QED
    BY <1>3, <2>1, <2>2, OverSidecar
<1>4. CASE TrailerOf(file) = "none" /\ active = None /\ sidecar = None
  <2>1. PICK ancestor : ancestor = InAncestor(file, external)
    OBVIOUS
  <2>2. CASE ancestor = None
    BY <1>4, <2>1, <2>2, OverAncestor, TellsNothing, NothingSaid
  <2>3. CASE ancestor # None
    <3>1. PICK judged, labels : judged = Says(ancestor.payload, file, "manifest", labels) /\ labels = {}
      OBVIOUS
    <3>2. VerdictOfFile(file, sidecar, external) = OfAncestor(ancestor.depth, judged)
      BY <1>4, <2>1, <2>3, <3>1, OverAncestor
    <3>3. TellsOf(judged, sidecar, active)
      BY <1>4, <3>1, TellsWhat DEF Told
    <3>4. CASE OfAncestor(ancestor.depth, judged) = judged
      BY <3>2, <3>3, <3>4
    <3>5. CASE OfAncestor(ancestor.depth, judged) # judged
      <4>1. OfAncestor(ancestor.depth, judged) =
              [judged EXCEPT !.outcome = "no_proof_found", !.labels = {}]
        BY <3>5 DEF OfAncestor
      <4>2. OfAncestor(ancestor.depth, judged).outcome = "no_proof_found"
        BY <3>1, <4>1 DEF Says, JudgedAs, Answer
      <4> QED
        BY <3>2, <4>2, TellsNothing DEF Rank
    <3> QED
      BY <3>4, <3>5
  <2> QED
    BY <2>2, <2>3
<1>5. CASE TrailerOf(file) \in {"bad_CRC", "other_major"}
  <2>1. PICK verdict : verdict = VerdictOfFile(file, sidecar, external)
    OBVIOUS
  <2>2. verdict = NoProof("corrupted_proof") \/ verdict = NoProof("unsupported_format_version")
    BY <1>5, <2>1, OverFooter
  <2>3. Rank(verdict.outcome) = 0
    BY <2>2, NothingSaid
  <2> QED
    BY <2>1, <2>3, TellsNothing
<1> QED
  BY <1>1, <1>2, <1>3, <1>4, <1>5, FooterOf DEF FileInv

LEMMA SameStores ==
  ASSUME NEW bytes, NEW others, bytes.stores = others.stores, NEW external
  PROVE  InActive(bytes, external) = InActive(others, external)
BY DEF InActive, Nearest, Credentials

LEMMA AnswerTells ==
  ASSUME FileInv, NEW sidecar, NEW external, NEW active, active = InActive(file, external)
  PROVE  TellsOf(Verify(file, sidecar, external), sidecar, active)
<1>1. PICK verdict, media :
        verdict = VerdictOfFile(file, sidecar, external) /\ media = WithoutLast(file)
  OBVIOUS
<1>2. TellsOf(verdict, sidecar, active)
  BY <1>1, VerdictTells
<1>3. CASE verdict.outcome = "throws"
  <2>1. Verify(file, sidecar, external) = NoProof("corrupted_proof")
    BY <1>1, <1>3, Settles
  <2> QED
    BY <2>1, TellsNothing, NothingSaid
<1>4. CASE verdict.outcome # "throws" /\ ~HasAlternate(file, sidecar)
  BY <1>1, <1>2, <1>4, Settles
<1>5. CASE verdict.outcome # "throws" /\ HasAlternate(file, sidecar)
  <2>1. InActive(media, external) = active
    <3>1. media.stores = file.stores
      BY <1>1, <1>5, PeeledFile DEF FileInv, HasAlternate
    <3> QED
      BY <3>1, SameStores
  <2>2. PICK labels : labels = {"trailer_unreadable"} \cup ManifestCopy(active, sidecar)
    OBVIOUS
  <2>3. TellsOf(Says(sidecar, media, "sidecar", labels), sidecar, active)
    BY <2>2, TellsWhat, CopyTold DEF Told
  <2>4. Verify(file, sidecar, external) =
          Ranked(verdict, Says(sidecar, media, "sidecar", labels))
    BY <1>1, <1>5, <2>1, <2>2, Settles
  <2> QED
    BY <1>2, <2>3, <2>4, TellsOfEither
<1> QED
  BY <1>3, <1>4, <1>5

\* However many copies of however many proofs a file, its stores, its sidecar and the
\* reader's store hold, a verdict that stands on one of them tells of every other that
\* is not the same (carrier.ts, extractProof and unreadableAlternate).
THEOREM DifferencesAreTold == Spec => []DifferenceIsTold
<1>1. FileInv => DifferenceIsTold
  <2> SUFFICES ASSUME FileInv, NEW sidecar \in Sidecars, NEW external \in Externals
               PROVE  TellsOf(Verify(file, sidecar, external), sidecar, InActive(file, external))
    BY DEF DifferenceIsTold
  <2> QED
    BY AnswerTells
<1> QED
  BY <1>1, FilesKeepTheirParts, PTL

(***************************************************************************)
(* A file made from a capture.                                             *)
(***************************************************************************)
\* The store a file is read with is one of those in circulation.
LEMMA StoreRead ==
  ASSUME NEW bytes, WellMade(bytes), NEW external \in Held \cup {None}
  PROVE  /\ Credentials(bytes, external) \in Circulating \cup {None}
         /\ Len(bytes.stores) = 0 => Credentials(bytes, external) = external
         /\ Credentials(bytes, external) # None =>
              \/ Len(bytes.stores) = 0
              \/ bytes.stores # << >> /\ Credentials(bytes, external) = bytes.stores[1]
<1>1. PICK stores \in Seq(Circulating) : stores = bytes.stores
  BY DEF WellMade
<1>2. PICK n \in Nat : n = Len(stores)
  BY LenProperties
<1>3. Credentials(bytes, external) =
        CASE n > 1 -> None [] n = 1 -> stores[1] [] OTHER -> external
  BY <1>1, <1>2 DEF Credentials
<1>4. CASE n > 1
  <2>1. Credentials(bytes, external) = None
    BY <1>3, <1>4
  <2> QED
    BY <1>1, <1>2, <1>4, <2>1
<1>5. CASE n = 1
  <2>1. Credentials(bytes, external) = stores[1]
    BY <1>3, <1>5
  <2>2. stores[1] \in Circulating /\ stores # << >>
    <3>1. 1 \in 1 .. Len(stores)
      BY <1>2, <1>5
    <3>2. stores[1] \in Circulating
      BY <3>1, ElementOfSeq
    <3>3. stores # << >>
      BY <3>1, EmptySeq
    <3> QED
      BY <3>2, <3>3
  <2> QED
    BY <1>1, <1>2, <1>5, <2>1, <2>2
<1>6. CASE n = 0
  <2>1. Credentials(bytes, external) = external
    BY <1>3, <1>6
  <2>2. external \in Circulating \cup {None}
    BY DEF Circulating
  <2> QED
    BY <1>1, <1>2, <1>6, <2>1, <2>2
<1> QED
  BY <1>2, <1>4, <1>5, <1>6

LEMMA AncestorIsAbove ==
  ASSUME NEW bytes, WellMade(bytes), NEW external \in Held \cup {None},
         InAncestor(bytes, external) # None
  PROVE  InAncestor(bytes, external).depth > 0
<1>1. PICK store : store = Credentials(bytes, external)
  OBVIOUS
<1>2. store \in Circulating \cup {None}
  BY <1>1, StoreRead
<1>3. Search(store, 1, MaxDepth) # None
  BY <1>1 DEF InAncestor, Nearest
<1>4. Search(store, 1, MaxDepth).depth \in 1 .. MaxDepth
  BY <1>2, <1>3, SearchGives, CarriersAssumption
<1> QED
  BY <1>1, <1>4, CarriersAssumption DEF InAncestor, Nearest

\* Any search for a proof further up only ever makes "no proof" of what does not fit
\* (verify.ts, verdictOfFile).
THEOREM DerivedFilesAreNotAccused == Spec => []DerivedIsNotAccused
<1>1. FileInv => DerivedIsNotAccused
  <2> SUFFICES ASSUME FileInv, NEW external \in Externals, file.tail = << >>,
                      InActive(file, external) = None
               PROVE  OutcomeFor(None, external) \notin
                        {"tampered", "frames_not_compared", "nested_proof"}
    BY DEF DerivedIsNotAccused
  <2>1. TrailerOf(file) = "none" /\ WellMade(file)
    BY FooterOf DEF FileInv
  <2>2. PICK verdict, ancestor :
          /\ verdict = VerdictOfFile(file, None, external)
          /\ ancestor = InAncestor(file, external)
    OBVIOUS
  <2>3. verdict.outcome \notin {"tampered", "frames_not_compared", "nested_proof"}
    <3>1. CASE ancestor = None
      <4>1. verdict = NoProof("no_proof_found")
        BY <2>1, <2>2, <3>1, OverAncestor
      <4> QED
        BY <4>1, NothingSaid
    <3>2. CASE ancestor # None
      <4>1. ancestor.depth > 0
        BY <2>1, <2>2, <3>2, AncestorIsAbove DEF Externals
      <4>2. PICK judged : judged = Says(ancestor.payload, file, "manifest", {})
        OBVIOUS
      <4>3. verdict = OfAncestor(ancestor.depth, judged)
        BY <2>1, <2>2, <3>2, <4>2, OverAncestor
      <4>4. judged.outcome = Judge(ancestor.payload, file)
        BY <4>2, SaysWhat
      <4>5. judged.outcome # "nested_proof"
        BY <4>4, Judgements
      <4>6. CASE judged.outcome \in {"tampered", "frames_not_compared"}
        <5>1. verdict = [judged EXCEPT !.outcome = "no_proof_found", !.labels = {}]
          BY <4>1, <4>3, <4>6 DEF OfAncestor
        <5>2. verdict.outcome = "no_proof_found"
          BY <4>2, <5>1 DEF Says, JudgedAs, Answer
        <5> QED
          BY <5>2
      <4>7. CASE judged.outcome \notin {"tampered", "frames_not_compared"}
        BY <4>3, <4>5, <4>7 DEF OfAncestor
      <4> QED
        BY <4>6, <4>7
    <3> QED
      BY <3>1, <3>2
  <2>4. ~HasAlternate(file, None)
    BY DEF HasAlternate
  <2>5. Verify(file, None, external) =
          IF verdict.outcome = "throws" THEN NoProof("corrupted_proof") ELSE verdict
    BY <2>2, <2>4, Settles
  <2>6. Verify(file, None, external).outcome \notin
          {"tampered", "frames_not_compared", "nested_proof"}
    BY <2>3, <2>5, NothingSaid
  <2> QED
    BY <2>6 DEF OutcomeFor
<1> QED
  BY <1>1, FilesKeepTheirParts, PTL

(***************************************************************************)
(* A copy beside a file.                                                   *)
(***************************************************************************)
LEMMA SameReading ==
  ASSUME NEW p \in Payload, NEW q \in Payload, SameProof(p, q)
  PROVE  p.of = q.of /\ p.reads = q.reads
<1>1. PICK x, y : x = [p EXCEPT !.form = "sealed"] /\ y = [q EXCEPT !.form = "sealed"]
  OBVIOUS
<1>2. x.of = p.of /\ x.reads = p.reads /\ y.of = q.of /\ y.reads = q.reads
  BY <1>1 DEF Payload
<1>3. x = y
  BY <1>1 DEF SameProof
<1> QED
  BY <1>2, <1>3

LEMMA NotThrown ==
  ASSUME NEW payload, NEW bytes
  PROVE  Judge(payload, bytes) = "throws" <=> payload.reads = "throws"
BY DEF Judge

\* Of two proofs of one capture, one that reads is judged at least as high.
LEMMA ReadsAsHigh ==
  ASSUME NEW p, NEW q, p.of = q.of, p.reads \notin {"not_JSON", "throws"}, NEW bytes
  PROVE  /\ Rank(Judge(q, bytes)) <= Rank(Judge(p, bytes))
         /\ q.reads \notin {"not_JSON", "throws"} => Judge(q, bytes) = Judge(p, bytes)
<1>1. Matches(p, bytes) <=> Matches(q, bytes)
  BY DEF Matches
<1>2. CASE q.reads \in {"not_JSON", "throws"}
  <2>1. Judge(q, bytes) \in {"no_proof_found", "throws"}
    BY <1>2 DEF Judge
  <2>2. Rank(Judge(q, bytes)) = 0
    BY <2>1 DEF Rank
  <2> QED
    BY <1>2, <2>2, RankOf
<1>3. CASE q.reads \notin {"not_JSON", "throws"}
  <2>1. Judge(q, bytes) = Judge(p, bytes)
    BY <1>1, <1>3 DEF Judge
  <2> QED
    BY <2>1, RankOf
<1> QED
  BY <1>2, <1>3

\* A verdict settled without a footer to set aside.
LEMMA SettlesAtOnce ==
  ASSUME NEW bytes, NEW sidecar, NEW external, ~HasAlternate(bytes, sidecar),
         NEW verdict, verdict = VerdictOfFile(bytes, sidecar, external)
  PROVE  /\ verdict.outcome = "throws" =>
              Verify(bytes, sidecar, external) = NoProof("corrupted_proof")
         /\ verdict.outcome # "throws" => Verify(bytes, sidecar, external) = verdict
<1>1. PICK media : media = WithoutLast(bytes)
  OBVIOUS
<1> QED
  BY <1>1, Settles

LEMMA StandsBeside ==
  ASSUME NEW payload, NEW sidecar, NEW bytes, Rank(Judge(payload, bytes)) > 0,
         payload.of = sidecar.of, NEW source, NEW labels, NEW source2, NEW labels2
  PROVE  Outranked(Says(payload, bytes, source, labels), Says(sidecar, bytes, source2, labels2)) =
           Says(payload, bytes, source, labels)
<1>1. PICK ours, theirs :
        /\ ours = Says(payload, bytes, source, labels)
        /\ theirs = Says(sidecar, bytes, source2, labels2)
  OBVIOUS
<1>2. ours.outcome = Judge(payload, bytes) /\ theirs.outcome = Judge(sidecar, bytes)
  BY <1>1, SaysWhat
<1>3. payload.reads \notin {"not_JSON", "throws"}
  BY ReadsAsItself
<1>4. Rank(Judge(sidecar, bytes)) <= Rank(Judge(payload, bytes))
  BY <1>3, ReadsAsHigh
<1>5. ~(Rank(theirs.outcome) > Rank(ours.outcome))
  BY <1>2, <1>4, RankOf
<1>6. Ranked(ours, theirs) = ours
  BY <1>5, RankedIs
<1> QED
  BY <1>1, <1>6 DEF Outranked

LEMMA CopyStands ==
  ASSUME FileInv, NEW sidecar, sidecar # None, NEW external,
         \/ TrailerOf(file) = "ok"
         \/ file.tail = << >> /\ InActive(file, external) # None,
         NEW kept, kept = Verify(file, None, external), Rank(kept.outcome) > 0,
         kept.proof.of = sidecar.of
  PROVE  Verify(file, sidecar, external).proof = kept.proof
<1>1. ~HasAlternate(file, None) /\ ~HasAlternate(file, sidecar)
  BY DEF HasAlternate
<1>2. PICK alone : alone = VerdictOfFile(file, None, external)
  OBVIOUS
<1>3. alone.outcome # "throws" /\ kept = alone
  <2>1. alone.outcome = "throws" => kept = NoProof("corrupted_proof")
    BY <1>1, <1>2, SettlesAtOnce
  <2>2. alone.outcome # "throws"
    BY <2>1, NothingSaid
  <2> QED
    BY <1>1, <1>2, <2>2, SettlesAtOnce
<1>4. ASSUME NEW beside, beside = VerdictOfFile(file, sidecar, external),
             beside.outcome = kept.outcome, beside.proof = kept.proof
      PROVE  Verify(file, sidecar, external).proof = kept.proof
  <2>1. Verify(file, sidecar, external) = beside
    BY <1>1, <1>3, <1>4, SettlesAtOnce
  <2> QED
    BY <1>4, <2>1
<1>5. CASE TrailerOf(file) = "ok"
  <2>1. PICK payload, media, labels :
          /\ payload = Last(file.tail).payload /\ media = WithoutLast(file)
          /\ labels = ManifestCopy(InActive(file, external), payload)
    OBVIOUS
  <2>2. TrailerOf(media) = "none"
    <3>1. TrailerOf(media) # "none" => alone = NoProof("nested_proof")
      BY <1>2, <1>5, <2>1, OverTrailers
    <3> QED
      BY <1>3, <3>1, NothingSaid
  <2>3. alone = Says(payload, media, "trailer", labels)
    BY <1>2, <1>5, <2>1, <2>2, OverTrailer
  <2>4. alone.outcome = Judge(payload, media) /\ alone.proof = payload
    BY <2>3, SaysWhat
  <2>5. CASE sidecar = payload
    <3>1. VerdictOfFile(file, sidecar, external) = Says(payload, media, "trailer", labels)
      BY <1>5, <2>1, <2>2, <2>5, OverTrailer
    <3> QED
      BY <1>3, <1>4, <2>3, <3>1
  <2>6. CASE sidecar # payload
    <3>1. PICK ours, theirs :
            /\ ours = ManifestCopy(InActive(file, external), payload) \cup {"sidecar_differs"}
            /\ theirs = {"trailer_copy_differs"} \cup ManifestCopy(InActive(file, external), sidecar)
      OBVIOUS
    <3>2. VerdictOfFile(file, sidecar, external) =
            Outranked(Says(payload, media, "trailer", ours), Says(sidecar, media, "sidecar", theirs))
      BY <1>5, <2>1, <2>2, <2>6, <3>1, TrailerBeside
    <3>3. VerdictOfFile(file, sidecar, external) = Says(payload, media, "trailer", ours)
      BY <1>3, <2>4, <3>2, StandsBeside
    <3>4. PICK beside : beside = VerdictOfFile(file, sidecar, external)
      OBVIOUS
    <3>5. beside.outcome = Judge(payload, media) /\ beside.proof = payload
      BY <3>3, <3>4, SaysWhat
    <3> QED
      BY <1>3, <1>4, <2>4, <3>4, <3>5
  <2> QED
    BY <2>5, <2>6
<1>6. CASE file.tail = << >> /\ InActive(file, external) # None
  <2>1. TrailerOf(file) = "none"
    BY <1>6, FooterOf DEF FileInv
  <2>2. PICK active, labels : active = InActive(file, external) /\ labels = {}
    OBVIOUS
  <2>3. alone = Says(active.payload, file, "manifest", labels)
    BY <1>2, <1>6, <2>1, <2>2, OverManifest
  <2>4. alone.outcome = Judge(active.payload, file) /\ alone.proof = active.payload
    BY <2>3, SaysWhat
  <2>5. CASE SameProof(sidecar, active.payload)
    <3>1. VerdictOfFile(file, sidecar, external) = Says(active.payload, file, "manifest", labels)
      BY <1>6, <2>1, <2>2, <2>5, OverManifest
    <3> QED
      BY <1>3, <1>4, <2>3, <3>1
  <2>6. CASE ~SameProof(sidecar, active.payload)
    <3>1. PICK ours, theirs : ours = {"sidecar_differs"} /\ theirs = {"manifest_copy_differs"}
      OBVIOUS
    <3>2. VerdictOfFile(file, sidecar, external) =
            Outranked(Says(active.payload, file, "manifest", ours),
                      Says(sidecar, file, "sidecar", theirs))
      BY <1>6, <2>1, <2>2, <2>6, <3>1, ManifestBeside
    <3>3. VerdictOfFile(file, sidecar, external) = Says(active.payload, file, "manifest", ours)
      BY <1>3, <2>4, <3>2, StandsBeside
    <3>4. PICK beside : beside = VerdictOfFile(file, sidecar, external)
      OBVIOUS
    <3>5. beside.outcome = Judge(active.payload, file) /\ beside.proof = active.payload
      BY <3>3, <3>4, SaysWhat
    <3> QED
      BY <1>3, <1>4, <2>4, <3>4, <3>5
  <2> QED
    BY <2>5, <2>6
<1> QED
  BY <1>5, <1>6

\* What is found in the active manifest, and where it is.
LEMMA ActiveIsIn ==
  ASSUME NEW bytes, WellMade(bytes), NEW external \in Held \cup {None},
         NEW active, active = InActive(bytes, external), active # None
  PROVE  /\ active.payload \in Payload
         /\ bytes.stores = << >> => external # None
         /\ bytes.stores # << >> =>
              \E j \in DOMAIN bytes.stores[1].manifests :
                bytes.stores[1].manifests[j].proof = active.payload
<1>1. PICK store : store = Credentials(bytes, external)
  OBVIOUS
<1>2. store \in Circulating \cup {None}
  BY <1>1, StoreRead
<1>3. active = Search(store, 0, 0)
  BY <1>1 DEF InActive, Nearest
<1>4. /\ active.payload \in Payload /\ store # None
      /\ \E j \in DOMAIN store.manifests : store.manifests[j].proof = active.payload
  <2>1. 0 \in Nat /\ 0 <= MaxDepth
    BY CarriersAssumption
  <2> QED
    BY <1>2, <1>3, <2>1, SearchGives
<1>5. bytes.stores \in Seq(Circulating)
  BY DEF WellMade
<1>6. CASE bytes.stores = << >>
  <2>1. Len(bytes.stores) = 0
    BY <1>6
  <2> QED
    BY <1>1, <1>4, <1>6, <2>1, StoreRead
<1>7. CASE bytes.stores # << >>
  <2>1. Len(bytes.stores) # 0
    BY <1>5, <1>7, EmptySeq
  <2>2. store = bytes.stores[1]
    BY <1>1, <1>4, <2>1, StoreRead
  <2> QED
    BY <1>4, <1>7, <2>2
<1> QED
  BY <1>6, <1>7

LEMMA SealedIsAuthentic ==
  ASSUME NEW payload, payload.of = "own", payload.reads \notin {"not_JSON", "throws"},
         NEW bytes, bytes.content = <<"own", "whole">>, bytes.tail = << >>,
         format = "jpeg" \/ bytes.stores = sealed
  PROVE  Judge(payload, bytes) = "authentic"
<1>1. Matches(payload, bytes)
  BY DEF Matches
<1> QED
  BY <1>1 DEF Judge

\* Whatever else is there, a proof judged authentic makes the file so.
LEMMA AuthenticWins ==
  ASSUME NEW standing, NEW challenger, challenger.outcome = "authentic",
         standing.outcome # "throws"
  PROVE  /\ Ranked(standing, challenger).outcome = "authentic"
         /\ Outranked(standing, challenger).outcome = "authentic"
<1>1. Rank(challenger.outcome) = 3
  BY RankOf
<1>2. PICK ranked : ranked = Ranked(standing, challenger)
  OBVIOUS
<1>3. Rank(ranked.outcome) >= Rank(challenger.outcome)
  BY <1>2, RankedIs
<1>4. ranked.outcome = "authentic"
  BY <1>1, <1>3, RankOf
<1> QED
  BY <1>2, <1>4 DEF Outranked

LEMMA GenuineStands ==
  ASSUME FileInv, file.content = <<"own", "whole">>, Len(file.tail) <= 1,
         format = "jpeg" \/ file.stores = sealed, ~CarriesThrowing
  PROVE  Verify(file, Own, None).outcome = "authentic"
<1>1. WellMade(file) /\ file.tail \in Seq(Tails)
  BY DEF FileInv, WellMade
<1>2. Own # None /\ Own.of = "own" /\ Own.reads = "whole" /\ Own \in Payload
  BY InCirculation, NoneIsNothing DEF Own
<1>3. PICK active, verdict, media :
        /\ active = InActive(file, None) /\ verdict = VerdictOfFile(file, Own, None)
        /\ media = WithoutLast(file)
  OBVIOUS
\* The active manifest's proof can be judged to the end.
<1>4. ASSUME active # None PROVE active.payload \in Payload /\ active.payload.reads # "throws"
  <2>1. /\ active.payload \in Payload /\ file.stores # << >>
        /\ \E j \in DOMAIN file.stores[1].manifests :
             file.stores[1].manifests[j].proof = active.payload
    BY <1>1, <1>3, <1>4, ActiveIsIn
  <2>2. 1 \in DOMAIN file.stores
    <3>1. PICK stores \in Seq(Circulating) : stores = file.stores
      BY <1>1 DEF WellMade
    <3>2. Len(stores) \in Nat /\ Len(stores) # 0 /\ DOMAIN stores = 1 .. Len(stores)
      BY <2>1, <3>1, LenProperties, EmptySeq
    <3> QED
      BY <3>1, <3>2
  <2>3. active.payload # None
    BY <2>1, NoneIsNothing
  <2> QED
    BY <2>1, <2>2, <2>3 DEF CarriesThrowing
<1>5. ASSUME TrailerOf(file) = "none" PROVE verdict.outcome # "throws"
  <2>1. CASE active = None
    <3>1. verdict = Says(Own, file, "sidecar", {})
      BY <1>2, <1>3, <1>5, <2>1, OverSidecar
    <3> QED
      BY <1>2, <3>1, SaysWhat, NotThrown
  <2>2. CASE active # None /\ SameProof(Own, active.payload)
    <3>1. verdict = Says(active.payload, file, "manifest", {})
      BY <1>3, <1>5, <2>2, OverManifest
    <3> QED
      BY <1>4, <2>2, <3>1, SaysWhat, NotThrown
  <2>3. CASE active # None /\ ~SameProof(Own, active.payload)
    <3>1. PICK ours, theirs : ours = {"sidecar_differs"} /\ theirs = {"manifest_copy_differs"}
      OBVIOUS
    <3>2. PICK standing, challenger :
            /\ standing = Says(active.payload, file, "manifest", ours)
            /\ challenger = Says(Own, file, "sidecar", theirs)
      OBVIOUS
    <3>3. verdict = Outranked(standing, challenger)
      BY <1>2, <1>3, <1>5, <2>3, <3>1, <3>2, ManifestBeside
    <3>4. standing.outcome # "throws"
      BY <1>4, <2>3, <3>2, SaysWhat, NotThrown
    <3> QED
      BY <3>3, <3>4, RankedIs DEF Outranked
  <2> QED
    BY <2>1, <2>2, <2>3
<1>6. CASE file.tail = << >>
  <2>1. TrailerOf(file) = "none" /\ ~HasAlternate(file, Own)
    BY <1>1, <1>6, FooterOf DEF HasAlternate
  <2>2. Verify(file, Own, None) = verdict
    BY <1>3, <1>5, <2>1, SettlesAtOnce
  <2>3. Judge(Own, file) = "authentic"
    BY <1>2, <1>6, SealedIsAuthentic
  <2>4. CASE active = None
    <3>1. verdict = Says(Own, file, "sidecar", {})
      BY <1>2, <1>3, <2>1, <2>4, OverSidecar
    <3> QED
      BY <2>2, <2>3, <3>1, SaysWhat
  <2>5. CASE active # None /\ SameProof(Own, active.payload)
    <3>1. active.payload.of = "own" /\ active.payload.reads = "whole"
      BY <1>2, <1>4, <2>5, SameReading
    <3>2. Judge(active.payload, file) = "authentic"
      BY <1>6, <3>1, SealedIsAuthentic
    <3>3. verdict = Says(active.payload, file, "manifest", {})
      BY <1>3, <2>1, <2>5, OverManifest
    <3> QED
      BY <2>2, <3>2, <3>3, SaysWhat
  <2>6. CASE active # None /\ ~SameProof(Own, active.payload)
    <3>1. PICK ours, theirs : ours = {"sidecar_differs"} /\ theirs = {"manifest_copy_differs"}
      OBVIOUS
    <3>2. PICK standing, challenger :
            /\ standing = Says(active.payload, file, "manifest", ours)
            /\ challenger = Says(Own, file, "sidecar", theirs)
      OBVIOUS
    <3>3. verdict = Outranked(standing, challenger)
      BY <1>2, <1>3, <2>1, <2>6, <3>1, <3>2, ManifestBeside
    <3>4. standing.outcome # "throws" /\ challenger.outcome = "authentic"
      BY <1>4, <2>3, <2>6, <3>2, SaysWhat, NotThrown
    <3> QED
      BY <2>2, <3>3, <3>4, AuthenticWins
  <2> QED
    BY <2>4, <2>5, <2>6
<1>7. CASE file.tail # << >>
  <2>1. /\ Len(file.tail) = 1 /\ media.tail = << >> /\ Last(file.tail) = file.tail[1]
        /\ 1 \in DOMAIN file.tail
    <3>1. PICK tail \in Seq(Tails) : tail = file.tail
      BY <1>1
    <3>2. /\ Len(tail) \in Nat \ {0} /\ DOMAIN tail = 1 .. Len(tail)
          /\ Last(tail) = tail[Len(tail)]
          /\ Front(tail) \in Seq(Tails) /\ Len(Front(tail)) = Len(tail) - 1
      BY <1>7, <3>1, Peeled
    <3>3. Len(tail) = 1
      <4>1. PICK n \in Nat : n = Len(tail)
        BY <3>2
      <4>2. n # 0 /\ n <= 1
        BY <3>1, <3>2, <4>1
      <4>3. n = 1
        BY <4>2
      <4> QED
        BY <4>1, <4>3
    <3>4. Front(tail) = << >>
      BY <3>2, <3>3, EmptySeq
    <3> QED
      BY <1>1, <1>3, <1>7, <3>1, <3>2, <3>3, <3>4, PeeledFile
  <2>2. media.content = file.content /\ media.stores = file.stores /\ WellMade(media)
    BY <1>1, <1>3, <1>7, PeeledFile
  <2>3. Judge(Own, media) = "authentic"
    BY <1>2, <2>1, <2>2, SealedIsAuthentic
  <2>4. CASE TrailerOf(file) = "ok"
    <3>1. PICK payload : payload = Last(file.tail).payload
      OBVIOUS
    <3>2. payload \in Payload /\ payload.reads # "throws"
      <4>1. payload \in Payload
        BY <1>1, <2>4, <3>1, FooterOf
      <4>2. payload # None
        BY <4>1, NoneIsNothing
      <4> QED
        BY <2>1, <3>1, <4>1, <4>2 DEF CarriesThrowing
    <3>3. TrailerOf(media) = "none" /\ ~HasAlternate(file, Own)
      BY <2>1, <2>2, <2>4, FooterOf DEF HasAlternate
    <3>4. CASE Own = payload
      <4>1. PICK labels : labels = ManifestCopy(InActive(file, None), payload)
        OBVIOUS
      <4>2. verdict = Says(payload, media, "trailer", labels)
        BY <1>3, <2>4, <3>1, <3>3, <3>4, <4>1, OverTrailer
      <4>3. verdict.outcome = "authentic"
        BY <2>3, <3>4, <4>2, SaysWhat
      <4> QED
        BY <1>3, <3>3, <4>3, SettlesAtOnce
    <3>5. CASE Own # payload
      <4>1. PICK ours, theirs :
              /\ ours = ManifestCopy(InActive(file, None), payload) \cup {"sidecar_differs"}
              /\ theirs = {"trailer_copy_differs"} \cup ManifestCopy(InActive(file, None), Own)
        OBVIOUS
      <4>2. PICK standing, challenger :
              /\ standing = Says(payload, media, "trailer", ours)
              /\ challenger = Says(Own, media, "sidecar", theirs)
        OBVIOUS
      <4>3. verdict = Outranked(standing, challenger)
        <5>1. /\ TrailerOf(file) = "ok" /\ TrailerOf(WithoutLast(file)) = "none"
              /\ payload = Last(file.tail).payload /\ Own \notin {None, payload}
              /\ ours = ManifestCopy(InActive(file, None), payload) \cup {"sidecar_differs"}
              /\ theirs = {"trailer_copy_differs"} \cup ManifestCopy(InActive(file, None), Own)
          BY <1>2, <1>3, <2>4, <3>1, <3>3, <3>5, <4>1
        <5>2. VerdictOfFile(file, Own, None) =
                Outranked(Says(payload, WithoutLast(file), "trailer", ours),
                          Says(Own, WithoutLast(file), "sidecar", theirs))
          BY ONLY <5>1, TrailerBeside
        <5> QED
          BY <1>3, <4>2, <5>2
      <4>4. standing.outcome # "throws" /\ challenger.outcome = "authentic"
        BY <2>3, <3>2, <4>2, SaysWhat, NotThrown
      <4>5. verdict.outcome = "authentic"
        BY <4>3, <4>4, AuthenticWins
      <4> QED
        BY <1>3, <3>3, <4>5, SettlesAtOnce
    <3> QED
      BY <3>4, <3>5
  <2>5. CASE TrailerOf(file) # "ok"
    <3>1. HasAlternate(file, Own)
      BY <1>2, <1>7, <2>5 DEF HasAlternate
    <3>2. verdict.outcome # "throws"
      <4>1. TrailerOf(file) = "none" \/ TrailerOf(file) \in {"bad_CRC", "other_major"}
        BY <1>1, <2>5, FooterOf
      <4>2. ASSUME TrailerOf(file) \in {"bad_CRC", "other_major"}
            PROVE  verdict.outcome # "throws"
        BY <1>3, <4>2, OverFooter, NothingSaid
      <4> QED
        BY <1>5, <4>1, <4>2
    <3>3. PICK labels : labels = {"trailer_unreadable"} \cup ManifestCopy(InActive(media, None), Own)
      OBVIOUS
    <3>4. Verify(file, Own, None) = Ranked(verdict, Says(Own, media, "sidecar", labels))
      BY <1>3, <3>1, <3>2, <3>3, Settles
    <3>5. PICK challenger : challenger = Says(Own, media, "sidecar", labels)
      OBVIOUS
    <3>6. challenger.outcome = "authentic"
      BY <2>3, <3>5, SaysWhat
    <3> QED
      BY <3>2, <3>4, <3>5, <3>6, AuthenticWins
  <2> QED
    BY <2>4, <2>5
<1> QED
  BY <1>6, <1>7

\* Whatever copies go round: a genuine file beside its own sidecar stands, and so does
\* the copy a file carries beside a sidecar that is a copy of it
\* (verify.ts, RANK and precedence; carrier.ts, unreadableAlternate).
THEOREM CopiesDoNoHarm == Spec => []CopiesNeverHarm
<1>1. FileInv => GenuineBesideItsSidecar
  BY GenuineStands DEF GenuineBesideItsSidecar, OutcomeFor
<1>2. FileInv => FilesCopyStands
  <2> SUFFICES ASSUME FileInv, NEW sidecar \in Payloads, NEW external \in Externals,
                      \/ TrailerOf(file) = "ok"
                      \/ file.tail = << >> /\ InActive(file, external) # None
               PROVE  KeepsOver(Verify(file, None, external), sidecar, external)
    BY DEF FilesCopyStands
  <2>1. sidecar # None
    BY InCirculation, NoneIsNothing
  <2>2. PICK kept : kept = Verify(file, None, external)
    OBVIOUS
  <2>3. (Rank(kept.outcome) > 0 /\ kept.proof.of = sidecar.of) =>
          Verify(file, sidecar, external).proof = kept.proof
    BY <2>1, <2>2, CopyStands
  <2> QED
    BY <2>2, <2>3 DEF KeepsOver
<1>3. FileInv => CopiesNeverHarm
  BY <1>1, <1>2 DEF CopiesNeverHarm
<1> QED
  BY <1>3, FilesKeepTheirParts, PTL

(***************************************************************************)
(* Attachments put back into a trailer.                                    *)
(***************************************************************************)
Higher(standing, challenger) == IF Rank(challenger) > Rank(standing) THEN challenger ELSE standing

LEMMA HigherIs ==
  ASSUME NEW standing, NEW challenger
  PROVE  /\ Higher(standing, challenger) \in {standing, challenger}
         /\ Rank(Higher(standing, challenger)) >= Rank(standing)
         /\ Rank(Higher(standing, challenger)) >= Rank(challenger)
BY RankOf DEF Higher

LEMMA HigherWins ==
  ASSUME NEW standing, NEW challenger
  PROVE  /\ Ranked(standing, challenger).outcome = Higher(standing.outcome, challenger.outcome)
         /\ standing.outcome # "throws" =>
              Outranked(standing, challenger).outcome = Higher(standing.outcome, challenger.outcome)
<1>1. Rank("throws") = 0
  BY DEF Rank
<1>2. Rank(standing.outcome) \in Nat /\ Rank(challenger.outcome) \in Nat
  BY RankOf
<1>3. Better(challenger, standing) <=> Rank(challenger.outcome) > Rank(standing.outcome)
  BY <1>1, <1>2 DEF Better
<1>4. Ranked(standing, challenger).outcome = Higher(standing.outcome, challenger.outcome)
  BY <1>3 DEF Ranked, Higher
<1> QED
  BY <1>4 DEF Outranked

\* What a file with one readable trailer is said to be.
LEMMA TrailerSays ==
  ASSUME NEW bytes, TrailerOf(bytes) = "ok",
         NEW media, media = WithoutLast(bytes), TrailerOf(media) = "none",
         NEW payload, payload = Last(bytes.tail).payload, payload.reads # "throws",
         NEW sidecar, NEW external
  PROVE  Verify(bytes, sidecar, external).outcome =
           IF sidecar = None THEN Judge(payload, media)
           ELSE Higher(Judge(payload, media), Judge(sidecar, media))
<1>1. PICK verdict : verdict = VerdictOfFile(bytes, sidecar, external)
  OBVIOUS
<1>2. ~HasAlternate(bytes, sidecar) /\ Judge(payload, media) # "throws"
  BY NotThrown DEF HasAlternate
<1>3. CASE sidecar \in {None, payload}
  <2>1. PICK labels : labels = ManifestCopy(InActive(bytes, external), payload)
    OBVIOUS
  <2>2. verdict = Says(payload, media, "trailer", labels)
    BY <1>1, <1>3, <2>1, OverTrailer
  <2>3. verdict.outcome = Judge(payload, media)
    BY <2>2, SaysWhat
  <2>4. Higher(Judge(payload, media), Judge(payload, media)) = Judge(payload, media)
    BY DEF Higher
  <2> QED
    BY <1>1, <1>2, <1>3, <2>3, <2>4, SettlesAtOnce
<1>4. CASE sidecar \notin {None, payload}
  <2>1. PICK ours, theirs :
          /\ ours = ManifestCopy(InActive(bytes, external), payload) \cup {"sidecar_differs"}
          /\ theirs = {"trailer_copy_differs"} \cup ManifestCopy(InActive(bytes, external), sidecar)
    OBVIOUS
  <2>2. PICK standing, challenger :
          /\ standing = Says(payload, media, "trailer", ours)
          /\ challenger = Says(sidecar, media, "sidecar", theirs)
    OBVIOUS
  <2>3. verdict = Outranked(standing, challenger)
    <3>1. /\ TrailerOf(bytes) = "ok" /\ TrailerOf(WithoutLast(bytes)) = "none"
          /\ payload = Last(bytes.tail).payload /\ sidecar \notin {None, payload}
          /\ ours = ManifestCopy(InActive(bytes, external), payload) \cup {"sidecar_differs"}
          /\ theirs = {"trailer_copy_differs"} \cup ManifestCopy(InActive(bytes, external), sidecar)
      BY <1>4, <2>1
    <3>2. VerdictOfFile(bytes, sidecar, external) =
            Outranked(Says(payload, WithoutLast(bytes), "trailer", ours),
                      Says(sidecar, WithoutLast(bytes), "sidecar", theirs))
      BY ONLY <3>1, TrailerBeside
    <3> QED
      BY <1>1, <2>2, <3>2
  <2>4. standing.outcome = Judge(payload, media) /\ challenger.outcome = Judge(sidecar, media)
    BY <2>2, SaysWhat
  <2>5. verdict.outcome = Higher(Judge(payload, media), Judge(sidecar, media))
    BY <1>2, <2>3, <2>4, HigherWins
  <2>6. verdict.outcome # "throws"
    <3>1. standing.outcome # "throws"
      BY <1>2, <2>4
    <3> QED
      BY <2>3, <3>1, RankedIs DEF Outranked
  <2> QED
    BY <1>1, <1>2, <1>4, <2>5, <2>6, SettlesAtOnce
<1> QED
  BY <1>3, <1>4

LEMMA ReplacedFile ==
  ASSUME FileInv, NEW payload \in Payloads, ReplaceTrailer(payload)
  PROVE  /\ WithoutLast(file') = WithoutLast(file)
         /\ Last(file'.tail).payload = payload
         /\ TrailerOf(file') = "ok"
<1>1. WellMade(file) /\ file.tail \in Seq(Tails)
  BY DEF FileInv, WellMade
<1>2. file.tail # << >>
  BY <1>1, FooterOf DEF ReplaceTrailer
<1>3. PICK front \in Seq(Tails) : front = Front(file.tail)
  BY <1>1, <1>2, Peeled
<1>4. PICK t \in Tails : t = Intact(payload)
  BY InCirculation
<1>5. PICK tail \in Seq(Tails) : tail = Append(front, t)
  BY AppendProperties
<1>6. /\ tail # << >> /\ Last(tail) = t /\ Front(tail) = front
  <2>1. PICK n \in Nat : n = Len(front)
    BY LenProperties
  <2>2. Len(tail) = n + 1 /\ tail[n + 1] = t /\ \A i \in 1 .. n : tail[i] = front[i]
    BY <1>5, <2>1, AppendProperties
  <2>3. tail # << >>
    BY <2>2, EmptySeq
  <2>4. Last(tail) = t
    BY <2>2 DEF Last
  <2>5. /\ Front(tail) \in Seq(Tails) /\ Len(Front(tail)) = n
        /\ \A i \in 1 .. n : Front(tail)[i] = front[i]
    <3>1. /\ Front(tail) \in Seq(Tails) /\ Len(Front(tail)) = Len(tail) - 1
          /\ \A i \in 1 .. Len(tail) - 1 : Front(tail)[i] = tail[i]
      BY <2>3, Peeled
    <3>2. Len(tail) - 1 = n
      BY <2>2
    <3> QED
      BY <2>2, <3>1, <3>2
  <2>6. Front(tail) = front
    BY <2>1, <2>5, SeqEqual
  <2> QED
    BY <2>3, <2>4, <2>6
<1>7. file' = [file EXCEPT !.tail = tail]
  BY <1>3, <1>4, <1>5 DEF ReplaceTrailer, Edit
<1>8. file'.tail = tail
  BY <1>1, <1>7 DEF WellMade
<1>9. WithoutLast(file') = [file EXCEPT !.tail = front]
  BY <1>1, <1>6, <1>7, <1>8 DEF WithoutLast, WellMade
<1>10. TrailerOf(file') = "ok" /\ Last(file'.tail).payload = payload
  BY <1>4, <1>6, <1>8 DEF TrailerOf, Intact
<1> QED
  BY <1>3, <1>9, <1>10 DEF WithoutLast

\* Whoever puts attachments back into a file with one readable trailer changes what is
\* said of the proof and never what is said of the content (trailer.ts, replaceTrailer).
THEOREM ReplacingIsSafe == Spec => ReplacingKeepsTheOutcome
<1>1. FileInv /\ [Next]_vars =>
        [ (\E payload \in Payloads : ReplaceTrailer(payload)) =>
            \A sidecar \in Sidecars :
              Verify(file', sidecar, None).outcome = Verify(file, sidecar, None).outcome ]_vars
  <2> SUFFICES ASSUME FileInv, NEW payload \in Payloads, ReplaceTrailer(payload),
                      NEW sidecar \in Sidecars
               PROVE  Verify(file', sidecar, None).outcome = Verify(file, sidecar, None).outcome
    OBVIOUS
  <2>1. PICK media, before :
          media = WithoutLast(file) /\ before = Last(file.tail).payload
    OBVIOUS
  <2>2. PICK bytes : bytes = file'
    OBVIOUS
  <2>3. /\ WithoutLast(bytes) = media /\ Last(bytes.tail).payload = payload
        /\ TrailerOf(bytes) = "ok"
    BY <2>1, <2>2, ReplacedFile
  <2>4. /\ TrailerOf(file) = "ok" /\ TrailerOf(media) = "none"
        /\ before.reads = "whole" /\ payload.reads = "whole" /\ payload.of = before.of
    BY <2>1 DEF ReplaceTrailer
  <2>5. Judge(payload, media) = Judge(before, media)
    BY <2>4, ReadsAsHigh
  <2>6. Verify(bytes, sidecar, None).outcome =
          IF sidecar = None THEN Judge(payload, media)
          ELSE Higher(Judge(payload, media), Judge(sidecar, media))
    BY <2>3, <2>4, TrailerSays
  <2>7. Verify(file, sidecar, None).outcome =
          IF sidecar = None THEN Judge(before, media)
          ELSE Higher(Judge(before, media), Judge(sidecar, media))
    BY <2>1, <2>4, TrailerSays
  <2> QED
    BY <2>2, <2>5, <2>6, <2>7
<1>2. Spec => [][Next]_vars
  BY PTL DEF Spec
<1> QED
  BY <1>1, <1>2, FilesKeepTheirParts, PTL DEF ReplacingKeepsTheOutcome

(***************************************************************************)
(* What a sidecar gains beside what a file carries, and what taking that   *)
(* out of the file would give it.                                          *)
(***************************************************************************)
Bare(bytes) == [bytes EXCEPT !.stores = << >>]

LEMMA BareIs ==
  ASSUME NEW bytes, WellMade(bytes)
  PROVE  /\ WellMade(Bare(bytes)) /\ Bare(bytes).content = bytes.content
         /\ Bare(bytes).tail = bytes.tail /\ Bare(bytes).stores = << >>
         /\ TrailerOf(Bare(bytes)) = TrailerOf(bytes)
         /\ WithoutLast(Bare(bytes)) = Bare(WithoutLast(bytes))
         /\ InActive(Bare(bytes), None) = None
<1>1. << >> \in Seq(Circulating)
  BY EmptySeq
<1>2. /\ WellMade(Bare(bytes)) /\ Bare(bytes).content = bytes.content
      /\ Bare(bytes).tail = bytes.tail /\ Bare(bytes).stores = << >>
  BY <1>1 DEF Bare, WellMade
<1>3. TrailerOf(Bare(bytes)) = TrailerOf(bytes)
  BY <1>2 DEF TrailerOf
<1>4. WithoutLast(Bare(bytes)) = Bare(WithoutLast(bytes))
  BY <1>2 DEF WithoutLast, Bare, WellMade
<1>5. InActive(Bare(bytes), None) = None
  BY <1>2, ActiveIsIn
<1> QED
  BY <1>2, <1>3, <1>4, <1>5

\* The bytes a proof of the device's is authentic over only with their stores.
SealedWith(bytes) == bytes.tail = << >> /\ bytes.stores = sealed /\ sealed # << >>

\* Elsewhere, a proof loses nothing when the stores go.
LEMMA StoresWeighNothing ==
  ASSUME NEW payload, NEW bytes, WellMade(bytes), ~SealedWith(bytes)
  PROVE  Rank(Judge(payload, Bare(bytes))) >= Rank(Judge(payload, bytes))
<1>1. PICK bare : bare = Bare(bytes)
  OBVIOUS
<1>2. bare.content = bytes.content /\ bare.tail = bytes.tail /\ bare.stores = << >>
  BY <1>1, BareIs
<1>3. Matches(payload, bytes) => Matches(payload, bare)
  BY <1>2 DEF Matches, SealedWith
<1>4. CASE Judge(payload, bare) = Judge(payload, bytes)
  BY <1>1, <1>4, RankOf
<1>5. CASE Judge(payload, bare) # Judge(payload, bytes)
  <2>1. Judge(payload, bare) = "authentic"
    BY <1>2, <1>3, <1>5 DEF Judge
  <2>2. Rank(Judge(payload, bare)) = 3
    BY <2>1, RankOf
  <2> QED
    BY <1>1, <2>2, RankOf
<1> QED
  BY <1>4, <1>5

\* And what a device sealed has no proof in its stores.
LEMMA SealedHoldsNoProof ==
  ASSUME FileInv, NEW bytes, WellMade(bytes), SealedWith(bytes), NEW external \in Externals
  PROVE  InActive(bytes, external) = None
<1> SUFFICES ASSUME InActive(bytes, external) # None PROVE FALSE
  OBVIOUS
<1>1. PICK s \in SealedIn : sealed = <<s>>
  BY DEF FileInv, SealedWith
<1>2. bytes.stores # << >> /\ bytes.stores[1] = s
  BY <1>1 DEF SealedWith
<1>3. PICK active : active = InActive(bytes, external)
  OBVIOUS
<1>4. /\ active.payload \in Payload
      /\ \E j \in DOMAIN bytes.stores[1].manifests :
           bytes.stores[1].manifests[j].proof = active.payload
  BY <1>2, <1>3, ActiveIsIn DEF Externals
<1>5. \A j \in DOMAIN s.manifests : s.manifests[j].proof = None
  BY CarriersAssumption
<1> QED
  BY <1>2, <1>4, <1>5, NoneIsNothing

\* A sidecar beside a file without a trailer.
LEMMA BesideNothing ==
  ASSUME NEW bytes, TrailerOf(bytes) = "none", InActive(bytes, None) = None,
         NEW sidecar, sidecar # None
  PROVE  /\ Rank(Verify(bytes, sidecar, None).outcome) >= Rank(Judge(sidecar, bytes))
         /\ bytes.tail # << >> =>
              Rank(Verify(bytes, sidecar, None).outcome) >= Rank(Judge(sidecar, WithoutLast(bytes)))
<1>1. PICK verdict, media, answer :
        /\ verdict = VerdictOfFile(bytes, sidecar, None) /\ media = WithoutLast(bytes)
        /\ answer = Verify(bytes, sidecar, None)
  OBVIOUS
<1>2. verdict = Says(sidecar, bytes, "sidecar", {})
  BY <1>1, OverSidecar
<1>3. verdict.outcome = Judge(sidecar, bytes)
  BY <1>2, SaysWhat
<1>4. CASE verdict.outcome = "throws"
  <2>1. Judge(sidecar, bytes) = "throws" /\ Judge(sidecar, media) = "throws"
    BY <1>3, <1>4, NotThrown
  <2>2. Rank(Judge(sidecar, bytes)) = 0 /\ Rank(Judge(sidecar, media)) = 0
    BY <2>1 DEF Rank
  <2> QED
    BY <1>1, <2>2, RankOf
<1>5. CASE verdict.outcome # "throws" /\ ~HasAlternate(bytes, sidecar)
  <2>1. answer = verdict /\ bytes.tail = << >>
    BY <1>1, <1>5, SettlesAtOnce DEF HasAlternate
  <2> QED
    BY <1>1, <1>3, <2>1, RankOf
<1>6. CASE verdict.outcome # "throws" /\ HasAlternate(bytes, sidecar)
  <2>1. PICK labels : labels = {"trailer_unreadable"} \cup ManifestCopy(InActive(media, None), sidecar)
    OBVIOUS
  <2>2. answer = Ranked(verdict, Says(sidecar, media, "sidecar", labels))
    BY <1>1, <1>6, <2>1, Settles
  <2>3. answer.outcome = Higher(Judge(sidecar, bytes), Judge(sidecar, media))
    BY <1>3, <2>2, HigherWins, SaysWhat
  <2> QED
    BY <1>1, <2>3, HigherIs
<1> QED
  BY <1>4, <1>5, <1>6

\* A sidecar beside a footer this reader cannot use.
LEMMA BesideFooter ==
  ASSUME NEW bytes, WellMade(bytes), TrailerOf(bytes) \in {"bad_CRC", "other_major"},
         NEW sidecar, sidecar # None, NEW external
  PROVE  /\ Rank(Verify(bytes, sidecar, external).outcome) = Rank(Judge(sidecar, WithoutLast(bytes)))
         /\ bytes.tail # << >>
<1>1. PICK verdict, media :
        /\ verdict = VerdictOfFile(bytes, sidecar, external) /\ media = WithoutLast(bytes)
  OBVIOUS
<1>2. verdict = NoProof("corrupted_proof") \/ verdict = NoProof("unsupported_format_version")
  BY <1>1, OverFooter
<1>3. verdict.outcome # "throws" /\ Rank(verdict.outcome) = 0
  BY <1>2, NothingSaid
<1>4. bytes.tail # << >> /\ HasAlternate(bytes, sidecar)
  BY FooterOf DEF HasAlternate
<1>5. PICK labels :
        labels = {"trailer_unreadable"} \cup ManifestCopy(InActive(media, external), sidecar)
  OBVIOUS
<1>6. PICK answer : answer = Verify(bytes, sidecar, external)
  OBVIOUS
<1>7. answer = Ranked(verdict, Says(sidecar, media, "sidecar", labels))
  BY <1>1, <1>3, <1>4, <1>5, <1>6, Settles
<1>8. answer.outcome = Higher(verdict.outcome, Judge(sidecar, media))
  BY <1>7, HigherWins, SaysWhat
<1>9. Rank(answer.outcome) = Rank(Judge(sidecar, media))
  BY <1>3, <1>8, RankOf DEF Higher
<1> QED
  BY <1>1, <1>4, <1>6, <1>9

\* What deleting the stores, or the trailer, gives the sidecar.
LEMMA DeletingGives ==
  ASSUME FileInv, NEW sidecar, sidecar # None, file.tail # << >>,
         \/ TrailerOf(file) # "ok"
         \/ /\ TrailerOf(WithoutLast(file)) = "none"
            /\ Last(file.tail).payload.reads # "throws"
  PROVE  \E bytes \in Deleted :
           Rank(Verify(bytes, sidecar, None).outcome) >= Rank(Judge(sidecar, WithoutLast(file)))
<1>1. PICK bytes, media, bare, last :
        bytes = file /\ media = WithoutLast(file) /\ bare = Bare(file) /\ last = Bare(media)
  OBVIOUS
<1>2. WellMade(bytes) /\ WellMade(media) /\ media \in Deleted /\ bare \in Deleted
  BY <1>1, PeeledFile DEF FileInv, Deleted, Bare
<1>3. CASE SealedWith(media)
  <2>1. TrailerOf(media) = "none"
    BY <1>2, <1>3, FooterOf DEF SealedWith
  <2>2. InActive(media, None) = None
    BY <1>2, <1>3, SealedHoldsNoProof DEF Externals
  <2>3. Rank(Verify(media, sidecar, None).outcome) >= Rank(Judge(sidecar, media))
    BY <2>1, <2>2, BesideNothing
  <2> QED
    BY <1>1, <1>2, <2>3
<1>4. CASE ~SealedWith(media)
  <2>1. Rank(Judge(sidecar, last)) >= Rank(Judge(sidecar, media))
    BY <1>1, <1>2, <1>4, StoresWeighNothing
  <2>2. /\ WellMade(bare) /\ bare.tail = bytes.tail /\ TrailerOf(bare) = TrailerOf(bytes)
        /\ WithoutLast(bare) = last /\ InActive(bare, None) = None
    BY <1>1, <1>2, BareIs
  <2>3. TrailerOf(last) = TrailerOf(media)
    BY <1>1, <1>2, BareIs
  <2>4. Rank(Verify(bare, sidecar, None).outcome) >= Rank(Judge(sidecar, last))
    <3>1. CASE TrailerOf(bytes) = "none"
      BY <1>1, <2>2, <3>1, BesideNothing
    <3>2. CASE TrailerOf(bytes) \in {"bad_CRC", "other_major"}
      BY <2>2, <3>2, BesideFooter, RankOf
    <3>3. CASE TrailerOf(bytes) = "ok"
      <4>1. PICK payload : payload = Last(bare.tail).payload
        OBVIOUS
      <4>2. TrailerOf(last) = "none" /\ payload.reads # "throws"
        BY <1>1, <2>2, <2>3, <3>3, <4>1
      <4>3. Verify(bare, sidecar, None).outcome =
              Higher(Judge(payload, last), Judge(sidecar, last))
        BY <2>2, <3>3, <4>1, <4>2, TrailerSays
      <4> QED
        BY <4>3, HigherIs
    <3> QED
      BY <1>2, <3>1, <3>2, <3>3, FooterOf
  <2>5. PICK n, m, k \in Nat :
          /\ n = Rank(Verify(bare, sidecar, None).outcome)
          /\ m = Rank(Judge(sidecar, last)) /\ k = Rank(Judge(sidecar, media))
    BY RankOf
  <2>6. n >= k
    BY <2>1, <2>4, <2>5
  <2> QED
    BY <1>1, <1>2, <2>5, <2>6
<1> QED
  BY <1>3, <1>4

LEMMA DroppingStoresGives ==
  ASSUME FileInv, NEW sidecar, sidecar # None, TrailerOf(file) = "none", ~SealedWith(file)
  PROVE  \E bytes \in Deleted :
           Rank(Verify(bytes, sidecar, None).outcome) >= Rank(Judge(sidecar, file))
<1>1. PICK bytes, bare : bytes = file /\ bare = Bare(file)
  OBVIOUS
<1>2. WellMade(bytes) /\ bare \in Deleted
  BY <1>1 DEF FileInv, Deleted, Bare
<1>3. TrailerOf(bare) = "none" /\ InActive(bare, None) = None
  BY <1>1, <1>2, BareIs
<1>4. Rank(Verify(bare, sidecar, None).outcome) >= Rank(Judge(sidecar, bare))
  BY <1>3, BesideNothing
<1>5. Rank(Judge(sidecar, bare)) >= Rank(Judge(sidecar, bytes))
  BY <1>1, <1>2, StoresWeighNothing
<1>6. PICK n, m, k \in Nat :
        /\ n = Rank(Verify(bare, sidecar, None).outcome)
        /\ m = Rank(Judge(sidecar, bare)) /\ k = Rank(Judge(sidecar, bytes))
  BY RankOf
<1>7. n >= k
  BY <1>4, <1>5, <1>6
<1> QED
  BY <1>1, <1>2, <1>6, <1>7

\* A trailer whose proof cannot be judged to the end takes the sidecar with it.
LEMMA ThrowingTrailer ==
  ASSUME NEW bytes, TrailerOf(bytes) = "ok", TrailerOf(WithoutLast(bytes)) = "none",
         NEW payload, payload = Last(bytes.tail).payload, payload.reads = "throws",
         NEW sidecar, NEW external
  PROVE  Rank(Verify(bytes, sidecar, external).outcome) = 0
<1>1. PICK verdict, media :
        verdict = VerdictOfFile(bytes, sidecar, external) /\ media = WithoutLast(bytes)
  OBVIOUS
<1>2. ~HasAlternate(bytes, sidecar) /\ Judge(payload, media) = "throws"
  BY NotThrown DEF HasAlternate
<1>3. CASE sidecar \in {None, payload}
  <2>1. PICK labels : labels = ManifestCopy(InActive(bytes, external), payload)
    OBVIOUS
  <2>2. verdict = Says(payload, media, "trailer", labels)
    BY <1>1, <1>3, <2>1, OverTrailer
  <2>3. verdict.outcome = "throws"
    BY <1>2, <2>2, SaysWhat
  <2> QED
    BY <1>1, <1>2, <2>3, SettlesAtOnce, NothingSaid
<1>4. CASE sidecar \notin {None, payload}
  <2>1. PICK ours, theirs :
          /\ ours = ManifestCopy(InActive(bytes, external), payload) \cup {"sidecar_differs"}
          /\ theirs = {"trailer_copy_differs"} \cup ManifestCopy(InActive(bytes, external), sidecar)
    OBVIOUS
  <2>2. PICK standing, challenger :
          /\ standing = Says(payload, WithoutLast(bytes), "trailer", ours)
          /\ challenger = Says(sidecar, WithoutLast(bytes), "sidecar", theirs)
    OBVIOUS
  <2>3. verdict = Outranked(standing, challenger)
    <3>1. VerdictOfFile(bytes, sidecar, external) =
            Outranked(Says(payload, WithoutLast(bytes), "trailer", ours),
                      Says(sidecar, WithoutLast(bytes), "sidecar", theirs))
      BY ONLY <1>4, <2>1, TrailerOf(bytes) = "ok", TrailerOf(WithoutLast(bytes)) = "none",
              payload = Last(bytes.tail).payload, TrailerBeside
    <3> QED
      BY <1>1, <2>2, <3>1
  <2>4. standing.outcome = "throws"
    BY <1>1, <1>2, <2>2, SaysWhat
  <2>5. verdict.outcome = "throws"
    BY <2>3, <2>4 DEF Outranked
  <2> QED
    BY <1>1, <1>2, <2>5, SettlesAtOnce, NothingSaid
<1> QED
  BY <1>3, <1>4

LEMMA BesideManifest ==
  ASSUME NEW bytes, TrailerOf(bytes) = "none", NEW sidecar, sidecar # None, NEW external,
         InActive(bytes, external) # None,
         NEW verdict, verdict = VerdictOfFile(bytes, sidecar, external)
  PROVE  verdict.outcome \in
           {"throws", Judge(sidecar, bytes), Verify(bytes, None, external).outcome}
<1>1. PICK active, alone, labels :
        /\ active = InActive(bytes, external) /\ alone = VerdictOfFile(bytes, None, external)
        /\ labels = {}
  OBVIOUS
<1>2. alone = Says(active.payload, bytes, "manifest", labels)
  BY <1>1, OverManifest
<1>3. alone.outcome = Judge(active.payload, bytes)
  BY <1>2, SaysWhat
<1>4. ~HasAlternate(bytes, None)
  BY DEF HasAlternate
<1>5. alone.outcome # "throws" => Verify(bytes, None, external) = alone
  BY <1>1, <1>4, SettlesAtOnce
<1>6. CASE SameProof(sidecar, active.payload)
  <2>1. verdict = alone
    BY <1>1, <1>2, <1>6, OverManifest
  <2> QED
    BY <1>5, <2>1
<1>7. CASE ~SameProof(sidecar, active.payload)
  <2>1. PICK ours, theirs : ours = {"sidecar_differs"} /\ theirs = {"manifest_copy_differs"}
    OBVIOUS
  <2>2. PICK standing, challenger :
          /\ standing = Says(active.payload, bytes, "manifest", ours)
          /\ challenger = Says(sidecar, bytes, "sidecar", theirs)
    OBVIOUS
  <2>3. verdict = Outranked(standing, challenger)
    BY <1>1, <1>7, <2>1, <2>2, ManifestBeside
  <2>4. /\ standing.outcome = alone.outcome /\ challenger.outcome = Judge(sidecar, bytes)
    BY <1>3, <2>2, SaysWhat
  <2>5. verdict \in {standing, challenger}
    BY <2>3, RankedIs DEF Outranked
  <2> QED
    BY <1>5, <2>4, <2>5
<1> QED
  BY <1>6, <1>7

\* Where a sidecar's verdict comes from when it outranks the file's own.
LEMMA SidecarGains ==
  ASSUME FileInv, NEW sidecar, sidecar # None, NEW external \in Externals,
         Rank(Verify(file, sidecar, external).outcome) > Rank(Verify(file, None, external).outcome),
         file.tail # << >> \/ InActive(file, external) # None
  PROVE  \/ /\ TrailerOf(file) = "none" /\ ~SealedWith(file)
            /\ Rank(Verify(file, sidecar, external).outcome) = Rank(Judge(sidecar, file))
         \/ /\ file.tail # << >>
            /\ \/ TrailerOf(file) # "ok"
               \/ /\ TrailerOf(WithoutLast(file)) = "none"
                  /\ Last(file.tail).payload.reads # "throws"
            /\ Rank(Verify(file, sidecar, external).outcome) = Rank(Judge(sidecar, WithoutLast(file)))
<1>1. PICK answer, alone, verdict, media :
        /\ answer = Verify(file, sidecar, external) /\ alone = Verify(file, None, external)
        /\ verdict = VerdictOfFile(file, sidecar, external) /\ media = WithoutLast(file)
  OBVIOUS
<1>2. WellMade(file)
  BY DEF FileInv
<1>3. Rank(answer.outcome) # 0
  BY <1>1, RankOf
<1>4. CASE TrailerOf(file) = "ok"
  <2>1. PICK payload : payload = Last(file.tail).payload
    OBVIOUS
  <2>2. ~HasAlternate(file, sidecar) /\ file.tail # << >>
    BY <1>2, <1>4, FooterOf DEF HasAlternate
  <2>3. TrailerOf(media) = "none"
    <3>1. ASSUME TrailerOf(media) # "none" PROVE FALSE
      <4>1. verdict = NoProof("nested_proof")
        BY <1>1, <1>4, <3>1, OverTrailers
      <4>2. answer = verdict
        BY <1>1, <2>2, <4>1, SettlesAtOnce, NothingSaid
      <4> QED
        BY <1>3, <4>1, <4>2, NothingSaid
    <3> QED
      BY <3>1
  <2>4. payload.reads # "throws"
    BY <1>1, <1>3, <1>4, <2>1, <2>3, ThrowingTrailer
  <2>5. /\ answer.outcome = Higher(Judge(payload, media), Judge(sidecar, media))
        /\ alone.outcome = Judge(payload, media)
    BY <1>1, <1>4, <2>1, <2>3, <2>4, TrailerSays
  <2>6. answer.outcome = Judge(sidecar, media)
    BY <1>1, <2>5, HigherIs, RankOf
  <2> QED
    BY <1>1, <2>1, <2>2, <2>3, <2>4, <2>6
<1>5. CASE TrailerOf(file) \in {"bad_CRC", "other_major"}
  BY <1>2, <1>5, BesideFooter
<1>6. CASE TrailerOf(file) = "none"
  <2>1. verdict.outcome # "throws"
    <3>1. verdict.outcome = "throws" => answer = NoProof("corrupted_proof")
      BY <1>1, Settles
    <3> QED
      BY <1>3, <3>1, NothingSaid
  <2>2. verdict.outcome \in {Judge(sidecar, file), alone.outcome} /\ ~SealedWith(file)
    <3>1. CASE InActive(file, external) = None
      <4>1. verdict = Says(sidecar, file, "sidecar", {})
        BY <1>1, <1>6, <3>1, OverSidecar
      <4>2. verdict.outcome = Judge(sidecar, file)
        BY <4>1, SaysWhat
      <4> QED
        BY <3>1, <4>2 DEF SealedWith
    <3>2. CASE InActive(file, external) # None
      <4>1. verdict.outcome \in {"throws", Judge(sidecar, file), alone.outcome}
        BY <1>1, <1>6, <3>2, BesideManifest
      <4> QED
        BY <1>2, <2>1, <3>2, <4>1, SealedHoldsNoProof
    <3> QED
      BY <3>1, <3>2
  <2>3. CASE ~HasAlternate(file, sidecar)
    <3>1. answer = verdict
      BY <1>1, <2>1, <2>3, SettlesAtOnce
    <3>2. answer.outcome # alone.outcome
      BY <1>1, RankOf
    <3> QED
      BY <1>1, <1>6, <2>2, <3>1, <3>2
  <2>4. CASE HasAlternate(file, sidecar)
    <3>1. PICK labels :
            labels = {"trailer_unreadable"} \cup ManifestCopy(InActive(media, external), sidecar)
      OBVIOUS
    <3>2. answer = Ranked(verdict, Says(sidecar, media, "sidecar", labels))
      BY <1>1, <2>1, <2>4, <3>1, Settles
    <3>3. answer.outcome = Higher(verdict.outcome, Judge(sidecar, media))
      BY <3>2, HigherWins, SaysWhat
    <3>4. answer.outcome \in {verdict.outcome, Judge(sidecar, media)}
      BY <3>3, HigherIs
    <3>5. answer.outcome # alone.outcome /\ file.tail # << >>
      BY <1>1, <2>4, RankOf DEF HasAlternate
    <3> QED
      BY <1>1, <1>6, <2>2, <3>4, <3>5
  <2> QED
    BY <2>3, <2>4
<1> QED
  BY <1>2, <1>4, <1>5, <1>6, FooterOf

\* However a file is put together, a sidecar that outranks what it carries says nothing
\* better than deleting the trailer or the stores would let it say: ranking the two opens
\* no way that was not open before (verify.ts, precedence and verifyFile).
THEOREM SidecarsGainNothing == Spec => []SidecarGainsWhatDeletingGives
<1>1. FileInv => SidecarGainsWhatDeletingGives
  <2> SUFFICES
        ASSUME FileInv, NEW sidecar \in Payloads, NEW external \in Externals,
               ~(Rank(Verify(file, sidecar, external).outcome)
                   <= Rank(Verify(file, None, external).outcome)),
               ~(file.tail = << >> /\ InActive(file, external) = None)
        PROVE  \E bytes \in Deleted :
                 Rank(Verify(bytes, sidecar, None).outcome)
                   >= Rank(Verify(file, sidecar, external).outcome)
    BY DEF SidecarGainsWhatDeletingGives, GivesAsMuch, OutcomeFor
  <2>1. sidecar # None
    BY InCirculation, NoneIsNothing
  <2>2. Rank(Verify(file, sidecar, external).outcome) > Rank(Verify(file, None, external).outcome)
    BY RankOf
  <2>3. \/ /\ TrailerOf(file) = "none" /\ ~SealedWith(file)
           /\ Rank(Verify(file, sidecar, external).outcome) = Rank(Judge(sidecar, file))
        \/ /\ file.tail # << >>
           /\ \/ TrailerOf(file) # "ok"
              \/ /\ TrailerOf(WithoutLast(file)) = "none"
                 /\ Last(file.tail).payload.reads # "throws"
           /\ Rank(Verify(file, sidecar, external).outcome) = Rank(Judge(sidecar, WithoutLast(file)))
    BY <2>1, <2>2, SidecarGains
  <2> QED
    BY <2>1, <2>3, DeletingGives, DroppingStoresGives
<1> QED
  BY <1>1, FilesKeepTheirParts, PTL
=============================================================================
