------------------------------ MODULE PageProofs ------------------------------
(***************************************************************************)
(* What the page promises for any files, models and switches, any number   *)
(* of checks, loads and drops, in whatever order their continuations run:  *)
(* it implements Answers, its readings are by the model in use, its        *)
(* verdicts under the trust in use, and no two downloads compete.          *)
(*                                                                         *)
(* The argument: the page remembers what it does by the number of a check  *)
(* and by the source of a load, so everything a continuation may still do  *)
(* to the output can be said of the newest check and of the loads of the   *)
(* current source.                                                         *)
(***************************************************************************)
EXTENDS Page, SequenceTheorems, TLAPS

(***************************************************************************)
(* The inductive invariant.                                                *)
(***************************************************************************)
Underway(l) == loads[l].at \in {"importing", "fetching"}

\* A download of the current source that is under way is the shared one, and what
\* is known of its model is the model in use.
LoadsInv ==
  /\ LoadsAreShared
  /\ \A l \in DOMAIN loads :
       /\ loads[l].source <= source
       /\ Underway(l) /\ Mine(l) => loading = l
       /\ Mine(l) /\ loads[l].model # None => loads[l].model = custom
  /\ detector # None => detector = custom

\* A check about no file is over; the newest one waits for a load of the current
\* source and was read by the model in use.
CheckFits(c, check) ==
  /\ held.file = None => check.file = None
  /\ check.file = None => check.at = "ended" /\ check.read = None /\ check.load = 0
  /\ check.at = "loading" => check.load # 0
  /\ check.at = "detecting" => check.read # None
  /\ Newest(c) => /\ check.load # 0 => loads[check.load].source = source
                  /\ check.read # None => check.read = custom
CheckInv == \A c \in DOMAIN checks : CheckFits(c, checks[c])

\* What the output holds while the newest check is where it is.
Cards == {i \in DOMAIN out : Card(i)}
Stands(newest) ==
  /\ newest.at \in {"opening", "judging"} => Cards = {} /\ newest.for = "verdict"
  /\ newest.at = "lookup" => newest.for = "verdict"
  /\ newest.at \notin {"opening", "judging", "ended"} =>
       \E i \in Cards : out[i].what = IF newest.for = "verdict" THEN "pending" ELSE "verdict"
  /\ \A i \in DOMAIN out : out[i].what = "markOffer" =>
       /\ newest.at = "ended" /\ newest.file # None
       /\ \E j \in Cards : out[j].what = "verdict"

\* Only mark panels are of another check than the newest, and there is one card and
\* one offer.
OutInv ==
  /\ held.file = None => out = << >>
  /\ \A i \in DOMAIN out : out[i].what # "mark" => Newest(out[i].of)
  /\ \A i, j \in Cards : i = j
  /\ \A i, j \in DOMAIN out : out[i].what = "markOffer" /\ out[j].what = "markOffer" => i = j
  /\ generation # 0 => Stands(checks[generation])

\* The trust a card was judged under is the one in use, but for the shipped set.
Answering(check) == check.for = "verdict" /\ check.at \notin {"opening", "ended"}
Fresh(judged) == judged = trust \/ (~TrustMounted /\ mounted /\ judged = trust \ {"shipped"})
TrustInv ==
  /\ TrustMounted => mounted
  /\ ~mounted => "shipped" \notin trust
  /\ \A i \in DOMAIN out : out[i].what \in {"pending", "verdict"} => Fresh(out[i].trust)
  /\ generation # 0 /\ Answering(checks[generation]) =>
       Fresh(checks[generation].trust)

IInv == TypeOK /\ LoadsInv /\ CheckInv /\ OutInv /\ ReadByTheModelInUse /\ TrustInv

(***************************************************************************)
(* Helpers.                                                                *)
(***************************************************************************)
LEMMA ConstantsOK ==
  /\ Declares \subseteq Files /\ Bare \subseteq Files /\ Anchored \subseteq Files
  /\ Pinned \in Builds /\ None \notin Builds /\ None \notin Files
  /\ None # "supplied" /\ None # "failed"
  /\ "supplied" \notin Builds /\ "failed" \notin Builds
  /\ Switches \subseteq {"shipped", "chain"} /\ TrustMounted \in BOOLEAN
  /\ Detections \subseteq {None, "readable", "unreadable"}
BY PageAssumption DEF Builds

LEMMA Lengths ==
  ASSUME TypeOK
  PROVE  /\ generation \in Nat /\ DOMAIN checks = 1 .. generation
         /\ DOMAIN out = 1 .. Len(out) /\ Len(out) \in Nat
         /\ DOMAIN loads = 1 .. Len(loads) /\ Len(loads) \in Nat
         /\ DOMAIN takes = 1 .. Len(takes) /\ Len(takes) \in Nat
         /\ \A c \in DOMAIN checks : checks[c] \in CheckRecord
         /\ \A i \in DOMAIN out : out[i] \in ItemRecord
         /\ \A l \in DOMAIN loads : loads[l] \in LoadRecord
         /\ \A t \in DOMAIN takes : takes[t] \in TakeRecord
BY ElementOfSeq, LenProperties DEF TypeOK, generation

\* A longer list of loads keeps the checks well typed.
LEMMA ChecksStayTyped ==
  ASSUME TypeOK, Len(loads') \in Nat, Len(loads) <= Len(loads')
  PROVE  /\ CheckRecord \subseteq CheckRecord'
         /\ checks \in Seq(CheckRecord')
<1>1. CheckRecord \subseteq CheckRecord'
  <2>1. 0 .. Len(loads) \subseteq 0 .. Len(loads')
    BY Lengths
  <2> QED
    BY <2>1 DEF CheckRecord
<1> QED
  BY <1>1, SeqMonotonic DEF TypeOK

\* The number of checks only grows: items keep their type while it stands.
LEMMA ItemsStayTyped ==
  ASSUME generation' = generation
  PROVE  ItemRecord' = ItemRecord
BY DEF ItemRecord

\* One check goes on: the others are as they were.
LEMMA GoesOn ==
  ASSUME TypeOK, NEW c \in DOMAIN checks, NEW check, check \in CheckRecord',
         Len(loads') \in Nat, Len(loads) <= Len(loads'),
         checks' = [checks EXCEPT ![c] = check]
  PROVE  /\ checks' \in Seq(CheckRecord') /\ generation' = generation
         /\ DOMAIN checks' = DOMAIN checks
         /\ checks'[c] = check
         /\ \A k \in DOMAIN checks : k # c => checks'[k] = checks[k]
<1>1. checks \in Seq(CheckRecord') /\ c \in 1 .. Len(checks)
  BY ChecksStayTyped, Lengths DEF generation
<1>2. /\ [checks EXCEPT ![c] = check] \in Seq(CheckRecord')
      /\ Len([checks EXCEPT ![c] = check]) = Len(checks)
      /\ \A k \in 1 .. Len(checks) :
           [checks EXCEPT ![c] = check][k] = IF k = c THEN check ELSE checks[k]
  BY <1>1, ExceptSeq
<1> QED
  BY <1>1, <1>2, Lengths, LenProperties DEF generation

\* ... and where it and the newest check may be then.
LEMMA GoesOnFits ==
  ASSUME IInv, NEW c \in DOMAIN checks, NEW check, check \in CheckRecord',
         Len(loads') \in Nat, Len(loads) <= Len(loads'),
         \A l \in DOMAIN loads : loads'[l].source = loads[l].source,
         checks' = [checks EXCEPT ![c] = check],
         UNCHANGED <<held, custom, source>>, CheckFits(c, check)'
  PROVE  CheckInv'
<1>1. /\ DOMAIN checks' = DOMAIN checks /\ checks'[c] = check /\ generation' = generation
      /\ \A k \in DOMAIN checks : k # c => checks'[k] = checks[k]
  BY GoesOn DEF IInv
<1>2. ASSUME NEW k \in DOMAIN checks, k # c PROVE CheckFits(k, checks[k])'
  <2>1. checks[k].load \in 0 .. Len(loads) /\ checks'[k] = checks[k]
    BY <1>1, <1>2, Lengths DEF IInv, CheckRecord
  <2>2. checks[k].load # 0 => loads'[checks[k].load].source = loads[checks[k].load].source
    BY <2>1, Lengths DEF IInv
  <2> QED
    BY <1>1, <2>1, <2>2 DEF IInv, CheckInv, CheckFits, Newest
<1> QED
  BY <1>1, <1>2 DEF CheckInv

(***************************************************************************)
(* A question: whatever started it, it empties the output and begins with  *)
(* nothing loaded and nothing read.                                        *)
(***************************************************************************)
NewCheck(with) ==
  [ file |-> with.file, detection |-> with.detection, trust |-> {},
    at |-> IF with.file = None THEN "ended" ELSE "opening",
    for |-> "verdict", load |-> 0, read |-> None ]

Queries == [file : Files \cup {None}, detection : BOOLEAN]

LEMMA AskKeeps ==
  ASSUME IInv, NEW with \in Queries, Check(with), loads' = loads,
         held'.file = None => held.file = None /\ with.file = None
  PROVE  /\ checks' \in Seq(CheckRecord') /\ out' \in Seq(ItemRecord')
         /\ \A c \in DOMAIN checks' : checks'[c].at = "detecting" => checks'[c].read # None
         /\ note' \in Builds \cup {None, "supplied", "failed"} /\ status' \in {"idle", "working"}
         /\ CheckInv' /\ OutInv' /\ ReadByTheModelInUse'
         /\ \A i \in DOMAIN out' : out'[i].what \in {"pending", "verdict"} => Fresh(out[i].trust)'
         /\ generation' # 0 /\ Answering(checks'[generation']) =>
              Fresh(checks[generation].trust)'
<1> DEFINE new == NewCheck(with)
<1>1. /\ out' = << >> /\ checks' = Append(checks, new)
      /\ note' \in {note, "supplied", None} /\ status' \in {status, "working"}
  BY DEF Check, NewCheck
<1>2. new \in CheckRecord /\ CheckRecord' = CheckRecord
  <2>1. 0 \in 0 .. Len(loads)
    BY Lengths DEF IInv
  <2> QED
    BY <2>1 DEF NewCheck, CheckRecord, Queries
<1>3. /\ checks' \in Seq(CheckRecord) /\ generation' = generation + 1 /\ generation \in Nat
      /\ DOMAIN checks' = DOMAIN checks \cup {generation'} /\ generation' \notin DOMAIN checks
      /\ \A c \in DOMAIN checks : checks'[c] = checks[c]
      /\ checks'[generation'] = new
  <2> HIDE DEF new
  <2> QED
    BY <1>1, <1>2, AppendProperties, Lengths, LenProperties DEF IInv, TypeOK, generation
<1>4. /\ new.at = IF with.file = None THEN "ended" ELSE "opening"
      /\ new.for = "verdict" /\ new.load = 0 /\ new.read = None /\ new.file = with.file
  BY DEF NewCheck
<1> HIDE DEF new
<1>5. out' \in Seq(ItemRecord') /\ DOMAIN out' = {}
  BY <1>1, EmptySeq
<1>6. ASSUME NEW c \in DOMAIN checks' PROVE CheckFits(c, checks[c])'
  <2>1. CASE c = generation'
    BY <1>3, <1>4, <2>1 DEF CheckFits
  <2>2. CASE c # generation'
    BY <1>3, <2>2 DEF IInv, CheckInv, CheckFits, Newest
  <2> QED
    BY <2>1, <2>2
<1>7. OutInv'
  BY <1>1, <1>3, <1>4, <1>5 DEF OutInv, Stands, Cards
<1> QED
  BY <1>1, <1>2, <1>3, <1>4, <1>5, <1>6, <1>7
     DEF IInv, TypeOK, CheckInv, CheckFits, ReadByTheModelInUse, Newest, Answering

\* What a question leaves to show: the loads and the model in use, and whether the
\* shipped set is there.
LEMMA AskTypes ==
  ASSUME IInv, NEW with \in Queries, Check(with), loads' = loads, loading' \in 0 .. Len(loads),
         held' \in Queries, held'.file = None => held.file = None /\ with.file = None,
         custom' \in Builds, detector' \in Builds \cup {None}, source' \in Nat,
         takes' \in Seq(TakeRecord), trust' \subseteq {"shipped", "chain"}, mounted' = mounted,
         mounted \/ "shipped" \notin trust', LoadsInv'
  PROVE  IInv'
<1>1. LoadRecord' = LoadRecord /\ TakeRecord' = TakeRecord
  BY DEF LoadRecord, TakeRecord
<1>2. TypeOK'
  BY <1>1, AskKeeps DEF IInv, TypeOK, Queries
<1>3. TrustInv'
  BY AskKeeps DEF IInv, TrustInv
<1> QED
  BY <1>2, <1>3, AskKeeps DEF IInv

\* What is held, waited for or said beside the verdict touches nothing else.
LEMMA RestsKeeps ==
  ASSUME IInv, held' \in Queries, held'.file = None => held.file = None,
         takes' \in Seq(TakeRecord), status' \in {"idle", "working"},
         note' \in Builds \cup {None, "supplied", "failed"},
         UNCHANGED <<model, loads, checks, trust, mounted, out>>
  PROVE  IInv'
<1>1. TypeOK'
  BY DEF IInv, TypeOK, Queries, model, LoadRecord, CheckRecord, ItemRecord, TakeRecord, generation
<1>2. LoadsInv'
  BY DEF IInv, LoadsInv, LoadsAreShared, Underway, Mine, model
<1>3. CheckInv' /\ OutInv' /\ ReadByTheModelInUse' /\ TrustInv'
  BY DEF IInv, model, CheckInv, CheckFits, OutInv, Stands, Cards, Card, Newest, generation,
         ReadByTheModelInUse, TrustInv, Fresh
<1> QED
  BY <1>1, <1>2, <1>3 DEF IInv

LEMMA QuestionsAreTyped ==
  ASSUME IInv
  PROVE  /\ held \in Queries
         /\ \A t \in DOMAIN takes : takes[t] \in TakeRecord
         /\ \A t \in DOMAIN takes, stage \in {"hashing", "ended"} :
              (stage = "hashing" => takes[t].model # None)
              => [takes EXCEPT ![t].at = stage] \in Seq(TakeRecord)
<1>1. \A t \in DOMAIN takes : takes[t] \in TakeRecord
  BY Lengths DEF IInv
<1>2. ASSUME NEW t \in DOMAIN takes, NEW stage \in {"hashing", "ended"},
             stage = "hashing" => takes[t].model # None
      PROVE  [takes EXCEPT ![t].at = stage] \in Seq(TakeRecord)
  <2>1. [takes[t] EXCEPT !.at = stage] \in TakeRecord
    <3> DEFINE next == [takes[t] EXCEPT !.at = stage]
    <3>1. next = [ at |-> stage, media |-> takes[t].media, detection |-> takes[t].detection,
                   model |-> takes[t].model ]
      BY <1>1 DEF TakeRecord
    <3> HIDE DEF next
    <3> QED
      BY <1>1, <1>2, <3>1 DEF TakeRecord
  <2>2. [takes EXCEPT ![t] = [takes[t] EXCEPT !.at = stage]] \in Seq(TakeRecord)
    BY <2>1, ExceptSeq, Lengths DEF IInv, TypeOK
  <2> QED
    BY <2>2
<1> QED
  BY <1>1, <1>2 DEF IInv, TypeOK, Queries

LEMMA TakeKeeps ==
  ASSUME IInv, NEW media \in Files \cup {None}, NEW detection \in Detections,
         NEW m \in Models \cup {None}, Take(media, detection, m)
  PROVE  IInv'
<1>1. /\ held' \in Queries
      /\ held'.file = None => held.file = None
      /\ UNCHANGED <<custom, detector, loading, source, loads, trust, mounted>>
  BY QuestionsAreTyped DEF Take, Queries
<1>2. CASE detection = None /\ m = None
  <2>1. Check(held') /\ UNCHANGED takes
    BY <1>2 DEF Take
  <2>2. LoadsInv'
    BY <1>1 DEF IInv, LoadsInv, LoadsAreShared, Underway, Mine
  <2> QED
    BY <1>1, <2>1, <2>2, AskTypes DEF IInv, TypeOK, TrustInv
<1>3. CASE ~(detection = None /\ m = None)
  <2>1. /\ takes' \in Seq(TakeRecord)
        /\ status' \in {"idle", "working"} /\ UNCHANGED <<out, checks, note>>
    <3> DEFINE stage == IF detection = None THEN "hashing" ELSE "reading"
               new == [at |-> stage, media |-> media, detection |-> detection, model |-> m]
    <3>1. takes' = Append(takes, new) /\ UNCHANGED <<out, checks, note>>
      BY <1>3 DEF Take, Wait
    <3>2. new \in TakeRecord
      BY <1>3 DEF TakeRecord
    <3>3. status' \in {status, "working"}
      BY <1>3 DEF Take
    <3> HIDE DEF new
    <3> QED
      BY <3>1, <3>2, <3>3, AppendProperties DEF IInv, TypeOK
  <2> QED
    BY <1>1, <2>1, RestsKeeps DEF IInv, TypeOK, model
<1> QED
  BY <1>2, <1>3

LEMMA DetectionReadKeeps ==
  ASSUME IInv, NEW t \in DOMAIN takes, DetectionRead(t)
  PROVE  IInv'
<1>1. /\ held' \in Queries
      /\ held'.file = held.file
      /\ takes' \in Seq(TakeRecord)
      /\ UNCHANGED <<model, loads, trust, mounted>>
  <2> DEFINE next == IF takes[t].model # None THEN "hashing" ELSE "ended"
  <2>1. takes' = [takes EXCEPT ![t].at = next]
    BY DEF DetectionRead
  <2>2. next \in {"hashing", "ended"} /\ (next = "hashing" => takes[t].model # None)
    OBVIOUS
  <2> HIDE DEF next
  <2>3. takes' \in Seq(TakeRecord)
    BY <2>1, <2>2, QuestionsAreTyped
  <2> QED
    BY <2>3, QuestionsAreTyped DEF DetectionRead, Queries
<1>2. \/ Check(held')
      \/ status' \in {"idle", "working"} /\ UNCHANGED <<out, checks, note>>
  BY DEF DetectionRead
<1>3. CASE Check(held')
  <2>1. LoadsInv'
    BY <1>1 DEF IInv, LoadsInv, LoadsAreShared, Underway, Mine, model
  <2> QED
    BY <1>1, <1>3, <2>1, AskTypes DEF IInv, TypeOK, TrustInv, model
<1>4. CASE status' \in {"idle", "working"} /\ UNCHANGED <<out, checks, note>>
  BY <1>1, <1>4, RestsKeeps DEF IInv, TypeOK
<1> QED
  BY <1>2, <1>3, <1>4

(***************************************************************************)
(* Another model: no load there is, is of the new source.                  *)
(***************************************************************************)
LEMMA UseKeeps ==
  ASSUME IInv, NEW m \in Builds, Use(m), CheckHeld, takes' \in Seq(TakeRecord),
         UNCHANGED <<held, loads, trust, mounted>>
  PROVE  IInv'
<1>1. /\ custom' = m /\ detector' = None /\ loading' = 0 /\ source' = source + 1
      /\ source \in Nat
  BY DEF Use, IInv, TypeOK
<1>2. LoadsInv'
  <2>1. \A l \in DOMAIN loads : loads[l].source \in Nat /\ loads[l].source <= source
    BY Lengths DEF IInv, LoadsInv, LoadRecord
  <2> QED
    BY <1>1, <2>1 DEF IInv, LoadsInv, LoadsAreShared, Underway, Mine
<1>3. CASE held.file = None
  <2>1. UNCHANGED <<out, checks, note>> /\ status' = "idle" /\ out = << >>
    BY <1>3 DEF CheckHeld, IInv, OutInv
  <2>2. TypeOK'
    BY <1>1, <2>1, Lengths
       DEF IInv, TypeOK, LoadRecord, CheckRecord, ItemRecord, TakeRecord, generation
  <2>3. CheckInv'
    BY <1>3, <2>1 DEF IInv, CheckInv, CheckFits, Newest, generation
  <2>4. OutInv' /\ ReadByTheModelInUse' /\ TrustInv'
    BY <2>1 DEF IInv, OutInv, Stands, Cards, Card, Newest, generation, ReadByTheModelInUse,
                TrustInv, Fresh
  <2> QED
    BY <1>2, <2>2, <2>3, <2>4 DEF IInv
<1>4. CASE held.file # None
  <2>1. Check(held)
    BY <1>4 DEF CheckHeld
  <2> QED
    BY <1>1, <1>2, <1>4, <2>1, AskTypes, QuestionsAreTyped DEF IInv, TypeOK, TrustInv
<1> QED
  BY <1>3, <1>4

LEMMA HashedKeeps ==
  ASSUME IInv, NEW t \in DOMAIN takes, Hashed(t) \/ HashFails(t)
  PROVE  IInv'
<1>1. CASE Hashed(t)
  <2>1. takes[t].model \in Models
    <3>1. takes[t] \in TakeRecord /\ takes[t].at = "hashing"
      BY <1>1, QuestionsAreTyped DEF Hashed
    <3> QED
      BY <3>1 DEF TakeRecord
  <2> QED
    BY <1>1, <2>1, UseKeeps, QuestionsAreTyped DEF Hashed, Builds
<1>2. CASE HashFails(t)
  BY <1>2, RestsKeeps, QuestionsAreTyped DEF HashFails, IInv, TypeOK
<1> QED
  BY <1>1, <1>2

LEMMA ResetModelKeeps ==
  ASSUME IInv, ResetModel
  PROVE  IInv'
BY UseKeeps, ConstantsOK DEF ResetModel, IInv, TypeOK

LEMMA SwitchKeeps ==
  ASSUME IInv, (\E s \in Switches : Switch(s)) \/ ReadAnchor
  PROVE  IInv'
<1>1. /\ Check(held) /\ UNCHANGED <<held, model, loads, takes, mounted>>
      /\ trust' \subseteq {"shipped", "chain"} /\ (mounted \/ "shipped" \notin trust')
  <2>1. CASE ReadAnchor
    BY <2>1 DEF ReadAnchor, IInv, TypeOK, TrustInv
  <2>2. ASSUME NEW s \in Switches, Switch(s)
        PROVE  /\ Check(held) /\ UNCHANGED <<held, model, loads, takes, mounted>>
               /\ trust' \subseteq {"shipped", "chain"} /\ (mounted \/ "shipped" \notin trust')
    BY <2>2, ConstantsOK DEF Switch, IInv, TypeOK, TrustInv
  <2> QED
    BY <2>1, <2>2
<1>2. LoadsInv'
  BY <1>1 DEF IInv, LoadsInv, LoadsAreShared, Underway, Mine, model
<1> QED
  BY <1>1, <1>2, AskTypes, QuestionsAreTyped DEF IInv, TypeOK, model

\* The shipped set is mounted: what was judged before lacks just that.
LEMMA ShippedTrustKeeps ==
  ASSUME IInv, ShippedTrust
  PROVE  IInv'
<1>1. TypeOK'
  BY DEF ShippedTrust, IInv, TypeOK, model, LoadRecord, CheckRecord, ItemRecord, TakeRecord,
         generation
<1>2. LoadsInv' /\ CheckInv' /\ OutInv' /\ ReadByTheModelInUse'
  BY DEF ShippedTrust, IInv, model, LoadsInv, LoadsAreShared, Underway, Mine, CheckInv, CheckFits,
         OutInv, Stands, Cards, Card, Newest, generation, ReadByTheModelInUse
<1>3. TrustInv'
  <2>1. ~TrustMounted /\ mounted' /\ trust' \ {"shipped"} = trust /\ ~mounted
    BY DEF ShippedTrust, IInv, TrustInv
  <2>2. \A judged : Fresh(judged) => Fresh(judged)'
    BY <2>1 DEF Fresh
  <2> QED
    BY <2>1, <2>2 DEF ShippedTrust, IInv, TrustInv, generation
<1> QED
  BY <1>1, <1>2, <1>3 DEF IInv

(***************************************************************************)
(* A check goes on: what is to be seen of it, of the loads and of the      *)
(* output, is all there is to see.                                         *)
(***************************************************************************)
LEMMA MovesKeeps ==
  ASSUME IInv, NEW c \in DOMAIN checks, NEW check \in CheckRecord',
         checks' = [checks EXCEPT ![c] = check],
         UNCHANGED <<held, custom, detector, source, takes, trust, mounted>>,
         loads' \in Seq(LoadRecord), Len(loads) <= Len(loads'), loading' \in 0 .. Len(loads'),
         \A l \in DOMAIN loads : loads'[l].source = loads[l].source,
         \A l \in DOMAIN loads' : loads'[l].at \in {"fetching", "loaded"} => loads'[l].model # None,
         note' \in Builds \cup {None, "supplied", "failed"}, status' \in {"idle", "working"},
         out' \in Seq(ItemRecord), CheckFits(c, check)',
         LoadsInv', OutInv', ReadByTheModelInUse', TrustInv'
  PROVE  IInv'
<1>1. Len(loads') \in Nat
  BY LenProperties
<1>2. /\ checks' \in Seq(CheckRecord') /\ generation' = generation
      /\ DOMAIN checks' = DOMAIN checks /\ checks'[c] = check
      /\ \A k \in DOMAIN checks : k # c => checks'[k] = checks[k]
  BY <1>1, GoesOn DEF IInv
<1>3. CheckInv'
  BY <1>1, GoesOnFits
<1>4. LoadRecord' = LoadRecord /\ ItemRecord' = ItemRecord /\ TakeRecord' = TakeRecord
  BY <1>2 DEF LoadRecord, ItemRecord, TakeRecord
<1>5. \A k \in DOMAIN checks' : checks'[k].at = "detecting" => checks'[k].read # None
  BY <1>2, <1>3 DEF CheckInv, CheckFits
<1>6. TypeOK'
  BY <1>2, <1>4, <1>5 DEF IInv, TypeOK
<1> QED
  BY <1>3, <1>6 DEF IInv

\* No load is started or read meanwhile.
LEMMA StaysKeeps ==
  ASSUME IInv, NEW c \in DOMAIN checks, NEW check \in CheckRecord,
         checks' = [checks EXCEPT ![c] = check],
         UNCHANGED <<held, model, loads, takes, trust, mounted>>,
         note' \in Builds \cup {None, "supplied", "failed"}, status' \in {"idle", "working"},
         out' \in Seq(ItemRecord), CheckFits(c, check)',
         OutInv', ReadByTheModelInUse', TrustInv'
  PROVE  IInv'
<1>1. check \in CheckRecord'
  BY DEF CheckRecord
<1>2. LoadsInv'
  BY DEF IInv, LoadsInv, LoadsAreShared, Underway, Mine, model
<1>3. UNCHANGED <<custom, detector, loading, source>>
  BY DEF model
<1>4. /\ loads' \in Seq(LoadRecord) /\ Len(loads) <= Len(loads') /\ loading' \in 0 .. Len(loads')
      /\ \A l \in DOMAIN loads' : loads'[l].at \in {"fetching", "loaded"} => loads'[l].model # None
  BY <1>3, Lengths DEF IInv, TypeOK
<1> QED
  BY <1>1, <1>2, <1>3, <1>4, MovesKeeps

\* The output stays: the others see nothing of it.
LEMMA QuietOut ==
  ASSUME IInv, NEW c \in DOMAIN checks, NEW check \in CheckRecord',
         checks' = [checks EXCEPT ![c] = check],
         Len(loads') \in Nat, Len(loads) <= Len(loads'),
         UNCHANGED <<held, custom, trust, mounted, out>>,
         Newest(c) => Stands(check) /\ (Answering(check) => Fresh(check.trust))
  PROVE  OutInv' /\ ReadByTheModelInUse' /\ TrustInv'
<1>1. /\ generation' = generation /\ DOMAIN checks' = DOMAIN checks /\ checks'[c] = check
      /\ \A k \in DOMAIN checks : k # c => checks'[k] = checks[k]
  BY GoesOn DEF IInv
<1>2. generation # 0 => generation \in DOMAIN checks
  BY Lengths DEF IInv
<1>3. generation # 0 => /\ Stands(checks'[generation])
                        /\ Answering(checks'[generation]) =>
                             Fresh(checks'[generation].trust)
  BY <1>1, <1>2 DEF IInv, OutInv, TrustInv, Newest
<1>4. /\ \A newest : Stands(newest) => Stands(newest)'
      /\ \A judged : Fresh(judged) => Fresh(judged)'
      /\ Cards' = Cards /\ \A i : Newest(i) <=> Newest(i)'
  BY <1>1 DEF Stands, Cards, Card, Fresh, Newest
<1>5. OutInv'
  BY <1>1, <1>3, <1>4 DEF IInv, OutInv
<1>6. TrustInv'
  BY <1>1, <1>3, <1>4 DEF IInv, TrustInv
<1>7. ReadByTheModelInUse'
  BY <1>4 DEF IInv, ReadByTheModelInUse
<1> QED
  BY <1>5, <1>6, <1>7

LEMMA QuietKeeps ==
  ASSUME IInv, NEW c \in DOMAIN checks, NEW check \in CheckRecord,
         checks' = [checks EXCEPT ![c] = check],
         UNCHANGED <<held, model, loads, takes, trust, mounted, out>>,
         note' \in Builds \cup {None, "supplied", "failed"}, status' \in {"idle", "working"},
         CheckFits(c, check)',
         Newest(c) => Stands(check) /\ (Answering(check) => Fresh(check.trust))
  PROVE  IInv'
<1>1. check \in CheckRecord' /\ Len(loads') \in Nat /\ Len(loads) <= Len(loads')
      /\ UNCHANGED custom
  BY Lengths DEF CheckRecord, model, IInv
<1>2. OutInv' /\ ReadByTheModelInUse' /\ TrustInv'
  BY <1>1, QuietOut
<1>3. out' \in Seq(ItemRecord)
  BY DEF IInv, TypeOK
<1> QED
  BY <1>2, <1>3, StaysKeeps

LEMMA ChecksAreTyped ==
  ASSUME IInv
  PROVE  \A c \in DOMAIN checks :
           /\ checks[c] \in CheckRecord /\ CheckFits(c, checks[c])
           /\ checks[c] = [ file |-> checks[c].file, detection |-> checks[c].detection,
                            trust |-> checks[c].trust, at |-> checks[c].at, for |-> checks[c].for,
                            load |-> checks[c].load, read |-> checks[c].read ]
           /\ checks[c].load \in 0 .. Len(loads)
           /\ Newest(c) => Stands(checks[c])
           /\ Newest(c) /\ Answering(checks[c]) => Fresh(checks[c].trust)
BY Lengths DEF IInv, CheckRecord, CheckInv, OutInv, TrustInv, Newest

LEMMA SameNumber ==
  ASSUME IInv, NEW c \in DOMAIN checks, NEW check \in CheckRecord,
         checks' = [checks EXCEPT ![c] = check]
  PROVE  generation' = generation /\ DOMAIN checks' = DOMAIN checks /\ \A k : Newest(k)' <=> Newest(k)
<1>1. generation' = generation
  BY ExceptSeq, Lengths DEF IInv, TypeOK, generation
<1> QED
  BY <1>1 DEF Newest

LEMMA OutdatedKeeps ==
  ASSUME IInv, NEW c \in DOMAIN checks, Outdated(c),
         UNCHANGED <<held, model, loads, takes, trust, mounted, note>>
  PROVE  IInv'
<1> SUFFICES ASSUME NEW check, check = [checks[c] EXCEPT !.at = "ended"] PROVE IInv'
  OBVIOUS
<1>1. checks' = [checks EXCEPT ![c] = check] /\ ~Newest(c)
  BY DEF Outdated, Goes
<1>2. check \in CheckRecord /\ check.at = "ended" /\ check.file = checks[c].file
      /\ check.read = checks[c].read /\ check.load = checks[c].load
  BY ChecksAreTyped DEF CheckRecord
<1>3. CheckFits(c, check)'
  <2>1. generation' = generation
    BY <1>1, <1>2, SameNumber
  <2> QED
    BY <1>1, <1>2, <2>1, ChecksAreTyped DEF CheckFits, Newest
<1>4. note' \in Builds \cup {None, "supplied", "failed"} /\ status' \in {"idle", "working"}
  BY DEF Outdated, IInv, TypeOK
<1> QED
  BY <1>1, <1>2, <1>3, <1>4, QuietKeeps DEF Outdated

LEMMA OpenedKeeps ==
  ASSUME IInv, NEW c \in DOMAIN checks, Opened(c)
  PROVE  IInv'
<1> SUFFICES ASSUME NEW check, check = [checks[c] EXCEPT !.at = "judging", !.trust = trust]
             PROVE  IInv'
  OBVIOUS
<1>1. /\ checks' = [checks EXCEPT ![c] = check] /\ checks[c].at = "opening"
      /\ UNCHANGED <<held, model, loads, takes, trust, mounted, note, status, out>>
  <2>1. c \in DOMAIN checks /\ checks[c] \in CheckRecord
    BY ChecksAreTyped
  <2> QED
    BY <2>1 DEF Opened, CheckRecord
<1>2. /\ check \in CheckRecord /\ check.at = "judging" /\ check.file = checks[c].file
      /\ check.read = checks[c].read /\ check.load = checks[c].load /\ check.for = checks[c].for
      /\ check.trust = trust
  <2>1. checks[c] \in CheckRecord /\ trust \in SUBSET {"shipped", "chain"}
    BY ChecksAreTyped DEF IInv, TypeOK
  <2>2. "judging" \in { "opening", "judging", "lookup", "loading", "detecting", "concluding", "ended" }
    OBVIOUS
  <2> QED
    BY ONLY <2>1, <2>2, check = [checks[c] EXCEPT !.at = "judging", !.trust = trust] DEF CheckRecord
<1>3. CheckFits(c, check)'
  <2>1. generation' = generation
    BY <1>1, <1>2, SameNumber
  <2> QED
    BY <1>1, <1>2, <2>1, ChecksAreTyped DEF CheckFits, Newest, model
<1>4. Newest(c) => Stands(check) /\ Fresh(check.trust)
  <2>1. Newest(c) => Stands(checks[c])
    BY ChecksAreTyped
  <2> QED
    BY <1>1, <1>2, <2>1 DEF Stands, Fresh
<1> QED
  BY <1>1, <1>2, <1>3, <1>4, QuietKeeps DEF IInv, TypeOK

\* A check that waited or read goes on without a word: its card stands.
LEMMA ReadsOnKeeps ==
  ASSUME IInv, NEW c \in DOMAIN checks, NEW stage \in {"detecting", "concluding"},
         NEW read \in Builds \cup {None},
         checks[c].at \in {"loading", "detecting"},
         checks' = [checks EXCEPT ![c] = [checks[c] EXCEPT !.at = stage, !.read = read]],
         UNCHANGED <<held, model, loads, takes, trust, mounted, status, out>>,
         note' \in Builds \cup {None, "supplied", "failed"},
         stage = "detecting" => read # None,
         Newest(c) /\ read # None => read = custom
  PROVE  IInv'
<1> SUFFICES ASSUME NEW check, check = [checks[c] EXCEPT !.at = stage, !.read = read]
             PROVE  IInv'
  OBVIOUS
<1>1. checks' = [checks EXCEPT ![c] = check]
  OBVIOUS
<1>2. /\ check \in CheckRecord /\ check.at = stage /\ check.file = checks[c].file
      /\ check.read = read /\ check.load = checks[c].load /\ check.for = checks[c].for
      /\ check.trust = checks[c].trust
  BY ChecksAreTyped DEF CheckRecord
<1>3. CheckFits(c, check)'
  BY <1>1, <1>2, SameNumber, ChecksAreTyped DEF CheckFits, model
<1>4. Newest(c) => Stands(check) /\ (Answering(check) => Fresh(check.trust))
  <2>1. Newest(c) => Stands(checks[c]) /\ (Answering(checks[c]) => Fresh(checks[c].trust))
    BY ChecksAreTyped
  <2> QED
    BY <1>1, <1>2, <2>1 DEF Stands, Answering
<1> QED
  BY <1>1, <1>2, <1>3, <1>4, QuietKeeps DEF IInv, TypeOK

LEMMA DetectorArrivesKeeps ==
  ASSUME IInv, NEW c \in DOMAIN checks, DetectorArrives(c)
  PROVE  IInv'
<1> DEFINE l == loads[checks[c].load]
<1>1. checks[c].load \in DOMAIN loads /\ checks[c].load # 0 /\ checks[c].at = "loading"
  <2>1. checks[c].at = "loading" /\ CheckFits(c, checks[c]) /\ checks[c].load \in 0 .. Len(loads)
    BY ChecksAreTyped DEF DetectorArrives
  <2> QED
    BY <2>1, Lengths DEF CheckFits, IInv
<1>2. CASE l.at = "loaded"
  <2>1. checks' = [checks EXCEPT ![c] = [checks[c] EXCEPT !.at = "detecting", !.read = l.model]]
    <3>1. checks' = [checks EXCEPT ![c].at = "detecting", ![c].read = l.model]
      BY <1>2 DEF DetectorArrives
    <3>2. c \in DOMAIN checks /\ checks[c] \in CheckRecord
      BY ChecksAreTyped
    <3> QED
      BY <3>1, <3>2 DEF CheckRecord
  <2>2. l.model \in Builds /\ l.model # None
    <3>1. l \in LoadRecord /\ l.model # None
      BY <1>1, <1>2, Lengths DEF IInv, TypeOK
    <3> QED
      BY <3>1 DEF LoadRecord
  <2>3. Newest(c) => l.model = custom
    BY <1>1, <2>2, ChecksAreTyped DEF CheckFits, IInv, LoadsInv, Mine
  <2> QED
    BY <1>1, <2>1, <2>2, <2>3, ReadsOnKeeps DEF DetectorArrives, IInv, TypeOK
<1>3. CASE l.at # "loaded"
  <2>1. checks' = [checks EXCEPT ![c] = [checks[c] EXCEPT !.at = "concluding", !.read = checks[c].read]]
    <3>1. checks' = [checks EXCEPT ![c].at = "concluding"]
      BY <1>3 DEF DetectorArrives
    <3>2. c \in DOMAIN checks /\ checks[c] \in CheckRecord
      BY ChecksAreTyped
    <3> QED
      BY <3>1, <3>2 DEF CheckRecord
  <2>2. checks[c].read \in Builds \cup {None} /\ (Newest(c) /\ checks[c].read # None => checks[c].read = custom)
    BY ChecksAreTyped DEF CheckRecord, CheckFits
  <2> QED
    BY <1>1, <2>1, <2>2, ReadsOnKeeps DEF DetectorArrives, IInv, TypeOK
<1> QED
  BY <1>2, <1>3

LEMMA DetectedKeeps ==
  ASSUME IInv, NEW c \in DOMAIN checks, Detected(c) \/ DetectFails(c) \/ FrameRead(c)
  PROVE  IInv'
<1>1. checks[c] \in CheckRecord /\ checks[c].at = "detecting"
  BY ChecksAreTyped DEF Detected, DetectFails, FrameRead
<1>2. CASE Detected(c)
  <2>1. checks' = [checks EXCEPT ![c] = [checks[c] EXCEPT !.at = "concluding", !.read = checks[c].read]]
    BY <1>1, <1>2 DEF Detected, Goes, CheckRecord
  <2>2. checks[c].read \in Builds \cup {None} /\ (Newest(c) /\ checks[c].read # None => checks[c].read = custom)
    BY ChecksAreTyped DEF CheckRecord, CheckFits
  <2> QED
    BY <1>1, <1>2, <2>1, <2>2, ReadsOnKeeps DEF Detected
<1>3. CASE DetectFails(c)
  <2>1. checks' = [checks EXCEPT ![c] = [checks[c] EXCEPT !.at = "concluding", !.read = None]]
    BY <1>1, <1>3 DEF DetectFails, CheckRecord
  <2> QED
    BY <1>1, <1>3, <2>1, ReadsOnKeeps DEF DetectFails, IInv, TypeOK
<1>4. CASE FrameRead(c)
  BY <1>4, RestsKeeps, QuestionsAreTyped DEF FrameRead, IInv, TypeOK
<1> QED
  BY <1>2, <1>3, <1>4

(***************************************************************************)
(* A load goes on.                                                         *)
(***************************************************************************)
LEMMA LoadGoesOn ==
  ASSUME IInv, NEW l \in DOMAIN loads, NEW load \in LoadRecord,
         loads' = [loads EXCEPT ![l] = load], load.source = loads[l].source,
         load.at \in {"fetching", "loaded"} => load.model # None,
         UNCHANGED <<held, custom, source, checks, takes, trust, mounted, out>>,
         detector' \in {detector, custom}, loading' \in {loading, 0},
         note' \in Builds \cup {None, "supplied", "failed"}, status' \in {"idle", "working"},
         load.at \in {"importing", "fetching"} => Underway(l),
         load.at = "failed" => loading' # l,
         loading' = 0 /\ loading # 0 => loading = l /\ load.at = "failed",
         load.source = source /\ load.model # None => load.model = custom,
         detector' # None => detector' = custom
  PROVE  IInv'
<1>1. /\ loads' \in Seq(LoadRecord) /\ Len(loads') = Len(loads) /\ DOMAIN loads' = DOMAIN loads
      /\ loads'[l] = load /\ \A k \in DOMAIN loads : k # l => loads'[k] = loads[k]
  BY ExceptSeq, Lengths, LenProperties DEF IInv, TypeOK
<1>2. TypeOK'
  <2>1. LoadRecord' = LoadRecord /\ CheckRecord' = CheckRecord /\ ItemRecord' = ItemRecord
        /\ TakeRecord' = TakeRecord
    BY <1>1 DEF LoadRecord, CheckRecord, ItemRecord, TakeRecord, generation
  <2>2. \A k \in DOMAIN loads' : loads'[k].at \in {"fetching", "loaded"} => loads'[k].model # None
    BY <1>1 DEF IInv, TypeOK
  <2>3. loading' \in 0 .. Len(loads') /\ detector' \in Builds \cup {None}
    BY <1>1, Lengths DEF IInv, TypeOK
  <2> QED
    BY <1>1, <2>1, <2>2, <2>3 DEF IInv, TypeOK
<1>3. LoadsInv'
  <2>1. \A k \in DOMAIN loads : loads'[k].source = loads[k].source /\ (Underway(k)' => Underway(k))
    BY <1>1 DEF Underway
  <2>2. LoadsAreShared'
    <3>1. ASSUME loading' # 0 PROVE loads'[loading'].at # "failed" /\ Mine(loading)'
      <4>1. loading' = loading /\ loading \in DOMAIN loads
        BY <3>1, Lengths DEF IInv, TypeOK
      <4> QED
        BY <1>1, <2>1, <3>1, <4>1 DEF IInv, LoadsInv, LoadsAreShared, Mine
    <3> QED
      BY <1>1, <2>1, <3>1 DEF IInv, LoadsInv, LoadsAreShared, Underway
  <2>3. ASSUME NEW k \in DOMAIN loads, Underway(k)', Mine(k)' PROVE loading' = k
    <3>1. Underway(k) /\ Mine(k)
      BY <1>1, <2>1, <2>3 DEF Mine
    <3>2. loading = k /\ k # 0
      BY <3>1, Lengths DEF IInv, LoadsInv
    <3> QED
      BY <1>1, <2>3, <3>2 DEF Underway
  <2>4. ASSUME NEW k \in DOMAIN loads, Mine(k)', loads'[k].model # None PROVE loads'[k].model = custom'
    BY <1>1, <2>1, <2>4 DEF Mine, IInv, LoadsInv
  <2> QED
    BY <1>1, <2>1, <2>2, <2>3, <2>4 DEF IInv, LoadsInv
<1>4. CheckInv'
  <2>1. ASSUME NEW c \in DOMAIN checks, checks[c].load # 0
        PROVE  loads'[checks[c].load].source = loads[checks[c].load].source
    BY <1>1, <2>1, ChecksAreTyped, Lengths DEF IInv
  <2> QED
    BY <2>1 DEF IInv, CheckInv, CheckFits, Newest, generation
<1>5. OutInv' /\ ReadByTheModelInUse' /\ TrustInv'
  BY DEF IInv, OutInv, Stands, Cards, Card, Newest, generation, ReadByTheModelInUse, TrustInv, Fresh
<1> QED
  BY <1>2, <1>3, <1>4, <1>5 DEF IInv

LEMMA LoadStepKeeps ==
  ASSUME IInv, NEW l \in DOMAIN loads, Imported(l) \/ Loaded(l) \/ LoadFails(l)
  PROVE  IInv'
<1>1. loads[l] \in LoadRecord
  BY Lengths DEF IInv
<1>2. CASE Imported(l)
  <2> SUFFICES ASSUME NEW load, load = [loads[l] EXCEPT !.at = "fetching", !.model = custom]
               PROVE  IInv'
    OBVIOUS
  <2>1. loads' = [loads EXCEPT ![l] = load] /\ load \in LoadRecord
        /\ load.source = loads[l].source /\ load.at = "fetching" /\ load.model = custom
    BY <1>1, <1>2 DEF Imported, LoadRecord, IInv, TypeOK
  <2>2. custom # None /\ Underway(l)
    BY <1>2, ConstantsOK DEF Imported, Underway, IInv, TypeOK
  <2> QED
    BY <1>2, <2>1, <2>2, LoadGoesOn DEF Imported, model, IInv, TypeOK, LoadsInv
<1>3. CASE Loaded(l)
  <2> SUFFICES ASSUME NEW load, load = [loads[l] EXCEPT !.at = "loaded"] PROVE IInv'
    OBVIOUS
  <2>1. loads' = [loads EXCEPT ![l] = load] /\ load \in LoadRecord
        /\ load.source = loads[l].source /\ load.at = "loaded" /\ load.model = loads[l].model
    BY <1>1, <1>3 DEF Loaded, LoadRecord
  <2>2. load.model # None /\ (load.source = source => load.model = custom)
    BY <1>3, <2>1 DEF Loaded, IInv, TypeOK, LoadsInv, Mine
  <2>3. detector' \in {detector, custom} /\ (detector' # None => detector' = custom)
    BY <1>3, <2>1, <2>2 DEF Loaded, Mine, IInv, LoadsInv
  <2>4. /\ UNCHANGED <<held, custom, source, checks, takes, trust, mounted, out, loading, note, status>>
        /\ note \in Builds \cup {None, "supplied", "failed"} /\ status \in {"idle", "working"}
    BY <1>3 DEF Loaded, IInv, TypeOK
  <2> QED
    BY <2>1, <2>2, <2>3, <2>4, LoadGoesOn
<1>4. CASE LoadFails(l)
  <2> SUFFICES ASSUME NEW load, load = [loads[l] EXCEPT !.at = "failed"] PROVE IInv'
    OBVIOUS
  <2>1. loads' = [loads EXCEPT ![l] = load] /\ load \in LoadRecord
        /\ load.source = loads[l].source /\ load.at = "failed" /\ load.model = loads[l].model
    BY <1>1, <1>4 DEF LoadFails, LoadRecord
  <2>2. load.model # None => (load.source = source => load.model = custom)
    BY <2>1 DEF IInv, LoadsInv, Mine
  <2>3. Underway(l) /\ (Mine(l) => loading = l) /\ (loading = l => Mine(l)) /\ l # 0
    BY <1>4, Lengths DEF LoadFails, Underway, IInv, LoadsInv, LoadsAreShared
  <2>4. /\ UNCHANGED <<held, custom, source, checks, takes, trust, mounted, out, detector>>
        /\ loading' = IF Mine(l) THEN 0 ELSE loading
        /\ note' = "failed" /\ status' = "idle" /\ (detector # None => detector = custom)
    BY <1>4 DEF LoadFails, IInv, LoadsInv
  <2> QED
    BY <2>1, <2>2, <2>3, <2>4, LoadGoesOn
<1> QED
  BY <1>2, <1>3, <1>4

(***************************************************************************)
(* A check asks for the detector: the one at hand, the load under way, or a *)
(* new one of the current source, which is then the shared one.            *)
(***************************************************************************)
LoadsGrow ==
  /\ loads' \in Seq(LoadRecord) /\ Len(loads) <= Len(loads') /\ loading' \in 0 .. Len(loads')
  /\ \A l \in DOMAIN loads : loads'[l].source = loads[l].source
  /\ \A l \in DOMAIN loads' : loads'[l].at \in {"fetching", "loaded"} => loads'[l].model # None

LEMMA EnsureDetectorKeeps ==
  ASSUME IInv, NEW c \in DOMAIN checks, NEW asking \in CheckRecord, EnsureDetector(c, asking),
         asking.file # None, held.file # None,
         asking.load = checks[c].load, asking.read = checks[c].read,
         UNCHANGED <<held, custom, detector, source>>
  PROVE  /\ LoadsGrow /\ LoadsInv' /\ status' \in {"idle", "working"}
         /\ \E check \in CheckRecord' :
              /\ checks' = [checks EXCEPT ![c] = check]
              /\ check.at \in {"detecting", "loading"} /\ check.for = asking.for
              /\ check.file = asking.file /\ check.trust = asking.trust
              /\ CheckFits(c, check)'
<1>0. /\ Newest(c) /\ asking.load # 0 => loads[asking.load].source = source
      /\ Newest(c) /\ asking.read # None => asking.read = custom
      /\ asking.load \in 0 .. Len(loads)
  BY ChecksAreTyped DEF CheckFits
<1>1. LoadRecord' = LoadRecord /\ status \in {"idle", "working"}
  BY DEF LoadRecord, IInv, TypeOK
<1>2. ASSUME UNCHANGED <<loading, loads, status>>
      PROVE  LoadsGrow /\ LoadsInv' /\ status' \in {"idle", "working"} /\ CheckRecord' = CheckRecord
  BY <1>2, Lengths
     DEF LoadsGrow, IInv, TypeOK, LoadsInv, LoadsAreShared, Underway, Mine, CheckRecord
<1>3. CASE detector # None
  <2> SUFFICES ASSUME NEW check, check = [asking EXCEPT !.at = "detecting", !.read = detector]
               PROVE  /\ UNCHANGED <<loading, loads, status>>
                      /\ check \in CheckRecord /\ checks' = [checks EXCEPT ![c] = check]
                      /\ check.at \in {"detecting", "loading"} /\ check.for = asking.for
                      /\ check.file = asking.file /\ check.trust = asking.trust
                      /\ CheckFits(c, check)'
    BY <1>2
  <2>1. UNCHANGED <<loading, loads, status>> /\ checks' = [checks EXCEPT ![c] = check]
    BY <1>3 DEF EnsureDetector
  <2>2. /\ check \in CheckRecord /\ check.at = "detecting" /\ check.for = asking.for
        /\ check.file = asking.file /\ check.trust = asking.trust /\ check.load = asking.load
        /\ check.read = detector /\ detector = custom
    BY <1>3 DEF CheckRecord, IInv, TypeOK, LoadsInv
  <2>3. CheckFits(c, check)'
    BY <1>0, <1>3, <2>1, <2>2, SameNumber DEF CheckFits
  <2> QED
    BY <2>1, <2>2, <2>3
<1>4. CASE detector = None /\ loading # 0
  <2> SUFFICES ASSUME NEW check, check = [asking EXCEPT !.at = "loading", !.load = loading]
               PROVE  /\ UNCHANGED <<loading, loads, status>>
                      /\ check \in CheckRecord /\ checks' = [checks EXCEPT ![c] = check]
                      /\ check.at \in {"detecting", "loading"} /\ check.for = asking.for
                      /\ check.file = asking.file /\ check.trust = asking.trust
                      /\ CheckFits(c, check)'
    BY <1>2
  <2>1. UNCHANGED <<loading, loads, status>> /\ checks' = [checks EXCEPT ![c] = check]
    BY <1>4 DEF EnsureDetector
  <2>2. loading \in 0 .. Len(loads) /\ loads[loading].source = source
    BY <1>4 DEF IInv, TypeOK, LoadsInv, LoadsAreShared, Mine
  <2>3. /\ check \in CheckRecord /\ check.at = "loading" /\ check.for = asking.for
        /\ check.file = asking.file /\ check.trust = asking.trust /\ check.load = loading
        /\ check.read = asking.read
    BY <2>2 DEF CheckRecord
  <2>4. CheckFits(c, check)'
    BY <1>0, <1>4, <2>1, <2>2, <2>3, SameNumber DEF CheckFits
  <2> QED
    BY <2>1, <2>3, <2>4
<1>5. CASE detector = None /\ loading = 0
  <2> DEFINE new == [at |-> "importing", source |-> source, model |-> None]
  <2>1. /\ loads' = Append(loads, new) /\ loading' = Len(loads') /\ status' = "working"
        /\ checks' = [checks EXCEPT ![c] = [asking EXCEPT !.at = "loading", !.load = loading']]
    BY <1>5 DEF EnsureDetector
  <2>2. new \in LoadRecord
    BY DEF LoadRecord, IInv, TypeOK
  <2>a. new.at = "importing" /\ new.source = source /\ new.model = None
    OBVIOUS
  <2> HIDE DEF new
  <2>3. /\ loads' \in Seq(LoadRecord) /\ Len(loads') = Len(loads) + 1 /\ loading' = Len(loads) + 1
        /\ DOMAIN loads' = DOMAIN loads \cup {loading'} /\ loading' \notin DOMAIN loads
        /\ loads'[loading'] = new /\ \A l \in DOMAIN loads : loads'[l] = loads[l]
    BY <2>1, <2>2, AppendProperties, LenProperties, Lengths DEF IInv, TypeOK
  <2>4. LoadsGrow
    BY <2>a, <2>3, Lengths DEF LoadsGrow, IInv, TypeOK
  <2>5. LoadsInv'
    <3>1. \A l \in DOMAIN loads : ~(Underway(l) /\ Mine(l))
      BY <1>5, Lengths DEF IInv, LoadsInv
    <3>2. loading' # 0 => loads'[loading'].at # "failed" /\ Mine(loading)'
      BY <2>a, <2>3 DEF Mine
    <3>3. LoadsAreShared'
      BY <2>a, <2>3, <3>1, <3>2 DEF IInv, LoadsInv, LoadsAreShared, Underway, Mine
    <3>4. ASSUME NEW l \in DOMAIN loads'
          PROVE  /\ loads'[l].source <= source
                 /\ Underway(l)' /\ Mine(l)' => loading' = l
                 /\ Mine(l)' /\ loads'[l].model # None => loads'[l].model = custom
      <4>1. CASE l \in DOMAIN loads
        BY <2>3, <3>1, <4>1 DEF IInv, LoadsInv, Underway, Mine
      <4>2. CASE l = loading'
        BY <2>a, <2>3, <4>2 DEF IInv, TypeOK
      <4> QED
        BY <2>3, <4>1, <4>2
    <3> QED
      BY <1>5, <3>3, <3>4 DEF LoadsInv
  <2> SUFFICES ASSUME NEW check, check = [asking EXCEPT !.at = "loading", !.load = loading']
               PROVE  /\ check \in CheckRecord'
                      /\ check.at \in {"detecting", "loading"} /\ check.for = asking.for
                      /\ check.file = asking.file /\ check.trust = asking.trust
                      /\ CheckFits(c, check)'
    BY <2>1, <2>4, <2>5
  <2>6. /\ check \in CheckRecord' /\ check.at = "loading" /\ check.for = asking.for
        /\ check.file = asking.file /\ check.trust = asking.trust /\ check.load = loading'
        /\ check.read = asking.read
    <3>1. 0 .. Len(loads) \subseteq 0 .. Len(loads') /\ loading' \in 0 .. Len(loads')
      BY <2>3, Lengths DEF IInv
    <3> QED
      BY <3>1 DEF CheckRecord
  <2>7. generation' = generation
    <3>1. checks' = [checks EXCEPT ![c] = check]
      BY <2>1
    <3>2. Len(loads') \in Nat /\ Len(loads) <= Len(loads')
      BY <2>3, Lengths DEF IInv
    <3>3. TypeOK /\ check \in CheckRecord'
      BY <2>6 DEF IInv
    <3> QED
      BY <3>1, <3>2, <3>3, GoesOn
  <2>8. loads'[check.load].source = source /\ check.load # 0
    BY <2>a, <2>3, <2>6, Lengths DEF IInv
  <2>9. CheckFits(c, check)'
    BY <1>0, <2>6, <2>7, <2>8 DEF CheckFits, Newest
  <2> QED
    BY <2>6, <2>9
<1> QED
  BY <1>3, <1>4, <1>5

LEMMA LooksUpKeeps ==
  ASSUME IInv, NEW c \in DOMAIN checks, LooksUp(c)
  PROVE  IInv'
<1>1. /\ checks[c].at = "lookup" /\ EnsureDetector(c, checks[c]) /\ checks[c] \in CheckRecord
      /\ UNCHANGED <<held, custom, detector, source, takes, trust, mounted, note, out>>
      /\ CheckFits(c, checks[c])
  BY ChecksAreTyped DEF LooksUp
<1>2. checks[c].file # None /\ held.file # None
  BY <1>1 DEF CheckFits
<1>3. /\ LoadsGrow /\ LoadsInv' /\ status' \in {"idle", "working"}
      /\ \E check \in CheckRecord' :
              /\ checks' = [checks EXCEPT ![c] = check]
              /\ check.at \in {"detecting", "loading"} /\ check.for = checks[c].for
              /\ check.file = checks[c].file /\ check.trust = checks[c].trust
              /\ CheckFits(c, check)'
  BY <1>1, <1>2, EnsureDetectorKeeps
<1> SUFFICES ASSUME NEW check \in CheckRecord', checks' = [checks EXCEPT ![c] = check],
                    check.at \in {"detecting", "loading"}, check.for = checks[c].for,
                    check.file = checks[c].file, check.trust = checks[c].trust,
                    CheckFits(c, check)'
             PROVE  IInv'
  BY <1>3
<1>4. Newest(c) => Stands(check) /\ (Answering(check) => Fresh(check.trust))
  <2>1. Newest(c) => Stands(checks[c]) /\ (Answering(checks[c]) => Fresh(checks[c].trust))
    BY ChecksAreTyped
  <2> QED
    BY <1>1, <2>1 DEF Stands, Answering
<1>5. Len(loads') \in Nat
  BY <1>3, LenProperties DEF LoadsGrow
<1>6. OutInv' /\ ReadByTheModelInUse' /\ TrustInv'
  BY <1>1, <1>3, <1>4, <1>5, QuietOut DEF LoadsGrow
<1> QED
  BY <1>1, <1>3, <1>6, MovesKeeps DEF LoadsGrow, IInv, TypeOK

LEMMA PressedIs ==
  ASSUME IInv, NEW i \in DOMAIN out, out[i].what = "markOffer",
         out' = [out EXCEPT ![i] = [out[i] EXCEPT !.what = "pressedOffer"]]
  PROVE  /\ out' \in Seq(ItemRecord) /\ DOMAIN out' = DOMAIN out
         /\ out'[i].what = "pressedOffer" /\ out'[i].of = out[i].of /\ out'[i].read = out[i].read
         /\ \A j \in DOMAIN out : j # i => out'[j] = out[j]
         /\ Cards' = Cards /\ \A j \in Cards : out'[j] = out[j]
<1> SUFFICES ASSUME NEW item, item = [out[i] EXCEPT !.what = "pressedOffer"]
             PROVE  /\ out' \in Seq(ItemRecord) /\ DOMAIN out' = DOMAIN out
                    /\ out'[i].what = "pressedOffer" /\ out'[i].of = out[i].of
                    /\ out'[i].read = out[i].read
                    /\ \A j \in DOMAIN out : j # i => out'[j] = out[j]
                    /\ Cards' = Cards /\ \A j \in Cards : out'[j] = out[j]
  OBVIOUS
<1>1. /\ item \in ItemRecord /\ item.what = "pressedOffer" /\ item.of = out[i].of
      /\ item.read = out[i].read
  BY Lengths DEF ItemRecord, IInv
<1>2. out' = [out EXCEPT ![i] = item] /\ out \in Seq(ItemRecord) /\ i \in 1 .. Len(out)
  BY Lengths DEF IInv, TypeOK
<1>3. /\ out' \in Seq(ItemRecord) /\ DOMAIN out' = DOMAIN out /\ out'[i] = item
      /\ \A j \in DOMAIN out : j # i => out'[j] = out[j]
  BY <1>1, <1>2, ExceptSeq, LenProperties
<1>4. Cards' = Cards /\ \A j \in Cards : out'[j] = out[j]
  BY <1>1, <1>3 DEF Cards, Card
<1> QED
  BY <1>1, <1>3, <1>4

\* An offer is pressed: it stands below the verdict of the newest check, which is
\* over and goes on.
LEMMA PressMarkKeeps ==
  ASSUME IInv, NEW i \in DOMAIN out, PressMark(i)
  PROVE  IInv'
<1> SUFFICES ASSUME NEW c, c = out[i].of PROVE IInv'
  OBVIOUS
<1>1. /\ out[i].what = "markOffer" /\ EnsureDetector(c, Wants(c, "offered"))
      /\ UNCHANGED <<held, custom, detector, source, takes, trust, mounted, note>>
      /\ out' = [out EXCEPT ![i] = [out[i] EXCEPT !.what = "pressedOffer"]]
  BY DEF PressMark
<1>2. c \in DOMAIN checks /\ Newest(c) /\ c # 0
  BY <1>1, Lengths DEF IInv, OutInv, Newest, ItemRecord
<1>3. /\ checks[c].at = "ended" /\ checks[c].file # None /\ Stands(checks[c])
      /\ \E j \in Cards : out[j].what = "verdict"
  BY <1>1, <1>2, ChecksAreTyped DEF Stands
<1>4. held.file # None
  BY <1>3, <1>2, ChecksAreTyped DEF CheckFits
<1>5. /\ LoadsGrow /\ LoadsInv' /\ status' \in {"idle", "working"}
      /\ \E check \in CheckRecord' :
              /\ checks' = [checks EXCEPT ![c] = check]
              /\ check.at \in {"detecting", "loading"} /\ check.for = "offered"
              /\ check.file = checks[c].file /\ CheckFits(c, check)'
  <2> SUFFICES ASSUME NEW asking, asking = Wants(c, "offered")
               PROVE  /\ LoadsGrow /\ LoadsInv' /\ status' \in {"idle", "working"}
                      /\ \E check \in CheckRecord' :
                           /\ checks' = [checks EXCEPT ![c] = check]
                           /\ check.at \in {"detecting", "loading"} /\ check.for = asking.for
                           /\ check.file = asking.file /\ check.trust = asking.trust
                           /\ CheckFits(c, check)'
    <3>1. Wants(c, "offered").for = "offered" /\ Wants(c, "offered").file = checks[c].file
      BY <1>2, ChecksAreTyped DEF Wants, CheckRecord
    <3> QED
      BY <3>1
  <2>1. /\ asking \in CheckRecord /\ asking.file = checks[c].file
        /\ asking.load = checks[c].load /\ asking.read = checks[c].read
    BY <1>2, ChecksAreTyped DEF Wants, CheckRecord
  <2> QED
    BY <1>1, <1>2, <1>3, <1>4, <2>1, EnsureDetectorKeeps
<1> SUFFICES ASSUME NEW check \in CheckRecord', checks' = [checks EXCEPT ![c] = check],
                    check.at \in {"detecting", "loading"}, check.for = "offered",
                    check.file = checks[c].file, CheckFits(c, check)'
             PROVE  IInv'
  BY <1>5
<1>6. /\ generation' = generation /\ generation # 0 /\ checks'[generation'] = check
      /\ DOMAIN checks' = DOMAIN checks
  <2>1. Len(loads') \in Nat
    BY <1>5, LenProperties DEF LoadsGrow
  <2>2. generation' = generation /\ DOMAIN checks' = DOMAIN checks
    BY <1>2, <1>5, <2>1, GoesOn DEF LoadsGrow, IInv
  <2> QED
    BY <1>2, <2>2 DEF Newest
<1>7. /\ out' \in Seq(ItemRecord) /\ DOMAIN out' = DOMAIN out
      /\ out'[i].what = "pressedOffer" /\ out'[i].of = out[i].of /\ out'[i].read = out[i].read
      /\ \A j \in DOMAIN out : j # i => out'[j] = out[j]
      /\ Cards' = Cards /\ \A j \in Cards : out'[j] = out[j]
  BY <1>1, PressedIs
<1>9. /\ \A k : Newest(k)' <=> Newest(k)
      /\ \A judged : Fresh(judged) => Fresh(judged)'
  BY <1>1, <1>6 DEF Newest, Fresh
<1>10. OutInv'
  <2>1. \A j \in DOMAIN out' : out'[j].what # "mark" => Newest(out[j].of)'
    <3> SUFFICES ASSUME NEW j \in DOMAIN out, out'[j].what # "mark" PROVE Newest(out[j].of)'
      BY <1>7
    <3>1. out'[j].of = out[j].of /\ out[j].what # "mark"
      BY <1>1, <1>7
    <3> QED
      BY <1>9, <3>1 DEF IInv, OutInv, Newest
  <2>2. \A j \in DOMAIN out' : out'[j].what # "markOffer"
    <3> SUFFICES ASSUME NEW j \in DOMAIN out, out'[j].what = "markOffer" PROVE FALSE
      BY <1>7
    <3>1. j # i /\ out'[j] = out[j]
      BY <1>7
    <3> QED
      BY <1>1, <3>1 DEF IInv, OutInv
  <2>3. Stands(checks[generation])'
    <3>1. \E j \in Cards' : out'[j].what = "verdict"
      BY <1>3, <1>7
    <3> QED
      BY <1>6, <2>2, <3>1 DEF Stands
  <2>4. \A j, k \in Cards' : j = k
    BY <1>7 DEF IInv, OutInv
  <2> QED
    BY <1>1, <1>4, <2>1, <2>2, <2>3, <2>4 DEF OutInv
<1>11. ReadByTheModelInUse'
  BY <1>1, <1>7, <1>9 DEF IInv, ReadByTheModelInUse
<1>12. TrustInv'
  BY <1>1, <1>6, <1>7, <1>9 DEF IInv, TrustInv, Answering
<1> QED
  BY <1>1, <1>2, <1>5, <1>7, <1>10, <1>11, <1>12, MovesKeeps DEF LoadsGrow, IInv, TypeOK

(***************************************************************************)
(* The newest check shows something new: one card, and what it offers      *)
(* below it.                                                               *)
(***************************************************************************)
LEMMA CardThenRest ==
  ASSUME NEW S, NEW card \in S, NEW rest \in Seq(S)
  PROVE  /\ <<card>> \o rest \in Seq(S)
         /\ DOMAIN (<<card>> \o rest) = 1 .. 1 + Len(rest) /\ Len(rest) \in Nat
         /\ (<<card>> \o rest)[1] = card
         /\ \A i \in DOMAIN (<<card>> \o rest) :
              i = 1 \/ (i - 1 \in DOMAIN rest /\ (<<card>> \o rest)[i] = rest[i - 1])
<1>1. <<card>> \in Seq(S) /\ Len(<<card>>) = 1 /\ <<card>>[1] = card
  OBVIOUS
<1>2. Len(rest) \in Nat /\ DOMAIN rest = 1 .. Len(rest)
  BY LenProperties
<1> QED
  BY <1>1, <1>2, ConcatProperties, LenProperties

\* What may stand below a card: an anchor that was not read, or the mark of a file
\* with no proof.
Below(rest, c, check, card) ==
  /\ Len(rest) <= 1
  /\ \A i \in DOMAIN rest :
       /\ rest[i].of = c /\ rest[i].read = None /\ rest[i].what \in {"anchorOffer", "markOffer"}
       /\ rest[i].what = "markOffer" => check.at = "ended" /\ card.what = "verdict"

LEMMA ShowsKeeps ==
  ASSUME IInv, NEW c \in DOMAIN checks, Newest(c), checks[c].file # None,
         NEW check \in CheckRecord, checks' = [checks EXCEPT ![c] = check],
         check.file = checks[c].file, check.load = checks[c].load,
         check.read = checks[c].read \/ (check.read = custom /\ custom # None),
         check.at \in {"lookup", "detecting", "ended"},
         check.at = "detecting" => check.read # None,
         check.at = "lookup" => check.for = "verdict",
         Answering(check) => Fresh(check.trust),
         UNCHANGED <<held, model, loads, takes, trust, mounted, note>>,
         status' \in {"idle", "working"},
         NEW card \in ItemRecord, NEW rest \in Seq(ItemRecord), out' = <<card>> \o rest,
         card.of = c, card.read \in Builds => card.read = custom,
         card.what \in {"pending", "verdict", "error"},
         card.what # "error" => Fresh(card.trust),
         check.at # "ended" => card.what = IF check.for = "verdict" THEN "pending" ELSE "verdict",
         Below(rest, c, check, card)
  PROVE  IInv'
<1>1. /\ out' \in Seq(ItemRecord) /\ 1 \in DOMAIN out' /\ out'[1] = card
      /\ \A i \in DOMAIN out' : i = 1 \/ (i - 1 \in DOMAIN rest /\ out'[i] = rest[i - 1])
      /\ DOMAIN out' \subseteq Int /\ DOMAIN rest \subseteq {1}
  <2>1. Len(rest) \in {0, 1} /\ DOMAIN rest = 1 .. Len(rest)
    BY LenProperties DEF Below
  <2> QED
    BY <2>1, CardThenRest
<1>2. /\ generation' = generation /\ generation # 0 /\ checks'[generation'] = check
      /\ DOMAIN checks' = DOMAIN checks /\ \A k : Newest(k)' <=> Newest(k)
      /\ \A judged : Fresh(judged) => Fresh(judged)'
  <2>1. c \in 1 .. generation /\ c = generation
    BY Lengths DEF IInv, Newest
  <2>2. checks'[c] = check
    OBVIOUS
  <2>3. generation' = generation /\ DOMAIN checks' = DOMAIN checks /\ \A k : Newest(k)' <=> Newest(k)
    BY SameNumber
  <2>4. \A judged : Fresh(judged) => Fresh(judged)'
    BY DEF Fresh
  <2> QED
    BY <2>1, <2>2, <2>3, <2>4
<1>3. Cards' = {1}
  <2>1. ASSUME NEW i \in DOMAIN out', i # 1 PROVE ~Card(i)'
    BY <1>1, <2>1 DEF Card, Below
  <2> QED
    BY <1>1, <2>1 DEF Cards, Card
<1>4. held.file # None
  BY ChecksAreTyped DEF CheckFits
<1>5. OutInv'
  <2>1. ASSUME NEW i \in DOMAIN out' PROVE out'[i].of = c
    BY <1>1 DEF Below
  <2>2. ASSUME NEW i \in DOMAIN out', NEW j \in DOMAIN out', out'[i].what = "markOffer",
               out'[j].what = "markOffer"
        PROVE  i = j
    BY <1>1, <2>2 DEF Below
  <2>3. Stands(checks[generation])'
    <3>1. ASSUME NEW i \in DOMAIN out', out'[i].what = "markOffer"
          PROVE  check.at = "ended" /\ out'[1].what = "verdict"
      BY <1>1, <3>1 DEF Below
    <3>2. check.at \in {"lookup", "detecting", "ended"} /\ 1 \in Cards' /\ out'[1] = card
          /\ check.file # None
      BY <1>1, <1>3
    <3> QED
      BY <1>2, <3>1, <3>2 DEF Stands
  <2> QED
    BY <1>2, <1>3, <1>4, <2>1, <2>2, <2>3 DEF OutInv
<1>6. ReadByTheModelInUse'
  BY <1>1, ConstantsOK DEF ReadByTheModelInUse, model, Below
<1>7. TrustInv'
  <2>1. \A i \in DOMAIN out' : out'[i].what \in {"pending", "verdict"} => Fresh(out[i].trust)'
    <3> SUFFICES ASSUME NEW i \in DOMAIN out', out'[i].what \in {"pending", "verdict"}
                 PROVE  Fresh(out[i].trust)'
      OBVIOUS
    <3>1. out'[i] = card
      BY <1>1 DEF Below
    <3>2. Fresh(card.trust)
      BY <3>1
    <3> QED
      BY <3>1, <3>2 DEF Fresh
  <2> QED
    BY <1>2, <2>1 DEF IInv, TrustInv, Fresh
<1>8. CheckFits(c, check)'
  BY <1>2, <1>4, ChecksAreTyped DEF CheckFits, model
<1> QED
  BY <1>1, <1>5, <1>6, <1>7, <1>8, StaysKeeps DEF IInv, TypeOK

LEMMA ItemsOf ==
  ASSUME IInv, NEW c \in DOMAIN checks,
         NEW what \in {"pending", "verdict", "error", "anchorOffer", "markOffer", "pressedOffer", "mark"},
         NEW read \in Builds \cup {None, "supplied"}
  PROVE  /\ Item(what, c, read) \in ItemRecord
         /\ Item(what, c, read).what = what /\ Item(what, c, read).of = c
         /\ Item(what, c, read).read = read /\ Item(what, c, read).trust = checks[c].trust
BY Lengths DEF Item, ItemRecord, CheckRecord, IInv

LEMMA AnchorOfferIs ==
  ASSUME IInv, NEW c \in DOMAIN checks
  PROVE  /\ AnchorOffer(c) \in Seq(ItemRecord) /\ Len(AnchorOffer(c)) <= 1
         /\ \A i \in DOMAIN AnchorOffer(c) :
              /\ AnchorOffer(c)[i].of = c /\ AnchorOffer(c)[i].read = None
              /\ AnchorOffer(c)[i].what = "anchorOffer"
<1> DEFINE offer == Item("anchorOffer", c, None)
<1>1. offer \in ItemRecord /\ offer.what = "anchorOffer" /\ offer.of = c /\ offer.read = None
  BY ItemsOf
<1>2. AnchorOffer(c) = <<offer>> \/ AnchorOffer(c) = << >>
  BY DEF AnchorOffer
<1> HIDE DEF offer
<1>3. /\ <<offer>> \in Seq(ItemRecord) /\ Len(<<offer>>) = 1 /\ DOMAIN <<offer>> = {1}
      /\ <<offer>>[1] = offer
      /\ << >> \in Seq(ItemRecord) /\ Len(<< >>) = 0 /\ DOMAIN << >> = {}
  BY <1>1
<1>4. CASE AnchorOffer(c) = <<offer>>
  BY <1>1, <1>3, <1>4
<1>5. CASE AnchorOffer(c) = << >>
  BY <1>3, <1>5
<1> QED
  BY <1>2, <1>4, <1>5

\* A card with the offer of an anchor below it ends the check.
LEMMA AnswerKeeps ==
  ASSUME IInv, NEW c \in DOMAIN checks, Newest(c), checks[c].file # None,
         NEW what \in {"verdict", "error"}, NEW read \in Builds \cup {None, "supplied"},
         NEW rest \in Seq(ItemRecord), Len(rest) <= 1,
         \A i \in DOMAIN rest :
           /\ rest[i].of = c /\ rest[i].read = None /\ rest[i].what \in {"anchorOffer", "markOffer"}
           /\ rest[i].what = "markOffer" => what = "verdict",
         what = "verdict" => Fresh(checks[c].trust), read \in Builds => read = custom,
         out' = <<Item(what, c, read)>> \o rest, status' = "idle", Goes(c, "ended"),
         UNCHANGED <<held, model, loads, takes, trust, mounted, note>>
  PROVE  IInv'
<1> SUFFICES ASSUME NEW check, check = [checks[c] EXCEPT !.at = "ended"],
                    NEW card, card = Item(what, c, read)
             PROVE  IInv'
  OBVIOUS
<1>1. /\ check \in CheckRecord /\ check.at = "ended" /\ check.file = checks[c].file
      /\ check.read = checks[c].read /\ check.load = checks[c].load
      /\ checks' = [checks EXCEPT ![c] = check]
  <2>1. checks[c] \in CheckRecord
    BY ChecksAreTyped
  <2> QED
    BY <2>1 DEF CheckRecord, Goes
<1>2. card \in ItemRecord /\ card.what = what /\ card.of = c /\ card.read = read
      /\ card.trust = checks[c].trust
  BY ItemsOf
<1>3. ~Answering(check)
  BY <1>1 DEF Answering
<1>4. /\ card.what # "error" => Fresh(card.trust)
      /\ card.what \in {"pending", "verdict", "error"} /\ check.at \in {"lookup", "detecting", "ended"}
      /\ Below(rest, c, check, card)
      /\ check.at # "detecting" /\ check.at # "lookup" /\ (card.read \in Builds => card.read = custom)
      /\ out' = <<card>> \o rest /\ status' \in {"idle", "working"}
  BY <1>1, <1>2 DEF Below
<1>5. /\ check.read = checks[c].read \/ (check.read = custom /\ custom # None)
      /\ check.at = "detecting" => check.read # None
      /\ check.at = "lookup" => check.for = "verdict"
      /\ Answering(check) => Fresh(check.trust)
      /\ check.at # "ended" => card.what = IF check.for = "verdict" THEN "pending" ELSE "verdict"
      /\ check \in CheckRecord /\ card \in ItemRecord /\ checks' = [checks EXCEPT ![c] = check]
      /\ check.file = checks[c].file /\ check.load = checks[c].load /\ card.of = c
  BY <1>1, <1>2, <1>3
<1> QED
  BY <1>4, <1>5, ShowsKeeps

LEMMA JudgedKeeps ==
  ASSUME IInv, NEW c \in DOMAIN checks, Judged(c)
  PROVE  IInv'
<1>1. /\ checks[c].at = "judging" /\ checks[c].file # None
      /\ UNCHANGED <<held, model, loads, takes, trust, mounted, note>>
      /\ Newest(c) => checks[c].for = "verdict" /\ Fresh(checks[c].trust)
  BY ChecksAreTyped DEF Judged, CheckFits, Stands, Answering
<1>2. CASE Outdated(c)
  BY <1>1, <1>2, OutdatedKeeps
<1>3. CASE AnswersAtOnce(c)
  <2> DEFINE read == IF checks[c].detection /\ checks[c].file \in Declares THEN "supplied" ELSE None
  <2>1. /\ Newest(c) /\ out' = <<Item("verdict", c, read)>> \o AnchorOffer(c)
        /\ status' = "idle" /\ Goes(c, "ended")
    BY <1>3 DEF AnswersAtOnce, Shows
  <2>2. read \in {None, "supplied"}
    OBVIOUS
  <2> HIDE DEF read
  <2>3. read \notin Builds
    BY ONLY <2>2, ConstantsOK
  <2> QED
    BY <1>1, <2>1, <2>2, <2>3, AnswerKeeps, AnchorOfferIs
<1>4. CASE ShowsSignature(c)
  <2> SUFFICES ASSUME NEW check, check = [checks[c] EXCEPT !.at = "lookup", !.trust = trust],
                      NEW card, card = Item("pending", c, None)
               PROVE  IInv'
    OBVIOUS
  <2>1. /\ check \in CheckRecord /\ check.at = "lookup" /\ check.file = checks[c].file
        /\ check.read = checks[c].read /\ check.load = checks[c].load /\ check.trust = trust
        /\ check.for = checks[c].for
    <3>1. checks[c] \in CheckRecord /\ trust \in SUBSET {"shipped", "chain"}
      BY ChecksAreTyped DEF IInv, TypeOK
    <3>2. "lookup" \in { "opening", "judging", "lookup", "loading", "detecting", "concluding", "ended" }
      OBVIOUS
    <3> QED
      BY ONLY <3>1, <3>2, check = [checks[c] EXCEPT !.at = "lookup", !.trust = trust] DEF CheckRecord
  <2>2. checks' = [checks EXCEPT ![c] = check] /\ Newest(c) /\ status' = "working"
    BY <1>4, ChecksAreTyped DEF ShowsSignature, CheckRecord
  <2>3. card \in ItemRecord /\ card.what = "pending" /\ card.of = c /\ card.read = None
        /\ card.trust = checks[c].trust
    BY ItemsOf
  <2>4. << >> \in Seq(ItemRecord) /\ out' = <<card>> \o << >>
    <3>1. out' = <<card>> /\ <<card>> \in Seq(ItemRecord)
      BY <1>4, <2>3 DEF ShowsSignature
    <3> QED
      BY <3>1, ConcatEmptySeq
  <2>5. Fresh(check.trust) /\ Below(<< >>, c, check, card) /\ None \notin Builds
    BY <2>1, ConstantsOK DEF Fresh, Below
  <2> QED
    BY <1>1, <2>1, <2>2, <2>3, <2>4, <2>5, ShowsKeeps
<1>5. CASE FindsNoProof(c)
  <2>1. CASE detector # None
    <3> SUFFICES ASSUME NEW check,
                        check = [checks[c] EXCEPT !.at = "detecting", !.for = "mark", !.read = detector],
                        NEW card, card = Item("verdict", c, None)
                 PROVE  IInv'
      OBVIOUS
    <3>1. /\ check \in CheckRecord /\ check.at = "detecting" /\ check.file = checks[c].file
          /\ check.read = custom /\ custom # None /\ check.load = checks[c].load
          /\ check.for = "mark"
      <4>1. checks[c] \in CheckRecord /\ detector \in Builds /\ detector = custom /\ detector # None
        BY <2>1, ChecksAreTyped DEF IInv, TypeOK, LoadsInv
      <4> QED
        BY <4>1 DEF CheckRecord
    <3>2. checks' = [checks EXCEPT ![c] = check] /\ Newest(c) /\ status' \in {"idle", "working"}
      BY <1>5, <2>1, ChecksAreTyped DEF FindsNoProof, CheckRecord, IInv, TypeOK
    <3>3. card \in ItemRecord /\ card.what = "verdict" /\ card.of = c /\ card.read = None
          /\ card.trust = checks[c].trust
      BY ItemsOf
    <3>4. << >> \in Seq(ItemRecord) /\ out' = <<card>> \o << >>
      <4>1. out' = <<card>> /\ <<card>> \in Seq(ItemRecord)
        BY <1>5, <2>1, <3>3 DEF FindsNoProof
      <4> QED
        BY <4>1, ConcatEmptySeq
    <3>5. ~Answering(check) /\ Below(<< >>, c, check, card) /\ None \notin Builds
      BY <3>1, ConstantsOK DEF Answering, Below
    <3> QED
      BY <1>1, <3>1, <3>2, <3>3, <3>4, <3>5, ShowsKeeps
  <2>2. CASE detector = None
    <3> SUFFICES ASSUME NEW offer, offer = Item("markOffer", c, None),
                        NEW card, card = Item("verdict", c, None)
                 PROVE  IInv'
      OBVIOUS
    <3>1. offer \in ItemRecord /\ offer.what = "markOffer" /\ offer.of = c /\ offer.read = None
          /\ card \in ItemRecord
      BY ItemsOf
    <3>2. out' = <<card, offer>> /\ Newest(c) /\ status' = "idle" /\ Goes(c, "ended")
      BY <1>5, <2>2 DEF FindsNoProof
    <3>3. <<offer>> \in Seq(ItemRecord) /\ Len(<<offer>>) = 1 /\ DOMAIN <<offer>> = {1}
          /\ <<offer>>[1] = offer
      BY <3>1
    <3>4. out' = <<card>> \o <<offer>>
      BY <3>1, <3>2
    <3>5. /\ \A i \in DOMAIN <<offer>> :
               /\ <<offer>>[i].of = c /\ <<offer>>[i].read = None
               /\ <<offer>>[i].what \in {"anchorOffer", "markOffer"}
          /\ None \notin Builds /\ Len(<<offer>>) <= 1
      BY <3>1, <3>3, ConstantsOK
    <3> QED
      BY <1>1, <3>2, <3>3, <3>4, <3>5, AnswerKeeps
  <2> QED
    BY <2>1, <2>2
<1> QED
  BY <1>2, <1>3, <1>4, <1>5 DEF Judged

LEMMA CheckFailsKeeps ==
  ASSUME IInv, NEW c \in DOMAIN checks, CheckFails(c)
  PROVE  IInv'
<1>1. UNCHANGED <<held, model, loads, takes, trust, mounted, note>> /\ checks[c].file # None
  BY ChecksAreTyped DEF CheckFails, CheckFits
<1>2. CASE Outdated(c)
  BY <1>1, <1>2, OutdatedKeeps
<1>3. CASE /\ Newest(c) /\ out' = <<Item("error", c, None)>>
           /\ status' = "idle" /\ Goes(c, "ended")
  <2> SUFFICES ASSUME NEW card, card = Item("error", c, None) PROVE IInv'
    OBVIOUS
  <2>1. out' = <<card>> \o << >> /\ << >> \in Seq(ItemRecord)
    <3>1. out' = <<card>> /\ <<card>> \in Seq(ItemRecord)
      BY <1>3, ItemsOf
    <3> QED
      BY <3>1, ConcatEmptySeq
  <2>2. None \notin Builds /\ DOMAIN << >> = {} /\ Len(<< >>) <= 1
    BY ConstantsOK
  <2> QED
    BY <1>1, <1>3, <2>1, <2>2, AnswerKeeps
<1> QED
  BY <1>2, <1>3 DEF CheckFails

LEMMA ConcludesKeeps ==
  ASSUME IInv, NEW c \in DOMAIN checks, Concludes(c)
  PROVE  IInv'
<1>1. /\ checks[c].at = "concluding" /\ checks[c].for = "verdict" /\ checks[c].file # None
      /\ UNCHANGED <<held, model, loads, takes, trust, mounted, note>>
  BY ChecksAreTyped DEF Concludes, CheckFits
<1>2. CASE Outdated(c)
  BY <1>1, <1>2, OutdatedKeeps
<1>3. CASE /\ Newest(c) /\ Shows(c, checks[c].read) /\ status' = "idle" /\ Goes(c, "ended")
  <2>1. Fresh(checks[c].trust)
    BY <1>1, <1>3, ChecksAreTyped DEF Answering
  <2>2. checks[c].read \in Builds \cup {None} /\ (checks[c].read \in Builds => checks[c].read = custom)
    BY <1>3, ChecksAreTyped, ConstantsOK DEF CheckRecord, CheckFits
  <2> QED
    BY <1>1, <1>3, <2>1, <2>2, AnswerKeeps, AnchorOfferIs DEF Shows
<1> QED
  BY <1>2, <1>3 DEF Concludes

(***************************************************************************)
(* A mark panel comes below what stands.                                   *)
(***************************************************************************)
LEMMA MarkPanelIs ==
  ASSUME IInv, NEW c \in DOMAIN checks
  PROVE  /\ MarkPanel(c) \in Seq(ItemRecord)
         /\ \A i \in DOMAIN MarkPanel(c) :
              /\ MarkPanel(c)[i].what = "mark" /\ MarkPanel(c)[i].of = c
              /\ MarkPanel(c)[i].read \in Builds /\ Newest(c) => MarkPanel(c)[i].read = custom
<1> DEFINE panel == Item("mark", c, checks[c].read)
<1>1. checks[c].read \in Builds \cup {None} /\ None \notin Builds
      /\ (Newest(c) /\ checks[c].read # None => checks[c].read = custom)
  BY ChecksAreTyped, ConstantsOK DEF CheckRecord, CheckFits
<1>2. /\ panel \in ItemRecord /\ panel.what = "mark" /\ panel.of = c
      /\ panel.read \in Builds /\ Newest(c) => panel.read = custom
  BY <1>1, ItemsOf
<1>3. MarkPanel(c) = <<panel>> \/ MarkPanel(c) = << >>
  BY DEF MarkPanel
<1> HIDE DEF panel
<1>4. /\ <<panel>> \in Seq(ItemRecord) /\ DOMAIN <<panel>> = {1} /\ <<panel>>[1] = panel
      /\ << >> \in Seq(ItemRecord) /\ DOMAIN << >> = {}
  BY <1>2
<1>5. CASE MarkPanel(c) = <<panel>>
  BY <1>2, <1>4, <1>5
<1>6. CASE MarkPanel(c) = << >>
  BY <1>4, <1>6
<1> QED
  BY <1>3, <1>5, <1>6

\* What stands of the output: some of it is gone, none of the cards, none twice.
Standing(before) ==
  /\ before \in Seq(ItemRecord)
  /\ \E from \in [DOMAIN before -> DOMAIN out] :
       /\ \A i \in DOMAIN before : before[i] = out[from[i]]
       /\ \A i, j \in DOMAIN before : from[i] = from[j] => i = j
       /\ \A j \in Cards : \E i \in DOMAIN before : from[i] = j

\* What the output shows then, and of what it showed it before.
Appended(from, before, c) ==
  /\ \A i, j \in DOMAIN before : from[i] = from[j] => i = j
  /\ \A i \in DOMAIN out' :
       \/ i \in DOMAIN before /\ from[i] \in DOMAIN out /\ out'[i] = out[from[i]]
       \/ /\ out'[i].what = "mark" /\ out'[i].of = c
          /\ out'[i].read \in Builds /\ Newest(c) => out'[i].read = custom
  /\ \A i \in Cards' : i \in DOMAIN before /\ from[i] \in Cards /\ out'[i] = out[from[i]]
  /\ \A what : (\E j \in Cards : out[j].what = what) => \E i \in Cards' : out'[i].what = what

LEMMA MarkAppended ==
  ASSUME IInv, NEW c \in DOMAIN checks, NEW before, Standing(before),
         out' = before \o MarkPanel(c)
  PROVE  /\ out' \in Seq(ItemRecord)
         /\ \E from \in [DOMAIN before -> DOMAIN out] : Appended(from, before, c)
<1> SUFFICES ASSUME NEW from \in [DOMAIN before -> DOMAIN out],
                    \A i \in DOMAIN before : before[i] = out[from[i]],
                    \A i, j \in DOMAIN before : from[i] = from[j] => i = j,
                    \A j \in Cards : \E i \in DOMAIN before : from[i] = j
             PROVE  out' \in Seq(ItemRecord) /\ Appended(from, before, c)
  BY DEF Standing
<1>1. before \in Seq(ItemRecord) /\ MarkPanel(c) \in Seq(ItemRecord)
  BY MarkPanelIs DEF Standing
<1>2. /\ Len(before) \in Nat /\ DOMAIN before = 1 .. Len(before)
      /\ Len(MarkPanel(c)) \in Nat /\ DOMAIN MarkPanel(c) = 1 .. Len(MarkPanel(c))
  BY <1>1, LenProperties
<1>3. /\ out' \in Seq(ItemRecord) /\ DOMAIN out' = 1 .. Len(before) + Len(MarkPanel(c))
      /\ \A i \in DOMAIN out' :
           out'[i] = IF i <= Len(before) THEN before[i] ELSE MarkPanel(c)[i - Len(before)]
  BY <1>1, ConcatProperties, LenProperties
<1>4. ASSUME NEW i \in DOMAIN out' \ DOMAIN before
      PROVE  \E j \in DOMAIN MarkPanel(c) : out'[i] = MarkPanel(c)[j]
  BY <1>2, <1>3, <1>4
<1>5. DOMAIN before \subseteq DOMAIN out' /\ \A i \in DOMAIN before : out'[i] = before[i]
  BY <1>2, <1>3
<1>6. ASSUME NEW i \in DOMAIN out'
      PROVE  \/ i \in DOMAIN before /\ from[i] \in DOMAIN out /\ out'[i] = out[from[i]]
             \/ /\ out'[i].what = "mark" /\ out'[i].of = c
                /\ out'[i].read \in Builds /\ Newest(c) => out'[i].read = custom
  BY <1>4, <1>5, MarkPanelIs
<1>7. ASSUME NEW i \in Cards' PROVE i \in DOMAIN before /\ from[i] \in Cards /\ out'[i] = out[from[i]]
  BY <1>6 DEF Cards, Card
<1>8. ASSUME NEW what, \E j \in Cards : out[j].what = what
      PROVE  \E i \in Cards' : out'[i].what = what
  <2>1. PICK j \in Cards : out[j].what = what
    BY <1>8
  <2>2. PICK i \in DOMAIN before : from[i] = j
    BY <2>1
  <2>3. out'[i] = out[j] /\ i \in DOMAIN out'
    BY <2>2, <1>5
  <2>4. i \in Cards'
    BY <2>1, <2>3 DEF Cards, Card
  <2> QED
    BY <2>1, <2>3, <2>4
<1> QED
  BY <1>3, <1>6, <1>7, <1>8 DEF Appended

LEMMA AppendsMark ==
  ASSUME IInv, NEW c \in DOMAIN checks, checks[c].at = "concluding",
         NEW before, Standing(before), out' = before \o MarkPanel(c),
         status' \in {"idle", "working"}, Goes(c, "ended"),
         UNCHANGED <<held, model, loads, takes, trust, mounted, note>>
  PROVE  IInv'
<1> SUFFICES ASSUME NEW check, check = [checks[c] EXCEPT !.at = "ended"] PROVE IInv'
  OBVIOUS
<1>1. checks[c] \in CheckRecord
  BY ChecksAreTyped
<1>2. /\ check \in CheckRecord /\ check.at = "ended" /\ check.file = checks[c].file
      /\ check.read = checks[c].read /\ check.load = checks[c].load
      /\ checks' = [checks EXCEPT ![c] = check]
  BY <1>1 DEF CheckRecord, Goes
<1>3. /\ generation' = generation /\ generation # 0 /\ checks'[c] = check
      /\ DOMAIN checks' = DOMAIN checks /\ \A k : Newest(k)' <=> Newest(k)
  <2>1. c \in 1 .. generation /\ generation \in Nat
    BY Lengths DEF IInv
  <2>2. checks'[c] = check
    BY <1>2
  <2>3. generation' = generation /\ DOMAIN checks' = DOMAIN checks /\ \A k : Newest(k)' <=> Newest(k)
    BY <1>2, SameNumber
  <2> QED
    BY <2>1, <2>2, <2>3
<1>4. checks[c].file # None /\ held.file # None
  BY ChecksAreTyped DEF CheckFits
<1>5. out' \in Seq(ItemRecord)
  BY MarkAppended
<1>6. PICK from \in [DOMAIN before -> DOMAIN out] : Appended(from, before, c)
  BY MarkAppended
<1>7. ASSUME NEW i \in DOMAIN out'
      PROVE  \/ i \in DOMAIN before /\ from[i] \in DOMAIN out /\ out'[i] = out[from[i]]
             \/ /\ out'[i].what = "mark" /\ out'[i].of = c
                /\ out'[i].read \in Builds /\ Newest(c) => out'[i].read = custom
  BY <1>6 DEF Appended
<1>8. /\ \A i, j \in DOMAIN before : from[i] = from[j] => i = j
      /\ \A i \in Cards' : i \in DOMAIN before /\ from[i] \in Cards /\ out'[i] = out[from[i]]
      /\ \A what : (\E j \in Cards : out[j].what = what) => \E i \in Cards' : out'[i].what = what
  BY <1>6 DEF Appended
<1>9. OutInv'
  <2>1. \A i \in DOMAIN out' : out'[i].what # "mark" => Newest(out[i].of)'
    BY <1>3, <1>7 DEF IInv, OutInv, Newest
  <2>2. \A i, j \in Cards' : i = j
    BY <1>8 DEF IInv, OutInv
  <2>3. \A i, j \in DOMAIN out' : out'[i].what = "markOffer" /\ out'[j].what = "markOffer" => i = j
    <3> SUFFICES ASSUME NEW i \in DOMAIN out', NEW j \in DOMAIN out', out'[i].what = "markOffer",
                        out'[j].what = "markOffer"
                 PROVE  i = j
      OBVIOUS
    <3>1. /\ i \in DOMAIN before /\ from[i] \in DOMAIN out /\ out[from[i]].what = "markOffer"
          /\ j \in DOMAIN before /\ from[j] \in DOMAIN out /\ out[from[j]].what = "markOffer"
      BY <1>7
    <3>2. from[i] = from[j]
      BY <3>1 DEF IInv, OutInv
    <3> QED
      BY <1>8, <3>1, <3>2
  <2>4. Stands(checks[generation])'
    <3>1. Stands(checks[generation]) /\ generation \in DOMAIN checks
      BY <1>3, Lengths DEF IInv, OutInv
    <3>2. Cards = {} => Cards' = {}
      BY <1>8
    <3>3. \A i \in DOMAIN out' : out'[i].what = "markOffer" =>
            \E j \in DOMAIN out : out[j].what = "markOffer"
      BY <1>7
    <3>4. CASE c = generation
      <4>1. \A i \in DOMAIN out' : out'[i].what # "markOffer"
        BY <3>1, <3>3, <3>4 DEF Stands
      <4> QED
        BY <1>2, <1>3, <3>4, <4>1 DEF Stands
    <3>5. CASE c # generation
      <4>1. checks'[generation] = checks[generation]
        BY <1>2, <3>1, <3>5
      <4>2. checks[generation].at \notin {"opening", "judging", "ended"} =>
              \E i \in Cards' : out'[i].what = IF checks[generation].for = "verdict" THEN "pending" ELSE "verdict"
        <5> DEFINE what == IF checks[generation].for = "verdict" THEN "pending" ELSE "verdict"
        <5>1. checks[generation].at \notin {"opening", "judging", "ended"} =>
                \E i \in Cards : out[i].what = what
          BY <3>1 DEF Stands
        <5> HIDE DEF what
        <5>2. checks[generation].at \notin {"opening", "judging", "ended"} =>
                \E i \in Cards' : out'[i].what = what
          BY <1>8, <5>1
        <5> QED
          BY <5>2 DEF what
      <4>3. ASSUME NEW i \in DOMAIN out', out'[i].what = "markOffer"
            PROVE  /\ checks[generation].at = "ended" /\ checks[generation].file # None
                   /\ \E j \in Cards' : out'[j].what = "verdict"
        <5>1. /\ checks[generation].at = "ended" /\ checks[generation].file # None
              /\ \E j \in Cards : out[j].what = "verdict"
          BY <3>1, <3>3, <4>3 DEF Stands
        <5> QED
          BY <1>8, <5>1
      <4> QED
        BY <1>3, <3>1, <3>2, <4>1, <4>2, <4>3 DEF Stands
    <3> QED
      BY <3>4, <3>5
  <2> QED
    BY <1>4, <2>1, <2>2, <2>3, <2>4 DEF OutInv
<1>10. ReadByTheModelInUse'
  BY <1>3, <1>7 DEF IInv, ReadByTheModelInUse, Newest, model
<1>11. TrustInv'
  <2>1. \A i \in DOMAIN out' : out'[i].what \in {"pending", "verdict"} => Fresh(out[i].trust)'
    BY <1>7 DEF IInv, TrustInv, Fresh
  <2>2. generation \in DOMAIN checks
    BY <1>3, Lengths DEF IInv
  <2>3. Answering(checks'[generation]) => Answering(checks[generation]) /\ checks'[generation] = checks[generation]
    BY <1>2, <1>3, <2>2 DEF Answering
  <2> QED
    BY <1>3, <2>1, <2>3 DEF IInv, TrustInv, Fresh
<1>12. CheckFits(c, check)'
  BY <1>2, <1>3, <1>4, ChecksAreTyped DEF CheckFits, model
<1> QED
  BY <1>2, <1>5, <1>9, <1>10, <1>11, <1>12, StaysKeeps DEF IInv, TypeOK

LEMMA OutStands ==
  ASSUME IInv
  PROVE  Standing(out)
<1> DEFINE from == [i \in DOMAIN out |-> i]
<1>1. from \in [DOMAIN out -> DOMAIN out] /\ \A i \in DOMAIN out : from[i] = i
  OBVIOUS
<1>2. out \in Seq(ItemRecord) /\ Cards \subseteq DOMAIN out
  BY DEF IInv, TypeOK, Cards
<1> HIDE DEF from
<1> QED
  BY <1>1, <1>2 DEF Standing

\* Taking an offer out leaves the cards.
LEMMA RemovedStands ==
  ASSUME IInv
  PROVE  Standing(OfferRemoved)
<1>1. CASE ~Has("pressedOffer")
  BY <1>1, OutStands DEF OfferRemoved
<1>2. CASE Has("pressedOffer")
  <2> DEFINE p == CHOOSE i \in DOMAIN out : out[i].what = "pressedOffer"
             before == SubSeq(out, 1, p - 1)
             after == SubSeq(out, p + 1, Len(out))
  <2>1. p \in DOMAIN out /\ out[p].what = "pressedOffer"
    BY <1>2 DEF Has
  <2>2. OfferRemoved = before \o after
    BY <1>2 DEF OfferRemoved, RemoveAt
  <2>3. out \in Seq(ItemRecord) /\ DOMAIN out = 1 .. Len(out) /\ Len(out) \in Nat
    BY Lengths DEF IInv, TypeOK
  <2> HIDE DEF p
  <2> DEFINE n == Len(out)
             from == [i \in 1 .. n - 1 |-> IF i < p THEN i ELSE i + 1]
  <2>0. p \in 1 .. n /\ n \in Nat
    BY <2>1, <2>3
  <2>4. /\ before \in Seq(ItemRecord) /\ Len(before) = p - 1
        /\ \A i \in 1 .. p - 1 : before[i] = out[i]
    BY <2>0, <2>3, SubSeqProperties
  <2>5. /\ after \in Seq(ItemRecord) /\ Len(after) = n - p
        /\ \A i \in 1 .. n - p : after[i] = out[p + i]
    <3>1. \A i \in p + 1 .. n : out[i] \in ItemRecord
      BY <2>0, <2>3
    <3>2. /\ after \in Seq(ItemRecord)
          /\ Len(after) = IF p + 1 <= n THEN n - (p + 1) + 1 ELSE 0
          /\ \A i \in 1 .. n - (p + 1) + 1 : after[i] = out[(p + 1) + i - 1]
      BY <2>0, <3>1, SubSeqProperties
    <3> HIDE DEF after, n
    <3> QED
      BY <2>0, <3>2
  <2> HIDE DEF before, after
  <2> DEFINE left == before \o after
  <2>6. /\ left \in Seq(ItemRecord) /\ DOMAIN left = 1 .. n - 1
        /\ \A i \in 1 .. n - 1 : left[i] = IF i <= p - 1 THEN before[i] ELSE after[i - (p - 1)]
    <3>1. left \in Seq(ItemRecord) /\ Len(left) = (p - 1) + (n - p)
          /\ \A i \in 1 .. (p - 1) + (n - p) :
               left[i] = IF i <= p - 1 THEN before[i] ELSE after[i - (p - 1)]
      BY <2>4, <2>5, ConcatProperties
    <3>2. (p - 1) + (n - p) = n - 1
      BY <2>0
    <3> HIDE DEF left
    <3> QED
      BY <3>1, <3>2, LenProperties
  <2> HIDE DEF n, left
  <2>7. \A i \in 1 .. n - 1 : left[i] = out[IF i < p THEN i ELSE i + 1]
    <3> SUFFICES ASSUME NEW i \in 1 .. n - 1 PROVE left[i] = out[IF i < p THEN i ELSE i + 1]
      OBVIOUS
    <3>1. CASE i < p
      <4>1. i <= p - 1 /\ i \in 1 .. p - 1
        BY <2>0, <3>1
      <4> QED
        BY <2>4, <2>6, <3>1, <4>1
    <3>2. CASE ~(i < p)
      <4>1. i - (p - 1) \in 1 .. n - p /\ p + (i - (p - 1)) = i + 1 /\ ~(i <= p - 1)
        BY <2>0, <3>2
      <4>2. left[i] = after[i - (p - 1)]
        BY <2>6, <4>1
      <4> QED
        BY <2>5, <3>2, <4>1, <4>2
    <3> QED
      BY <3>1, <3>2
  <2>8. /\ from \in [1 .. n - 1 -> DOMAIN out]
        /\ \A i \in 1 .. n - 1 : from[i] = IF i < p THEN i ELSE i + 1
    BY <2>0, <2>3 DEF n
  <2> HIDE DEF from
  <2>9. \A i \in DOMAIN left : left[i] = out[from[i]]
    BY <2>6, <2>7, <2>8
  <2>10. \A i, j \in DOMAIN left : from[i] = from[j] => i = j
    BY <2>0, <2>6, <2>8
  <2>11. ASSUME NEW j \in Cards PROVE \E i \in DOMAIN left : from[i] = j
    <3>1. j \in 1 .. n /\ j # p
      BY <2>1, <2>3 DEF Cards, Card, n
    <3>2. CASE j < p
      <4>1. j \in DOMAIN left /\ from[j] = j
        BY <2>0, <2>6, <2>8, <3>1, <3>2
      <4> QED
        BY <4>1
    <3>3. CASE j > p
      <4>1. j - 1 \in DOMAIN left /\ from[j - 1] = j
        BY <2>0, <2>6, <2>8, <3>1, <3>3
      <4> QED
        BY <4>1
    <3> QED
      BY <2>0, <3>1, <3>2, <3>3
  <2>12. from \in [DOMAIN left -> DOMAIN out]
    BY <2>6, <2>8
  <2> QED
    BY <2>2, <2>6, <2>9, <2>10, <2>11, <2>12 DEF Standing, left
<1> QED
  BY <1>1, <1>2

LEMMA ShowsMarkKeeps ==
  ASSUME IInv, NEW c \in DOMAIN checks, ShowsMark(c) \/ ShowsOfferedMark(c)
  PROVE  IInv'
<1>1. CASE ShowsMark(c)
  <2>1. status' \in {"idle", "working"}
    BY <1>1 DEF ShowsMark, IInv, TypeOK
  <2> QED
    BY <1>1, <2>1, OutStands, AppendsMark DEF ShowsMark
<1>2. CASE ShowsOfferedMark(c)
  <2>1. CASE Outdated(c)
    BY <1>2, <2>1, OutdatedKeeps DEF ShowsOfferedMark
  <2>2. CASE out' = OfferRemoved \o MarkPanel(c) /\ status' = "idle" /\ Goes(c, "ended")
    BY <1>2, <2>2, RemovedStands, AppendsMark DEF ShowsOfferedMark
  <2> QED
    BY <1>2, <2>1, <2>2 DEF ShowsOfferedMark
<1> QED
  BY <1>1, <1>2

(***************************************************************************)
(* The theorems.                                                           *)
(***************************************************************************)
LEMMA InitOK == Init => IInv
<1> SUFFICES ASSUME Init PROVE IInv
  OBVIOUS
<1>1. /\ loads = << >> /\ checks = << >> /\ takes = << >> /\ out = << >>
      /\ DOMAIN loads = {} /\ DOMAIN checks = {} /\ DOMAIN out = {}
      /\ Len(loads) = 0 /\ generation = 0 /\ loading = 0
  BY DEF Init, generation
<1>2. TypeOK
  BY <1>1, ConstantsOK DEF Init, TypeOK
<1>3. LoadsInv /\ CheckInv /\ OutInv /\ ReadByTheModelInUse
  BY <1>1 DEF Init, LoadsInv, LoadsAreShared, CheckInv, OutInv, Cards, ReadByTheModelInUse
<1>4. TrustInv
  BY <1>1 DEF Init, TrustInv
<1> QED
  BY <1>2, <1>3, <1>4 DEF IInv

LEMMA StepKeeps == IInv /\ [Next]_vars => IInv'
<1> SUFFICES ASSUME IInv, [Next]_vars PROVE IInv'
  OBVIOUS
<1>1. CASE UNCHANGED vars
  BY <1>1, RestsKeeps, QuestionsAreTyped DEF vars, model, IInv, TypeOK
<1>2. CASE Reader
  BY <1>2, TakeKeeps, ResetModelKeeps, SwitchKeeps, PressMarkKeeps DEF Reader
<1>3. CASE ShippedTrust
  BY <1>3, ShippedTrustKeeps
<1>4. ASSUME NEW c \in 1 .. MaxChecks, CheckStep(c) PROVE IInv'
  BY <1>4, OpenedKeeps, JudgedKeeps, CheckFailsKeeps, LooksUpKeeps, DetectorArrivesKeeps,
     DetectedKeeps, ConcludesKeeps, ShowsMarkKeeps DEF CheckStep
<1>5. ASSUME NEW l \in 1 .. MaxLoads, LoadStep(l) PROVE IInv'
  BY <1>5, LoadStepKeeps DEF LoadStep
<1>6. ASSUME NEW t \in 1 .. MaxTakes, TakeStep(t) PROVE IInv'
  BY <1>6, DetectionReadKeeps, HashedKeeps DEF TakeStep
<1>7. ASSUME NEW c \in DOMAIN checks, FrameRead(c) PROVE IInv'
  BY <1>7, DetectedKeeps
<1> QED
  BY <1>1, <1>2, <1>3, <1>4, <1>5, <1>6, <1>7 DEF Next

\* Whatever order the page's continuations run in, its state is the one described
\* above (main.ts, with detector.ts and trust.ts where they call back).
THEOREM Inductive == Spec => []IInv
<1> QED
  BY InitOK, StepKeeps, PTL DEF Spec

\* The page's state is of its type, a detection under way names the model that
\* reads, and no two downloads of one source compete: ensureDetector hands every
\* check the load under way, and a load that fails gives its place back
\* (main.ts, at `loading`).
THEOREM PageIsWellFormed == Spec => []WellFormed
<1>1. IInv => WellFormed
  BY DEF IInv, LoadsInv, WellFormed
<1> QED
  BY <1>1, Inductive, PTL

\* Whatever loads were under way when the reader chose a model, a reading that the
\* newest check shows was made by the model in use (`source` in main.ts).
THEOREM ReadingsAreByTheModelInUse == Spec => []ReadByTheModelInUse
<1>1. IInv => ReadByTheModelInUse
  BY DEF IInv
<1> QED
  BY <1>1, Inductive, PTL

\* Whatever the reader switches while a check waits, a verdict on the page was
\* computed under the switches they see, but for the set that ships with the page
\* and came after it (trust.ts; main.ts, at mountTrust).
THEOREM AnswersAreUnderTrustInUse == Spec => []AnswersUnderTrustInUse
<1>1. IInv => AnswersUnderTrustInUse
  BY DEF IInv, TrustInv, Fresh, AnswersUnderTrustInUse, BeforeShipped
<1> QED
  BY <1>1, Inductive, PTL

(***************************************************************************)
(* The page implements Answers.                                            *)
(***************************************************************************)
about == IF generation = 0 THEN None ELSE checks[generation].file

LEMMA ShownIs ==
  ASSUME IInv
  PROVE  /\ Cards = {} => Shown = [of |-> generation, is |-> "nothing"]
         /\ \A i \in Cards : Shown = [ of |-> generation,
                                       is |-> IF out[i].what = "pending" THEN "signature" ELSE "answer" ]
<1>1. CASE Cards = {}
  BY <1>1 DEF Shown, Cards
<1>2. ASSUME NEW i \in Cards
      PROVE  Shown = [of |-> generation, is |-> IF out[i].what = "pending" THEN "signature" ELSE "answer"]
  <2> DEFINE j == CHOOSE j \in DOMAIN out : Card(j)
  <2>1. j \in Cards /\ i \in DOMAIN out /\ Card(i)
    BY <1>2 DEF Cards
  <2>2. j = i /\ out[i].of = generation
    BY <1>2, <2>1 DEF IInv, OutInv, Newest, Card
  <2>3. Shown = [of |-> out[j].of, is |-> IF out[j].what = "pending" THEN "signature" ELSE "answer"]
    BY <2>1 DEF Shown
  <2> HIDE DEF j
  <2> QED
    BY <2>2, <2>3
<1> QED
  BY <1>1, <1>2

LEMMA ShownIsNext ==
  ASSUME IInv'
  PROVE  /\ Cards' = {} => Shown' = [of |-> generation', is |-> "nothing"]
         /\ \A i \in Cards' :
              Shown' = [ of |-> generation',
                         is |-> IF out'[i].what = "pending" THEN "signature" ELSE "answer" ]
<1>1. CASE Cards' = {}
  BY <1>1 DEF Shown, Cards
<1>2. ASSUME NEW i \in Cards'
      PROVE  Shown' = [ of |-> generation',
                        is |-> IF out'[i].what = "pending" THEN "signature" ELSE "answer" ]
  <2> DEFINE j == CHOOSE j \in DOMAIN out' : Card(j)'
  <2>1. j \in Cards' /\ i \in DOMAIN out' /\ Card(i)'
    BY <1>2 DEF Cards
  <2>2. j = i /\ out'[i].of = generation'
    BY <1>2, <2>1 DEF IInv, OutInv, Newest, Card
  <2>3. Shown' = [of |-> out'[j].of, is |-> IF out'[j].what = "pending" THEN "signature" ELSE "answer"]
    BY <2>1 DEF Shown
  <2> HIDE DEF j
  <2> QED
    BY <2>2, <2>3
<1> QED
  BY <1>1, <1>2

\* A question of the page is one of Answers.
LEMMA CheckAsks ==
  ASSUME IInv, IInv', NEW with \in Queries, Check(with)
  PROVE  A!Next
<1>1. checks' = Append(checks, NewCheck(with)) /\ out' = << >>
  BY DEF Check, NewCheck
<1>2. /\ generation' = generation + 1 /\ generation' # 0
      /\ checks'[generation'] = NewCheck(with) /\ NewCheck(with).file = with.file
  <2>1. NewCheck(with).file = with.file
    BY DEF NewCheck
  <2>2. NewCheck(with) \in CheckRecord \cup {NewCheck(with)} /\ checks \in Seq(CheckRecord \cup {NewCheck(with)})
    BY SeqMonotonic DEF IInv, TypeOK
  <2>3. Len(checks') = Len(checks) + 1 /\ checks'[Len(checks) + 1] = NewCheck(with) /\ Len(checks) \in Nat
    <3> DEFINE new == NewCheck(with)
    <3> HIDE DEF new
    <3>1. new \in CheckRecord \cup {new} /\ checks \in Seq(CheckRecord \cup {new})
      BY <2>2 DEF new
    <3>2. Len(Append(checks, new)) = Len(checks) + 1 /\ Append(checks, new)[Len(checks) + 1] = new
          /\ Len(checks) \in Nat
      BY <3>1, AppendProperties, LenProperties
    <3> QED
      BY <1>1, <3>2 DEF new
  <2> QED
    BY <2>1, <2>3 DEF generation
<1>3. Cards' = {}
  BY <1>1 DEF Cards
<1>4. about' = with.file /\ with.file \in Files \cup {None}
  BY <1>2 DEF about, Queries
<1>5. Shown' = [of |-> generation', is |-> "nothing"]
  BY <1>3, ShownIsNext
<1>6. A!Ask(with.file)
  BY <1>2, <1>4, <1>5 DEF A!Ask, about
<1> QED
  BY <1>4, <1>6 DEF A!Next

\* The checks are the ones they were, about the files they were about.
FilesStay == DOMAIN checks' = DOMAIN checks /\ \A c \in DOMAIN checks : checks'[c].file = checks[c].file

LEMMA SameQuestion ==
  ASSUME IInv, IInv', FilesStay
  PROVE  generation' = generation /\ about' = about
<1>1. generation \in Nat /\ generation' \in Nat /\ DOMAIN checks = 1 .. generation
      /\ DOMAIN checks' = 1 .. generation'
  BY Lengths, LenProperties DEF IInv, TypeOK, generation
<1>2. generation' = generation
  BY <1>1 DEF FilesStay
<1> QED
  BY <1>1, <1>2 DEF FilesStay, about

\* What the cards say stays.
CardsStay ==
  /\ \A i \in Cards' : \E j \in Cards : out[j].what = out'[i].what
  /\ Cards # {} => Cards' # {}

LEMMA Unchanged ==
  ASSUME IInv, IInv', FilesStay, CardsStay
  PROVE  UNCHANGED A!vars
<1>1. generation' = generation /\ about' = about
  BY SameQuestion
<1>2. Shown' = Shown
  <2>1. CASE Cards' = {}
    <3>1. Cards = {}
      BY <2>1 DEF CardsStay
    <3> QED
      BY <1>1, <2>1, <3>1, ShownIs, ShownIsNext
  <2>2. ASSUME NEW i \in Cards' PROVE Shown' = Shown
    <3>1. PICK j \in Cards : out[j].what = out'[i].what
      BY DEF CardsStay
    <3> QED
      BY <1>1, <3>1, ShownIs, ShownIsNext
  <2> QED
    BY <2>1, <2>2
<1> QED
  BY <1>1, <1>2 DEF A!vars, about

LEMMA SameOut ==
  ASSUME out' = out
  PROVE  CardsStay
BY DEF CardsStay, Cards, Card

LEMMA SameChecks ==
  ASSUME checks' = checks
  PROVE  FilesStay
BY DEF FilesStay

LEMMA OneGoesOn ==
  ASSUME NEW c \in DOMAIN checks, NEW check, checks' = [checks EXCEPT ![c] = check],
         check.file = checks[c].file
  PROVE  FilesStay
BY DEF FilesStay

LEMMA EnsuringStays ==
  ASSUME IInv, NEW c \in DOMAIN checks, NEW asking \in CheckRecord, asking.file = checks[c].file,
         EnsureDetector(c, asking)
  PROVE  FilesStay
<1>1. CASE detector # None
  <2> SUFFICES ASSUME NEW check, check = [asking EXCEPT !.at = "detecting", !.read = detector]
               PROVE  FilesStay
    OBVIOUS
  <2>1. check.file = checks[c].file
    BY DEF CheckRecord
  <2>2. checks' = [checks EXCEPT ![c] = check]
    BY <1>1 DEF EnsureDetector
  <2> QED
    BY <2>1, <2>2, OneGoesOn
<1>2. CASE detector = None
  <2> SUFFICES ASSUME NEW l, NEW check, check = [asking EXCEPT !.at = "loading", !.load = l],
                      checks' = [checks EXCEPT ![c] = check]
               PROVE  FilesStay
    BY <1>2 DEF EnsureDetector
  <2>1. check.file = checks[c].file
    BY DEF CheckRecord
  <2> QED
    BY <2>1, OneGoesOn
<1> QED
  BY <1>1, <1>2

LEMMA GoingStays ==
  ASSUME IInv, NEW c \in DOMAIN checks, NEW stage, Goes(c, stage)
  PROVE  FilesStay
<1> SUFFICES ASSUME NEW check, check = [checks[c] EXCEPT !.at = stage] PROVE FilesStay
  OBVIOUS
<1>1. checks[c] \in CheckRecord
  BY ChecksAreTyped
<1>2. checks' = [checks EXCEPT ![c] = check] /\ check.file = checks[c].file
  BY <1>1 DEF Goes, CheckRecord
<1> QED
  BY <1>2, OneGoesOn

\* The newest check's first card is what Answers shows.
LEMMA CardIsShown ==
  ASSUME IInv, IInv', NEW c \in DOMAIN checks, Newest(c), checks[c].file # None, FilesStay,
         NEW card, NEW rest, out' \in Seq(ItemRecord'), 1 \in DOMAIN out', out'[1] = card,
         \/ card.what = "pending" /\ Cards = {}
         \/ card.what \in {"verdict", "error"} /\ \A i \in Cards : out[i].what = "pending"
  PROVE  A!Next
<1>1. generation' = generation /\ about' = about
  BY SameQuestion
<1>2. about # None /\ generation # 0
  BY Lengths DEF about, Newest, IInv
<1>3. 1 \in Cards'
  BY DEF Cards, Card
<1>4. Shown' = [of |-> generation, is |-> IF card.what = "pending" THEN "signature" ELSE "answer"]
  BY <1>1, <1>3, ShownIsNext
<1>5. CASE card.what = "pending" /\ Cards = {}
  <2>1. Shown.is = "nothing"
    BY <1>5, ShownIs
  <2>2. A!ShowSignature
    BY <1>1, <1>2, <1>4, <1>5, <2>1 DEF A!ShowSignature, about
  <2> QED
    BY <2>2 DEF A!Next
<1>6. CASE card.what \in {"verdict", "error"} /\ \A i \in Cards : out[i].what = "pending"
  <2>1. Shown.is \in {"nothing", "signature"}
    <3>1. CASE Cards = {}
      BY <3>1, ShownIs
    <3>2. ASSUME NEW i \in Cards PROVE Shown.is \in {"nothing", "signature"}
      BY <1>6, ShownIs
    <3> QED
      BY <3>1, <3>2
  <2>2. A!Answer
    BY <1>1, <1>2, <1>4, <1>6, <2>1 DEF A!Answer, about
  <2> QED
    BY <2>2 DEF A!Next
<1> QED
  BY <1>5, <1>6

LEMMA AnswerIsShown ==
  ASSUME IInv, IInv', NEW c \in DOMAIN checks, Newest(c), checks[c].file # None, Goes(c, "ended"),
         checks[c].at \in {"opening", "judging"} \/ (checks[c].at = "concluding" /\ checks[c].for = "verdict"),
         NEW what \in {"verdict", "error"}, NEW read \in Builds \cup {None, "supplied"},
         NEW rest \in Seq(ItemRecord), out' = <<Item(what, c, read)>> \o rest
  PROVE  A!Next
<1> SUFFICES ASSUME NEW card, card = Item(what, c, read) PROVE A!Next
  OBVIOUS
<1>1. card \in ItemRecord /\ card.what = what
  BY ItemsOf
<1>2. 1 \in DOMAIN out' /\ out'[1] = card
  <2>1. /\ DOMAIN (<<card>> \o rest) = 1 .. 1 + Len(rest) /\ Len(rest) \in Nat
        /\ (<<card>> \o rest)[1] = card
    BY <1>1, CardThenRest
  <2> QED
    BY <2>1
<1>3. \A i \in Cards : out[i].what = "pending"
  <2>1. Stands(checks[c])
    BY ChecksAreTyped
  <2> QED
    BY <2>1 DEF Stands, IInv, OutInv
<1>4. out' \in Seq(ItemRecord')
  BY DEF IInv, TypeOK
<1> QED
  BY <1>1, <1>2, <1>3, <1>4, GoingStays, CardIsShown

LEMMA OneCardOut ==
  ASSUME NEW card, card \in ItemRecord, out' = <<card>>
  PROVE  << >> \in Seq(ItemRecord) /\ out' = <<card>> \o << >>
<1>1. <<card>> \in Seq(ItemRecord)
  OBVIOUS
<1> QED
  BY <1>1, ConcatEmptySeq

LEMMA JudgedRefines ==
  ASSUME IInv, IInv', NEW c \in DOMAIN checks, Judged(c)
  PROVE  A!Next \/ UNCHANGED A!vars
<1>1. checks[c].at = "judging" /\ checks[c].file # None
  BY ChecksAreTyped DEF Judged, CheckFits
<1>2. CASE Outdated(c)
  BY <1>2, GoingStays, SameOut, Unchanged DEF Outdated
<1>3. CASE AnswersAtOnce(c)
  <2> DEFINE read == IF checks[c].detection /\ checks[c].file \in Declares THEN "supplied" ELSE None
  <2>1. Newest(c) /\ out' = <<Item("verdict", c, read)>> \o AnchorOffer(c) /\ Goes(c, "ended")
    BY <1>3 DEF AnswersAtOnce, Shows
  <2>2. read \in {None, "supplied"}
    OBVIOUS
  <2> HIDE DEF read
  <2> QED
    BY <1>1, <2>1, <2>2, AnswerIsShown, AnchorOfferIs
<1>4. CASE ShowsSignature(c)
  <2> SUFFICES ASSUME NEW check, check = [checks[c] EXCEPT !.at = "lookup", !.trust = trust],
                      NEW card, card = Item("pending", c, None)
               PROVE  A!Next
    OBVIOUS
  <2>1. checks[c] \in CheckRecord
    BY ChecksAreTyped
  <2>2. checks' = [checks EXCEPT ![c] = check] /\ check.file = checks[c].file
    BY <1>4, <2>1 DEF ShowsSignature, CheckRecord
  <2>3. out' = <<card>> /\ card.what = "pending" /\ Newest(c)
    BY <1>4, ItemsOf DEF ShowsSignature
  <2>4. 1 \in DOMAIN out' /\ out'[1] = card
    BY <2>3
  <2>5. Cards = {}
    BY <1>1, <2>3, ChecksAreTyped DEF Stands
  <2>6. out' \in Seq(ItemRecord')
    BY DEF IInv, TypeOK
  <2> QED
    BY <1>1, <2>2, <2>3, <2>4, <2>5, <2>6, OneGoesOn, CardIsShown
<1>5. CASE FindsNoProof(c)
  <2> SUFFICES ASSUME NEW card, card = Item("verdict", c, None) PROVE A!Next
    OBVIOUS
  <2>1. /\ Newest(c) /\ 1 \in DOMAIN out' /\ out'[1] = card /\ card.what = "verdict"
    BY <1>5, ItemsOf DEF FindsNoProof
  <2>2. FilesStay
    <3>1. CASE detector # None
      <4> SUFFICES ASSUME NEW check,
                          check = [checks[c] EXCEPT !.at = "detecting", !.for = "mark", !.read = detector]
                   PROVE  FilesStay
        OBVIOUS
      <4>1. checks[c] \in CheckRecord
        BY ChecksAreTyped
      <4>2. checks' = [checks EXCEPT ![c] = check] /\ check.file = checks[c].file
        BY <1>5, <3>1, <4>1 DEF FindsNoProof, CheckRecord
      <4> QED
        BY <4>2, OneGoesOn
    <3>2. CASE detector = None
      BY <1>5, <3>2, GoingStays DEF FindsNoProof
    <3> QED
      BY <3>1, <3>2
  <2>3. Cards = {}
    BY <1>1, <2>1, ChecksAreTyped DEF Stands
  <2>4. out' \in Seq(ItemRecord')
    BY DEF IInv, TypeOK
  <2> QED
    BY <1>1, <2>1, <2>2, <2>3, <2>4, CardIsShown
<1> QED
  BY <1>2, <1>3, <1>4, <1>5 DEF Judged

LEMMA EndsRefine ==
  ASSUME IInv, IInv', NEW c \in DOMAIN checks, CheckFails(c) \/ Concludes(c)
  PROVE  A!Next \/ UNCHANGED A!vars
<1>1. checks[c].file # None /\ checks[c].at \in {"opening", "judging", "concluding"}
      /\ checks[c].for = "verdict"
  BY ChecksAreTyped DEF CheckFails, Concludes, CheckFits
<1>2. CASE Outdated(c)
  BY <1>2, GoingStays, SameOut, Unchanged DEF Outdated
<1>3. CASE CheckFails(c) /\ ~Outdated(c)
  <2> SUFFICES ASSUME NEW card, card = Item("error", c, None) PROVE A!Next
    OBVIOUS
  <2>1. Newest(c) /\ out' = <<card>> /\ Goes(c, "ended") /\ card \in ItemRecord
    BY <1>3, ItemsOf DEF CheckFails
  <2>2. << >> \in Seq(ItemRecord) /\ out' = <<card>> \o << >>
    BY <2>1, OneCardOut
  <2> QED
    BY <1>1, <2>1, <2>2, AnswerIsShown
<1>4. CASE Concludes(c) /\ ~Outdated(c)
  <2>1. Newest(c) /\ Shows(c, checks[c].read) /\ Goes(c, "ended")
    BY <1>4 DEF Concludes
  <2>2. checks[c].read \in Builds \cup {None}
    BY ChecksAreTyped DEF CheckRecord
  <2> QED
    BY <1>1, <2>1, <2>2, AnswerIsShown, AnchorOfferIs DEF Shows
<1> QED
  BY <1>2, <1>3, <1>4

LEMMA MarksRefine ==
  ASSUME IInv, IInv', NEW c \in DOMAIN checks, ShowsMark(c) \/ ShowsOfferedMark(c)
  PROVE  UNCHANGED A!vars
<1>1. ASSUME NEW before, Standing(before), out' = before \o MarkPanel(c) PROVE CardsStay
  <2>1. PICK from \in [DOMAIN before -> DOMAIN out] : Appended(from, before, c)
    BY <1>1, MarkAppended
  <2>2. \A i \in Cards' : \E j \in Cards : out[j].what = out'[i].what
    BY <2>1 DEF Appended
  <2>3. \A j \in Cards : \E i \in Cards' : out'[i].what = out[j].what
    BY <2>1 DEF Appended
  <2> QED
    BY <2>2, <2>3 DEF CardsStay
<1>2. FilesStay
  BY GoingStays DEF ShowsMark, ShowsOfferedMark, Outdated
<1>3. CardsStay
  BY <1>1, OutStands, RemovedStands, SameOut DEF ShowsMark, ShowsOfferedMark, Outdated
<1> QED
  BY <1>2, <1>3, Unchanged

LEMMA ReadingsRefine ==
  ASSUME IInv, IInv', NEW c \in DOMAIN checks,
         \/ Opened(c) \/ LooksUp(c) \/ DetectorArrives(c) \/ Detected(c) \/ DetectFails(c) \/ FrameRead(c)
  PROVE  UNCHANGED A!vars
<1>1. checks[c] \in CheckRecord
  BY ChecksAreTyped
<1>2. out' = out
  BY DEF Opened, LooksUp, DetectorArrives, Detected, DetectFails, FrameRead
<1>3. FilesStay
  <2>1. CASE LooksUp(c)
    BY <1>1, <2>1, EnsuringStays DEF LooksUp
  <2>2. CASE FrameRead(c)
    BY <2>2, SameChecks DEF FrameRead
  <2>3. CASE Detected(c)
    BY <2>3, GoingStays DEF Detected
  <2>4. CASE Opened(c)
    <3> SUFFICES ASSUME NEW check, check = [checks[c] EXCEPT !.at = "judging", !.trust = trust]
                 PROVE  FilesStay
      OBVIOUS
    <3>1. checks' = [checks EXCEPT ![c] = check] /\ check.file = checks[c].file
      BY <1>1, <2>4 DEF Opened, CheckRecord
    <3> QED
      BY <3>1, OneGoesOn
  <2>5. CASE DetectFails(c)
    <3> SUFFICES ASSUME NEW check, check = [checks[c] EXCEPT !.at = "concluding", !.read = None]
                 PROVE  FilesStay
      OBVIOUS
    <3>1. checks' = [checks EXCEPT ![c] = check] /\ check.file = checks[c].file
      BY <1>1, <2>5 DEF DetectFails, CheckRecord
    <3> QED
      BY <3>1, OneGoesOn
  <2>6. CASE DetectorArrives(c)
    <3>1. CASE loads[checks[c].load].at = "loaded"
      <4> SUFFICES ASSUME NEW check,
                          check = [checks[c] EXCEPT !.at = "detecting", !.read = loads[checks[c].load].model]
                   PROVE  FilesStay
        OBVIOUS
      <4>1. checks' = [checks EXCEPT ![c].at = "detecting", ![c].read = loads[checks[c].load].model]
        BY <2>6, <3>1 DEF DetectorArrives
      <4>2. checks' = [checks EXCEPT ![c] = check] /\ check.file = checks[c].file
        BY <1>1, <4>1 DEF CheckRecord
      <4> QED
        BY <4>2, OneGoesOn
    <3>2. CASE loads[checks[c].load].at # "loaded"
      BY <2>6, <3>2, GoingStays DEF DetectorArrives, Goes
    <3> QED
      BY <3>1, <3>2
  <2> QED
    BY <2>1, <2>2, <2>3, <2>4, <2>5, <2>6
<1> QED
  BY <1>2, <1>3, SameOut, Unchanged

LEMMA ReaderRefines ==
  ASSUME IInv, IInv', Reader
  PROVE  A!Next \/ UNCHANGED A!vars
<1>1. ASSUME UNCHANGED <<checks, out>> PROVE UNCHANGED A!vars
  BY <1>1, SameChecks, SameOut, Unchanged
<1>2. held \in Queries /\ held' \in Queries
  BY DEF IInv, TypeOK, Queries
<1>3. CheckHeld => A!Next \/ UNCHANGED A!vars
  BY <1>1, <1>2, CheckAsks DEF CheckHeld
<1>4. CASE \E media \in Files \cup {None}, detection \in Detections, m \in Models \cup {None} :
             Take(media, detection, m)
  BY <1>1, <1>2, <1>4, CheckAsks DEF Take
<1>5. CASE ResetModel
  BY <1>3, <1>5 DEF ResetModel
<1>6. CASE (\E s \in Switches : Switch(s)) \/ ReadAnchor
  BY <1>2, <1>6, CheckAsks DEF Switch, ReadAnchor
<1>7. ASSUME NEW i \in DOMAIN out, PressMark(i) PROVE UNCHANGED A!vars
  <2> SUFFICES ASSUME NEW c, c = out[i].of PROVE UNCHANGED A!vars
    OBVIOUS
  <2>1. /\ out[i].what = "markOffer" /\ EnsureDetector(c, Wants(c, "offered"))
        /\ out' = [out EXCEPT ![i] = [out[i] EXCEPT !.what = "pressedOffer"]]
    BY <1>7 DEF PressMark
  <2>2. c \in DOMAIN checks
    BY <2>1, Lengths DEF IInv, ItemRecord
  <2>3. Wants(c, "offered") \in CheckRecord /\ Wants(c, "offered").file = checks[c].file
    BY <2>2, ChecksAreTyped DEF Wants, CheckRecord
  <2>4. FilesStay
    BY <2>1, <2>2, <2>3, EnsuringStays
  <2>5. CardsStay
    BY <2>1, PressedIs DEF CardsStay
  <2> QED
    BY <2>4, <2>5, Unchanged
<1> QED
  BY <1>4, <1>5, <1>6, <1>7 DEF Reader

LEMMA StepRefines ==
  ASSUME IInv, IInv', [Next]_vars
  PROVE  [A!Next]_(A!vars)
<1>1. ASSUME UNCHANGED <<checks, out>> PROVE UNCHANGED A!vars
  BY <1>1, SameChecks, SameOut, Unchanged
<1>2. CASE UNCHANGED vars \/ ShippedTrust
  BY <1>1, <1>2 DEF vars, ShippedTrust
<1>3. CASE Reader
  BY <1>3, ReaderRefines
<1>4. ASSUME NEW c \in DOMAIN checks, CheckStep(c) \/ FrameRead(c) PROVE A!Next \/ UNCHANGED A!vars
  BY <1>4, JudgedRefines, EndsRefine, MarksRefine, ReadingsRefine DEF CheckStep
<1>5. ASSUME NEW l \in 1 .. MaxLoads, LoadStep(l) PROVE UNCHANGED A!vars
  BY <1>1, <1>5 DEF LoadStep, Imported, Loaded, LoadFails
<1>6. ASSUME NEW t \in 1 .. MaxTakes, TakeStep(t) PROVE A!Next \/ UNCHANGED A!vars
  <2>1. held \in Queries /\ held' \in Queries
    BY DEF IInv, TypeOK, Queries
  <2> QED
    BY <1>1, <1>6, <2>1, CheckAsks DEF TakeStep, DetectionRead, Hashed, HashFails, CheckHeld
<1> QED
  BY <1>2, <1>3, <1>4, <1>5, <1>6 DEF Next, CheckStep

\* Every behaviour of the page is one of Answers: each question is about one file,
\* is answered by at most a signature and then one answer, and an answer stands
\* until the next question, whatever older checks do when they come back (the
\* generation checks of main.ts).
THEOREM PageImplementsAnswers == Spec => ImplementsAnswers
<1>1. Init => A!Init
  <2> SUFFICES ASSUME Init PROVE A!Init
    OBVIOUS
  <2>1. IInv /\ generation = 0 /\ Cards = {}
    BY InitOK DEF Init, generation, Cards
  <2> QED
    BY <2>1, ShownIs DEF A!Init
<1>2. IInv /\ IInv' /\ [Next]_vars => [A!Next]_(A!vars)
  BY StepRefines
<1> QED
  BY <1>1, <1>2, Inductive, PTL DEF Spec, ImplementsAnswers, A!Spec
=============================================================================
