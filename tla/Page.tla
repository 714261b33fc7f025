-------------------------------- MODULE Page --------------------------------
(***************************************************************************)
(* The verifier page (web/src/main.ts): one thread, many continuations.    *)
(* The reader hands over files, a detection, a model of their own, and     *)
(* changes whom the page trusts; each starts a check, and every await of a *)
(* check, of a detector load or of a file pick is a step of its own, so    *)
(* that what resumes may find everything changed.                          *)
(*                                                                         *)
(* A file stands for the triple (file, sidecar, manifest store) it is      *)
(* verified with.  What the core answers about it is fixed by three sets:  *)
(* whether it declares a watermark that the core gets as far as looking    *)
(* up, carries no proof at all, or carries an anchor.                      *)
(***************************************************************************)
EXTENDS Integers, Sequences, FiniteSets, SequencesExt

CONSTANTS
  Files,         \* what the reader may ask about
  Declares,      \* those whose watermark the core looks up
  Bare,          \* those with no proof
  Anchored,      \* those with an anchor on a chain the page can read
  Models,        \* models the reader may supply
  Unreadable,    \* those of them whose bytes cannot be read
  Detections,    \* a dropped detection: None, "readable", "unreadable"
  Pinned,        \* the build detector.json pins
  None,
  Switches,      \* trust entries and chains with a switch on the page
  TrustMounted,  \* whether the shipped trust set is in place at the start
  MaxChecks, MaxLoads, MaxTakes    \* bounds

ASSUME PageAssumption ==
  /\ Declares \subseteq Files /\ Bare \subseteq Files /\ Anchored \subseteq Files
  /\ Declares \cap Bare = {} /\ Anchored \cap Bare = {}
  /\ Unreadable \subseteq Models
  /\ Detections \subseteq {None, "readable", "unreadable"}
  /\ Pinned \notin Models /\ None \notin Models \cup Files \cup {Pinned, "supplied", "failed"}
  /\ {"supplied", "failed"} \cap (Models \cup {Pinned}) = {}
  /\ Switches \subseteq {"shipped", "chain"}
  /\ TrustMounted \in BOOLEAN
  /\ MaxChecks \in Nat /\ MaxLoads \in Nat /\ MaxTakes \in Nat

VARIABLES
  held,      \* the file and the detection the reader has handed over
  custom,    \* the model in use: the reader's, or Pinned
  detector,  \* the model of the detector at hand, or None
  loading,   \* the shared load in flight: its place in loads, or 0
  source,    \* bumped whenever the model changes
  loads,     \* every load ever started
  checks,    \* every check ever started; the newest one's number is generation
  takes,     \* every drop or pick that had to wait for its bytes
  trust,     \* the switches that are on
  mounted,   \* whether the shipped trust set has been read
  note,      \* what the status line keeps saying once the verdict is in
  status,    \* "idle" or "working": the status line's data-state
  out        \* the cards and panels in the output, first to last
vars == << held, custom, detector, loading, source, loads, checks, takes,
           trust, mounted, note, status, out >>
model == <<custom, detector, loading, source>>

Builds == Models \cup {Pinned}
generation == Len(checks)
Newest(c) == c = generation

Item(what, c, read) == [what |-> what, of |-> c, read |-> read, trust |-> checks[c].trust]
Has(what) == \E i \in DOMAIN out : out[i].what = what

Init ==
  /\ held = [file |-> None, detection |-> FALSE]
  /\ custom = Pinned
  /\ detector = None
  /\ loading = 0
  /\ source = 0
  /\ loads = <<>>
  /\ checks = <<>>
  /\ takes = <<>>
  /\ trust = IF TrustMounted THEN {"shipped"} ELSE {}
  /\ mounted = TrustMounted
  /\ note = None
  /\ status = "idle"
  /\ out = <<>>

(***************************************************************************)
(* check(), up to its first await.  With no file it only clears the output. *)
(***************************************************************************)
Check(with) ==
  /\ generation < MaxChecks
  /\ out' = <<>>
  /\ checks' = Append(checks,
       [ file |-> with.file, detection |-> with.detection, trust |-> {},
         at |-> IF with.file = None THEN "ended" ELSE "opening",
         for |-> "verdict", load |-> 0, read |-> None ])
  /\ IF with.file = None
     THEN UNCHANGED <<note, status>>
     ELSE /\ note' = IF with.detection THEN "supplied" ELSE None
          /\ status' = "working"

\* The checks that useModel and the reset button start only for a held file.
CheckHeld ==
  IF held.file = None
  THEN /\ status' = "idle"
       /\ UNCHANGED <<out, checks, note>>
  ELSE Check(held)

(***************************************************************************)
(* take(): what the reader dropped or picked.  The file is held at once; a *)
(* detection and a model are read first.                                   *)
(***************************************************************************)
Wait(stage, media, detection, m) ==
  takes' = Append(takes, [at |-> stage, media |-> media, detection |-> detection, model |-> m])

Take(media, detection, m) ==
  /\ Len(takes) < MaxTakes
  /\ <<media, detection, m>> # <<None, None, None>>
  /\ held' = [held EXCEPT !.file = IF media = None THEN @ ELSE media]
  /\ IF detection = None /\ m = None
     THEN Check(held') /\ UNCHANGED takes
     ELSE /\ Wait(IF detection = None THEN "hashing" ELSE "reading", media, detection, m)
          /\ status' = IF detection = None THEN "working" ELSE status
          /\ UNCHANGED <<out, checks, note>>
  /\ UNCHANGED <<custom, detector, loading, source, loads, trust, mounted>>

\* The detection's bytes are here, or turn out not to be a detection.
DetectionRead(t) ==
  LET readable == takes[t].detection = "readable"
      next == IF takes[t].model # None THEN "hashing" ELSE "ended"
  IN
  /\ takes[t].at = "reading"
  /\ held' = [held EXCEPT !.detection = @ \/ readable]
  /\ takes' = [takes EXCEPT ![t].at = next]
  /\ IF next = "hashing"
     THEN status' = "working" /\ UNCHANGED <<out, checks, note>>
     ELSE IF readable \/ takes[t].media # None
     THEN Check(held')
     ELSE status' = "idle" /\ UNCHANGED <<out, checks, note>>
  /\ UNCHANGED <<model, loads, trust, mounted>>

(***************************************************************************)
(* The model in use.                                                       *)
(***************************************************************************)
Use(m) ==
  /\ custom' = m
  /\ detector' = None
  /\ loading' = 0
  /\ source' = source + 1

\* useModel's hash is in: the model is used from now on.
Hashed(t) ==
  /\ takes[t].at = "hashing"
  /\ takes[t].model \notin Unreadable
  /\ takes' = [takes EXCEPT ![t].at = "ended"]
  /\ Use(takes[t].model)
  /\ CheckHeld
  /\ UNCHANGED <<held, loads, trust, mounted>>

\* The model's bytes cannot be read: useModel rejects, and nobody listens.
HashFails(t) ==
  /\ takes[t].at = "hashing"
  /\ takes[t].model \in Unreadable
  /\ takes' = [takes EXCEPT ![t].at = "ended"]
  /\ UNCHANGED <<held, model, loads, checks, trust, mounted, note, status, out>>

\* The button back to the pinned build, hidden unless a model is in use.
ResetModel ==
  /\ custom # Pinned
  /\ Use(Pinned)
  /\ CheckHeld
  /\ UNCHANGED <<held, loads, takes, trust, mounted>>

(***************************************************************************)
(* The trust panels and the chains (web/src/trust.ts).                     *)
(***************************************************************************)
\* The documents that ship with the page are parsed, and the panels drawn.
ShippedTrust ==
  /\ ~mounted
  /\ mounted' = TRUE
  /\ trust' = trust \cup {"shipped"}
  /\ UNCHANGED <<held, model, loads, checks, takes, note, status, out>>

\* Fault: a switch that leaves the verdict on the page as it was.
SwitchQuietly(s) ==
  /\ s = "shipped" => mounted
  /\ trust' = IF s \in trust THEN trust \ {s} ELSE trust \cup {s}
  /\ UNCHANGED <<held, model, loads, checks, takes, mounted, note, status, out>>

\* A switch of the panels: every one of them checks again.
Switch(s) ==
  /\ s = "shipped" => mounted
  /\ trust' = IF s \in trust THEN trust \ {s} ELSE trust \cup {s}
  /\ Check(held)
  /\ UNCHANGED <<held, model, loads, takes, mounted>>

\* The button under an anchor this page has not read.
ReadAnchor ==
  \E i \in DOMAIN out :
    /\ out[i].what = "anchorOffer"
    /\ Newest(out[i].of)
    /\ trust' = trust \cup {"chain"}
    /\ Check(held)
    /\ UNCHANGED <<held, model, loads, takes, mounted>>

(***************************************************************************)
(* Loading the detector.                                                   *)
(***************************************************************************)
Wants(c, for) == [checks[c] EXCEPT !.for = for]

\* ensureDetector(), called by check c, which is `asking` from here on.
EnsureDetector(c, asking) ==
  \/ /\ detector # None
     /\ checks' = [checks EXCEPT ![c] = [asking EXCEPT !.at = "detecting", !.read = detector]]
     /\ UNCHANGED <<loading, loads, status>>
  \/ /\ detector = None
     /\ loading # 0
     /\ checks' = [checks EXCEPT ![c] = [asking EXCEPT !.at = "loading", !.load = loading]]
     /\ UNCHANGED <<loading, loads, status>>
  \/ /\ detector = None
     /\ loading = 0
     /\ Len(loads) < MaxLoads
     /\ loads' = Append(loads, [at |-> "importing", source |-> source, model |-> None])
     /\ loading' = Len(loads')
     /\ checks' = [checks EXCEPT ![c] = [asking EXCEPT !.at = "loading", !.load = loading']]
     /\ status' = "working"

\* The detector's module is imported; which model it fetches is read now.
Imported(l) ==
  /\ loads[l].at = "importing"
  /\ loads' = [loads EXCEPT ![l].at = "fetching", ![l].model = custom]
  /\ status' = "working"
  /\ UNCHANGED <<held, model, checks, takes, trust, mounted, note, out>>

Mine(l) == loads[l].source = source

\* Fault: a load that the reader's pick has made obsolete comes back and
\* replaces it.
LoadedLate(l) ==
  /\ loads[l].at = "fetching"
  /\ loads' = [loads EXCEPT ![l].at = "loaded"]
  /\ detector' = loads[l].model
  /\ UNCHANGED <<held, custom, loading, source, checks, takes, trust, mounted, note, status, out>>

Loaded(l) ==
  /\ loads[l].at = "fetching"
  /\ loads' = [loads EXCEPT ![l].at = "loaded"]
  /\ detector' = IF Mine(l) THEN loads[l].model ELSE detector
  /\ UNCHANGED <<held, custom, loading, source, checks, takes, trust, mounted, note, status, out>>

\* Fault: a failed load stays the one the next check waits for.
LoadFailsForGood(l) ==
  /\ loads[l].at \in {"importing", "fetching"}
  /\ loads' = [loads EXCEPT ![l].at = "failed"]
  /\ note' = "failed"
  /\ status' = "idle"
  /\ UNCHANGED <<held, custom, detector, loading, source, checks, takes, trust, mounted, out>>

LoadFails(l) ==
  /\ loads[l].at \in {"importing", "fetching"}
  /\ loads' = [loads EXCEPT ![l].at = "failed"]
  /\ loading' = IF Mine(l) THEN 0 ELSE loading
  /\ note' = "failed"
  /\ status' = "idle"
  /\ UNCHANGED <<held, custom, detector, source, checks, takes, trust, mounted, out>>

(***************************************************************************)
(* The rest of check(), one action per await.                              *)
(***************************************************************************)
Goes(c, stage) == checks' = [checks EXCEPT ![c].at = stage]

\* A check that finds a newer one stops without a word.
Outdated(c) ==
  /\ ~Newest(c)
  /\ Goes(c, "ended")
  /\ UNCHANGED <<status, out>>

\* offerAnchor(): what stands below a verdict whose anchor was not read.
AnchorOffer(c) ==
  IF checks[c].file \in Anchored /\ "chain" \notin checks[c].trust
  THEN <<Item("anchorOffer", c, None)>> ELSE <<>>

Shows(c, read) == out' = <<Item("verdict", c, read)>> \o AnchorOffer(c)

\* The bytes are here; verdictOf reads the trust of this moment.
Opened(c) ==
  /\ checks[c].at = "opening"
  /\ checks' = [checks EXCEPT ![c].at = "judging", ![c].trust = trust]
  /\ UNCHANGED <<held, model, loads, takes, trust, mounted, note, status, out>>

\* Pass one of a file whose verdict needs no detector.
AnswersAtOnce(c) ==
  /\ Newest(c)
  /\ checks[c].detection \/ checks[c].file \notin Declares \cup Bare
  /\ Shows(c, IF checks[c].detection /\ checks[c].file \in Declares THEN "supplied" ELSE None)
  /\ status' = "idle"
  /\ Goes(c, "ended")

\* Pass one of a proof that declares a watermark: the signature layer is
\* shown, and pass two starts over with the trust of this moment.
ShowsSignature(c) ==
  /\ Newest(c)
  /\ ~checks[c].detection
  /\ checks[c].file \in Declares
  /\ out' = <<Item("pending", c, None)>>
  /\ status' = "working"
  /\ checks' = [checks EXCEPT ![c].at = "lookup", ![c].trust = trust]

\* Pass one of a file with no proof, whose mark a detector may still read:
\* the one at hand does, and one that has to be downloaded is offered.
FindsNoProof(c) ==
  /\ Newest(c)
  /\ ~checks[c].detection
  /\ checks[c].file \in Bare
  /\ IF detector # None
     THEN /\ out' = <<Item("verdict", c, None)>>
          /\ checks' = [checks EXCEPT ![c].at = "detecting", ![c].for = "mark", ![c].read = detector]
          /\ UNCHANGED status
     ELSE /\ out' = <<Item("verdict", c, None), Item("markOffer", c, None)>>
          /\ status' = "idle"
          /\ Goes(c, "ended")

Judged(c) ==
  /\ checks[c].at = "judging"
  /\ Outdated(c) \/ AnswersAtOnce(c) \/ ShowsSignature(c) \/ FindsNoProof(c)
  /\ UNCHANGED <<held, model, loads, takes, trust, mounted, note>>

\* A file that cannot be read, or a core that throws: the error card.
CheckFails(c) ==
  /\ checks[c].at \in {"opening", "judging", "concluding"}
  /\ checks[c].for = "verdict"
  /\ \/ Outdated(c)
     \/ /\ Newest(c)
        /\ out' = <<Item("error", c, None)>>
        /\ status' = "idle"
        /\ Goes(c, "ended")
  /\ UNCHANGED <<held, model, loads, takes, trust, mounted, note>>

\* Pass two asks for the watermark, whether or not anybody still waits for it.
LooksUp(c) ==
  /\ checks[c].at = "lookup"
  /\ EnsureDetector(c, checks[c])
  /\ UNCHANGED <<held, custom, detector, source, takes, trust, mounted, note, out>>

\* The button under a file with no proof: download the detector and look.
PressMark(i) ==
  /\ out[i].what = "markOffer"
  /\ out' = [out EXCEPT ![i].what = "pressedOffer"]
  /\ EnsureDetector(out[i].of, Wants(out[i].of, "offered"))
  /\ UNCHANGED <<held, custom, detector, source, takes, trust, mounted, note>>

\* Fault: nobody tells those who wait that the load failed.
SettledWhenLoaded(l) == loads[l].at = "loaded"

\* The load this check waits for has settled, either way.
Settled(l) == loads[l].at \in {"loaded", "failed"}

DetectorArrives(c) ==
  LET l == loads[checks[c].load] IN
  /\ checks[c].at = "loading"
  /\ Settled(checks[c].load)
  /\ checks' = IF l.at = "loaded"
               THEN [checks EXCEPT ![c].at = "detecting", ![c].read = l.model]
               ELSE [checks EXCEPT ![c].at = "concluding"]
  /\ UNCHANGED <<held, model, loads, takes, trust, mounted, note, status, out>>

\* A frame was read: the status line says so, whoever is being answered.
FrameRead(c) ==
  /\ checks[c].at = "detecting"
  /\ status' = "working"
  /\ UNCHANGED <<held, model, loads, checks, takes, trust, mounted, note, out>>

Detected(c) ==
  /\ checks[c].at = "detecting"
  /\ note' = checks[c].read
  /\ Goes(c, "concluding")
  /\ UNCHANGED <<held, model, loads, takes, trust, mounted, status, out>>

\* Detection throws: the watermark stays unevaluated.
DetectFails(c) ==
  /\ checks[c].at = "detecting"
  /\ checks' = [checks EXCEPT ![c].at = "concluding", ![c].read = None]
  /\ UNCHANGED <<held, model, loads, takes, trust, mounted, note, status, out>>

\* Fault: pass two answers without looking for a newer check.
ConcludesAnyway(c) ==
  /\ checks[c].at = "concluding"
  /\ checks[c].for = "verdict"
  /\ Shows(c, checks[c].read)
  /\ status' = "idle"
  /\ Goes(c, "ended")
  /\ UNCHANGED <<held, model, loads, takes, trust, mounted, note>>

\* Pass two answered.
Concludes(c) ==
  /\ checks[c].at = "concluding"
  /\ checks[c].for = "verdict"
  /\ \/ Outdated(c)
     \/ /\ Newest(c)
        /\ Shows(c, checks[c].read)
        /\ status' = "idle"
        /\ Goes(c, "ended")
  /\ UNCHANGED <<held, model, loads, takes, trust, mounted, note>>

\* markAlone()'s panel: what was read, or that no detector could be had; a
\* detection that throws leaves nothing to say.
MarkPanel(c) ==
  IF checks[c].read # None \/ (checks[c].load # 0 /\ loads[checks[c].load].at = "failed")
  THEN <<Item("mark", c, checks[c].read)>> ELSE <<>>

\* The mark of a file with no proof, read by the detector at hand, is added to
\* the output before the generation is looked at.
ShowsMark(c) ==
  /\ checks[c].at = "concluding"
  /\ checks[c].for = "mark"
  /\ out' = out \o MarkPanel(c)
  /\ status' = IF Newest(c) THEN "idle" ELSE status
  /\ Goes(c, "ended")
  /\ UNCHANGED <<held, model, loads, takes, trust, mounted, note>>

\* The offer is found by its name and taken out, if it is still there.
OfferRemoved ==
  IF Has("pressedOffer")
  THEN RemoveAt(out, CHOOSE i \in DOMAIN out : out[i].what = "pressedOffer")
  ELSE out

\* The mark the reader asked for takes the place of the offer.
ShowsOfferedMark(c) ==
  /\ checks[c].at = "concluding"
  /\ checks[c].for = "offered"
  /\ \/ Outdated(c)
     \/ /\ Newest(c)
        /\ out' = OfferRemoved \o MarkPanel(c)
        /\ status' = "idle"
        /\ Goes(c, "ended")
  /\ UNCHANGED <<held, model, loads, takes, trust, mounted, note>>

-----------------------------------------------------------------------------
(***************************************************************************)
(* Every continuation the page is waiting for.                             *)
(***************************************************************************)
CheckStep(c) ==
  /\ c \in DOMAIN checks
  /\ \/ Opened(c) \/ Judged(c) \/ CheckFails(c)
     \/ LooksUp(c) \/ DetectorArrives(c) \/ Detected(c) \/ DetectFails(c)
     \/ Concludes(c) \/ ShowsMark(c) \/ ShowsOfferedMark(c)

LoadStep(l) ==
  /\ l \in DOMAIN loads
  /\ Imported(l) \/ Loaded(l) \/ LoadFails(l)

TakeStep(t) ==
  /\ t \in DOMAIN takes
  /\ DetectionRead(t) \/ Hashed(t) \/ HashFails(t)

Reader ==
  \/ \E media \in Files \cup {None}, detection \in Detections, m \in Models \cup {None} :
       Take(media, detection, m)
  \/ ResetModel
  \/ \E s \in Switches : Switch(s)
  \/ ReadAnchor
  \/ \E i \in DOMAIN out : PressMark(i)

Next ==
  \/ Reader
  \/ ShippedTrust
  \/ \E c \in 1 .. MaxChecks : CheckStep(c)
  \/ \E l \in 1 .. MaxLoads : LoadStep(l)
  \/ \E t \in 1 .. MaxTakes : TakeStep(t)
  \/ \E c \in DOMAIN checks : FrameRead(c)

\* What a check does by itself: reading the file at hand, the core (whose one call
\* to a network, the chain reader's, is under a timeout), and what follows once
\* the detector it waits for is here or has failed.  A download and a detection
\* are not among them: neither the detector's fetch nor the media events that
\* detector-runtime.ts awaits are under a timeout.
OwnStep(c) ==
  /\ c \in DOMAIN checks
  /\ \/ Opened(c) \/ Judged(c) \/ CheckFails(c) \/ LooksUp(c) \/ DetectorArrives(c)
     \/ Concludes(c) \/ ShowsMark(c) \/ ShowsOfferedMark(c)

\* A check that waits for nothing outside the page goes on; no load, detection or
\* pick need ever settle, and the reader owes nothing.
Fairness == \A c \in 1 .. MaxChecks : WF_vars(OwnStep(c))

Spec == Init /\ [][Next]_vars
FairSpec == Spec /\ Fairness

-----------------------------------------------------------------------------
TakeRecord ==
  { t \in [ at : {"reading", "hashing", "ended"}, media : Files \cup {None},
            detection : Detections \cup {None}, model : Models \cup {None} ] :
      t.at = "hashing" => t.model # None }
LoadRecord ==
  [at : {"importing", "fetching", "loaded", "failed"}, source : Nat, model : Builds \cup {None}]
CheckRecord ==
  [ file : Files \cup {None}, detection : BOOLEAN, trust : SUBSET {"shipped", "chain"},
    at : { "opening", "judging", "lookup", "loading", "detecting", "concluding", "ended" },
    for : {"verdict", "mark", "offered"}, load : 0 .. Len(loads), read : Builds \cup {None} ]
ItemRecord ==
  [ what : {"pending", "verdict", "error", "anchorOffer", "markOffer", "pressedOffer", "mark"},
    of : 1 .. generation, read : Builds \cup {None, "supplied"},
    trust : SUBSET {"shipped", "chain"} ]

\* The state is of its type; a load has read which model it fetches before it
\* is used, a detection under way names the model that reads, and only a model
\* is hashed.
TypeOK ==
  /\ held \in [file : Files \cup {None}, detection : BOOLEAN]
  /\ custom \in Builds
  /\ detector \in Builds \cup {None}
  /\ source \in Nat
  /\ loads \in Seq(LoadRecord) /\ loading \in 0 .. Len(loads)
  /\ checks \in Seq(CheckRecord)
  /\ takes \in Seq(TakeRecord)
  /\ trust \subseteq {"shipped", "chain"} /\ mounted \in BOOLEAN
  /\ note \in Builds \cup {None, "supplied", "failed"}
  /\ status \in {"idle", "working"}
  /\ out \in Seq(ItemRecord)
  /\ \A l \in DOMAIN loads : loads[l].at \in {"fetching", "loaded"} => loads[l].model # None
  /\ \A c \in DOMAIN checks : checks[c].at = "detecting" => checks[c].read # None

\* The cards of the output: what the page says of a file.  A mark panel is
\* not one: see MarkIsOfTheFileShown.
Card(i) == out[i].what \in {"pending", "verdict", "error"}

Shown ==
  IF \E i \in DOMAIN out : Card(i)
  THEN LET i == CHOOSE i \in DOMAIN out : Card(i) IN
       [ of |-> out[i].of,
         is |-> IF out[i].what = "pending" THEN "signature" ELSE "answer" ]
  ELSE [of |-> generation, is |-> "nothing"]

A == INSTANCE Answers WITH
       NoFile <- None,
       question <- generation,
       about <- IF generation = 0 THEN None ELSE checks[generation].file,
       shown <- Shown

\* The page implements Answers: whatever order its continuations run in, what
\* the output says is about the newest file asked, first the signature and
\* then one answer, and nothing replaces that answer but a new question
\* (the generation checks of main.ts).
ImplementsAnswers == A!Spec

\* A watermark reading on the page was made by the model now in use: a pinned
\* load that was under way when the reader picked a model of their own neither
\* replaces it nor lends its reading to a verdict that stays (`source`).
ReadByTheModelInUse ==
  \A i \in DOMAIN out :
    out[i].read \in Builds /\ Newest(out[i].of) => out[i].read = custom

\* A verdict on the page was computed under the trust now in use: whatever the
\* reader switches while a check waits, what comes to rest is an answer under
\* the switches they see.  Only the set that ships with the page may have come
\* after it: mounting it asks nothing again (main.ts, at mountTrust).
BeforeShipped(item) ==
  ~TrustMounted /\ mounted /\ item.trust = trust \ {"shipped"}

AnswersUnderTrustInUse ==
  \A i \in DOMAIN out :
    out[i].what \in {"pending", "verdict"} => out[i].trust = trust \/ BeforeShipped(out[i])

\* One download serves every check that needs it: no two loads of the same
\* source are ever under way together, and a load that failed or that a newer
\* source has replaced is not the one the next check waits for.
LoadsAreShared ==
  /\ \A k, l \in DOMAIN loads :
       /\ {loads[k].at, loads[l].at} \subseteq {"importing", "fetching"}
       /\ loads[k].source = loads[l].source
       => k = l
  /\ loading # 0 => loads[loading].at # "failed" /\ Mine(loading)

\* The page's state is of its type, and no two downloads of it compete.
WellFormed == TypeOK /\ LoadsAreShared

\* A load or a detection that has not settled, and need not.
Waits(c) ==
  \/ checks[c].at = "detecting"
  \/ checks[c].at = "loading" /\ loads[checks[c].load].at \in {"importing", "fetching"}

\* The newest check ends in a verdict or an error card, unless it is itself waiting
\* for the detector: for a download or a detection that has not settled, which may
\* be for ever, and then the signature's card stands on the page meanwhile.  No
\* failure, and no older check, load or detection that hangs, leaves it with less.
NewestIsAnswered ==
  \A c \in 1 .. MaxChecks :
    (generation = c /\ checks[c].file # None)
      ~> \/ generation # c
         \/ Shown = [of |-> c, is |-> "answer"]
         \/ Shown = [of |-> c, is |-> "signature"] /\ Waits(c)

-----------------------------------------------------------------------------
(***************************************************************************)
(* What the source says of the page and the page does not keep.            *)
(***************************************************************************)
\* "A verdict that waited on a 34 MB download must not overwrite the verdict
\* of a file dropped after it" (main.ts, at `generation`): everything in the
\* output, the mark panel included, belongs to the newest check.
MarkIsOfTheFileShown == \A i \in DOMAIN out : Newest(out[i].of)
=============================================================================
