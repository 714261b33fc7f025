---------------------------- MODULE ReadingsProofs ----------------------------
(***************************************************************************)
(* For any claims, frames, logs, positions and command lines: what is said *)
(* of a file beside the origin of its bytes is earned.                     *)
(***************************************************************************)
EXTENDS Readings, FiniteSetTheorems, SequenceTheorems, WellFoundedInduction, TLAPS

(***************************************************************************)
(* The location: what is said follows from the one statement there is.     *)
(***************************************************************************)
OneStatement ==
  \/ stated = {}
  \/ \E log \in Logs, core \in Cores, body \in Bodies :
       stated = {[by |-> log, about |-> core, body |-> body]}

LEMMA StatementKept ==
  ASSUME OneStatement, [Next]_readingVars
  PROVE  OneStatement'
<1>1. CASE UNCHANGED locationVars
  BY <1>1 DEF OneStatement, locationVars
<1>2. CASE LocationNext
  <2>1. ASSUME NEW log \in Logs, NEW core \in Cores, NEW body \in Bodies, State(log, core, body)
        PROVE  OneStatement'
    BY <2>1 DEF State, OneStatement
  <2>2. ASSUME UNCHANGED stated PROVE OneStatement'
    BY <2>2 DEF OneStatement
  <2> QED
    BY <1>2, <2>1, <2>2 DEF LocationNext, Edit, Attach, Spoil, Strip
<1> QED
  BY <1>1, <1>2 DEF Next, readingVars, locationVars

\* What the four levels rank.
LEMMA Ranks ==
  /\ rank("none") = 1 /\ rank("declared") = 2
  /\ rank("corroborated") = 3 /\ rank("authenticated") = 4
<1>1. DOMAIN LEVELS = {1, 2, 3, 4}
  BY DEF LEVELS
<1>2. /\ LEVELS[1] = "none" /\ LEVELS[2] = "declared"
      /\ LEVELS[3] = "corroborated" /\ LEVELS[4] = "authenticated"
  BY DEF LEVELS
<1> QED
  BY <1>1, <1>2 DEF rank

\* What the check of an attachment can say, and upon what.
LEMMA Checked ==
  ASSUME NEW a
  PROVE  /\ verifyLocationCorroboration(a) \in {"match", "no-match"} =>
              Signed(a) /\ verifyLocationCorroboration(a) = a.body.result
         /\ verifyLocationCorroboration(a) = "evidence invalid" =>
              Signed(a) /\ Malformed(a.body)
BY DEF verifyLocationCorroboration, VerifiedBy, Malformed, Results

LEMMA SignedIsHeard ==
  ASSUME NEW a, Signed(a)
  PROVE  a.body \in Heard
BY DEF Signed, Heard

LEMMA SaidIsHeard ==
  /\ Level = "corroborated" => \E body \in Heard : body.result = "match"
  /\ "contradicted" \in Labels => \E body \in Heard : body.result = "no-match"
  /\ "corroboration evidence invalid" \in Labels => \E body \in Heard : Malformed(body)
<1>1. ASSUME Level = "corroborated" PROVE \E body \in Heard : body.result = "match"
  <2>1. verifyLocationCorroboration(attachment) = "match"
    BY <1>1 DEF Level, Corroboration
  <2> QED
    BY <2>1, Checked, SignedIsHeard
<1>2. ASSUME "contradicted" \in Labels PROVE \E body \in Heard : body.result = "no-match"
  <2>1. verifyLocationCorroboration(attachment) = "no-match"
    BY <1>2 DEF Labels, Level, Corroboration
  <2> QED
    BY <2>1, Checked, SignedIsHeard
<1>3. ASSUME "corroboration evidence invalid" \in Labels
      PROVE  \E body \in Heard : Malformed(body)
  <2>1. verifyLocationCorroboration(attachment) = "evidence invalid"
    BY <1>3 DEF Labels, Level, Corroboration
  <2> QED
    BY <2>1, Checked, SignedIsHeard
<1> QED
  BY <1>1, <1>2, <1>3

LEMMA HeardIsSaid ==
  ASSUME OneStatement, NEW s \in stated,
         attachment = [body |-> s.body, sig |-> s], s.body \in Heard,
         s.body.result = "match", s.body.method \in Methods, ~Malformed(s.body),
         location.coordinates
  PROVE  Level = "corroborated"
<1>1. PICK t \in stated : t.by \in signers /\ t.about = "this" /\ t.body = s.body
  BY DEF Heard
<1>2. t = s
  BY DEF OneStatement
<1>3. attachment.body = s.body /\ attachment.sig = s
  OBVIOUS
<1>4. Signed(attachment)
  BY <1>1, <1>2, <1>3 DEF Signed
<1>5. attachment # NoAttachment
  <2>1. "sig" \in DOMAIN attachment /\ "sig" \notin DOMAIN NoAttachment
    BY DEF NoAttachment
  <2> QED
    BY <2>1
<1>6. verifyLocationCorroboration(attachment) = "match"
  BY <1>1, <1>3, <1>4 DEF verifyLocationCorroboration, VerifiedBy
<1> QED
  BY <1>5, <1>6 DEF Level, Corroboration

LEMMA ClaimIsCalled ==
  ASSUME location.coordinates, location.level = "authenticated"
  PROVE  "claimed above evidence" \in Labels
<1>1. Claimed = "authenticated"
  BY DEF Claimed, LEVELS
<1>2. Level \in {"corroborated", "declared"}
  BY DEF Level
<1>3. rank(Claimed) > rank(Level)
  BY <1>1, <1>2, Ranks
<1> QED
  BY <1>3 DEF Labels

LEMMA OnlyAClaimIsCalled ==
  ASSUME location.coordinates, rank(Claimed) > rank(Level)
  PROVE  location.level \in {"corroborated", "authenticated"}
<1>1. Level \in {"corroborated", "declared"}
  BY DEF Level
<1>2. Claimed # "declared"
  BY <1>1, Ranks
<1>3. /\ location.level \in {LEVELS[i] : i \in DOMAIN LEVELS \ {1}}
      /\ location.level # "declared"
  BY <1>2 DEF Claimed
<1>4. DOMAIN LEVELS = {1, 2, 3, 4}
  BY DEF LEVELS
<1>5. LEVELS[2] = "declared" /\ LEVELS[3] = "corroborated" /\ LEVELS[4] = "authenticated"
  BY DEF LEVELS
<1> QED
  BY <1>3, <1>4, <1>5

\* However statements are handed on, edited or spoilt, a position is worth what a
\* followed log said of this core (location.ts, positionLevel and
\* verifyLocationCorroboration).
THEOREM LocationsAreEarned == Spec => []LocationIsEarned
<1>1. Init => OneStatement
  BY DEF Init, LocationInit, OneStatement
<1>2. "claimed above evidence" \in Labels =>
        location.coordinates /\ rank(Claimed) > rank(Level)
  BY DEF Labels
<1>3. OneStatement => LocationIsEarned
  BY <1>2, SaidIsHeard, HeardIsSaid, ClaimIsCalled, OnlyAClaimIsCalled DEF LocationIsEarned
<1> QED
  BY <1>1, <1>3, StatementKept, PTL DEF Spec

(***************************************************************************)
(* The command line.  A run goes through its steps in their order, and     *)
(* what a step has passed stays true of the arguments.                     *)
(***************************************************************************)
Outcomes == Verdicts \cup {Unread}
ToolInv ==
  /\ options \in Options
  /\ results \in Seq(Outcomes)
  /\ trust \in Seq({"log", "authority"})
  /\ step \in {"parse", "extract", "logs", "tsa", "chains", "watermark", "files", "done"}
  /\ step # "done" => exit = Running
  /\ step \notin {"files", "done"} => results = << >>
  /\ step = "extract" => options.command = "extract"
  /\ step \in {"logs", "tsa", "chains", "watermark", "files"} =>
       options.command = "verify" /\ ~options.help /\ ~Misused(options)
  /\ step \in {"watermark", "files"} => ~options.showTrust
  /\ step = "tsa" => Len(trust) = Len(LogDocuments) /\ Whole(LogDocuments)
  /\ step \in {"chains", "watermark", "files"} => Len(trust) = Named /\ Whole(LogDocuments)
  /\ readChain => ~options.offline

IToolInv == ToolInv /\ ExitCodeIsHonest

\* The documents are lists, those named among those read.
Papers == {"whole", "broken"}

LEMMA Documents ==
  ASSUME options \in Options
  PROVE  /\ LogDocuments \in Seq(Papers)
         /\ TsaDocuments \in Seq(Papers)
         /\ options.tsaRoots \in Seq({"certificate", "not one", "missing"})
         /\ options.files \in Seq(DOMAIN Disk)
         /\ Whole(LogDocuments) =>
              \A i \in DOMAIN options.trustFiles : options.trustFiles[i] = "whole"
<1>1. /\ options.trustFiles \in Seq(Papers)
      /\ options.tsaRoots \in Seq({"certificate", "not one", "missing"})
      /\ options.files \in Seq(DOMAIN Disk)
  BY DEF Options, Papers
<1>2. /\ Shipped.logs \in Papers /\ Shipped.tsa \in Papers
  <2>1. /\ Shipped["logs"] \in {"whole", "broken"} /\ Shipped["tsa"] \in {"whole", "broken"}
    BY CommandAssumption
  <2> QED
    BY <2>1 DEF Papers
<1>3. /\ <<Shipped.logs>> \in Seq(Papers) /\ <<Shipped.tsa>> \in Seq(Papers)
      /\ << >> \in Seq(Papers)
  BY <1>2
<1>4. TsaDocuments \in Seq(Papers)
  <2>1. CASE options.noDefaultTsa
    BY <1>3, <2>1 DEF TsaDocuments
  <2>2. CASE ~options.noDefaultTsa
    BY <1>3, <2>2 DEF TsaDocuments
  <2> QED
    BY <2>1, <2>2
<1>5. PICK first \in Seq(Papers) : LogDocuments = first \o options.trustFiles
  <2>1. CASE options.noDefaultLogs
    BY <1>3, <2>1 DEF LogDocuments
  <2>2. CASE ~options.noDefaultLogs
    BY <1>3, <2>2 DEF LogDocuments
  <2> QED
    BY <2>1, <2>2
<1>6. PICK others \in Seq(Papers) : others = options.trustFiles
  BY <1>1
<1>7. /\ LogDocuments \in Seq(Papers)
      /\ Len(LogDocuments) = Len(first) + Len(others)
      /\ \A i \in 1 .. Len(first) + Len(others) :
           LogDocuments[i] = IF i <= Len(first) THEN first[i] ELSE others[i - Len(first)]
  BY <1>5, <1>6, ConcatProperties
<1>8. ASSUME Whole(LogDocuments), NEW i \in DOMAIN others
      PROVE  others[i] = "whole"
  <2>1. /\ Len(first) \in Nat /\ Len(others) \in Nat /\ i \in 1 .. Len(others)
        /\ DOMAIN LogDocuments = 1 .. Len(LogDocuments)
    BY <1>7, LenProperties
  <2>2. /\ Len(first) + i \in DOMAIN LogDocuments
        /\ LogDocuments[Len(first) + i] = others[i]
    BY <1>7, <2>1
  <2> QED
    BY <1>8, <2>2 DEF Whole
<1> QED
  BY <1>1, <1>4, <1>6, <1>7, <1>8

\* A run that ends before any file was judged.
LEMMA EndsBeforeFiles ==
  ASSUME results' = << >>, options' = options, asked' = asked, options.offline => ~asked,
         \/ exit' \in {EXIT.usage, InternalError, Running}
         \/ ~Judging /\ exit' \in {EXIT.ok, EXIT.unreadable, EXIT.doesNotVerify}
  PROVE  ExitCodeIsHonest'
<1>1. Judging' = Judging
  BY DEF Judging
<1>2. /\ EXIT.usage = 64 /\ EXIT.ok = 0 /\ EXIT.unreadable = 66 /\ EXIT.doesNotVerify = 1
      /\ EXIT.notGreen = 2 /\ InternalError = 70 /\ Running = 99
  BY DEF EXIT, InternalError, Running
<1>3. DOMAIN results' = {}
  OBVIOUS
<1> QED
  BY <1>1, <1>2, <1>3 DEF ExitCodeIsHonest

LEMMA NoChainOffline ==
  ASSUME ExitCodeIsHonest
  PROVE  options.offline => ~asked
BY DEF ExitCodeIsHonest

LEMMA Ended ==
  ASSUME ToolInv, step' = "done", options' = options, readChain' = readChain,
         trust' \in Seq({"log", "authority"}), results' \in Seq(Outcomes)
  PROVE  ToolInv'
BY DEF ToolInv

LEMMA StoppedBeforeFiles ==
  ASSUME IToolInv, NEW code, Stop(code), results = << >>,
         UNCHANGED <<options, trust, readChain, asked, results>>,
         \/ code \in {EXIT.usage, InternalError}
         \/ ~Judging /\ code \in {EXIT.ok, EXIT.unreadable, EXIT.doesNotVerify}
  PROVE  IToolInv'
<1>1. step' = "done" /\ exit' = code
  BY DEF Stop
<1>2. ToolInv'
  BY <1>1, Ended DEF IToolInv, ToolInv
<1>3. ExitCodeIsHonest'
  BY <1>1, EndsBeforeFiles, NoChainOffline DEF IToolInv
<1> QED
  BY <1>2, <1>3 DEF IToolInv

\* A step to the next one, before any file.
LEMMA GoneOn ==
  ASSUME IToolInv, NEW next, Go(next), step # "done", results' = << >>,
         options' = options, asked' = asked
  PROVE  step' = next /\ exit' = Running /\ ExitCodeIsHonest'
<1>1. step' = next /\ exit' = Running
  BY DEF Go, IToolInv, ToolInv
<1> QED
  BY <1>1, EndsBeforeFiles, NoChainOffline DEF IToolInv

LEMMA ParseKeeps ==
  ASSUME IToolInv, Parse
  PROVE  IToolInv'
<1>1. /\ options' = options /\ trust' = trust /\ readChain' = readChain /\ asked' = asked
      /\ results' = results /\ results = << >> /\ step = "parse"
  BY DEF Parse, IToolInv, ToolInv
<1>2. options.command \in {"verify", "extract"}
  BY DEF IToolInv, ToolInv, Options
<1>3. CASE Misused(options)
  BY <1>1, <1>3, StoppedBeforeFiles DEF Parse
<1>4. CASE ~Misused(options) /\ options.help
  <2>1. Stop(EXIT.ok) /\ ~Judging
    BY <1>4 DEF Parse, Judging
  <2> QED
    BY <1>1, <2>1, StoppedBeforeFiles
<1>5. CASE ~Misused(options) /\ ~options.help
  <2>1. PICK next \in {"extract", "logs"} :
          /\ Go(next)
          /\ next = "extract" => options.command = "extract"
          /\ next = "logs" => options.command = "verify"
    BY <1>2, <1>5 DEF Parse
  <2>2. step' = next /\ exit' = Running /\ ExitCodeIsHonest'
    BY <1>1, <2>1, GoneOn
  <2>3. ToolInv'
    BY <1>1, <1>5, <2>1, <2>2 DEF IToolInv, ToolInv
  <2> QED
    BY <2>2, <2>3 DEF IToolInv
<1> QED
  BY <1>3, <1>4, <1>5

LEMMA ReadLogsKeeps ==
  ASSUME IToolInv, ReadLogs
  PROVE  IToolInv'
<1>1. /\ options' = options /\ readChain' = readChain /\ asked' = asked
      /\ results' = results /\ results = << >> /\ step = "logs"
  BY DEF ReadLogs, IToolInv, ToolInv
<1>2. CASE ~Whole(LogDocuments)
  BY <1>1, <1>2, StoppedBeforeFiles DEF ReadLogs
<1>3. CASE Whole(LogDocuments)
  <2>1. trust' = [i \in DOMAIN LogDocuments |-> "log"] /\ Go("tsa")
    BY <1>3 DEF ReadLogs
  <2>2. /\ Len(LogDocuments) \in Nat /\ DOMAIN LogDocuments = 1 .. Len(LogDocuments)
    BY Documents, LenProperties DEF IToolInv, ToolInv
  <2>3. trust' \in Seq({"log", "authority"}) /\ Len(trust') = Len(LogDocuments)
    BY <2>1, <2>2
  <2>4. step' = "tsa" /\ exit' = Running /\ ExitCodeIsHonest'
    BY <1>1, <2>1, GoneOn
  <2>5. LogDocuments' = LogDocuments
    BY <1>1 DEF LogDocuments
  <2>6. ToolInv'
    BY <1>1, <1>3, <2>3, <2>4, <2>5 DEF IToolInv, ToolInv, Whole
  <2> QED
    BY <2>4, <2>6 DEF IToolInv
<1> QED
  BY <1>2, <1>3

LEMMA ReadTsaKeeps ==
  ASSUME IToolInv, ReadTsa
  PROVE  IToolInv'
<1>1. /\ options' = options /\ readChain' = readChain /\ asked' = asked
      /\ results' = results /\ results = << >> /\ step = "tsa"
  BY DEF ReadTsa, IToolInv, ToolInv
<1>2. CASE \E code \in {EXIT.usage, InternalError} : Stop(code) /\ UNCHANGED trust
  BY <1>1, <1>2, StoppedBeforeFiles
<1>3. CASE Go("chains")
            /\ trust' = trust \o [i \in DOMAIN (TsaDocuments \o options.tsaRoots) |-> "authority"]
  <2> DEFINE roots == TsaDocuments \o options.tsaRoots
             taken == [i \in DOMAIN roots |-> "authority"]
  <2>1. PICK tsa, pems : /\ tsa \in Seq(Papers) /\ tsa = TsaDocuments
                         /\ pems \in Seq({"certificate", "not one", "missing"})
                         /\ pems = options.tsaRoots
    BY Documents DEF IToolInv, ToolInv
  <2>2. /\ Len(roots) = Len(tsa) + Len(pems) /\ Len(roots) \in Nat
        /\ DOMAIN roots = 1 .. Len(roots)
    <3>1. /\ tsa \in Seq(Papers \cup {"certificate", "not one", "missing"})
          /\ pems \in Seq(Papers \cup {"certificate", "not one", "missing"})
      BY <2>1, SeqMonotonic
    <3>2. roots = tsa \o pems
      BY <2>1
    <3> HIDE DEF roots
    <3>3. /\ roots \in Seq(Papers \cup {"certificate", "not one", "missing"})
          /\ Len(roots) = Len(tsa) + Len(pems)
      BY <3>1, <3>2, ConcatProperties
    <3> QED
      BY <3>3, LenProperties
  <2> HIDE DEF roots
  <2>3. taken \in Seq({"log", "authority"}) /\ Len(taken) = Len(roots)
    BY <2>2
  <2> HIDE DEF taken
  <2>4. /\ trust \in Seq({"log", "authority"}) /\ Len(trust) = Len(LogDocuments)
        /\ Whole(LogDocuments)
    BY <1>1 DEF IToolInv, ToolInv
  <2>5. trust' = trust \o taken
    BY <1>3 DEF taken, roots
  <2>6. trust' \in Seq({"log", "authority"}) /\ Len(trust') = Len(trust) + Len(taken)
    BY <2>3, <2>4, <2>5, ConcatProperties
  <2>7. Len(trust') = Named
    <3>1. Len(LogDocuments) \in Nat /\ Len(tsa) \in Nat /\ Len(pems) \in Nat
      BY <2>1, Documents, LenProperties DEF IToolInv, ToolInv
    <3>2. Len(trust') = Len(LogDocuments) + (Len(tsa) + Len(pems))
      BY <2>2, <2>3, <2>4, <2>6
    <3>3. Named = (Len(LogDocuments) + Len(tsa)) + Len(pems)
      BY <2>1 DEF Named
    <3> QED
      BY <3>1, <3>2, <3>3
  <2>8. step' = "chains" /\ exit' = Running /\ ExitCodeIsHonest'
    BY <1>1, <1>3, GoneOn
  <2>9. Named' = Named /\ LogDocuments' = LogDocuments
    BY <1>1 DEF Named, LogDocuments, TsaDocuments
  <2>10. ToolInv'
    BY <1>1, <2>4, <2>6, <2>7, <2>8, <2>9 DEF IToolInv, ToolInv, Whole
  <2> QED
    BY <2>8, <2>10 DEF IToolInv
<1> QED
  BY <1>2, <1>3 DEF ReadTsa

LEMMA ReadChainsKeeps ==
  ASSUME IToolInv, ReadChains
  PROVE  IToolInv'
<1>1. /\ options' = options /\ trust' = trust /\ asked' = asked
      /\ results' = results /\ results = << >> /\ step = "chains"
  BY DEF ReadChains, IToolInv, ToolInv
<1>2. CASE Stop(EXIT.usage) /\ UNCHANGED readChain
  BY <1>1, <1>2, StoppedBeforeFiles
<1>3. CASE readChain' = ~options.offline /\ options.showTrust /\ Stop(EXIT.ok)
  <2>1. step' = "done" /\ exit' = EXIT.ok /\ ~Judging
    BY <1>3 DEF Stop, Judging
  <2>2. ExitCodeIsHonest'
    BY <1>1, <2>1, EndsBeforeFiles, NoChainOffline DEF IToolInv
  <2>3. ToolInv'
    BY <1>1, <1>3, <2>1 DEF IToolInv, ToolInv
  <2> QED
    BY <2>2, <2>3 DEF IToolInv
<1>4. CASE readChain' = ~options.offline /\ ~options.showTrust /\ Go("watermark")
  <2>1. step' = "watermark" /\ exit' = Running /\ ExitCodeIsHonest'
    BY <1>1, <1>4, GoneOn
  <2>2. Named' = Named /\ LogDocuments' = LogDocuments
    BY <1>1 DEF Named, LogDocuments, TsaDocuments
  <2>3. ToolInv'
    BY <1>1, <1>4, <2>1, <2>2 DEF IToolInv, ToolInv, Whole
  <2> QED
    BY <2>1, <2>3 DEF IToolInv
<1> QED
  BY <1>2, <1>3, <1>4 DEF ReadChains

LEMMA ReadWatermarkKeeps ==
  ASSUME IToolInv, ReadWatermark
  PROVE  IToolInv'
<1>1. /\ options' = options /\ trust' = trust /\ readChain' = readChain /\ asked' = asked
      /\ results' = results /\ results = << >> /\ step = "watermark"
  BY DEF ReadWatermark, IToolInv, ToolInv
<1>2. CASE Stop(EXIT.usage)
  BY <1>1, <1>2, StoppedBeforeFiles
<1>3. CASE Go("files")
  <2>1. step' = "files" /\ exit' = Running /\ ExitCodeIsHonest'
    BY <1>1, <1>3, GoneOn
  <2>2. Named' = Named /\ LogDocuments' = LogDocuments
    BY <1>1 DEF Named, LogDocuments, TsaDocuments
  <2>3. ToolInv'
    BY <1>1, <2>1, <2>2 DEF IToolInv, ToolInv, Whole
  <2> QED
    BY <2>1, <2>3 DEF IToolInv
<1> QED
  BY <1>2, <1>3 DEF ReadWatermark

LEMMA ExtractKeeps ==
  ASSUME IToolInv, Extract
  PROVE  IToolInv'
<1>1. /\ UNCHANGED <<options, trust, readChain, asked, results>>
      /\ results = << >> /\ options.command = "extract"
  BY DEF Extract, IToolInv, ToolInv
<1>2. ~Judging
  BY <1>1 DEF Judging
<1>3. PICK code : /\ Stop(code)
                  /\ code \in {InternalError, EXIT.ok, EXIT.unreadable, EXIT.doesNotVerify}
  BY DEF Extract
<1> QED
  BY <1>1, <1>2, <1>3, StoppedBeforeFiles

\* What holds while files are judged, and is all that later steps rest on.
LEMMA AmongFiles ==
  ASSUME IToolInv, step = "files"
  PROVE  /\ Len(trust) = Named
         /\ \A i \in DOMAIN options.trustFiles : options.trustFiles[i] = "whole"
         /\ options.watermark # "none" => Len(options.files) = 1
         /\ Len(options.files) \in Nat /\ Len(options.files) # 0
         /\ Len(results) \in Nat /\ DOMAIN results = 1 .. Len(results)
         /\ Judging
<1>1. /\ Len(trust) = Named /\ Whole(LogDocuments) /\ options \in Options
      /\ ~Misused(options) /\ ~options.help /\ ~options.showTrust
      /\ options.command = "verify" /\ results \in Seq(Outcomes)
  BY DEF IToolInv, ToolInv
<1>2. Len(options.files) \in Nat
  BY <1>1, Documents, LenProperties
<1>3. Len(options.files) # 0 /\ (options.watermark # "none" => ~(Len(options.files) > 1))
  BY <1>1 DEF Misused
<1>4. \A i \in DOMAIN options.trustFiles : options.trustFiles[i] = "whole"
  BY <1>1, Documents
<1>5. ASSUME options.watermark # "none" PROVE Len(options.files) = 1
  <2>1. PICK n \in Nat : n = Len(options.files)
    BY <1>2
  <2>2. n # 0 /\ ~(n > 1)
    BY <1>3, <1>5, <2>1
  <2>3. n = 1
    BY <2>2
  <2> QED
    BY <2>1, <2>3
<1>6. Len(results) \in Nat /\ DOMAIN results = 1 .. Len(results)
  BY <1>1, LenProperties
<1>7. Judging
  BY <1>1 DEF Judging
<1> QED
  BY <1>1, <1>2, <1>3, <1>4, <1>5, <1>6, <1>7

LEMMA JudgeKeeps ==
  ASSUME IToolInv, Judge
  PROVE  IToolInv'
<1>1. /\ options' = options /\ trust' = trust /\ readChain' = readChain /\ step' = step
      /\ exit' = exit /\ step = "files" /\ exit = Running
      /\ results \in Seq(Outcomes) /\ Len(results) < Len(options.files)
  BY DEF Judge, IToolInv, ToolInv
<1>2. /\ \E outcome \in Outcomes : results' = Append(results, outcome)
      /\ asked' => asked \/ readChain
  BY DEF Judge, Outcomes
<1>3. results' \in Seq(Outcomes)
  BY <1>1, <1>2, AppendProperties
<1>4. options.offline => ~asked'
  BY <1>2, NoChainOffline DEF IToolInv, ToolInv
<1>5. Named' = Named /\ LogDocuments' = LogDocuments
  BY <1>1 DEF Named, LogDocuments, TsaDocuments
<1>6. ToolInv'
  BY <1>1, <1>3, <1>5 DEF IToolInv, ToolInv, Whole
<1>7. /\ Running \notin {EXIT.ok, EXIT.doesNotVerify, EXIT.notGreen}
      /\ Running \notin {EXIT.unreadable, EXIT.usage, InternalError}
  BY DEF Running, EXIT, InternalError
<1>8. ExitCodeIsHonest'
  BY <1>1, <1>4, <1>5, <1>7, AmongFiles DEF ExitCodeIsHonest
<1> QED
  BY <1>6, <1>8 DEF IToolInv

\* Files that were read are counted, so that none is missing when all are counted.
LEMMA AllJudged ==
  ASSUME Len(results) \in Nat, DOMAIN results = 1 .. Len(results),
         ~(Cardinality(Judged) < Len(results))
  PROVE  \A i \in DOMAIN results : results[i] # Unread /\ i \in Judged
<1>1. /\ IsFiniteSet(1 .. Len(results))
      /\ Cardinality(1 .. Len(results)) = IF 1 > Len(results) THEN 0 ELSE Len(results) - 1 + 1
      /\ Cardinality(1 .. Len(results)) = Len(results)
  <2>1. /\ IsFiniteSet(1 .. Len(results))
        /\ Cardinality(1 .. Len(results)) = IF 1 > Len(results) THEN 0 ELSE Len(results) - 1 + 1
    BY FS_Interval
  <2> QED
    BY <2>1
<1>2. Judged \in SUBSET (1 .. Len(results))
  BY DEF Judged
<1>3. /\ IsFiniteSet(Judged) /\ Cardinality(Judged) <= Cardinality(1 .. Len(results))
      /\ Cardinality(1 .. Len(results)) = Cardinality(Judged) => 1 .. Len(results) = Judged
  BY <1>1, <1>2, FS_Subset
<1>4. Cardinality(Judged) \in Nat
  BY <1>3, FS_CardinalityType
<1>5. Judged = 1 .. Len(results)
  BY <1>1, <1>3, <1>4
<1> QED
  BY <1>5 DEF Judged

LEMMA ExitCodeMeans ==
  ASSUME Len(results) \in Nat, DOMAIN results = 1 .. Len(results)
  PROVE  /\ ExitCode \in {EXIT.ok, EXIT.doesNotVerify, EXIT.notGreen, EXIT.unreadable}
         /\ ExitCode # EXIT.unreadable => \A i \in DOMAIN results : results[i] # Unread
         /\ ExitCode = EXIT.ok =>
              \A i \in DOMAIN results :
                verifies(results[i]) /\ (options.requireGreen => results[i].ceiling = "green")
<1>1. /\ EXIT.ok = 0 /\ EXIT.unreadable = 66 /\ EXIT.doesNotVerify = 1 /\ EXIT.notGreen = 2
  BY DEF EXIT
<1>2. CASE Cardinality(Judged) < Len(results)
  BY <1>1, <1>2 DEF ExitCode
<1>3. CASE ~(Cardinality(Judged) < Len(results))
  <2>1. \A i \in DOMAIN results : results[i] # Unread /\ i \in Judged
    BY <1>3, AllJudged
  <2> QED
    BY <1>1, <1>3, <2>1 DEF ExitCode
<1> QED
  BY <1>2, <1>3

LEMMA FinishKeeps ==
  ASSUME IToolInv, Finish
  PROVE  IToolInv'
<1>1. /\ options' = options /\ trust' = trust /\ readChain' = readChain /\ asked' = asked
      /\ results' = results /\ step = "files" /\ Len(results) = Len(options.files)
      /\ step' = "done" /\ exit' = ExitCode
  BY DEF Finish, Stop
<1>2. ToolInv'
  BY <1>1, Ended DEF IToolInv, ToolInv
<1>3. /\ EXIT.usage = 64 /\ EXIT.ok = 0 /\ EXIT.unreadable = 66 /\ EXIT.doesNotVerify = 1
      /\ EXIT.notGreen = 2 /\ InternalError = 70
  BY DEF EXIT, InternalError
<1>4. results # << >>
  BY <1>1, AmongFiles
<1>5. /\ ExitCode \in {EXIT.ok, EXIT.doesNotVerify, EXIT.notGreen, EXIT.unreadable}
      /\ ExitCode # EXIT.unreadable => \A i \in DOMAIN results : results[i] # Unread
      /\ ExitCode = EXIT.ok =>
           \A i \in DOMAIN results :
             verifies(results[i]) /\ (options.requireGreen => results[i].ceiling = "green")
  BY <1>1, AmongFiles, ExitCodeMeans
<1>6. Named' = Named
  BY <1>1 DEF Named, LogDocuments, TsaDocuments
<1>7. ExitCodeIsHonest'
  <2>1. exit' = EXIT.ok =>
          /\ Len(results) = Len(options.files) /\ results # << >>
          /\ \A i \in DOMAIN results :
               results[i] # Unread /\ verifies(results[i])
                 /\ (options.requireGreen => results[i].ceiling = "green")
    BY <1>1, <1>3, <1>4, <1>5
  <2>2. exit' # EXIT.unreadable => Unread \notin {results[i] : i \in DOMAIN results}
    BY <1>1, <1>5
  <2>3. exit' \notin {EXIT.usage, InternalError}
    BY <1>1, <1>3, <1>5
  <2> QED
    BY <1>1, <1>3, <1>6, <2>1, <2>2, <2>3, AmongFiles, NoChainOffline
       DEF ExitCodeIsHonest, verifies, IToolInv
<1> QED
  BY <1>2, <1>7 DEF IToolInv

LEMMA ToolKeeps ==
  ASSUME IToolInv, [Next]_readingVars
  PROVE  IToolInv'
<1>1. CASE UNCHANGED cliVars
  <2>1. ToolInv'
    BY <1>1 DEF cliVars, IToolInv, ToolInv, Named, LogDocuments, TsaDocuments, Whole
  <2>2. ExitCodeIsHonest'
    BY <1>1 DEF cliVars, IToolInv, ExitCodeIsHonest, Judging, Named, LogDocuments, TsaDocuments
  <2> QED
    BY <2>1, <2>2 DEF IToolInv
<1>2. CASE CommandNext
  BY <1>2, ParseKeeps, ReadLogsKeeps, ReadTsaKeeps, ReadChainsKeeps, ReadWatermarkKeeps,
     JudgeKeeps, FinishKeeps, ExtractKeeps DEF CommandNext
<1> QED
  BY <1>1, <1>2 DEF Next, readingVars, cliVars

\* However many files are named and whatever of them and of the documents can be read,
\* the exit code answers for all of them (cli/src/main.ts, run).
THEOREM ExitCodesAreHonest == Spec => []ExitCodeIsHonest
<1>1. Init => IToolInv
  <2> SUFFICES ASSUME Init PROVE IToolInv
    OBVIOUS
  <2>1. /\ options \in Options /\ step = "parse" /\ trust = << >> /\ readChain = FALSE
        /\ asked = FALSE /\ results = << >> /\ exit = Running
    BY CommandAssumption DEF Init, CommandInit
  <2>2. ToolInv
    BY <2>1 DEF ToolInv
  <2>3. ExitCodeIsHonest
    BY <2>1 DEF ExitCodeIsHonest, EXIT, InternalError, Running
  <2> QED
    BY <2>2, <2>3 DEF IToolInv
<1>2. IToolInv => ExitCodeIsHonest
  BY DEF IToolInv
<1> QED
  BY <1>1, <1>2, ToolKeeps, PTL DEF Spec

(***************************************************************************)
(* The folds the readings are summed by.  What a fold gives is what its    *)
(* equation says, and the equation has a solution; what is true of every   *)
(* fold is true of its smallest counterexample, which there is not.        *)
(***************************************************************************)
LEMMA LeastOf ==
  ASSUME NEW S \in SUBSET Nat, S # {}
  PROVE  \E n \in S : \A m \in S : n <= m
<1> DEFINE R == {p \in Nat \X Nat : p[1] < p[2]}
<1>1. IsWellFoundedOn(R, Nat)
  BY NatLessThanWellFounded DEF OpToRel
<1> HIDE DEF R
<1>2. PICK n \in S : \A m \in S : <<m, n>> \notin R
  BY <1>1, WFMin
<1>3. ASSUME NEW m \in S PROVE n <= m
  <2>1. <<m, n>> \in R <=> m < n
    BY DEF R
  <2> QED
    BY <1>2, <2>1
<1> QED
  BY <1>3

Smallest(s, Bad) == \A x \in s : s \ {x} \notin Bad

\* What is true of the empty set, and of a set whenever it is true without one of its
\* elements, is true of every finite set: otherwise a smallest one would be the first.
LEMMA SmallestOf ==
  ASSUME NEW S, IsFiniteSet(S), NEW Bad \in SUBSET (SUBSET S), Bad # {}
  PROVE  \E s \in Bad : Smallest(s, Bad)
<1> DEFINE sizes == {Cardinality(s) : s \in Bad}
<1>1. \A s \in SUBSET S : IsFiniteSet(s) /\ Cardinality(s) \in Nat
  BY FS_Subset, FS_CardinalityType
<1>2. sizes \in SUBSET Nat /\ sizes # {}
  BY <1>1
<1> HIDE DEF sizes
<1>3. PICK n \in sizes : \A m \in sizes : n <= m
  BY <1>2, LeastOf
<1>4. PICK s \in Bad : Cardinality(s) = n
  BY <1>3 DEF sizes
<1>5. ASSUME NEW x \in s, s \ {x} \in Bad PROVE FALSE
  <2>1. Cardinality(s \ {x}) \in sizes
    BY <1>5 DEF sizes
  <2>2. Cardinality(s \ {x}) = Cardinality(s) - 1
    BY <1>1, FS_RemoveElement
  <2>3. n \in Nat /\ n <= n - 1
    BY <1>2, <1>3, <1>4, <2>1, <2>2
  <2> QED
    BY <2>3
<1> QED
  BY <1>4, <1>5 DEF Smallest

\* A fold is given by what it makes of a set, from what it makes of the set without the
\* element it picks.
FoldsBy(iter, S, V, base, pick, give) ==
  /\ iter \in [SUBSET S -> V]
  /\ \A s \in SUBSET S :
       iter[s] = IF s = {} THEN base ELSE give[<<s, iter[s \ {pick[s]}]>>]

LEMMA FoldExists ==
  ASSUME NEW S, IsFiniteSet(S), NEW V, NEW base \in V,
         NEW pick, \A s \in SUBSET S : s # {} => pick[s] \in s,
         NEW give \in [(SUBSET S) \X V -> V]
  PROVE  \E iter : FoldsBy(iter, S, V, base, pick, give)
<1> DEFINE Of(f, s) == IF s = {} THEN base ELSE give[<<s, f[s \ {pick[s]}]>>]
           Upto(n) == \E f \in [SUBSET S -> V] :
                        \A s \in SUBSET S : Cardinality(s) <= n => f[s] = Of(f, s)
<1>1. \A s \in SUBSET S : IsFiniteSet(s) /\ Cardinality(s) \in Nat /\ Cardinality(s) <= Cardinality(S)
  BY FS_Subset, FS_CardinalityType
<1>2. \A s \in SUBSET S : s # {} => /\ s \ {pick[s]} \in SUBSET S
                                    /\ Cardinality(s \ {pick[s]}) = Cardinality(s) - 1
  BY <1>1, FS_RemoveElement
<1>3. Upto(0)
  <2>1. \A s \in SUBSET S : Cardinality(s) <= 0 => s = {}
    BY <1>1, FS_EmptySet
  <2>2. PICK f : f = [s \in SUBSET S |-> base]
    OBVIOUS
  <2> QED
    BY <2>1, <2>2
<1>4. ASSUME NEW n \in Nat, Upto(n) PROVE Upto(n + 1)
  <2>1. PICK f \in [SUBSET S -> V] : \A s \in SUBSET S : Cardinality(s) <= n => f[s] = Of(f, s)
    BY <1>4
  <2>2. PICK g : g = [s \in SUBSET S |-> IF Cardinality(s) <= n THEN f[s] ELSE Of(f, s)]
    OBVIOUS
  <2>3. ASSUME NEW s \in SUBSET S PROVE Of(f, s) \in V
    <3>1. CASE s = {}
      BY <3>1
    <3>2. CASE s # {}
      <4>1. f[s \ {pick[s]}] \in V
        BY <1>2, <3>2
      <4>2. give[<<s, f[s \ {pick[s]}]>>] \in V
        BY <4>1
      <4> QED
        BY <3>2, <4>2
    <3> QED
      BY <3>1, <3>2
  <2>4. g \in [SUBSET S -> V]
    <3> HIDE DEF Of
    <3> QED
      BY <2>2, <2>3
  <2>5. ASSUME NEW s \in SUBSET S, Cardinality(s) <= n + 1 PROVE g[s] = Of(g, s)
    <3>1. g[s] = Of(f, s)
      <4> HIDE DEF Of
      <4> QED
        BY <2>1, <2>2
    <3>2. s # {} => g[s \ {pick[s]}] = f[s \ {pick[s]}]
      <4> SUFFICES ASSUME s # {} PROVE g[s \ {pick[s]}] = f[s \ {pick[s]}]
        OBVIOUS
      <4>1. PICK t \in SUBSET S : t = s \ {pick[s]}
        BY <1>2
      <4>2. Cardinality(t) <= n
        BY <1>1, <1>2, <2>5, <4>1
      <4> HIDE DEF Of
      <4> QED
        BY <2>2, <4>1, <4>2
    <3> QED
      BY <3>1, <3>2
  <2> QED
    BY <2>4, <2>5
<1>5. \A n \in Nat : Upto(n)
  <2> SUFFICES ASSUME {n \in Nat : ~Upto(n)} # {} PROVE FALSE
    OBVIOUS
  <2>1. PICK n \in Nat : ~Upto(n) /\ \A m \in Nat : ~Upto(m) => n <= m
    <3> HIDE DEF Upto
    <3>1. PICK B \in SUBSET Nat : B = {n \in Nat : ~Upto(n)}
      OBVIOUS
    <3>2. B # {}
      BY <3>1
    <3>3. PICK n \in B : \A m \in B : n <= m
      BY <3>2, LeastOf
    <3> QED
      BY <3>1, <3>3
  <2> HIDE DEF Upto
  <2>2. n # 0
    BY <1>3, <2>1
  <2>3. n - 1 \in Nat /\ ~(n <= n - 1) /\ (n - 1) + 1 = n
    BY <2>2
  <2>4. Upto(n - 1)
    BY <2>1, <2>3
  <2> QED
    BY <1>4, <2>1, <2>3, <2>4
<1>6. PICK f \in [SUBSET S -> V] : \A s \in SUBSET S : Cardinality(s) <= Cardinality(S) => f[s] = Of(f, s)
  BY <1>1, <1>5
<1>7. \A s \in SUBSET S : f[s] = Of(f, s)
  <2> HIDE DEF Of
  <2> QED
    BY <1>1, <1>6
<1> QED
  BY <1>7 DEF FoldsBy

\* The library's sum over a set: what its equation says.
SumOf(fun, S) == FoldFunctionOnSet(+, 0, fun, S)
Picked(s) == CHOOSE x \in s : TRUE

Adds(iter, fun, S) ==
  \A s \in SUBSET S : iter[s] = IF s = {} THEN 0 ELSE fun[Picked(s)] + iter[s \ {Picked(s)}]

LEMMA SumIs ==
  ASSUME NEW fun, NEW S, IsFiniteSet(S), \A x \in S : fun[x] \in Int
  PROVE  \E iter : SumOf(fun, S) = iter[S] /\ Adds(iter, fun, S)
<1> DEFINE iter == CHOOSE iter : iter = [s \in SUBSET S |->
                     IF s = {} THEN 0 ELSE fun[Picked(s)] + iter[s \ {Picked(s)}]]
<1>1. SumOf(fun, S) = iter[S]
  BY DEF SumOf, FoldFunctionOnSet, MapThenFoldSet, Picked
<1>2. \E i : i = [s \in SUBSET S |->
                     IF s = {} THEN 0 ELSE fun[Picked(s)] + i[s \ {Picked(s)}]]
  <2>1. PICK pick : pick = [s \in SUBSET S |-> Picked(s)]
    OBVIOUS
  <2>2. \A s \in SUBSET S : s # {} => pick[s] \in s
    BY <2>1 DEF Picked
  <2>3. PICK give : give = [p \in (SUBSET S) \X Int |->
                              IF p[1] = {} THEN 0 ELSE fun[pick[p[1]]] + p[2]]
    OBVIOUS
  <2>4. give \in [(SUBSET S) \X Int -> Int]
    BY <2>2, <2>3
  <2>5. PICK i \in [SUBSET S -> Int] :
          \A s \in SUBSET S :
            i[s] = IF s = {} THEN 0 ELSE give[<<s, i[s \ {pick[s]}]>>]
    <3>1. 0 \in Int /\ \E i : FoldsBy(i, S, Int, 0, pick, give)
      <4>1. IsFiniteSet(S) /\ 0 \in Int
        OBVIOUS
      <4> QED
        BY ONLY <2>2, <2>4, <4>1, FoldExists, ZenonT(30)
    <3> QED
      BY <3>1 DEF FoldsBy
  <2>6. ASSUME NEW s \in SUBSET S
        PROVE  i[s] = IF s = {} THEN 0 ELSE fun[Picked(s)] + i[s \ {Picked(s)}]
    <3>1. i[s] = IF s = {} THEN 0 ELSE give[<<s, i[s \ {pick[s]}]>>]
      BY <2>5
    <3>2. s # {} => give[<<s, i[s \ {pick[s]}]>>] = fun[pick[s]] + i[s \ {pick[s]}]
      <4>1. i[s \ {pick[s]}] \in Int
        BY <2>5
      <4>2. <<s, i[s \ {pick[s]}]>> \in (SUBSET S) \X Int
        BY <4>1
      <4> QED
        BY <2>3, <4>2
    <3> QED
      BY <2>1, <3>1, <3>2
  <2>7. i = [s \in SUBSET S |-> IF s = {} THEN 0 ELSE fun[Picked(s)] + i[s \ {Picked(s)}]]
    BY <2>5, <2>6
  <2> QED
    BY <2>7
<1>3. Adds(iter, fun, S)
  BY <1>2 DEF Adds
<1> QED
  BY <1>1, <1>3

\* A sum of integers is one; of positive ones it is positive, of others it is not.
LEMMA SumSigns ==
  ASSUME NEW fun, NEW S, IsFiniteSet(S), \A x \in S : fun[x] \in Int
  PROVE  /\ SumOf(fun, S) \in Int
         /\ (\A x \in S : fun[x] > 0) /\ S # {} => SumOf(fun, S) > 0
         /\ (\A x \in S : ~(fun[x] > 0)) => ~(SumOf(fun, S) > 0)
<1>1. PICK iter : SumOf(fun, S) = iter[S] /\ Adds(iter, fun, S)
  BY SumIs
<1> DEFINE Good(s) == /\ iter[s] \in Int
                      /\ (\A x \in s : fun[x] > 0) => (s # {} => iter[s] > 0) /\ iter[s] >= 0
                      /\ (\A x \in s : ~(fun[x] > 0)) => ~(iter[s] > 0)
           Bad == {s \in SUBSET S : ~Good(s)}
<1>2. ASSUME Bad # {} PROVE FALSE
  <2>1. Bad \in SUBSET (SUBSET S)
    OBVIOUS
  <2> HIDE DEF Good
  <2>2. PICK s \in Bad : \A x \in s : s \ {x} \notin Bad
    <3> HIDE DEF Bad
    <3>1. \E s \in Bad : Smallest(s, Bad)
      BY <1>2, <2>1, SmallestOf
    <3> QED
      BY ONLY <3>1 DEF Smallest
  <2>3. s \in SUBSET S /\ ~Good(s)
    OBVIOUS
  <2>4. CASE s = {}
    <3>1. iter[s] = 0
      BY <1>1, <2>3, <2>4 DEF Adds
    <3> QED
      BY <2>3, <2>4, <3>1 DEF Good
  <2>5. CASE s # {}
    <3>1. PICK x \in s : x = Picked(s)
      BY <2>5 DEF Picked
    <3>2. iter[s] = fun[x] + iter[s \ {x}]
      BY <1>1, <2>3, <2>5, <3>1 DEF Adds
    <3>3. PICK t \in SUBSET S : t = s \ {x}
      BY <2>3
    <3>4. Good(t)
      BY <2>2, <3>1, <3>3
    <3>5. fun[x] \in Int /\ iter[t] \in Int
      BY <2>3, <3>1, <3>4 DEF Good
    <3>6. iter[s] \in Int
      BY <3>2, <3>3, <3>5
    <3>7. ASSUME \A y \in s : fun[y] > 0 PROVE iter[s] > 0
      <4>1. fun[x] > 0 /\ iter[t] >= 0
        BY <3>1, <3>3, <3>4, <3>7 DEF Good
      <4> QED
        BY <3>2, <3>3, <3>5, <4>1
    <3>8. ASSUME \A y \in s : ~(fun[y] > 0) PROVE ~(iter[s] > 0)
      <4>1. ~(fun[x] > 0) /\ ~(iter[t] > 0)
        BY <3>1, <3>3, <3>4, <3>8 DEF Good
      <4> QED
        BY <3>2, <3>3, <3>5, <4>1
    <3>9. iter[s] > 0 => iter[s] >= 0
      BY <3>6
    <3> QED
      BY <2>3, <3>6, <3>7, <3>8, <3>9 DEF Good
  <2> QED
    BY <2>4, <2>5
<1>3. Good(S)
  BY <1>2
<1> QED
  BY <1>1, <1>3

\* What a set of numbers up to n has, a largest one among them.
LEMMA MaxIsIn ==
  ASSUME NEW n \in Nat, NEW s \in SUBSET (1 .. n), s # {}
  PROVE  Max(s) \in s
<1> DEFINE bounds == {b \in Nat : \A x \in s : x <= b}
<1>1. n \in bounds
  OBVIOUS
<1>2. bounds \in SUBSET Nat /\ bounds # {}
  BY <1>1
<1>3. PICK b \in bounds : \A m \in bounds : b <= m
  <2> HIDE DEF bounds
  <2> QED
    BY <1>2, LeastOf
<1>4. \E x \in s : \A y \in s : x >= y
  <2>1. PICK x \in s : TRUE
    OBVIOUS
  <2>2. b \in Nat /\ \A y \in s : y \in Nat /\ y >= 1 /\ y <= b
    OBVIOUS
  <2>3. CASE b \in s
    BY <2>2, <2>3
  <2>4. CASE b \notin s
    <3>1. \A y \in s : y <= b - 1
      BY <2>2, <2>4
    <3>2. b - 1 \in Nat
      BY <2>1, <2>2
    <3>3. b - 1 \in bounds
      BY <3>1, <3>2
    <3>4. b <= b - 1
      BY <1>3, <3>3
    <3> QED
      BY <2>2, <3>4
  <2> QED
    BY <2>3, <2>4
<1> QED
  BY <1>4 DEF Max

\* The checksum is one: a bit for each place.
Checksums == [1 .. CrcBits -> {0, 1}]
LEMMA ShiftsIn ==
  ASSUME NEW register \in Checksums, NEW bit \in {0, 1}
  PROVE  ShiftIn(register, bit) \in Checksums
<1>1. CrcBits \in Nat /\ CrcBits >= 1 /\ \A i \in 1 .. CrcBits : CrcPoly[i] \in {0, 1}
  BY ClipAssumption
<1>2. register[1] \in {0, 1} /\ \A i \in 1 .. CrcBits : i < CrcBits => register[i + 1] \in {0, 1}
  BY <1>1 DEF Checksums
<1>3. PICK top : top = (register[1] + bit) % 2
  OBVIOUS
<1>4. top \in {0, 1}
  BY <1>2, <1>3
<1>5. ASSUME NEW i \in 1 .. CrcBits
      PROVE  ((IF i < CrcBits THEN register[i + 1] ELSE 0) + top * CrcPoly[i]) % 2 \in {0, 1}
  <2>1. top * CrcPoly[i] \in {0, 1}
    BY <1>1, <1>4
  <2>2. (IF i < CrcBits THEN register[i + 1] ELSE 0) \in {0, 1}
    BY <1>2
  <2> QED
    BY <2>1, <2>2
<1> QED
  BY <1>3, <1>5 DEF ShiftIn, Checksums

LEMMA CrcIsOne ==
  ASSUME NEW id \in MarkIds
  PROVE  crc(id) \in Checksums
<1> DEFINE zero == [i \in 1 .. CrcBits |-> 0]
           S == 1 .. IdBits
           iter == CHOOSE iter : iter = [s \in SUBSET S |->
                     IF s = {} THEN zero ELSE ShiftIn(iter[s \ {Max(s)}], id[Max(s)])]
<1>1. IdBits \in Nat /\ DOMAIN id = S /\ \A i \in S : id[i] \in {0, 1}
  BY ClipAssumption DEF MarkIds
<1>2. crc(id) = iter[S]
  BY <1>1 DEF crc, FoldLeft, MapThenFoldSet
<1>3. \E i : i = [s \in SUBSET S |-> IF s = {} THEN zero ELSE ShiftIn(i[s \ {Max(s)}], id[Max(s)])]
  <2>1. PICK pick : pick = [s \in SUBSET S |-> Max(s)]
    OBVIOUS
  <2>2. \A s \in SUBSET S : s # {} => pick[s] \in s
    BY <1>1, <2>1, MaxIsIn
  <2>3. PICK give : give = [p \in (SUBSET S) \X Checksums |->
                              IF p[1] = {} THEN zero ELSE ShiftIn(p[2], id[pick[p[1]]])]
    OBVIOUS
  <2>4. zero \in Checksums
    BY DEF Checksums
  <2> HIDE DEF zero
  <2>5. give \in [(SUBSET S) \X Checksums -> Checksums]
    <3>1. ASSUME NEW p \in (SUBSET S) \X Checksums
          PROVE  (IF p[1] = {} THEN zero ELSE ShiftIn(p[2], id[pick[p[1]]])) \in Checksums
      <4>1. CASE p[1] = {}
        BY <2>4, <4>1
      <4>2. CASE p[1] # {}
        <5>1. pick[p[1]] \in S /\ p[2] \in Checksums
          BY <2>2, <4>2
        <5>2. id[pick[p[1]]] \in {0, 1}
          BY <1>1, <5>1
        <5>3. ShiftIn(p[2], id[pick[p[1]]]) \in Checksums
          BY <5>1, <5>2, ShiftsIn
        <5> QED
          BY <4>2, <5>3
      <4> QED
        BY <4>1, <4>2
    <3> QED
      BY <2>3, <3>1
  <2>6. IsFiniteSet(S)
    BY <1>1, FS_Interval
  <2>7. \E i : FoldsBy(i, S, Checksums, zero, pick, give)
    BY ONLY <2>2, <2>4, <2>5, <2>6, FoldExists, ZenonT(30)
  <2>8. PICK i \in [SUBSET S -> Checksums] :
          \A s \in SUBSET S : i[s] = IF s = {} THEN zero ELSE give[<<s, i[s \ {pick[s]}]>>]
    BY <2>7 DEF FoldsBy
  <2>9. ASSUME NEW s \in SUBSET S
        PROVE  i[s] = IF s = {} THEN zero ELSE ShiftIn(i[s \ {Max(s)}], id[Max(s)])
    <3>1. CASE s = {}
      BY <2>8, <3>1
    <3>2. CASE s # {}
      <4>1. i[s] = give[<<s, i[s \ {pick[s]}]>>] /\ i[s \ {pick[s]}] \in Checksums
        BY <2>8, <3>2
      <4>2. <<s, i[s \ {pick[s]}]>> \in (SUBSET S) \X Checksums
        BY <4>1
      <4>3. give[<<s, i[s \ {pick[s]}]>>] = ShiftIn(i[s \ {pick[s]}], id[pick[s]])
        BY <2>3, <3>2, <4>2
      <4> QED
        BY <2>1, <3>2, <4>1, <4>3
    <3> QED
      BY <3>1, <3>2
  <2>10. i = [s \in SUBSET S |-> IF s = {} THEN zero ELSE ShiftIn(i[s \ {Max(s)}], id[Max(s)])]
    BY <2>8, <2>9
  <2> QED
    BY <2>8, <2>10
<1>4. iter = [s \in SUBSET S |-> IF s = {} THEN zero ELSE ShiftIn(iter[s \ {Max(s)}], id[Max(s)])]
  BY <1>3
<1>5. zero \in Checksums
  BY DEF Checksums
<1> HIDE DEF iter, zero
<1>6. ASSUME {s \in SUBSET S : iter[s] \notin Checksums} # {} PROVE FALSE
  <2>1. PICK Bad \in SUBSET (SUBSET S) : Bad = {s \in SUBSET S : iter[s] \notin Checksums}
    OBVIOUS
  <2>2. IsFiniteSet(S) /\ Bad # {}
    BY <1>1, <1>6, <2>1, FS_Interval
  <2>3. PICK s \in Bad : \A x \in s : s \ {x} \notin Bad
    <3>1. \E s \in Bad : Smallest(s, Bad)
      BY <2>2, SmallestOf
    <3> QED
      BY ONLY <3>1 DEF Smallest
  <2>4. s # {}
    BY <1>4, <1>5, <2>1
  <2>5. Max(s) \in s /\ Max(s) \in S
    BY <1>1, <2>4, MaxIsIn
  <2>6. iter[s \ {Max(s)}] \in Checksums /\ id[Max(s)] \in {0, 1}
    BY <1>1, <2>1, <2>3, <2>5
  <2>7. iter[s] = ShiftIn(iter[s \ {Max(s)}], id[Max(s)])
    BY <1>4, <2>4
  <2> QED
    BY <2>1, <2>6, <2>7, ShiftsIn
<1> QED
  BY <1>2, <1>6

(***************************************************************************)
(* What a clip says.                                                       *)
(***************************************************************************)
Softs == [Copies -> [Block -> Int]]
Votes == [Block -> {0, 1}]

LEMMA Sizes ==
  /\ IdBits \in Nat \ {0} /\ CrcBits \in Nat \ {0} /\ Reps \in Nat \ {0}
  /\ BlockBits \in Nat \ {0} /\ BlockBits = IdBits + CrcBits
  /\ Copies = 1 .. Reps /\ Block = 1 .. BlockBits
  /\ IsFiniteSet(Copies) /\ Cardinality(Copies) = Reps /\ Copies # {}
  /\ IsFiniteSet(Block) /\ Cardinality(Block) = BlockBits
<1>1. /\ IdBits \in Nat \ {0} /\ CrcBits \in Nat \ {0} /\ Reps \in Nat \ {0}
      /\ BlockBits \in Nat \ {0} /\ BlockBits = IdBits + CrcBits
  BY ClipAssumption DEF BlockBits
<1>2. \A n \in Nat \ {0} : IsFiniteSet(1 .. n) /\ Cardinality(1 .. n) = n /\ 1 \in 1 .. n
  BY FS_Interval
<1> HIDE DEF BlockBits
<1> QED
  BY <1>1, <1>2 DEF Copies, Block

LEMMA SoftsAre ==
  Soft \subseteq Softs
BY WatermarkAssumption DEF Softs

LEMMA TotalIs ==
  ASSUME NEW fs \in Seq(Softs)
  PROVE  Total(fs) \in Softs
<1>1. IsFiniteSet(DOMAIN fs) /\ \A k \in DOMAIN fs : fs[k] \in Softs
  <2>1. Len(fs) \in Nat /\ DOMAIN fs = 1 .. Len(fs)
    OBVIOUS
  <2> QED
    BY <2>1, FS_Interval
<1>2. ASSUME NEW r \in Copies, NEW i \in Block
      PROVE  FoldFunctionOnSet(+, 0, [k \in DOMAIN fs |-> fs[k][r][i]], DOMAIN fs) \in Int
  <2>1. PICK S : S = DOMAIN fs
    OBVIOUS
  <2>2. PICK fun : fun = [k \in DOMAIN fs |-> fs[k][r][i]]
    OBVIOUS
  <2>3. IsFiniteSet(S) /\ \A x \in S : fun[x] \in Int
    BY <1>1, <2>1, <2>2 DEF Softs
  <2>4. SumOf(fun, S) \in Int
    BY <2>3, SumSigns
  <2> QED
    BY <2>1, <2>2, <2>4 DEF SumOf
<1> QED
  BY <1>2 DEF Total, Softs

LEMMA CombinedSigns ==
  ASSUME NEW soft \in Softs, NEW i \in Block
  PROVE  /\ (\A r \in Copies : soft[r][i] > 0) => Combined(soft, i) > 0
         /\ (\A r \in Copies : ~(soft[r][i] > 0)) => ~(Combined(soft, i) > 0)
<1>1. PICK fun : fun = [r \in Copies |-> soft[r][i]]
  OBVIOUS
<1>2. IsFiniteSet(Copies) /\ Copies # {} /\ \A r \in Copies : fun[r] \in Int /\ fun[r] = soft[r][i]
  BY <1>1, Sizes DEF Softs
<1>3. /\ (\A r \in Copies : fun[r] > 0) => SumOf(fun, Copies) > 0
      /\ (\A r \in Copies : ~(fun[r] > 0)) => ~(SumOf(fun, Copies) > 0)
  BY <1>2, SumSigns
<1>4. Combined(soft, i) = SumOf(fun, Copies)
  BY <1>1 DEF Combined, SumOf
<1> QED
  BY <1>2, <1>3, <1>4

\* The places counted are places.
LEMMA AgreeingIs ==
  ASSUME NEW soft, NEW vote
  PROVE  Agreeing(soft, vote) \in Nat
<1>1. PICK places : places = {p \in Copies \X Block : (soft[p[1]][p[2]] > 0) <=> (vote[p[2]] = 1)}
  OBVIOUS
<1>2. IsFiniteSet(Copies \X Block)
  BY Sizes, FS_Product
<1>3. places \subseteq Copies \X Block
  BY <1>1
<1>4. Cardinality(places) \in Nat
  BY <1>2, <1>3, FS_Subset, FS_CardinalityType
<1> QED
  BY <1>1, <1>4 DEF Agreeing

LEMMA AllAgree ==
  ASSUME NEW soft, NEW vote, Agreeing(soft, vote) = Reps * BlockBits
  PROVE  \A r \in Copies, i \in Block : (soft[r][i] > 0) <=> (vote[i] = 1)
<1>1. PICK places : places = {p \in Copies \X Block : (soft[p[1]][p[2]] > 0) <=> (vote[p[2]] = 1)}
  OBVIOUS
<1>2. IsFiniteSet(Copies \X Block) /\ Cardinality(Copies \X Block) = Reps * BlockBits
  <2>1. PICK rows : rows = Copies /\ IsFiniteSet(rows) /\ Cardinality(rows) = Reps
    BY Sizes
  <2>2. PICK cols : cols = Block /\ IsFiniteSet(cols) /\ Cardinality(cols) = BlockBits
    BY Sizes
  <2>3. IsFiniteSet(rows \X cols) /\ Cardinality(rows \X cols) = Cardinality(rows) * Cardinality(cols)
    BY ONLY <2>1, <2>2, FS_Product
  <2> QED
    BY <2>1, <2>2, <2>3
<1>3. places \subseteq Copies \X Block
  BY <1>1
<1>4. Cardinality(places) = Cardinality(Copies \X Block)
  BY <1>1, <1>2 DEF Agreeing
<1>5. places = Copies \X Block
  BY <1>2, <1>3, <1>4, FS_Subset
<1>6. ASSUME NEW r \in Copies, NEW i \in Block PROVE (soft[r][i] > 0) <=> (vote[i] = 1)
  <2>1. <<r, i>> \in places
    BY <1>5
  <2> QED
    BY <1>1, <2>1
<1> QED
  BY <1>6

LEMMA VoteIs ==
  ASSUME NEW soft
  PROVE  Vote(soft) \in Votes
BY DEF Vote, Votes

LEMMA EncodedIs ==
  ASSUME NEW id \in MarkIds
  PROVE  /\ Encoded(id) \in Votes
         /\ SubSeq(Encoded(id), 1, IdBits) = id
<1>1. /\ id \in Seq({0, 1}) /\ Len(id) = IdBits
      /\ crc(id) \in Seq({0, 1}) /\ Len(crc(id)) = CrcBits
  <2>1. crc(id) \in [1 .. CrcBits -> {0, 1}] /\ id \in [1 .. IdBits -> {0, 1}]
    BY CrcIsOne DEF Checksums, MarkIds
  <2>2. IdBits \in Nat /\ CrcBits \in Nat
    BY Sizes
  <2> QED
    BY ONLY <2>1, <2>2
<1>2. /\ Encoded(id) \in Seq({0, 1}) /\ Len(Encoded(id)) = BlockBits
      /\ \A i \in 1 .. IdBits : Encoded(id)[i] = id[i]
  BY <1>1, Sizes DEF Encoded
<1>3. Encoded(id) \in Votes
  BY <1>2, Sizes DEF Votes
<1>4. SubSeq(Encoded(id), 1, IdBits) = [i \in 1 .. IdBits |-> Encoded(id)[i]]
  BY <1>2, Sizes
<1>5. id = [i \in 1 .. IdBits |-> id[i]]
  BY DEF MarkIds
<1> QED
  BY <1>2, <1>3, <1>4, <1>5

\* An id that is read is one, and the vote is its block.
LEMMA IdIs ==
  ASSUME NEW vote \in Votes, IdIn(vote) # NoId
  PROVE  IdIn(vote) \in MarkIds /\ vote = Encoded(IdIn(vote))
<1>1. IdIn(vote) = SubSeq(vote, 1, IdBits) /\ vote = Encoded(IdIn(vote))
  BY DEF IdIn
<1>2. SubSeq(vote, 1, IdBits) = [i \in 1 .. IdBits |-> vote[i]]
  BY Sizes DEF Votes
<1>3. \A i \in 1 .. IdBits : vote[i] \in {0, 1}
  BY Sizes DEF Votes
<1> QED
  BY <1>1, <1>2, <1>3 DEF MarkIds

\* What decodeClip makes of its frames.
LEMMA ClipIs ==
  ASSUME NEW fs \in Seq(Softs), NEW clip, clip = decodeClip(fs),
         NEW raw, raw = decodeBlock(Total(fs))
  PROVE  /\ clip.markId # NoId =>
              /\ clip.markId \in MarkIds /\ Carries(fs, clip.markId)
              /\ clip.markId = raw.markId /\ ~UnderFloor(clip.agreed)
         /\ clip.markId # raw.markId => clip.markId = NoId /\ UnderFloor(clip.agreed)
         /\ raw.markId # NoId => raw.markId \in MarkIds
         /\ clip.agreed = Agreeing(Total(fs), Vote(Total(fs))) /\ clip.agreed \in Nat
         /\ clip.withId \in Int /\ clip.withId <= Len(fs)
<1> DEFINE vote == Vote(Total(fs))
<1>1. vote \in Votes
  BY VoteIs
<1>2. raw = [markId |-> IdIn(vote), agreed |-> Agreeing(Total(fs), vote), refused |-> FALSE]
  BY DEF decodeBlock
<1>3. IdIn(vote) # NoId => IdIn(vote) \in MarkIds /\ vote = Encoded(IdIn(vote))
  BY <1>1, IdIs
<1> HIDE DEF vote
<1>4. /\ floored(raw).agreed = raw.agreed
      /\ floored(raw).markId = IF raw.markId # NoId /\ UnderFloor(raw.agreed) THEN NoId ELSE raw.markId
  BY <1>2 DEF floored
<1>5. /\ clip.markId = floored(raw).markId /\ clip.agreed = floored(raw).agreed
      /\ \/ clip.withId = NoCount
         \/ \E ids : clip.withId = Cardinality({k \in DOMAIN fs : ids[k].markId = floored(raw).markId})
  <2>1. PICK blocks : blocks = [k \in DOMAIN fs |-> decodeBlock(fs[k])]
    OBVIOUS
  <2>2. DOMAIN blocks = DOMAIN fs /\ clip = readClip(raw, blocks)
    BY <2>1 DEF decodeClip
  <2>3. /\ clip.markId = floored(raw).markId /\ clip.agreed = floored(raw).agreed
        /\ clip.withId = IF floored(raw).markId = NoId THEN NoCount
                         ELSE Cardinality({k \in DOMAIN blocks : blocks[k].markId = floored(raw).markId})
    BY <2>2 DEF readClip
  <2>4. {k \in DOMAIN blocks : blocks[k].markId = floored(raw).markId} =
        {k \in DOMAIN fs : blocks[k].markId = floored(raw).markId}
    BY <2>2
  <2> QED
    BY <2>3, <2>4
<1>6. clip.withId \in Int /\ clip.withId <= Len(fs)
  <2>1. Len(fs) \in Nat /\ DOMAIN fs = 1 .. Len(fs)
    OBVIOUS
  <2>2. ASSUME NEW ids, clip.withId = Cardinality({k \in DOMAIN fs : ids[k].markId = floored(raw).markId})
        PROVE  clip.withId \in Int /\ clip.withId <= Len(fs)
    <3>1. PICK some : some = {k \in DOMAIN fs : ids[k].markId = floored(raw).markId}
      OBVIOUS
    <3>2. IsFiniteSet(1 .. Len(fs)) /\ Cardinality(1 .. Len(fs)) = Len(fs)
      BY <2>1, FS_Interval
    <3>3. some \subseteq 1 .. Len(fs)
      BY <2>1, <3>1
    <3>4. Cardinality(some) \in Nat /\ Cardinality(some) <= Len(fs)
      BY <3>2, <3>3, FS_Subset, FS_CardinalityType
    <3> QED
      BY <2>2, <3>1, <3>4
  <2>3. ASSUME clip.withId = NoCount PROVE clip.withId \in Int /\ clip.withId <= Len(fs)
    BY <2>1, <2>3 DEF NoCount
  <2> QED
    BY <1>5, <2>2, <2>3
<1>7. Agreeing(Total(fs), vote) \in Nat
  BY AgreeingIs
<1>8. ASSUME clip.markId # NoId PROVE Carries(fs, clip.markId)
  <2>1. clip.markId = IdIn(vote) /\ ~UnderFloor(Agreeing(Total(fs), vote))
    BY <1>2, <1>4, <1>5, <1>8
  <2>2. vote = Encoded(clip.markId)
    BY <1>3, <1>8, <2>1
  <2> QED
    BY <2>1, <2>2 DEF Carries
<1>9. /\ clip.markId = IF IdIn(vote) # NoId /\ UnderFloor(Agreeing(Total(fs), vote))
                       THEN NoId ELSE IdIn(vote)
      /\ clip.agreed = Agreeing(Total(fs), vote) /\ raw.markId = IdIn(vote)
  BY <1>2, <1>4, <1>5
<1>10. clip.agreed = Agreeing(Total(fs), Vote(Total(fs)))
  BY <1>9 DEF vote
<1> QED
  BY <1>3, <1>6, <1>7, <1>8, <1>9, <1>10

\* A clip that carries an id in every place is read.
LEMMA FullIsRead ==
  ASSUME NEW fs \in Seq(Softs), NEW id \in MarkIds, 1 \in Range(id),
         Agreeing(Total(fs), Encoded(id)) = Reps * BlockBits
  PROVE  decodeClip(fs).markId = id
<1> DEFINE soft == Total(fs)
<1>1. soft \in Softs
  BY TotalIs
<1>2. Encoded(id) \in Votes /\ SubSeq(Encoded(id), 1, IdBits) = id
  BY EncodedIs
<1>3. \A r \in Copies, i \in Block : (soft[r][i] > 0) <=> (Encoded(id)[i] = 1)
  BY AllAgree
<1> HIDE DEF soft
<1>4. Vote(soft) = Encoded(id)
  <2>1. ASSUME NEW i \in Block
        PROVE  (IF Combined(soft, i) > 0 THEN 1 ELSE 0) = Encoded(id)[i]
    <3>1. Encoded(id)[i] \in {0, 1}
      BY <1>2 DEF Votes
    <3> QED
      BY <1>1, <1>3, <3>1, CombinedSigns
  <2>2. Encoded(id) = [i \in Block |-> Encoded(id)[i]]
    BY <1>2 DEF Votes
  <2> QED
    BY <2>1, <2>2 DEF Vote
<1>5. IdIn(Vote(soft)) = id
  <2>1. \E i \in 1 .. IdBits : id[i] = 1
    BY DEF Range, MarkIds
  <2>2. ~\A i \in 1 .. IdBits : id[i] = 0
    BY <2>1
  <2>3. SubSeq(Vote(soft), 1, IdBits) = id
    BY <1>2, <1>4
  <2>4. Vote(soft) = Encoded(SubSeq(Vote(soft), 1, IdBits))
    BY <1>4, <2>3
  <2> QED
    BY ONLY <2>2, <2>3, <2>4 DEF IdIn
<1>6. ~UnderFloor(Agreeing(soft, Vote(soft)))
  <2>1. PICK n \in Nat : n = Reps * BlockBits
    BY Sizes
  <2>2. Agreeing(soft, Vote(soft)) = n
    BY <1>4, <2>1 DEF soft
  <2>3. 85 * Reps * BlockBits = 85 * n
    BY <2>1, Sizes
  <2> QED
    BY <2>2, <2>3 DEF UnderFloor
<1>7. decodeClip(fs).markId = floored(decodeBlock(soft)).markId
  BY DEF decodeClip, readClip, soft
<1>8. floored(decodeBlock(soft)).markId = id
  BY <1>5, <1>6 DEF floored, decodeBlock
<1> QED
  BY <1>7, <1>8

(***************************************************************************)
(* What is reported and how it is compared.                                *)
(***************************************************************************)
Considered(e, c) ==
  /\ e # NoEvidence /\ c.layout \in {Photo, Video}
  /\ e.layout \in {Unsaid, c.layout} /\ DeclaredId(c) # Absent
NamesAnId(e, c) ==
  /\ e.decoded \notin {Absent, Unreadable}
  /\ c.layout # Photo => e.agreement # NoNumber /\ FloorAllows(e)
FindsNone(e, c) ==
  \/ e.decoded = Absent
  \/ /\ e.decoded # Unreadable /\ c.layout # Photo
     /\ e.agreement # NoNumber /\ ~FloorAllows(e)

LEMMA ResultIs ==
  ASSUME NEW e, NEW c, NEW result, result = evaluateWatermark(e, c).result
  PROVE  result = IF ~Considered(e, c) THEN "not_evaluated"
                  ELSE IF NamesAnId(e, c)
                       THEN IF e.decoded = DeclaredId(c) THEN "matched" ELSE "contradicted"
                       ELSE IF FindsNone(e, c) THEN "not_recovered" ELSE "not_evaluated"
<1>1. \A o, refused, count : Outcome(o, refused, count).result = o
  BY DEF Outcome
<1>2. NotEvaluated.result = "not_evaluated"
  BY <1>1 DEF NotEvaluated
<1>3. Compared(e, c).result = IF e.decoded = DeclaredId(c) THEN "matched" ELSE "contradicted"
  BY DEF Compared, Outcome
<1>4. CASE ~Considered(e, c)
  BY <1>2, <1>4 DEF evaluateWatermark, Considered
<1>5. CASE Considered(e, c)
  <2>1. result = AnswerFor(e, c).result
    BY <1>5 DEF evaluateWatermark, Considered
  <2>2. CASE e.decoded = Absent
    <3>1. result = "not_recovered"
      <4>1. AnswerFor(e, c) = Outcome("not_recovered", c.layout = Video /\ e.id_refused, NoNumber)
        <5>1. Absent # Unreadable
          BY DEF Absent, NoId, Unreadable
        <5> QED
          BY ONLY <2>2, <5>1 DEF AnswerFor
      <4>2. Outcome("not_recovered", c.layout = Video /\ e.id_refused, NoNumber).result = "not_recovered"
        BY DEF Outcome
      <4> QED
        BY ONLY <2>1, <4>1, <4>2
    <3> QED
      BY <1>5, <2>2, <3>1 DEF NamesAnId, FindsNone
  <2>3. CASE e.decoded # Absent /\ e.decoded = Unreadable
    <3>1. result = "not_evaluated"
      BY <1>2, <2>1, <2>3 DEF AnswerFor
    <3> QED
      BY <1>5, <2>3, <3>1 DEF NamesAnId, FindsNone
  <2>4. CASE e.decoded # Absent /\ e.decoded # Unreadable
    <3>1. AnswerFor(e, c) = IF c.layout = Photo THEN Compared(e, c)
                            ELSE IF e.agreement = NoNumber THEN NotEvaluated
                            ELSE IF FloorAllows(e) THEN Compared(e, c)
                            ELSE Outcome("not_recovered", TRUE, NoNumber)
      BY ONLY <2>4 DEF AnswerFor
    <3>2. Outcome("not_recovered", TRUE, NoNumber).result = "not_recovered"
      BY <1>1
    <3>3. CASE c.layout = Photo
      <4>1. result = Compared(e, c).result /\ NamesAnId(e, c)
        BY <2>1, <2>4, <3>1, <3>3 DEF NamesAnId
      <4> QED
        BY <1>3, <1>5, <4>1
    <3>4. CASE c.layout # Photo /\ e.agreement = NoNumber
      <4>1. result = NotEvaluated.result /\ ~NamesAnId(e, c) /\ ~FindsNone(e, c)
        BY <2>1, <2>4, <3>1, <3>4 DEF NamesAnId, FindsNone
      <4> QED
        BY <1>2, <1>5, <4>1
    <3>5. CASE c.layout # Photo /\ e.agreement # NoNumber /\ FloorAllows(e)
      <4>1. result = Compared(e, c).result /\ NamesAnId(e, c)
        BY <2>1, <2>4, <3>1, <3>5 DEF NamesAnId
      <4> QED
        BY <1>3, <1>5, <4>1
    <3>6. CASE c.layout # Photo /\ e.agreement # NoNumber /\ ~FloorAllows(e)
      <4>1. result = "not_recovered" /\ ~NamesAnId(e, c) /\ FindsNone(e, c)
        BY <2>1, <2>4, <3>1, <3>2, <3>6 DEF NamesAnId, FindsNone
      <4> QED
        BY <1>5, <4>1
    <3> QED
      BY <3>3, <3>4, <3>5, <3>6
  <2> QED
    BY <2>2, <2>3, <2>4
<1> QED
  BY <1>4, <1>5

StillEvidence ==
  [ layout |-> Photo, decoded |-> IF payload = NoWord THEN Absent ELSE payload,
    agreement |-> NoNumber, id_refused |-> FALSE, sampled |-> 1, withId |-> NoNumber ]
WholeReport == IF claim.layout = Video THEN ClipEvidence ELSE StillEvidence
\* A report without one of its members.
Lessened(e) ==
  \/ e = [WholeReport EXCEPT !.layout = Unsaid]
  \/ \E lost \in {Absent, Unreadable} : e = [WholeReport EXCEPT !.decoded = lost]
  \/ \E figure \in {"agreement", "sampled", "withId"} : e = [WholeReport EXCEPT ![figure] = NoNumber]
  \/ e = [WholeReport EXCEPT !.id_refused = FALSE]

\* The clip and what was said of it, the still's word once it is decoded, and the report:
\* what was read, or that without a member.
MarkInv ==
  /\ frames \in Seq(Softs)
  /\ shown # NoId => shown = decodeClip(frames).markId
  /\ (turn # 0 \/ payload # Undecided) => syndromes # << >>
  /\ evidence # NoEvidence =>
       /\ claim.layout = Video \/ payload # Undecided
       /\ ~relayed => evidence = WholeReport
       /\ relayed => Lessened(evidence)
  /\ relayed => evidence # NoEvidence

LEMMA MarkStarts ==
  ASSUME Init
  PROVE  MarkInv
<1>1. frames = << >> /\ shown = NoId /\ evidence = NoEvidence /\ relayed = FALSE
  BY DEF Init, WatermarkInit
<1>2. turn = 0 /\ payload = Undecided
  BY DEF Init, PhotoInit
<1> QED
  BY <1>1, <1>2 DEF MarkInv

\* A still that is decoded stays so.
LEMMA StillKept ==
  ASSUME MarkInv, PhotoNext
  PROVE  /\ payload # Undecided => payload' = payload
         /\ (turn' # 0 \/ payload' # Undecided) => syndromes' # << >>
<1>1. T \in Nat \ {0}
  BY EmbeddedAssumption
<1>2. CASE TakeIn
  <2>1. syndromes = << >> /\ syndromes' = SyndromesOf(word)
    BY <1>2 DEF TakeIn
  <2>2. 1 \in DOMAIN SyndromesOf(word)
    BY <1>1 DEF SyndromesOf
  <2>3. syndromes' # << >>
    BY <2>1, <2>2
  <2> QED
    BY <2>1, <2>3 DEF MarkInv
<1>3. CASE Turn
  BY <1>3 DEF Turn
<1>4. CASE Correct
  <2>1. turn = 2 * T /\ payload = Undecided /\ UNCHANGED syndromes
    BY <1>4 DEF Correct
  <2>2. turn # 0
    BY <1>1, <2>1
  <2> QED
    BY <2>1, <2>2 DEF MarkInv
<1> QED
  BY <1>2, <1>3, <1>4 DEF PhotoNext

LEMMA MarkKept ==
  ASSUME MarkInv, [Next]_readingVars
  PROVE  MarkInv'
<1>1. CASE UNCHANGED <<photoVars, watermarkVars>>
  <2>1. WholeReport' = WholeReport
    BY <1>1 DEF WholeReport, ClipEvidence, StillEvidence, photoVars, watermarkVars
  <2> QED
    BY <1>1, <2>1 DEF MarkInv, Lessened, photoVars, watermarkVars
<1>2. ASSUME NEW soft \in Soft, Sample(soft), UNCHANGED photoVars PROVE MarkInv'
  <2>1. /\ evidence = NoEvidence /\ frames' = Append(frames, soft)
        /\ shown' = decodeClip(frames').markId /\ UNCHANGED <<claim, evidence, relayed>>
    BY <1>2 DEF Sample
  <2>2. frames' \in Seq(Softs)
    BY <1>2, <2>1, SoftsAre, AppendProperties DEF MarkInv
  <2> QED
    BY <1>2, <2>1, <2>2 DEF MarkInv, photoVars
<1>3. CASE Report /\ UNCHANGED photoVars
  <2>1. evidence = NoEvidence /\ UNCHANGED <<claim, frames, shown, relayed>> /\ ~relayed
    BY <1>3 DEF Report, MarkInv
  <2>2. WholeReport' = WholeReport
    BY <1>3, <2>1 DEF WholeReport, ClipEvidence, StillEvidence, photoVars
  <2>3. evidence' = WholeReport /\ (claim.layout = Video \/ payload # Undecided)
    BY <1>3 DEF Report, WholeReport, StillEvidence
  <2> QED
    BY <1>3, <2>1, <2>2, <2>3 DEF MarkInv, photoVars
<1>4. CASE Relay /\ UNCHANGED photoVars
  <2>1. /\ evidence # NoEvidence /\ ~relayed /\ relayed'
        /\ UNCHANGED <<claim, frames, shown>> /\ evidence = WholeReport
    BY <1>4 DEF Relay, MarkInv
  <2>2. WholeReport' = WholeReport
    BY <1>4, <2>1 DEF WholeReport, ClipEvidence, StillEvidence, photoVars
  <2>3. Lessened(evidence')
    BY <1>4, <2>1 DEF Relay, Lessened
  <2>4. evidence' # NoEvidence
    <3>1. "decoded" \in DOMAIN evidence'
      <4>1. "decoded" \in DOMAIN WholeReport
        BY DEF WholeReport, ClipEvidence, StillEvidence
      <4>2. DOMAIN evidence' = DOMAIN WholeReport
        BY <2>3 DEF Lessened
      <4> QED
        BY <4>1, <4>2
    <3>2. "decoded" \notin DOMAIN NoEvidence
      BY DEF NoEvidence
    <3> QED
      BY <3>1, <3>2
  <2>5. Lessened(evidence)'
    BY <2>2, <2>3 DEF Lessened
  <2> QED
    BY <1>4, <2>1, <2>4, <2>5 DEF MarkInv, photoVars
<1>5. CASE DecodeStill
  <2>1. claim.layout # Video /\ PhotoNext /\ UNCHANGED <<claim, frames, shown, evidence, relayed>>
    BY <1>5 DEF DecodeStill, watermarkVars
  <2>2. ASSUME evidence # NoEvidence PROVE payload' = payload /\ WholeReport' = WholeReport
    <3>1. payload' = payload
      BY <2>1, <2>2, StillKept DEF MarkInv
    <3> QED
      BY <2>1, <3>1 DEF WholeReport, StillEvidence
  <2> QED
    BY <2>1, <2>2, StillKept DEF MarkInv, Lessened
<1> QED
  BY <1>1, <1>2, <1>3, <1>4, <1>5 DEF Next, WatermarkNext, readingVars, photoVars, watermarkVars

\* What an answer that names an id rests on.
LEMMA ReadFrom ==
  ASSUME MarkInv, evidence # NoEvidence, NamesAnId(evidence, claim)
  PROVE  /\ evidence.decoded = WholeReport.decoded
         /\ claim.layout # Photo => /\ evidence.agreement = WholeReport.agreement
                                    /\ ~UnderFloor(WholeReport.agreement)
<1>1. evidence.decoded \notin {Absent, Unreadable}
      /\ (claim.layout # Photo => evidence.agreement # NoNumber /\ ~UnderFloor(evidence.agreement))
  BY DEF NamesAnId, FloorAllows
<1>2. evidence = WholeReport \/ Lessened(evidence)
  BY DEF MarkInv
<1>3. /\ evidence.decoded = WholeReport.decoded \/ evidence.decoded \in {Absent, Unreadable}
      /\ evidence.agreement = WholeReport.agreement \/ evidence.agreement = NoNumber
  <2>1. DOMAIN WholeReport = {"layout", "decoded", "agreement", "id_refused", "sampled", "withId"}
    BY DEF WholeReport, ClipEvidence, StillEvidence
  <2> QED
    BY <1>2, <2>1 DEF Lessened
<1> QED
  BY <1>1, <1>3

LEMMA ClipSays ==
  ASSUME MarkInv, claim.layout = Video
  PROVE  /\ WholeReport.layout = Video /\ WholeReport.decoded = decodeClip(frames).markId
         /\ WholeReport.agreement = decodeClip(frames).agreed /\ WholeReport.withId = decodeClip(frames).withId
BY DEF WholeReport, ClipEvidence

LEMMA StillSays ==
  ASSUME claim.layout = Photo
  PROVE  WholeReport.decoded = IF payload = NoWord THEN Absent ELSE payload
<1>1. Photo # Video
  BY DEF Photo, Video
<1> QED
  BY <1>1 DEF WholeReport, StillEvidence

LEMMA MatchesAreEarned ==
  ASSUME MarkInv
  PROVE  /\ Result = "matched" => InThePixels(DeclaredId(claim))
         /\ Result = "contradicted" =>
              IF claim.layout = Photo THEN payload \notin {NoWord, claim.captureId}
              ELSE \E id \in MarkIds \ {claim.markId} : Carries(frames, id)
<1> SUFFICES ASSUME Result \in {"matched", "contradicted"}
             PROVE  /\ Result = "matched" => InThePixels(DeclaredId(claim))
                    /\ Result = "contradicted" =>
                         IF claim.layout = Photo THEN payload \notin {NoWord, claim.captureId}
                         ELSE \E id \in MarkIds \ {claim.markId} : Carries(frames, id)
  OBVIOUS
<1>1. /\ Considered(evidence, claim) /\ NamesAnId(evidence, claim)
      /\ Result = IF evidence.decoded = DeclaredId(claim) THEN "matched" ELSE "contradicted"
  BY ResultIs DEF Result
<1>2. /\ evidence # NoEvidence /\ claim.layout \in {Photo, Video}
      /\ evidence.decoded \notin {Absent, Unreadable}
  BY <1>1 DEF Considered, NamesAnId
<1>3. evidence.decoded = WholeReport.decoded
  BY <1>1, <1>2, ReadFrom
<1>4. CASE claim.layout = Photo
  <2>1. payload # NoWord /\ evidence.decoded = payload
    BY <1>2, <1>3, <1>4, StillSays
  <2>2. DeclaredId(claim) = claim.captureId
    BY <1>4 DEF DeclaredId
  <2> QED
    BY <1>1, <1>4, <2>1, <2>2 DEF InThePixels
<1>5. CASE claim.layout = Video
  <2>1. claim.layout # Photo /\ DeclaredId(claim) = claim.markId
    BY <1>5 DEF DeclaredId, Photo, Video
  <2>2. PICK id : id = decodeClip(frames).markId
    OBVIOUS
  <2>3. evidence.decoded = id /\ id # NoId
    BY <1>2, <1>3, <1>5, <2>2, ClipSays DEF Absent
  <2>4. id \in MarkIds /\ Carries(frames, id)
    BY <2>2, <2>3, ClipIs DEF MarkInv
  <2> QED
    BY <1>1, <2>1, <2>3, <2>4 DEF InThePixels
<1> QED
  BY <1>2, <1>4, <1>5

\* It makes no difference where an id is refused.
LEMMA RefusedAnywhere ==
  ASSUME MarkInv, evidence # NoEvidence, claim.layout = Video, ~relayed
  PROVE  /\ Result = evaluateWatermark(Raw, claim).result
         /\ evidence.withId <= Len(frames)
<1> DEFINE clip == decodeClip(frames)
           raw == decodeBlock(Total(frames))
<1>1. evidence = WholeReport /\ frames \in Seq(Softs)
  BY DEF MarkInv
<1>2. /\ clip.markId # raw.markId => clip.markId = NoId /\ UnderFloor(clip.agreed)
      /\ raw.markId # NoId => raw.markId \in MarkIds
      /\ clip.agreed \in Nat /\ clip.withId <= Len(frames)
      /\ clip.markId # NoId => ~UnderFloor(clip.agreed)
  BY <1>1, ClipIs
<1> HIDE DEF clip, raw
<1>3. /\ evidence.layout = Video /\ evidence.decoded = clip.markId
      /\ evidence.agreement = clip.agreed /\ evidence.withId = clip.withId
      /\ DOMAIN evidence = {"layout", "decoded", "agreement", "id_refused", "sampled", "withId"}
  BY <1>1 DEF WholeReport, ClipEvidence, clip
<1>4. /\ Raw.layout = Video /\ Raw.decoded = raw.markId /\ Raw.agreement = clip.agreed
      /\ Raw # NoEvidence
  <2>1. Raw = [evidence EXCEPT !.decoded = raw.markId, !.id_refused = FALSE]
    BY DEF Raw, raw
  <2>2. /\ Raw.layout = Video /\ Raw.decoded = raw.markId /\ Raw.agreement = clip.agreed
    BY <1>3, <2>1
  <2> QED
    BY <2>2 DEF NoEvidence, Video
<1>5. Considered(Raw, claim) <=> Considered(evidence, claim)
  BY <1>3, <1>4 DEF Considered
<1>6. CASE clip.markId = raw.markId
  <2>1. /\ NamesAnId(Raw, claim) <=> NamesAnId(evidence, claim)
        /\ FindsNone(Raw, claim) <=> FindsNone(evidence, claim)
        /\ Raw.decoded = evidence.decoded
    BY <1>3, <1>4, <1>6 DEF NamesAnId, FindsNone, FloorAllows
  <2> QED
    BY <1>2, <1>3, <1>5, <2>1, ResultIs DEF Result
<1>7. CASE clip.markId # raw.markId
  <2>1. clip.markId = NoId /\ UnderFloor(clip.agreed) /\ raw.markId \in MarkIds /\ raw.markId # NoId
    BY <1>2, <1>7
  <2>2. raw.markId # Unreadable /\ raw.markId # Absent /\ clip.agreed # NoNumber
    <3>1. raw.markId \in [1 .. IdBits -> {0, 1}] /\ 1 \in 1 .. IdBits
      BY <2>1, Sizes DEF MarkIds
    <3>2. raw.markId[1] \in {0, 1}
      BY <3>1
    <3>3. Unreadable[1] = -1
      BY DEF Unreadable
    <3> QED
      BY <1>2, <2>1, <3>2, <3>3 DEF Absent, NoNumber, NoCount
  <2>3. claim.layout # Photo
    BY DEF Photo, Video
  <2>4. ~NamesAnId(evidence, claim) /\ FindsNone(evidence, claim)
    BY <1>3, <2>1 DEF NamesAnId, FindsNone, Absent
  <2>5. ~NamesAnId(Raw, claim) /\ FindsNone(Raw, claim)
    BY <1>4, <2>1, <2>2, <2>3 DEF NamesAnId, FindsNone, FloorAllows
  <2> QED
    BY <1>2, <1>3, <1>5, <2>4, <2>5, ResultIs DEF Result
<1> QED
  BY <1>6, <1>7

\* A report handed on without a member says at most what it said whole.
LEMMA LessGivesNoMore ==
  ASSUME MarkInv, relayed, Result \in {"matched", "contradicted"}
  PROVE  LET whole == IF claim.layout = Video THEN ClipEvidence
                      ELSE [evidence EXCEPT !.layout = Photo] IN
         Result = evaluateWatermark(whole, claim).result
<1> SUFFICES ASSUME NEW whole, whole = IF claim.layout = Video THEN ClipEvidence
                                       ELSE [evidence EXCEPT !.layout = Photo]
             PROVE  Result = evaluateWatermark(whole, claim).result
  OBVIOUS
<1>1. /\ Considered(evidence, claim) /\ NamesAnId(evidence, claim)
      /\ Result = IF evidence.decoded = DeclaredId(claim) THEN "matched" ELSE "contradicted"
  BY ResultIs DEF Result
<1>2. evidence # NoEvidence /\ claim.layout \in {Photo, Video} /\ DeclaredId(claim) # Absent
  BY <1>1 DEF Considered
<1>3. /\ evidence.decoded = WholeReport.decoded
      /\ claim.layout # Photo => evidence.agreement = WholeReport.agreement
  BY <1>1, <1>2, ReadFrom
<1>4. /\ whole.layout = claim.layout /\ whole.decoded = evidence.decoded
      /\ claim.layout # Photo => whole.agreement = evidence.agreement
  <2>1. CASE claim.layout = Video
    BY <1>3, <2>1 DEF WholeReport, ClipEvidence
  <2>2. CASE claim.layout = Photo
    <3>1. claim.layout # Video
      BY <2>2 DEF Photo, Video
    <3>2. Lessened(evidence)
      BY <1>2 DEF MarkInv
    <3>3. DOMAIN WholeReport = {"layout", "decoded", "agreement", "id_refused", "sampled", "withId"}
      BY DEF WholeReport, ClipEvidence, StillEvidence
    <3>4. DOMAIN evidence = DOMAIN WholeReport
      BY <3>2 DEF Lessened
    <3> QED
      BY <2>2, <3>1, <3>3, <3>4
  <2> QED
    BY <1>2, <2>1, <2>2
<1>5. whole # NoEvidence
  BY <1>2, <1>4 DEF NoEvidence, Photo, Video
<1>6. Considered(whole, claim)
  BY <1>2, <1>4, <1>5 DEF Considered
<1>7. NamesAnId(whole, claim)
  BY <1>1, <1>4 DEF NamesAnId, FloorAllows
<1> QED
  BY <1>1, <1>4, <1>6, <1>7, ResultIs

\* However many frames are read and whatever is lost of the report, what comes back from
\* the pixels is what decides (layouts.ts, readClip; watermark.ts, evaluateWatermark).
THEOREM MarksAreEarned == Spec => []ReadingIsEarned
<1>1. MarkInv => ReadingIsEarned
  <2> SUFFICES ASSUME MarkInv PROVE ReadingIsEarned
    OBVIOUS
  <2>1. shown # NoId => Carries(frames, shown)
    <3>1. ASSUME shown # NoId PROVE Carries(frames, shown)
      BY <3>1, ClipIs DEF MarkInv
    <3> QED
      BY <3>1
  <2>2. ASSUME NEW id \in MarkIds, 1 \in Range(id),
               Agreeing(Total(frames), Encoded(id)) = Reps * BlockBits
        PROVE  decodeClip(frames).markId = id
    BY <2>2, FullIsRead DEF MarkInv
  <2> QED
    BY <2>1, <2>2, MatchesAreEarned, RefusedAnywhere, LessGivesNoMore DEF ReadingIsEarned
<1> QED
  BY <1>1, MarkStarts, MarkKept, PTL DEF Spec

(***************************************************************************)
(* The photo: whatever the search for the locator comes to, what is        *)
(* reported is the id of a codeword near to what was read.                 *)
(***************************************************************************)
NearACodeword ==
  payload \notin {Undecided, NoWord} =>
    Clean(SyndromesOf(word)) /\ payload = Payload(word) /\ Distance(came, word) <= T

PhotoInv ==
  /\ came \in Words /\ word \in Words
  /\ payload = Undecided => word = came
  /\ NearACodeword

LEMMA WordsAre ==
  /\ CodeBits \in Nat /\ T \in Nat
  /\ IsFiniteSet(0 .. CodeBits - 1)
  /\ \A w \in Words : DOMAIN w = 0 .. CodeBits - 1 /\ \A i \in DOMAIN w : w[i] \in {0, 1}
<1>1. CodeBits \in Nat /\ T \in Nat
  BY EmbeddedAssumption DEF CodeBits
<1> QED
  BY <1>1, FS_Interval DEF Words

LEMMA FlippedIs ==
  ASSUME NEW w \in Words, NEW places
  PROVE  Flipped(w, places) \in Words
<1>1. \A i \in DOMAIN w : (IF CodeBits - 1 - i \in places THEN 1 - w[i] ELSE w[i]) \in {0, 1}
  BY WordsAre
<1> QED
  BY <1>1, WordsAre DEF Flipped, Words

LEMMA FlippedIsNear ==
  ASSUME NEW w \in Words, NEW places \in SUBSET (0 .. CodeBits - 1)
  PROVE  Distance(w, Flipped(w, places)) <= Cardinality(places)
<1>1. PICK differ : differ = {i \in DOMAIN w : w[i] # Flipped(w, places)[i]}
  OBVIOUS
<1>2. ASSUME NEW i \in differ PROVE CodeBits - 1 - i \in places
  BY <1>1 DEF Flipped
<1>3. PICK f : f = [i \in differ |-> CodeBits - 1 - i]
  OBVIOUS
<1>4. \A i \in differ : i \in Int
  BY <1>1, WordsAre
<1>5. f \in Injection(differ, places)
  <2>1. f \in [differ -> places]
    BY <1>2, <1>3
  <2>2. \A i, j \in differ : f[i] = f[j] => i = j
    BY <1>3, <1>4, WordsAre
  <2> QED
    BY <2>1, <2>2 DEF Injection, IsInjective
<1>6. IsFiniteSet(places)
  BY WordsAre, FS_Subset
<1>7. Cardinality(differ) <= Cardinality(places)
  BY <1>5, <1>6, FS_Injection DEF ExistsInjection
<1> QED
  BY <1>1, <1>7 DEF Distance

\* An answer is no longer undecided: the data begin at place 0, and no sequence does.
LEMMA PayloadIsDecided ==
  ASSUME NEW w
  PROVE  Payload(w) # Undecided
<1>1. NoWord # Undecided
  BY DEF NoWord, Undecided
<1>2. 0 \in DOMAIN Data(w)
  BY EmbeddedAssumption DEF Data
<1>3. 0 \notin DOMAIN Undecided
  BY DEF Undecided
<1>4. Data(w) # Undecided
  BY <1>2, <1>3
<1> QED
  BY <1>1, <1>4 DEF Payload

LEMMA PhotoStarts ==
  ASSUME Init
  PROVE  PhotoInv
<1>1. /\ sent \in Embedded /\ came \in {Flipped(sent, places) : places \in Wrong}
      /\ word = came /\ payload = Undecided
  BY DEF Init, PhotoInit
<1>2. came \in Words
  BY <1>1, EmbeddedAssumption, FlippedIs
<1> QED
  BY <1>1, <1>2 DEF PhotoInv, NearACodeword

LEMMA PhotoKept ==
  ASSUME PhotoInv, MarkInv, [Next]_readingVars
  PROVE  PhotoInv'
<1>1. CASE UNCHANGED photoVars
  BY <1>1 DEF PhotoInv, NearACodeword, photoVars
<1>2. CASE TakeIn
  <2>1. /\ syndromes' = SyndromesOf(word) /\ UNCHANGED <<came, word>> /\ payload = Undecided
        /\ payload' = IF Clean(syndromes') THEN Payload(word) ELSE payload
    BY <1>2 DEF TakeIn, MarkInv
  <2>2. Distance(came, came) <= T
    <3>1. {i \in DOMAIN came : came[i] # came[i]} = {}
      OBVIOUS
    <3>2. Distance(came, came) = 0
      BY <3>1, FS_EmptySet DEF Distance
    <3> QED
      BY <3>2, WordsAre
  <2> QED
    BY <2>1, <2>2 DEF PhotoInv, NearACodeword
<1>3. CASE Turn
  BY <1>3 DEF Turn, PhotoInv, NearACodeword
<1>4. CASE Correct
  <2>1. payload = Undecided /\ UNCHANGED came /\ word = came
    BY <1>4 DEF Correct, PhotoInv
  <2>2. CASE /\ PlacesAreErrors /\ Cardinality(Places) <= T
             /\ Clean(SyndromesOf(Flipped(word, Places)))
    <3>1. word' = Flipped(word, Places) /\ payload' = Payload(word')
      BY <1>4, <2>2 DEF Correct
    <3>2. PICK places : places = Places
      OBVIOUS
    <3>3. places \in SUBSET (0 .. CodeBits - 1) /\ Cardinality(places) <= T
      BY <2>2, <3>2 DEF PlacesAreErrors
    <3>4. word' \in Words /\ Distance(came, word') <= Cardinality(places)
      BY <2>1, <3>1, <3>2, <3>3, FlippedIs, FlippedIsNear DEF PhotoInv
    <3>5. Cardinality(places) \in Nat /\ Distance(came, word') \in Nat
      <4>1. IsFiniteSet(places)
        BY <3>3, WordsAre, FS_Subset
      <4>2. PICK differ : differ = {i \in DOMAIN came : came[i] # word'[i]}
        OBVIOUS
      <4>3. differ \subseteq 0 .. CodeBits - 1
        BY <4>2, WordsAre DEF PhotoInv
      <4>4. IsFiniteSet(differ)
        BY <4>3, WordsAre, FS_Subset
      <4> QED
        BY <4>1, <4>2, <4>4, FS_CardinalityType DEF Distance
    <3>6. Distance(came, word') <= T
      BY <3>3, <3>4, <3>5, WordsAre
    <3>7. Clean(SyndromesOf(word'))
      BY <2>2, <3>1
    <3>8. payload' = Undecided => word' = came
      <4>1. ASSUME payload' = Undecided PROVE FALSE
        BY <3>1, <4>1, PayloadIsDecided
      <4> QED
        BY <4>1
    <3> QED
      BY <2>1, <3>1, <3>4, <3>6, <3>7, <3>8 DEF PhotoInv, NearACodeword
  <2>3. CASE ~(/\ PlacesAreErrors /\ Cardinality(Places) <= T
               /\ Clean(SyndromesOf(Flipped(word, Places))))
    <3>1. payload' = NoWord /\ word' = word
      BY <1>4, <2>3 DEF Correct
    <3> QED
      BY <2>1, <3>1 DEF PhotoInv, NearACodeword
  <2> QED
    BY <2>2, <2>3
<1> QED
  BY <1>1, <1>2, <1>3, <1>4
     DEF Next, WatermarkNext, DecodeStill, PhotoNext, readingVars

\* For any field, any code and any errors, in whatever state the search for the locator
\* ends: an id reported of a photo is that of a word of the code within T places of the
\* bits that were read (layouts.ts, decodePhoto).
THEOREM PhotosAreNotMisread == Spec => []NearACodeword
<1>1. PhotoInv => NearACodeword
  BY DEF PhotoInv
<1> QED
  BY <1>1, PhotoStarts, PhotoKept, MarkStarts, MarkKept, PTL DEF Spec

(***************************************************************************)
(* The search for the locator.  The syndromes are the power sums of the    *)
(* places of the errors.  Massey's invariant: the recurrence explains the  *)
(* syndromes taken in, the one before the last lengthening all of its own  *)
(* but the last.  A recurrence as long as there are errors left explains   *)
(* the others too, since as many power sums as places determine the        *)
(* weights (Vandermonde): so the length never passes the number of errors, *)
(* and at the end, with at most T of them, every place is a root.  A       *)
(* polynomial has no more roots than its degree, so there are no others.   *)
(***************************************************************************)
\* Induction, for a set of numbers rather than for a formula.
LEMMA Induct ==
  ASSUME NEW G \in SUBSET Nat, 0 \in G, \A n \in G : n + 1 \in G
  PROVE  G = Nat
<1> SUFFICES ASSUME Nat \ G # {} PROVE FALSE
  OBVIOUS
<1>1. PICK B \in SUBSET Nat : B = Nat \ G
  OBVIOUS
<1>2. PICK n \in B : \A m \in B : n <= m
  BY <1>1, LeastOf
<1>3. n # 0 /\ n - 1 \in Nat /\ (n - 1) + 1 = n /\ ~(n <= n - 1)
  BY <1>1, <1>2
<1>4. n - 1 \in G
  BY <1>1, <1>2, <1>3
<1> QED
  BY <1>1, <1>3, <1>4

\* The same for the subsets of a finite set.
LEMMA InductOnSets ==
  ASSUME NEW S, IsFiniteSet(S), NEW G \in SUBSET (SUBSET S), {} \in G,
         \A s \in G : \A x \in S \ s : s \union {x} \in G
  PROVE  G = SUBSET S
<1> SUFFICES ASSUME (SUBSET S) \ G # {} PROVE FALSE
  OBVIOUS
<1>1. PICK Bad \in SUBSET (SUBSET S) : Bad = (SUBSET S) \ G
  OBVIOUS
<1>2. PICK s \in Bad : \A x \in s : s \ {x} \notin Bad
  <2>1. \E s \in Bad : Smallest(s, Bad)
    BY <1>1, SmallestOf
  <2> QED
    BY ONLY <2>1 DEF Smallest
<1>6. s \in SUBSET S /\ s \notin G
  BY <1>1, <1>2
<1>3. PICK x \in s : TRUE
  BY <1>6
<1>4. s \ {x} \in G
  BY <1>1, <1>2, <1>3
<1>5. (s \ {x}) \union {x} = s /\ x \in S \ (s \ {x})
  BY <1>6, <1>3
<1>7. (s \ {x}) \union {x} \in G
  BY <1>4, <1>5
<1> QED
  BY <1>6, <1>5, <1>7

(***************************************************************************)
(* The field.                                                              *)
(***************************************************************************)
F == SUBSET (0 .. Degree - 1)
One == {0}

\* Addition is that of a group in which every element is its own opposite.
LEMMA PlusIs ==
  /\ \A a, b : Plus(a, b) = Plus(b, a) /\ Plus(a, Zero) = a /\ Plus(Zero, a) = a
  /\ \A a : Plus(a, a) = Zero
  /\ \A a, b, c : Plus(Plus(a, b), c) = Plus(a, Plus(b, c))
  /\ \A a, b, c, d : Plus(Plus(a, b), Plus(c, d)) = Plus(Plus(a, c), Plus(b, d))
  /\ \A a, b : Plus(a, b) = Zero => a = b
  /\ \A a \in F, b \in F : Plus(a, b) \in F
  /\ Zero \in F
<1>1. \A a, b, c : Plus(Plus(a, b), c) = Plus(a, Plus(b, c))
  BY DEF Plus
<1>2. \A a, b, c, d : Plus(Plus(a, b), Plus(c, d)) = Plus(Plus(a, c), Plus(b, d))
  BY DEF Plus
<1> QED
  BY <1>1, <1>2 DEF Plus, Zero, F

\* What the assumptions say of the sizes.
LEMMA FieldSizes ==
  /\ Degree \in Nat \ {0} /\ Order \in Nat \ {0} /\ CodeBits \in Nat \ {0} /\ CodeBits <= Order
  /\ T \in Nat \ {0}
<1>1. Degree \in Nat \ {0} /\ Order \in Nat /\ CodeBits <= Order
  BY FieldAssumption
<1>2. CodeBits \in Nat \ {0} /\ T \in Nat \ {0}
  BY EmbeddedAssumption DEF CodeBits
<1> QED
  BY <1>1, <1>2

\* Multiplying by x stays in the field, is linear and loses nothing.
LEMMA TimesXIs ==
  /\ \A a \in F : TimesX(a) \in F
  /\ \A a \in F, b \in F : TimesX(Plus(a, b)) = Plus(TimesX(a), TimesX(b))
  /\ \A a \in F : TimesX(a) = Zero => a = Zero
  /\ TimesX(Zero) = Zero
<1> DEFINE x(a) == {e + 1 : e \in a}
<1>1. /\ Degree \in Nat \ {0} /\ Primitive \subseteq 0 .. Degree
      /\ 0 \in Primitive /\ Degree \in Primitive
  BY FieldAssumption, FieldSizes
<1>2. ASSUME NEW a \in F PROVE x(a) \subseteq 1 .. Degree
  BY <1>1 DEF F
<1>3. ASSUME NEW a \in F PROVE TimesX(a) \in F
  <2>1. CASE Degree \in x(a)
    <3>1. TimesX(a) = (x(a) \ Primitive) \union (Primitive \ x(a))
      BY <2>1 DEF TimesX, Plus
    <3>3. x(a) \subseteq 1 .. Degree
      BY <1>2, <1>3
    <3>4. PICK y : y = x(a)
      OBVIOUS
    <3>5. /\ y \subseteq 1 .. Degree /\ Degree \in y
          /\ TimesX(a) = (y \ Primitive) \union (Primitive \ y)
      BY <2>1, <3>1, <3>3, <3>4
    <3>2. ASSUME NEW e \in TimesX(a) PROVE e \in 0 .. Degree /\ e # Degree
      <4>1. \/ e \in y /\ e \notin Primitive
            \/ e \notin y /\ e \in Primitive
        BY <3>2, <3>5
      <4>2. e \in 0 .. Degree
        <5>1. CASE e \in y
          <6>1. e \in 1 .. Degree
            BY <3>5, <5>1
          <6> QED
            BY <1>1, <6>1
        <5>2. CASE e \in Primitive
          BY <1>1, <5>2
        <5> QED
          BY <4>1, <5>1, <5>2
      <4>3. e # Degree
        BY <1>1, <3>5, <4>1
      <4> QED
        BY <4>2, <4>3
    <3> QED
      BY <1>1, <3>2 DEF F
  <2>2. CASE Degree \notin x(a)
    <3>1. TimesX(a) = x(a)
      BY <2>2 DEF TimesX
    <3>2. \A e \in TimesX(a) : e \in 0 .. Degree /\ e # Degree
      BY <1>1, <1>2, <2>2, <3>1
    <3> QED
      BY <1>1, <3>2 DEF F
  <2> QED
    BY <2>1, <2>2
<1>4. ASSUME NEW a \in F, NEW b \in F
      PROVE  x(Plus(a, b)) = Plus(x(a), x(b))
  <2>1. \A d \in a, e \in b : d \in Int /\ e \in Int
    BY DEF F
  <2> QED
    BY <2>1 DEF Plus
<1>5. ASSUME NEW a \in F, NEW b \in F
      PROVE  TimesX(Plus(a, b)) = Plus(TimesX(a), TimesX(b))
  BY <1>4 DEF TimesX, Plus
<1>6. ASSUME NEW a \in F, TimesX(a) = Zero PROVE a = Zero
  <2>1. 0 \notin x(a)
    BY <1>2
  <2>2. x(a) = {}
    BY <1>1, <1>6, <2>1 DEF TimesX, Plus, Zero
  <2> QED
    BY <2>2 DEF Zero
<1>7. TimesX(Zero) = Zero
  BY DEF TimesX, Zero
<1> QED
  BY <1>3, <1>5, <1>6, <1>7

\* The remainder, for a divisor that is not a numeral.
LEMMA ModIs ==
  ASSUME NEW d \in Nat \ {0}, NEW n \in Nat
  PROVE  /\ n % d \in 0 .. d - 1
         /\ \E q \in Nat, r \in 0 .. d - 1 : n = d * q + r /\ n % d = r
         /\ n < d => n % d = n
         /\ (n + d) % d = n % d
         /\ (n + 1) % d = IF n % d = d - 1 THEN 0 ELSE (n % d) + 1
<1>1. ASSUME NEW q \in Nat, NEW r \in 0 .. d - 1 PROVE (d * q + r) % d = r
  OBVIOUS
<1>2. \E q \in Nat, r \in 0 .. d - 1 : n = d * q + r
  <2>1. n \div d \in Int /\ n \div d >= 0 /\ n - d * (n \div d) < d
    OBVIOUS
  <2>2. n - d * (n \div d) >= 0
    OBVIOUS
  <2>3. PICK q \in Nat : q = n \div d
    BY <2>1
  <2>4. PICK e \in Int : e = d * q
    OBVIOUS
  <2>5. n - e \in 0 .. d - 1 /\ n = e + (n - e)
    BY <2>1, <2>2, <2>3, <2>4
  <2> QED
    BY <2>4, <2>5
<1>3. PICK q \in Nat, r \in 0 .. d - 1 : n = d * q + r
  BY <1>2
<1>4. n % d = r
  BY <1>1, <1>3
<1>5. n < d => n % d = n
  OBVIOUS
<1>6. (n + d) % d = r
  <2>1. d * (q + 1) = d * q + d
    BY <1>3
  <2>2. d * q \in Int /\ d * (q + 1) \in Int
    OBVIOUS
  <2>3. n + d = d * (q + 1) + r
    BY <1>3, <2>1, <2>2
  <2>4. q + 1 \in Nat
    OBVIOUS
  <2> QED
    BY <1>1, <2>3, <2>4
<1>7. (n + 1) % d = IF r = d - 1 THEN 0 ELSE r + 1
  <2>1. d * (q + 1) = d * q + d /\ d * q \in Int
    BY <1>3
  <2>2. CASE r = d - 1
    <3>1. n + 1 = d * (q + 1) + 0
      BY <1>3, <2>1, <2>2
    <3>2. 0 \in 0 .. d - 1 /\ q + 1 \in Nat
      OBVIOUS
    <3>3. (n + 1) % d = 0
      BY <1>1, <3>1, <3>2
    <3> QED
      BY <2>2, <3>3
  <2>3. CASE r # d - 1
    <3>1. n + 1 = d * q + (r + 1) /\ r + 1 \in 0 .. d - 1
      BY <1>3, <2>1, <2>3
    <3>2. (n + 1) % d = r + 1
      BY <1>1, <3>1
    <3> QED
      BY <2>3, <3>2
  <2> QED
    BY <2>2, <2>3
<1>8. (n + d) % d = n % d /\ (n + 1) % d = IF n % d = d - 1 THEN 0 ELSE (n % d) + 1
  BY <1>4, <1>6, <1>7
<1>9. /\ n % d \in 0 .. d - 1
      /\ \E k \in Nat, m \in 0 .. d - 1 : n = d * k + m /\ n % d = m
  BY <1>3, <1>4
<1> QED
  BY <1>5, <1>8, <1>9

\* The table of powers is defined by its first entry and by TimesX.
LEMMA ExpIs ==
  /\ EXP[1] = One
  /\ \A i \in 1 .. Order - 1 : EXP[i + 1] = TimesX(EXP[i])
  /\ \A i \in 1 .. Order : EXP[i] \in F /\ EXP[i] # Zero
<1>0. Order \in Nat \ {0} /\ One \in F /\ One # Zero /\ Degree \in Nat \ {0}
  BY FieldSizes DEF One, F, Zero
<1> DEFINE Upto(n) == \E f \in [1 .. Order -> F] :
             f[1] = One /\ \A i \in 1 .. Order : 1 < i /\ i <= n => f[i] = TimesX(f[i - 1])
           G == {n \in Nat : Upto(n)}
<1>1. 0 \in G
  <2>1. PICK f : f = [i \in 1 .. Order |-> One]
    OBVIOUS
  <2>2. f \in [1 .. Order -> F] /\ f[1] = One
    BY <1>0, <2>1
  <2>3. \A i \in 1 .. Order : ~(1 < i /\ i <= 0)
    OBVIOUS
  <2>4. Upto(0)
    BY <2>2, <2>3
  <2> QED
    BY <2>4
<1>2. ASSUME NEW n \in G PROVE n + 1 \in G
  <2>1. PICK f \in [1 .. Order -> F] :
          f[1] = One /\ \A i \in 1 .. Order : 1 < i /\ i <= n => f[i] = TimesX(f[i - 1])
    OBVIOUS
  <2>2. CASE n = 0 \/ n >= Order
    <3>1. \A i \in 1 .. Order : 1 < i /\ i <= n + 1 => f[i] = TimesX(f[i - 1])
      <4>1. \A i \in 1 .. Order : 1 < i /\ i <= n + 1 => i <= n
        BY <2>2, <1>0
      <4> QED
        BY <2>1, <4>1
    <3>2. Upto(n + 1)
      BY <2>1, <3>1
    <3>3. n + 1 \in Nat
      BY <1>2
    <3> QED
      BY <3>2, <3>3
  <2>3. CASE n \in 1 .. Order - 1
    <3>1. PICK g : g = [f EXCEPT ![n + 1] = TimesX(f[n])]
      OBVIOUS
    <3>2. f[n] \in F /\ n + 1 \in 1 .. Order
      BY <2>1, <2>3, <1>0
    <3>3. TimesX(f[n]) \in F
      BY <3>2, TimesXIs
    <3>4. g \in [1 .. Order -> F] /\ \A i \in 1 .. Order : g[i] = IF i = n + 1 THEN TimesX(f[n]) ELSE f[i]
      BY <2>1, <3>1, <3>2, <3>3
    <3>5. g[1] = One
      BY <2>1, <2>3, <3>4, <1>0
    <3>6. ASSUME NEW i \in 1 .. Order, 1 < i, i <= n + 1 PROVE g[i] = TimesX(g[i - 1])
      <4>1. i - 1 \in 1 .. Order /\ i - 1 # n + 1
        BY <3>6, <1>0
      <4>2. CASE i = n + 1
        <5>1. i - 1 = n
          BY <4>2
        <5> QED
          BY <3>4, <4>1, <4>2, <5>1
      <4>3. CASE i # n + 1
        <5>1. i <= n
          BY <3>6, <4>3
        <5> QED
          BY <2>1, <3>6, <3>4, <4>1, <4>3, <5>1
      <4> QED
        BY <4>2, <4>3
    <3>7. Upto(n + 1)
      BY <3>4, <3>5, <3>6
    <3>8. n + 1 \in Nat
      BY <1>2
    <3> QED
      BY <3>7, <3>8
  <2> QED
    BY <2>2, <2>3, <1>0
<1>3. G = Nat
  <2> HIDE DEF G
  <2>1. G \in SUBSET Nat
    BY DEF G
  <2> QED
    BY <1>1, <1>2, <2>1, Induct
<1>4. PICK f \in [1 .. Order -> F] :
        f[1] = One /\ \A i \in 1 .. Order : 1 < i => f[i] = TimesX(f[i - 1])
  <2>1. Upto(Order)
    BY <1>0, <1>3
  <2>2. PICK f \in [1 .. Order -> F] :
          f[1] = One /\ \A i \in 1 .. Order : 1 < i /\ i <= Order => f[i] = TimesX(f[i - 1])
    BY <2>1
  <2>3. \A i \in 1 .. Order : i <= Order
    BY <1>0
  <2> QED
    BY <2>2, <2>3
<1>5. f = [i \in 1 .. Order |-> IF i = 1 THEN {0} ELSE TimesX(f[i - 1])]
  BY <1>4 DEF One
<1>6. EXP = [i \in 1 .. Order |-> IF i = 1 THEN {0} ELSE TimesX(EXP[i - 1])]
  BY <1>5 DEF EXP
<1>7. EXP[1] = One /\ \A i \in 1 .. Order - 1 : EXP[i + 1] = TimesX(EXP[i])
  <2>1. EXP[1] = One
    BY <1>0, <1>6 DEF One
  <2>2. ASSUME NEW i \in 1 .. Order - 1 PROVE EXP[i + 1] = TimesX(EXP[i])
    <3>1. i + 1 \in 1 .. Order /\ i + 1 # 1 /\ (i + 1) - 1 = i
      BY <1>0
    <3> QED
      BY <1>6, <3>1
  <2> QED
    BY <2>1, <2>2
<1>8. PICK H : H = {n \in Nat : n + 1 <= Order => EXP[n + 1] \in F /\ EXP[n + 1] # Zero}
  OBVIOUS
<1>9. 0 \in H
  BY <1>0, <1>7, <1>8
<1>10. ASSUME NEW n \in H PROVE n + 1 \in H
  <2>1. n \in Nat /\ n + 1 \in Nat
    BY <1>8, <1>10
  <2>2. CASE (n + 1) + 1 <= Order
    <3>1. n + 1 \in 1 .. Order - 1
      BY <1>0, <2>1, <2>2
    <3>2. EXP[n + 1] \in F /\ EXP[n + 1] # Zero
      BY <1>0, <1>8, <1>10, <2>1, <3>1
    <3>3. EXP[(n + 1) + 1] = TimesX(EXP[n + 1])
      BY <1>7, <3>1
    <3>4. EXP[(n + 1) + 1] \in F /\ EXP[(n + 1) + 1] # Zero
      BY <3>2, <3>3, TimesXIs
    <3> QED
      BY <1>8, <2>1, <3>4
  <2>3. CASE ~((n + 1) + 1 <= Order)
    BY <1>8, <2>1, <2>3
  <2> QED
    BY <2>2, <2>3
<1>11. H = Nat
  <2>1. H \in SUBSET Nat
    BY <1>8
  <2> QED
    BY <1>9, <1>10, <2>1, Induct
<1>12. ASSUME NEW i \in 1 .. Order PROVE EXP[i] \in F /\ EXP[i] # Zero
  <2>1. i - 1 \in Nat /\ (i - 1) + 1 = i /\ i <= Order
    BY <1>0
  <2> QED
    BY <1>8, <1>11, <2>1
<1> QED
  BY <1>7, <1>12

\* A power for each exponent, an exponent for each element but zero.
LEMMA PowerIs ==
  /\ Power(0) = One
  /\ \A n \in Nat : Power(n) \in F /\ Power(n) # Zero /\ Power(n + 1) = TimesX(Power(n))
  /\ \A a \in F : a # Zero => \E k \in 0 .. Order - 1 : Power(k) = a
  /\ \A k, l \in 0 .. Order - 1 : Power(k) = Power(l) => k = l
  /\ \A n \in Nat : LOG(Power(n)) = n % Order
<1>1. Order \in Nat \ {0}
  BY FieldSizes
<1>2. ASSUME NEW k \in 0 .. Order - 1 PROVE k % Order = k /\ Power(k) = EXP[k + 1]
  <2>1. k \in Nat /\ k < Order
    BY <1>1
  <2> QED
    BY <1>1, <2>1, ModIs DEF Power
<1>3. ASSUME NEW n \in Nat
      PROVE  n % Order \in 0 .. Order - 1 /\ Power(n) = EXP[(n % Order) + 1]
  BY <1>1, ModIs DEF Power
<1>4. Power(0) = One
  BY <1>1, <1>2, ExpIs
<1>5. ASSUME NEW n \in Nat PROVE Power(n) \in F /\ Power(n) # Zero
  <2>1. (n % Order) + 1 \in 1 .. Order
    BY <1>1, <1>3
  <2> QED
    BY <1>3, <2>1, ExpIs
<1>6. \A a \in F : a # Zero => \E k \in 0 .. Order - 1 : Power(k) = a
  <2> SUFFICES ASSUME NEW a \in F, a # Zero PROVE \E k \in 0 .. Order - 1 : Power(k) = a
    OBVIOUS
  <2>1. PICK i \in 1 .. Order : EXP[i] = a
    BY FieldAssumption DEF F
  <2>2. i - 1 \in 0 .. Order - 1 /\ (i - 1) + 1 = i
    BY <1>1
  <2> QED
    BY <1>2, <2>1, <2>2
<1>7. \A k, l \in 0 .. Order - 1 : Power(k) = Power(l) => k = l
  <2> SUFFICES ASSUME NEW k \in 0 .. Order - 1, NEW l \in 0 .. Order - 1, Power(k) = Power(l)
               PROVE  k = l
    OBVIOUS
  <2>1. k + 1 \in 1 .. Order /\ l + 1 \in 1 .. Order
    BY <1>1
  <2>2. EXP[k + 1] = EXP[l + 1]
    BY <1>2
  <2>3. k + 1 = l + 1
    BY <2>1, <2>2, FieldAssumption
  <2> QED
    BY <2>3
<1>8. TimesX(EXP[Order]) = One
  <2>1. EXP[Order] \in F /\ EXP[Order] # Zero
    BY <1>1, ExpIs
  <2>2. TimesX(EXP[Order]) \in F /\ TimesX(EXP[Order]) # Zero
    BY <2>1, TimesXIs
  <2>3. PICK i \in 1 .. Order : EXP[i] = TimesX(EXP[Order])
    BY <2>2, FieldAssumption DEF F
  <2>4. CASE i = 1
    BY <2>3, <2>4, ExpIs
  <2>5. CASE i # 1
    <3>1. PICK h \in 1 .. Order - 1 : i = h + 1
      <4>1. i - 1 \in 1 .. Order - 1 /\ i = (i - 1) + 1
        BY <1>1, <2>5
      <4> QED
        BY <4>1
    <3>2. h \in 1 .. Order /\ h # Order
      BY <1>1
    <3>3. EXP[h] \in F /\ TimesX(EXP[h]) = TimesX(EXP[Order])
      BY <2>3, <3>1, <3>2, ExpIs
    <3>4. TimesX(Plus(EXP[h], EXP[Order])) = Plus(TimesX(EXP[h]), TimesX(EXP[Order]))
      BY <2>1, <3>3, TimesXIs
    <3>5. TimesX(Plus(EXP[h], EXP[Order])) = Zero
      BY <3>3, <3>4, PlusIs
    <3>6. Plus(EXP[h], EXP[Order]) \in F
      BY <2>1, <3>3, PlusIs
    <3>7. EXP[h] = EXP[Order]
      BY <3>5, <3>6, TimesXIs, PlusIs
    <3>8. h = Order
      BY <1>1, <3>2, <3>7, FieldAssumption
    <3> QED
      BY <3>2, <3>8
  <2> QED
    BY <2>4, <2>5
<1>9. ASSUME NEW n \in Nat PROVE Power(n + 1) = TimesX(Power(n))
  <2>1. PICK r \in 0 .. Order - 1 : r = n % Order
    BY <1>3
  <2>2. Power(n) = EXP[r + 1] /\ Power(n + 1) = EXP[((n + 1) % Order) + 1]
    BY <2>1 DEF Power
  <2>3. (n + 1) % Order = IF r = Order - 1 THEN 0 ELSE r + 1
    BY <1>1, <2>1, ModIs
  <2>4. CASE r = Order - 1
    <3>1. r + 1 = Order /\ Power(n + 1) = EXP[1]
      BY <1>1, <2>2, <2>3, <2>4
    <3> QED
      BY <1>8, <2>2, <3>1, ExpIs
  <2>5. CASE r # Order - 1
    <3>1. r + 1 \in 1 .. Order - 1
      BY <1>1, <2>5
    <3>2. Power(n + 1) = EXP[(r + 1) + 1]
      BY <2>2, <2>3, <2>5
    <3> QED
      BY <2>2, <3>1, <3>2, ExpIs
  <2> QED
    BY <2>4, <2>5
<1>10. ASSUME NEW n \in Nat PROVE LOG(Power(n)) = n % Order
  <2>1. PICK r \in 0 .. Order - 1 : r = n % Order
    BY <1>3
  <2>2. r + 1 \in 1 .. Order /\ EXP[r + 1] = Power(n)
    BY <1>1, <2>1 DEF Power
  <2>3. \A i \in 1 .. Order : EXP[i] = Power(n) => i = r + 1
    BY <2>2, FieldAssumption
  <2>4. (CHOOSE i \in 1 .. Order : EXP[i] = Power(n)) = r + 1
    BY <2>2, <2>3
  <2>5. LOG(Power(n)) = (r + 1) - 1
    BY <2>4 DEF LOG
  <2>6. (r + 1) - 1 = r
    BY <1>1
  <2> QED
    BY <2>1, <2>5, <2>6
<1> QED
  BY <1>4, <1>5, <1>6, <1>7, <1>9, <1>10

\* The powers go round.
LEMMA PowerTurns ==
  ASSUME NEW n \in Nat, NEW k \in Nat
  PROVE  Power(Order * k + n) = Power(n) /\ Power(n) = Power(n % Order)
<1>1. Order \in Nat \ {0}
  BY FieldSizes
<1>2. PICK q \in Nat, r \in 0 .. Order - 1 : n = Order * q + r /\ n % Order = r
  BY <1>1, ModIs
<1>3. (Order * k + n) % Order = r
  <2>1. Order * (k + q) = Order * k + Order * q /\ k + q \in Nat
    BY <1>1, <1>2
  <2>2. Order * k \in Nat /\ Order * q \in Nat /\ Order * (k + q) \in Nat
    BY <1>1, <1>2, <2>1
  <2>3. Order * k + n = Order * (k + q) + r
    BY <1>2, <2>1, <2>2
  <2>4. PICK j \in Nat : j = k + q
    BY <2>1
  <2>5. (Order * j + r) % Order = r
    BY <1>1
  <2> QED
    BY <2>3, <2>4, <2>5
<1>4. r % Order = r
  <2>1. r \in Nat /\ r < Order
    BY <1>1
  <2> QED
    BY <1>1, <2>1, ModIs
<1> QED
  BY <1>2, <1>3, <1>4 DEF Power

\* Multiplying powers adds their exponents.
LEMMA MulPowers ==
  /\ \A i, j \in Nat : Mul(Power(i), Power(j)) = Power(i + j)
  /\ \A a : Mul(Zero, a) = Zero /\ Mul(a, Zero) = Zero
<1>1. Order \in Nat \ {0}
  BY FieldSizes
<1>2. ASSUME NEW i \in Nat, NEW j \in Nat PROVE Mul(Power(i), Power(j)) = Power(i + j)
  <2>1. PICK q \in Nat, r \in 0 .. Order - 1 : i = Order * q + r /\ i % Order = r
    BY <1>1, ModIs
  <2>2. PICK p \in Nat, s \in 0 .. Order - 1 : j = Order * p + s /\ j % Order = s
    BY <1>1, ModIs
  <2>3. Mul(Power(i), Power(j)) = Power(r + s)
    BY <2>1, <2>2, PowerIs DEF Mul
  <2>4. Order * (q + p) = Order * q + Order * p /\ q + p \in Nat /\ r + s \in Nat
    BY <1>1, <2>1, <2>2
  <2>5. Order * q \in Nat /\ Order * p \in Nat /\ Order * (q + p) \in Nat
    BY <1>1, <2>1, <2>2, <2>4
  <2>6. i + j = Order * (q + p) + (r + s)
    BY <2>1, <2>2, <2>4, <2>5
  <2>7. Power(Order * (q + p) + (r + s)) = Power(r + s)
    BY <2>4, PowerTurns
  <2> QED
    BY <2>3, <2>6, <2>7
<1>3. \A a : Mul(Zero, a) = Zero /\ Mul(a, Zero) = Zero
  BY DEF Mul
<1> QED
  BY <1>2, <1>3

\* The field.
LEMMA MulIs ==
  /\ \A a \in F, b \in F : Mul(a, b) \in F /\ Mul(a, b) = Mul(b, a)
  /\ \A a \in F, b \in F : Mul(a, b) = Zero => a = Zero \/ b = Zero
  /\ \A a \in F, b \in F, c \in F : Mul(Mul(a, b), c) = Mul(a, Mul(b, c))
  /\ \A a \in F, b \in F, c \in F : Mul(a, Plus(b, c)) = Plus(Mul(a, b), Mul(a, c))
  /\ \A a \in F : Mul(One, a) = a
  /\ One \in F /\ One # Zero
  /\ \A a \in F, b \in F : b # Zero => Div(a, b) \in F /\ Mul(Div(a, b), b) = a
<1>1. Order \in Nat \ {0} /\ One \in F /\ One # Zero /\ Zero \in F
  BY FieldSizes, PowerIs, PlusIs
<1>2. ASSUME NEW a \in F PROVE a = Zero \/ \E k \in Nat : a = Power(k)
  <2>1. 0 .. Order - 1 \subseteq Nat
    BY <1>1
  <2> QED
    BY <2>1, PowerIs
<1>3. ASSUME NEW a \in F, NEW b \in F
      PROVE  /\ Mul(a, b) \in F /\ Mul(a, b) = Mul(b, a)
             /\ Mul(a, b) = Zero => a = Zero \/ b = Zero
  <2>1. CASE a = Zero \/ b = Zero
    BY <1>1, <2>1, MulPowers
  <2>2. CASE a # Zero /\ b # Zero
    <3>1. PICK i \in Nat : a = Power(i)
      BY <1>2, <2>2
    <3>2. PICK j \in Nat : b = Power(j)
      BY <1>2, <2>2
    <3>3. i + j = j + i /\ i + j \in Nat
      OBVIOUS
    <3>4. Mul(a, b) = Power(i + j) /\ Mul(b, a) = Power(i + j)
      BY <3>1, <3>2, <3>3, MulPowers
    <3> QED
      BY <3>3, <3>4, PowerIs
  <2> QED
    BY <2>1, <2>2
<1>4. ASSUME NEW a \in F, NEW b \in F, NEW c \in F PROVE Mul(Mul(a, b), c) = Mul(a, Mul(b, c))
  <2>1. CASE a = Zero \/ b = Zero \/ c = Zero
    BY <2>1, MulPowers
  <2>2. CASE a # Zero /\ b # Zero /\ c # Zero
    <3>1. PICK i \in Nat : a = Power(i)
      BY <1>2, <2>2
    <3>2. PICK j \in Nat : b = Power(j)
      BY <1>2, <2>2
    <3>3. PICK k \in Nat : c = Power(k)
      BY <1>2, <2>2
    <3>4. i + j \in Nat /\ j + k \in Nat /\ (i + j) + k = i + (j + k)
      OBVIOUS
    <3>5. Mul(Mul(a, b), c) = Power((i + j) + k)
      BY <3>1, <3>2, <3>3, <3>4, MulPowers
    <3>6. Mul(a, Mul(b, c)) = Power(i + (j + k))
      BY <3>1, <3>2, <3>3, <3>4, MulPowers
    <3> QED
      BY <3>4, <3>5, <3>6
  <2> QED
    BY <2>1, <2>2
<1>5. ASSUME NEW n \in Nat, NEW b \in F PROVE Mul(Power(n + 1), b) = TimesX(Mul(Power(n), b))
  <2>1. CASE b = Zero
    BY <2>1, MulPowers, TimesXIs
  <2>2. CASE b # Zero
    <3>1. PICK j \in Nat : b = Power(j)
      BY <1>2, <2>2
    <3>2. n + 1 \in Nat /\ n + j \in Nat /\ (n + 1) + j = (n + j) + 1
      OBVIOUS
    <3>3. Mul(Power(n + 1), b) = Power((n + 1) + j) /\ Mul(Power(n), b) = Power(n + j)
      BY <3>1, <3>2, MulPowers
    <3> QED
      BY <3>2, <3>3, PowerIs
  <2> QED
    BY <2>1, <2>2
<1>6. ASSUME NEW a \in F PROVE Mul(One, a) = a
  <2>1. CASE a = Zero
    BY <2>1, MulPowers
  <2>2. CASE a # Zero
    <3>1. PICK i \in Nat : a = Power(i)
      BY <1>2, <2>2
    <3>2. 0 \in Nat /\ 0 + i = i
      OBVIOUS
    <3> QED
      BY <3>1, <3>2, MulPowers, PowerIs
  <2> QED
    BY <2>1, <2>2
<1>7. PICK G : G = {n \in Nat : \A b \in F, c \in F :
              Mul(Power(n), Plus(b, c)) = Plus(Mul(Power(n), b), Mul(Power(n), c))}
  OBVIOUS
<1>8. 0 \in G
  <2>1. ASSUME NEW b \in F, NEW c \in F
        PROVE  Mul(Power(0), Plus(b, c)) = Plus(Mul(Power(0), b), Mul(Power(0), c))
    <3>1. Plus(b, c) \in F
      BY PlusIs
    <3> QED
      BY <3>1, <1>6, PowerIs
  <2> QED
    BY <1>7, <2>1
<1>9. ASSUME NEW n \in G PROVE n + 1 \in G
  <2>1. n \in Nat /\ n + 1 \in Nat
    BY <1>7, <1>9
  <2>2. ASSUME NEW b \in F, NEW c \in F
        PROVE  Mul(Power(n + 1), Plus(b, c)) = Plus(Mul(Power(n + 1), b), Mul(Power(n + 1), c))
    <3>1. Plus(b, c) \in F
      BY PlusIs
    <3>2. Mul(Power(n), Plus(b, c)) = Plus(Mul(Power(n), b), Mul(Power(n), c))
      BY <1>7, <1>9
    <3>3. Power(n) \in F
      BY <2>1, PowerIs
    <3>4. Mul(Power(n), b) \in F /\ Mul(Power(n), c) \in F
      BY <1>3, <3>3
    <3>5. TimesX(Plus(Mul(Power(n), b), Mul(Power(n), c)))
          = Plus(TimesX(Mul(Power(n), b)), TimesX(Mul(Power(n), c)))
      BY <3>4, TimesXIs
    <3> QED
      BY <1>5, <2>1, <3>1, <3>2, <3>5
  <2> QED
    BY <1>7, <2>1, <2>2
<1>10. G = Nat
  <2>1. G \in SUBSET Nat
    BY <1>7
  <2> QED
    BY <1>8, <1>9, <2>1, Induct
<1>11. ASSUME NEW a \in F, NEW b \in F, NEW c \in F
       PROVE  Mul(a, Plus(b, c)) = Plus(Mul(a, b), Mul(a, c))
  <2>1. CASE a = Zero
    BY <2>1, MulPowers, PlusIs
  <2>2. CASE a # Zero
    <3>1. PICK i \in Nat : a = Power(i)
      BY <1>2, <2>2
    <3> QED
      BY <1>7, <1>10, <3>1
  <2> QED
    BY <2>1, <2>2
<1>12. ASSUME NEW a \in F, NEW b \in F, b # Zero PROVE Div(a, b) \in F /\ Mul(Div(a, b), b) = a
  <2>1. CASE a = Zero
    BY <1>1, <2>1, MulPowers DEF Div
  <2>2. CASE a # Zero
    <3>1. PICK i \in 0 .. Order - 1 : a = Power(i)
      BY <2>2, PowerIs
    <3>2. PICK j \in 0 .. Order - 1 : b = Power(j)
      BY <1>12, PowerIs
    <3>3. LOG(a) = i /\ LOG(b) = j
      <4>1. i \in Nat /\ j \in Nat /\ i < Order /\ j < Order
        BY <1>1
      <4>2. i % Order = i /\ j % Order = j
        BY <1>1, <4>1, ModIs
      <4> QED
        BY <3>1, <3>2, <4>1, <4>2, PowerIs
    <3>4. PICK e \in Nat : e = i + Order - j
      BY <1>1
    <3>5. Div(a, b) = Power(e)
      BY <2>2, <3>3, <3>4 DEF Div
    <3>6. e + j = Order * 1 + i /\ j \in Nat /\ i \in Nat
      BY <1>1, <3>4
    <3>7. Mul(Power(e), Power(j)) = Power(i)
      BY <3>6, MulPowers, PowerTurns
    <3> QED
      BY <3>1, <3>2, <3>5, <3>7, PowerIs
  <2> QED
    BY <2>1, <2>2
<1> QED
  BY <1>1, <1>3, <1>4, <1>6, <1>11, <1>12

LEMMA MulInF == \A a \in F, b \in F : Mul(a, b) \in F
  BY MulIs

LEMMA Distributes ==
  \A a \in F, b \in F, c \in F : Mul(a, Plus(b, c)) = Plus(Mul(a, b), Mul(a, c))
  BY MulIs

(***************************************************************************)
(* Sums over finite sets.                                                  *)
(***************************************************************************)
Totals(iter, fun, S) ==
  /\ iter \in [SUBSET S -> F]
  /\ \A s \in SUBSET S :
       iter[s] = IF s = {} THEN Zero ELSE Plus(fun[Picked(s)], iter[s \ {Picked(s)}])

\* A sum over a finite set solves the equation of its partial sums.
LEMMA SumIsTotal ==
  ASSUME NEW fun, NEW S, IsFiniteSet(S), \A x \in S : fun[x] \in F
  PROVE  \E iter : Sum(fun, S) = iter[S] /\ Totals(iter, fun, S)
<1> DEFINE iter == CHOOSE iter : iter = [s \in SUBSET S |->
                     IF s = {} THEN Zero ELSE Plus(fun[Picked(s)], iter[s \ {Picked(s)}])]
<1>1. Sum(fun, S) = iter[S]
  BY DEF Sum, FoldFunctionOnSet, MapThenFoldSet, Picked
<1>2. \E i \in [SUBSET S -> F] : i = [s \in SUBSET S |->
                     IF s = {} THEN Zero ELSE Plus(fun[Picked(s)], i[s \ {Picked(s)}])]
  <2>1. PICK pick : pick = [s \in SUBSET S |-> Picked(s)]
    OBVIOUS
  <2>2. \A s \in SUBSET S : s # {} => pick[s] \in s
    BY <2>1 DEF Picked
  <2>3. PICK give : give = [p \in (SUBSET S) \X F |->
                              IF p[1] = {} THEN Zero ELSE Plus(fun[pick[p[1]]], p[2])]
    OBVIOUS
  <2>4. give \in [(SUBSET S) \X F -> F]
    <3>1. ASSUME NEW p \in (SUBSET S) \X F
          PROVE  (IF p[1] = {} THEN Zero ELSE Plus(fun[pick[p[1]]], p[2])) \in F
      <4>1. CASE p[1] = {}
        BY <4>1, PlusIs
      <4>2. CASE p[1] # {}
        <5>1. pick[p[1]] \in S /\ p[2] \in F
          BY <2>2, <4>2
        <5>2. fun[pick[p[1]]] \in F
          BY <5>1
        <5> QED
          BY <4>2, <5>1, <5>2, PlusIs
      <4> QED
        BY <4>1, <4>2
    <3> QED
      BY <2>3, <3>1
  <2>5. PICK i \in [SUBSET S -> F] :
          \A s \in SUBSET S :
            i[s] = IF s = {} THEN Zero ELSE give[<<s, i[s \ {pick[s]}]>>]
    <3>1. \E i : FoldsBy(i, S, F, Zero, pick, give)
      <4>1. IsFiniteSet(S) /\ Zero \in F
        BY PlusIs
      <4> QED
        BY ONLY <2>2, <2>4, <4>1, FoldExists, ZenonT(30)
    <3> QED
      BY <3>1 DEF FoldsBy
  <2>6. ASSUME NEW s \in SUBSET S
        PROVE  i[s] = IF s = {} THEN Zero ELSE Plus(fun[Picked(s)], i[s \ {Picked(s)}])
    <3>1. i[s] = IF s = {} THEN Zero ELSE give[<<s, i[s \ {pick[s]}]>>]
      BY <2>5
    <3>2. s # {} => give[<<s, i[s \ {pick[s]}]>>] = Plus(fun[pick[s]], i[s \ {pick[s]}])
      <4>1. i[s \ {pick[s]}] \in F
        BY <2>5
      <4>2. <<s, i[s \ {pick[s]}]>> \in (SUBSET S) \X F
        BY <4>1
      <4> QED
        BY <2>3, <4>2
    <3> QED
      BY <2>1, <3>1, <3>2
  <2>7. i = [s \in SUBSET S |->
               IF s = {} THEN Zero ELSE Plus(fun[Picked(s)], i[s \ {Picked(s)}])]
    BY <2>5, <2>6
  <2> QED
    BY <2>5, <2>7
<1>3. iter = [s \in SUBSET S |->
                IF s = {} THEN Zero ELSE Plus(fun[Picked(s)], iter[s \ {Picked(s)}])]
  BY <1>2
<1> HIDE DEF iter
<1>4. PICK G : G = {s \in SUBSET S : iter[s] \in F}
  OBVIOUS
<1>5. SUBSET S \subseteq G
  <2> SUFFICES ASSUME (SUBSET S) \ G # {} PROVE FALSE
    OBVIOUS
  <2>1. PICK Bad \in SUBSET (SUBSET S) : Bad = (SUBSET S) \ G
    OBVIOUS
  <2>2. PICK s \in Bad : \A x \in s : s \ {x} \notin Bad
    <3>1. IsFiniteSet(S) /\ Bad # {}
      BY <2>1
    <3>2. \E s \in Bad : Smallest(s, Bad)
      BY ONLY <2>1, <3>1, SmallestOf
    <3> QED
      BY ONLY <3>2 DEF Smallest
  <2>3. s \in SUBSET S /\ iter[s] \notin F
    BY <1>4, <2>1, <2>2
  <2>4. s # {}
    BY <1>3, <2>3, PlusIs
  <2>5. PICK x \in s : x = Picked(s)
    BY <2>4 DEF Picked
  <2>6. iter[s] = Plus(fun[x], iter[s \ {x}])
    BY <1>3, <2>3, <2>4, <2>5
  <2>7. iter[s \ {x}] \in F /\ fun[x] \in F
    BY <1>4, <2>1, <2>2, <2>3, <2>5
  <2> QED
    BY <2>3, <2>6, <2>7, PlusIs
<1>6. Totals(iter, fun, S)
  <2>1. iter \in [SUBSET S -> F]
    <3>1. \A s \in SUBSET S : iter[s] \in F
      BY <1>4, <1>5
    <3> QED
      BY <1>3, <3>1
  <2>2. ASSUME NEW s \in SUBSET S
        PROVE  iter[s] = IF s = {} THEN Zero ELSE Plus(fun[Picked(s)], iter[s \ {Picked(s)}])
    BY <1>3
  <2> QED
    BY <2>1, <2>2 DEF Totals
<1> QED
  BY <1>1, <1>6

\* The equation has one solution, and the order of the elements does not matter to it.
LEMMA TotalIsOne ==
  ASSUME NEW fun, NEW S, IsFiniteSet(S), NEW R \in SUBSET S,
         NEW f, Totals(f, fun, S), NEW g, Totals(g, fun, R)
  PROVE  g[R] = f[R]
<1>1. PICK G : G = {s \in SUBSET R : f[s] = g[s]}
  OBVIOUS
<1>2. IsFiniteSet(R)
  BY FS_Subset
<1>3. (SUBSET R) \ G = {}
  <2> SUFFICES ASSUME (SUBSET R) \ G # {} PROVE FALSE
    OBVIOUS
  <2>1. PICK Bad \in SUBSET (SUBSET R) : Bad = (SUBSET R) \ G
    OBVIOUS
  <2>2. PICK s \in Bad : \A x \in s : s \ {x} \notin Bad
    <3>1. \E s \in Bad : Smallest(s, Bad)
      BY <1>2, <2>1, SmallestOf
    <3> QED
      BY ONLY <3>1 DEF Smallest
  <2>3. s \in SUBSET R /\ s \in SUBSET S /\ f[s] # g[s]
    BY <1>1, <2>1, <2>2
  <2>4. s # {}
    BY <2>3 DEF Totals
  <2>5. PICK x \in s : x = Picked(s)
    BY <2>4 DEF Picked
  <2>6. f[s] = Plus(fun[x], f[s \ {x}]) /\ g[s] = Plus(fun[x], g[s \ {x}])
    BY <2>3, <2>4, <2>5 DEF Totals
  <2>7. f[s \ {x}] = g[s \ {x}]
    BY <1>1, <2>1, <2>2, <2>3, <2>5
  <2> QED
    BY <2>3, <2>6, <2>7
<1> QED
  BY <1>1, <1>3

\* Any element can be the last one added.
LEMMA TotalAdds ==
  ASSUME NEW fun, NEW S, IsFiniteSet(S), \A x \in S : fun[x] \in F,
         NEW f, Totals(f, fun, S), NEW t \in SUBSET S, NEW y \in t
  PROVE  f[t] = Plus(fun[y], f[t \ {y}])
<1>1. PICK G : G = {s \in SUBSET S : \A x \in s : f[s] = Plus(fun[x], f[s \ {x}])}
  OBVIOUS
<1>2. (SUBSET S) \ G = {}
  <2> SUFFICES ASSUME (SUBSET S) \ G # {} PROVE FALSE
    OBVIOUS
  <2>1. PICK Bad \in SUBSET (SUBSET S) : Bad = (SUBSET S) \ G
    OBVIOUS
  <2>2. PICK s \in Bad : \A x \in s : s \ {x} \notin Bad
    <3>1. \E s \in Bad : Smallest(s, Bad)
      BY <2>1, SmallestOf
    <3> QED
      BY ONLY <3>1 DEF Smallest
  <2>3. s \in SUBSET S /\ s \notin G
    BY <2>1, <2>2
  <2>4. PICK x \in s : f[s] # Plus(fun[x], f[s \ {x}])
    BY <1>1, <2>3
  <2>5. PICK p \in s : p = Picked(s)
    BY <2>4 DEF Picked
  <2>6. f[s] = Plus(fun[p], f[s \ {p}])
    BY <2>3, <2>5 DEF Totals
  <2>7. p # x
    BY <2>4, <2>6
  <2>8. s \ {p} \in G /\ s \ {x} \in G
    BY <2>1, <2>2, <2>3, <2>4, <2>5
  <2>9. PICK r \in SUBSET S : r = s \ {p, x}
    BY <2>3
  <2>10. (s \ {p}) \ {x} = r /\ (s \ {x}) \ {p} = r
    BY <2>9
  <2>11. f[s \ {p}] = Plus(fun[x], f[r]) /\ f[s \ {x}] = Plus(fun[p], f[r])
    BY <1>1, <2>4, <2>5, <2>7, <2>8, <2>10
  <2>12. Plus(fun[p], Plus(fun[x], f[r])) = Plus(fun[x], Plus(fun[p], f[r]))
    BY DEF Plus
  <2> QED
    BY <2>4, <2>6, <2>11, <2>12
<1> QED
  BY <1>1, <1>2

\* What a sum is.
LEMMA SumLaw ==
  ASSUME NEW fun, NEW S, IsFiniteSet(S), \A x \in S : fun[x] \in F
  PROVE  /\ Sum(fun, {}) = Zero
         /\ \A s \in SUBSET S : Sum(fun, s) \in F
         /\ \A s \in SUBSET S : \A x \in S \ s :
              Sum(fun, s \union {x}) = Plus(fun[x], Sum(fun, s))
<1>1. PICK f : Totals(f, fun, S)
  BY SumIsTotal
<1>2. ASSUME NEW s \in SUBSET S PROVE Sum(fun, s) = f[s]
  <2>1. IsFiniteSet(s) /\ \A x \in s : fun[x] \in F
    BY FS_Subset
  <2>2. PICK g : Sum(fun, s) = g[s] /\ Totals(g, fun, s)
    BY <2>1, SumIsTotal
  <2> QED
    BY <1>1, <2>2, TotalIsOne
<1>3. Sum(fun, {}) = Zero
  BY <1>1, <1>2 DEF Totals
<1>4. \A s \in SUBSET S : Sum(fun, s) \in F
  BY <1>1, <1>2 DEF Totals
<1>5. ASSUME NEW s \in SUBSET S, NEW x \in S \ s
      PROVE  Sum(fun, s \union {x}) = Plus(fun[x], Sum(fun, s))
  <2>1. PICK t \in SUBSET S : t = s \union {x}
    OBVIOUS
  <2>2. t \ {x} = s /\ x \in t
    BY <2>1
  <2>3. f[t] = Plus(fun[x], f[t \ {x}])
    BY <1>1, <2>2, TotalAdds
  <2> QED
    BY <1>2, <2>1, <2>2, <2>3
<1> QED
  BY <1>3, <1>4, <1>5

\* What adds up like a sum is the sum.
LEMMA SumUnique ==
  ASSUME NEW fun, NEW S, IsFiniteSet(S), \A x \in S : fun[x] \in F,
         NEW g, g[{}] = Zero,
         \A s \in SUBSET S : \A x \in S \ s : g[s \union {x}] = Plus(fun[x], g[s])
  PROVE  \A s \in SUBSET S : g[s] = Sum(fun, s)
<1>1. PICK G : G = {s \in SUBSET S : g[s] = Sum(fun, s)}
  OBVIOUS
<1>2. {} \in G
  BY <1>1, SumLaw
<1>3. ASSUME NEW s \in G, NEW x \in S \ s PROVE s \union {x} \in G
  <2>1. s \in SUBSET S /\ s \union {x} \in SUBSET S /\ g[s] = Sum(fun, s)
    BY <1>1, <1>3
  <2>2. g[s \union {x}] = Plus(fun[x], g[s])
    BY <2>1
  <2>3. Sum(fun, s \union {x}) = Plus(fun[x], Sum(fun, s))
    BY <2>1, SumLaw
  <2> QED
    BY <1>1, <2>1, <2>2, <2>3
<1>4. G \in SUBSET (SUBSET S)
  BY <1>1
<1>5. G = SUBSET S
  BY <1>2, <1>3, <1>4, InductOnSets
<1> QED
  BY <1>1, <1>5

\* Sums of the same terms.
LEMMA SumSame ==
  ASSUME NEW S, IsFiniteSet(S), NEW f, NEW h, \A x \in S : f[x] \in F /\ h[x] = f[x]
  PROVE  Sum(h, S) = Sum(f, S)
<1>1. PICK g : g = [s \in SUBSET S |-> Sum(f, s)]
  OBVIOUS
<1>2. g[{}] = Zero
  BY <1>1, SumLaw
<1>3. ASSUME NEW s \in SUBSET S, NEW x \in S \ s PROVE g[s \union {x}] = Plus(h[x], g[s])
  <2>1. s \union {x} \in SUBSET S
    OBVIOUS
  <2>2. Sum(f, s \union {x}) = Plus(f[x], Sum(f, s))
    BY SumLaw
  <2> QED
    BY <1>1, <2>1, <2>2
<1>4. IsFiniteSet(S) /\ \A x \in S : h[x] \in F
  OBVIOUS
<1>5. \A s \in SUBSET S : g[s] = Sum(h, s)
  BY ONLY <1>2, <1>3, <1>4, SumUnique
<1> QED
  BY <1>1, <1>5

\* A sum of sums, a common factor, terms that are zero.
LEMMA SumPlus ==
  ASSUME NEW S, IsFiniteSet(S), NEW f, NEW e, NEW h,
         \A x \in S : f[x] \in F /\ e[x] \in F /\ h[x] = Plus(f[x], e[x])
  PROVE  Sum(h, S) = Plus(Sum(f, S), Sum(e, S))
<1>1. PICK g : g = [s \in SUBSET S |-> Plus(Sum(f, s), Sum(e, s))]
  OBVIOUS
<1>2. g[{}] = Zero
  <2>1. Sum(f, {}) = Zero /\ Sum(e, {}) = Zero
    BY SumLaw
  <2> QED
    BY <1>1, <2>1, PlusIs
<1>3. ASSUME NEW s \in SUBSET S, NEW x \in S \ s PROVE g[s \union {x}] = Plus(h[x], g[s])
  <2>1. s \union {x} \in SUBSET S
    OBVIOUS
  <2>2. Sum(f, s \union {x}) = Plus(f[x], Sum(f, s)) /\ Sum(e, s \union {x}) = Plus(e[x], Sum(e, s))
    BY SumLaw
  <2>3. Plus(Plus(f[x], Sum(f, s)), Plus(e[x], Sum(e, s)))
        = Plus(Plus(f[x], e[x]), Plus(Sum(f, s), Sum(e, s)))
    BY PlusIs
  <2> QED
    BY <1>1, <2>1, <2>2, <2>3
<1>4. IsFiniteSet(S) /\ \A x \in S : h[x] \in F
  BY PlusIs
<1>5. \A s \in SUBSET S : g[s] = Sum(h, s)
  BY ONLY <1>2, <1>3, <1>4, SumUnique
<1> QED
  BY <1>1, <1>5

LEMMA SumScale ==
  ASSUME NEW S, IsFiniteSet(S), NEW a \in F, NEW f, NEW h,
         \A x \in S : f[x] \in F /\ h[x] = Mul(a, f[x])
  PROVE  Sum(h, S) = Mul(a, Sum(f, S))
<1>1. PICK g : g = [s \in SUBSET S |-> Mul(a, Sum(f, s))]
  OBVIOUS
<1>2. g[{}] = Zero
  BY <1>1, SumLaw, MulPowers
<1>3. ASSUME NEW s \in SUBSET S, NEW x \in S \ s PROVE g[s \union {x}] = Plus(h[x], g[s])
  <2>1. s \union {x} \in SUBSET S
    OBVIOUS
  <2>2. Sum(f, s \union {x}) = Plus(f[x], Sum(f, s)) /\ Sum(f, s) \in F /\ f[x] \in F
    BY SumLaw
  <2>3. Mul(a, Plus(f[x], Sum(f, s))) = Plus(Mul(a, f[x]), Mul(a, Sum(f, s)))
    BY <2>2, Distributes
  <2> QED
    BY <1>1, <2>1, <2>2, <2>3
<1>4. IsFiniteSet(S) /\ \A x \in S : h[x] \in F
  BY MulInF
<1>5. \A s \in SUBSET S : g[s] = Sum(h, s)
  BY ONLY <1>2, <1>3, <1>4, SumUnique
<1> QED
  BY <1>1, <1>5

LEMMA SumWider ==
  ASSUME NEW S, IsFiniteSet(S), NEW R \in SUBSET S, NEW f,
         \A x \in S : f[x] \in F, \A x \in S \ R : f[x] = Zero
  PROVE  Sum(f, S) = Sum(f, R)
<1>1. PICK g : g = [s \in SUBSET S |-> Sum(f, s \intersect R)]
  OBVIOUS
<1>2. g[{}] = Zero
  <2>1. {} \intersect R = {}
    OBVIOUS
  <2> QED
    BY <1>1, <2>1, SumLaw
<1>3. ASSUME NEW s \in SUBSET S, NEW x \in S \ s PROVE g[s \union {x}] = Plus(f[x], g[s])
  <2>1. s \union {x} \in SUBSET S
    OBVIOUS
  <2>2. CASE x \in R
    <3>1. PICK r \in SUBSET S : r = s \intersect R
      OBVIOUS
    <3>2. (s \union {x}) \intersect R = r \union {x} /\ x \in S \ r
      BY <2>2, <3>1
    <3>3. Sum(f, r \union {x}) = Plus(f[x], Sum(f, r))
      BY <3>2, SumLaw
    <3> QED
      BY <1>1, <2>1, <3>1, <3>2, <3>3
  <2>3. CASE x \notin R
    <3>1. (s \union {x}) \intersect R = s \intersect R /\ f[x] = Zero
      BY <2>3
    <3> QED
      BY <1>1, <2>1, <3>1, PlusIs
  <2> QED
    BY <2>2, <2>3
<1>4. \A s \in SUBSET S : g[s] = Sum(f, s)
  BY <1>2, <1>3, SumUnique
<1>5. S \intersect R = R
  OBVIOUS
<1> QED
  BY <1>1, <1>4, <1>5

LEMMA SumZero ==
  ASSUME NEW S, IsFiniteSet(S), NEW f, \A x \in S : f[x] = Zero
  PROVE  Sum(f, S) = Zero
<1>1. \A x \in S : f[x] \in F
  BY PlusIs
<1>2. {} \in SUBSET S /\ \A x \in S \ {} : f[x] = Zero
  OBVIOUS
<1>3. Sum(f, S) = Sum(f, {})
  BY <1>1, <1>2, SumWider
<1> QED
  BY <1>1, <1>3, SumLaw

\* Renaming what is summed over.
LEMMA SumMoved ==
  ASSUME NEW S, IsFiniteSet(S), NEW m, \A x, y \in S : m[x] = m[y] => x = y,
         NEW f, \A x \in S : f[m[x]] \in F, NEW h, \A x \in S : h[x] = f[m[x]],
         NEW R, \A x \in S : m[x] \in R, \A y \in R : \E x \in S : m[x] = y
  PROVE  Sum(h, S) = Sum(f, R)
<1> DEFINE To(s) == {m[x] : x \in s}
<1>1. PICK g : g = [s \in SUBSET S |-> Sum(f, To(s))]
  OBVIOUS
<1>2. IsFiniteSet(To(S)) /\ \A y \in To(S) : f[y] \in F
  <2>1. [x \in S |-> m[x]] \in Surjection(S, To(S))
    BY DEF Surjection
  <2>2. IsFiniteSet(To(S))
    <3> HIDE DEF To
    <3> QED
      BY <2>1, FS_Surjection
  <2> QED
    BY <2>2
<1>3. g[{}] = Zero
  <2>1. To({}) = {}
    OBVIOUS
  <2>2. g[{}] = Sum(f, {})
    BY <1>1, <2>1
  <2>3. Sum(f, {}) = Zero
    <3> HIDE DEF To
    <3> QED
      BY <1>2, SumLaw
  <2> QED
    BY <2>2, <2>3
<1>4. ASSUME NEW s \in SUBSET S, NEW x \in S \ s PROVE g[s \union {x}] = Plus(h[x], g[s])
  <2>1. s \union {x} \in SUBSET S
    OBVIOUS
  <2>2. To(s \union {x}) = To(s) \union {m[x]}
    OBVIOUS
  <2>3. To(s) \in SUBSET To(S) /\ m[x] \in To(S) \ To(s)
    BY <1>4
  <2>4. Sum(f, To(s) \union {m[x]}) = Plus(f[m[x]], Sum(f, To(s)))
    <3> HIDE DEF To
    <3> QED
      BY <1>2, <2>3, SumLaw
  <2> QED
    BY <1>1, <2>1, <2>2, <2>4
<1>5. IsFiniteSet(S) /\ \A x \in S : h[x] \in F
  OBVIOUS
<1>6. \A s \in SUBSET S : g[s] = Sum(h, s)
  <2> HIDE DEF To
  <2> QED
    BY ONLY <1>3, <1>4, <1>5, SumUnique
<1>7. To(S) = R
  OBVIOUS
<1> HIDE DEF To
<1> QED
  BY <1>1, <1>6, <1>7

RowSum(f, x, R) == Sum([y \in R |-> f[<<x, y>>]], R)
ColSum(f, y, S) == Sum([x \in S |-> f[<<x, y>>]], S)

\* Rows first or columns first.
LEMMA SumSwap ==
  ASSUME NEW S, IsFiniteSet(S), NEW R, IsFiniteSet(R),
         NEW f, \A x \in S, y \in R : f[<<x, y>>] \in F,
         NEW rows, \A x \in S : rows[x] = RowSum(f, x, R),
         NEW cols, \A y \in R : cols[y] = ColSum(f, y, S)
  PROVE  Sum(rows, S) = Sum(cols, R)
<1> DEFINE Col(y) == [x \in S |-> f[<<x, y>>]]
           Cut(s) == [y \in R |-> Sum(Col(y), s)]
           Row(x) == [y \in R |-> f[<<x, y>>]]
<1>9. /\ \A x \in S : rows[x] = Sum([y \in R |-> f[<<x, y>>]], R)
      /\ \A y \in R : cols[y] = Sum([x \in S |-> f[<<x, y>>]], S)
  BY DEF RowSum, ColSum
<1>1. PICK g : g = [s \in SUBSET S |-> Sum(Cut(s), R)]
  OBVIOUS
<1>2. ASSUME NEW y \in R PROVE \A x \in S : Col(y)[x] \in F
  OBVIOUS
<1>3. ASSUME NEW y \in R, NEW s \in SUBSET S PROVE Sum(Col(y), s) \in F
  <2> HIDE DEF Col
  <2> QED
    BY <1>2, SumLaw
<1>4. g[{}] = Zero
  <2>1. \A y \in R : Sum(Col(y), {}) = Zero
    <3> HIDE DEF Col
    <3> QED
      BY <1>2, SumLaw
  <2>2. \A y \in R : Cut({})[y] = Zero
    BY <2>1
  <2>3. Sum(Cut({}), R) = Zero
    <3> HIDE DEF Cut
    <3> QED
      BY <2>2, SumZero
  <2> QED
    BY <1>1, <2>3
<1>5. ASSUME NEW s \in SUBSET S, NEW x \in S \ s PROVE g[s \union {x}] = Plus(rows[x], g[s])
  <2>1. s \union {x} \in SUBSET S
    OBVIOUS
  <2>2. ASSUME NEW y \in R
        PROVE  Sum(Col(y), s \union {x}) = Plus(f[<<x, y>>], Sum(Col(y), s))
    <3>1. Col(y)[x] = f[<<x, y>>]
      OBVIOUS
    <3>2. Sum(Col(y), s \union {x}) = Plus(Col(y)[x], Sum(Col(y), s))
      <4> HIDE DEF Col
      <4> QED
        BY <1>2, SumLaw
    <3> QED
      BY <3>1, <3>2
  <2>3. \A y \in R : /\ Row(x)[y] \in F /\ Cut(s)[y] \in F
                     /\ Cut(s \union {x})[y] = Plus(Row(x)[y], Cut(s)[y])
    <3>1. ASSUME NEW y \in R
          PROVE  /\ Row(x)[y] \in F /\ Cut(s)[y] \in F
                 /\ Cut(s \union {x})[y] = Plus(Row(x)[y], Cut(s)[y])
      <4>1. Row(x)[y] = f[<<x, y>>] /\ Cut(s)[y] = Sum(Col(y), s)
            /\ Cut(s \union {x})[y] = Sum(Col(y), s \union {x})
        <5> HIDE DEF Col
        <5> QED
          OBVIOUS
      <4> HIDE DEF Row, Cut, Col
      <4> QED
        BY <1>3, <2>2, <4>1
    <3> QED
      BY <3>1
  <2>4. Sum(Cut(s \union {x}), R) = Plus(Sum(Row(x), R), Sum(Cut(s), R))
    <3> HIDE DEF Cut, Row
    <3> QED
      BY <2>3, SumPlus
  <2>5. rows[x] = Sum(Row(x), R)
    BY <1>9
  <2> HIDE DEF Cut, Row
  <2> QED
    BY <1>1, <2>1, <2>4, <2>5
<1>6. \A x \in S : rows[x] \in F
  <2>1. ASSUME NEW x \in S PROVE Sum(Row(x), R) \in F
    <3>1. \A y \in R : Row(x)[y] \in F
      OBVIOUS
    <3> HIDE DEF Row
    <3> QED
      BY <3>1, SumLaw
  <2> QED
    BY <1>9, <2>1
<1>7. \A s \in SUBSET S : g[s] = Sum(rows, s)
  <2>1. IsFiniteSet(S)
    OBVIOUS
  <2> HIDE DEF Cut
  <2> QED
    BY ONLY <1>4, <1>5, <1>6, <2>1, SumUnique
<1>8. Sum(Cut(S), R) = Sum(cols, R)
  <2>1. ASSUME NEW y \in R PROVE Cut(S)[y] \in F /\ cols[y] = Cut(S)[y]
    <3>1. Cut(S)[y] = Sum(Col(y), S) /\ cols[y] = Sum(Col(y), S)
      BY <1>9
    <3> HIDE DEF Cut, Col
    <3> QED
      BY <1>3, <3>1
  <2> HIDE DEF Cut
  <2> QED
    BY <2>1, SumSame
<1> HIDE DEF Cut
<1> QED
  BY <1>1, <1>7, <1>8

LEMMA MulComm == \A a \in F, b \in F : Mul(a, b) = Mul(b, a)
  BY MulIs

LEMMA MulAssoc == \A a \in F, b \in F, c \in F : Mul(Mul(a, b), c) = Mul(a, Mul(b, c))
  BY MulIs

LEMMA NoDivisors == \A a \in F, b \in F : Mul(a, b) = Zero => a = Zero \/ b = Zero
  BY MulIs

LEMMA PowerInF == \A n \in Nat : Power(n) \in F /\ Power(n) # Zero
  BY PowerIs

\* Two rearrangements the sums below need.
LEMMA RingStep ==
  ASSUME NEW a \in F, NEW p \in F, NEW q \in F, NEW r \in F
  PROVE  /\ Mul(Mul(a, Plus(p, q)), r) = Plus(Mul(a, Mul(p, r)), Mul(q, Mul(a, r)))
         /\ Mul(a, Mul(q, r)) = Mul(q, Mul(a, r))
<1>1. Plus(p, q) \in F /\ Mul(p, r) \in F /\ Mul(q, r) \in F /\ Mul(a, q) \in F
  BY PlusIs, MulInF
<1>2. Mul(Mul(a, Plus(p, q)), r) = Mul(a, Mul(Plus(p, q), r))
  BY <1>1, MulAssoc
<1>3. Mul(Plus(p, q), r) = Plus(Mul(p, r), Mul(q, r))
  <2>1. Mul(Plus(p, q), r) = Mul(r, Plus(p, q)) /\ Mul(r, p) = Mul(p, r) /\ Mul(r, q) = Mul(q, r)
    BY <1>1, MulComm
  <2> QED
    BY <2>1, Distributes
<1>4. Mul(a, Plus(Mul(p, r), Mul(q, r))) = Plus(Mul(a, Mul(p, r)), Mul(a, Mul(q, r)))
  BY <1>1, Distributes
<1>5. Mul(a, Mul(q, r)) = Mul(q, Mul(a, r))
  <2>1. Mul(a, Mul(q, r)) = Mul(Mul(a, q), r) /\ Mul(Mul(q, a), r) = Mul(q, Mul(a, r))
    BY MulAssoc
  <2> QED
    BY <2>1, MulComm
<1> QED
  BY <1>2, <1>3, <1>4, <1>5

(***************************************************************************)
(* Powers of distinct elements: sums that vanish have vanishing weights.   *)
(***************************************************************************)
Nodes == 0 .. Order - 1
Moment(c, j, E) == Sum([e \in E |-> Mul(c[e], Power(j * e))], E)

\* The places are exponents of distinct powers.
LEMMA NodesAre ==
  /\ Nodes \subseteq Nat /\ IsFiniteSet(Nodes) /\ \A E \in SUBSET Nodes : IsFiniteSet(E)
  /\ \A j \in Nat, e \in Nodes :
       /\ j * e \in Nat /\ Power(j * e) \in F /\ Power(e) \in F /\ Power(e) # Zero
       /\ Mul(Power(e), Power(j * e)) = Power((j + 1) * e)
<1>1. Order \in Nat \ {0}
  BY FieldSizes
<1>2. Nodes \subseteq Nat /\ IsFiniteSet(Nodes)
  BY <1>1, FS_Interval DEF Nodes
<1>3. \A E \in SUBSET Nodes : IsFiniteSet(E)
  BY <1>2, FS_Subset
<1>4. ASSUME NEW j \in Nat, NEW e \in Nodes
      PROVE  /\ j * e \in Nat /\ Power(j * e) \in F /\ Power(e) \in F /\ Power(e) # Zero
             /\ Mul(Power(e), Power(j * e)) = Power((j + 1) * e)
  <2>1. e \in Nat
    BY <1>2
  <2>2. j * e \in Nat /\ (j + 1) * e = e + j * e
    BY <2>1
  <2> QED
    BY <2>1, <2>2, PowerInF, MulPowers
<1> QED
  BY <1>2, <1>3, <1>4

LEMMA MomentIs ==
  ASSUME NEW E \in SUBSET Nodes, NEW c, \A e \in E : c[e] \in F, NEW j \in Nat
  PROVE  Moment(c, j, E) \in F /\ \A e \in E : Mul(c[e], Power(j * e)) \in F
<1>1. \A e \in E : Mul(c[e], Power(j * e)) \in F
  BY NodesAre, MulInF
<1>2. PICK f : f = [e \in E |-> Mul(c[e], Power(j * e))]
  OBVIOUS
<1>3. IsFiniteSet(E) /\ \A e \in E : f[e] \in F
  BY <1>1, <1>2, NodesAre
<1>4. Sum(f, E) \in F
  BY <1>3, SumLaw
<1> QED
  BY <1>1, <1>2, <1>4 DEF Moment

\* One place more.
LEMMA MomentAdds ==
  ASSUME NEW E \in SUBSET Nodes, NEW x \in Nodes \ E, NEW j \in Nat,
         NEW c, \A e \in E \union {x} : c[e] \in F
  PROVE  Moment(c, j, E \union {x}) = Plus(Mul(c[x], Power(j * x)), Moment(c, j, E))
<1>1. PICK D : D = E \union {x}
  OBVIOUS
<1>2. D \in SUBSET Nodes /\ E \in SUBSET D /\ x \in D \ E /\ \A e \in D : c[e] \in F
  BY <1>1
<1>3. PICK f : f = [e \in D |-> Mul(c[e], Power(j * e))]
  OBVIOUS
<1>4. IsFiniteSet(D) /\ IsFiniteSet(E) /\ \A e \in D : f[e] \in F
  BY <1>2, <1>3, NodesAre, MomentIs
<1>5. Sum(f, E \union {x}) = Plus(f[x], Sum(f, E))
  BY <1>2, <1>4, SumLaw
<1>6. PICK h : h = [e \in E |-> Mul(c[e], Power(j * e))]
  OBVIOUS
<1>7. \A e \in E : f[e] \in F /\ h[e] = f[e]
  BY <1>2, <1>3, <1>4, <1>6
<1>8. Sum(h, E) = Sum(f, E)
  BY <1>4, <1>7, SumSame
<1>9. Moment(c, j, D) = Sum(f, D) /\ Moment(c, j, E) = Sum(h, E)
  BY <1>3, <1>6 DEF Moment
<1>10. f[x] = Mul(c[x], Power(j * x))
  BY <1>2, <1>3
<1> QED
  BY <1>1, <1>5, <1>8, <1>9, <1>10

\* Weighting each place by its distance from one place combines two power sums.
LEMMA MomentShifts ==
  ASSUME NEW E \in SUBSET Nodes, NEW x \in Nodes, NEW j \in Nat,
         NEW c, \A e \in E : c[e] \in F,
         NEW b, \A e \in E : b[e] = Mul(c[e], Plus(Power(e), Power(x)))
  PROVE  Moment(b, j, E) = Plus(Moment(c, j + 1, E), Mul(Power(x), Moment(c, j, E)))
<1>1. IsFiniteSet(E) /\ Power(x) \in F
  BY NodesAre
<1>2. PICK f : f = [e \in E |-> Mul(c[e], Power((j + 1) * e))]
  OBVIOUS
<1>3. PICK g : g = [e \in E |-> Mul(c[e], Power(j * e))]
  OBVIOUS
<1>4. PICK u : u = [e \in E |-> Mul(Power(x), g[e])]
  OBVIOUS
<1>5. PICK h : h = [e \in E |-> Mul(b[e], Power(j * e))]
  OBVIOUS
<1>6. \A e \in E : f[e] \in F /\ g[e] \in F /\ u[e] \in F
  <2>1. j + 1 \in Nat
    OBVIOUS
  <2>2. \A e \in E : f[e] \in F
    BY <1>2, <2>1, MomentIs
  <2>3. \A e \in E : g[e] \in F
    BY <1>3, MomentIs
  <2> QED
    BY <1>1, <1>4, <2>2, <2>3, MulInF
<1>7. ASSUME NEW e \in E PROVE h[e] = Plus(f[e], u[e])
  <2>1. /\ Power(e) \in F /\ Power(j * e) \in F /\ c[e] \in F
        /\ Mul(Power(e), Power(j * e)) = Power((j + 1) * e)
    BY NodesAre
  <2>2. h[e] = Mul(Mul(c[e], Plus(Power(e), Power(x))), Power(j * e))
    BY <1>5
  <2>3. h[e] = Plus(Mul(c[e], Power((j + 1) * e)), Mul(Power(x), Mul(c[e], Power(j * e))))
    BY <1>1, <2>1, <2>2, RingStep
  <2> QED
    BY <1>2, <1>3, <1>4, <2>3
<1>8. Sum(h, E) = Plus(Sum(f, E), Sum(u, E))
  BY <1>1, <1>6, <1>7, SumPlus
<1>9. Sum(u, E) = Mul(Power(x), Sum(g, E))
  BY <1>1, <1>4, <1>6, SumScale
<1> QED
  BY <1>2, <1>3, <1>5, <1>8, <1>9 DEF Moment

\* As many vanishing sums as there are weights, and the weights vanish (Vandermonde).
LEMMA WeightsVanish ==
  ASSUME NEW E \in SUBSET Nodes, NEW c, \A e \in E : c[e] \in F,
         \A j \in 1 .. Cardinality(E) : Moment(c, j, E) = Zero
  PROVE  \A e \in E : c[e] = Zero
<1> DEFINE Fine(s) == \A w \in [s -> F] :
             (\A j \in 1 .. Cardinality(s) : Moment(w, j, s) = Zero) => \A e \in s : w[e] = Zero
<1>1. PICK G : G = {s \in SUBSET Nodes : Fine(s)}
  OBVIOUS
<1>2. {} \in G
  BY <1>1
<1>3. ASSUME NEW s \in G, NEW x \in Nodes \ s PROVE s \union {x} \in G
  <2>1. s \in SUBSET Nodes /\ Fine(s)
    BY <1>1, <1>3
  <2>2. PICK d \in SUBSET Nodes : d = s \union {x}
    BY <2>1
  <2>3. PICK v \in Nat : v = Cardinality(s) /\ Cardinality(d) = v + 1
    BY <2>1, <2>2, NodesAre, FS_CardinalityType, FS_AddElement
  <2>4. ASSUME NEW w \in [d -> F], \A j \in 1 .. v + 1 : Moment(w, j, d) = Zero
        PROVE  \A e \in d : w[e] = Zero
    <3>1. x \in Nodes \ s /\ \A e \in s \union {x} : w[e] \in F
      BY <1>3, <2>2, <2>4
    <3>2. Power(x) \in F /\ Power(x) # Zero /\ w[x] \in F
      BY <3>1, NodesAre
    <3>3. ASSUME NEW j \in 1 .. v + 1
          PROVE  Mul(w[x], Power(j * x)) = Moment(w, j, s) /\ Moment(w, j, s) \in F
      <4>1. j \in Nat /\ Moment(w, j, d) = Zero
        BY <2>4
      <4>2. Moment(w, j, d) = Plus(Mul(w[x], Power(j * x)), Moment(w, j, s))
        BY <2>1, <2>2, <3>1, <4>1, MomentAdds
      <4>3. Moment(w, j, s) \in F
        BY <2>1, <3>1, <4>1, MomentIs
      <4> QED
        BY <4>1, <4>2, <4>3, PlusIs
    <3>4. PICK b : b = [e \in s |-> Mul(w[e], Plus(Power(e), Power(x)))]
      OBVIOUS
    <3>5. b \in [s -> F]
      <4>1. ASSUME NEW e \in s PROVE Mul(w[e], Plus(Power(e), Power(x))) \in F
        <5>1. Power(e) \in F /\ w[e] \in F
          BY <2>1, <3>1, NodesAre
        <5> QED
          BY <3>2, <5>1, PlusIs, MulInF
      <4> QED
        BY <3>4, <4>1
    <3>6. ASSUME NEW j \in 1 .. v PROVE Moment(b, j, s) = Zero
      <4>1. j \in Nat /\ j \in 1 .. v + 1 /\ j + 1 \in 1 .. v + 1
        BY <2>3
      <4>2. Moment(b, j, s) = Plus(Moment(w, j + 1, s), Mul(Power(x), Moment(w, j, s)))
        BY <2>1, <3>1, <3>4, <4>1, MomentShifts
      <4>3. Power(j * x) \in F /\ Mul(Power(x), Power(j * x)) = Power((j + 1) * x)
        BY <3>1, <4>1, NodesAre
      <4>4. Mul(Power(x), Mul(w[x], Power(j * x))) = Mul(w[x], Power((j + 1) * x))
        BY <3>2, <4>3, RingStep
      <4>5. Moment(w, j + 1, s) = Mul(Power(x), Moment(w, j, s))
        BY <3>3, <4>1, <4>4
      <4> QED
        BY <4>2, <4>5, PlusIs
    <3>7. ASSUME NEW e \in s PROVE w[e] = Zero
      <4>1. b[e] = Zero
        BY <2>1, <2>3, <3>5, <3>6
      <4>2. e \in Nodes /\ e # x
        BY <2>1, <3>1
      <4>3. Power(e) \in F /\ Plus(Power(e), Power(x)) # Zero
        <5>1. Power(e) # Power(x)
          BY <3>1, <4>2, PowerIs DEF Nodes
        <5> QED
          BY <4>2, <5>1, NodesAre, PlusIs
      <4>4. Plus(Power(e), Power(x)) \in F /\ w[e] \in F
        BY <3>1, <3>2, <4>3, PlusIs
      <4> QED
        BY <3>4, <4>1, <4>3, <4>4, NoDivisors
    <3>8. w[x] = Zero
      <4>1. 1 \in 1 .. v + 1 /\ 1 \in Nat /\ x \in Nat /\ 1 * x = x
        BY <2>3, <3>1, NodesAre
      <4>2. Mul(w[x], Power(x)) = Moment(w, 1, s)
        BY <3>3, <4>1
      <4>3. Moment(w, 1, s) = Zero
        <5>1. PICK f : f = [e \in s |-> Mul(w[e], Power(1 * e))]
          OBVIOUS
        <5>2. \A e \in s : f[e] = Zero
          BY <3>7, <5>1, MulPowers
        <5>3. Sum(f, s) = Zero
          BY <2>1, <5>2, NodesAre, SumZero
        <5> QED
          BY <5>1, <5>3 DEF Moment
      <4> QED
        BY <3>2, <4>2, <4>3, NoDivisors
    <3> QED
      BY <2>2, <3>7, <3>8
  <2> QED
    BY <1>1, <2>2, <2>3, <2>4
<1>4. G = SUBSET Nodes
  <2>1. G \in SUBSET (SUBSET Nodes)
    BY <1>1
  <2> HIDE DEF Fine
  <2> QED
    BY <1>2, <1>3, <2>1, NodesAre, InductOnSets
<1>5. Fine(E)
  BY <1>1, <1>4
<1>6. PICK w : w = [e \in E |-> c[e]]
  OBVIOUS
<1>7. w \in [E -> F] /\ \A e \in E : w[e] = c[e]
  BY <1>6
<1>8. ASSUME NEW j \in 1 .. Cardinality(E) PROVE Moment(w, j, E) = Zero
  <2>1. [e \in E |-> Mul(w[e], Power(j * e))] = [e \in E |-> Mul(c[e], Power(j * e))]
    BY <1>7
  <2> QED
    BY <2>1 DEF Moment
<1>9. \A e \in E : w[e] = Zero
  BY <1>5, <1>7, <1>8
<1> QED
  BY <1>7, <1>9

(***************************************************************************)
(* Polynomials: one with more roots than its degree is zero.               *)
(***************************************************************************)
At(p, d, e) == Sum([i \in 0 .. d |-> Mul(p[i], Power(i * e))], 0 .. d)

\* A polynomial at a power of alpha.
LEMMA AtIs ==
  ASSUME NEW d \in Nat, NEW p, \A i \in 0 .. d : p[i] \in F, NEW e \in Nodes
  PROVE  /\ IsFiniteSet(0 .. d) /\ 0 .. d \subseteq Nat /\ At(p, d, e) \in F
         /\ \A i \in 0 .. d : Power(i * e) \in F /\ Mul(p[i], Power(i * e)) \in F
<1>1. IsFiniteSet(0 .. d) /\ 0 .. d \subseteq Nat
  BY FS_Interval
<1>2. \A i \in 0 .. d : Power(i * e) \in F /\ Mul(p[i], Power(i * e)) \in F
  BY <1>1, NodesAre, MulInF
<1>3. PICK f : f = [i \in 0 .. d |-> Mul(p[i], Power(i * e))]
  OBVIOUS
<1>4. Sum(f, 0 .. d) \in F
  BY <1>1, <1>2, <1>3, SumLaw
<1> QED
  BY <1>1, <1>2, <1>3, <1>4 DEF At

\* What is left of p when a root r is divided out, from the highest coefficient down.
Quotient(q, p, d, r) ==
  /\ q \in [0 .. d + 1 -> F]
  /\ q[d + 1] = Zero
  /\ \A k \in 0 .. d : q[k] = Plus(p[k], Mul(Power(r), q[k + 1]))

\* A quotient by x minus a power, by Horner.
LEMMA Divided ==
  ASSUME NEW d \in Nat, NEW p, \A i \in 0 .. d : p[i] \in F, NEW r \in Nodes
  PROVE  \E q : Quotient(q, p, d, r)
<1> DEFINE From(k) == [j \in k .. d |-> Mul(p[j], Power((j - k) * r))]
<1>1. PICK q : q = [k \in 0 .. d + 1 |-> Sum(From(k), k .. d)]
  OBVIOUS
<1>2. ASSUME NEW k \in 0 .. d + 1
      PROVE  /\ IsFiniteSet(k .. d) /\ \A j \in k .. d : From(k)[j] \in F
  <2>1. IsFiniteSet(k .. d)
    BY FS_Interval
  <2>2. ASSUME NEW j \in k .. d PROVE From(k)[j] \in F
    <3>1. j - k \in Nat /\ j \in 0 .. d
      OBVIOUS
    <3> QED
      BY <3>1, NodesAre, MulInF
  <2> QED
    BY <2>1, <2>2
<1>3. q \in [0 .. d + 1 -> F]
  <2>1. ASSUME NEW k \in 0 .. d + 1 PROVE Sum(From(k), k .. d) \in F
    <3> HIDE DEF From
    <3> QED
      BY <1>2, SumLaw
  <2> QED
    BY <1>1, <2>1
<1>4. q[d + 1] = Zero
  <2>1. d + 1 \in 0 .. d + 1 /\ (d + 1) .. d = {}
    OBVIOUS
  <2>2. q[d + 1] = Sum(From(d + 1), {})
    <3> HIDE DEF From
    <3> QED
      BY <1>1, <2>1
  <2>3. Sum(From(d + 1), {}) = Zero
    <3>1. PICK f : f = From(d + 1)
      OBVIOUS
    <3>2. IsFiniteSet({}) /\ \A x \in {} : f[x] \in F
      BY FS_EmptySet
    <3>3. Sum(f, {}) = Zero
      BY ONLY <3>2, SumLaw
    <3> HIDE DEF From
    <3> QED
      BY <3>1, <3>3
  <2> QED
    BY <2>2, <2>3
<1>5. ASSUME NEW k \in 0 .. d PROVE q[k] = Plus(p[k], Mul(Power(r), q[k + 1]))
  <2>1. k \in 0 .. d + 1 /\ k + 1 \in 0 .. d + 1 /\ k \in k .. d /\ k \notin (k + 1) .. d
        /\ k .. d = ((k + 1) .. d) \union {k} /\ (k + 1) .. d \in SUBSET (k .. d)
    OBVIOUS
  <2>2. Sum(From(k), ((k + 1) .. d) \union {k}) = Plus(From(k)[k], Sum(From(k), (k + 1) .. d))
    <3>1. PICK f : f = From(k)
      OBVIOUS
    <3>2. IsFiniteSet(k .. d) /\ \A j \in k .. d : f[j] \in F
      <4> HIDE DEF From
      <4> QED
        BY <1>2, <2>1, <3>1
    <3>3. (k + 1) .. d \in SUBSET (k .. d) /\ k \in (k .. d) \ ((k + 1) .. d)
      BY <2>1
    <3>4. Sum(f, ((k + 1) .. d) \union {k}) = Plus(f[k], Sum(f, (k + 1) .. d))
      <4>1. PICK A, B : A = k .. d /\ B = (k + 1) .. d
        OBVIOUS
      <4>2. IsFiniteSet(A) /\ (\A j \in A : f[j] \in F) /\ B \in SUBSET A /\ k \in A \ B
        BY ONLY <3>2, <3>3, <4>1
      <4>3. Sum(f, B \union {k}) = Plus(f[k], Sum(f, B))
        BY ONLY <4>2, SumLaw
      <4> QED
        BY <4>1, <4>3
    <3> HIDE DEF From
    <3> QED
      BY <3>1, <3>4
  <2>3. From(k)[k] = p[k]
    <3>1. k - k = 0 /\ 0 * r = 0
      BY NodesAre
    <3>2. Mul(p[k], Power(0)) = p[k]
      BY MulComm, MulIs, PowerIs
    <3> QED
      BY <2>1, <3>1, <3>2
  <2>4. ASSUME NEW j \in (k + 1) .. d PROVE From(k)[j] = Mul(Power(r), From(k + 1)[j])
    <3>1. PICK n \in Nat : n = j - (k + 1)
      OBVIOUS
    <3>2. j - k = n + 1 /\ j \in k .. d /\ p[j] \in F
      BY <3>1
    <3>3. Power(n * r) \in F /\ Power(r) \in F /\ Mul(Power(r), Power(n * r)) = Power((n + 1) * r)
      BY NodesAre
    <3>4. Mul(p[j], Mul(Power(r), Power(n * r))) = Mul(Power(r), Mul(p[j], Power(n * r)))
      BY <3>2, <3>3, RingStep
    <3> QED
      BY <3>1, <3>2, <3>3, <3>4
  <2>5. Sum(From(k), (k + 1) .. d) = Mul(Power(r), Sum(From(k + 1), (k + 1) .. d))
    <3>1. Power(r) \in F
      BY NodesAre
    <3> HIDE DEF From
    <3> QED
      BY <1>2, <2>1, <2>4, <3>1, SumScale
  <2>6. q[k] = Sum(From(k), k .. d) /\ q[k + 1] = Sum(From(k + 1), (k + 1) .. d)
    <3> HIDE DEF From
    <3> QED
      BY <1>1, <2>1
  <2> HIDE DEF From
  <2> QED
    BY <2>1, <2>2, <2>3, <2>5, <2>6
<1> QED
  BY <1>3, <1>4, <1>5 DEF Quotient

\* q holds p's remainder and, above it, its quotient h.
Divides(p, d, r, q, h) ==
  /\ \A i \in 0 .. d + 1 : p[i] \in F
  /\ q \in [0 .. d + 2 -> F] /\ q[d + 2] = Zero
  /\ \A k \in 0 .. d + 1 : q[k] = Plus(p[k], Mul(Power(r), q[k + 1]))
  /\ h \in [0 .. d -> F] /\ \A k \in 0 .. d : h[k] = q[k + 1]

\* A polynomial is its quotient times x minus that power, plus a remainder.
LEMMA DividesOut ==
  ASSUME NEW d \in Nat, NEW p, NEW r \in Nodes, NEW q, NEW h, Divides(p, d, r, q, h),
         NEW e \in Nodes
  PROVE  At(p, d + 1, e) = Plus(q[0], Mul(Plus(Power(e), Power(r)), At(h, d, e)))
<1> SUFFICES ASSUME \A i \in 0 .. d + 1 : p[i] \in F,
                    q \in [0 .. d + 2 -> F], q[d + 2] = Zero,
                    \A k \in 0 .. d + 1 : q[k] = Plus(p[k], Mul(Power(r), q[k + 1])),
                    h \in [0 .. d -> F], \A k \in 0 .. d : h[k] = q[k + 1]
             PROVE  At(p, d + 1, e) = Plus(q[0], Mul(Plus(Power(e), Power(r)), At(h, d, e)))
  BY DEF Divides
<1> DEFINE D == 0 .. d + 1
<1>1. Power(e) \in F /\ Power(r) \in F /\ d + 1 \in Nat /\ IsFiniteSet(D) /\ IsFiniteSet(0 .. d)
  <2>1. d + 1 \in Nat /\ 0 \in Int /\ d \in Int /\ d + 1 \in Int
    OBVIOUS
  <2>2. IsFiniteSet(0 .. d + 1) /\ IsFiniteSet(0 .. d)
    BY ONLY <2>1, FS_Interval
  <2> QED
    BY <2>1, <2>2, NodesAre
<1>2. ASSUME NEW k \in D PROVE p[k] = Plus(q[k], Mul(Power(r), q[k + 1]))
  <2>1. k + 1 \in 0 .. d + 2 /\ q[k + 1] \in F /\ q[k] \in F
    OBVIOUS
  <2>2. q[k] = Plus(p[k], Mul(Power(r), q[k + 1]))
    OBVIOUS
  <2> QED
    BY <2>2 DEF Plus
<1>3. PICK f : f = [i \in D |-> Mul(q[i], Power(i * e))]
  OBVIOUS
<1>4. PICK g : g = [i \in D |-> Mul(q[i + 1], Power(i * e))]
  OBVIOUS
<1>5. PICK u : u = [i \in D |-> Mul(Power(r), g[i])]
  OBVIOUS
<1>6. PICK w : w = [i \in D |-> Mul(p[i], Power(i * e))]
  OBVIOUS
<1>7. ASSUME NEW i \in D
      PROVE  f[i] \in F /\ g[i] \in F /\ u[i] \in F /\ w[i] = Plus(f[i], u[i])
  <2>1. /\ i \in Nat /\ q[i] \in F /\ q[i + 1] \in F /\ Power(i * e) \in F
    <3>1. i \in Nat /\ i \in 0 .. d + 2 /\ i + 1 \in 0 .. d + 2
      OBVIOUS
    <3> HIDE DEF D
    <3> QED
      BY <3>1, NodesAre
  <2>2. f[i] \in F /\ g[i] \in F
    BY <1>3, <1>4, <2>1, MulInF
  <2>3. u[i] \in F /\ Mul(Power(r), q[i + 1]) \in F
    BY <1>1, <1>5, <2>1, <2>2, MulInF
  <2>4. Mul(Power(i * e), Plus(q[i], Mul(Power(r), q[i + 1])))
        = Plus(Mul(Power(i * e), q[i]), Mul(Power(i * e), Mul(Power(r), q[i + 1])))
    BY <2>1, <2>3, Distributes
  <2>5. Mul(Power(i * e), q[i]) = f[i] /\ Mul(Power(i * e), p[i]) = w[i]
    BY <1>3, <1>6, <2>1, MulComm
  <2>6. Mul(Power(i * e), Mul(Power(r), q[i + 1])) = u[i]
    <3>1. Mul(Power(i * e), Mul(Power(r), q[i + 1])) = Mul(Power(r), Mul(Power(i * e), q[i + 1]))
      BY <1>1, <2>1, RingStep
    <3>2. Mul(Power(i * e), q[i + 1]) = g[i]
      BY <1>4, <2>1, MulComm
    <3> QED
      BY <1>5, <3>1, <3>2
  <2> QED
    BY <1>2, <2>2, <2>3, <2>4, <2>5, <2>6
<1>8. Sum(w, D) = Plus(Sum(f, D), Mul(Power(r), Sum(g, D)))
  <2>1. Sum(w, D) = Plus(Sum(f, D), Sum(u, D))
    <3> HIDE DEF D
    <3> QED
      BY <1>1, <1>7, SumPlus
  <2>2. Sum(u, D) = Mul(Power(r), Sum(g, D))
    <3> HIDE DEF D
    <3> QED
      BY <1>1, <1>5, <1>7, SumScale
  <2> QED
    BY <2>1, <2>2
<1>9. PICK t : t = [k \in 0 .. d |-> Mul(h[k], Power(k * e))]
  OBVIOUS
<1>10. \A k \in 0 .. d : t[k] \in F /\ k \in D /\ g[k] = t[k]
  <2>1. ASSUME NEW k \in 0 .. d PROVE t[k] \in F /\ k \in D /\ g[k] = t[k]
    <3>1. k \in D /\ g[k] = t[k]
      BY <1>4, <1>9
    <3> QED
      BY <1>7, <3>1
  <2> QED
    BY <2>1
<1>11. Sum(g, D) = Sum(t, 0 .. d)
  <2>1. 0 .. d \in SUBSET D /\ \A k \in D \ (0 .. d) : k = d + 1
    OBVIOUS
  <2>2. \A k \in D \ (0 .. d) : g[k] = Zero
    <3>1. (d + 1) + 1 = d + 2 /\ d + 1 \in D
      OBVIOUS
    <3>2. g[d + 1] = Zero
      BY <1>4, <3>1, MulPowers
    <3> QED
      BY <2>1, <3>2
  <2>3. Sum(g, D) = Sum(g, 0 .. d)
    <3> HIDE DEF D
    <3> QED
      BY <1>1, <1>7, <2>1, <2>2, SumWider
  <2>4. Sum(g, 0 .. d) = Sum(t, 0 .. d)
    BY <1>1, <1>10, SumSame
  <2> QED
    BY <2>3, <2>4
<1>12. Sum(f, D) = Plus(q[0], Mul(Power(e), Sum(t, 0 .. d)))
  <2>1. PICK m : m = [k \in 0 .. d |-> k + 1]
    OBVIOUS
  <2>2. PICK v : v = [k \in 0 .. d |-> Mul(Power(e), t[k])]
    OBVIOUS
  <2>3. PICK B : B = {m[k] : k \in 0 .. d}
    OBVIOUS
  <2>4. B = 1 .. d + 1
    <3>1. \A n \in 1 .. d + 1 : n - 1 \in 0 .. d /\ m[n - 1] = n
      BY <2>1
    <3>2. \A k \in 0 .. d : m[k] \in 1 .. d + 1
      BY <2>1
    <3>3. \A n : n \in B <=> n \in 1 .. d + 1
      <4>1. \A n \in 1 .. d + 1 : n \in B
        BY ONLY <2>3, <3>1
      <4>2. \A n \in B : n \in 1 .. d + 1
        BY ONLY <2>3, <3>2
      <4> QED
        BY ONLY <4>1, <4>2
    <3> QED
      BY ONLY <3>3
  <2>5. ASSUME NEW k \in 0 .. d PROVE f[m[k]] \in F /\ v[k] = f[m[k]]
    <3>1. k + 1 \in D /\ m[k] = k + 1 /\ k \in Nat
      BY <2>1
    <3>2. f[k + 1] = Mul(h[k], Power((k + 1) * e))
      BY <1>3, <3>1
    <3>3. Power(k * e) \in F /\ Mul(Power(e), Power(k * e)) = Power((k + 1) * e) /\ h[k] \in F
      BY <3>1, NodesAre
    <3>4. Mul(h[k], Mul(Power(e), Power(k * e))) = Mul(Power(e), Mul(h[k], Power(k * e)))
      BY <1>1, <3>3, RingStep
    <3> QED
      BY <1>7, <1>9, <2>2, <3>1, <3>2, <3>3, <3>4
  <2>6. Sum(v, 0 .. d) = Sum(f, B)
    <3>1. \A k, l \in 0 .. d : m[k] = m[l] => k = l
      BY <2>1
    <3>2. /\ IsFiniteSet(0 .. d) /\ \A k \in 0 .. d : f[m[k]] \in F
          /\ \A k \in 0 .. d : v[k] = f[m[k]]
      BY <1>1, <2>5
    <3>3. (\A k \in 0 .. d : m[k] \in B) /\ \A y \in B : \E k \in 0 .. d : m[k] = y
      BY <2>3
    <3> QED
      <4>1. PICK S : S = 0 .. d
        OBVIOUS
      <4>2. /\ IsFiniteSet(S) /\ \A k \in S : f[m[k]] \in F
            /\ \A k \in S : v[k] = f[m[k]]
        BY <3>2, <4>1
      <4>3. /\ \A k \in S : m[k] \in B
            /\ \A y \in B : \E k \in S : m[k] = y
        BY <3>3, <4>1
      <4>4. \A k, l \in S : m[k] = m[l] => k = l
        BY <3>1, <4>1
      <4>5. Sum(v, S) = Sum(f, B)
        BY ONLY <4>2, <4>3, <4>4, SumMoved
      <4> QED
        BY <4>1, <4>5
  <2>7. Sum(v, 0 .. d) = Mul(Power(e), Sum(t, 0 .. d))
    <3>1. /\ IsFiniteSet(0 .. d) /\ Power(e) \in F
          /\ \A k \in 0 .. d : t[k] \in F /\ v[k] = Mul(Power(e), t[k])
      BY <1>1, <1>10, <2>2
    <3> QED
      BY ONLY <3>1, SumScale
  <2>8. D = B \union {0} /\ B \in SUBSET D /\ 0 \in D \ B
    BY <2>4
  <2>9. Sum(f, B \union {0}) = Plus(f[0], Sum(f, B))
    <3>1. PICK A : A = D
      OBVIOUS
    <3>2. IsFiniteSet(A) /\ (\A k \in A : f[k] \in F) /\ B \in SUBSET A /\ 0 \in A \ B
      BY <1>1, <1>7, <2>8, <3>1
    <3> QED
      BY ONLY <3>2, SumLaw
  <2>10. f[0] = q[0]
    <3>1. 0 \in D /\ 0 * e = 0 /\ q[0] \in F
      BY NodesAre
    <3> QED
      BY <1>3, <3>1, MulComm, MulIs, PowerIs
  <2> QED
    BY <2>6, <2>7, <2>8, <2>9, <2>10
<1>13. PICK a \in F : a = Sum(t, 0 .. d)
  BY <1>1, <1>10, SumLaw
<1>14. Mul(Plus(Power(e), Power(r)), a) = Plus(Mul(Power(e), a), Mul(Power(r), a))
  <2>1. Plus(Power(e), Power(r)) \in F
    BY <1>1, PlusIs
  <2>2. /\ Mul(Plus(Power(e), Power(r)), a) = Mul(a, Plus(Power(e), Power(r)))
        /\ Mul(Power(e), a) = Mul(a, Power(e)) /\ Mul(Power(r), a) = Mul(a, Power(r))
    BY <1>1, <1>13, <2>1, MulComm
  <2> QED
    BY <1>1, <1>13, <2>2, Distributes
<1>15. Sum(w, D) = Plus(q[0], Plus(Mul(Power(e), a), Mul(Power(r), a)))
  BY <1>8, <1>11, <1>12, <1>13, PlusIs
<1>16. At(p, d + 1, e) = Sum(w, D) /\ At(h, d, e) = a
  BY <1>6, <1>9, <1>13 DEF At
<1> QED
  BY <1>14, <1>15, <1>16

\* A polynomial with more roots than its degree is zero.
LEMMA FewRoots ==
  ASSUME NEW n \in Nat, NEW c, \A i \in 0 .. n : c[i] \in F,
         NEW S \in SUBSET Nodes, Cardinality(S) > n, \A e \in S : At(c, n, e) = Zero
  PROVE  \A i \in 0 .. n : c[i] = Zero
<1> DEFINE Fine(d) == \A p \in [0 .. d -> F], R \in SUBSET Nodes :
             Cardinality(R) > d /\ (\A e \in R : At(p, d, e) = Zero)
               => \A i \in 0 .. d : p[i] = Zero
<1>1. PICK G : G = {d \in Nat : Fine(d)}
  OBVIOUS
<1>2. 0 \in G
  <2>1. ASSUME NEW p \in [0 .. 0 -> F], NEW R \in SUBSET Nodes, Cardinality(R) > 0,
               \A e \in R : At(p, 0, e) = Zero
        PROVE  \A i \in 0 .. 0 : p[i] = Zero
    <3>1. R # {}
      BY <2>1, FS_EmptySet
    <3>2. PICK e \in R : TRUE
      BY <3>1
    <3>3. e \in Nodes /\ 0 .. 0 = {0} /\ \A i \in 0 .. 0 : p[i] \in F
      BY <2>1
    <3>4. PICK f : f = [i \in 0 .. 0 |-> Mul(p[i], Power(i * e))]
      OBVIOUS
    <3>5. IsFiniteSet({0}) /\ \A i \in {0} : f[i] \in F
      BY <3>3, <3>4, AtIs
    <3>6. Sum(f, {} \union {0}) = Plus(f[0], Sum(f, {})) /\ Sum(f, {}) = Zero
      BY <3>5, SumLaw
    <3>7. f[0] = p[0]
      <4>1. 0 * e = 0 /\ p[0] \in F
        BY <3>3, NodesAre
      <4> QED
        BY <3>3, <3>4, <4>1, MulComm, MulIs, PowerIs
    <3>8. At(p, 0, e) = Sum(f, {0})
      BY <3>3, <3>4 DEF At
    <3>9. {} \union {0} = {0} /\ At(p, 0, e) = Zero
      BY <2>1, <3>2
    <3> QED
      BY <3>3, <3>6, <3>7, <3>8, <3>9, PlusIs
  <2> QED
    BY <1>1, <2>1
<1>3. ASSUME NEW d \in G PROVE d + 1 \in G
  <2>1. d \in Nat /\ d + 1 \in Nat /\ Fine(d)
    BY <1>1, <1>3
  <2>2. ASSUME NEW p \in [0 .. d + 1 -> F], NEW R \in SUBSET Nodes, Cardinality(R) > d + 1,
               \A e \in R : At(p, d + 1, e) = Zero
        PROVE  \A i \in 0 .. d + 1 : p[i] = Zero
    <3>1. IsFiniteSet(R) /\ R # {}
      BY <2>1, <2>2, NodesAre, FS_EmptySet
    <3>2. PICK r \in R : TRUE
      BY <3>1
    <3>3. r \in Nodes /\ \A i \in 0 .. d + 1 : p[i] \in F
      BY <2>2, <3>2
    <3>4. PICK q \in [0 .. (d + 1) + 1 -> F] :
            /\ q[(d + 1) + 1] = Zero
            /\ \A k \in 0 .. d + 1 : q[k] = Plus(p[k], Mul(Power(r), q[k + 1]))
      <4>1. PICK n1 \in Nat : n1 = d + 1
        BY <2>1
      <4>2. \A i \in 0 .. n1 : p[i] \in F
        BY <3>3, <4>1
      <4>3. r \in Nodes
        BY <3>3
      <4>4. \E q : Quotient(q, p, n1, r)
        BY ONLY <4>2, <4>3, Divided
      <4> QED
        BY <4>1, <4>4 DEF Quotient
    <3>5. (d + 1) + 1 = d + 2
      BY <2>1
    <3>6. PICK h : h = [k \in 0 .. d |-> q[k + 1]]
      OBVIOUS
    <3>7. h \in [0 .. d -> F] /\ \A k \in 0 .. d : h[k] = q[k + 1]
      BY <2>1, <3>4, <3>6
    <3>8. ASSUME NEW e \in Nodes
          PROVE  /\ At(p, d + 1, e) = Plus(q[0], Mul(Plus(Power(e), Power(r)), At(h, d, e)))
                 /\ At(h, d, e) \in F /\ Power(e) \in F
      <4>1. q \in [0 .. d + 2 -> F] /\ q[d + 2] = Zero
        BY <3>4, <3>5
      <4>2. At(p, d + 1, e) = Plus(q[0], Mul(Plus(Power(e), Power(r)), At(h, d, e)))
        <5>1. /\ d \in Nat /\ \A i \in 0 .. d + 1 : p[i] \in F
          BY <2>1, <3>3
        <5>2. r \in Nodes /\ e \in Nodes
          BY <3>3, <3>8
        <5>3. \A k \in 0 .. d + 1 : q[k] = Plus(p[k], Mul(Power(r), q[k + 1]))
          BY <3>4
        <5> QED
          <6>1. Divides(p, d, r, q, h)
            BY <3>7, <4>1, <5>1, <5>3 DEF Divides
          <6> QED
            BY ONLY <5>1, <5>2, <6>1, DividesOut
      <4>3. At(h, d, e) \in F
        BY <2>1, <3>7, AtIs
      <4> QED
        BY <4>2, <4>3, NodesAre
    <3>9. q[0] = Zero
      <4>1. At(p, d + 1, r) = Zero
        BY <2>2, <3>2
      <4>2. Plus(Power(r), Power(r)) = Zero
        BY PlusIs
      <4>3. At(p, d + 1, r) = Plus(q[0], Zero)
        BY <3>3, <3>8, <4>2, MulPowers
      <4> QED
        BY <4>1, <4>3, PlusIs
    <3>10. ASSUME NEW e \in R \ {r} PROVE At(h, d, e) = Zero
      <4>1. e \in Nodes /\ e # r /\ At(p, d + 1, e) = Zero
        BY <2>2
      <4>2. Mul(Plus(Power(e), Power(r)), At(h, d, e)) = Zero
        BY <3>8, <3>9, <4>1, PlusIs
      <4>3. Power(e) # Power(r)
        BY <3>3, <4>1, PowerIs DEF Nodes
      <4>4. Power(e) \in F /\ Power(r) \in F /\ At(h, d, e) \in F
        BY <3>3, <3>8, <4>1
      <4>5. Plus(Power(e), Power(r)) \in F /\ Plus(Power(e), Power(r)) # Zero
        BY <4>3, <4>4, PlusIs
      <4> QED
        BY <4>2, <4>4, <4>5, NoDivisors
    <3>11. R \ {r} \in SUBSET Nodes /\ Cardinality(R \ {r}) > d
      <4>1. Cardinality(R \ {r}) = Cardinality(R) - 1 /\ Cardinality(R) \in Nat
        BY <3>1, <3>2, FS_RemoveElement, FS_CardinalityType
      <4> QED
        BY <2>1, <2>2, <4>1
    <3>12. \A k \in 0 .. d : h[k] = Zero
      BY <2>1, <3>7, <3>10, <3>11
    <3>13. ASSUME NEW k \in 0 .. d + 1 PROVE q[k] = Zero /\ q[k + 1] = Zero
      <4>1. \A j \in 1 .. d + 1 : q[j] = Zero
        <5>1. ASSUME NEW j \in 1 .. d + 1 PROVE q[j] = Zero
          <6>1. j - 1 \in 0 .. d /\ (j - 1) + 1 = j
            BY <2>1
          <6> QED
            BY <3>7, <3>12, <6>1
        <5> QED
          BY <5>1
      <4>2. k = 0 \/ k \in 1 .. d + 1
        BY <2>1
      <4>3. k + 1 \in 1 .. d + 1 \/ k + 1 = d + 2
        BY <2>1
      <4> QED
        BY <3>4, <3>5, <3>9, <4>1, <4>2, <4>3
    <3>14. ASSUME NEW i \in 0 .. d + 1 PROVE p[i] = Zero
      <4>1. q[i] = Plus(p[i], Mul(Power(r), q[i + 1]))
        BY <3>4
      <4>2. Zero = Plus(p[i], Zero)
        BY <3>13, <4>1, MulPowers
      <4> QED
        BY <4>2, PlusIs
    <3> QED
      BY <3>14
  <2> QED
    BY <1>1, <2>1, <2>2
<1>4. G = Nat
  <2>1. G \in SUBSET Nat
    BY <1>1
  <2> HIDE DEF Fine
  <2> QED
    BY <1>2, <1>3, <2>1, Induct
<1>5. PICK p : p = [i \in 0 .. n |-> c[i]]
  OBVIOUS
<1>6. p \in [0 .. n -> F] /\ \A i \in 0 .. n : p[i] = c[i]
  BY <1>5
<1>7. ASSUME NEW e \in S PROVE At(p, n, e) = Zero
  <2>1. [i \in 0 .. n |-> Mul(p[i], Power(i * e))] = [i \in 0 .. n |-> Mul(c[i], Power(i * e))]
    BY <1>6
  <2> QED
    BY <2>1 DEF At
<1>8. Fine(n)
  BY <1>1, <1>4
<1>9. \A i \in 0 .. n : p[i] = Zero
  BY <1>6, <1>7, <1>8
<1> QED
  BY <1>6, <1>9

(***************************************************************************)
(* Berlekamp-Massey.  What a polynomial makes of the syndromes up to k.    *)
(***************************************************************************)
Dev(p, length, s, k) ==
  Sum([i \in 0 .. length |-> Mul(Coefficient(p, i), s[k - i])], 0 .. length)
Poly(p, length) ==
  /\ \A i \in Int : Coefficient(p, i) \in F
  /\ \A i \in Int : i < 0 \/ i > length => Coefficient(p, i) = Zero
Syndromes == [1 .. 2 * T -> F]

\* The terms of a sum that stays inside the syndromes.
LEMMA DevIs ==
  ASSUME NEW length \in Nat, NEW p, Poly(p, length), NEW s \in Syndromes,
         NEW k \in length + 1 .. 2 * T
  PROVE  /\ IsFiniteSet(0 .. length) /\ Dev(p, length, s, k) \in F
         /\ \A i \in 0 .. length :
              /\ k - i \in 1 .. 2 * T /\ s[k - i] \in F /\ Coefficient(p, i) \in F
              /\ Mul(Coefficient(p, i), s[k - i]) \in F
<1>1. IsFiniteSet(0 .. length) /\ T \in Nat
  BY FS_Interval, FieldSizes
<1>2. ASSUME NEW i \in 0 .. length
      PROVE  /\ k - i \in 1 .. 2 * T /\ s[k - i] \in F /\ Coefficient(p, i) \in F
             /\ Mul(Coefficient(p, i), s[k - i]) \in F
  <2>1. k - i \in 1 .. 2 * T /\ i \in Int
    BY <1>1
  <2>2. s[k - i] \in F /\ Coefficient(p, i) \in F
    BY <2>1 DEF Poly, Syndromes
  <2> QED
    BY <2>1, <2>2, MulInF
<1>3. PICK f : f = [i \in 0 .. length |-> Mul(Coefficient(p, i), s[k - i])]
  OBVIOUS
<1>4. \A i \in 0 .. length : f[i] \in F
  BY <1>2, <1>3
<1>5. Sum(f, 0 .. length) \in F
  BY <1>1, <1>4, SumLaw
<1> QED
  BY <1>1, <1>2, <1>3, <1>5 DEF Dev

\* Coefficients beyond the length do not count.
LEMMA DevWider ==
  ASSUME NEW length \in Nat, NEW wide \in Nat, length <= wide, NEW p, Poly(p, length),
         NEW s \in Syndromes, NEW k \in wide + 1 .. 2 * T
  PROVE  Poly(p, wide) /\ Dev(p, wide, s, k) = Dev(p, length, s, k)
<1>1. Poly(p, wide)
  <2>1. \A i \in Int : i > wide => i > length
    OBVIOUS
  <2> QED
    BY <2>1 DEF Poly
<1>2. PICK f : f = [i \in 0 .. wide |-> Mul(Coefficient(p, i), s[k - i])]
  OBVIOUS
<1>3. PICK g : g = [i \in 0 .. length |-> Mul(Coefficient(p, i), s[k - i])]
  OBVIOUS
<1>4. /\ IsFiniteSet(0 .. wide) /\ \A i \in 0 .. wide : f[i] \in F
  BY <1>1, <1>2, DevIs
<1>5. 0 .. length \in SUBSET (0 .. wide)
  OBVIOUS
<1>6. \A i \in (0 .. wide) \ (0 .. length) : f[i] = Zero
  <2>1. ASSUME NEW i \in (0 .. wide) \ (0 .. length) PROVE f[i] = Zero
    <3>1. i \in Int /\ i > length
      OBVIOUS
    <3>2. Coefficient(p, i) = Zero
      BY <3>1 DEF Poly
    <3> QED
      BY <1>2, <3>2, MulPowers
  <2> QED
    BY <2>1
<1>7. Sum(f, 0 .. wide) = Sum(f, 0 .. length)
  BY <1>4, <1>5, <1>6, SumWider
<1>8. IsFiniteSet(0 .. length) /\ \A i \in 0 .. length : f[i] \in F /\ g[i] = f[i]
  <2>1. IsFiniteSet(0 .. length)
    BY FS_Interval
  <2> QED
    BY <1>2, <1>3, <1>4, <1>5, <2>1
<1>9. Sum(g, 0 .. length) = Sum(f, 0 .. length)
  BY ONLY <1>8, SumSame
<1> QED
  BY <1>1, <1>2, <1>3, <1>7, <1>9 DEF Dev

Corrected(p, sigma, previous, scale, shift, wide) ==
  \A i \in 0 .. wide :
    Coefficient(p, i)
    = Plus(Coefficient(sigma, i), Mul(scale, Coefficient(previous, i - shift)))

\* What a polynomial corrected by a shifted one makes of the syndromes.
LEMMA DevOfUpdated ==
  ASSUME NEW length \in Nat, NEW sigma, Poly(sigma, length),
         NEW before \in Nat, NEW previous, Poly(previous, before),
         NEW shift \in Nat, NEW scale \in F,
         NEW wide \in Nat, length <= wide, before + shift <= wide,
         NEW p, Corrected(p, sigma, previous, scale, shift, wide),
         NEW s \in Syndromes, NEW k \in wide + 1 .. 2 * T
  PROVE  Dev(p, wide, s, k)
         = Plus(Dev(sigma, length, s, k), Mul(scale, Dev(previous, before, s, k - shift)))
<1> DEFINE W == 0 .. wide
<1>1. IsFiniteSet(W) /\ IsFiniteSet(0 .. before)
  BY FS_Interval
<1>2. /\ \A i \in W : k - i \in 1 .. 2 * T /\ s[k - i] \in F
      /\ Dev(sigma, wide, s, k) = Dev(sigma, length, s, k)
  BY DevWider, DevIs
<1>3. PICK f : f = [i \in W |-> Mul(Coefficient(sigma, i), s[k - i])]
  OBVIOUS
<1>4. PICK g : g = [i \in W |-> Mul(Coefficient(previous, i - shift), s[k - i])]
  OBVIOUS
<1>5. PICK u : u = [i \in W |-> Mul(scale, g[i])]
  OBVIOUS
<1>6. PICK h : h = [i \in W |-> Mul(Coefficient(p, i), s[k - i])]
  OBVIOUS
<1>7. ASSUME NEW i \in W
      PROVE  f[i] \in F /\ g[i] \in F /\ u[i] \in F /\ h[i] = Plus(f[i], u[i])
  <2>1. i \in Int /\ i - shift \in Int /\ s[k - i] \in F
    BY <1>2
  <2>2. Coefficient(sigma, i) \in F /\ Coefficient(previous, i - shift) \in F
    BY <2>1 DEF Poly
  <2>3. PICK a \in F, b \in F, x \in F :
          a = Coefficient(sigma, i) /\ b = Coefficient(previous, i - shift) /\ x = s[k - i]
    BY <2>1, <2>2
  <2>4. f[i] = Mul(a, x) /\ g[i] = Mul(b, x) /\ u[i] = Mul(scale, Mul(b, x))
    BY <1>3, <1>4, <1>5, <2>3
  <2>5. f[i] \in F /\ g[i] \in F /\ u[i] \in F /\ Mul(scale, b) \in F
    BY <2>4, MulInF
  <2>6. h[i] = Mul(Plus(a, Mul(scale, b)), x)
    BY <1>6, <2>3 DEF Corrected
  <2>7. Mul(Plus(a, Mul(scale, b)), x) = Plus(Mul(a, x), Mul(Mul(scale, b), x))
    <3>1. Plus(a, Mul(scale, b)) \in F
      BY <2>5, PlusIs
    <3>2. /\ Mul(Plus(a, Mul(scale, b)), x) = Mul(x, Plus(a, Mul(scale, b)))
          /\ Mul(a, x) = Mul(x, a) /\ Mul(Mul(scale, b), x) = Mul(x, Mul(scale, b))
      BY <2>5, <3>1, MulComm
    <3> QED
      BY <2>5, <3>2, Distributes
  <2>8. Mul(Mul(scale, b), x) = Mul(scale, Mul(b, x))
    BY MulAssoc
  <2> QED
    BY <2>4, <2>5, <2>6, <2>7, <2>8
<1>8. Sum(h, W) = Plus(Sum(f, W), Sum(u, W))
  <2> HIDE DEF W
  <2> QED
    BY <1>1, <1>7, SumPlus
<1>9. Sum(u, W) = Mul(scale, Sum(g, W))
  <2>1. \A i \in W : u[i] = Mul(scale, g[i])
    BY <1>5
  <2> HIDE DEF W
  <2> QED
    BY <1>1, <1>7, <2>1, SumScale
<1>10. Sum(g, W) = Dev(previous, before, s, k - shift)
  <2>1. PICK m : m = [j \in 0 .. before |-> j + shift]
    OBVIOUS
  <2>2. PICK v : v = [j \in 0 .. before |-> Mul(Coefficient(previous, j), s[(k - shift) - j])]
    OBVIOUS
  <2>3. PICK B : B = shift .. before + shift
    OBVIOUS
  <2>4. B \in SUBSET W
    BY <2>3
  <2>5. \A i \in W \ B : g[i] = Zero
    <3>1. ASSUME NEW i \in W \ B PROVE g[i] = Zero
      <4>1. i - shift \in Int /\ (i - shift < 0 \/ i - shift > before)
        BY <2>3
      <4>2. Coefficient(previous, i - shift) = Zero
        BY <4>1 DEF Poly
      <4> QED
        BY <1>4, <4>2, MulPowers
    <3> QED
      BY <3>1
  <2>6. Sum(g, W) = Sum(g, B)
    <3>1. \A i \in W : g[i] \in F
      BY <1>7
    <3> HIDE DEF W
    <3> QED
      BY <1>1, <2>4, <2>5, <3>1, SumWider
  <2>7. PICK S : S = 0 .. before
    OBVIOUS
  <2>8. ASSUME NEW j \in S PROVE m[j] \in B /\ g[m[j]] \in F /\ v[j] = g[m[j]]
    <3>1. j \in 0 .. before /\ m[j] = j + shift
      BY <2>1, <2>7
    <3>2. m[j] \in B /\ m[j] \in W /\ m[j] - shift = j /\ k - m[j] = (k - shift) - j
      BY <2>3, <3>1
    <3>3. g[m[j]] = Mul(Coefficient(previous, m[j] - shift), s[k - m[j]])
      BY <1>4, <3>2
    <3>4. v[j] = Mul(Coefficient(previous, j), s[(k - shift) - j])
      BY <2>2, <3>1
    <3> QED
      BY <1>7, <3>2, <3>3, <3>4
  <2>9. \A y \in B : \E j \in S : m[j] = y
    <3>1. ASSUME NEW y \in B PROVE \E j \in S : m[j] = y
      <4>1. y - shift \in 0 .. before /\ (y - shift) + shift = y
        BY <2>3
      <4> QED
        BY <2>1, <2>7, <4>1
    <3> QED
      BY <3>1
  <2>10. \A j, l \in S : m[j] = m[l] => j = l
    BY <2>1, <2>7
  <2>11. IsFiniteSet(S)
    BY <1>1, <2>7
  <2>12. Sum(v, S) = Sum(g, B)
    BY ONLY <2>8, <2>9, <2>10, <2>11, SumMoved
  <2> QED
    BY <2>2, <2>6, <2>7, <2>12 DEF Dev
<1>11. Dev(p, wide, s, k) = Sum(h, W) /\ Dev(sigma, wide, s, k) = Sum(f, W)
  BY <1>3, <1>6 DEF Dev
<1> HIDE DEF W
<1> QED
  BY <1>2, <1>8, <1>9, <1>10, <1>11

Left(loc, n) == n + 1 - loc.errors - loc.shift
\* What the recurrence before the last lengthening gets right, and what it got wrong.
Before(loc, left, s) ==
  \A k \in left + 1 .. loc.errors + left :
    Dev(loc.previous, left, s, k) = IF k = loc.errors + left THEN loc.last ELSE Zero
LocatorOK(loc, n, s) ==
  /\ loc = [ sigma |-> loc.sigma, previous |-> loc.previous, errors |-> loc.errors,
             shift |-> loc.shift, last |-> loc.last ]
  /\ DOMAIN loc.sigma \in {{0}, 0 .. 2 * T}
  /\ loc.errors \in 0 .. n /\ loc.shift \in Nat \ {0} /\ Left(loc, n) \in Nat
  /\ Poly(loc.sigma, loc.errors) /\ Coefficient(loc.sigma, 0) = One
  /\ Poly(loc.previous, Left(loc, n))
  /\ loc.last \in F \ {Zero}
  /\ \A k \in loc.errors + 1 .. n : Dev(loc.sigma, loc.errors, s, k) = Zero
  /\ Before(loc, Left(loc, n), s)

\* The discrepancy is what the recurrence makes of the next syndrome.
LEMMA DiscrepancyIs ==
  ASSUME syndromes \in Syndromes, turn \in Nat, turn < 2 * T,
         LocatorOK(locator, turn, syndromes)
  PROVE  /\ Discrepancy = Dev(locator.sigma, locator.errors, syndromes, turn + 1)
         /\ Discrepancy \in F
<1>1. PICK length \in Nat : length = locator.errors /\ length <= turn
  BY DEF LocatorOK
<1>2. PICK p : p = locator.sigma /\ Poly(p, length) /\ Coefficient(p, 0) = One
  BY <1>1 DEF LocatorOK
<1>3. turn + 1 \in length + 1 .. 2 * T
  BY <1>1, FieldSizes
<1>4. PICK S : S = 0 .. length
  OBVIOUS
<1>5. PICK f : f = [i \in S |-> Mul(Coefficient(p, i), syndromes[turn + 1 - i])]
  OBVIOUS
<1>6. IsFiniteSet(S) /\ Dev(p, length, syndromes, turn + 1) \in F /\ \A i \in S : f[i] \in F
  <2>1. /\ IsFiniteSet(0 .. length) /\ Dev(p, length, syndromes, turn + 1) \in F
        /\ \A i \in 0 .. length : Mul(Coefficient(p, i), syndromes[turn + 1 - i]) \in F
    <3>1. PICK s \in Syndromes, k \in length + 1 .. 2 * T : s = syndromes /\ k = turn + 1
      BY <1>3
    <3>2. Poly(p, length)
      BY <1>2
    <3>3. /\ IsFiniteSet(0 .. length) /\ Dev(p, length, s, k) \in F
          /\ \A i \in 0 .. length : Mul(Coefficient(p, i), s[k - i]) \in F
      BY <3>2, DevIs
    <3> QED
      BY <3>1, <3>3
  <2> QED
    BY <1>4, <1>5, <2>1
<1>7. PICK R : R = 1 .. length
  OBVIOUS
<1>8. R \in SUBSET S /\ 0 \in S \ R /\ R \union {0} = S /\ IsFiniteSet(R)
  <2>1. \A i : i \in S <=> i = 0 \/ i \in R
    BY <1>4, <1>7
  <2>2. 0 \notin R /\ IsFiniteSet(R)
    BY <1>7, FS_Interval
  <2> QED
    BY ONLY <2>1, <2>2
<1>9. Sum(f, S) = Plus(f[0], Sum(f, R))
  BY <1>6, <1>8, SumLaw
<1>10. f[0] = syndromes[turn + 1] /\ syndromes[turn + 1] \in F
  <2>1. turn + 1 \in 1 .. 2 * T /\ turn + 1 - 0 = turn + 1
    BY FieldSizes
  <2>2. syndromes[turn + 1] \in F
    BY <2>1 DEF Syndromes
  <2> QED
    BY <1>2, <1>5, <1>8, <2>1, <2>2, MulIs
<1>11. PICK h : h = [i \in R |-> Mul(Coefficient(p, i), syndromes[turn + 1 - i])]
  OBVIOUS
<1>12. \A i \in R : f[i] \in F /\ h[i] = f[i]
  BY <1>5, <1>6, <1>8, <1>11
<1>13. Sum(h, R) = Sum(f, R)
  BY ONLY <1>8, <1>12, SumSame
<1>14. Discrepancy = Plus(syndromes[turn + 1], Sum(h, R))
  BY <1>1, <1>2, <1>7, <1>11 DEF Discrepancy
<1>15. Sum(f, S) = Dev(p, length, syndromes, turn + 1)
  BY <1>4, <1>5 DEF Dev
<1>16. Discrepancy = Sum(f, S)
  BY <1>9, <1>10, <1>13, <1>14
<1> QED
  BY <1>1, <1>2, <1>6, <1>15, <1>16

\* The corrected polynomial, up to any length both polynomials fit in.
LEMMA UpdatedIs ==
  ASSUME turn \in Nat, turn < 2 * T, LocatorOK(locator, turn, syndromes),
         NEW d \in F, NEW wide \in Nat, wide <= 2 * T, locator.errors <= wide,
         Left(locator, turn) + locator.shift <= wide
  PROVE  /\ DOMAIN Updated(d) = 0 .. 2 * T /\ Poly(Updated(d), wide)
         /\ Coefficient(Updated(d), 0) = One
         /\ Div(d, locator.last) \in F /\ Mul(Div(d, locator.last), locator.last) = d
         /\ \A i \in 0 .. wide : Coefficient(Updated(d), i)
              = Plus(Coefficient(locator.sigma, i),
                     Mul(Div(d, locator.last), Coefficient(locator.previous, i - locator.shift)))
<1>1. PICK scale \in F : scale = Div(d, locator.last) /\ Mul(scale, locator.last) = d
  BY MulIs DEF LocatorOK
<1>2. PICK shift \in Nat \ {0}, left \in Nat, length \in Nat :
        /\ shift = locator.shift /\ left = Left(locator, turn) /\ length = locator.errors
        /\ Poly(locator.sigma, length) /\ Coefficient(locator.sigma, 0) = One
        /\ Poly(locator.previous, left)
  BY DEF LocatorOK
<1>3. length <= wide /\ left + shift <= wide
  BY <1>2
<1>4. PICK p : p = Updated(d)
  OBVIOUS
<1>5. /\ DOMAIN p = 0 .. 2 * T
      /\ \A i \in 0 .. 2 * T : Coefficient(p, i)
           = Plus(Coefficient(locator.sigma, i), Mul(scale, Coefficient(locator.previous, i - shift)))
      /\ \A i : i \notin 0 .. 2 * T => Coefficient(p, i) = Zero
  BY <1>1, <1>2, <1>4 DEF Updated, Coefficient
<1>6. ASSUME NEW i \in Int
      PROVE  /\ Coefficient(p, i) \in F
             /\ i < 0 \/ i > wide => Coefficient(p, i) = Zero
  <2>1. CASE i \notin 0 .. 2 * T
    BY <1>5, <2>1, PlusIs
  <2>2. CASE i \in 0 .. 2 * T
    <3>1. PICK a, b : a = Coefficient(locator.sigma, i) /\ b = Coefficient(locator.previous, i - shift)
      OBVIOUS
    <3>2. a \in F /\ b \in F
      BY <1>2, <3>1 DEF Poly
    <3>3. Coefficient(p, i) = Plus(a, Mul(scale, b))
      BY <1>5, <2>2, <3>1
    <3>4. Plus(a, Mul(scale, b)) \in F
      BY <3>2, MulInF, PlusIs
    <3>5. ASSUME i > wide PROVE Coefficient(p, i) = Zero
      <4>1. i > length /\ i - shift \in Int /\ i - shift > left
        BY <1>3, <3>5
      <4>2. a = Zero /\ b = Zero
        BY <1>2, <3>1, <4>1 DEF Poly
      <4> QED
        BY <3>3, <4>2, MulPowers, PlusIs
    <3> QED
      BY <2>2, <3>3, <3>4, <3>5
  <2> QED
    BY <2>1, <2>2
<1>7. Coefficient(p, 0) = One
  <2>1. 0 \in 0 .. 2 * T /\ 0 - shift \in Int /\ 0 - shift < 0
    BY FieldSizes
  <2>2. Coefficient(locator.previous, 0 - shift) = Zero
    BY <1>2, <2>1 DEF Poly
  <2>3. Coefficient(p, 0) = Plus(One, Mul(scale, Zero))
    BY <1>2, <1>5, <2>1, <2>2
  <2> QED
    BY <2>3, MulPowers, PlusIs
<1>8. 0 .. wide \subseteq 0 .. 2 * T
  BY FieldSizes
<1> QED
  BY <1>1, <1>2, <1>4, <1>5, <1>6, <1>7, <1>8 DEF Poly

PartsOK(sigma, previous, errors, shift, last, n, s, left) ==
  /\ DOMAIN sigma \in {{0}, 0 .. 2 * T}
  /\ errors \in 0 .. n /\ shift \in Nat \ {0} /\ left = n + 1 - errors - shift /\ left \in Nat
  /\ Poly(sigma, errors) /\ Coefficient(sigma, 0) = One /\ Poly(previous, left)
  /\ last \in F \ {Zero}
  /\ \A k \in errors + 1 .. n : Dev(sigma, errors, s, k) = Zero
  /\ \A k \in left + 1 .. errors + left :
       Dev(previous, left, s, k) = IF k = errors + left THEN last ELSE Zero

\* A locator is right when its parts are.
LEMMA LocatorOf ==
  ASSUME NEW sigma, NEW previous, NEW errors, NEW shift, NEW last, NEW n, NEW s, NEW left,
         PartsOK(sigma, previous, errors, shift, last, n, s, left)
  PROVE  LocatorOK([ sigma |-> sigma, previous |-> previous, errors |-> errors,
                     shift |-> shift, last |-> last ], n, s)
<1>1. PICK loc : loc = [ sigma |-> sigma, previous |-> previous, errors |-> errors,
                         shift |-> shift, last |-> last ]
  OBVIOUS
<1>2. /\ loc.sigma = sigma /\ loc.previous = previous /\ loc.errors = errors
      /\ loc.shift = shift /\ loc.last = last /\ Left(loc, n) = left
  BY <1>1 DEF Left, PartsOK
<1>3. Before(loc, Left(loc, n), s)
  BY <1>2 DEF Before, PartsOK
<1>4. LocatorOK(loc, n, s)
  BY <1>1, <1>2, <1>3 DEF LocatorOK, PartsOK
<1> QED
  BY <1>1, <1>4

\* A correction with the recurrence before the last lengthening explains one syndrome more.
LEMMA UpdatedRecurs ==
  ASSUME syndromes \in Syndromes, turn \in Nat, turn < 2 * T,
         LocatorOK(locator, turn, syndromes),
         NEW d \in F, d = Dev(locator.sigma, locator.errors, syndromes, turn + 1),
         NEW wide \in Nat, wide <= turn + 1, locator.errors <= wide,
         Left(locator, turn) + locator.shift <= wide
  PROVE  \A k \in wide + 1 .. turn + 1 : Dev(Updated(d), wide, syndromes, k) = Zero
<1>1. PICK s \in Syndromes, n \in Nat : s = syndromes /\ n = turn /\ n + 1 <= 2 * T
  BY FieldSizes
<1>10. PICK sigma, previous : sigma = locator.sigma /\ previous = locator.previous
  OBVIOUS
<1>2. PICK shift \in Nat \ {0}, left \in Nat, length \in Nat, last \in F :
        /\ shift = locator.shift /\ left = Left(locator, turn) /\ length = locator.errors
        /\ last = locator.last
        /\ Poly(sigma, length) /\ Poly(previous, left) /\ length <= n
        /\ \A k \in length + 1 .. n : Dev(sigma, length, s, k) = Zero
        /\ \A k \in left + 1 .. length + left :
             Dev(previous, left, s, k) = IF k = length + left THEN last ELSE Zero
  BY <1>1, <1>10 DEF LocatorOK, Before
<1>3. left = n + 1 - length - shift
  BY <1>1, <1>2 DEF Left
<1>4. wide <= 2 * T
  BY <1>1, FieldSizes
<1>9. PICK p : p = Updated(d)
  OBVIOUS
<1>5. PICK scale \in F :
        /\ Mul(scale, last) = d
        /\ \A i \in 0 .. wide : Coefficient(p, i)
             = Plus(Coefficient(sigma, i), Mul(scale, Coefficient(previous, i - shift)))
  BY <1>2, <1>4, <1>9, <1>10, UpdatedIs
<1>6. length <= wide /\ left + shift <= wide
  BY <1>2
<1>7. ASSUME NEW k \in wide + 1 .. n + 1 PROVE Dev(p, wide, s, k) = Zero
  <2>1. k \in wide + 1 .. 2 * T /\ shift \in Nat
    BY <1>1, FieldSizes
  <2>2. Dev(p, wide, s, k)
        = Plus(Dev(sigma, length, s, k), Mul(scale, Dev(previous, left, s, k - shift)))
    <3>1. PICK w \in Nat : w = wide
      OBVIOUS
    <3>2. PICK c \in w + 1 .. 2 * T : c = k
      BY <2>1, <3>1
    <3>3. Corrected(p, sigma, previous, scale, shift, w)
      BY <1>5, <3>1 DEF Corrected
    <3>4. Poly(sigma, length) /\ Poly(previous, left) /\ length <= w /\ left + shift <= w
      BY <1>2, <1>6, <3>1
    <3>5. PICK far \in Nat : far = shift
      OBVIOUS
    <3>6. Dev(p, w, s, c)
          = Plus(Dev(sigma, length, s, c), Mul(scale, Dev(previous, left, s, c - far)))
      BY ONLY <1>1, <1>2, <1>5, <3>1, <3>2, <3>3, <3>4, <3>5, DevOfUpdated
    <3> QED
      BY <3>1, <3>2, <3>5, <3>6
  <2>3. CASE k <= n
    <3>1. k \in length + 1 .. n
      BY <1>6, <2>3
    <3>2. k - shift \in left + 1 .. length + left /\ k - shift # length + left
      BY <1>3, <1>6, <2>3
    <3>3. Dev(sigma, length, s, k) = Zero /\ Dev(previous, left, s, k - shift) = Zero
      BY <1>2, <3>1, <3>2
    <3> QED
      BY <2>2, <3>3, MulPowers, PlusIs
  <2>4. CASE k = n + 1
    <3>1. k - shift = length + left /\ k - shift \in left + 1 .. length + left
      BY <1>3, <1>6, <2>4
    <3>2. Dev(sigma, length, s, k) = d /\ Dev(previous, left, s, k - shift) = last
      BY <1>1, <1>2, <1>10, <2>4, <3>1
    <3> QED
      BY <1>5, <2>2, <3>2, PlusIs
  <2> QED
    BY <2>3, <2>4
<1> QED
  BY <1>1, <1>7, <1>9

\* A turn keeps it right.
LEMMA LocatorKept ==
  ASSUME syndromes \in Syndromes, turn \in Nat, turn < 2 * T,
         LocatorOK(locator, turn, syndromes)
  PROVE  LocatorOK(NextLocator, turn + 1, syndromes)
<1>8. PICK n \in Nat : n = turn
  OBVIOUS
<1>9. PICK s, sigma, previous :
        s = syndromes /\ sigma = locator.sigma /\ previous = locator.previous
  OBVIOUS
<1>1. s = syndromes /\ n = turn
  BY <1>8, <1>9
<1>2. PICK shift \in Nat \ {0}, left \in Nat, errors \in Nat, last \in F \ {Zero} :
        /\ locator = [ sigma |-> sigma, previous |-> previous, errors |-> errors,
                       shift |-> shift, last |-> last ]
        /\ left = Left(locator, turn) /\ left = n + 1 - errors - shift
        /\ DOMAIN sigma \in {{0}, 0 .. 2 * T}
        /\ Poly(sigma, errors) /\ Poly(previous, left) /\ errors <= n
        /\ Coefficient(sigma, 0) = One
        /\ \A k \in errors + 1 .. n : Dev(sigma, errors, s, k) = Zero
        /\ \A k \in left + 1 .. errors + left :
             Dev(previous, left, s, k) = IF k = errors + left THEN last ELSE Zero
  BY <1>1, <1>9 DEF LocatorOK, Before, Left
<1>3. PICK d \in F : d = Discrepancy /\ d = Dev(sigma, errors, s, n + 1)
  BY <1>1, <1>2, DiscrepancyIs
<1>4. n + 1 \in Nat /\ n + 1 - errors \in Nat /\ shift + 1 \in Nat \ {0}
  BY <1>2
<1>5. CASE d = Zero
  <2>1. NextLocator = [ sigma |-> sigma, previous |-> previous, errors |-> errors,
                        shift |-> shift + 1, last |-> last ]
    BY <1>2, <1>3, <1>5 DEF NextLocator
  <2>2. \A k \in errors + 1 .. n + 1 : Dev(sigma, errors, s, k) = Zero
    BY <1>2, <1>3, <1>5
  <2>3. left = (n + 1) + 1 - errors - (shift + 1) /\ errors \in 0 .. n + 1
    BY <1>2
  <2>4. LocatorOK([ sigma |-> sigma, previous |-> previous, errors |-> errors,
                    shift |-> shift + 1, last |-> last ], n + 1, s)
    <3>1. PartsOK(sigma, previous, errors, shift + 1, last, n + 1, s, left)
      BY <1>2, <1>4, <2>2, <2>3 DEF PartsOK
    <3> QED
      BY <3>1, LocatorOf
  <2> QED
    BY <1>1, <2>1, <2>4
<1>6. CASE d # Zero /\ TooShort(errors)
  <2>1. PICK wide \in Nat : wide = n + 1 - errors
    BY <1>4
  <2>2. errors <= wide /\ left + shift <= wide /\ wide <= n + 1 /\ wide <= 2 * T
    BY <1>1, <1>2, <1>6, <2>1, FieldSizes DEF TooShort
  <2>3. PICK p : /\ p = Updated(d) /\ DOMAIN p = 0 .. 2 * T /\ Poly(p, wide)
                 /\ Coefficient(p, 0) = One
    BY <1>2, <2>2, UpdatedIs
  <2>4. \A k \in wide + 1 .. n + 1 : Dev(p, wide, s, k) = Zero
    BY <1>1, <1>2, <1>3, <2>2, <2>3, UpdatedRecurs
  <2>5. NextLocator = [ sigma |-> p, previous |-> sigma, errors |-> wide,
                        shift |-> 1, last |-> d ]
    BY <1>1, <1>2, <1>3, <1>6, <2>1, <2>3 DEF NextLocator, Lengthened
  <2>6. /\ errors = (n + 1) + 1 - wide - 1 /\ wide \in 0 .. n + 1 /\ 1 \in Nat \ {0}
        /\ DOMAIN p \in {{0}, 0 .. 2 * T} /\ d \in F \ {Zero}
    BY <1>2, <1>6, <2>1, <2>2, <2>3
  <2>7. \A k \in errors + 1 .. wide + errors :
          Dev(sigma, errors, s, k) = IF k = wide + errors THEN d ELSE Zero
    BY <1>2, <1>3, <2>1
  <2>8. LocatorOK([ sigma |-> p, previous |-> sigma, errors |-> wide,
                    shift |-> 1, last |-> d ], n + 1, s)
    <3>1. PartsOK(p, sigma, wide, 1, d, n + 1, s, errors)
      BY <1>2, <1>4, <2>3, <2>4, <2>6, <2>7 DEF PartsOK
    <3> QED
      BY <3>1, LocatorOf
  <2> QED
    BY <1>1, <2>5, <2>8
<1>7. CASE d # Zero /\ ~TooShort(errors)
  <2>1. left + shift <= errors /\ errors <= n + 1 /\ errors <= 2 * T
    BY <1>1, <1>2, <1>7, FieldSizes DEF TooShort
  <2>2. PICK p : /\ p = Updated(d) /\ DOMAIN p = 0 .. 2 * T /\ Poly(p, errors)
                 /\ Coefficient(p, 0) = One
    BY <1>2, <2>1, UpdatedIs
  <2>3. \A k \in errors + 1 .. n + 1 : Dev(p, errors, s, k) = Zero
    BY <1>1, <1>2, <1>3, <2>1, <2>2, UpdatedRecurs
  <2>4. NextLocator = [ sigma |-> p, previous |-> previous, errors |-> errors,
                        shift |-> shift + 1, last |-> last ]
    BY <1>1, <1>2, <1>3, <1>7, <2>2 DEF NextLocator, Lengthened
  <2>5. /\ left = (n + 1) + 1 - errors - (shift + 1) /\ errors \in 0 .. n + 1
        /\ DOMAIN p \in {{0}, 0 .. 2 * T}
    BY <1>2, <2>2
  <2>6. LocatorOK([ sigma |-> p, previous |-> previous, errors |-> errors,
                    shift |-> shift + 1, last |-> last ], n + 1, s)
    <3>1. PartsOK(p, previous, errors, shift + 1, last, n + 1, s, left)
      BY <1>2, <1>4, <2>2, <2>3, <2>5 DEF PartsOK
    <3> QED
      BY <3>1, LocatorOf
  <2> QED
    BY <1>1, <2>4, <2>6
<1> QED
  BY <1>5, <1>6, <1>7

\* It is right before the first.
LEMMA LocatorStarts ==
  ASSUME NEW s
  PROVE  LocatorOK([ sigma |-> [i \in {0} |-> {0}], previous |-> [i \in {0} |-> {0}], errors |-> 0,
                     shift |-> 1, last |-> {0} ], 0, s)
<1>1. PICK p : p = [i \in {0} |-> {0}]
  OBVIOUS
<1>2. DOMAIN p = {0} /\ p[0] = One
  BY <1>1 DEF One
<1>3. One \in F \ {Zero} /\ Zero \in F
  BY MulIs, PlusIs
<1>4. /\ Coefficient(p, 0) = One
      /\ \A i : i # 0 => Coefficient(p, i) = Zero
  BY <1>2 DEF Coefficient
<1>5. Poly(p, 0)
  BY <1>3, <1>4 DEF Poly
<1>6. LocatorOK([ sigma |-> p, previous |-> p, errors |-> 0, shift |-> 1, last |-> One ], 0, s)
  <2>1. DOMAIN p \in {{0}, 0 .. 2 * T} /\ 0 \in 0 .. 0 /\ 1 \in Nat \ {0} /\ 0 = 0 + 1 - 0 - 1
    BY <1>2
  <2>2. (\A k \in 0 + 1 .. 0 : Dev(p, 0, s, k) = Zero)
        /\ \A k \in 0 + 1 .. 0 + 0 : Dev(p, 0, s, k) = IF k = 0 + 0 THEN One ELSE Zero
    OBVIOUS
  <2> QED
    <3>1. PartsOK(p, p, 0, 1, One, 0, s, 0)
      BY <1>3, <1>4, <1>5, <2>1, <2>2 DEF PartsOK
    <3> QED
      BY <3>1, LocatorOf
<1> QED
  BY <1>1, <1>6 DEF One

(***************************************************************************)
(* The syndromes of a word with errors are the power sums of their places. *)
(***************************************************************************)
Bits == 0 .. CodeBits - 1
BitAt(w, e) == w[CodeBits - 1 - e]
Differ(v, w) == {e \in Bits : BitAt(v, e) # BitAt(w, e)}
Spread(w, j) == [e \in Bits |-> IF BitAt(w, e) = 1 THEN Power(j * e) ELSE Zero]

\* Bits and exponents mirror each other.
LEMMA BitsAre ==
  /\ Bits \subseteq Nodes /\ Bits \subseteq Nat /\ IsFiniteSet(Bits)
  /\ \A i \in Bits : CodeBits - 1 - i \in Bits /\ CodeBits - 1 - (CodeBits - 1 - i) = i
  /\ \A w \in Words : \A e \in Bits : BitAt(w, e) \in {0, 1}
  /\ \A j \in Nat, e \in Bits : Power(j * e) \in F
<1>1. CodeBits \in Nat \ {0} /\ Order \in Nat \ {0} /\ CodeBits <= Order
  BY FieldSizes
<1>2. Bits \subseteq Nodes /\ Bits \subseteq Nat
  BY <1>1 DEF Bits, Nodes
<1>3. \A i \in Bits : CodeBits - 1 - i \in Bits /\ CodeBits - 1 - (CodeBits - 1 - i) = i
  BY <1>1 DEF Bits
<1>4. \A w \in Words : \A e \in Bits : BitAt(w, e) \in {0, 1}
  BY <1>3 DEF Words, Bits, BitAt
<1>5. IsFiniteSet(Bits)
  BY <1>1, FS_Interval DEF Bits
<1> QED
  BY <1>2, <1>3, <1>4, <1>5, NodesAre

\* A syndrome as a sum over every place.
LEMMA SyndromeIs ==
  ASSUME NEW w \in Words, NEW j \in 1 .. 2 * T
  PROVE  /\ SyndromesOf(w)[j] = Sum(Spread(w, j), Bits)
         /\ \A e \in Bits : Spread(w, j)[e] \in F
<1>1. j \in Nat
  OBVIOUS
<1>2. PICK f : f = Spread(w, j)
  OBVIOUS
<1>3. \A e \in Bits : f[e] = (IF BitAt(w, e) = 1 THEN Power(j * e) ELSE Zero) /\ f[e] \in F
  BY <1>1, <1>2, BitsAre, PlusIs DEF Spread
<1>4. PICK R \in SUBSET Bits : R = {e \in Bits : BitAt(w, e) = 1}
  OBVIOUS
<1>5. Sum(f, Bits) = Sum(f, R)
  <2>1. \A e \in Bits \ R : f[e] = Zero
    BY <1>3, <1>4
  <2> QED
    BY <1>3, <2>1, BitsAre, SumWider
<1>6. PICK S \in SUBSET Bits : S = Ones(w)
  BY DEF Ones, Words, Bits
<1>7. IsFiniteSet(S)
  BY BitsAre, FS_Subset
<1>8. \A i \in Bits : i \in S <=> w[i] = 1
  BY <1>6 DEF Ones, Words, Bits
<1>9. PICK m : m = [i \in S |-> CodeBits - 1 - i]
  OBVIOUS
<1>10. PICK h : h = [i \in S |-> Power(j * (CodeBits - 1 - i))]
  OBVIOUS
<1>11. ASSUME NEW i \in S PROVE m[i] \in R /\ f[m[i]] \in F /\ h[i] = f[m[i]]
  <2>1. m[i] = CodeBits - 1 - i /\ m[i] \in Bits /\ CodeBits - 1 - m[i] = i
    BY <1>9, BitsAre
  <2>2. BitAt(w, m[i]) = 1
    BY <1>8, <2>1 DEF BitAt
  <2> QED
    BY <1>3, <1>4, <1>10, <2>1, <2>2
<1>12. \A x, y \in S : m[x] = m[y] => x = y
  BY <1>9, BitsAre
<1>13. ASSUME NEW e \in R PROVE \E i \in S : m[i] = e
  <2>1. CodeBits - 1 - e \in Bits /\ CodeBits - 1 - (CodeBits - 1 - e) = e
    BY BitsAre
  <2>2. CodeBits - 1 - e \in S
    BY <1>4, <1>8, <2>1 DEF BitAt
  <2> QED
    BY <1>9, <2>1, <2>2
<1>14. Sum(h, S) = Sum(f, R)
  BY ONLY <1>7, <1>11, <1>12, <1>13, SumMoved
<1>15. SyndromesOf(w)[j] = Sum(h, S)
  BY <1>6, <1>10 DEF SyndromesOf
<1> QED
  BY <1>2, <1>3, <1>5, <1>14, <1>15

AllOnes(E) == [e \in E |-> One]

\* Those of the word that was sent are zero: only the places that differ are left.
LEMMA SyndromesAre ==
  ASSUME NEW v \in Words, NEW w \in Words, Clean(SyndromesOf(w)),
         NEW E, E = Differ(v, w)
  PROVE  /\ SyndromesOf(v) \in Syndromes
         /\ E \in SUBSET Bits /\ E \in SUBSET Nodes
         /\ \A j \in 1 .. 2 * T : SyndromesOf(v)[j] = Moment(AllOnes(E), j, E)
<1>1. E \in SUBSET Bits /\ E \in SUBSET Nodes /\ IsFiniteSet(Bits) /\ IsFiniteSet(E)
  BY BitsAre, FS_Subset DEF Differ
<1>2. \A e \in Bits : e \in E <=> BitAt(v, e) # BitAt(w, e)
  BY DEF Differ
<1>3. ASSUME NEW j \in 1 .. 2 * T
      PROVE  /\ SyndromesOf(v)[j] = Moment(AllOnes(E), j, E) /\ SyndromesOf(v)[j] \in F
  <2>1. PICK f : f = Spread(v, j) /\ SyndromesOf(v)[j] = Sum(f, Bits) /\ \A e \in Bits : f[e] \in F
    BY SyndromeIs
  <2>2. PICK g : g = Spread(w, j) /\ SyndromesOf(w)[j] = Sum(g, Bits) /\ \A e \in Bits : g[e] \in F
    BY SyndromeIs
  <2>3. SyndromesOf(w)[j] = Zero
    BY DEF Clean, SyndromesOf
  <2>4. PICK h : h = [e \in Bits |-> Plus(f[e], g[e])]
    OBVIOUS
  <2>5. Sum(h, Bits) = Plus(Sum(f, Bits), Sum(g, Bits))
    <3>1. \A e \in Bits : f[e] \in F /\ g[e] \in F /\ h[e] = Plus(f[e], g[e])
      BY <2>1, <2>2, <2>4
    <3> QED
      BY <1>1, <3>1, SumPlus
  <2>6. SyndromesOf(v)[j] = Sum(h, Bits)
    BY <2>1, <2>2, <2>3, <2>5, PlusIs
  <2>7. ASSUME NEW e \in Bits
        PROVE  /\ e \in E => h[e] = Power(j * e) /\ Power(j * e) \in F
               /\ e \notin E => h[e] = Zero
               /\ h[e] \in F
    <3>1. /\ BitAt(v, e) \in {0, 1} /\ BitAt(w, e) \in {0, 1} /\ Power(j * e) \in F
      BY BitsAre
    <3>2. /\ f[e] = (IF BitAt(v, e) = 1 THEN Power(j * e) ELSE Zero)
          /\ g[e] = (IF BitAt(w, e) = 1 THEN Power(j * e) ELSE Zero)
          /\ h[e] = Plus(f[e], g[e])
      BY <2>1, <2>2, <2>4 DEF Spread
    <3>3. e \in E <=> BitAt(v, e) # BitAt(w, e)
      BY <1>2
    <3> QED
      BY <3>1, <3>2, <3>3, PlusIs
  <2>8. Sum(h, Bits) = Sum(h, E)
    <3>1. (\A e \in Bits : h[e] \in F) /\ \A e \in Bits \ E : h[e] = Zero
      BY <2>7
    <3> QED
      BY <1>1, <3>1, SumWider
  <2>9. PICK m : m = [e \in E |-> Mul(AllOnes(E)[e], Power(j * e))]
    OBVIOUS
  <2>10. \A e \in E : h[e] \in F /\ m[e] = h[e]
    <3>1. ASSUME NEW e \in E PROVE h[e] \in F /\ m[e] = h[e]
      <4>1. e \in Bits
        BY <1>1
      <4>2. h[e] = Power(j * e) /\ Power(j * e) \in F
        BY <2>7, <4>1
      <4>3. Mul(One, Power(j * e)) = Power(j * e)
        BY <4>2, MulIs
      <4> QED
        BY <2>9, <4>2, <4>3 DEF AllOnes
    <3> QED
      BY <3>1
  <2>11. Sum(m, E) = Sum(h, E)
    BY <1>1, <2>10, SumSame
  <2>12. Sum(h, E) \in F
    <3>1. \A e \in E : h[e] \in F
      BY <2>10
    <3> QED
      BY <1>1, <3>1, SumLaw
  <2> QED
    BY <2>6, <2>8, <2>9, <2>11, <2>12 DEF Moment
<1>4. SyndromesOf(v) \in Syndromes
  BY <1>3 DEF SyndromesOf, Syndromes
<1> QED
  BY <1>1, <1>3, <1>4

\* There are as many of them as bits that differ.
LEMMA DifferIs ==
  ASSUME NEW v \in Words, NEW w \in Words
  PROVE  Cardinality(Differ(v, w)) = Distance(v, w) /\ Distance(v, w) \in Nat
<1>1. PICK D : D = {i \in DOMAIN v : v[i] # w[i]}
  OBVIOUS
<1>2. PICK E : E = Differ(v, w)
  OBVIOUS
<1>3. D \in SUBSET Bits /\ E \in SUBSET Bits
  BY <1>1, <1>2, WordsAre DEF Differ, Bits
<1>4. PICK f : f = [i \in D |-> CodeBits - 1 - i]
  OBVIOUS
<1>5. f \in Bijection(D, E)
  <2>1. ASSUME NEW i \in D PROVE f[i] \in E
    <3>1. f[i] = CodeBits - 1 - i /\ f[i] \in Bits /\ CodeBits - 1 - f[i] = i
      BY <1>3, <1>4, BitsAre
    <3> QED
      BY <1>1, <1>2, <3>1 DEF Differ, BitAt
  <2>2. \A i, j \in D : f[i] = f[j] => i = j
    BY <1>3, <1>4, BitsAre
  <2>3. ASSUME NEW e \in E PROVE \E i \in D : f[i] = e
    <3>1. CodeBits - 1 - e \in Bits /\ CodeBits - 1 - (CodeBits - 1 - e) = e
      BY <1>3, BitsAre
    <3>2. CodeBits - 1 - e \in D
      BY <1>1, <1>2, <3>1, WordsAre DEF Differ, BitAt, Bits
    <3> QED
      BY <1>4, <3>1, <3>2
  <2>4. f \in [D -> E]
    BY <1>4, <2>1
  <2> QED
    BY <2>2, <2>3, <2>4 DEF Bijection, Injection, Surjection, IsInjective
<1>6. IsFiniteSet(D) /\ IsFiniteSet(E)
  BY <1>3, BitsAre, FS_Subset
<1>7. Cardinality(D) = Cardinality(E)
  BY <1>5, <1>6, FS_Bijection DEF ExistsBijection
<1>8. Cardinality(D) \in Nat
  BY <1>6, FS_CardinalityType
<1> QED
  BY <1>1, <1>2, <1>7, <1>8 DEF Distance

\* What a polynomial makes of the power sums is itself a power sum, with as weight of a
\* place the value there of the polynomial turned round.
Weights(p, length, E) ==
  [e \in E |-> Sum([i \in 0 .. length |-> Mul(Coefficient(p, i), Power((length - i) * e))],
                   0 .. length)]

\* A weight is an element of the field.
LEMMA WeightIs ==
  ASSUME NEW length \in Nat, NEW p, Poly(p, length), NEW e \in Nodes
  PROVE  /\ Sum([i \in 0 .. length |-> Mul(Coefficient(p, i), Power((length - i) * e))],
                0 .. length) \in F
         /\ \A i \in 0 .. length :
              /\ length - i \in Nat /\ Coefficient(p, i) \in F /\ Power((length - i) * e) \in F
              /\ Mul(Coefficient(p, i), Power((length - i) * e)) \in F
<1>1. ASSUME NEW i \in 0 .. length
      PROVE  /\ length - i \in Nat /\ Coefficient(p, i) \in F /\ Power((length - i) * e) \in F
             /\ Mul(Coefficient(p, i), Power((length - i) * e)) \in F
  <2>1. length - i \in Nat /\ i \in Int
    OBVIOUS
  <2>2. Coefficient(p, i) \in F
    BY <2>1 DEF Poly
  <2>3. Power((length - i) * e) \in F
    BY <2>1, NodesAre
  <2> QED
    BY <2>1, <2>2, <2>3, MulInF
<1>2. PICK f : f = [i \in 0 .. length |-> Mul(Coefficient(p, i), Power((length - i) * e))]
  OBVIOUS
<1>3. IsFiniteSet(0 .. length) /\ \A i \in 0 .. length : f[i] \in F
  BY <1>1, <1>2, FS_Interval
<1>4. Sum(f, 0 .. length) \in F
  BY <1>3, SumLaw
<1> QED
  BY <1>1, <1>2, <1>4

\* The sum over the syndromes, taken place by place.
LEMMA DevIsMoment ==
  ASSUME NEW length \in Nat, NEW p, Poly(p, length), NEW E \in SUBSET Nodes,
         NEW s \in Syndromes, \A j \in 1 .. 2 * T : s[j] = Moment(AllOnes(E), j, E),
         NEW k \in length + 1 .. 2 * T
  PROVE  /\ \A e \in E : Weights(p, length, E)[e] \in F
         /\ k - length \in Nat \ {0}
         /\ Dev(p, length, s, k) = Moment(Weights(p, length, E), k - length, E)
<1>1. PICK S : S = 0 .. length
  OBVIOUS
<1>2. IsFiniteSet(S) /\ IsFiniteSet(E)
  BY <1>1, FS_Interval, NodesAre
<1>3. PICK w : w = Weights(p, length, E)
  OBVIOUS
<1>4. \A e \in E : w[e] \in F
  BY <1>3, WeightIs DEF Weights
<1>5. PICK n \in Nat \ {0} : n = k - length
  OBVIOUS
<1>6. PICK f : f = [x \in S \X E |-> Mul(Coefficient(p, x[1]), Power((k - x[1]) * x[2]))]
  OBVIOUS
<1>7. ASSUME NEW i \in S, NEW e \in E
      PROVE  /\ f[<<i, e>>] = Mul(Coefficient(p, i), Power((k - i) * e))
             /\ f[<<i, e>>] \in F /\ Coefficient(p, i) \in F /\ Power((k - i) * e) \in F
             /\ k - i \in Nat /\ k - i \in 1 .. 2 * T
  <2>1. k - i \in Nat /\ k - i \in 1 .. 2 * T /\ i \in Int /\ e \in Nodes
    BY <1>1, FieldSizes
  <2>2. Coefficient(p, i) \in F /\ Power((k - i) * e) \in F
    BY <2>1, NodesAre DEF Poly
  <2>3. f[<<i, e>>] = Mul(Coefficient(p, i), Power((k - i) * e))
    BY <1>6
  <2> QED
    BY <2>1, <2>2, <2>3, MulInF
<1>8. PICK rows : rows = [i \in S |-> Sum([e \in E |-> f[<<i, e>>]], E)]
  OBVIOUS
<1>9. PICK cols : cols = [e \in E |-> Sum([i \in S |-> f[<<i, e>>]], S)]
  OBVIOUS
<1>10. Sum(rows, S) = Sum(cols, E)
  <2>1. \A i \in S, e \in E : f[<<i, e>>] \in F
    BY <1>7
  <2>2. \A i \in S : rows[i] = RowSum(f, i, E)
    BY <1>8 DEF RowSum
  <2>3. \A e \in E : cols[e] = ColSum(f, e, S)
    BY <1>9 DEF ColSum
  <2> QED
    BY ONLY <1>2, <2>1, <2>2, <2>3, SumSwap
<1>11. ASSUME NEW i \in S PROVE rows[i] = Mul(Coefficient(p, i), s[k - i])
  <2>1. PICK a : a = Coefficient(p, i)
    OBVIOUS
  <2>2. k - i \in 1 .. 2 * T /\ i \in Int
    BY <1>1, FieldSizes
  <2>3. a \in F
    BY <2>1, <2>2 DEF Poly
  <2>4. PICK m : m = [e \in E |-> Mul(AllOnes(E)[e], Power((k - i) * e))]
    OBVIOUS
  <2>5. s[k - i] = Sum(m, E)
    BY <2>2, <2>4 DEF Moment
  <2>6. PICK h : h = [e \in E |-> f[<<i, e>>]]
    OBVIOUS
  <2>7. ASSUME NEW e \in E PROVE m[e] \in F /\ h[e] = Mul(a, m[e])
    <3>1. m[e] = Mul(One, Power((k - i) * e))
      BY <2>4 DEF AllOnes
    <3>2. Power((k - i) * e) \in F /\ h[e] = Mul(a, Power((k - i) * e))
      BY <1>7, <2>1, <2>6
    <3> QED
      BY <3>1, <3>2, MulIs
  <2>8. Sum(h, E) = Mul(a, Sum(m, E))
    BY <1>2, <2>3, <2>7, SumScale
  <2> QED
    BY <1>8, <2>1, <2>5, <2>6, <2>8
<1>12. ASSUME NEW e \in E PROVE cols[e] = Mul(w[e], Power(n * e))
  <2>1. e \in Nodes /\ e \in Nat /\ n \in Nat
    BY NodesAre
  <2>2. PICK a \in F : a = Power(n * e)
    BY <2>1, NodesAre
  <2>3. PICK m : m = [i \in S |-> Mul(Coefficient(p, i), Power((length - i) * e))]
    OBVIOUS
  <2>4. w[e] = Sum(m, S)
    BY <1>1, <1>3, <2>3 DEF Weights
  <2>5. PICK h : h = [i \in S |-> f[<<i, e>>]]
    OBVIOUS
  <2>6. ASSUME NEW i \in S PROVE m[i] \in F /\ h[i] = Mul(a, m[i])
    <3>1. PICK l \in Nat : l = length - i
      BY <1>1
    <3>2. PICK r \in F : r = Power(l * e)
      BY <2>1, NodesAre
    <3>3. PICK c \in F : c = Coefficient(p, i)
      BY <1>7
    <3>4. m[i] = Mul(c, r) /\ h[i] = Mul(c, Power((k - i) * e))
      BY <1>7, <2>3, <2>5, <3>1, <3>2, <3>3
    <3>5. (k - i) * e = n * e + l * e /\ n * e \in Nat /\ l * e \in Nat
      <4>1. k - i = n + l
        BY <1>1, <1>5, <3>1
      <4>2. (n + l) * e = n * e + l * e
        BY <2>1
      <4> QED
        BY <2>1, <4>1, <4>2
    <3>6. Mul(a, r) = Power((k - i) * e)
      BY <2>2, <3>2, <3>5, MulPowers
    <3>7. Mul(a, Mul(c, r)) = Mul(c, Mul(a, r))
      BY RingStep
    <3> QED
      BY <3>4, <3>6, <3>7, MulInF
  <2>7. Sum(h, S) = Mul(a, Sum(m, S))
    BY <1>2, <2>6, SumScale
  <2>8. Mul(a, w[e]) = Mul(w[e], a)
    BY <1>4, MulComm
  <2> QED
    BY <1>9, <2>2, <2>4, <2>5, <2>7, <2>8
<1>13. Sum(rows, S) = Dev(p, length, s, k)
  <2>1. rows = [i \in S |-> Mul(Coefficient(p, i), s[k - i])]
    BY <1>8, <1>11
  <2> QED
    BY <1>1, <2>1 DEF Dev
<1>14. Sum(cols, E) = Moment(w, n, E)
  <2>1. cols = [e \in E |-> Mul(w[e], Power(n * e))]
    BY <1>9, <1>12
  <2> QED
    BY <2>1 DEF Moment
<1> QED
  BY <1>3, <1>4, <1>5, <1>10, <1>13, <1>14

\* A recurrence right over as many syndromes as there are errors has no weights.
LEMMA WeightsAreZero ==
  ASSUME NEW length \in Nat, NEW p, Poly(p, length), NEW E \in SUBSET Nodes,
         NEW s \in Syndromes, \A j \in 1 .. 2 * T : s[j] = Moment(AllOnes(E), j, E),
         NEW n \in Nat, n <= 2 * T, Cardinality(E) + length <= n,
         \A k \in length + 1 .. n : Dev(p, length, s, k) = Zero
  PROVE  \A e \in E : Weights(p, length, E)[e] = Zero
<1>1. PICK v \in Nat : v = Cardinality(E)
  BY NodesAre, FS_CardinalityType
<1>2. PICK w : w = Weights(p, length, E)
  OBVIOUS
<1>3. length + 1 <= 2 * T \/ v = 0
  BY <1>1, FieldSizes
<1>4. \A e \in E : w[e] \in F
  BY <1>2, WeightIs DEF Weights
<1>5. ASSUME NEW j \in 1 .. v PROVE Moment(w, j, E) = Zero
  <2>1. PICK k \in length + 1 .. n : k = j + length
    BY <1>1
  <2>2. k \in length + 1 .. 2 * T /\ k - length = j
    BY <2>1, FieldSizes
  <2>3. Dev(p, length, s, k) = Moment(w, k - length, E)
    BY <1>2, <2>2, DevIsMoment
  <2> QED
    BY <2>1, <2>2, <2>3
<1>6. \A e \in E : w[e] = Zero
  BY <1>1, <1>4, <1>5, WeightsVanish
<1> QED
  BY <1>2, <1>6

\* A recurrence that has been right for as long as there are errors beyond its length
\* stays right.
LEMMA LongEnough ==
  ASSUME NEW length \in Nat, NEW p, Poly(p, length), NEW E \in SUBSET Nodes,
         NEW s \in Syndromes, \A j \in 1 .. 2 * T : s[j] = Moment(AllOnes(E), j, E),
         NEW n \in Nat, n < 2 * T, Cardinality(E) + length <= n,
         \A k \in length + 1 .. n : Dev(p, length, s, k) = Zero
  PROVE  Dev(p, length, s, n + 1) = Zero
<1>1. PICK w : w = Weights(p, length, E)
  OBVIOUS
<1>2. n <= 2 * T
  BY FieldSizes
<1>3. \A e \in E : w[e] = Zero
  BY <1>1, <1>2, WeightsAreZero
<1>4. PICK k \in length + 1 .. 2 * T : k = n + 1
  <2>1. Cardinality(E) \in Nat
    BY NodesAre, FS_CardinalityType
  <2> QED
    BY <2>1, FieldSizes
<1>5. Dev(p, length, s, k) = Moment(w, k - length, E)
  BY <1>1, DevIsMoment
<1>6. PICK m : m = [e \in E |-> Mul(w[e], Power((k - length) * e))]
  OBVIOUS
<1>7. \A e \in E : m[e] = Zero
  BY <1>3, <1>6, MulPowers
<1>8. Sum(m, E) = Zero
  BY <1>7, NodesAre, SumZero
<1> QED
  BY <1>4, <1>5, <1>6, <1>8 DEF Moment

\* The length never passes the number of errors.
LEMMA LengthKept ==
  ASSUME syndromes \in Syndromes, turn \in Nat, turn < 2 * T,
         LocatorOK(locator, turn, syndromes),
         NEW E \in SUBSET Nodes,
         \A j \in 1 .. 2 * T : syndromes[j] = Moment(AllOnes(E), j, E),
         locator.errors <= Cardinality(E)
  PROVE  NextLocator.errors <= Cardinality(E)
<1>1. PICK v \in Nat : v = Cardinality(E)
  BY NodesAre, FS_CardinalityType
<1>2. PICK s \in Syndromes, n \in Nat : s = syndromes /\ n = turn
  OBVIOUS
<1>3. PICK length \in Nat :
        /\ length = locator.errors /\ length <= n
        /\ Poly(locator.sigma, length)
        /\ \A k \in length + 1 .. n : Dev(locator.sigma, length, s, k) = Zero
  BY <1>2 DEF LocatorOK
<1>4. Discrepancy = Dev(locator.sigma, length, s, n + 1)
  BY <1>2, <1>3, DiscrepancyIs
<1>5. locator = [ sigma |-> locator.sigma, previous |-> locator.previous,
                  errors |-> locator.errors, shift |-> locator.shift, last |-> locator.last ]
  BY DEF LocatorOK
<1>6. CASE Discrepancy = Zero
  <2>1. NextLocator = [locator EXCEPT !.shift = @ + 1]
    BY <1>6 DEF NextLocator
  <2>2. NextLocator.errors = locator.errors
    BY <1>5, <2>1
  <2> QED
    BY <2>2
<1>7. CASE Discrepancy # Zero
  <2>1. NextLocator = Lengthened(Discrepancy, length)
    BY <1>3, <1>7 DEF NextLocator
  <2>2. CASE ~TooShort(length)
    <3>1. NextLocator = [locator EXCEPT !.sigma = Updated(Discrepancy), !.shift = @ + 1]
      BY <2>1, <2>2 DEF Lengthened
    <3>2. NextLocator.errors = locator.errors
      BY <1>5, <3>1
    <3> QED
      BY <3>2
  <2>3. CASE TooShort(length)
    <3>1. NextLocator.errors = n + 1 - length
      BY <1>2, <2>1, <2>3 DEF Lengthened
    <3>2. ~(v + length <= n)
      <4>1. ASSUME v + length <= n PROVE FALSE
        <5>1. /\ \A j \in 1 .. 2 * T : s[j] = Moment(AllOnes(E), j, E)
              /\ n < 2 * T /\ Cardinality(E) + length <= n
          BY <1>1, <1>2, <4>1
        <5>2. Dev(locator.sigma, length, s, n + 1) = Zero
          BY <1>3, <5>1, LongEnough
        <5> QED
          BY <1>4, <1>7, <5>2
      <4> QED
        BY <4>1
    <3> QED
      BY <1>1, <1>3, <3>1, <3>2
  <2> QED
    BY <2>2, <2>3
<1> QED
  BY <1>6, <1>7

(***************************************************************************)
(* The roots of the locator.                                               *)
(***************************************************************************)
Mirror(e) == (Order - e) % Order

\* Mirroring a place twice gives it back.
LEMMA MirrorIs ==
  \A e \in Nodes :
    /\ Mirror(e) \in Nodes /\ Mirror(e) = IF e = 0 THEN 0 ELSE Order - e
    /\ Mirror(Mirror(e)) = e
<1>1. ASSUME NEW e \in Nodes
      PROVE  Mirror(e) \in Nodes /\ Mirror(e) = IF e = 0 THEN 0 ELSE Order - e
  <2>1. Order \in Nat \ {0} /\ e \in 0 .. Order - 1
    BY FieldSizes DEF Nodes
  <2>2. CASE e = 0
    <3>1. (0 + Order) % Order = 0 % Order /\ 0 % Order = 0
      BY <2>1, ModIs
    <3>2. Order - e = 0 + Order
      BY <2>1, <2>2
    <3> QED
      BY <2>1, <2>2, <3>1, <3>2 DEF Mirror, Nodes
  <2>3. CASE e # 0
    <3>1. PICK n \in Nat : n = Order - e /\ n < Order /\ n \in 0 .. Order - 1
      BY <2>1, <2>3
    <3>2. n % Order = n
      BY <2>1, <3>1, ModIs
    <3> QED
      BY <2>1, <2>3, <3>1, <3>2 DEF Mirror, Nodes
  <2> QED
    BY <2>2, <2>3
<1>2. ASSUME NEW e \in Nodes PROVE Mirror(Mirror(e)) = e
  <2>1. Order \in Nat \ {0} /\ e \in 0 .. Order - 1
    BY FieldSizes DEF Nodes
  <2>2. PICK r \in Nodes : r = Mirror(e) /\ r = IF e = 0 THEN 0 ELSE Order - e
    BY <1>1
  <2>3. Mirror(r) = IF r = 0 THEN 0 ELSE Order - r
    BY <1>1
  <2> QED
    BY <2>1, <2>2, <2>3
<1> QED
  BY <1>1, <1>2

\* The power at a mirrored place, short of a whole turn.
LEMMA MirroredPower ==
  ASSUME NEW e \in Nodes, NEW length \in Nat, NEW i \in 0 .. length
  PROVE  Mul(Power(length * e), Power(i * Mirror(e))) = Power((length - i) * e)
<1>1. Order \in Nat \ {0} /\ e \in 0 .. Order - 1
  BY FieldSizes DEF Nodes
<1>2. PICK r \in Nat : r = Mirror(e) /\ r = IF e = 0 THEN 0 ELSE Order - e
  BY MirrorIs, NodesAre
<1>3. PICK l \in Nat, j \in Nat, d \in Nat : l = length - i /\ j = i /\ d = length /\ d = l + j
  OBVIOUS
<1>4. CASE e = 0
  <2>1. d * e = 0 /\ j * r = 0 /\ l * e = 0
    BY <1>2, <1>4
  <2>2. Mul(Power(0), Power(0)) = Power(0 + 0)
    BY MulPowers
  <2> QED
    BY <1>2, <1>3, <2>1, <2>2
<1>5. CASE e # 0
  <2>1. r + e = Order
    BY <1>1, <1>2, <1>5
  <2>2. d * e = l * e + j * e
    BY <1>1, <1>3
  <2>3. j * r + j * e = j * Order
    <3>1. j * (r + e) = j * r + j * e
      BY <1>1
    <3> QED
      BY <2>1, <3>1
  <2>4. j * Order = Order * j
    BY <1>1
  <2>5. d * e \in Nat /\ j * r \in Nat /\ l * e \in Nat /\ j * e \in Nat /\ Order * j \in Nat
    BY <1>1
  <2>6. d * e + j * r = Order * j + l * e
    BY <2>2, <2>3, <2>4, <2>5
  <2>7. Mul(Power(d * e), Power(j * r)) = Power(Order * j + l * e)
    BY <2>5, <2>6, MulPowers
  <2>8. Power(Order * j + l * e) = Power(l * e)
    BY <2>5, PowerTurns
  <2> QED
    BY <1>2, <1>3, <2>7, <2>8
<1> QED
  BY <1>4, <1>5

\* The degree is that of the last coefficient that is not zero.
LEMMA DegreeIs ==
  ASSUME NEW p, NEW length \in Nat, DOMAIN p \in {{0}, 0 .. 2 * T},
         Poly(p, length), Coefficient(p, 0) = One
  PROVE  /\ DegreeOf(p) \in Nat /\ DegreeOf(p) <= length
         /\ \A i \in 0 .. DegreeOf(p) : p[i] \in F /\ p[i] = Coefficient(p, i)
         /\ \A i \in Int : i > DegreeOf(p) => Coefficient(p, i) = Zero
<1>1. PICK M \in Nat : DOMAIN p = 0 .. M
  <2>1. {0} = 0 .. 0 /\ 2 * T \in Nat
    BY FieldSizes
  <2> QED
    BY <2>1
<1>2. PICK G \in SUBSET Nat :
        G = {d \in 0 .. M : \A i \in 0 .. M : i > d => p[i] = Zero}
  <2>1. {d \in 0 .. M : \A i \in 0 .. M : i > d => p[i] = Zero} \subseteq Nat
    OBVIOUS
  <2> QED
    BY <2>1
<1>3. M \in G
  BY <1>2
<1>4. PICK d \in G : \A n \in G : d <= n
  BY <1>3, LeastOf
<1>5. d \in 0 .. M /\ \A i \in 0 .. M : i > d => p[i] = Zero
  BY <1>2
<1>6. d = 0 \/ p[d] # Zero
  <2>1. ASSUME d # 0, p[d] = Zero PROVE FALSE
    <3>1. d - 1 \in 0 .. M /\ ~(d <= d - 1)
      BY <1>5, <2>1
    <3>2. \A i \in 0 .. M : i > d - 1 => p[i] = Zero
      BY <1>5, <2>1
    <3>3. d - 1 \in G
      BY <1>2, <3>1, <3>2
    <3> QED
      BY <1>4, <3>1, <3>3
  <2> QED
    BY <2>1
<1>7. PICK D : D = DegreeOf(p)
  OBVIOUS
<1>8. /\ D \in 0 .. M /\ (D = 0 \/ p[D] # Zero)
      /\ \A i \in 0 .. M : i > D => p[i] = Zero
  <2>1. \E n \in DOMAIN p : /\ n = 0 \/ p[n] # Zero
                           /\ \A i \in DOMAIN p : i > n => p[i] = Zero
    BY <1>1, <1>5, <1>6
  <2>2. D = CHOOSE n \in DOMAIN p : /\ n = 0 \/ p[n] # Zero
                                   /\ \A i \in DOMAIN p : i > n => p[i] = Zero
    BY <1>7 DEF DegreeOf
  <2>3. /\ D \in DOMAIN p /\ (D = 0 \/ p[D] # Zero)
        /\ \A i \in DOMAIN p : i > D => p[i] = Zero
    BY <2>1, <2>2
  <2> QED
    BY <1>1, <2>3
<1>9. \A i \in 0 .. M : Coefficient(p, i) = p[i]
  BY <1>1 DEF Coefficient
<1>10. D <= length
  <2>1. ASSUME D > length PROVE FALSE
    <3>1. D \in Int /\ D # 0
      BY <1>8, <2>1
    <3>2. Coefficient(p, D) = Zero
      BY <2>1, <3>1 DEF Poly
    <3> QED
      BY <1>8, <1>9, <3>1, <3>2
  <2> QED
    BY <1>8, <2>1
<1>11. ASSUME NEW i \in Int, i > D PROVE Coefficient(p, i) = Zero
  <2>1. CASE i \in 0 .. M
    BY <1>8, <1>9, <1>11, <2>1
  <2>2. CASE i \notin 0 .. M
    BY <1>1, <2>2 DEF Coefficient
  <2> QED
    BY <2>1, <2>2
<1>12. ASSUME NEW i \in 0 .. D PROVE p[i] \in F /\ p[i] = Coefficient(p, i)
  <2>1. i \in Int /\ i \in 0 .. M
    BY <1>8
  <2> QED
    BY <1>9, <2>1 DEF Poly
<1> QED
  BY <1>7, <1>8, <1>10, <1>11, <1>12

\* Where the weight of a place vanishes, its mirror is a root.
LEMMA RootIs ==
  ASSUME NEW p, NEW length \in Nat, DOMAIN p \in {{0}, 0 .. 2 * T},
         Poly(p, length), Coefficient(p, 0) = One, NEW e \in Nodes,
         Sum([i \in 0 .. length |-> Mul(Coefficient(p, i), Power((length - i) * e))],
             0 .. length) = Zero
  PROVE  At(p, DegreeOf(p), Mirror(e)) = Zero
<1>1. PICK d \in Nat : d = DegreeOf(p) /\ d <= length
  BY DegreeIs
<1>2. PICK r \in Nodes : r = Mirror(e)
  BY MirrorIs
<1>3. PICK S : S = 0 .. length
  OBVIOUS
<1>4. PICK R \in SUBSET S : R = 0 .. d
  BY <1>1, <1>3
<1>5. IsFiniteSet(S) /\ IsFiniteSet(R)
  BY <1>3, <1>4, FS_Interval
<1>6. PICK w : w = [i \in S |-> Mul(Coefficient(p, i), Power((length - i) * e))]
  OBVIOUS
<1>7. PICK f : f = [i \in S |-> Mul(Coefficient(p, i), Power(i * r))]
  OBVIOUS
<1>8. PICK a \in F : a = Power(length * e) /\ a # Zero
  <2>1. length * e \in Nat
    BY NodesAre
  <2> QED
    BY <2>1, PowerInF
<1>9. ASSUME NEW i \in S PROVE f[i] \in F /\ w[i] = Mul(a, f[i])
  <2>1. i \in 0 .. length /\ i \in Nat /\ i \in Int
    BY <1>3
  <2>2. PICK c \in F : c = Coefficient(p, i)
    BY <2>1 DEF Poly
  <2>3. PICK x \in F : x = Power(i * r)
    BY <2>1, NodesAre
  <2>4. Mul(a, x) = Power((length - i) * e)
    BY <1>2, <1>8, <2>1, <2>3, MirroredPower
  <2>5. f[i] = Mul(c, x) /\ w[i] = Mul(c, Mul(a, x))
    BY <1>6, <1>7, <2>2, <2>3, <2>4
  <2>6. Mul(a, Mul(c, x)) = Mul(c, Mul(a, x))
    BY RingStep
  <2> QED
    BY <2>5, <2>6, MulInF
<1>10. Sum(w, S) = Mul(a, Sum(f, S)) /\ Sum(f, S) \in F
  <2>1. Sum(w, S) = Mul(a, Sum(f, S))
    BY <1>5, <1>9, SumScale
  <2>2. \A i \in S : f[i] \in F
    BY <1>9
  <2>3. Sum(f, S) \in F
    BY <1>5, <2>2, SumLaw
  <2> QED
    BY <2>1, <2>3
<1>11. Sum(f, S) = Zero
  BY <1>3, <1>6, <1>8, <1>10, NoDivisors
<1>12. Sum(f, S) = Sum(f, R)
  <2>1. ASSUME NEW i \in S \ R PROVE f[i] = Zero
    <3>1. i \in Int /\ i > d
      BY <1>3, <1>4
    <3>2. Coefficient(p, i) = Zero
      BY <1>1, <3>1, DegreeIs
    <3> QED
      BY <1>7, <3>2, MulPowers
  <2> QED
    BY <1>5, <1>9, <2>1, SumWider
<1>13. PICK h : h = [i \in R |-> Mul(p[i], Power(i * r))]
  OBVIOUS
<1>14. \A i \in R : f[i] \in F /\ h[i] = f[i]
  <2>1. ASSUME NEW i \in R PROVE f[i] \in F /\ h[i] = f[i]
    <3>1. p[i] = Coefficient(p, i)
      BY <1>1, <1>4, DegreeIs
    <3> QED
      BY <1>7, <1>9, <1>13, <3>1
  <2> QED
    BY <2>1
<1>15. Sum(h, R) = Sum(f, R)
  BY <1>5, <1>14, SumSame
<1> QED
  BY <1>1, <1>2, <1>4, <1>11, <1>12, <1>13, <1>15 DEF At

\* With at most T errors the roots name their places, all of them and no others.
LEMMA ErrorsAreFound ==
  ASSUME syndromes \in Syndromes, LocatorOK(locator, 2 * T, syndromes),
         NEW E \in SUBSET Bits, Cardinality(E) <= T, locator.errors <= Cardinality(E),
         \A j \in 1 .. 2 * T : syndromes[j] = Moment(AllOnes(E), j, E)
  PROVE  Places = E /\ PlacesAreErrors
<1>1. E \in SUBSET Nodes /\ IsFiniteSet(E)
  BY BitsAre, FS_Subset
<1>2. PICK v \in Nat : v = Cardinality(E)
  BY <1>1, FS_CardinalityType
<1>3. PICK p : p = locator.sigma
  OBVIOUS
<1>4. PICK s \in Syndromes : s = syndromes
  OBVIOUS
<1>5. PICK n \in Nat : n = 2 * T /\ v + v <= n
  BY <1>2, FieldSizes
<1>6. PICK length \in Nat :
        /\ length = locator.errors /\ length <= v
        /\ DOMAIN p \in {{0}, 0 .. 2 * T} /\ Poly(p, length) /\ Coefficient(p, 0) = One
        /\ \A k \in length + 1 .. n : Dev(p, length, s, k) = Zero
  BY <1>2, <1>3, <1>4, <1>5 DEF LocatorOK
<1>7. PICK d \in Nat :
        /\ d = DegreeOf(p) /\ d <= length
        /\ \A i \in 0 .. d : p[i] \in F /\ p[i] = Coefficient(p, i)
  BY <1>6, DegreeIs
<1>8. \A e \in E : Weights(p, length, E)[e] = Zero
  <2>1. \A j \in 1 .. 2 * T : s[j] = Moment(AllOnes(E), j, E)
    BY <1>4
  <2>2. n <= 2 * T /\ Cardinality(E) + length <= n
    BY <1>2, <1>5, <1>6, FieldSizes
  <2> QED
    BY <1>1, <1>6, <2>1, <2>2, WeightsAreZero
<1>9. ASSUME NEW e \in E PROVE At(p, d, Mirror(e)) = Zero /\ Mirror(e) \in Nodes
  <2>1. e \in Nodes
    BY <1>1
  <2>2. Sum([i \in 0 .. length |-> Mul(Coefficient(p, i), Power((length - i) * e))],
            0 .. length) = Zero
    BY <1>8 DEF Weights
  <2> QED
    BY <1>6, <1>7, <2>1, <2>2, RootIs, MirrorIs
<1>10. PICK R \in SUBSET Nodes : R = Roots /\ \A e \in Nodes : e \in R <=> At(p, d, e) = Zero
  <2>1. ASSUME NEW e \in Nodes
        PROVE  Sum([i \in 0 .. d |-> Mul(p[i], Power(e * i))], 0 .. d) = At(p, d, e)
    <3>1. \A i \in 0 .. d : e * i = i * e
      BY NodesAre
    <3>2. [i \in 0 .. d |-> Mul(p[i], Power(e * i))] = [i \in 0 .. d |-> Mul(p[i], Power(i * e))]
      BY <3>1
    <3> QED
      BY <3>2 DEF At
  <2>2. Roots = {e \in Nodes :
                   Sum([i \in 0 .. d |-> Mul(p[i], Power(e * i))], 0 .. d) = Zero}
    BY <1>3, <1>7 DEF Roots, Nodes
  <2>3. Roots \in SUBSET Nodes /\ \A e \in Nodes : e \in Roots <=> At(p, d, e) = Zero
    BY <2>1, <2>2
  <2> QED
    BY <2>3
<1>11. IsFiniteSet(R) /\ Cardinality(R) \in Nat
  BY NodesAre, FS_CardinalityType
<1>12. Cardinality(R) <= d
  <2>1. ASSUME Cardinality(R) > d PROVE FALSE
    <3>1. (\A i \in 0 .. d : p[i] \in F) /\ \A e \in R : At(p, d, e) = Zero
      BY <1>7, <1>10
    <3>2. \A i \in 0 .. d : p[i] = Zero
      BY <2>1, <3>1, FewRoots
    <3>3. p[0] = Coefficient(p, 0) /\ p[0] = Zero
      BY <1>7, <3>2
    <3> QED
      BY <1>6, <3>3, MulIs
  <2> QED
    BY <1>11, <2>1
<1>13. PICK f : f = [e \in E |-> Mirror(e)]
  OBVIOUS
<1>14. f \in Injection(E, R)
  <2>1. f \in [E -> R]
    BY <1>9, <1>10, <1>13
  <2>2. \A x, y \in E : f[x] = f[y] => x = y
    <3>1. ASSUME NEW x \in E, NEW y \in E, f[x] = f[y] PROVE x = y
      <4>1. Mirror(Mirror(x)) = x /\ Mirror(Mirror(y)) = y /\ Mirror(x) = Mirror(y)
        BY <1>1, <1>13, <3>1, MirrorIs
      <4> QED
        BY <4>1
    <3> QED
      BY <3>1
  <2> QED
    BY <2>1, <2>2 DEF Injection, IsInjective
<1>15. v <= Cardinality(R) /\ (v = Cardinality(R) <=> f \in Surjection(E, R))
  BY <1>2, <1>11, <1>14, FS_Injection
<1>16. d = length /\ length = v /\ Cardinality(R) = v /\ f \in Surjection(E, R)
  BY <1>6, <1>7, <1>11, <1>12, <1>15
<1>17. \A r \in R : \E e \in E : Mirror(e) = r
  BY <1>13, <1>16 DEF Surjection
<1>18. Places = {Mirror(e) : e \in R}
  BY <1>10 DEF Places, Mirror
<1>19. Places = E
  <2>1. ASSUME NEW r \in R PROVE Mirror(r) \in E
    <3>1. PICK e \in E : Mirror(e) = r
      BY <1>17
    <3>2. Mirror(Mirror(e)) = e
      BY <1>1, MirrorIs
    <3> QED
      BY <3>1, <3>2
  <2>2. ASSUME NEW e \in E PROVE \E r \in R : Mirror(r) = e
    <3>1. Mirror(e) \in R /\ Mirror(Mirror(e)) = e
      BY <1>1, <1>9, <1>10, MirrorIs
    <3> QED
      BY <3>1
  <2> QED
    BY <1>18, <2>1, <2>2
<1> QED
  BY <1>2, <1>3, <1>6, <1>7, <1>16, <1>19 DEF PlacesAreErrors, Bits

\* Bits without a syndrome are the codeword that was embedded.
LEMMA CleanIsRight ==
  ASSUME NEW v \in Words, NEW w \in Words, Clean(SyndromesOf(w)), Clean(SyndromesOf(v)),
         Distance(v, w) <= T
  PROVE  v = w
<1>1. PICK E : E = Differ(v, w)
  OBVIOUS
<1>2. /\ E \in SUBSET Bits /\ E \in SUBSET Nodes
      /\ \A j \in 1 .. 2 * T : SyndromesOf(v)[j] = Moment(AllOnes(E), j, E)
  BY <1>1, SyndromesAre
<1>3. PICK n \in Nat : n = Cardinality(E) /\ n <= T
  BY <1>1, DifferIs
<1>4. \A j \in 1 .. n : Moment(AllOnes(E), j, E) = Zero
  <2>1. \A j \in 1 .. n : j \in 1 .. 2 * T
    BY <1>3, FieldSizes
  <2>2. \A j \in 1 .. 2 * T : SyndromesOf(v)[j] = Zero
    BY DEF Clean, SyndromesOf
  <2> QED
    BY <1>2, <2>1, <2>2
<1>5. \A e \in E : AllOnes(E)[e] = One /\ One \in F /\ One # Zero
  BY MulIs DEF AllOnes
<1>6. \A e \in E : AllOnes(E)[e] = Zero
  BY <1>2, <1>3, <1>4, <1>5, WeightsVanish
<1>7. E = {}
  BY <1>5, <1>6
<1>8. ASSUME NEW i \in Bits PROVE v[i] = w[i]
  <2>1. CodeBits - 1 - i \in Bits /\ CodeBits - 1 - (CodeBits - 1 - i) = i
    BY BitsAre
  <2> QED
    BY <1>1, <1>7, <2>1 DEF Differ, BitAt
<1>9. v \in [Bits -> {0, 1}] /\ w \in [Bits -> {0, 1}]
  BY DEF Words, Bits
<1> QED
  BY <1>8, <1>9

\* Flipping the bits that differ gives the other word.
LEMMA FlippedBack ==
  ASSUME NEW v \in Words, NEW w \in Words
  PROVE  Flipped(v, Differ(v, w)) = w
<1>1. PICK E : E = Differ(v, w)
  OBVIOUS
<1>2. PICK u \in Words : u = Flipped(v, E)
  BY FlippedIs
<1>3. ASSUME NEW i \in Bits PROVE u[i] = w[i]
  <2>1. CodeBits - 1 - i \in Bits /\ CodeBits - 1 - (CodeBits - 1 - i) = i
    BY BitsAre
  <2>2. CodeBits - 1 - i \in E <=> v[i] # w[i]
    BY <1>1, <2>1 DEF Differ, BitAt
  <2>3. v[i] \in {0, 1} /\ w[i] \in {0, 1} /\ i \in DOMAIN v
    BY WordsAre DEF Bits
  <2>4. u[i] = IF CodeBits - 1 - i \in E THEN 1 - v[i] ELSE v[i]
    BY <1>2, <2>3 DEF Flipped
  <2> QED
    BY <2>2, <2>3, <2>4
<1>4. u \in [Bits -> {0, 1}] /\ w \in [Bits -> {0, 1}]
  BY DEF Words, Bits
<1>5. u = w
  BY <1>3, <1>4
<1> QED
  BY <1>1, <1>2, <1>5

DecodeInv ==
  /\ sent \in Embedded /\ came \in Words
  /\ syndromes \in {<< >>, SyndromesOf(came)}
  /\ syndromes = << >> => turn = 0 /\ payload = Undecided
  /\ turn \in 0 .. 2 * T
  /\ LocatorOK(locator, turn, SyndromesOf(came))
  /\ locator.errors <= Cardinality(Differ(came, sent))
  /\ payload # Undecided /\ Distance(came, sent) <= T => payload = Payload(sent)

\* The invariant of the search holds before it.
LEMMA DecodeStarts ==
  ASSUME Init
  PROVE  DecodeInv
<1>1. /\ sent \in Embedded /\ came \in {Flipped(sent, places) : places \in Wrong}
      /\ syndromes = << >> /\ turn = 0 /\ payload = Undecided
      /\ locator = [ sigma |-> [i \in {0} |-> {0}], previous |-> [i \in {0} |-> {0}],
                     errors |-> 0, shift |-> 1, last |-> {0} ]
  BY DEF Init, PhotoInit
<1>2. came \in Words /\ sent \in Words
  BY <1>1, EmbeddedAssumption, FlippedIs
<1>3. LocatorOK(locator, turn, SyndromesOf(came))
  BY <1>1, LocatorStarts
<1>4. locator.errors <= Cardinality(Differ(came, sent))
  BY <1>1, <1>2, DifferIs
<1>5. turn \in 0 .. 2 * T
  BY <1>1, FieldSizes
<1> QED
  BY <1>1, <1>2, <1>3, <1>4, <1>5 DEF DecodeInv

\* What the invariant says of the word that came and the word that was sent.
LEMMA Received ==
  ASSUME DecodeInv
  PROVE  /\ sent \in Words /\ Clean(SyndromesOf(sent))
         /\ SyndromesOf(came) \in Syndromes /\ SyndromesOf(came) # << >>
         /\ Differ(came, sent) \in SUBSET Bits /\ Differ(came, sent) \in SUBSET Nodes
         /\ Cardinality(Differ(came, sent)) = Distance(came, sent)
         /\ Distance(came, sent) \in Nat
         /\ \A j \in 1 .. 2 * T :
              SyndromesOf(came)[j] = Moment(AllOnes(Differ(came, sent)), j, Differ(came, sent))
<1>1. sent \in Words /\ came \in Words /\ Clean(SyndromesOf(sent))
  BY EmbeddedAssumption DEF DecodeInv
<1>2. SyndromesOf(came) \in Syndromes
  BY <1>1, SyndromesAre
<1>3. SyndromesOf(came) # << >>
  <2>1. 1 \in DOMAIN SyndromesOf(came)
    BY FieldSizes DEF SyndromesOf
  <2>2. DOMAIN << >> = {}
    OBVIOUS
  <2> QED
    BY <2>1, <2>2
<1> QED
  BY <1>1, <1>2, <1>3, SyndromesAre, DifferIs

\* Every step keeps it.
LEMMA DecodeKept ==
  ASSUME DecodeInv, PhotoInv, MarkInv, [Next]_readingVars
  PROVE  DecodeInv'
<1>1. CASE UNCHANGED photoVars
  BY <1>1 DEF DecodeInv, photoVars
<1>2. CASE TakeIn
  <2>1. /\ syndromes = << >> /\ syndromes' = SyndromesOf(came)
        /\ payload = Undecided /\ word = came
        /\ payload' = IF Clean(syndromes') THEN Payload(came) ELSE payload
        /\ sent' = sent /\ came' = came /\ locator' = locator /\ turn' = turn
    BY <1>2 DEF TakeIn, DecodeInv, PhotoInv
  <2>2. payload' # Undecided /\ Distance(came, sent) <= T => payload' = Payload(sent)
    <3>1. ASSUME payload' # Undecided, Distance(came, sent) <= T PROVE payload' = Payload(sent)
      <4>1. Clean(SyndromesOf(came)) /\ payload' = Payload(came)
        BY <2>1, <3>1
      <4>2. came = sent
        BY <3>1, <4>1, Received, CleanIsRight DEF DecodeInv
      <4> QED
        BY <4>1, <4>2
    <3> QED
      BY <3>1
  <2>3. syndromes' # << >>
    BY <2>1, Received
  <2> QED
    BY <2>1, <2>2, <2>3 DEF DecodeInv
<1>3. CASE Turn
  <2>1. /\ payload = Undecided /\ syndromes # << >> /\ turn < 2 * T
        /\ locator' = NextLocator /\ turn' = turn + 1
        /\ sent' = sent /\ came' = came /\ syndromes' = syndromes /\ payload' = payload
    BY <1>3 DEF Turn
  <2>2. syndromes = SyndromesOf(came) /\ syndromes \in Syndromes /\ turn \in Nat
        /\ LocatorOK(locator, turn, syndromes)
    BY <2>1, Received DEF DecodeInv
  <2>3. LocatorOK(NextLocator, turn + 1, syndromes)
    BY <2>1, <2>2, LocatorKept
  <2>4. PICK E \in SUBSET Nodes :
          /\ E = Differ(came, sent) /\ locator.errors <= Cardinality(E)
          /\ \A j \in 1 .. 2 * T : syndromes[j] = Moment(AllOnes(E), j, E)
    BY <2>2, Received DEF DecodeInv
  <2>5. NextLocator.errors <= Cardinality(E)
    BY <2>1, <2>2, <2>4, LengthKept
  <2>6. turn + 1 \in 0 .. 2 * T
    BY <2>1, <2>2, FieldSizes
  <2> QED
    BY <2>1, <2>2, <2>3, <2>4, <2>5, <2>6 DEF DecodeInv
<1>4. CASE Correct
  <2>1. /\ payload = Undecided /\ word = came /\ turn = 2 * T
        /\ sent' = sent /\ came' = came /\ syndromes' = syndromes
        /\ locator' = locator /\ turn' = turn
    BY <1>4 DEF Correct, PhotoInv
  <2>2. syndromes # << >>
    BY <2>1, FieldSizes DEF DecodeInv
  <2>3. /\ syndromes = SyndromesOf(came) /\ syndromes \in Syndromes
        /\ LocatorOK(locator, 2 * T, syndromes)
    BY <2>1, <2>2, Received DEF DecodeInv
  <2>4. ASSUME Distance(came, sent) <= T PROVE payload' = Payload(sent)
    <3>1. PICK E \in SUBSET Bits :
            /\ E = Differ(came, sent) /\ locator.errors <= Cardinality(E) /\ Cardinality(E) <= T
            /\ \A j \in 1 .. 2 * T : syndromes[j] = Moment(AllOnes(E), j, E)
      BY <2>3, <2>4, Received DEF DecodeInv
    <3>2. Places = E /\ PlacesAreErrors
      BY <2>3, <3>1, ErrorsAreFound
    <3>3. Flipped(word, Places) = sent
      BY <2>1, <3>1, <3>2, Received, FlippedBack DEF DecodeInv
    <3>4. Clean(SyndromesOf(Flipped(word, Places))) /\ Cardinality(Places) <= T
      BY <3>1, <3>2, <3>3, Received
    <3>5. word' = Flipped(word, Places) /\ payload' = Payload(word')
      BY <1>4, <3>2, <3>4 DEF Correct
    <3> QED
      BY <3>3, <3>5
  <2> QED
    BY <2>1, <2>2, <2>4 DEF DecodeInv
<1> QED
  BY <1>1, <1>2, <1>3, <1>4
     DEF Next, WatermarkNext, DecodeStill, PhotoNext, readingVars

\* What is read right follows.
LEMMA DecodeIsRight ==
  ASSUME DecodeInv, PhotoInv
  PROVE  PhotoIsReadRight
<1>1. Recurs
  <2>1. CASE syndromes = << >>
    <3>1. turn = 0 /\ locator.errors \in 0 .. 0
      BY <2>1 DEF DecodeInv, LocatorOK
    <3> QED
      BY <3>1 DEF Recurs
  <2>2. CASE syndromes # << >>
    <3>1. \A k \in locator.errors + 1 .. turn :
            Dev(locator.sigma, locator.errors, syndromes, k) = Zero
      BY <2>2 DEF DecodeInv, LocatorOK
    <3> QED
      BY <3>1 DEF Recurs, Dev
  <2> QED
    BY <2>1, <2>2
<1>2. Distance(came, sent) \in Nat /\ T \in Nat
  BY Received, FieldSizes
<1> QED
  BY <1>1, <1>2 DEF PhotoIsReadRight, DecodeInv, PhotoInv, NearACodeword

\* For any field with a primitive element, any code and any errors, the recurrence
\* explains the syndromes it has taken in at every turn; a photo with at most T bits
\* read wrong gives the id that was embedded, and one with more gives none or the id of
\* a codeword it really is that near to (layouts.ts, decodePhoto, errorLocator and
\* errorPositions).
THEOREM PhotosAreReadRight == Spec => []PhotoIsReadRight
<1>1. DecodeInv /\ PhotoInv => PhotoIsReadRight
  BY DecodeIsRight
<1> QED
  BY <1>1, DecodeStarts, DecodeKept, PhotoStarts, PhotoKept, MarkStarts, MarkKept, PTL DEF Spec
=============================================================================
