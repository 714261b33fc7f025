----------------------------- MODULE CommandLine -----------------------------
(***************************************************************************)
(* One run of vcap-verify (cli/src/main.ts, options.ts, trust.ts, cli.ts): *)
(* the arguments, the trust they name, the files one after another, and    *)
(* the code it exits with.  Every file it reads may be missing or hold     *)
(* something else.                                                         *)
(***************************************************************************)
EXTENDS Naturals, Sequences, FiniteSets

CONSTANTS
  Commands,  \* what parse makes of the arguments
  Disk,      \* the media of each path: [media, beside, anchored]
  Verdicts,  \* of the core: [outcome, recomputed, ceiling]
  Shipped    \* the documents the tool ships with: [logs, tsa, chains], each whole or broken

\* What parse makes of the arguments; a document or a root is named by what it holds.
Options ==
  [ command : {"verify", "extract"}, files : Seq(DOMAIN Disk),
    sidecar : {"beside", "named", "refused"}, named : {"there", "missing"},
    c2pa : {"none", "there", "missing"}, watermark : {"none", "whole", "broken"},
    help : BOOLEAN, showTrust : BOOLEAN, json : BOOLEAN,
    noDefaultLogs : BOOLEAN, trustFiles : Seq({"whole", "broken"}), noDefaultTsa : BOOLEAN,
    tsaRoots : Seq({"certificate", "not one", "missing"}),
    offline : BOOLEAN, chains : {"none", "whole", "broken"}, requireGreen : BOOLEAN ]
ASSUME CommandAssumption ==
  /\ Commands \subseteq Options
  /\ Shipped \in [{"logs", "tsa", "chains"} -> {"whole", "broken"}]

VARIABLES
  options,
  step,      \* of run, by the code that comes next
  trust,     \* the documents and roots taken in, in their order
  readChain, \* chains may be asked about an anchor
  asked,     \* a chain was asked
  results,   \* one for each file so far: a verdict, or Unread for an error
  exit       \* Running until the tool is done

cliVars == <<options, step, trust, readChain, asked, results, exit>>

Running == 99
EXIT == [ok |-> 0, doesNotVerify |-> 1, notGreen |-> 2, usage |-> 64, unreadable |-> 66]
InternalError == 70
Unread == [outcome |-> "unread"]

CommandInit ==
  /\ options \in Commands
  /\ step = "parse"
  /\ trust = << >>
  /\ readChain = FALSE /\ asked = FALSE
  /\ results = << >>
  /\ exit = Running

Stop(code) == exit' = code /\ step' = "done"
Go(next) == step' = next /\ UNCHANGED exit

\* parse, its last checks: options that are about one file take one file.
Misused(o) ==
  /\ ~o.help /\ ~o.showTrust
  /\ \/ Len(o.files) = 0
     \/ Len(o.files) > 1 /\ (o.sidecar = "named" \/ o.c2pa # "none" \/ o.command = "extract"
                             \/ o.watermark # "none")
Parse ==
  /\ step = "parse"
  /\ IF Misused(options) THEN Stop(EXIT.usage)
     ELSE IF options.help THEN Stop(EXIT.ok)
     ELSE Go(IF options.command = "extract" THEN "extract" ELSE "logs")
  /\ UNCHANGED <<options, trust, readChain, asked, results>>

\* trustSet: the shipped document unless refused, then every one named; one that does
\* not parse stops the run.
LogDocuments == (IF options.noDefaultLogs THEN << >> ELSE <<Shipped.logs>>) \o options.trustFiles
TsaDocuments == IF options.noDefaultTsa THEN << >> ELSE <<Shipped.tsa>>
Whole(documents) == \A i \in DOMAIN documents : documents[i] = "whole"
ReadLogs ==
  /\ step = "logs"
  /\ IF Whole(LogDocuments)
     THEN /\ trust' = [i \in DOMAIN LogDocuments |-> "log"]
          /\ Go("tsa")
     ELSE Stop(EXIT.usage) /\ UNCHANGED trust
  /\ UNCHANGED <<options, readChain, asked, results>>
\* tsaSet, and the roots given as PEM files: one without a certificate is the caller's
\* mistake, one that cannot be read escapes to cli.ts.
FirstBad == CHOOSE i \in DOMAIN options.tsaRoots :
              /\ options.tsaRoots[i] # "certificate"
              /\ \A j \in 1 .. i - 1 : options.tsaRoots[j] = "certificate"
ReadTsa ==
  /\ step = "tsa"
  /\ IF ~Whole(TsaDocuments) THEN Stop(EXIT.usage) /\ UNCHANGED trust
     ELSE IF \A i \in DOMAIN options.tsaRoots : options.tsaRoots[i] = "certificate"
     THEN /\ trust' = trust \o [i \in DOMAIN (TsaDocuments \o options.tsaRoots) |-> "authority"]
          /\ Go("chains")
     ELSE /\ Stop(IF options.tsaRoots[FirstBad] = "missing" THEN InternalError ELSE EXIT.usage)
          /\ UNCHANGED trust
  /\ UNCHANGED <<options, readChain, asked, results>>

ChainsDocument == IF options.chains = "none" THEN Shipped.chains ELSE options.chains
ReadChains ==
  /\ step = "chains"
  /\ IF ~options.offline /\ ChainsDocument # "whole" THEN Stop(EXIT.usage) /\ UNCHANGED readChain
     ELSE /\ readChain' = ~options.offline
          /\ IF options.showTrust THEN Stop(EXIT.ok) ELSE Go("watermark")
  /\ UNCHANGED <<options, trust, asked, results>>

ReadWatermark ==
  /\ step = "watermark"
  /\ IF options.watermark = "broken" THEN Stop(EXIT.usage) ELSE Go("files")
  /\ UNCHANGED <<options, trust, readChain, asked, results>>

\* What readFile, readSidecar and readStore need: only the sidecar nobody named may be
\* missing.
Readable(path) ==
  /\ Disk[path].media = "there"
  /\ options.sidecar = "beside" => Disk[path].beside # "unreadable"
  /\ options.sidecar = "named" => options.named = "there"
  /\ options.c2pa \in {"none", "there"}

\* The next of the files; one that cannot be read is a result too, and so is one the
\* core throws on, whether or not a chain was asked before.
Judge ==
  /\ step = "files" /\ Len(results) < Len(options.files)
  /\ LET path == options.files[Len(results) + 1]
         asks == Readable(path) /\ readChain /\ Disk[path].anchored IN
     \/ /\ Readable(path)
        /\ \E verdict \in Verdicts : results' = Append(results, verdict)
        /\ asked' = (asked \/ asks)
     \/ /\ results' = Append(results, Unread)
        /\ asked' \in {asked, asked \/ asks}
  /\ UNCHANGED <<options, step, trust, readChain, exit>>

verifies(v) == v.outcome = "authentic" \/ (v.outcome = "verified_clip" /\ v.recomputed)
Judged == {i \in DOMAIN results : results[i] # Unread}
\* Fault: the last file decides.
ExitCodeOfLast ==
  LET v == results[Len(results)] IN
  IF v = Unread THEN EXIT.unreadable
  ELSE IF ~verifies(v) THEN EXIT.doesNotVerify
  ELSE IF options.requireGreen /\ v.ceiling # "green" THEN EXIT.notGreen ELSE EXIT.ok
ExitCode ==
  IF Cardinality(Judged) < Len(results) THEN EXIT.unreadable
  ELSE IF \E i \in Judged : ~verifies(results[i]) THEN EXIT.doesNotVerify
  ELSE IF options.requireGreen /\ \E i \in Judged : results[i].ceiling # "green" THEN EXIT.notGreen
  ELSE EXIT.ok
Finish ==
  /\ step = "files" /\ Len(results) = Len(options.files)
  /\ Stop(ExitCode)
  /\ UNCHANGED <<options, trust, readChain, asked, results>>

\* extract: nothing is judged; a proof that is not text cannot be printed, but with
\* --json it is a line all the same.
Extract ==
  /\ step = "extract"
  /\ IF Len(options.files) = 0 THEN Stop(InternalError)
     ELSE IF ~Readable(options.files[1]) THEN Stop(EXIT.unreadable)
     ELSE \E found \in {"proof", "proof that is not text", "refused"} :
            Stop(IF \/ found = "proof"
                    \/ found = "proof that is not text" /\ options.json
                 THEN EXIT.ok ELSE EXIT.doesNotVerify)
  /\ UNCHANGED <<options, trust, readChain, asked, results>>

CommandNext ==
  Parse \/ ReadLogs \/ ReadTsa \/ ReadChains \/ ReadWatermark \/ Judge \/ Finish \/ Extract

-----------------------------------------------------------------------------
Judging == options.command = "verify" /\ ~options.help /\ ~options.showTrust
Named == Len(LogDocuments) + Len(TsaDocuments) + Len(options.tsaRoots)

\* The code answers whether the files can be trusted.  It is 0 only when every file
\* named was judged, each verifies, and each is green where that was required; one that
\* could not be read shows as 66 however the others fared, and takes none of their
\* verdicts with it.  No verdict is given under less than the trust the caller named,
\* nor beside a usage or an internal error; one file's detection judges no other file;
\* and with --offline no chain is asked (main.ts, run).
ExitCodeIsHonest ==
  /\ exit = EXIT.ok /\ Judging =>
       /\ Len(results) = Len(options.files) /\ results # << >>
       /\ \A i \in DOMAIN results :
            results[i] # Unread /\ verifies(results[i])
              /\ (options.requireGreen => results[i].ceiling = "green")
  /\ results # << >> =>
       /\ Len(trust) = Named /\ \A i \in DOMAIN options.trustFiles : options.trustFiles[i] = "whole"
       /\ options.watermark # "none" => Len(options.files) = 1
  /\ exit \in {EXIT.ok, EXIT.doesNotVerify, EXIT.notGreen} => Unread \notin {results[i] : i \in DOMAIN results}
  /\ exit \in {EXIT.unreadable, EXIT.doesNotVerify} /\ Judging => Len(results) = Len(options.files)
  /\ exit \in {EXIT.usage, InternalError} => results = << >>
  /\ options.offline => ~asked
=============================================================================
