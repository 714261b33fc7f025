------------------------------- MODULE Publish -------------------------------
(***************************************************************************)
(* Building, signing, mirroring and checking the page (bin/*.mjs and       *)
(* web/build.mjs).  The key holder builds a commit and signs its manifest  *)
(* by hand, in steps that may be cut short; a mirror rebuilds a commit and *)
(* takes the signature from the public log; anybody checks a copy.         *)
(*                                                                         *)
(* A file is the build that made it, a manifest the build it describes,    *)
(* a signature the manifest and the key: hashes are never broken.          *)
(***************************************************************************)
EXTENDS Dist, Sequences, SequencesExt

CONSTANTS
  CommitOf,      \* [Builds -> the commit hashes.json records]
  Clean,         \* builds of a clean checkout of a known commit
  Keys,          \* ed25519 keys the key holder has had
  Touchable,     \* bound: the files changed by hand
  MaxLog, MaxTouches   \* bounds

Signatures == [of : Builds, by : Keys]

ASSUME PublishAssumption ==
  /\ Clean \subseteq Builds
  /\ None \notin Signatures
  /\ None \notin Keys /\ Touchable \subseteq Names
  /\ MaxLog \in Nat /\ MaxTouches \in Nat

VARIABLES
  dist,       \* the key holder's web/dist: files, hashes.json, hashes.json.sig
  signing,    \* what sign-build has yet to log, None when it is not running
  published,  \* signing/public-key.pem
  log,        \* signing/manifests.jsonl
  mirror,     \* the mirror's dist
  touches,    \* files changed by hand after a build
  held,       \* history: the keys ever published
  signed      \* history: the directories a signing run found in order
publishing == <<dist, signing, published, log, mirror, touches, held, signed>>

Sealed(of, by) == [of |-> of, by |-> by]

\* build.mjs: dist is removed first, the signature with it.
Built(b) == [tree |-> Whole(b), manifest |-> b, sig |-> None]
FilesMatch(copy) == \A n \in Names : copy.tree[n] = copy.manifest

PublishInit ==
  /\ \E b \in Builds : dist = Built(b) /\ mirror = Built(b)
  /\ signing = None /\ published = None /\ log = <<>> /\ touches = 0
  /\ held = {} /\ signed = {}

Build(b) ==
  /\ signing = None
  /\ dist' = Built(b)
  /\ UNCHANGED <<signing, published, log, mirror, touches, held, signed>>

\* A file, or the manifest, is changed in the directory after the build.
Touch(n, b) ==
  /\ signing = None /\ touches < MaxTouches
  /\ dist' \in {[dist EXCEPT !.tree[n] = b], [dist EXCEPT !.manifest = b]} \ {dist}
  /\ touches' = touches + 1
  /\ UNCHANGED <<signing, published, log, mirror, held, signed>>

\* Fault: the listed files are not compared.
MaySignAnyTree(key) ==
  dist.manifest \in Clean /\ published \in {None, key}

\* What sign-build.mjs makes sure of before it touches anything.
MaySign(key) ==
  /\ dist.manifest \in Clean
  /\ FilesMatch(dist)
  /\ published \in {None, key}

\* sign-build.mjs up to hashes.json.sig: the key is published if none was, and the
\* signature is written before the log is looked at.
Sign(key) ==
  /\ signing = None /\ MaySign(key)
  /\ published' = IF published = None THEN key ELSE published
  /\ held' = held \cup {published'}
  /\ dist' = [dist EXCEPT !.sig = Sealed(dist.manifest, key)]
  /\ signing' = Sealed(dist.manifest, key)
  /\ signed' = signed \cup {[tree |-> dist.tree, manifest |-> dist.manifest]}
  /\ UNCHANGED <<log, mirror, touches>>

\* The commit is in the log with another manifest.
Clash(entry) ==
  \E i \in DOMAIN log : CommitOf[log[i].of] = CommitOf[entry.of] /\ log[i].of # entry.of

\* ... and its end: the line is there, or clashes, or is appended.
Record ==
  /\ signing # None
  /\ log' = IF Contains(log, signing) \/ Clash(signing) THEN log ELSE Append(log, signing)
  /\ Len(log') <= MaxLog
  /\ signing' = None
  /\ UNCHANGED <<dist, published, mirror, touches, held, signed>>

\* sign-build is interrupted between its two files.
Interrupted ==
  /\ signing # None /\ signing' = None
  /\ UNCHANGED <<dist, published, log, mirror, touches, held, signed>>

\* signing/README.md: a new key replaces the published one in a commit of its own.
Rotate(key) ==
  /\ signing = None /\ published \notin {None, key}
  /\ published' = key /\ held' = held \cup {key}
  /\ UNCHANGED <<dist, signing, log, mirror, touches, signed>>

\* The line a checkout of the log has for a manifest, the first of them.
EntryOf(lines, manifest) ==
  LET ours(line) == line.of = manifest
  IN SelectInSeq(lines, ours)
\* Fault: the line is found by its commit.
EntryOfCommit(lines, manifest) ==
  LET ours(line) == CommitOf[line.of] = CommitOf[manifest]
  IN SelectInSeq(lines, ours)

\* mirror-signature.mjs, after a build of the mirror's own, with a checkout of the
\* log that may be behind.  It refuses what is not clean or not there.
EntryToMirror(lines, manifest) == EntryOf(lines, manifest)
Mirror(b, lines) ==
  LET i == EntryToMirror(lines, b) IN
  /\ mirror' = IF b \in Clean /\ i # 0 THEN [Built(b) EXCEPT !.sig = lines[i]] ELSE Built(b)
  /\ UNCHANGED <<dist, signing, published, log, touches, held, signed>>

PublishNext ==
  \/ \E b \in Builds : Build(b)
  \/ \E n \in Touchable, b \in Builds : Touch(n, b)
  \/ \E k \in Keys : Sign(k) \/ Rotate(k)
  \/ Record \/ Interrupted
  \/ \E b \in Builds, k \in 0 .. Len(log) : Mirror(b, SubSeq(log, 1, k))

(***************************************************************************)
(* verify-build.mjs, run by a reader with the published key and the log.   *)
(***************************************************************************)
ByPublished(sig) == sig.by = published

\* --log: every line is by the key published now.
LogHolds == \A i \in DOMAIN log : ByPublished(log[i])

\* One directory: the files, the signature when there is one, and the log's line.
Passes(copy) ==
  LET i == EntryOf(log, copy.manifest) IN
  /\ FilesMatch(copy)
  /\ copy.sig # None => copy.sig = Sealed(copy.manifest, published)
  /\ i # 0 => ByPublished(log[i])

(***************************************************************************)
(* Properties.                                                             *)
(***************************************************************************)

\* The log is a record of reproducible builds under one key: it never has two
\* manifests of one commit, though signings are cut short, run again and mixed, and
\* as long as the key was not rotated every line, every signature of the mirror and
\* every signature of an untouched build holds for a reader
\* (sign-build.mjs:77-83, 104; mirror-signature.mjs:47).
Continuity ==
  /\ \A i, j \in DOMAIN log : CommitOf[log[i].of] = CommitOf[log[j].of] => log[i].of = log[j].of
  /\ Cardinality(held) <= 1 =>
       /\ LogHolds
       /\ Passes(mirror)
       /\ touches = 0 => Passes(dist)

\* Whoever hands over a copy, a build or one with a file replaced: when it passes
\* with a signature, the key holder had exactly these listed files when signing
\* (sign-build.mjs:66-71; verify-build.mjs:73-91).
Copies ==
  { [tree |-> [Whole(b) EXCEPT ![n] = c], manifest |-> m] :
      b \in Builds, n \in Touchable, c \in Builds, m \in Builds }
AcceptedIsWhatWasSigned ==
  \A found \in signed, key \in held, copy \in Copies :
    Passes([tree |-> copy.tree, manifest |-> copy.manifest, sig |-> Sealed(found.manifest, key)])
    => copy \in signed
=============================================================================
