---------------------------- MODULE ReleaseProofs ----------------------------
(***************************************************************************)
(* For any builds, files, keys and bounds: the log stays a record, what    *)
(* verifies is what was signed, an active worker's cache is whole, and a   *)
(* page is of one build.                                                   *)
(*                                                                         *)
(* The argument: only whole builds are put up, so a cache filled between   *)
(* two deployments is one build's; a worker is installed only beside an    *)
(* active one of another build, so nothing touches the cache of the active *)
(* one; and a signature is only ever copied from a directory in order.     *)
(***************************************************************************)
EXTENDS Release, FiniteSetTheorems, WellFoundedInduction, TLAPS

Files == Builds \cup {None}
CachesOf == [Precached -> Files] \cup {None}

(***************************************************************************)
(* The key holder's side.                                                  *)
(***************************************************************************)
PublishTypes ==
  /\ dist \in [tree : Trees, manifest : Builds, sig : Signatures \cup {None}]
  /\ mirror \in [tree : Trees, manifest : Builds, sig : Signatures \cup {None}]
  /\ signing \in Signatures \cup {None}
  /\ published \in Keys \cup {None}
  /\ log \in Seq(Signatures)
  /\ touches \in Nat
  /\ held \subseteq Keys
  /\ signed \subseteq [tree : Trees, manifest : Builds]

\* What was signed was in order then; what is signed is by a key once published.
SignedInOrder == \A found \in signed : found.tree = Whole(found.manifest)
KeysHeld ==
  /\ IsFiniteSet(held)
  /\ published = None => held = {}
  /\ published # None => published \in held
  /\ signing # None => signing.by \in held
  /\ \A i \in DOMAIN log : log[i].by \in held
  /\ dist.sig # None => dist.sig.by \in held
  /\ mirror.sig # None => mirror.sig.by \in held

\* One manifest for a commit in the log, and copies that are in order.
OnePerCommit ==
  \A i, j \in DOMAIN log : CommitOf[log[i].of] = CommitOf[log[j].of] => log[i].of = log[j].of
InOrder(copy) ==
  /\ FilesMatch(copy)
  /\ copy.sig # None => copy.sig.of = copy.manifest
CopiesInOrder ==
  /\ InOrder(mirror)
  /\ touches = 0 => InOrder(dist)

PublishInv ==
  /\ PublishTypes /\ SignedInOrder /\ KeysHeld /\ OnePerCommit /\ CopiesInOrder

(***************************************************************************)
(* The reader's side.                                                      *)
(***************************************************************************)
OfflineTypes ==
  /\ \E b \in Builds : site = Whole(b)
  /\ caches \in [Builds -> CachesOf]
  /\ installing \in [build : Builds, left : SUBSET Precached] \cup {None}
  /\ active \in Files
  /\ page \in [ html : Files, by : Files, js : Files, json : Files,
                model : Models \cup {None}, steady : BOOLEAN ]

\* Everything the worker lists has come in, but for what is left; and from its own
\* build, when the host did not change.
Holds(b, left) ==
  IF b \in swept THEN caches[b] = None
  ELSE /\ caches[b] # None
       /\ \A n \in Precached \ left : /\ caches[b][n] # None
                                      /\ b \notin mixed => caches[b][n] = b
Installs ==
  installing # None =>
    /\ installing.build # active
    /\ installing.build \notin mixed => site = Whole(installing.build)
    /\ Holds(installing.build, installing.left)
Serves == active # None => Holds(active, {})
Sweeps == sweeping # None => active \notin sweeping

\* A page without a worker, or under one whose cache is gone, is what the host serves.
Visits ==
  /\ page.by # None => page.by = active /\ page.html # None
  /\ page.steady /\ page.by \notin mixed /\ page.html # None =>
       /\ page.by = None \/ page.by \in swept => site = Whole(page.html)
       /\ page.by # None /\ page.by \notin swept => page.html = page.by
       /\ page.js # None => page.js = page.html
       /\ page.json # None => page.json = page.html
       /\ page.model # None => page.model = Pin[page.html]
  /\ page.html = None => page.js = None /\ page.json = None /\ page.model = None

OfflineInv == OfflineTypes /\ Installs /\ Serves /\ Sweeps /\ Visits

IInv == PublishInv /\ OfflineInv

(***************************************************************************)
(* Helpers.                                                                *)
(***************************************************************************)
LEMMA WholeIsATree ==
  ASSUME NEW b \in Builds
  PROVE  Whole(b) \in Trees /\ \A n \in Names : Whole(b)[n] = b
BY DEF Whole, Trees

LEMMA InOrderIsWhole ==
  ASSUME NEW tree \in Trees, NEW b \in Builds, \A n \in Names : tree[n] = b
  PROVE  tree = Whole(b)
BY DEF Whole, Trees

LEMMA CachedAreNames ==
  /\ Precached \subseteq Names /\ Worker \in Names
  /\ Html \in Precached /\ Bundle \in Precached /\ DetectorJson \in Precached
BY DistAssumption, OfflineAssumption DEF Precached

LEMMA NoneIsNoCache ==
  /\ None \notin Builds
  /\ \A cache \in [Precached -> Files] : cache # None
BY DistAssumption, OfflineAssumption DEF Files

\* The least of a set of numbers is one of them.
LEMMA LeastIsIn ==
  ASSUME NEW S \in SUBSET Nat, S # {}
  PROVE  Min(S) \in S
<1> DEFINE Less == {ss \in Nat \X Nat : ss[1] < ss[2]}
<1>1. IsWellFoundedOn(Less, Nat)
  BY NatLessThanWellFounded DEF OpToRel
<1> HIDE DEF Less
<1>2. PICK x \in S : \A y \in S : <<y, x>> \notin Less
  BY <1>1, WFMin
<1>3. ASSUME NEW y \in S PROVE x =< y
  <2>1. <<y, x>> \in Less <=> y < x
    BY DEF Less
  <2> QED
    BY <1>2, <2>1
<1> QED
  BY <1>3 DEF Min

\* The line found for a manifest is about it.
LEMMA FoundIsOfManifest ==
  ASSUME NEW lines \in Seq(Signatures), NEW b, EntryOf(lines, b) # 0
  PROVE  EntryOf(lines, b) \in DOMAIN lines /\ lines[EntryOf(lines, b)].of = b
<1> DEFINE I == {i \in 1 .. Len(lines) : lines[i].of = b}
<1>1. EntryOf(lines, b) = IF I # {} THEN Min(I) ELSE 0
  BY DEF EntryOf, SelectInSeq
<1>2. I # {} /\ I \in SUBSET Nat
  BY <1>1
<1>3. Min(I) \in I
  BY <1>2, LeastIsIn
<1> QED
  BY <1>1, <1>2, <1>3

(***************************************************************************)
(* The reader's side: each step keeps OfflineInv.                          *)
(***************************************************************************)
LEMMA OfflineStarts == OfflineInit => OfflineInv
<1> SUFFICES ASSUME OfflineInit PROVE OfflineInv
  OBVIOUS
<1>1. OfflineTypes
  BY DEF OfflineInit, OfflineTypes, CachesOf, Files, Closed
<1> QED
  BY <1>1 DEF OfflineInit, OfflineInv, Installs, Serves, Sweeps, Visits, Closed

\* The host puts up a whole build.
LEMMA DeployKeeps ==
  ASSUME OfflineInv, NEW b \in Builds, Deploy(Whole(b))
  PROVE  OfflineInv'
<1> USE DEF OfflineInv
<1>1. /\ site' = Whole(b)
      /\ UNCHANGED <<caches, installing, active, sweeping, swept>>
      /\ mixed \subseteq mixed'
      /\ installing # None => installing.build \in mixed'
      /\ \A c : c \notin mixed' => c \notin mixed
      /\ page' = [page EXCEPT !.steady = @ /\ page.by # None /\ page.by \notin swept]
  BY DEF Deploy
<1>2. OfflineTypes'
  BY <1>1 DEF OfflineTypes
<1>3. Installs'
  BY <1>1 DEF Installs, Holds
<1>4. Serves' /\ Sweeps'
  BY <1>1 DEF Serves, Sweeps, Holds
<1>5. Visits'
  <2>1. /\ page'.html = page.html /\ page'.by = page.by /\ page'.js = page.js
        /\ page'.json = page.json /\ page'.model = page.model
        /\ page'.steady => page.steady /\ page.by # None /\ page.by \notin swept
    BY <1>1 DEF OfflineTypes
  <2> QED
    BY <1>1, <2>1 DEF Visits
<1> QED
  BY <1>2, <1>3, <1>4, <1>5

LEMMA RegisterKeeps ==
  ASSUME OfflineInv, Register
  PROVE  OfflineInv'
<1> USE DEF OfflineInv
<1>1. PICK b \in Builds : site = Whole(b)
  BY DEF OfflineTypes
<1>2. b = site[Worker] /\ b # active /\ installing = None
  BY <1>1, WholeIsATree, CachedAreNames DEF Register
<1>3. /\ installing' = [build |-> b, left |-> Precached]
      /\ mixed' = mixed \ {b} /\ swept' = swept \ {b}
      /\ UNCHANGED <<site, active, sweeping, page>>
      /\ caches' \in [Builds -> CachesOf]
      /\ caches'[b] # None
      /\ \A c \in Builds \ {b} : caches'[c] = caches[c]
  <2>1. Empty \in [Precached -> Files]
    BY DEF Empty, Files
  <2> QED
    BY <1>2, <2>1, NoneIsNoCache DEF OfflineTypes, Register, Left, CachesOf
<1>4. OfflineTypes'
  BY <1>3 DEF OfflineTypes
<1>5. Installs'
  BY <1>1, <1>2, <1>3 DEF Installs, Holds
<1>6. Serves'
  BY <1>2, <1>3 DEF Serves, Holds, OfflineTypes, Files
<1>7. Sweeps'
  BY <1>3 DEF Sweeps
<1>8. Visits'
  BY <1>2, <1>3, NoneIsNoCache DEF Visits
<1> QED
  BY <1>4, <1>5, <1>6, <1>7, <1>8

LEMMA PutKeeps ==
  ASSUME OfflineInv, NEW n \in Precached, Put(n)
  PROVE  OfflineInv'
<1> USE DEF OfflineInv
<1> DEFINE b == installing.build
<1>1. PICK now \in Builds : site = Whole(now)
  BY DEF OfflineTypes
<1>2. /\ installing # None /\ b \in Builds /\ b # active
      /\ installing.left \in SUBSET Precached
      /\ site[n] = now /\ now # None
  BY <1>1, WholeIsATree, CachedAreNames, NoneIsNoCache DEF Put, OfflineTypes, Installs
<1>3. /\ installing'.build = b /\ installing'.left = installing.left \ {n}
      /\ installing' \in [build : Builds, left : SUBSET Precached]
      /\ UNCHANGED <<site, active, sweeping, page, mixed, swept>>
  BY <1>2 DEF Put, OfflineTypes
<1>4. /\ caches' \in [Builds -> CachesOf]
      /\ \A c \in Builds \ {b} : caches'[c] = caches[c]
      /\ caches[b] = None => caches'[b] = None
      /\ caches[b] # None =>
           /\ caches'[b] # None
           /\ \A m \in Precached : caches'[b][m] = IF m = n THEN now ELSE caches[b][m]
  <2>1. CASE caches[b] = None
    BY <1>2, <2>1 DEF Put, OfflineTypes
  <2>2. CASE caches[b] # None
    <3>1. caches[b] \in [Precached -> Files]
      BY <1>2, <2>2 DEF OfflineTypes, CachesOf
    <3>2. [caches[b] EXCEPT ![n] = now] \in [Precached -> Files]
      BY <3>1 DEF Files
    <3>3. caches' = [caches EXCEPT ![b] = [caches[b] EXCEPT ![n] = now]]
      BY <1>2, <2>2 DEF Put
    <3> QED
      BY <1>2, <2>2, <3>1, <3>2, <3>3, NoneIsNoCache DEF OfflineTypes, CachesOf
  <2> QED
    BY <2>1, <2>2
<1>5. OfflineTypes'
  BY <1>3, <1>4 DEF OfflineTypes
<1>6. Installs'
  <2>1. b \notin mixed => now = b
    BY <1>1, <1>2, CachedAreNames DEF Installs, Whole
  <2> QED
    BY <1>2, <1>3, <1>4, <2>1 DEF Installs, Holds
<1>7. Serves'
  BY <1>2, <1>3, <1>4 DEF Serves, Holds, OfflineTypes, Files
<1>8. Sweeps' /\ Visits'
  BY <1>3 DEF Sweeps, Visits
<1> QED
  BY <1>5, <1>6, <1>7, <1>8

LEMMA InstallFailsKeeps ==
  ASSUME OfflineInv, InstallFails
  PROVE  OfflineInv'
BY DEF OfflineInv, InstallFails, OfflineTypes, Installs, Serves, Holds, Sweeps, Visits

\* An open page under another worker is no longer steady.
LEMMA ActivateKeeps ==
  ASSUME OfflineInv, Activate
  PROVE  OfflineInv'
<1> USE DEF OfflineInv
<1> DEFINE b == installing.build
<1>1. /\ installing # None /\ b \in Builds /\ b # active /\ b # None
      /\ installing.left = {} /\ Holds(b, {})
  BY NoneIsNoCache DEF Activate, OfflineTypes, Installs
<1>2. /\ active' = b /\ b \notin sweeping' /\ installing' = None
      /\ UNCHANGED <<site, caches, mixed, swept>>
  BY DEF Activate
<1>3. /\ page.by = None => page' = page
      /\ page.by # None => page' = [page EXCEPT !.by = b, !.steady = FALSE]
  BY <1>1, <1>2 DEF Activate, Taken, Visits, OfflineTypes
<1>4. OfflineTypes'
  BY <1>1, <1>2, <1>3 DEF OfflineTypes, Files
<1>5. Installs' /\ Serves' /\ Sweeps'
  BY <1>1, <1>2 DEF Installs, Serves, Sweeps, Holds
<1>6. Visits'
  <2>1. CASE page.by = None
    BY <1>2, <1>3, <2>1 DEF Visits
  <2>2. CASE page.by # None
    <3>1. /\ page'.html = page.html /\ page'.html # None
          /\ page'.by = b /\ page'.steady = FALSE
      BY <1>3, <2>2 DEF Visits, OfflineTypes
    <3> QED
      BY <1>2, <3>1 DEF Visits
  <2> QED
    BY <2>1, <2>2
<1> QED
  BY <1>4, <1>5, <1>6

LEMMA SweepKeeps ==
  ASSUME OfflineInv, NEW b \in Builds, Sweep(b)
  PROVE  OfflineInv'
<1> USE DEF OfflineInv
<1>1. b # active
  BY DEF Sweep, Sweeps
<1>2. /\ caches' = [caches EXCEPT ![b] = None]
      /\ sweeping' \subseteq sweeping
      /\ swept \subseteq swept' /\ swept' \subseteq swept \cup {b}
      /\ installing # None /\ installing.build = b => b \in swept'
      /\ sweeping # None
      /\ UNCHANGED <<site, installing, active, page, mixed>>
  BY DEF Sweep
<1>3. OfflineTypes'
  BY <1>2 DEF OfflineTypes, CachesOf
<1>4. Installs'
  BY <1>2 DEF Installs, Holds, OfflineTypes
<1>5. Serves' /\ Sweeps'
  BY <1>1, <1>2 DEF Serves, Sweeps, Holds, OfflineTypes, Files
<1>6. Visits'
  BY <1>1, <1>2, NoneIsNoCache DEF Visits
<1> QED
  BY <1>3, <1>4, <1>5, <1>6

LEMMA ClaimKeeps ==
  ASSUME OfflineInv, Claim
  PROVE  OfflineInv'
<1> USE DEF OfflineInv
<1>1. /\ sweeping' = None
      /\ UNCHANGED <<site, caches, installing, active, mixed, swept>>
      /\ page.html = None => page' = page
      /\ page.html # None =>
           page' = [page EXCEPT !.by = active, !.steady = @ /\ page.by = active]
  BY DEF Claim, Taken, OfflineTypes
<1>2. OfflineTypes'
  BY <1>1 DEF OfflineTypes
<1>3. Installs' /\ Serves' /\ Sweeps'
  BY <1>1 DEF Installs, Serves, Sweeps, Holds
<1>4. Visits'
  <2>1. CASE page.html = None
    BY <1>1, <2>1 DEF Visits
  <2>2. CASE page.html # None
    <3>1. /\ page'.html = page.html /\ page'.by = active /\ page'.js = page.js
          /\ page'.json = page.json /\ page'.model = page.model
          /\ page'.steady => page.steady /\ page.by = active
      BY <1>1, <2>2 DEF OfflineTypes
    <3> QED
      BY <1>1, <2>2, <3>1 DEF Visits
  <2> QED
    BY <2>1, <2>2
<1> QED
  BY <1>2, <1>3, <1>4

\* What a steady page is answered under its worker, or without one.
LEMMA AnswerIsOfTheBuild ==
  ASSUME OfflineInv, NEW n \in Precached,
         NEW worker \in Files, worker # None => worker = active,
         NEW now \in Builds, site = Whole(now)
  PROVE  /\ Answer(worker, n) \in Builds
         /\ worker \notin mixed =>
              Answer(worker, n) = IF worker = None \/ worker \in swept THEN now ELSE worker
<1> USE DEF OfflineInv
<1>1. site[n] = now
  BY WholeIsATree, CachedAreNames
<1>2. CASE worker = None
  BY <1>1, <1>2 DEF Answer
<1>3. CASE worker # None /\ worker \in swept
  <2>1. Matched(worker, n) = None
    BY <1>3 DEF Serves, Holds, Matched
  <2> QED
    BY <1>1, <1>3, <2>1 DEF Answer
<1>4. CASE worker # None /\ worker \notin swept
  <2>1. worker \in Builds /\ caches[worker] # None
    BY <1>4 DEF Serves, Holds, Files
  <2>2. /\ Matched(worker, n) # None
        /\ worker \notin mixed => Matched(worker, n) = worker
    BY <1>4, <2>1 DEF Serves, Holds, Matched
  <2>3. Matched(worker, n) \in Files
    BY <2>1 DEF OfflineTypes, CachesOf, Matched
  <2> QED
    BY <1>4, <2>2, <2>3 DEF Answer, Files
<1> QED
  BY <1>2, <1>3, <1>4

LEMMA OpenKeeps ==
  ASSUME OfflineInv, Open
  PROVE  OfflineInv'
<1> USE DEF OfflineInv
<1>1. PICK now \in Builds : site = Whole(now)
  BY DEF OfflineTypes
<1> DEFINE html == Answer(active, Html)
<1>2. active \in Files /\ Html \in Precached
  BY CachedAreNames DEF OfflineTypes
<1>3. /\ html \in Builds
      /\ active \notin mixed => html = IF active = None \/ active \in swept THEN now ELSE active
  BY <1>1, <1>2, AnswerIsOfTheBuild
<1>4. /\ page' = [ html |-> html, by |-> active, js |-> None, json |-> None,
                   model |-> None, steady |-> TRUE ]
      /\ UNCHANGED <<site, caches, installing, active, sweeping, mixed, swept>>
  BY DEF Open, Closed
<1>5. OfflineTypes'
  BY <1>2, <1>3, <1>4 DEF OfflineTypes, Files
<1>6. Installs' /\ Serves' /\ Sweeps'
  BY <1>4 DEF Installs, Serves, Sweeps, Holds
<1>7. Visits'
  <2> HIDE DEF html
  <2>1. /\ page'.html = html /\ page'.by = active /\ page'.js = None
        /\ page'.json = None /\ page'.model = None
    BY <1>4
  <2> QED
    BY <1>1, <1>3, <1>4, <2>1, NoneIsNoCache DEF Visits
<1> QED
  BY <1>5, <1>6, <1>7

LEMMA LoadBundleKeeps ==
  ASSUME OfflineInv, LoadBundle
  PROVE  OfflineInv'
<1> USE DEF OfflineInv
<1>1. PICK now \in Builds : site = Whole(now)
  BY DEF OfflineTypes
<1> DEFINE js == Answer(page.by, Bundle)
<1>2. /\ page.by \in Files /\ Bundle \in Precached /\ page.html \in Builds
      /\ page.by # None => page.by = active
  BY CachedAreNames DEF OfflineTypes, Visits, LoadBundle, Files
<1>3. /\ js \in Builds
      /\ page.by \notin mixed =>
           js = IF page.by = None \/ page.by \in swept THEN now ELSE page.by
  BY <1>1, <1>2, AnswerIsOfTheBuild
<1>4. /\ page' = [page EXCEPT !.js = js] /\ page.html # None
      /\ UNCHANGED <<site, caches, installing, active, sweeping, mixed, swept>>
  BY DEF LoadBundle
<1>5. OfflineTypes'
  BY <1>3, <1>4 DEF OfflineTypes, Files
<1>6. Installs' /\ Serves' /\ Sweeps'
  BY <1>4 DEF Installs, Serves, Sweeps, Holds
<1>7. Visits'
  <2> HIDE DEF js
  <2>1. /\ page'.html = page.html /\ page'.by = page.by /\ page'.js = js
        /\ page'.json = page.json /\ page'.model = page.model /\ page'.steady = page.steady
    BY <1>4 DEF OfflineTypes
  <2>2. site = Whole(page.html) => now = page.html
    BY <1>1, <1>2, WholeIsATree, CachedAreNames
  <2> QED
    BY <1>3, <1>4, <2>1, <2>2 DEF Visits
<1> QED
  BY <1>5, <1>6, <1>7

LEMMA ReadDetectorJsonKeeps ==
  ASSUME OfflineInv, ReadDetectorJson
  PROVE  OfflineInv'
<1> USE DEF OfflineInv
<1>1. PICK now \in Builds : site = Whole(now)
  BY DEF OfflineTypes
<1> DEFINE json == Answer(page.by, DetectorJson)
<1>2. /\ page.by \in Files /\ DetectorJson \in Precached /\ page.html \in Builds
      /\ page.by # None => page.by = active
  BY CachedAreNames DEF OfflineTypes, Visits, ReadDetectorJson, Files
<1>3. /\ json \in Builds
      /\ page.by \notin mixed =>
           json = IF page.by = None \/ page.by \in swept THEN now ELSE page.by
  BY <1>1, <1>2, AnswerIsOfTheBuild
<1>4. /\ page' = [page EXCEPT !.json = json] /\ page.html # None
      /\ UNCHANGED <<site, caches, installing, active, sweeping, mixed, swept>>
  BY <1>2, NoneIsNoCache DEF ReadDetectorJson
<1>5. OfflineTypes'
  BY <1>3, <1>4 DEF OfflineTypes, Files
<1>6. Installs' /\ Serves' /\ Sweeps'
  BY <1>4 DEF Installs, Serves, Sweeps, Holds
<1>7. Visits'
  <2> HIDE DEF json
  <2>1. /\ page'.html = page.html /\ page'.by = page.by /\ page'.js = page.js
        /\ page'.json = json /\ page'.model = page.model /\ page'.steady = page.steady
    BY <1>4 DEF OfflineTypes
  <2>2. site = Whole(page.html) => now = page.html
    BY <1>1, <1>2, WholeIsATree, CachedAreNames
  <2> QED
    BY <1>3, <1>4, <2>1, <2>2 DEF Visits
<1> QED
  BY <1>5, <1>6, <1>7

LEMMA DownloadKeeps ==
  ASSUME OfflineInv, NEW model \in Models, Download(model)
  PROVE  OfflineInv'
<1> USE DEF OfflineInv
<1>1. /\ page.json # None
      /\ page' = IF model = Pin[page.json] THEN [page EXCEPT !.model = model]
                 ELSE [page EXCEPT !.json = None]
      /\ UNCHANGED <<site, caches, installing, active, sweeping, mixed, swept>>
  BY DEF Download
<1>2. OfflineTypes'
  BY <1>1 DEF OfflineTypes, Files
<1>3. Installs' /\ Serves' /\ Sweeps'
  BY <1>1 DEF Installs, Serves, Sweeps, Holds
<1>4. Visits'
  <2>1. /\ page'.html = page.html /\ page'.by = page.by /\ page'.js = page.js
        /\ page'.steady = page.steady
        /\ \/ page'.json = page.json /\ page'.model = Pin[page.json]
           \/ page'.json = None /\ page'.model = page.model
    BY <1>1 DEF OfflineTypes
  <2> QED
    BY <1>1, <2>1 DEF Visits
<1> QED
  BY <1>2, <1>3, <1>4

LEMMA OfflineKeeps ==
  ASSUME OfflineInv, OfflineNext
  PROVE  OfflineInv'
BY RegisterKeeps, InstallFailsKeeps, ActivateKeeps, ClaimKeeps, PutKeeps, SweepKeeps,
   OpenKeeps, LoadBundleKeeps, ReadDetectorJsonKeeps, DownloadKeeps DEF OfflineNext

(***************************************************************************)
(* The key holder's side: each step keeps PublishInv.                      *)
(***************************************************************************)
LEMMA BuiltIsInOrder ==
  ASSUME NEW b \in Builds
  PROVE  /\ Built(b) \in [tree : Trees, manifest : Builds, sig : Signatures \cup {None}]
         /\ InOrder(Built(b)) /\ Built(b).sig = None
BY WholeIsATree DEF Built, InOrder, FilesMatch

LEMMA PublishStarts == PublishInit => PublishInv
<1> SUFFICES ASSUME PublishInit PROVE PublishInv
  OBVIOUS
<1>1. PICK b \in Builds : dist = Built(b) /\ mirror = Built(b)
  BY DEF PublishInit
<1>2. /\ signing = None /\ published = None /\ log = <<>> /\ touches = 0
      /\ held = {} /\ signed = {}
  BY DEF PublishInit
<1>3. PublishTypes
  BY <1>1, <1>2, BuiltIsInOrder DEF PublishTypes
<1>4. SignedInOrder /\ OnePerCommit
  BY <1>2 DEF SignedInOrder, OnePerCommit
<1>5. KeysHeld
  BY <1>1, <1>2, BuiltIsInOrder, FS_EmptySet DEF KeysHeld
<1>6. CopiesInOrder
  BY <1>1, BuiltIsInOrder DEF CopiesInOrder
<1> QED
  BY <1>3, <1>4, <1>5, <1>6 DEF PublishInv

LEMMA BuildKeeps ==
  ASSUME PublishInv, NEW b \in Builds, Build(b)
  PROVE  PublishInv'
<1> USE DEF PublishInv
<1>1. /\ dist' = Built(b)
      /\ UNCHANGED <<signing, published, log, mirror, touches, held, signed>>
  BY DEF Build
<1>2. PublishTypes'
  BY <1>1, BuiltIsInOrder DEF PublishTypes
<1>3. KeysHeld'
  BY <1>1, BuiltIsInOrder DEF KeysHeld
<1>4. SignedInOrder' /\ OnePerCommit'
  BY <1>1 DEF SignedInOrder, OnePerCommit
<1>5. CopiesInOrder'
  BY <1>1, BuiltIsInOrder DEF CopiesInOrder, InOrder, FilesMatch
<1> QED
  BY <1>2, <1>3, <1>4, <1>5

\* A directory that was changed by hand is not in order any more.
LEMMA TouchKeeps ==
  ASSUME PublishInv, NEW n \in Touchable, NEW b \in Builds, Touch(n, b)
  PROVE  PublishInv'
<1> USE DEF PublishInv
<1>1. /\ dist' \in {[dist EXCEPT !.tree[n] = b], [dist EXCEPT !.manifest = b]}
      /\ touches' = touches + 1
      /\ UNCHANGED <<signing, published, log, mirror, held, signed>>
  BY DEF Touch
<1>2. /\ dist' \in [tree : Trees, manifest : Builds, sig : Signatures \cup {None}]
      /\ dist'.sig = dist.sig
  <2>1. [dist.tree EXCEPT ![n] = b] \in Trees
    BY DEF PublishTypes, Trees
  <2>2. [dist EXCEPT !.tree[n] = b] = [dist EXCEPT !.tree = [dist.tree EXCEPT ![n] = b]]
    BY DEF PublishTypes
  <2> QED
    BY <1>1, <2>1, <2>2 DEF PublishTypes
<1>3. PublishTypes'
  BY <1>1, <1>2 DEF PublishTypes
<1>4. KeysHeld' /\ SignedInOrder' /\ OnePerCommit'
  BY <1>1, <1>2 DEF KeysHeld, SignedInOrder, OnePerCommit
<1>5. CopiesInOrder'
  <2>1. touches' # 0
    BY <1>1 DEF PublishTypes
  <2> QED
    BY <1>1, <2>1 DEF CopiesInOrder, InOrder, FilesMatch
<1> QED
  BY <1>3, <1>4, <1>5

\* A signature is only given to a directory in order.
LEMMA SignKeeps ==
  ASSUME PublishInv, NEW key \in Keys, Sign(key)
  PROVE  PublishInv'
<1> USE DEF PublishInv
<1> DEFINE sealed == Sealed(dist.manifest, key)
           found == [tree |-> dist.tree, manifest |-> dist.manifest]
<1>1. /\ FilesMatch(dist) /\ published \in {None, key}
      /\ published' = key /\ held' = held \cup {key}
      /\ dist' = [dist EXCEPT !.sig = sealed]
      /\ signing' = sealed /\ signed' = signed \cup {found}
      /\ UNCHANGED <<log, mirror, touches>>
  BY DEF Sign, MaySign
<1>2. /\ sealed \in Signatures /\ sealed.by = key /\ sealed.of = dist.manifest
      /\ found \in [tree : Trees, manifest : Builds]
  BY DEF PublishTypes, Sealed, Signatures
<1>3. PublishTypes'
  BY <1>1, <1>2 DEF PublishTypes
<1>4. SignedInOrder'
  <2>1. dist.tree = Whole(dist.manifest)
    BY <1>1, InOrderIsWhole DEF PublishTypes, FilesMatch
  <2> QED
    BY <1>1, <2>1 DEF SignedInOrder
<1>5. dist'.sig = sealed /\ dist'.tree = dist.tree /\ dist'.manifest = dist.manifest
  BY <1>1 DEF PublishTypes
<1>6. KeysHeld'
  <2>1. IsFiniteSet(held')
    BY <1>1, FS_AddElement DEF KeysHeld
  <2>2. published' # None
    BY <1>1, PublishAssumption
  <2> QED
    BY <1>1, <1>2, <1>5, <2>1, <2>2 DEF KeysHeld
<1>7. OnePerCommit' /\ CopiesInOrder'
  BY <1>1, <1>2, <1>5 DEF OnePerCommit, CopiesInOrder, InOrder, FilesMatch
<1> QED
  BY <1>3, <1>4, <1>6, <1>7

\* A line is appended when the log has no other manifest of its commit.
LEMMA RecordKeeps ==
  ASSUME PublishInv, Record
  PROVE  PublishInv'
<1> USE DEF PublishInv
<1>1. /\ signing # None /\ signing \in Signatures
      /\ \/ log' = log
         \/ log' = Append(log, signing) /\ ~ Clash(signing)
      /\ signing' = None
      /\ UNCHANGED <<dist, published, mirror, touches, held, signed>>
  BY DEF Record, PublishTypes
<1>2. PublishTypes'
  BY <1>1 DEF PublishTypes
<1>3. SignedInOrder' /\ CopiesInOrder'
  BY <1>1 DEF SignedInOrder, CopiesInOrder, InOrder, FilesMatch
<1>4. KeysHeld' /\ OnePerCommit'
  <2>1. CASE log' = log
    BY <1>1, <2>1 DEF KeysHeld, OnePerCommit
  <2>2. CASE log' = Append(log, signing) /\ ~ Clash(signing)
    <3>1. /\ log \in Seq(Signatures)
          /\ DOMAIN log' = DOMAIN log \cup {Len(log) + 1}
          /\ \A i \in DOMAIN log : log'[i] = log[i]
          /\ log'[Len(log) + 1] = signing
      BY <1>1, <2>2 DEF PublishTypes
    <3>2. KeysHeld'
      BY <1>1, <3>1 DEF KeysHeld
    <3>3. \A i \in DOMAIN log :
            CommitOf[log[i].of] = CommitOf[signing.of] => log[i].of = signing.of
      BY <2>2 DEF Clash
    <3>4. OnePerCommit'
      BY <3>1, <3>3 DEF OnePerCommit
    <3> QED
      BY <3>2, <3>4
  <2> QED
    BY <1>1, <2>1, <2>2
<1> QED
  BY <1>2, <1>3, <1>4

LEMMA InterruptedKeeps ==
  ASSUME PublishInv, Interrupted
  PROVE  PublishInv'
BY DEF PublishInv, Interrupted, PublishTypes, SignedInOrder, KeysHeld, OnePerCommit,
       CopiesInOrder, InOrder, FilesMatch

LEMMA RotateKeeps ==
  ASSUME PublishInv, NEW key \in Keys, Rotate(key)
  PROVE  PublishInv'
<1> USE DEF PublishInv
<1>1. /\ published' = key /\ held' = held \cup {key} /\ key # None
      /\ UNCHANGED <<dist, signing, log, mirror, touches, signed>>
  BY PublishAssumption DEF Rotate
<1>2. PublishTypes'
  BY <1>1 DEF PublishTypes
<1>3. IsFiniteSet(held')
  BY <1>1, FS_AddElement DEF KeysHeld
<1>4. KeysHeld'
  BY <1>1, <1>3 DEF KeysHeld
<1>5. SignedInOrder' /\ OnePerCommit' /\ CopiesInOrder'
  BY <1>1 DEF SignedInOrder, OnePerCommit, CopiesInOrder, InOrder, FilesMatch
<1> QED
  BY <1>2, <1>4, <1>5

\* The mirror takes a line of the log that is about its own manifest.
LEMMA MirrorKeeps ==
  ASSUME PublishInv, NEW b \in Builds, NEW k \in 0 .. Len(log), Mirror(b, SubSeq(log, 1, k))
  PROVE  PublishInv'
<1> USE DEF PublishInv
<1> DEFINE lines == SubSeq(log, 1, k)
           i == EntryOf(lines, b)
<1>1. /\ \/ mirror' = Built(b)
         \/ i # 0 /\ mirror' = [Built(b) EXCEPT !.sig = lines[i]]
      /\ UNCHANGED <<dist, signing, published, log, touches, held, signed>>
  BY DEF Mirror, EntryToMirror
<1>2. /\ lines \in Seq(Signatures) /\ DOMAIN lines \subseteq DOMAIN log
      /\ \A j \in DOMAIN lines : lines[j] = log[j]
  BY DEF PublishTypes
<1>3. i # 0 => i \in DOMAIN log /\ lines[i] = log[i] /\ lines[i] \in Signatures /\ lines[i].of = b
  <2> HIDE DEF lines
  <2> QED
    BY <1>2, FoundIsOfManifest
<1>4. /\ mirror' \in [tree : Trees, manifest : Builds, sig : Signatures \cup {None}]
      /\ InOrder(mirror')
      /\ mirror'.sig # None => mirror'.sig.by \in held
  <2> HIDE DEF lines, i
  <2>1. CASE mirror' = Built(b)
    BY <2>1, BuiltIsInOrder
  <2>2. CASE i # 0 /\ mirror' = [Built(b) EXCEPT !.sig = lines[i]]
    <3>1. /\ mirror'.tree = Built(b).tree /\ mirror'.manifest = b /\ Built(b).manifest = b
          /\ mirror'.sig = lines[i] /\ lines[i].by \in held
      BY <1>3, <2>2 DEF Built, KeysHeld
    <3> QED
      BY <1>3, <2>2, <3>1, BuiltIsInOrder DEF InOrder, FilesMatch
  <2> QED
    BY <1>1, <2>1, <2>2
<1>5. PublishTypes'
  BY <1>1, <1>4 DEF PublishTypes
<1>6. KeysHeld' /\ SignedInOrder' /\ OnePerCommit'
  BY <1>1, <1>4 DEF KeysHeld, SignedInOrder, OnePerCommit
<1>7. CopiesInOrder'
  BY <1>1, <1>4 DEF CopiesInOrder, InOrder, FilesMatch
<1> QED
  BY <1>5, <1>6, <1>7

LEMMA PublishKeeps ==
  ASSUME PublishInv, PublishNext
  PROVE  PublishInv'
BY BuildKeeps, TouchKeeps, SignKeeps, RotateKeeps, RecordKeeps, InterruptedKeeps, MirrorKeeps
   DEF PublishNext

(***************************************************************************)
(* Together.                                                               *)
(***************************************************************************)

\* What is put up is a whole build: its files match its manifest.
LEMMA PutUpKeeps ==
  ASSUME IInv, PutUp
  PROVE  IInv'
<1>1. dist.tree = Whole(dist.manifest) /\ dist.manifest \in Builds
  BY InOrderIsWhole DEF IInv, PutUp, PublishInv, PublishTypes, FilesMatch
<1>2. OfflineInv'
  BY <1>1, DeployKeeps DEF IInv, PutUp
<1>3. PublishInv'
  BY DEF IInv, PutUp, publishing, PublishInv, PublishTypes, SignedInOrder, KeysHeld,
         OnePerCommit, CopiesInOrder, InOrder, FilesMatch
<1> QED
  BY <1>2, <1>3 DEF IInv

\* Every reachable state of the release satisfies the invariant of both sides.
THEOREM Inductive == Spec => []IInv
<1>1. Init => IInv
  BY PublishStarts, OfflineStarts DEF Init, IInv
<1>2. PublishInv /\ UNCHANGED publishing => PublishInv'
  BY DEF publishing, PublishInv, PublishTypes, SignedInOrder, KeysHeld,
         OnePerCommit, CopiesInOrder, InOrder, FilesMatch
<1>3. OfflineInv /\ UNCHANGED offline => OfflineInv'
  BY DEF offline, OfflineInv, OfflineTypes, Installs, Serves, Holds, Sweeps, Visits
<1>4. IInv /\ [Next]_vars => IInv'
  <2> SUFFICES ASSUME IInv, [Next]_vars PROVE IInv'
    OBVIOUS
  <2>1. CASE PublishNext /\ UNCHANGED offline
    BY <1>3, <2>1, PublishKeeps DEF IInv
  <2>2. CASE OfflineNext /\ UNCHANGED publishing
    BY <1>2, <2>2, OfflineKeeps DEF IInv
  <2>3. CASE PutUp
    BY <2>3, PutUpKeeps
  <2>4. CASE UNCHANGED vars
    BY <1>2, <1>3, <2>4 DEF IInv, vars
  <2> QED
    BY <2>1, <2>2, <2>3, <2>4 DEF Next
<1> QED
  BY <1>1, <1>4, PTL DEF Spec

\* A set of at most one element has no other.
LEMMA OneKey ==
  ASSUME IsFiniteSet(held), Cardinality(held) =< 1, NEW a \in held, NEW b \in held
  PROVE  a = b
<1>1. Cardinality(held) # 0
  BY FS_EmptySet
<1>2. Cardinality(held) = 1
  BY <1>1, FS_CardinalityType
<1> QED
  BY <1>2, FS_Singleton

\* However often signing is cut short, run again, mixed with other builds or followed
\* by a new key: the log has one manifest for a commit, and under one key everything
\* the project publishes verifies (sign-build.mjs, mirror-signature.mjs).
THEOREM LogIsARecord == Spec => []Continuity
<1>1. IInv => Continuity
  <2> SUFFICES ASSUME IInv PROVE Continuity
    OBVIOUS
  <2> USE DEF IInv, PublishInv
  <2>1. ASSUME Cardinality(held) =< 1 PROVE LogHolds /\ Passes(mirror) /\ (touches = 0 => Passes(dist))
    <3>1. \A key \in held : key = published
      BY <2>1, OneKey DEF KeysHeld
    <3>2. LogHolds
      BY <3>1 DEF LogHolds, ByPublished, KeysHeld
    <3>3. ASSUME NEW copy \in {dist, mirror}, InOrder(copy) PROVE Passes(copy)
      <4>1. copy.sig # None => copy.sig = Sealed(copy.manifest, published)
        <5>1. copy.sig \in Signatures \cup {None}
          BY DEF PublishTypes
        <5>2. copy.sig # None => copy.sig.by = published
          BY <3>1 DEF KeysHeld
        <5> QED
          BY <3>3, <5>1, <5>2 DEF InOrder, Signatures, Sealed
      <4>2. EntryOf(log, copy.manifest) # 0 => EntryOf(log, copy.manifest) \in DOMAIN log
        BY FoundIsOfManifest DEF PublishTypes
      <4> QED
        BY <3>2, <3>3, <4>1, <4>2 DEF Passes, InOrder, LogHolds
    <3> QED
      BY <3>2, <3>3 DEF CopiesInOrder
  <2> QED
    BY <2>1 DEF Continuity, OnePerCommit
<1> QED
  BY <1>1, Inductive, PTL

\* Whoever hands over a copy that passes with a signature of the key holder's, its
\* listed files are those of a directory that was signed (verify-build.mjs:73-91).
THEOREM AcceptedIsSigned == Spec => []AcceptedIsWhatWasSigned
<1>1. IInv => AcceptedIsWhatWasSigned
  <2> SUFFICES ASSUME IInv, NEW found \in signed, NEW key \in held, NEW copy \in Copies,
                      Passes([ tree |-> copy.tree, manifest |-> copy.manifest,
                               sig |-> Sealed(found.manifest, key) ])
               PROVE  copy \in signed
    BY DEF AcceptedIsWhatWasSigned
  <2>1. /\ found \in [tree : Trees, manifest : Builds] /\ key \in Keys
        /\ found.tree = Whole(found.manifest)
    BY DEF IInv, PublishInv, PublishTypes, SignedInOrder
  <2>2. Sealed(found.manifest, key) # None
    BY <2>1, PublishAssumption DEF Sealed, Signatures
  <2>3. /\ \A n \in Names : copy.tree[n] = copy.manifest
        /\ copy.manifest = found.manifest
    BY <2>2 DEF Passes, FilesMatch, Sealed
  <2>4. copy \in [tree : Trees, manifest : Builds]
    <3>1. \A b \in Builds, n \in Touchable, c \in Builds : [Whole(b) EXCEPT ![n] = c] \in Trees
      BY WholeIsATree DEF Trees
    <3> QED
      BY <3>1 DEF Copies
  <2>5. copy.tree = Whole(found.manifest)
    BY <2>1, <2>3, <2>4, InOrderIsWhole
  <2> QED
    BY <2>1, <2>3, <2>4, <2>5
<1> QED
  BY <1>1, Inductive, PTL

\* An active worker's cache holds the whole of its build, whatever was installed,
\* given up and deleted beside it (sw.ts:44-47).
THEOREM OfflineStaysWhole == Spec => []OfflineIsWhole
<1>1. IInv => OfflineIsWhole
  BY DEF IInv, OfflineInv, Serves, Holds, OfflineIsWhole
<1> QED
  BY <1>1, Inductive, PTL

\* The files and the model of one visit are of one build (sw.ts:1-5; detector.ts:21-24).
THEOREM PagesAreOfOneBuild == Spec => []PageIsOfOneBuild
<1>1. IInv => PageIsOfOneBuild
  <2>1. IInv => (page.html = None => page.js = None /\ page.json = None /\ page.model = None)
    BY DEF IInv, OfflineInv, Visits
  <2> QED
    BY <2>1 DEF IInv, OfflineInv, Visits, PageIsOfOneBuild
<1> QED
  BY <1>1, Inductive, PTL
=============================================================================
