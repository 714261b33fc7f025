------------------------------- MODULE Offline -------------------------------
(***************************************************************************)
(* The page on a reader's machine: its service worker (web/src/sw.ts),     *)
(* which caches one build and serves it, the files a visit is made of, and *)
(* the detector, which is left out of the cache (web/src/detector.ts).     *)
(* The host may put up another build between any two requests.             *)
(*                                                                         *)
(* A file is the build it was made by; a build's cache is named after it.  *)
(***************************************************************************)
EXTENDS Dist, Naturals

CONSTANTS
  Html, Bundle, DetectorJson,   \* names of files
  Models,        \* what a host may answer for the model's URL
  MaxDeploys,    \* bound: builds put up
  Pin            \* [Builds -> the model its detector.json pins, or None]

ASSUME OfflineAssumption ==
  /\ {Html, Bundle, DetectorJson} \subseteq Precached
  /\ MaxDeploys \in Nat
  /\ Pin \in [Builds -> Models \cup {None}]
  /\ None \notin Models \cup [Precached -> Builds \cup {None}]

VARIABLES
  site,       \* what the host serves
  deploys,    \* how often that changed
  caches,     \* what is stored, by build: None, or [Precached -> file or None]
  installing, \* the worker being installed
  active,     \* the build of the active worker
  sweeping,   \* caches its activation has yet to delete; None when it is over
  page,       \* the open page: its files, its worker, its detector
  mixed,      \* history: builds whose cache was filled across a deployment
  swept       \* history: builds whose cache was deleted while it was filled
offline == <<site, deploys, caches, installing, active, sweeping, page, mixed, swept>>

Closed == [ html |-> None, by |-> None, js |-> None, json |-> None,
            model |-> None, steady |-> TRUE ]
Empty == [n \in Precached |-> None]

OfflineInit ==
  /\ \E b \in Builds : site = Whole(b)
  /\ deploys = 0
  /\ caches = [b \in Builds |-> None]
  /\ installing = None /\ active = None /\ sweeping = None
  /\ page = Closed /\ mixed = {} /\ swept = {}

\* Fault: any cache of the page's may answer.
MatchedAnywhere(worker, n) ==
  LET hits == {b \in Builds : caches[b] # None /\ caches[b][n] # None} IN
  IF hits = {} THEN None ELSE caches[CHOOSE b \in hits : TRUE][n]

\* caches.match: the worker's own cache.
Matched(worker, n) == IF caches[worker] = None THEN None ELSE caches[worker][n]

\* The fetch handler: the cache first, the network for what it does not hold.
Answer(worker, n) ==
  IF worker # None /\ n \in Precached /\ Matched(worker, n) # None
  THEN Matched(worker, n) ELSE site[n]

\* An event waits until its worker is activated.
Served(worker) == worker # None => sweeping = None

Deploy(tree) ==
  /\ tree # site /\ deploys < MaxDeploys
  /\ site' = tree /\ deploys' = deploys + 1
  /\ mixed' = IF installing = None THEN mixed ELSE mixed \cup {installing.build}
  /\ page' = [page EXCEPT !.steady = @ /\ page.by # None /\ page.by \notin swept]
  /\ UNCHANGED <<caches, installing, active, sweeping, swept>>

(***************************************************************************)
(* The worker.                                                             *)
(***************************************************************************)

\* Fault: only what a failed install did not get is asked for again.
LeftMissing(b) == IF caches[b] = None THEN Precached ELSE {n \in Precached : caches[b][n] = None}
Left(b) == Precached

\* The page registers sw.js; a worker of another build is installed.  The cache of
\* its name is opened, with what an install that failed may have left in it.
Register ==
  /\ page.js # None /\ installing = None /\ site[Worker] # active
  /\ LET b == site[Worker] IN
     /\ installing' = [build |-> b, left |-> Left(b)]
     /\ caches' = [caches EXCEPT ![b] = IF @ = None THEN Empty ELSE @]
     /\ mixed' = mixed \ {b} /\ swept' = swept \ {b}
  /\ UNCHANGED <<site, deploys, active, sweeping, page>>

\* One of the concurrent requests of install is in, as the host answers it now; a
\* cache deleted meanwhile takes what is put into it nowhere.
Put(n) ==
  /\ installing # None /\ n \in installing.left
  /\ installing' = [installing EXCEPT !.left = @ \ {n}]
  /\ caches' = IF caches[installing.build] = None THEN caches
               ELSE [caches EXCEPT ![installing.build][n] = site[n]]
  /\ UNCHANGED <<site, deploys, active, sweeping, page, mixed, swept>>

\* A request fails, and the install with it; the active worker stays.
InstallFails ==
  /\ installing # None /\ installing.left # {}
  /\ installing' = None
  /\ UNCHANGED <<site, deploys, caches, active, sweeping, page, mixed, swept>>

\* The page under another worker is not what it was.
Taken(worker) ==
  [page EXCEPT !.by = worker, !.steady = @ /\ (page.html = None \/ page.by = worker)]

\* skipWaiting: the worker replaces the active one, also under an open page that
\* has a worker, and lists the caches there are.
Activate ==
  /\ installing # None /\ installing.left = {} /\ sweeping = None
  /\ active' = installing.build
  /\ sweeping' = {b \in Builds : caches[b] # None} \ {installing.build}
  /\ installing' = None
  /\ page' = IF page.by = None THEN page ELSE Taken(active')
  /\ UNCHANGED <<site, deploys, caches, mixed, swept>>

Sweep(b) ==
  /\ sweeping # None /\ b \in sweeping
  /\ caches' = [caches EXCEPT ![b] = None]
  /\ sweeping' = sweeping \ {b}
  /\ swept' = IF installing # None /\ installing.build = b THEN swept \cup {b} ELSE swept
  /\ UNCHANGED <<site, deploys, installing, active, page, mixed>>

\* clients.claim, the end of activate.
Claim ==
  /\ sweeping = {} /\ sweeping' = None
  /\ page' = IF page.html = None THEN page ELSE Taken(active)
  /\ UNCHANGED <<site, deploys, caches, installing, active, mixed, swept>>

(***************************************************************************)
(* A visit.                                                                *)
(***************************************************************************)
Open ==
  /\ Served(active)
  /\ page' = [Closed EXCEPT !.html = Answer(active, Html), !.by = active]
  /\ UNCHANGED <<site, deploys, caches, installing, active, sweeping, mixed, swept>>

LoadBundle ==
  /\ page.html # None /\ page.js = None /\ Served(page.by)
  /\ page' = [page EXCEPT !.js = Answer(page.by, Bundle)]
  /\ UNCHANGED <<site, deploys, caches, installing, active, sweeping, mixed, swept>>

\* loadDetector reads detector.json; without a build it ends there.
ReadDetectorJson ==
  /\ page.js # None /\ page.json = None /\ Served(page.by)
  /\ LET json == Answer(page.by, DetectorJson) IN
     /\ Pin[json] # None
     /\ page' = [page EXCEPT !.json = json]
  /\ UNCHANGED <<site, deploys, caches, installing, active, sweeping, mixed, swept>>

\* The model is in, from wherever it is hosted: it is refused, or it runs.  The
\* engine that runs it is not cached, and of whatever build the host is.
Download(model) ==
  /\ page.json # None /\ page.model = None
  /\ page' = IF model = Pin[page.json] THEN [page EXCEPT !.model = model]
             ELSE [page EXCEPT !.json = None]
  /\ UNCHANGED <<site, deploys, caches, installing, active, sweeping, mixed, swept>>

OfflineNext ==
  \/ Register \/ InstallFails \/ Activate \/ Claim
  \/ \E n \in Precached : Put(n)
  \/ \E b \in Builds : Sweep(b)
  \/ Open \/ LoadBundle \/ ReadDetectorJson
  \/ \E m \in Models : Download(m)

(***************************************************************************)
(* Properties.                                                             *)
(***************************************************************************)

\* What a page is made of, its detector's model included, is one build's, although
\* builds are put up, installed, given up half-way and activated meanwhile; unless
\* the host changed during the very install or visit, or a new worker took the page
\* over (sw.ts:1-5, 47; detector.ts:21-24).
PageIsOfOneBuild ==
  page.steady /\ page.by \notin mixed =>
    /\ page.js # None => page.js = page.html
    /\ page.json # None => page.json = page.html
    /\ page.model # None => page.model = Pin[page.html]

\* Once a worker is active its page needs no network: everything it lists is in its
\* cache, and from one build; unless the deletion of an older worker's caches met
\* its own while it was filled, or the host changed then (sw.ts:1-7, 44-46).
OfflineIsWhole ==
  active # None /\ active \notin swept =>
    \A n \in Precached :
      /\ caches[active] # None /\ caches[active][n] # None
      /\ active \notin mixed => caches[active][n] = active
=============================================================================
