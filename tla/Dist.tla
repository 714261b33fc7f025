-------------------------------- MODULE Dist --------------------------------
(***************************************************************************)
(* What a build of the page is made of (web/build.mjs): files, each known  *)
(* by the build that made it.  The records of the hashes, hashes.json and    *)
(* HASHES.md, are not among them.                                          *)
(***************************************************************************)
CONSTANTS
  Builds,        \* what build.mjs may yield
  Names,         \* the files of dist/ a manifest lists
  Deferred,      \* the detector's files, fetched only when asked for
  Worker,        \* sw.js
  None

ASSUME DistAssumption ==
  /\ Worker \in Names /\ Deferred \subseteq Names \ {Worker}
  /\ None \notin Builds

Trees == [Names -> Builds]

\* The whole of one build.
Whole(b) == [n \in Names |-> b]

\* What the generated worker lists: all that is shipped but the detector.
Precached == Names \ (Deferred \cup {Worker})
=============================================================================
