------------------------------- MODULE MCPage -------------------------------
(***************************************************************************)
(* Small pages for Page: which files there are, and what a reader may do.  *)
(***************************************************************************)
EXTENDS Page

NoDetection == {None}
ADetection == {None, "readable"}

\* A bound on what is explored: no drop brings a detection and a model together.
OneSupplied ==
  \A t \in DOMAIN takes' : takes'[t].detection = None \/ takes'[t].model = None
=============================================================================
