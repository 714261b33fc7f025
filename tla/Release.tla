------------------------------- MODULE Release -------------------------------
(***************************************************************************)
(* From the key holder to the reader: what was built in Publish is put up  *)
(* on the host, where the worker of Offline finds it.                      *)
(***************************************************************************)
EXTENDS Publish, Offline

vars == <<publishing, offline>>

Init == PublishInit /\ OfflineInit

\* dist/ is copied to the host, once verify-build finds its files in order.
PutUp ==
  /\ FilesMatch(dist) /\ signing = None
  /\ Deploy(dist.tree)
  /\ UNCHANGED publishing

Next ==
  \/ PublishNext /\ UNCHANGED offline
  \/ OfflineNext /\ UNCHANGED publishing
  \/ PutUp

Spec == Init /\ [][Next]_vars
=============================================================================
