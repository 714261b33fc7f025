------------------------------ MODULE MCRelease ------------------------------
(***************************************************************************)
(* Two builds of one commit, one of the next, one of a dirty checkout.     *)
(***************************************************************************)
EXTENDS Release

CONSTANTS b1, rebuilt, b2, dirty, c1, c2, m1, m2

Commits == [b \in Builds |-> IF b = b2 THEN c2 ELSE c1]
Pinned == [b \in Builds |-> IF b = b2 THEN m2 ELSE m1]

\* Bounds on what is explored: nothing is signed or mirrored once somebody visits
\* or another build was put up, so that the key holder's steps and the reader's are
\* not multiplied; two builds are put up in turn, the next one ready at once.
Signing == signed # {} \/ touches # 0 \/ mirror.tree # Whole(b1)
Visiting == page # Closed \/ site # Whole(b1)
OneOfTwo ==
  /\ ~(Signing' /\ Visiting')
  /\ deploys' = 0 => site' = Whole(b1)
  /\ Visiting' => dist'.tree[Bundle] \in {b1, b2}
  /\ Visiting' /\ deploys = 0 => dist.tree = Whole(b2)
  /\ Visiting /\ dist.tree = site /\ deploys < MaxDeploys => dist' # dist
  /\ deploys = MaxDeploys => dist' = dist
=============================================================================
