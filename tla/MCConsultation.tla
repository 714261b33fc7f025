--------------------------- MODULE MCConsultation ---------------------------
(***************************************************************************)
(* A small page for Consultation: one log and one authority shipped, one   *)
(* chain with three endpoints, the first of which is really of another.    *)
(***************************************************************************)
EXTENDS Consultation

CONSTANTS polygon, other, e1, e2, e3, ours, theirs, third

ServesMostly == [e \in Endpoints |-> IF e = e1 THEN other ELSE polygon]
Listed == [c \in Chains |-> IF c = polygon THEN <<e1, e2, e3>> ELSE <<e1>>]

Spelt(key, letters) == [name |-> [key |-> key, letters |-> letters], digest |-> TRUE]
Of(key) == Spelt(key, "lower")
ShippedSets == [p \in Panels |-> {Of(ours)}]
SomeDocuments ==
  { {Of(ours)}, {Of(theirs), Of(ours)}, {Spelt(ours, "upper")},
    {Of(theirs), [Of(third) EXCEPT !.digest = FALSE]} }

\* A bound on what is explored: the two panels and the chains do not look at one
\* another, so one of the three is worked on.
OneOfThree ==
  /\ mounted' # Panels
  /\ mounted' # {} => chainsOn' = {} /\ \A c \in Chains : contract'[c] = None
=============================================================================
