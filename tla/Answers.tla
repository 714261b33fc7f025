------------------------------ MODULE Answers ------------------------------
(***************************************************************************)
(* What the verifier page promises the reader (web/src/main.ts): one file  *)
(* in question at a time, a first card from the signature alone, then one  *)
(* answer, which stands until the reader asks something else.  Nothing an  *)
(* earlier question left running ever speaks for the newer one.            *)
(***************************************************************************)
EXTENDS Naturals

CONSTANTS Files, NoFile

VARIABLES
  question,   \* how many times the page was asked; the newest question's number
  about,      \* the file it is about, or NoFile
  shown       \* the card on the page: of which question, and how much of it
vars == <<question, about, shown>>

Init ==
  /\ question = 0
  /\ about = NoFile
  /\ shown = [of |-> 0, is |-> "nothing"]

\* A question about no file (nothing is held yet) has no answer.
Ask(f) ==
  /\ question' = question + 1
  /\ about' = f
  /\ shown' = [of |-> question', is |-> "nothing"]

ShowSignature ==
  /\ about # NoFile
  /\ shown.is = "nothing"
  /\ shown' = [of |-> question, is |-> "signature"]
  /\ UNCHANGED <<question, about>>

Answer ==
  /\ about # NoFile
  /\ shown.is \in {"nothing", "signature"}
  /\ shown' = [of |-> question, is |-> "answer"]
  /\ UNCHANGED <<question, about>>

Next ==
  \/ \E f \in Files \cup {NoFile} : Ask(f)
  \/ ShowSignature
  \/ Answer

Spec == Init /\ [][Next]_vars
=============================================================================
