------------------------------ MODULE Location ------------------------------
(***************************************************************************)
(* What the position in a proof is worth (core/src/location.ts): the       *)
(* device declares it, and a transparency log may sign what an operator    *)
(* answered about it.  The statement travels beside the signed core, where *)
(* anybody can put it beside another one, change its members or remove it. *)
(***************************************************************************)
EXTENDS Naturals, FiniteSets

CONSTANTS
  Logs,       \* that sign corroborations
  Bodies,     \* what they sign: [method, result, atIsInstant, radius]
  Positions   \* location members of a core: [coordinates, level, evidence]

VARIABLES
  location,   \* of the signed core of this proof
  signers,    \* the logs followed that may speak about this proof
  stated,     \* what logs have signed: [by, about, body]
  attachment  \* beside the core: [body, sig], sig one of stated; or none

locationVars == <<location, signers, stated, attachment>>

Cores == {"this", "another"}
LEVELS == <<"none", "declared", "corroborated", "authenticated">>
rank(level) == CHOOSE i \in DOMAIN LEVELS : LEVELS[i] = level
\* One method that asks about a zone, one that does not, one nobody here knows.
Methods == {"zone", "number"}
Results == {"match", "no-match", "unknown"}
NoAttachment == [body |-> "none"]
NoSignature == [about |-> "nothing"]   \* one that does not parse, or that no log made

LocationInit ==
  /\ location \in Positions
  /\ signers \in SUBSET Logs
  /\ stated = {}
  /\ attachment = NoAttachment

\* A log (external) signs an operator's answer about a core.
State(log, core, body) ==
  /\ stated = {}
  /\ stated' = {[by |-> log, about |-> core, body |-> body]}
  /\ UNCHANGED <<location, signers, attachment>>

\* Whoever handles the file: puts a statement beside the core, changes a member of it,
\* spoils its signature.
Attach ==
  /\ attachment = NoAttachment
  /\ \E s \in stated : attachment' = [body |-> s.body, sig |-> s]
  /\ UNCHANGED <<location, signers, stated>>
Edit(body) ==
  /\ attachment # NoAttachment /\ body # attachment.body
  /\ attachment' = [attachment EXCEPT !.body = body]
  /\ UNCHANGED <<location, signers, stated>>
Spoil ==
  /\ attachment # NoAttachment
  /\ attachment' = [attachment EXCEPT !.sig = NoSignature]
  /\ UNCHANGED <<location, signers, stated>>
Strip ==
  /\ attachment # NoAttachment
  /\ attachment' = NoAttachment
  /\ UNCHANGED <<location, signers, stated>>

LocationNext ==
  \/ \E log \in Logs, core \in Cores, body \in Bodies : State(log, core, body)
  \/ \E body \in Bodies : Edit(body)
  \/ Attach \/ Spoil \/ Strip

-----------------------------------------------------------------------------
\* The signature is over this core hash and the whole body but itself.
Signed(a) ==
  \E s \in stated : a.sig = s /\ s.by \in signers /\ s.about = "this" /\ s.body = a.body
\* Fault: the signature is not bound to the core hash.
SignedAnywhere(a) == \E s \in stated : a.sig = s /\ s.by \in signers /\ s.body = a.body
VerifiedBy(a) == Signed(a)

Malformed(body) ==
  body.result \notin Results \/ ~body.atIsInstant \/ (body.method = "zone" /\ ~body.radius)

\* verifyLocationCorroboration.
verifyLocationCorroboration(a) ==
  CASE signers = {} \/ a.body.method \notin Methods -> "not evaluated"
    [] OTHER ->
       IF ~VerifiedBy(a) THEN "not verified"
       ELSE IF Malformed(a.body) THEN "evidence invalid" ELSE a.body.result

\* positionLevel: what is claimed, the level reached, and the labels.
Corroboration == IF attachment = NoAttachment THEN "none" ELSE verifyLocationCorroboration(attachment)
\* A word outside LEVELS, as "none", claims no more than any signed position.
Claimed ==
  IF location.level \in {LEVELS[i] : i \in DOMAIN LEVELS \ {1}} THEN location.level ELSE "declared"
Level ==
  IF ~location.coordinates THEN "none"
  ELSE IF Corroboration = "match" THEN "corroborated" ELSE "declared"
Labels ==
  IF ~location.coordinates
  THEN IF attachment = NoAttachment THEN {} ELSE {"corroboration not evaluated"}
  ELSE { IF Level = "corroborated" THEN "corroborated" ELSE "declared only" }
       \union (CASE Corroboration = "not evaluated" -> {"corroboration not evaluated"}
                 [] Corroboration = "not verified" -> {"corroboration not verified"}
                 [] Corroboration = "evidence invalid" -> {"corroboration evidence invalid"}
                 [] Corroboration = "no-match" -> {"contradicted"}
                 [] OTHER -> {})
       \union (IF location.evidence THEN {"evidence not evaluated"} ELSE {})
       \union (IF rank(Claimed) > rank(Level) THEN {"claimed above evidence"} ELSE {})

-----------------------------------------------------------------------------
\* What the logs that are followed said about this very core.
Heard == {s.body : s \in {t \in stated : t.by \in signers /\ t.about = "this"}}

\* A position is shown as corroborated, and as contradicted, only when a log that is
\* followed said so of this core, whatever was done to the attachment since; a log is
\* accused of evidence that does not parse only when it signed such evidence.  What a
\* followed log said and nobody touched is shown.  No claim of the device raises the
\* level: one above it is called so, and a word this version does not know is not
\* (location.ts, positionLevel and verifyLocationCorroboration).
LocationIsEarned ==
  /\ Level = "corroborated" => \E body \in Heard : body.result = "match"
  /\ "contradicted" \in Labels => \E body \in Heard : body.result = "no-match"
  /\ "corroboration evidence invalid" \in Labels => \E body \in Heard : Malformed(body)
  /\ \A s \in stated :
       ( /\ attachment = [body |-> s.body, sig |-> s] /\ s.body \in Heard
         /\ s.body.result = "match" /\ s.body.method \in Methods /\ ~Malformed(s.body)
         /\ location.coordinates )
       => Level = "corroborated"
  /\ location.coordinates /\ location.level = "authenticated" =>
       "claimed above evidence" \in Labels
  /\ "claimed above evidence" \in Labels =>
       location.level \in {"corroborated", "authenticated"}
=============================================================================
