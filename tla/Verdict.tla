------------------------------- MODULE Verdict -------------------------------
(***************************************************************************)
(* The verdict of vcap-verify-core over one proof: steps 5 to 8 of `judge` *)
(* (core/src/verify.ts) and the labels that explain its colour             *)
(* (core/src/ceiling.ts), as operators of a proof p and of what the reader *)
(* brings, o.                                                              *)
(*                                                                         *)
(* Bytes, signatures and certificates are abstracted to what the checks    *)
(* conclude about them.  Every slot of p that carries an attachment is a   *)
(* record whose field "is" says what the reader finds in it:               *)
(*   "absent"      the key is not in the proof                             *)
(*   "unreadable"  the key is there with a value of another JSON type      *)
(*   "bad"         it is read and a check on its bytes fails               *)
(*   "good"        the bytes check out; the other fields are its content   *)
(* An attestation may also be "swapped" (a chain about another key) and an *)
(* anchor "unrecorded" (a path to a root the chain does not hold).         *)
(*                                                                         *)
(* A reader o has: now, its clock; trusted, the logs it follows; tsaRoots, *)
(* whether it has any TSA root; chain, what its chain reader answers       *)
(* ("unread", "undated", "dated"); online, what the attestation status     *)
(* list answers; statement, what a log answers about the device key.       *)
(***************************************************************************)
EXTENDS Integers, FiniteSets

CONSTANTS
  Logs,         \* the transparency logs there are; a reader trusts some
  NoLog,        \* no log named
  None,         \* no instant: a clock not declared, a revocation not dated
  Undeclared,   \* a log that declares no app digests
  AppDigests,   \* [Logs -> set of app digests, or Undeclared]
  ChainSince,   \* notBefore and notAfter of the attestation chain
  ChainUntil,
  TsaUntil,     \* notAfter of the TSA's signing certificate
  TsaSkew       \* how far ahead of its clock a verifier lets a token be dated

ASSUME InstantAssumption ==
  /\ None \notin Nat
  /\ NoLog \notin Logs
  /\ ChainSince \in Nat /\ ChainUntil \in Nat /\ TsaUntil \in Nat
  /\ TsaSkew \in Nat

When(condition, labels) == IF condition THEN labels ELSE {}

(***************************************************************************)
(* Step 5: the received bytes against the core.  "recut" is a file that    *)
(* is only part of the original, "altered" anything else.  The sealed      *)
(* bytes are authentic even where their writer signed a presentation       *)
(* ("restyled"), a timing ("retimed") or both ("misdescribed") that is not *)
(* theirs.                                                                 *)
(***************************************************************************)
Originals == {"original", "restyled", "retimed", "misdescribed"}

ContentOutcome(p) ==
  CASE p.media \in Originals -> "authentic"
    [] p.media = "recut"     -> "verified_clip"
    [] p.media = "altered"   -> "tampered"

ContentLabels(p) ==
  When(p.media \in {"restyled", "misdescribed"}, {"presentation differs"})
    \cup When(p.media \in {"retimed", "misdescribed"}, {"timing differs"})

AbsentLabels(p) ==
  When(p.timestamp.is = "absent", {"no trusted time"})
    \cup When(p.anchor.is = "absent", {"not anchored"})
    \cup When(p.registry.is = "absent", {"key not in transparency log"})
    \cup When(p.integrity.is = "absent", {"integrity unevaluated"})

(***************************************************************************)
(* The registry attachment and the logs whose countersignatures count.     *)
(***************************************************************************)
RegistryRead(p) == p.registry.is \in {"bad", "good"}

RegistryOk(p, o) == p.registry.is = "good" /\ p.registry.log \in o.trusted

\* Fault: any trusted log may countersign for the log the proof names.
SignersOfAnyLog(p, o) == o.trusted

\* registrySigners: the log the attachment names, when trusted, and no other.
Signers(p, o) ==
  IF RegistryRead(p) /\ p.registry.log \in o.trusted
  THEN {p.registry.log} ELSE o.trusted

RegistryLabels(p, o) ==
  CASE ~RegistryRead(p) -> {}
    [] RegistryOk(p, o) ->
         When(p.clock # None /\ p.registry.head > p.clock,
              {"registered after the declared capture"})
    [] RegistryRead(p) /\ p.registry.log \in Logs \ o.trusted -> {"log not trusted"}
    [] OTHER -> {"registry evidence invalid", "key not in transparency log"}

(***************************************************************************)
(* The anchor: a path to a root, and the chain's word on that root.        *)
(***************************************************************************)
\* The time of the block, known only to a reader whose chain reader gives it.
Dated(p, o) == p.anchor.is = "good" /\ o.chain = "dated"

AnchorLabels(p, o) ==
  CASE p.anchor.is = "bad" \/ (p.anchor.is = "unrecorded" /\ o.chain # "unread")
         -> {"anchor evidence invalid", "not anchored"}
    [] p.anchor.is \in {"good", "unrecorded"} /\ o.chain = "unread"
         -> {"anchoring not verified"}
    [] OTHER -> {}

(***************************************************************************)
(* The timestamp token, which must agree with a dated anchor.              *)
(***************************************************************************)
TokenOk(p, o) ==
  /\ p.timestamp.is = "good"
  /\ o.tsaRoots
  /\ p.timestamp.gen <= o.now + TsaSkew
  /\ p.timestamp.gen <= TsaUntil
  /\ Dated(p, o) => p.timestamp.gen <= p.anchor.block /\ p.anchor.block <= TsaUntil

\* Fault: the tree head is not compared with the token.
TokenLabelsUnordered(p, o) ==
  CASE p.timestamp.is \in {"absent", "unreadable"} -> {}
    [] p.timestamp.is \in {"bad", "good"} /\ ~o.tsaRoots -> {"trusted time not evaluated"}
    [] TokenOk(p, o) -> {}
    [] OTHER -> {"timestamp evidence invalid", "no trusted time"}

TokenLabels(p, o) ==
  CASE p.timestamp.is \in {"absent", "unreadable"} -> {}
    [] p.timestamp.is \in {"bad", "good"} /\ ~o.tsaRoots -> {"trusted time not evaluated"}
    [] TokenOk(p, o) ->
         When(RegistryOk(p, o) /\ p.registry.head > p.timestamp.gen,
              {"registered after the trusted time"})
    [] OTHER -> {"timestamp evidence invalid", "no trusted time"}

ClockLabels(p) == When(p.clock = None, {"capture time not declared"})

(***************************************************************************)
(* Step 7: the instant certificate paths are validated at.                 *)
(***************************************************************************)
\* Fault: the device's word on the time counts as a witness's.
TrustedInstantOfDevice(p, o) == TokenOk(p, o) \/ Dated(p, o) \/ p.clock # None

TrustedInstant(p, o) == TokenOk(p, o) \/ Dated(p, o)

Instant(p, o) ==
  CASE TokenOk(p, o)                 -> p.timestamp.gen
    [] ~TokenOk(p, o) /\ Dated(p, o) -> p.anchor.block
    [] ~TokenOk(p, o) /\ ~Dated(p, o) /\ p.clock # None -> p.clock
    [] OTHER                         -> o.now

(***************************************************************************)
(* The integrity statement: only Play Integrity speaks, for Android only.  *)
(***************************************************************************)
IntegrityOk(p, o) == p.integrity.is = "good" /\ p.integrity.by \in Signers(p, o)

\* Fault: a statement speaks for whatever device it is relayed beside.
ProvesAnyIntegrity(source, platform) == source = "playIntegrity"

ProvesIntegrity(source, platform) == source = "playIntegrity" /\ platform = "android"

\* Fault: only a statement of failure is held against the device.
DeviceIntegrityUnlessFailed(p, o) ==
  ~(IntegrityOk(p, o) /\ p.integrity.verdict = "failed")

DeviceIntegrity(p, o) ==
  /\ IntegrityOk(p, o)
  /\ p.integrity.verdict = "hardware"
  /\ ProvesIntegrity(p.integrity.source, p.platform)

IntegrityLabels(p, o) ==
  CASE IntegrityOk(p, o) /\ p.integrity.verdict = "failed" -> {"integrity failed"}
    [] IntegrityOk(p, o) /\ p.integrity.verdict # "failed" -> {}
    [] p.integrity.is = "bad" ->
         {"integrity evidence invalid", "integrity unevaluated"}
    [] p.integrity.is = "good" /\ ~IntegrityOk(p, o) -> {"integrity unevaluated"}
    [] OTHER -> {}

(***************************************************************************)
(* The revocation of the attestation chain, from the frozen snapshot and   *)
(* the online list: "revoked" from either is the answer.                   *)
(***************************************************************************)
FrozenState(p, o) ==
  IF p.status.is = "good" /\ p.status.by \in Signers(p, o)
  THEN p.status.state ELSE "unasked"

\* Fault: the snapshot, when there is one, is the whole answer.
ChainRevocationFrozenFirst(p, o) ==
  CASE FrozenState(p, o) # "unasked" -> FrozenState(p, o)
    [] FrozenState(p, o) = "unasked" /\ o.online.state # "unasked" -> o.online.state
    [] OTHER -> "unchecked"

ChainRevocation(p, o) ==
  CASE "revoked" \in {FrozenState(p, o), o.online.state} -> "revoked"
    [] "revoked" \notin {FrozenState(p, o), o.online.state}
         /\ "clear" \in {FrozenState(p, o), o.online.state} -> "clear"
    [] OTHER -> "unchecked"

\* The entry that answers: the snapshot's before the list's.
RevokedEntry(p, o) == IF FrozenState(p, o) = "revoked" THEN p.status ELSE o.online

\* A revocation later than a trusted instant leaves the level standing, unless
\* it is for a compromise, which reaches back to the key's first use.
Survives(p, o) ==
  LET entry == RevokedEntry(p, o) IN
  /\ TrustedInstant(p, o)
  /\ entry.revoked_at # None
  /\ Instant(p, o) < entry.revoked_at
  /\ entry.reason \notin {"KEY_COMPROMISE", "CA_COMPROMISE"}

(***************************************************************************)
(* Step 8: what the evidence attests, and what revocation leaves of it.    *)
(***************************************************************************)
Rank(level) == CASE level = "none"                    -> 0
                 [] level \in {"tee", "secureEnclave"} -> 1
                 [] level = "strongbox"               -> 2

\* Every certificate of the attestation chain is within its validity at t.
ChainValidAt(t) == ChainSince <= t /\ t <= ChainUntil

Swapped(p) == p.platform = "android" /\ p.attestation.is = "swapped"

\* Fault: the path is validated at the verifier's clock.
ChainHoldsToday(p, o) ==
  p.platform = "android" /\ p.attestation.is = "good" /\ ChainValidAt(o.now)

ChainHolds(p, o) ==
  /\ p.platform = "android"
  /\ p.attestation.is = "good"
  /\ ChainValidAt(Instant(p, o))

Attested(p, o) ==
  CASE ChainHolds(p, o) -> p.attestation.level
    [] p.platform = "ios" /\ RegistryOk(p, o) /\ p.registry.hw = "secureEnclave"
         -> "secureEnclave"
    [] OTHER -> "none"

Withdrawn(p, o) ==
  /\ ChainHolds(p, o)
  /\ ChainRevocation(p, o) = "revoked"
  /\ ~Survives(p, o)

Proven(p, o) == IF Withdrawn(p, o) THEN "none" ELSE Attested(p, o)

AppLabels(p, o) ==
  LET declared == AppDigests[p.registry.log] IN
  CASE ~RegistryOk(p, o) -> {}
    [] RegistryOk(p, o) /\ (declared = Undeclared \/ p.attestation.apps = Undeclared)
         -> {"attestation app not checked"}
    [] OTHER -> When(p.attestation.apps \cap declared = {},
                     {"attestation app not admitted"})

ChainLabels(p, o) ==
  LET revocation == ChainRevocation(p, o) IN
  When(Withdrawn(p, o), {"attestation key revoked"})
    \cup When(revocation = "revoked" /\ Survives(p, o),
              {"attestation key revoked after the capture"})
    \cup When(revocation = "unchecked", {"chain revocation not checked"})
    \cup When(~ChainValidAt(o.now) /\ ~TrustedInstant(p, o),
              {"attestation chain expired, capture time not proven"})
    \cup AppLabels(p, o)

AttestationLabels(p, o) ==
  CASE ChainHolds(p, o) -> ChainLabels(p, o)
    [] ~ChainHolds(p, o) /\ p.platform = "android"
         /\ p.attestation.is \notin {"absent", "unreadable"}
         -> {"attestation evidence invalid"}
    [] p.platform = "ios" /\ Attested(p, o) = "secureEnclave" -> {"level from registry records"}
    [] OTHER -> {}

(***************************************************************************)
(* The device key's own standing, asked of the log at a trusted instant    *)
(* only, else at the verifier's clock.  The log applies its temporal rule  *)
(* before it signs; statement is what it knows, by its signer.             *)
(***************************************************************************)
\* Fault: the log is asked about whatever instant the paths are validated at.
AskedAtInstant(p, o) == Instant(p, o)

Asked(p, o) == IF TrustedInstant(p, o) THEN Instant(p, o) ELSE o.now

Statement(s, at) ==
  CASE s.from # None /\ (s.retroactive \/ at >= s.from)    -> "revoked"
    [] s.from # None /\ ~(s.retroactive \/ at >= s.from)   -> "valid"
    [] s.from = None                    -> IF s.known THEN "valid" ELSE "unknown"

KeyStatus(p, o) ==
  IF o.statement.by \in Signers(p, o)
  THEN Statement(o.statement, Asked(p, o)) ELSE "unknown"

KeyLabels(p, o) ==
  When(RegistryOk(p, o) /\ KeyStatus(p, o) = "revoked", {"key revoked"})
    \cup When(RegistryOk(p, o) /\ KeyStatus(p, o) = "unknown", {"revocation not checked"})

(***************************************************************************)
(* The level, the ceiling, and the labels that explain it.                 *)
(***************************************************************************)
Inconsistent(p, o) ==
  LET above(x, y) == Rank(x) > Rank(y)
      logged == IF RegistryOk(p, o) THEN {p.registry.hw} ELSE {} IN
  \/ ChainHolds(p, o) /\ above(p.claimed, Attested(p, o))
  \/ ChainHolds(p, o) /\ \E hw \in logged : above(hw, Attested(p, o))
  \/ p.platform = "ios" /\ \E hw \in logged : above(p.claimed, hw)

LevelLabels(p, o) ==
  When(Attested(p, o) = "none", {"origin not hardware-attested"})
    \cup When(Inconsistent(p, o), {"inconsistent claim"})
    \cup When(Proven(p, o) # "none" /\ ~DeviceIntegrity(p, o), {"integrity not proven"})

Labels(p, o) ==
  ContentLabels(p) \cup AbsentLabels(p) \cup RegistryLabels(p, o)
    \cup AnchorLabels(p, o) \cup IntegrityLabels(p, o) \cup TokenLabels(p, o)
    \cup ClockLabels(p) \cup AttestationLabels(p, o) \cup KeyLabels(p, o)
    \cup LevelLabels(p, o)

Outcome(p) == IF Swapped(p) THEN "tampered" ELSE ContentOutcome(p)

\* Fault: the label of a misdescribed timing holds nothing.
HoldsAmberWithoutTiming ==
  { "inconsistent claim", "chain revocation not checked", "revocation not checked",
    "attestation chain expired, capture time not proven",
    "registered after the declared capture", "registered after the trusted time",
    "capture time not declared", "attestation app not admitted",
    "attestation app not checked", "integrity failed", "integrity not proven",
    "presentation differs" }

HoldsAmber ==
  { "inconsistent claim", "chain revocation not checked", "revocation not checked",
    "attestation chain expired, capture time not proven",
    "registered after the declared capture", "registered after the trusted time",
    "capture time not declared", "attestation app not admitted",
    "attestation app not checked", "integrity failed", "integrity not proven",
    "presentation differs", "timing differs" }

\* The revocations that make a light red.
Revoked == {"key revoked", "attestation key revoked"}

IsRed(p, o) == Outcome(p) = "tampered" \/ Revoked \cap Labels(p, o) # {}

IsGreen(p, o) ==
  /\ Outcome(p) = "authentic"
  /\ TrustedInstant(p, o)
  /\ RegistryOk(p, o)
  /\ Proven(p, o) # "none"
  /\ (Revoked \cup HoldsAmber) \cap Labels(p, o) = {}

Ceiling(p, o) ==
  CASE IsGreen(p, o) -> "green"
    [] IsRed(p, o)   -> "red"
    [] OTHER         -> "amber"

(***************************************************************************)
(* ceiling.ts: the labels a surface prints beside an amber light, from a   *)
(* list of its own.                                                        *)
(***************************************************************************)
ExplainsAmber ==
  { "origin not hardware-attested", "key not in transparency log", "log not trusted",
    "capture time not declared", "registered after the declared capture",
    "registered after the trusted time", "revocation not checked",
    "chain revocation not checked",
    "attestation chain expired, capture time not proven",
    "attestation app not admitted", "attestation app not checked",
    "inconsistent claim", "integrity failed", "integrity not proven",
    "presentation differs", "timing differs" }

\* Fault: the instant of an amber light is not looked at.
AmberReasonsOfList(p, o) == ExplainsAmber \cap Labels(p, o)

\* "no trusted time" caps nothing beside a verified anchor.
AmberReasons(p, o) ==
  LET undated == When(~TrustedInstant(p, o), {"no trusted time"}) IN
  (ExplainsAmber \cup undated) \cap Labels(p, o)
=============================================================================
