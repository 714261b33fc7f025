------------------------------ MODULE Custody ------------------------------
(***************************************************************************)
(* The life of one sealed capture, and every verdict a reader can reach at *)
(* any point of it.  The device, whoever holds its key, seals once;        *)
(* witnesses mint evidence about it later, each dated by the witness's own *)
(* clock; logs and the attestation status list revoke; and anybody who     *)
(* holds the file replaces its trailer (core/src/trailer.ts), which can    *)
(* add, remove, spoil or relabel an attachment and cannot touch the core.  *)
(*                                                                         *)
(* Time is one counter of instants 1..MaxTime; 0 is "has not happened".    *)
(* No witness's signature is forged: a "good" attachment says something    *)
(* the witness saw.  A revoked key may seal: that is what a revocation is  *)
(* for.                                                                    *)
(***************************************************************************)
EXTENDS Verdict

CONSTANTS
  MaxTime,      \* bound: the last instant of a behaviour
  Platforms, Claims, Levels, Apps,   \* what a device may seal with
  Clocks,       \* device clocks a core may declare: instants, or None
  LeafLevels,   \* hardware levels a log may record at registration
  Statements,   \* [source, verdict] pairs a registry may relay
  KeyEnds,      \* [from, retroactive]: what a log may say of a key it revokes
  Reasons,      \* reasons of a chain revocation
  Freezers,     \* logs whose registry countersigns snapshots of the status list
  Slots,        \* attachments that a holder of the file strips or spoils
  Junk,         \* what a spoilt attachment becomes
  Descriptions, \* how the media a device seals may be described by its core
  Contents,     \* what may become of the media bytes
  Readers       \* the configurations that read the file

(***************************************************************************)
(* A reader is configured once and reads at some instant: the logs it      *)
(* trusts, whether it has TSA roots, what its chain reader gives, whether  *)
(* it asks the status list, and which log answers it about the key.        *)
(***************************************************************************)
AnyReader ==
  [ trusted : SUBSET Logs, tsaRoots : BOOLEAN,
    chain : {"unread", "undated", "dated"}, asksList : BOOLEAN,
    answeredBy : Logs \cup {NoLog} ]

ASSUME CustodyAssumption ==
  /\ MaxTime \in Nat \ {0}
  /\ Clocks \subseteq Nat \cup {None}
  /\ KeyEnds \subseteq [from : 1 .. MaxTime, retroactive : BOOLEAN]
  /\ Freezers \subseteq Logs
  /\ Junk \subseteq {"unreadable", "bad"}
  /\ Descriptions \subseteq Originals /\ Contents \subseteq {"recut", "altered"}
  /\ Slots \subseteq {"attestation", "registry", "anchor", "timestamp",
                      "integrity", "status"}
  /\ Readers \subseteq AnyReader

VARIABLES
  now,          \* the witnesses' common clock
  sealedAt,     \* when the core was signed
  logged,       \* [Logs -> when the log admitted the key]
  keyRevoked,   \* [Logs -> what the log says of the key's end]
  listed,       \* what the attestation status list says of the chain
  file          \* the proof as it travels
vars == <<now, sealedAt, logged, keyRevoked, listed, file>>

Times == 1 .. MaxTime
Absent == [is |-> "absent"]

NotRevoked == [from |-> None, retroactive |-> FALSE]
NotListed == [at |-> 0, revoked_at |-> None, reason |-> "none"]

Init ==
  /\ now = 1
  /\ sealedAt = 0
  /\ logged = [l \in Logs |-> 0]
  /\ keyRevoked = [l \in Logs |-> NotRevoked]
  /\ listed = NotListed
  /\ file = Absent

Tick ==
  /\ now < MaxTime
  /\ now' = now + 1
  /\ UNCHANGED <<sealedAt, logged, keyRevoked, listed, file>>

(***************************************************************************)
(* The device and the world around the file.                               *)
(***************************************************************************)
\* A log admits the key.
Register(l) ==
  /\ logged[l] = 0
  /\ logged' = [logged EXCEPT ![l] = now]
  /\ UNCHANGED <<now, sealedAt, keyRevoked, listed, file>>

\* The key signs a core: whatever clock it declares, its signing dates it.
Seal(platform, claimed, clock, level, apps, media) ==
  /\ sealedAt = 0
  /\ sealedAt' = now
  /\ file' = [ is |-> "sealed", platform |-> platform, claimed |-> claimed,
               clock |-> clock, media |-> media,
               attestation |-> IF platform = "android"
                               THEN [is |-> "good", level |-> level, apps |-> apps]
                               ELSE Absent,
               registry |-> Absent, anchor |-> Absent, timestamp |-> Absent,
               integrity |-> Absent, status |-> Absent ]
  /\ UNCHANGED <<now, logged, keyRevoked, listed>>

\* A log revokes the key from an instant, or for its whole life.
RevokeKey(l, end) ==
  /\ keyRevoked[l] = NotRevoked
  /\ logged[l] # 0
  /\ end.from <= now
  /\ keyRevoked' = [keyRevoked EXCEPT ![l] = end]
  /\ UNCHANGED <<now, sealedAt, logged, listed, file>>

\* The status list gains an entry for a certificate of the chain, which it
\* publishes until the certificate expires.
RevokeChain(revoked_at, reason) ==
  /\ listed = NotListed
  /\ now <= ChainUntil
  /\ listed' = [at |-> now, revoked_at |-> revoked_at, reason |-> reason]
  /\ UNCHANGED <<now, sealedAt, logged, keyRevoked, file>>

(***************************************************************************)
(* What replaceTrailer lets a holder of the file do.                       *)
(***************************************************************************)
Sealed == sealedAt # 0

Put(slot, value) ==
  /\ Sealed
  /\ file[slot] # value
  /\ file' = [file EXCEPT ![slot] = value]
  /\ UNCHANGED <<now, sealedAt, logged, keyRevoked, listed>>

AttachToken == Put("timestamp", [is |-> "good", gen |-> now])

AttachAnchor == Put("anchor", [is |-> "good", block |-> now])

AttachRegistry(l, hw) ==
  /\ logged[l] # 0
  /\ Put("registry", [is |-> "good", log |-> l, hw |-> hw, head |-> now])

AttachIntegrity(l, statement) ==
  Put("integrity", [is |-> "good", by |-> l, source |-> statement.source,
                    verdict |-> statement.verdict])

\* What the list publishes now about the chain: nothing once it has expired.
Published ==
  [ state |-> CASE now > ChainUntil                    -> "unlisted"
                [] now <= ChainUntil /\ listed.at # 0  -> "revoked"
                [] OTHER                               -> "clear",
    revoked_at |-> IF now <= ChainUntil THEN listed.revoked_at ELSE None,
    reason     |-> IF now <= ChainUntil THEN listed.reason ELSE "none" ]

\* A registry countersigns a snapshot of the list: unchecked where the list
\* says nothing of a certificate.
AttachStatus(l) ==
  Put("status", [ is |-> "good", by |-> l,
                  state |-> IF Published.state = "unlisted" THEN "unchecked"
                            ELSE Published.state,
                  revoked_at |-> Published.revoked_at, reason |-> Published.reason ])

Strip(slot) == Put(slot, Absent)

\* A value of another type, or bytes that do not check out: a registry
\* attachment that fails may still name a log.
Spoil(slot) ==
  \E is \in Junk, l \in Logs \cup {NoLog} :
    Put(slot, IF slot = "registry" THEN [is |-> is, log |-> l] ELSE [is |-> is])

\* The chain of another key beside this signature, or a path to another root.
Swap(slot) ==
  Put(slot, [is |-> IF slot = "attestation" THEN "swapped" ELSE "unrecorded"])

Transcode(media) == Put("media", media)

Next ==
  \/ Tick
  \/ \E l \in Logs : Register(l)
  \/ \E platform \in Platforms, claimed \in Claims, clock \in Clocks,
        level \in Levels, apps \in Apps, media \in Descriptions :
        Seal(platform, claimed, clock, level, apps, media)
  \/ \E l \in Logs, end \in KeyEnds : RevokeKey(l, end)
  \/ \E revoked_at \in Times \cup {None}, reason \in Reasons :
        RevokeChain(revoked_at, reason)
  \/ AttachToken
  \/ AttachAnchor
  \/ \E l \in Logs, hw \in LeafLevels : AttachRegistry(l, hw)
  \/ \E l \in Logs, statement \in Statements : AttachIntegrity(l, statement)
  \/ \E l \in Freezers : AttachStatus(l)
  \/ \E slot \in Slots : Strip(slot)
  \/ \E slot \in Slots : Spoil(slot)
  \/ \E slot \in Slots \cap {"attestation", "anchor"} : Swap(slot)
  \/ \E media \in Contents : Transcode(media)

Spec == Init /\ [][Next]_vars
\* The lookup returns null for a certificate the list has no entry for, and
\* that is read as clear, whether or not the list still speaks of it.
OnlineAnswer(r) ==
  CASE ~r.asksList -> [state |-> "unasked", revoked_at |-> None, reason |-> "none"]
    [] r.asksList /\ Published.state = "unlisted" -> [Published EXCEPT !.state = "clear"]
    [] OTHER -> Published

KeyStatement(l) ==
  IF l \in Logs
  THEN [by |-> l, known |-> logged[l] # 0, from |-> keyRevoked[l].from,
        retroactive |-> keyRevoked[l].retroactive]
  ELSE [by |-> l, known |-> FALSE, from |-> None, retroactive |-> FALSE]

Options(r) ==
  [ now |-> now, trusted |-> r.trusted, tsaRoots |-> r.tsaRoots, chain |-> r.chain,
    online |-> OnlineAnswer(r), statement |-> KeyStatement(r.answeredBy) ]

Light(r) == IF Sealed THEN Ceiling(file, Options(r)) ELSE "none"
Green(r) == Sealed /\ IsGreen(file, Options(r))
ReadAt(r) == Instant(file, Options(r))

(***************************************************************************)
(* Properties.                                                             *)
(***************************************************************************)
Attachment ==
  [ attestation |-> {Absent} \cup [is : Junk \cup {"swapped"}]
                      \cup [is : {"good"}, level : Levels, apps : Apps],
    registry    |-> {Absent} \cup [is : Junk, log : Logs \cup {NoLog}]
                      \cup [is : {"good"}, log : Logs, hw : LeafLevels, head : Times],
    anchor      |-> {Absent} \cup [is : Junk \cup {"unrecorded"}]
                      \cup [is : {"good"}, block : Times],
    timestamp   |-> {Absent} \cup [is : Junk] \cup [is : {"good"}, gen : Times],
    integrity   |-> {Absent} \cup [is : Junk]
                      \cup [is : {"good"}, by : Logs,
                            source : {s.source : s \in Statements},
                            verdict : {s.verdict : s \in Statements}],
    status      |-> {Absent} \cup [is : Junk]
                      \cup [is : {"good"}, by : Logs,
                            state : {"clear", "unchecked", "revoked"},
                            revoked_at : Times \cup {None}, reason : Reasons \cup {"none"}] ]

SealedFile ==
  [ is : {"sealed"}, platform : Platforms, claimed : Claims, clock : Clocks,
    media : Descriptions \cup Contents,
    attestation : Attachment.attestation, registry : Attachment.registry,
    anchor : Attachment.anchor, timestamp : Attachment.timestamp,
    integrity : Attachment.integrity, status : Attachment.status ]

\* The types of the variables: a file exists exactly when a core was sealed.
TypeOK ==
  /\ now \in Times
  /\ sealedAt \in 0 .. MaxTime
  /\ logged \in [Logs -> 0 .. MaxTime]
  /\ keyRevoked \in [Logs -> [from : Times \cup {None}, retroactive : BOOLEAN]]
  /\ listed \in [at : 0 .. MaxTime, revoked_at : Times \cup {None},
                 reason : Reasons \cup {"none"}]
  /\ IF Sealed THEN file \in SealedFile ELSE file = Absent

\* A green light dates the capture from outside the device: whatever clock the
\* core declares, the instant it was judged at is not before the signature and
\* not after the reading (verify.ts step 7, "Green needs one of the first two").
GreenInstantAfterSeal ==
  \A r \in Readers : Green(r) => sealedAt <= ReadAt(r) /\ ReadAt(r) <= now

\* A green light whose instant is a token's stands on a key the log had already
\* admitted at that instant (verify.ts, "Before the capture").
GreenLoggedBeforeToken ==
  \A r \in Readers :
    Green(r) /\ TokenOk(file, Options(r)) => logged[file.registry.log] <= ReadAt(r)

\* A core signed with a key its log had revoked is red to every reader whom that
\* log answers, whatever clock the core declares and whatever evidence was
\* minted or stripped since (verify.ts step 8, `asked`).
RevokedKeyIsRed ==
  Sealed => \A r \in Readers, l \in Logs :
    /\ RegistryOk(file, Options(r)) /\ file.registry.log = l /\ r.answeredBy = l
    /\ keyRevoked[l] # NotRevoked
    /\ keyRevoked[l].retroactive \/ keyRevoked[l].from <= sealedAt
    => Light(r) = "red"

\* A chain listed as compromised is red to every reader who holds a source that
\* says so, the snapshot or the list, whatever the other says and whenever the
\* capture was stamped (verify.ts, chainRevocation and `survives`).
CompromisedChainIsRed ==
  Sealed => \A r \in Readers :
    /\ ChainHolds(file, Options(r))
    /\ listed.reason \in {"KEY_COMPROMISE", "CA_COMPROMISE"}
    /\ \/ r.asksList /\ Published.state = "revoked"
       \/ FrozenState(file, Options(r)) = "revoked"
    => Light(r) = "red"

\* Red is never an accident of missing, foreign or spoilt evidence: bytes that
\* fit the core are red only if a trusted log revoked the key or the list the
\* chain, and with a trusted instant only if that revocation reaches it.
RedIsDeserved ==
  Sealed => \A r \in Readers :
    Light(r) = "red" /\ Outcome(file) # "tampered" =>
      \/ \E l \in r.trusted : /\ keyRevoked[l] # NotRevoked
                              /\ \/ keyRevoked[l].retroactive
                                 \/ keyRevoked[l].from <= Asked(file, Options(r))
      \/ /\ listed # NotListed
         /\ \/ ~TrustedInstant(file, Options(r))
            \/ listed.revoked_at = None
            \/ listed.revoked_at <= ReadAt(r)
            \/ listed.reason \in {"KEY_COMPROMISE", "CA_COMPROMISE"}

\* Red falls on every capture whose chain a source the reader holds calls
\* compromised, and on none that neither the list nor a trusted log gave up.
RedExactlyWhenDeserved == CompromisedChainIsRed /\ RedIsDeserved

\* Under a green light every countersignature that carried it, and the answer on
\* the key, come from the one log that admitted the key, however many logs the
\* reader trusts (verify.ts, registrySigners).
OneLogVouches ==
  \A r \in Readers :
    Green(r) => /\ file.integrity.by = file.registry.log
                /\ r.answeredBy = file.registry.log
                /\ ~r.asksList => file.status.by = file.registry.log

\* ceiling.ts says it cannot disagree with the ceiling it explains, and keeps a
\* list of its own beside the one of verify.ts that caps a light.  No label it
\* would print for an amber light stands beside a green one: a label that explains
\* and does not cap would be such a disagreement.
GreenHasNothingToExplain ==
  \A r \in Readers : Green(r) => AmberReasons(file, Options(r)) = {}

\* What verify.ts passes over in silence: an attachment of another JSON type, and
\* a token that a reader with no TSA root cannot evaluate.
PassedOver(p, r) ==
  \/ p.registry.is = "unreadable"
  \/ /\ ~TrustedInstant(p, Options(r))
     /\ \/ p.timestamp.is = "unreadable"
        \/ p.timestamp.is # "absent" /\ ~r.tsaRoots

\* "amber alone says nothing" (ceiling.ts): beside an amber light stand all the
\* labels that cap it, and on an authentic file at least one, unless what keeps it
\* from green is something verify.ts has no such label for.
AmberIsExplained ==
  Sealed => \A r \in Readers :
    LET shown == AmberReasons(file, Options(r)) IN
    Light(r) = "amber" =>
      /\ HoldsAmber \cap Labels(file, Options(r)) \subseteq shown
      /\ Outcome(file) = "authentic" /\ ~PassedOver(file, r) => shown # {}

\* The two lists kept by hand agree in both directions, under every light: what is
\* printed beside a light is what set it (ceiling.ts, ceilingLabels).
LightIsExplained == GreenHasNothingToExplain /\ AmberIsExplained

\* No evidence makes an iOS capture green: nothing that speaks for an Android
\* device can be relayed beside it (README.md, "iOS is amber at best").
IosIsAmberAtBest ==
  Sealed /\ file.platform = "ios" => \A r \in Readers : ~Green(r)

\* Removing or spoiling what a green light is made of never makes one: the
\* attestation, the registry proof and the integrity statement are conditions,
\* so a reader sees no greener file without them (verify.ts, deviceIntegrity).
Conditions == {"attestation", "registry", "integrity"}
LosingAConditionNeverGreens ==
  [][\A slot \in Slots \cap Conditions :
       Strip(slot) \/ Spoil(slot) => \A r \in Readers : Green(r)' => Green(r)]_vars

\* A capture read green stays green as the clock runs: the chain and the token
\* are validated at the proven instant, so the expiry of a certificate takes
\* nothing back (verify.ts step 7; android.ts, `clock`).
GreenOutlivesItsCertificates ==
  [][Tick => \A r \in Readers : Green(r) => Green(r)']_vars

(***************************************************************************)
(* What the documentation says and the code does not hold.                 *)
(***************************************************************************)
\* README.md: "A missing field yields a weaker verdict".  Deleting an attachment
\* never takes a file to green.
DeletingNeverGreens ==
  [][\A slot \in Slots : Strip(slot) => \A r \in Readers : Green(r)' => Green(r)]_vars
=============================================================================
