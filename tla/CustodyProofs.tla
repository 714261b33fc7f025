--------------------------- MODULE CustodyProofs ---------------------------
(***************************************************************************)
(* What Custody promises for every number of logs and readers, every       *)
(* length of the timeline and every set of levels, apps and clocks.        *)
(***************************************************************************)
EXTENDS Custody, TLAPS

(***************************************************************************)
(* The inductive invariant: each witness dated what it signed by its own   *)
(* clock, so a good token and a good anchor lie between the signature and  *)
(* now, and a good tree head between the key's admission and now.          *)
(***************************************************************************)
TokenDated ==
  file.timestamp.is = "good" => /\ file.timestamp.gen \in Times
                                /\ sealedAt <= file.timestamp.gen
                                /\ file.timestamp.gen <= now

AnchorDated ==
  file.anchor.is = "good" => /\ file.anchor.block \in Times
                             /\ sealedAt <= file.anchor.block
                             /\ file.anchor.block <= now

HeadDated ==
  file.registry.is = "good" => /\ file.registry.log \in Logs
                               /\ file.registry.head \in Times
                               /\ logged[file.registry.log] # 0
                               /\ logged[file.registry.log] <= file.registry.head
                               /\ file.registry.head <= now

\* No log admits a key, or ends one, by a clock ahead of the witnesses'.
LogsDated ==
  \A l \in Logs : /\ logged[l] <= now
                  /\ keyRevoked[l] = NotRevoked \/ keyRevoked[l].from \in Times

WitnessInv ==
  /\ TypeOK
  /\ LogsDated
  /\ Sealed => sealedAt <= now /\ TokenDated /\ AnchorDated /\ HeadDated

(***************************************************************************)
(* Types.                                                                  *)
(***************************************************************************)
LEMMA ConstantsOK ==
  /\ None \notin Nat /\ NoLog \notin Logs
  /\ ChainSince \in Nat /\ ChainUntil \in Nat /\ TsaUntil \in Nat
  /\ TsaSkew \in Nat
  /\ MaxTime \in Nat \ {0}
  /\ Clocks \subseteq Nat \cup {None}
  /\ KeyEnds \subseteq [from : 1 .. MaxTime, retroactive : BOOLEAN]
  /\ Freezers \subseteq Logs
  /\ Junk \subseteq {"unreadable", "bad"}
  /\ Slots \subseteq {"attestation", "registry", "anchor", "timestamp",
                      "integrity", "status"}
  /\ Readers \subseteq AnyReader
  BY InstantAssumption, CustodyAssumption

\* Replacing one attachment by a value of its type leaves a file of its type.
LEMMA PutType ==
  ASSUME file \in SealedFile, NEW slot, NEW value,
         \/ slot = "attestation" /\ value \in Attachment.attestation
         \/ slot = "registry" /\ value \in Attachment.registry
         \/ slot = "anchor" /\ value \in Attachment.anchor
         \/ slot = "timestamp" /\ value \in Attachment.timestamp
         \/ slot = "integrity" /\ value \in Attachment.integrity
         \/ slot = "status" /\ value \in Attachment.status
         \/ slot = "media" /\ value \in Contents
  PROVE  [file EXCEPT ![slot] = value] \in SealedFile
  <1> DEFINE A == Attachment.attestation
             R == Attachment.registry
             N == Attachment.anchor
             T == Attachment.timestamp
             I == Attachment.integrity
             S == Attachment.status
             M == Descriptions \cup Contents
  <1>1. SealedFile = [ is : {"sealed"}, platform : Platforms, claimed : Claims,
                       clock : Clocks, media : M, attestation : A, registry : R,
                       anchor : N, timestamp : T, integrity : I, status : S ]
    BY DEF SealedFile
  <1>2. value \in M \/ slot # "media"
    OBVIOUS
  <1> HIDE DEF A, R, N, T, I, S, M
  <1>3. \/ slot = "attestation" /\ value \in A
        \/ slot = "registry" /\ value \in R
        \/ slot = "anchor" /\ value \in N
        \/ slot = "timestamp" /\ value \in T
        \/ slot = "integrity" /\ value \in I
        \/ slot = "status" /\ value \in S
        \/ slot = "media" /\ value \in M
    BY <1>2 DEF A, R, N, T, I, S, M
  <1> QED
    BY <1>1, <1>3

LEMMA InitType == Init => WitnessInv
  BY ConstantsOK
     DEF Init, WitnessInv, TypeOK, LogsDated, Sealed, NotRevoked, NotListed, Times, Absent

\* What an attachment may be replaced by, at the current instant.
Fits(slot, value) ==
  \/ slot = "attestation" /\ value \in Attachment.attestation
  \/ /\ slot = "registry" /\ value \in Attachment.registry
     /\ value.is = "good" => /\ value.log \in Logs /\ value.head = now
                             /\ logged[value.log] # 0
  \/ /\ slot = "anchor" /\ value \in Attachment.anchor
     /\ value.is = "good" => value.block = now
  \/ /\ slot = "timestamp" /\ value \in Attachment.timestamp
     /\ value.is = "good" => value.gen = now
  \/ slot = "integrity" /\ value \in Attachment.integrity
  \/ slot = "status" /\ value \in Attachment.status
  \/ slot = "media" /\ value \in Contents

LEMMA PutInv ==
  ASSUME WitnessInv, NEW slot, NEW value, Put(slot, value), Fits(slot, value)
  PROVE  WitnessInv'
  <1>1. file \in SealedFile /\ Sealed /\ sealedAt \in 0 .. MaxTime /\ now \in Times
    BY DEF WitnessInv, TypeOK, Put
  <1>2. /\ file' = [file EXCEPT ![slot] = value]
        /\ UNCHANGED <<now, sealedAt, logged, keyRevoked, listed>>
    BY DEF Put
  <1>3. file' \in SealedFile
    BY <1>1, <1>2, PutType DEF Fits
  <1>4. TypeOK'
    BY <1>1, <1>2, <1>3 DEF WitnessInv, TypeOK, Sealed
  <1>5. /\ slot \in {"attestation", "registry", "anchor", "timestamp", "integrity",
                     "status", "media"}
        /\ DOMAIN file = {"is", "platform", "claimed", "clock", "media", "attestation",
                          "registry", "anchor", "timestamp", "integrity", "status"}
    BY <1>1 DEF Fits, SealedFile
  <1>6. /\ file'.timestamp = IF slot = "timestamp" THEN value ELSE file.timestamp
        /\ file'.anchor = IF slot = "anchor" THEN value ELSE file.anchor
        /\ file'.registry = IF slot = "registry" THEN value ELSE file.registry
    BY <1>2, <1>5
  <1>7. LogsDated /\ sealedAt <= now /\ TokenDated /\ AnchorDated /\ HeadDated
    BY <1>1 DEF WitnessInv
  <1>8. TokenDated'
    BY <1>1, <1>2, <1>5, <1>6, <1>7 DEF TokenDated, Fits, Times
  <1>9. AnchorDated'
    BY <1>1, <1>2, <1>5, <1>6, <1>7 DEF AnchorDated, Fits, Times
  <1>10. HeadDated'
    <2>1. CASE slot = "registry"
      BY <2>1, <1>1, <1>2, <1>6, <1>7 DEF HeadDated, Fits, Times, LogsDated
    <2>2. CASE slot # "registry"
      BY <2>2, <1>1, <1>2, <1>6, <1>7 DEF HeadDated
    <2> QED
      BY <2>1, <2>2
  <1>11. LogsDated'
    BY <1>2, <1>7 DEF LogsDated
  <1> QED
    BY <1>2, <1>4, <1>7, <1>8, <1>9, <1>10, <1>11 DEF WitnessInv

\* The steps that leave the file alone.
LEMMA TickInv == WitnessInv /\ Tick => WitnessInv'
  <1> SUFFICES ASSUME WitnessInv, Tick PROVE WitnessInv'
    OBVIOUS
  <1>1. /\ now \in Times /\ sealedAt \in 0 .. MaxTime /\ logged \in [Logs -> 0 .. MaxTime]
        /\ now' = now + 1 /\ now' \in Times /\ MaxTime \in Nat
        /\ UNCHANGED <<sealedAt, logged, keyRevoked, listed, file>>
    BY ConstantsOK DEF WitnessInv, TypeOK, Tick, Times
  <1>2. TypeOK' /\ LogsDated'
    BY <1>1 DEF WitnessInv, TypeOK, LogsDated, Sealed, Times
  <1>3. Sealed' => sealedAt' <= now' /\ TokenDated' /\ AnchorDated' /\ HeadDated'
    BY <1>1 DEF WitnessInv, Sealed, TokenDated, AnchorDated, HeadDated, Times
  <1> QED
    BY <1>2, <1>3 DEF WitnessInv

LEMMA RegisterInv == ASSUME WitnessInv, NEW l \in Logs, Register(l) PROVE WitnessInv'
  <1>1. /\ now \in Times /\ logged \in [Logs -> 0 .. MaxTime] /\ logged[l] = 0
        /\ logged' = [logged EXCEPT ![l] = now] /\ MaxTime \in Nat
        /\ UNCHANGED <<now, sealedAt, keyRevoked, listed, file>>
    BY ConstantsOK DEF WitnessInv, TypeOK, Register
  <1>2. TypeOK' /\ LogsDated'
    BY <1>1 DEF WitnessInv, TypeOK, LogsDated, Sealed, Times
  <1>3. ASSUME Sealed PROVE HeadDated'
    BY <1>1, <1>3 DEF WitnessInv, HeadDated
  <1> QED
    BY <1>1, <1>2, <1>3 DEF WitnessInv, Sealed, TokenDated, AnchorDated

LEMMA SealInv ==
  ASSUME WitnessInv, NEW platform \in Platforms, NEW claimed \in Claims,
         NEW clock \in Clocks, NEW level \in Levels, NEW apps \in Apps,
         NEW media \in Descriptions, Seal(platform, claimed, clock, level, apps, media)
  PROVE  WitnessInv'
  <1>1. now \in Times /\ MaxTime \in Nat
    BY ConstantsOK DEF WitnessInv, TypeOK
  <1>2. file' \in SealedFile
    BY DEF Seal, SealedFile, Attachment, Absent
  <1>3. TypeOK' /\ LogsDated' /\ sealedAt' = now /\ now' = now
    BY <1>1, <1>2 DEF Seal, WitnessInv, TypeOK, LogsDated, Sealed, Times
  <1>4. TokenDated' /\ AnchorDated' /\ HeadDated'
    BY DEF Seal, TokenDated, AnchorDated, HeadDated, Absent
  <1> QED
    BY <1>1, <1>3, <1>4 DEF WitnessInv, Times

LEMMA RevokeKeyInv ==
  ASSUME WitnessInv, NEW l \in Logs, NEW end \in KeyEnds, RevokeKey(l, end)
  PROVE  WitnessInv'
  <1>1. end \in [from : Times, retroactive : BOOLEAN]
    BY ConstantsOK DEF Times
  <1>2. TypeOK' /\ LogsDated'
    <2>1. /\ keyRevoked \in [Logs -> [from : Times \cup {None}, retroactive : BOOLEAN]]
          /\ keyRevoked' = [keyRevoked EXCEPT ![l] = end]
          /\ UNCHANGED <<now, sealedAt, logged, listed, file>>
      BY DEF WitnessInv, TypeOK, RevokeKey
    <2>2. keyRevoked' \in [Logs -> [from : Times \cup {None}, retroactive : BOOLEAN]]
      BY <1>1, <2>1
    <2>3. \A k \in Logs : keyRevoked'[k] = NotRevoked \/ keyRevoked'[k].from \in Times
      BY <1>1, <2>1 DEF WitnessInv, LogsDated
    <2> QED
      BY <2>1, <2>2, <2>3 DEF WitnessInv, TypeOK, LogsDated, Sealed, Times
  <1> QED
    BY <1>2 DEF RevokeKey, WitnessInv, Sealed, TokenDated, AnchorDated, HeadDated

LEMMA RevokeChainInv ==
  ASSUME WitnessInv, NEW revoked_at \in Times \cup {None}, NEW reason \in Reasons,
         RevokeChain(revoked_at, reason)
  PROVE  WitnessInv'
  <1>1. TypeOK'
    BY DEF RevokeChain, WitnessInv, TypeOK, Sealed, Times
  <1> QED
    BY <1>1 DEF RevokeChain, WitnessInv, LogsDated, Sealed, TokenDated, AnchorDated, HeadDated

\* The steps that replace an attachment.
LEMMA AttachInv ==
  ASSUME WitnessInv,
         \/ AttachToken
         \/ AttachAnchor
         \/ \E l \in Logs, hw \in LeafLevels : AttachRegistry(l, hw)
         \/ \E l \in Logs, statement \in Statements : AttachIntegrity(l, statement)
         \/ \E l \in Freezers : AttachStatus(l)
  PROVE  WitnessInv'
  <1>1. now \in Times
    BY DEF WitnessInv, TypeOK
  <1>2. CASE AttachToken
    <2>1. Fits("timestamp", [is |-> "good", gen |-> now])
      BY <1>1 DEF Fits, Attachment
    <2> QED
      BY <1>2, <2>1, PutInv DEF AttachToken
  <1>3. CASE AttachAnchor
    <2>1. Fits("anchor", [is |-> "good", block |-> now])
      BY <1>1 DEF Fits, Attachment
    <2> QED
      BY <1>3, <2>1, PutInv DEF AttachAnchor
  <1>4. ASSUME NEW l \in Logs, NEW hw \in LeafLevels, AttachRegistry(l, hw)
        PROVE  WitnessInv'
    <2>1. Fits("registry", [is |-> "good", log |-> l, hw |-> hw, head |-> now])
      BY <1>1, <1>4 DEF Fits, Attachment, AttachRegistry
    <2> QED
      BY <1>4, <2>1, PutInv DEF AttachRegistry
  <1>5. ASSUME NEW l \in Logs, NEW statement \in Statements, AttachIntegrity(l, statement)
        PROVE  WitnessInv'
    <2>1. Fits("integrity", [is |-> "good", by |-> l, source |-> statement.source,
                             verdict |-> statement.verdict])
      BY DEF Fits, Attachment
    <2> QED
      BY <1>5, <2>1, PutInv DEF AttachIntegrity
  <1>6. ASSUME NEW l \in Freezers, AttachStatus(l) PROVE WitnessInv'
    <2> DEFINE state == IF Published.state = "unlisted" THEN "unchecked"
                        ELSE Published.state
    <2>1. /\ state \in {"clear", "unchecked", "revoked"}
          /\ Published.revoked_at \in Times \cup {None}
          /\ Published.reason \in Reasons \cup {"none"}
      BY DEF Published, WitnessInv, TypeOK
    <2>2. l \in Logs
      BY ConstantsOK
    <2> HIDE DEF state
    <2>3. Fits("status", [is |-> "good", by |-> l, state |-> state,
                          revoked_at |-> Published.revoked_at,
                          reason |-> Published.reason])
      BY <2>1, <2>2 DEF Fits, Attachment
    <2> QED
      BY <1>6, <2>3, PutInv DEF AttachStatus, state
  <1> QED
    BY <1>2, <1>3, <1>4, <1>5, <1>6

LEMMA SpoilInv ==
  ASSUME WitnessInv,
         \/ \E slot \in Slots : Strip(slot) \/ Spoil(slot)
         \/ \E slot \in Slots \cap {"attestation", "anchor"} : Swap(slot)
         \/ \E media \in Contents : Transcode(media)
  PROVE  WitnessInv'
  <1>1. ASSUME NEW slot \in Slots, Strip(slot) PROVE WitnessInv'
    <2>1. Fits(slot, Absent)
      BY ConstantsOK DEF Fits, Attachment, Absent
    <2> QED
      BY <1>1, <2>1, PutInv DEF Strip
  <1>2. ASSUME NEW slot \in Slots, Spoil(slot) PROVE WitnessInv'
    <2>1. PICK is \in Junk, l \in Logs \cup {NoLog} :
            Put(slot, IF slot = "registry" THEN [is |-> is, log |-> l] ELSE [is |-> is])
      BY <1>2 DEF Spoil
    <2>2. is # "good"
      BY ConstantsOK
    <2>3. CASE slot = "registry"
      <3>1. Fits("registry", [is |-> is, log |-> l])
        BY <2>2 DEF Fits, Attachment
      <3> QED
        BY <2>1, <2>3, <3>1, PutInv
    <2>4. CASE slot # "registry"
      <3>1. Fits(slot, [is |-> is])
        BY <2>2, <2>4, ConstantsOK DEF Fits, Attachment
      <3> QED
        BY <2>1, <2>4, <3>1, PutInv
    <2> QED
      BY <2>3, <2>4
  <1>3. ASSUME NEW slot \in {"attestation", "anchor"}, Swap(slot) PROVE WitnessInv'
    <2>1. Fits(slot, [is |-> IF slot = "attestation" THEN "swapped" ELSE "unrecorded"])
      BY DEF Fits, Attachment
    <2> QED
      BY <1>3, <2>1, PutInv DEF Swap
  <1>4. ASSUME NEW media \in Contents, Transcode(media) PROVE WitnessInv'
    BY <1>4, PutInv DEF Transcode, Fits
  <1> QED
    BY <1>1, <1>2, <1>3, <1>4

LEMMA WitnessStep == WitnessInv /\ [Next]_vars => WitnessInv'
  <1>1. ASSUME WitnessInv, Next PROVE WitnessInv'
    BY <1>1, TickInv, RegisterInv, SealInv, RevokeKeyInv, RevokeChainInv, AttachInv,
       SpoilInv DEF Next
  <1>2. ASSUME WitnessInv, UNCHANGED vars PROVE WitnessInv'
    BY <1>2 DEF vars, WitnessInv, TypeOK, LogsDated, Sealed, TokenDated, AnchorDated,
                HeadDated
  <1> QED
    BY <1>1, <1>2

LEMMA Witnessed == Spec => []WitnessInv
  BY InitType, WitnessStep, PTL DEF Spec

\* Every state is well typed: what holders of the file do to an attachment, and
\* what the list publishes into a snapshot, stays within the format.
THEOREM TypeCorrect == Spec => []TypeOK
  <1>1. WitnessInv => TypeOK
    BY DEF WitnessInv
  <1> QED
    BY <1>1, Witnessed, PTL

(***************************************************************************)
(* What a light tells.                                                     *)
(***************************************************************************)
LEMMA GreenMeans ==
  ASSUME NEW r \in Readers, Green(r)
  PROVE  /\ Sealed
         /\ Outcome(file) = "authentic"
         /\ Proven(file, Options(r)) # "none"
         /\ RegistryOk(file, Options(r))
         /\ TrustedInstant(file, Options(r))
         /\ HoldsAmber \cap Labels(file, Options(r)) = {}
         /\ {"key revoked", "attestation key revoked"} \cap Labels(file, Options(r)) = {}
  BY DEF Green, IsGreen, Revoked

\* A trusted instant is a witness's, so it lies between the signature and now.
LEMMA TrustedInstantBounds ==
  ASSUME WitnessInv, Sealed, NEW r \in Readers, TrustedInstant(file, Options(r))
  PROVE  /\ ReadAt(r) \in Times
         /\ sealedAt <= ReadAt(r) /\ ReadAt(r) <= now
         /\ TokenOk(file, Options(r)) => ReadAt(r) = file.timestamp.gen
  <1>1. CASE TokenOk(file, Options(r))
    BY <1>1 DEF WitnessInv, TokenDated, TokenOk, ReadAt, Instant
  <1>2. CASE ~TokenOk(file, Options(r))
    <2>1. Dated(file, Options(r)) /\ ReadAt(r) = file.anchor.block
      BY <1>2 DEF TrustedInstant, ReadAt, Instant
    <2> QED
      BY <1>2, <2>1 DEF WitnessInv, AnchorDated, Dated
  <1> QED
    BY <1>1, <1>2

\* Whatever clock a core declares, a green light was judged at an instant that
\* is not before its signature and not after the reading.
THEOREM GreenIsDatedByWitnesses == Spec => []GreenInstantAfterSeal
  <1>1. WitnessInv => GreenInstantAfterSeal
    BY GreenMeans, TrustedInstantBounds DEF GreenInstantAfterSeal
  <1> QED
    BY <1>1, Witnessed, PTL

\* Under a token, a green light stands on a key admitted to its log before the
\* instant the token proves.
THEOREM GreenKeysPrecedeTokens == Spec => []GreenLoggedBeforeToken
  <1>1. ASSUME WitnessInv, NEW r \in Readers, Green(r), TokenOk(file, Options(r))
        PROVE  logged[file.registry.log] <= ReadAt(r)
    <2>1. /\ Sealed /\ RegistryOk(file, Options(r))
          /\ HoldsAmber \cap Labels(file, Options(r)) = {}
          /\ ReadAt(r) = file.timestamp.gen
      BY <1>1, GreenMeans, TrustedInstantBounds
    <2>2. "registered after the trusted time" \notin TokenLabels(file, Options(r))
      BY <2>1 DEF HoldsAmber, Labels
    <2>3. ~(file.registry.head > file.timestamp.gen)
      BY <1>1, <2>1, <2>2 DEF TokenLabels, When, TokenOk
    <2>4. /\ logged[file.registry.log] <= file.registry.head
          /\ file.registry.head \in Times /\ file.timestamp.gen \in Times
          /\ logged[file.registry.log] \in 0 .. MaxTime
      BY <1>1, <2>1 DEF WitnessInv, TypeOK, HeadDated, TokenDated, RegistryOk, TokenOk
    <2> QED
      BY <2>1, <2>3, <2>4, ConstantsOK DEF Times
  <1>2. WitnessInv => GreenLoggedBeforeToken
    BY <1>1 DEF GreenLoggedBeforeToken
  <1> QED
    BY <1>2, Witnessed, PTL

\* A core signed after its log revoked the key is red to every reader that log
\* answers: the log is asked at an instant no earlier than the signature.
THEOREM RevokedKeysAreRed == Spec => []RevokedKeyIsRed
  <1>1. ASSUME WitnessInv, Sealed, NEW r \in Readers, NEW l \in Logs,
               RegistryOk(file, Options(r)), file.registry.log = l, r.answeredBy = l,
               keyRevoked[l] # NotRevoked,
               keyRevoked[l].retroactive \/ keyRevoked[l].from <= sealedAt
        PROVE  Light(r) = "red"
    <2> DEFINE o == Options(r)
               at == Asked(file, o)
    <2>1. at \in Times /\ sealedAt <= at
      <3>1. CASE TrustedInstant(file, o)
        BY <1>1, <3>1, TrustedInstantBounds DEF Asked, ReadAt
      <3>2. CASE ~TrustedInstant(file, o)
        BY <1>1, <3>2 DEF Asked, Options, WitnessInv, TypeOK
      <3> QED
        BY <3>1, <3>2
    <2>2. /\ o.statement = [by |-> l, known |-> logged[l] # 0, from |-> keyRevoked[l].from,
                            retroactive |-> keyRevoked[l].retroactive]
          /\ l \in Signers(file, o)
      BY <1>1 DEF Options, KeyStatement, Signers, RegistryOk, RegistryRead
    <2>3. keyRevoked[l].from \in Times /\ sealedAt \in 0 .. MaxTime
      BY <1>1 DEF WitnessInv, TypeOK, LogsDated
    <2>4. keyRevoked[l].from # None
      BY <2>3, ConstantsOK DEF Times
    <2>5. keyRevoked[l].retroactive \/ at >= keyRevoked[l].from
      BY <1>1, <2>1, <2>3, ConstantsOK DEF Times
    <2> HIDE DEF at
    <2>6. Statement(o.statement, at) = "revoked"
      BY <2>2, <2>4, <2>5 DEF Statement
    <2>7. KeyStatus(file, o) = "revoked"
      BY <2>2, <2>6 DEF KeyStatus, at
    <2>8. "key revoked" \in Labels(file, o)
      BY <1>1, <2>7 DEF Labels, KeyLabels, When
    <2> QED
      BY <1>1, <2>8 DEF Light, Ceiling, IsRed, IsGreen, Revoked
  <1>2. WitnessInv => RevokedKeyIsRed
    BY <1>1 DEF RevokedKeyIsRed
  <1> QED
    BY <1>2, Witnessed, PTL

(***************************************************************************)
(* What a green light is made of.                                          *)
(***************************************************************************)
LEMMA GreenIsIntact ==
  ASSUME NEW r \in Readers, Green(r)
  PROVE  DeviceIntegrity(file, Options(r))
  <1>1. "integrity not proven" \notin LevelLabels(file, Options(r))
    BY GreenMeans DEF HoldsAmber, Labels
  <1> QED
    BY <1>1, GreenMeans DEF LevelLabels, When

LEMMA GreenKeyAnswered ==
  ASSUME NEW r \in Readers, Green(r)
  PROVE  KeyStatus(file, Options(r)) \notin {"unknown", "revoked"}
  <1>1. {"key revoked", "revocation not checked"} \cap KeyLabels(file, Options(r)) = {}
    BY GreenMeans DEF HoldsAmber, Labels
  <1> QED
    BY <1>1, GreenMeans DEF KeyLabels, When

\* Only Android devices have a green light, and it rests on their chain.
LEMMA GreenIsAttested ==
  ASSUME NEW r \in Readers, Green(r)
  PROVE  /\ file.platform = "android"
         /\ ChainHolds(file, Options(r))
         /\ ChainRevocation(file, Options(r)) # "unchecked"
  <1>1. file.platform = "android"
    BY GreenIsIntact DEF DeviceIntegrity, ProvesIntegrity
  <1>2. ChainHolds(file, Options(r))
    BY <1>1, GreenMeans DEF Proven, Attested, Withdrawn
  <1>3. "chain revocation not checked" \notin ChainLabels(file, Options(r))
    <2>1. AttestationLabels(file, Options(r)) = ChainLabels(file, Options(r))
      BY <1>1, <1>2 DEF AttestationLabels
    <2> QED
      BY <2>1, GreenMeans DEF HoldsAmber, Labels
  <1> QED
    BY <1>1, <1>2, <1>3 DEF ChainLabels, When

LEMMA GreenSigner ==
  ASSUME NEW r \in Readers, Green(r)
  PROVE  Signers(file, Options(r)) = {file.registry.log}
  BY GreenMeans DEF Signers, RegistryOk, RegistryRead

\* No iOS capture is green to any reader.
THEOREM IosStaysAmber == Spec => []IosIsAmberAtBest
  <1>1. IosIsAmberAtBest
    BY GreenIsAttested DEF IosIsAmberAtBest
  <1> QED
    BY <1>1, PTL

\* However many logs a reader follows, one log carries a green light.
THEOREM OneLogCarriesGreen == Spec => []OneLogVouches
  <1>1. ASSUME NEW r \in Readers, Green(r)
        PROVE  /\ file.integrity.by = file.registry.log
               /\ r.answeredBy = file.registry.log
               /\ ~r.asksList => file.status.by = file.registry.log
    <2>1. file.integrity.by = file.registry.log
      BY <1>1, GreenIsIntact, GreenSigner DEF DeviceIntegrity, IntegrityOk
    <2>2. Options(r).statement.by = file.registry.log
      BY <1>1, GreenKeyAnswered, GreenSigner DEF KeyStatus
    <2>3. r.answeredBy = file.registry.log
      BY <2>2 DEF Options, KeyStatement
    <2>4. ASSUME ~r.asksList PROVE file.status.by = file.registry.log
      <3>1. Options(r).online.state = "unasked"
        BY <2>4 DEF Options, OnlineAnswer
      <3>2. FrozenState(file, Options(r)) # "unasked"
        BY <1>1, <3>1, GreenIsAttested DEF ChainRevocation
      <3> QED
        BY <1>1, <3>2, GreenSigner DEF FrozenState
    <2> QED
      BY <2>1, <2>3, <2>4
  <1>2. OneLogVouches
    BY <1>1 DEF OneLogVouches
  <1> QED
    BY <1>2, PTL

(***************************************************************************)
(* Time and loss.                                                          *)
(***************************************************************************)
\* Removing or spoiling a condition of the green light makes no file greener.
THEOREM LossNeverGreens == Spec => LosingAConditionNeverGreens
  <1>1. ASSUME WitnessInv, NEW slot \in Slots \cap Conditions, Strip(slot) \/ Spoil(slot),
               NEW r \in Readers, Green(r)'
        PROVE  FALSE
    <2>1. PICK value : /\ Put(slot, value) /\ value.is \in {"absent", "unreadable", "bad"}
      <3>1. CASE Strip(slot)
        BY <3>1 DEF Strip, Absent
      <3>2. CASE Spoil(slot)
        BY <3>2, ConstantsOK DEF Spoil
      <3> QED
        BY <1>1, <3>1, <3>2
    <2>2. file \in SealedFile /\ file' = [file EXCEPT ![slot] = value]
      BY <1>1, <2>1 DEF Put, WitnessInv, TypeOK
    <2>3. file'[slot].is # "good"
      BY <2>1, <2>2, <1>1 DEF SealedFile, Conditions
    <2>4. IsGreen(file', Options(r)')
      BY <1>1 DEF Green
    <2>5. /\ RegistryOk(file', Options(r)')
          /\ Proven(file', Options(r)') # "none"
          /\ "integrity not proven" \notin LevelLabels(file', Options(r)')
      BY <2>4 DEF IsGreen, Labels, HoldsAmber
    <2>6. DeviceIntegrity(file', Options(r)')
      BY <2>5 DEF LevelLabels, When
    <2>7. ChainHolds(file', Options(r)')
      BY <2>5, <2>6 DEF Proven, Attested, Withdrawn, DeviceIntegrity, ProvesIntegrity
    <2> QED
      BY <1>1, <2>3, <2>5, <2>6, <2>7
         DEF Conditions, RegistryOk, DeviceIntegrity, IntegrityOk, ChainHolds
  <1>2. WitnessInv /\ [Next]_vars =>
          [\A slot \in Slots \cap Conditions :
             Strip(slot) \/ Spoil(slot) => \A r \in Readers : Green(r)' => Green(r)]_vars
    BY <1>1
  <1> QED
    BY <1>2, Witnessed, PTL DEF Spec, LosingAConditionNeverGreens

\* Two readings of one proof, under one configuration, at two clocks: what does
\* not depend on the clock once a witness dates the capture, nor once a token is
\* no more ahead of either clock than a verifier allows.
Alike(o1, o2) ==
  /\ o2.trusted = o1.trusted /\ o2.tsaRoots = o1.tsaRoots /\ o2.chain = o1.chain
  /\ o2.statement = o1.statement

NotAhead(p, o) == p.timestamp.is = "good" => p.timestamp.gen <= o.now + TsaSkew

LEMMA ClockIndependent ==
  ASSUME NEW p, NEW o1, NEW o2, Alike(o1, o2), TrustedInstant(p, o1),
         NotAhead(p, o1), NotAhead(p, o2)
  PROVE  /\ TrustedInstant(p, o2) /\ Instant(p, o2) = Instant(p, o1)
         /\ RegistryOk(p, o2) <=> RegistryOk(p, o1)
         /\ FrozenState(p, o2) = FrozenState(p, o1)
         /\ ChainHolds(p, o2) <=> ChainHolds(p, o1)
         /\ Attested(p, o2) = Attested(p, o1)
         /\ RegistryLabels(p, o2) = RegistryLabels(p, o1)
         /\ AnchorLabels(p, o2) = AnchorLabels(p, o1)
         /\ IntegrityLabels(p, o2) = IntegrityLabels(p, o1)
         /\ TokenLabels(p, o2) = TokenLabels(p, o1)
         /\ KeyLabels(p, o2) = KeyLabels(p, o1)
         /\ DeviceIntegrity(p, o2) <=> DeviceIntegrity(p, o1)
         /\ Inconsistent(p, o2) <=> Inconsistent(p, o1)
         /\ AppLabels(p, o2) = AppLabels(p, o1)
  <1>1. /\ TokenOk(p, o2) <=> TokenOk(p, o1)
        /\ Dated(p, o2) <=> Dated(p, o1)
        /\ RegistryOk(p, o2) <=> RegistryOk(p, o1)
        /\ Signers(p, o2) = Signers(p, o1)
    BY DEF Alike, NotAhead, TokenOk, Dated, RegistryOk, Signers
  <1>2. /\ TrustedInstant(p, o2) /\ Instant(p, o2) = Instant(p, o1)
        /\ Asked(p, o2) = Asked(p, o1)
    BY <1>1 DEF TrustedInstant, Instant, Asked
  <1>3. FrozenState(p, o2) = FrozenState(p, o1)
    BY <1>1 DEF FrozenState
  <1>4. ChainHolds(p, o2) <=> ChainHolds(p, o1)
    BY <1>2 DEF ChainHolds
  <1>5. Attested(p, o2) = Attested(p, o1)
    BY <1>1, <1>4 DEF Attested
  <1>6. RegistryLabels(p, o2) = RegistryLabels(p, o1)
    BY <1>1 DEF RegistryLabels, Alike
  <1>7. AnchorLabels(p, o2) = AnchorLabels(p, o1)
    BY DEF AnchorLabels, Alike
  <1>8. IntegrityOk(p, o2) <=> IntegrityOk(p, o1)
    BY <1>1 DEF IntegrityOk
  <1>9. /\ IntegrityLabels(p, o2) = IntegrityLabels(p, o1)
        /\ DeviceIntegrity(p, o2) <=> DeviceIntegrity(p, o1)
    BY <1>8 DEF IntegrityLabels, DeviceIntegrity
  <1>10. TokenLabels(p, o2) = TokenLabels(p, o1)
    BY <1>1 DEF TokenLabels, Alike
  <1>11. KeyStatus(p, o2) = KeyStatus(p, o1)
    BY <1>1, <1>2 DEF KeyStatus, Alike
  <1>12. KeyLabels(p, o2) = KeyLabels(p, o1)
    BY <1>1, <1>11 DEF KeyLabels
  <1>13. Inconsistent(p, o2) <=> Inconsistent(p, o1)
    BY <1>1, <1>4, <1>5 DEF Inconsistent
  <1>14. AppLabels(p, o2) = AppLabels(p, o1)
    BY <1>1 DEF AppLabels
  <1> QED
    BY <1>1, <1>2, <1>3, <1>4, <1>5, <1>6, <1>7, <1>9, <1>10, <1>12, <1>13, <1>14

\* The list may stop speaking of a chain as the clock runs, and says nothing new.
LEMMA ListFadesOnly ==
  ASSUME WitnessInv, Tick, NEW r \in Readers
  PROVE  \/ Options(r)'.online = Options(r).online
         \/ /\ Options(r)'.online.state = "clear"
            /\ Options(r).online.state \in {"clear", "revoked"}
  <1>1. /\ now \in Nat /\ now' = now + 1 /\ listed' = listed
    BY ConstantsOK DEF WitnessInv, TypeOK, Tick, Times
  <1>2. Options(r)'.online = OnlineAnswer(r)' /\ Options(r).online = OnlineAnswer(r)
    BY DEF Options
  <1>3. CASE ~r.asksList
    BY <1>2, <1>3 DEF OnlineAnswer
  <1>4. CASE r.asksList /\ now' <= ChainUntil
    <2>1. Published' = Published
      BY <1>1, <1>4, ConstantsOK DEF Published
    <2> QED
      BY <1>2, <2>1, <1>4 DEF OnlineAnswer
  <1>5. CASE r.asksList /\ ~(now' <= ChainUntil)
    <2>1. Published.state \in {"clear", "revoked", "unlisted"}
      BY DEF Published
    <2>2. OnlineAnswer(r).state \in {"clear", "revoked"}
      BY <1>5, <2>1 DEF OnlineAnswer, Published
    <2>3. Published'.state = "unlisted"
      BY <1>1, <1>5, ConstantsOK DEF Published
    <2>4. OnlineAnswer(r)'.state = "clear"
      BY <1>5, <2>3 DEF OnlineAnswer, Published
    <2> QED
      BY <1>2, <2>2, <2>4
  <1> QED
    BY <1>3, <1>4, <1>5

\* A green capture stays green while the clock runs past the expiry of every
\* certificate that carried it.
THEOREM GreenOutlives == Spec => GreenOutlivesItsCertificates
  <1>1. ASSUME WitnessInv, Tick, NEW r \in Readers, Green(r)
        PROVE  Green(r)'
    <2> DEFINE o == Options(r)
               x == Options(r)'
    <2>1. /\ Alike(o, x) /\ file' = file /\ Sealed'
      BY <1>1, GreenMeans DEF Alike, Options, KeyStatement, Tick, Sealed
    <2>2. \/ x.online = o.online
          \/ x.online.state = "clear" /\ o.online.state \in {"clear", "revoked"}
      BY <1>1, ListFadesOnly
    <2>3. /\ TrustedInstant(file, o) /\ ChainHolds(file, o)
          /\ ChainRevocation(file, o) # "unchecked"
          /\ NotAhead(file, o) /\ NotAhead(file, x)
      <3>1. o.now = now /\ x.now = now'
        BY DEF Options
      <3>2. now \in Nat /\ now' = now + 1 /\ TsaSkew \in Nat
        BY <1>1, ConstantsOK DEF Tick, WitnessInv, TypeOK, Times
      <3>3. TokenDated
        BY <1>1, GreenMeans DEF WitnessInv
      <3>4. NotAhead(file, o) /\ NotAhead(file, x)
        BY <3>1, <3>2, <3>3 DEF NotAhead, TokenDated, Times
      <3> QED
        BY <1>1, <3>4, GreenMeans, GreenIsAttested
    <2>4. "attestation key revoked" \notin ChainLabels(file, o)
      <3>1. file.platform = "android"
        BY <1>1, GreenIsAttested
      <3>2. AttestationLabels(file, o) = ChainLabels(file, o)
        BY <2>3, <3>1 DEF AttestationLabels
      <3> QED
        BY <1>1, <3>2, GreenMeans DEF Labels
    <2>5. ~Withdrawn(file, o)
      BY <2>4 DEF ChainLabels, When
    <2> HIDE DEF o, x
    <2>6. ChainRevocation(file, x) # "unchecked"
      BY <2>1, <2>2, <2>3, ClockIndependent DEF ChainRevocation
    <2>7. ChainRevocation(file, x) = "revoked" =>
            ChainRevocation(file, o) = "revoked" /\ Survives(file, x)
      <3>1. ASSUME ChainRevocation(file, x) = "revoked"
            PROVE  ChainRevocation(file, o) = "revoked" /\ RevokedEntry(file, x) = RevokedEntry(file, o)
        <4>1. \/ FrozenState(file, x) = "revoked"
              \/ x.online.state = "revoked"
          BY <3>1 DEF ChainRevocation
        <4>2. FrozenState(file, x) = FrozenState(file, o)
          BY <2>1, <2>3, ClockIndependent
        <4>3. CASE FrozenState(file, x) = "revoked"
          BY <4>2, <4>3 DEF ChainRevocation, RevokedEntry
        <4>4. CASE FrozenState(file, x) # "revoked"
          <5>1. x.online = o.online /\ o.online.state = "revoked"
            BY <2>2, <4>1, <4>4
          <5> QED
            BY <4>2, <4>4, <5>1 DEF ChainRevocation, RevokedEntry
        <4> QED
          BY <4>3, <4>4
      <3>2. ASSUME ChainRevocation(file, x) = "revoked" PROVE Survives(file, x)
        <4>1. Survives(file, o)
          BY <2>3, <2>5, <3>1, <3>2 DEF Withdrawn
        <4> QED
          BY <2>1, <2>3, <3>1, <3>2, <4>1, ClockIndependent DEF Survives
      <3> QED
        BY <3>1, <3>2
    <2>8. ~Withdrawn(file, x)
      BY <2>7 DEF Withdrawn
    <2>9. ChainLabels(file, x) \subseteq ChainLabels(file, o)
      <3>1. /\ TrustedInstant(file, x) /\ AppLabels(file, x) = AppLabels(file, o)
        BY <2>1, <2>3, ClockIndependent
      <3>2. ChainRevocation(file, x) = "revoked" =>
              ChainRevocation(file, o) = "revoked" /\ Survives(file, o)
        BY <2>3, <2>5, <2>7 DEF Withdrawn
      <3> QED
        BY <2>6, <2>8, <3>1, <3>2 DEF ChainLabels, When
    <2>10. AttestationLabels(file, x) \subseteq AttestationLabels(file, o)
      <3>1. ChainHolds(file, x)
        BY <2>1, <2>3, ClockIndependent
      <3>2. file.platform = "android"
        BY <2>3 DEF ChainHolds
      <3> QED
        BY <2>3, <2>9, <3>1, <3>2 DEF AttestationLabels
    <2>11. Proven(file, x) = Proven(file, o)
      BY <2>1, <2>3, <2>5, <2>8, ClockIndependent DEF Proven
    <2>12. LevelLabels(file, x) = LevelLabels(file, o)
      <3>1. /\ Attested(file, x) = Attested(file, o)
            /\ Inconsistent(file, x) <=> Inconsistent(file, o)
            /\ DeviceIntegrity(file, x) <=> DeviceIntegrity(file, o)
        BY <2>1, <2>3, ClockIndependent
      <3> QED
        BY <2>11, <3>1 DEF LevelLabels, When
    <2>13. Labels(file, x) \subseteq Labels(file, o)
      <3>1. /\ RegistryLabels(file, x) = RegistryLabels(file, o)
            /\ AnchorLabels(file, x) = AnchorLabels(file, o)
            /\ IntegrityLabels(file, x) = IntegrityLabels(file, o)
            /\ TokenLabels(file, x) = TokenLabels(file, o)
            /\ KeyLabels(file, x) = KeyLabels(file, o)
        BY <2>1, <2>3, ClockIndependent
      <3> QED
        BY <2>10, <2>12, <3>1 DEF Labels
    <2>14. /\ Outcome(file) = "authentic" /\ Proven(file, x) # "none"
           /\ RegistryOk(file, x) /\ TrustedInstant(file, x)
           /\ HoldsAmber \cap Labels(file, x) = {}
           /\ {"key revoked", "attestation key revoked"} \cap Labels(file, x) = {}
      <3>1. RegistryOk(file, x) /\ TrustedInstant(file, x)
        BY <1>1, <2>1, <2>3, GreenMeans, ClockIndependent DEF o
      <3> QED
        BY <1>1, <2>11, <2>13, <3>1, GreenMeans DEF o
    <2>15. IsGreen(file, x)
      BY <2>14 DEF IsGreen, Revoked
    <2>16. IsGreen(file', Options(r)')
      BY <2>1, <2>15 DEF x
    <2> QED
      BY <2>1, <2>16 DEF Green
  <1>2. WitnessInv /\ [Next]_vars =>
          [Tick => \A r \in Readers : Green(r) => Green(r)']_vars
    BY <1>1
  <1> QED
    BY <1>2, Witnessed, PTL DEF Spec, GreenOutlivesItsCertificates

(***************************************************************************)
(* What the labels beside a light tell.                                    *)
(***************************************************************************)
\* Two lists kept by hand, one that holds a light amber (verify.ts) and a longer
\* one that explains it (ceiling.ts): on a green light neither has anything.
THEOREM GreenExplainsItself == Spec => []GreenHasNothingToExplain
  <1>1. ASSUME NEW r \in Readers, Green(r)
        PROVE  AmberReasons(file, Options(r)) = {}
    <2> DEFINE o == Options(r)
               Rest == { "origin not hardware-attested", "key not in transparency log",
                         "log not trusted" }
    <2>1. /\ HoldsAmber \cap Labels(file, o) = {} /\ RegistryOk(file, o)
          /\ Proven(file, o) # "none" /\ TrustedInstant(file, o)
      BY <1>1, GreenMeans
    <2>2. ExplainsAmber \subseteq HoldsAmber \cup Rest
      BY DEF ExplainsAmber, HoldsAmber
    <2> HIDE DEF o
    <2>3. Attested(file, o) # "none"
      BY <2>1 DEF Proven
    <2>4. Rest \cap (ContentLabels(file) \cup AbsentLabels(file) \cup RegistryLabels(file, o)) = {}
      BY <2>1 DEF ContentLabels, AbsentLabels, RegistryLabels, RegistryOk, RegistryRead, When
    <2>5. Rest \cap (AnchorLabels(file, o) \cup IntegrityLabels(file, o)
                       \cup TokenLabels(file, o) \cup ClockLabels(file)) = {}
      BY DEF AnchorLabels, IntegrityLabels, TokenLabels, ClockLabels, When
    <2>6. Rest \cap ChainLabels(file, o) = {}
      BY DEF ChainLabels, AppLabels, When
    <2>7. Rest \cap (AttestationLabels(file, o) \cup KeyLabels(file, o)) = {}
      BY <2>6 DEF AttestationLabels, KeyLabels, When
    <2>8. Rest \cap LevelLabels(file, o) = {}
      BY <2>3 DEF LevelLabels, When
    <2>9. Rest \cap Labels(file, o) = {}
      BY <2>4, <2>5, <2>7, <2>8 DEF Labels
    <2>10. AmberReasons(file, o) = ExplainsAmber \cap Labels(file, o)
      BY <2>1 DEF AmberReasons, When
    <2> QED
      BY <2>1, <2>2, <2>9, <2>10 DEF o
  <1>2. GreenHasNothingToExplain
    BY <1>1 DEF GreenHasNothingToExplain
  <1> QED
    BY <1>2, PTL

\* An amber light on an authentic file always has its reasons beside it: each of
\* the conditions of green leaves a label when it fails, but for what verify.ts
\* passes over, and every label that caps a light is among those that explain one.
THEOREM AmberExplainsItself == Spec => []AmberIsExplained
  <1>1. ASSUME Sealed, NEW r \in Readers, Light(r) = "amber"
        PROVE  HoldsAmber \cap Labels(file, Options(r)) \subseteq AmberReasons(file, Options(r))
    BY DEF HoldsAmber, ExplainsAmber, AmberReasons
  <1>2. ASSUME TypeOK, Sealed, NEW r \in Readers, Light(r) = "amber",
               Outcome(file) = "authentic", ~PassedOver(file, r)
        PROVE  AmberReasons(file, Options(r)) # {}
    <2> DEFINE o == Options(r)
    <2>1. ~IsGreen(file, o) /\ ~IsRed(file, o) /\ Revoked \cap Labels(file, o) = {}
      BY <1>2 DEF Light, Ceiling, IsRed
    <2>2. file \in SealedFile /\ o.tsaRoots = r.tsaRoots /\ o.trusted \subseteq Logs
      BY <1>2, ConstantsOK DEF TypeOK, Options, AnyReader
    <2>3. \A label \in ExplainsAmber : label \in Labels(file, o) => AmberReasons(file, o) # {}
      BY DEF AmberReasons
    <2>4. /\ {"origin not hardware-attested", "key not in transparency log",
              "log not trusted"} \subseteq ExplainsAmber
          /\ HoldsAmber \subseteq ExplainsAmber
      BY DEF ExplainsAmber, HoldsAmber
    <2>5. /\ file.registry.is \in {"absent", "unreadable", "bad", "good"}
          /\ file.registry.is \in {"bad", "good"} => file.registry.log \in Logs \cup {NoLog}
          /\ file.timestamp.is \in {"absent", "unreadable", "bad", "good"}
      <3>1. /\ file.registry \in Attachment.registry
            /\ file.timestamp \in Attachment.timestamp
        BY <2>2 DEF SealedFile
      <3>2. /\ file.registry \in {Absent} \cup [is : Junk, log : Logs \cup {NoLog}]
                  \cup [is : {"good"}, log : Logs, hw : LeafLevels, head : Times]
            /\ file.timestamp \in {Absent} \cup [is : Junk] \cup [is : {"good"}, gen : Times]
        BY <3>1 DEF Attachment
      <3>3. Junk \subseteq {"unreadable", "bad"}
        BY ConstantsOK
      <3>4. /\ file.registry.is \in {"absent", "unreadable", "bad", "good"}
            /\ file.registry.is \in {"bad", "good"} => file.registry.log \in Logs \cup {NoLog}
        <4>1. CASE file.registry = Absent
          BY <4>1 DEF Absent
        <4>2. CASE file.registry \in [is : Junk, log : Logs \cup {NoLog}]
          BY <3>3, <4>2
        <4>3. CASE file.registry \in [is : {"good"}, log : Logs, hw : LeafLevels, head : Times]
          BY <4>3
        <4> QED
          BY <3>2, <4>1, <4>2, <4>3
      <3>5. file.timestamp.is \in {"absent", "unreadable", "bad", "good"}
        <4>1. CASE file.timestamp = Absent
          BY <4>1 DEF Absent
        <4>2. CASE file.timestamp \in [is : Junk]
          BY <3>3, <4>2
        <4>3. CASE file.timestamp \in [is : {"good"}, gen : Times]
          BY <4>3
        <4> QED
          BY <3>2, <4>1, <4>2, <4>3
      <3> QED
        BY <3>4, <3>5
    <2>6. ~PassedOver(file, r)
      BY <1>2
    <2> HIDE DEF o
    <2>7. CASE ~RegistryOk(file, o)
      <3>1. \/ "key not in transparency log" \in AbsentLabels(file)
            \/ "key not in transparency log" \in RegistryLabels(file, o)
            \/ "log not trusted" \in RegistryLabels(file, o)
        BY <2>5, <2>6, <2>7 DEF PassedOver, AbsentLabels, RegistryLabels, RegistryRead, When
      <3> QED
        BY <2>3, <2>4, <3>1 DEF Labels, o
    <2>8. CASE ~TrustedInstant(file, o)
      <3>1. ~TokenOk(file, o)
        BY <2>8 DEF TrustedInstant
      <3>2. \/ file.timestamp.is = "absent"
            \/ file.timestamp.is \in {"bad", "good"} /\ o.tsaRoots
        BY <2>2, <2>5, <2>6, <2>8 DEF PassedOver, o
      <3>3. "no trusted time" \in AbsentLabels(file) \cup TokenLabels(file, o)
        BY <3>1, <3>2 DEF AbsentLabels, TokenLabels, When
      <3>4. "no trusted time" \in Labels(file, o)
        BY <3>3 DEF Labels
      <3> QED
        BY <2>8, <3>4 DEF AmberReasons, When, o
    <2>9. CASE Proven(file, o) = "none"
      <3>1. CASE Attested(file, o) = "none"
        <4>1. "origin not hardware-attested" \in LevelLabels(file, o)
          BY <3>1 DEF LevelLabels, When
        <4> QED
          BY <2>3, <2>4, <4>1 DEF Labels, o
      <3>2. CASE Attested(file, o) # "none"
        <4>1. Withdrawn(file, o) /\ ChainHolds(file, o)
          BY <2>9, <3>2 DEF Proven, Withdrawn
        <4>2. "attestation key revoked" \in ChainLabels(file, o)
          BY <4>1 DEF ChainLabels, When
        <4>3. "attestation key revoked" \in Labels(file, o)
          BY <4>1, <4>2 DEF AttestationLabels, ChainHolds, Labels
        <4> QED
          BY <2>1, <4>3 DEF Revoked, o
      <3> QED
        BY <3>1, <3>2
    <2>10. CASE RegistryOk(file, o) /\ TrustedInstant(file, o) /\ Proven(file, o) # "none"
      <3>1. HoldsAmber \cap Labels(file, o) # {}
        BY <1>2, <2>1, <2>10 DEF IsGreen, o
      <3> QED
        BY <2>3, <2>4, <3>1 DEF o
    <2> QED
      BY <2>7, <2>8, <2>9, <2>10
  <1>3. TypeOK => AmberIsExplained
    BY <1>1, <1>2 DEF AmberIsExplained
  <1> QED
    BY <1>3, TypeCorrect, PTL

\* So the list of verify.ts that caps a light and the one of ceiling.ts that explains
\* it never disagree, whatever evidence stands beside the core.
THEOREM LightsExplainThemselves == Spec => []LightIsExplained
  <1>1. GreenHasNothingToExplain /\ AmberIsExplained => LightIsExplained
    BY DEF LightIsExplained
  <1> QED
    BY <1>1, GreenExplainsItself, AmberExplainsItself, PTL

(***************************************************************************)
(* Red.  A snapshot repeats what the list said when it was frozen, and the *)
(* list never takes an entry back: the one more fact about the witnesses   *)
(* that the reasons of a red light need.                                   *)
(***************************************************************************)
SnapshotTold ==
  Sealed /\ file.status.is = "good" /\ file.status.state = "revoked" =>
    /\ listed.at # 0
    /\ file.status.revoked_at = listed.revoked_at
    /\ file.status.reason = listed.reason

RedInv == WitnessInv /\ SnapshotTold

\* Whatever replaces another attachment leaves the snapshot alone.
LEMMA PutKeepsSnapshot ==
  ASSUME RedInv, NEW slot, NEW value, Put(slot, value),
         \/ slot # "status"
         \/ value.is # "good"
         \/ value.state # "revoked"
         \/ listed.at # 0 /\ value.revoked_at = listed.revoked_at /\ value.reason = listed.reason
  PROVE  SnapshotTold'
  <1>1. /\ Sealed /\ file \in SealedFile /\ file' = [file EXCEPT ![slot] = value]
        /\ UNCHANGED <<sealedAt, listed>>
    BY DEF Put, RedInv, WitnessInv, TypeOK
  <1>2. CASE slot = "status"
    <2>1. file'.status = value
      BY <1>1, <1>2 DEF SealedFile
    <2> QED
      BY <1>1, <1>2, <2>1 DEF SnapshotTold
  <1>3. CASE slot # "status"
    <2>1. file'.status = file.status
      BY <1>1, <1>3 DEF SealedFile
    <2> QED
      BY <1>1, <2>1 DEF SnapshotTold, RedInv
  <1> QED
    BY <1>2, <1>3

LEMMA SnapshotStep ==
  ASSUME RedInv, [Next]_vars
  PROVE  SnapshotTold'
  <1>1. CASE Tick \/ (\E l \in Logs : Register(l))
             \/ (\E l \in Logs, end \in KeyEnds : RevokeKey(l, end))
    BY <1>1 DEF Tick, Register, RevokeKey, RedInv, SnapshotTold, Sealed
  <1>2. ASSUME NEW platform, NEW claimed, NEW clock, NEW level, NEW apps, NEW media,
               Seal(platform, claimed, clock, level, apps, media)
        PROVE  SnapshotTold'
    BY <1>2 DEF Seal, SnapshotTold, Absent
  <1>3. ASSUME NEW revoked_at, NEW reason, RevokeChain(revoked_at, reason)
        PROVE  SnapshotTold'
    BY <1>3 DEF RevokeChain, NotListed, RedInv, SnapshotTold, Sealed
  <1>4. CASE \/ AttachToken \/ AttachAnchor
             \/ \E l \in Logs, hw \in LeafLevels : AttachRegistry(l, hw)
             \/ \E l \in Logs, statement \in Statements : AttachIntegrity(l, statement)
             \/ \E media \in Contents : Transcode(media)
             \/ \E slot \in Slots \cap {"attestation", "anchor"} : Swap(slot)
    BY <1>4, PutKeepsSnapshot
       DEF AttachToken, AttachAnchor, AttachRegistry, AttachIntegrity, Transcode, Swap
  <1>5. ASSUME NEW l \in Freezers, AttachStatus(l) PROVE SnapshotTold'
    <2> DEFINE value == [ is |-> "good", by |-> l,
                          state |-> IF Published.state = "unlisted" THEN "unchecked"
                                    ELSE Published.state,
                          revoked_at |-> Published.revoked_at, reason |-> Published.reason ]
    <2>1. Put("status", value)
      BY <1>5 DEF AttachStatus
    <2>2. value.state = "revoked" =>
            /\ listed.at # 0 /\ value.revoked_at = listed.revoked_at
            /\ value.reason = listed.reason
      BY DEF Published
    <2> HIDE DEF value
    <2> QED
      BY <2>1, <2>2, PutKeepsSnapshot
  <1>6. ASSUME NEW slot \in Slots, Strip(slot) \/ Spoil(slot) PROVE SnapshotTold'
    <2>1. PICK value : Put(slot, value) /\ value.is # "good"
      <3>1. CASE Strip(slot)
        BY <3>1 DEF Strip, Absent
      <3>2. CASE Spoil(slot)
        BY <3>2, ConstantsOK DEF Spoil
      <3> QED
        BY <1>6, <3>1, <3>2
    <2> QED
      BY <2>1, PutKeepsSnapshot
  <1>7. CASE UNCHANGED vars
    BY <1>7 DEF vars, RedInv, SnapshotTold, Sealed
  <1> QED
    BY <1>1, <1>2, <1>3, <1>4, <1>5, <1>6, <1>7 DEF Next

LEMMA SnapshotsTold == Spec => []RedInv
  <1>1. Init => RedInv
    BY InitType DEF Init, RedInv, SnapshotTold, Sealed
  <1>2. RedInv /\ [Next]_vars => RedInv'
    BY WitnessStep, SnapshotStep DEF RedInv
  <1> QED
    BY <1>1, <1>2, PTL DEF Spec

\* Where a source calls the chain revoked, the entry that answers is the list's own.
LEMMA EntryIsListed ==
  ASSUME RedInv, Sealed, NEW r \in Readers,
         ChainRevocation(file, Options(r)) = "revoked"
  PROVE  /\ listed.at # 0
         /\ RevokedEntry(file, Options(r)).revoked_at = listed.revoked_at
         /\ RevokedEntry(file, Options(r)).reason = listed.reason
  <1> DEFINE o == Options(r)
  <1>1. CASE FrozenState(file, o) = "revoked"
    <2>1. file.status.is = "good" /\ file.status.state = "revoked"
      BY <1>1 DEF FrozenState
    <2> QED
      BY <1>1, <2>1 DEF RedInv, SnapshotTold, RevokedEntry
  <1>2. CASE FrozenState(file, o) # "revoked"
    <2>1. o.online = OnlineAnswer(r)
      BY DEF Options
    <2>2. OnlineAnswer(r).state = "revoked"
      BY <1>2, <2>1 DEF ChainRevocation
    <2>3. OnlineAnswer(r) = Published /\ Published.state = "revoked"
      BY <2>2 DEF OnlineAnswer, Published
    <2>4. /\ listed.at # 0 /\ Published.revoked_at = listed.revoked_at
          /\ Published.reason = listed.reason
      BY <2>3 DEF Published
    <2> QED
      BY <1>2, <2>1, <2>3, <2>4 DEF RevokedEntry
  <1> QED
    BY <1>1, <1>2

\* A withdrawn level is told by a label, and by no other circumstance.
LEMMA WithdrawnIsTold ==
  ASSUME NEW p, NEW o
  PROVE  "attestation key revoked" \in Labels(p, o) <=> Withdrawn(p, o)
  <1> DEFINE revoked == "attestation key revoked"
  <1>1. revoked \notin ContentLabels(p) \cup AbsentLabels(p) \cup RegistryLabels(p, o)
    BY DEF ContentLabels, AbsentLabels, RegistryLabels, When
  <1>2. revoked \notin AnchorLabels(p, o) \cup IntegrityLabels(p, o) \cup TokenLabels(p, o)
                         \cup ClockLabels(p) \cup KeyLabels(p, o) \cup LevelLabels(p, o)
    BY DEF AnchorLabels, IntegrityLabels, TokenLabels, ClockLabels, KeyLabels,
           LevelLabels, When
  <1>3. revoked \in ChainLabels(p, o) <=> Withdrawn(p, o)
    BY DEF ChainLabels, AppLabels, When
  <1>4. revoked \in AttestationLabels(p, o) <=> Withdrawn(p, o)
    <2>1. CASE ChainHolds(p, o)
      <3>1. AttestationLabels(p, o) = ChainLabels(p, o)
        BY <2>1 DEF AttestationLabels, ChainHolds
      <3> QED
        BY <1>3, <3>1
    <2>2. CASE ~ChainHolds(p, o)
      BY <2>2 DEF AttestationLabels, Withdrawn
    <2> QED
      BY <2>1, <2>2
  <1> QED
    BY <1>1, <1>2, <1>4 DEF Labels

LEMMA KeyRevokedIsTold ==
  ASSUME NEW p, NEW o, "key revoked" \in Labels(p, o)
  PROVE  RegistryOk(p, o) /\ KeyStatus(p, o) = "revoked"
  <1> DEFINE revoked == "key revoked"
  <1>1. revoked \notin ContentLabels(p) \cup AbsentLabels(p) \cup RegistryLabels(p, o)
    BY DEF ContentLabels, AbsentLabels, RegistryLabels, When
  <1>2. revoked \notin AnchorLabels(p, o) \cup IntegrityLabels(p, o) \cup TokenLabels(p, o)
                         \cup ClockLabels(p) \cup LevelLabels(p, o)
    BY DEF AnchorLabels, IntegrityLabels, TokenLabels, ClockLabels, LevelLabels, When
  <1>3. revoked \notin ChainLabels(p, o)
    BY DEF ChainLabels, AppLabels, When
  <1>4. revoked \notin AttestationLabels(p, o)
    BY <1>3 DEF AttestationLabels
  <1>5. revoked \in KeyLabels(p, o)
    BY <1>1, <1>2, <1>4 DEF Labels
  <1> QED
    BY <1>5 DEF KeyLabels, When

LEMMA CompromiseIsRed == RedInv => CompromisedChainIsRed
  <1> SUFFICES ASSUME RedInv, Sealed, NEW r \in Readers, ChainHolds(file, Options(r)),
                      listed.reason \in {"KEY_COMPROMISE", "CA_COMPROMISE"},
                      \/ r.asksList /\ Published.state = "revoked"
                      \/ FrozenState(file, Options(r)) = "revoked"
               PROVE  Light(r) = "red"
    BY DEF CompromisedChainIsRed
  <1> DEFINE o == Options(r)
  <1>1. ChainRevocation(file, o) = "revoked"
    <2>1. r.asksList /\ Published.state = "revoked" => o.online.state = "revoked"
      BY DEF Options, OnlineAnswer
    <2> QED
      BY <2>1 DEF ChainRevocation
  <1>2. ~Survives(file, o)
    BY <1>1, EntryIsListed DEF Survives
  <1>3. "attestation key revoked" \in Labels(file, o)
    BY <1>1, <1>2, WithdrawnIsTold DEF Withdrawn
  <1> QED
    BY <1>3 DEF Light, Ceiling, IsRed, IsGreen, Revoked

\* Red over bytes that fit comes from a label, and each label from a revocation.
LEMMA RedHasAReason == RedInv => RedIsDeserved
  <1> SUFFICES ASSUME RedInv, Sealed, NEW r \in Readers, Light(r) = "red",
                      Outcome(file) # "tampered"
               PROVE  \/ \E l \in r.trusted :
                           /\ keyRevoked[l] # NotRevoked
                           /\ \/ keyRevoked[l].retroactive
                              \/ keyRevoked[l].from <= Asked(file, Options(r))
                      \/ /\ listed # NotListed
                         /\ \/ ~TrustedInstant(file, Options(r))
                            \/ listed.revoked_at = None
                            \/ listed.revoked_at <= ReadAt(r)
                            \/ listed.reason \in {"KEY_COMPROMISE", "CA_COMPROMISE"}
    BY DEF RedIsDeserved
  <1> DEFINE o == Options(r)
  <1>1. "key revoked" \in Labels(file, o) \/ "attestation key revoked" \in Labels(file, o)
    BY DEF Light, Ceiling, IsRed, Revoked
  <1>2. CASE "key revoked" \in Labels(file, o)
    <2> DEFINE l == file.registry.log
    <2>1. RegistryOk(file, o) /\ KeyStatus(file, o) = "revoked"
      BY <1>2, KeyRevokedIsTold
    <2>2. o.trusted = r.trusted /\ o.statement = KeyStatement(r.answeredBy)
      BY DEF Options
    <2>3. o.statement.by \in Signers(file, o) /\ Statement(o.statement, Asked(file, o)) = "revoked"
      BY <2>1 DEF KeyStatus
    <2>4. l \in r.trusted /\ l \in Logs /\ o.statement.by = l
      <3>1. Signers(file, o) = {l}
        BY <2>1 DEF Signers, RegistryOk, RegistryRead
      <3>2. r.trusted \subseteq Logs
        BY ConstantsOK DEF AnyReader
      <3> QED
        BY <2>1, <2>2, <2>3, <3>1, <3>2 DEF RegistryOk
    <2>5. /\ o.statement.from = keyRevoked[l].from
          /\ o.statement.retroactive = keyRevoked[l].retroactive
      <3>1. KeyStatement(r.answeredBy).by = r.answeredBy
        BY DEF KeyStatement
      <3>2. r.answeredBy = l
        BY <2>2, <2>4, <3>1
      <3> QED
        BY <2>2, <2>4, <3>2 DEF KeyStatement
    <2> DEFINE at == Asked(file, o)
    <2>6. keyRevoked[l].from # None /\ (keyRevoked[l].retroactive \/ at >= keyRevoked[l].from)
      <3> HIDE DEF at, l
      <3> QED
        BY <2>3, <2>5 DEF Statement, at
    <2> HIDE DEF l, at
    <2> QED
      BY <2>4, <2>6 DEF NotRevoked, at
  <1>3. CASE "attestation key revoked" \in Labels(file, o)
    <2>1. ChainRevocation(file, o) = "revoked" /\ ~Survives(file, o)
      BY <1>3, WithdrawnIsTold DEF Withdrawn
    <2>2. listed.at # 0 /\ listed # NotListed
      BY <2>1, EntryIsListed DEF NotListed
    <2>3. \/ ~TrustedInstant(file, o)
          \/ listed.revoked_at = None
          \/ ~(Instant(file, o) < listed.revoked_at)
          \/ listed.reason \in {"KEY_COMPROMISE", "CA_COMPROMISE"}
      BY <2>1, EntryIsListed DEF Survives
    <2>4. TrustedInstant(file, o) => ReadAt(r) \in Nat
      BY TrustedInstantBounds DEF RedInv, Times
    <2>5. listed.revoked_at \in Nat \cup {None}
      BY DEF RedInv, WitnessInv, TypeOK, Times
    <2> QED
      BY <2>2, <2>3, <2>4, <2>5 DEF ReadAt
  <1> QED
    BY <1>1, <1>2, <1>3

\* Red is given for a reason and whenever there is one: for every compromise of the
\* chain a source of the reader's tells, and never over bytes that fit a core whose key
\* and chain nobody revoked (verify.ts, chainRevocation, `survives`, `asked`).
THEOREM RedIsExact == Spec => []RedExactlyWhenDeserved
  <1>1. RedInv => RedExactlyWhenDeserved
    BY CompromiseIsRed, RedHasAReason DEF RedExactlyWhenDeserved
  <1> QED
    BY <1>1, SnapshotsTold, PTL
=============================================================================
