----------------------------- MODULE MCCustody -----------------------------
(***************************************************************************)
(* Small worlds for Custody: one constant per question the runs ask.       *)
(***************************************************************************)
EXTENDS Custody

\* Every log admits one app; the devices here were made by it.
OneAppEach == [l \in Logs |-> {"app"}]
AnApp == {{"app"}}
OwnOrOther == {{"app"}, {"other"}}

Hardware == {[source |-> "playIntegrity", verdict |-> "hardware"]}
AnyStatement ==
  { [source |-> "playIntegrity", verdict |-> "hardware"],
    [source |-> "playIntegrity", verdict |-> "failed"],
    [source |-> "appAttest", verdict |-> "hardware"] }

AnyKeyEnd == [from : 1 .. MaxTime, retroactive : BOOLEAN]
LostAtOne == {[from |-> 1, retroactive |-> FALSE]}

\* Readers that follow every log and are answered by one, in all the ways the
\* rest of a configuration may differ.
Connected(roots, chains, lists) ==
  [ trusted : {Logs}, tsaRoots : roots, chain : chains, asksList : lists,
    answeredBy : Logs ]
TimeReaders == Connected(BOOLEAN, {"unread", "dated"}, {TRUE})
StatusReaders == Connected({TRUE}, {"unread"}, BOOLEAN)

LogReaders ==
  [ trusted : SUBSET Logs, tsaRoots : {TRUE}, chain : {"unread"}, asksList : BOOLEAN,
    answeredBy : Logs \cup {NoLog} ]

\* A bound on what is explored: a file with every kind of evidence is followed in
\* the first instant only, a plain Android capture through all of them.
Plain ==
  /\ file.platform = "android" /\ file.claimed = "tee" /\ file.media = "original"
  /\ file.attestation = [is |-> "good", level |-> "tee", apps |-> {"app"}]
  /\ file.registry.is = "good" => file.registry.hw = "tee"
  /\ file.registry.is \in {"absent", "good"} /\ file.integrity.is \in {"absent", "good"}
  /\ file.integrity.is = "good" =>
       file.integrity.source = "playIntegrity" /\ file.integrity.verdict = "hardware"

AtOnce ==
  /\ now = 1 /\ file.clock = 1
  /\ file.anchor.is = "absent" /\ file.timestamp.is \in {"absent", "good"}
  /\ file.claimed = "tee" <=> file.platform = "android"

PlainOrAtOnce ==
  Sealed' => \/ Plain' /\ "unreadable" \notin {file.anchor.is, file.timestamp.is}'
             \/ AtOnce'

\* The steps of Custody that stay within the bound.
BoundedSpec == Init /\ [][Next /\ PlainOrAtOnce]_vars

AnyClock == {1, 2, 3, None}
=============================================================================
