----------------------------- MODULE TrustPanel -----------------------------
(***************************************************************************)
(* Whom the page trusts, and the reader's hand on that (web/src/trust.ts   *)
(* over the documents of core/src/trust.ts): a row per log, per            *)
(* timestamping authority and per chain, each with a switch; the shipped   *)
(* sets, which load asynchronously; and what the reader adds from a file   *)
(* or a pasted line, each addition being parsed while the reader goes on.  *)
(*                                                                         *)
(* A key is a log's public key or an authority's root certificate.  Its    *)
(* name is the digest a document writes beside it, in hex letters of one   *)
(* case or the other.  A document is its entries and a panel its rows by   *)
(* name: the order of either is layout.  That the page checks its file     *)
(* again after a change is in module Page.                                 *)
(***************************************************************************)
EXTENDS PublicChains, Naturals, Sequences

CONSTANTS
  Keys,          \* log keys and TSA roots
  Documents,     \* what the reader may add, beside the lines of single keys
  Shipped,       \* ["logs" and "tsa" -> the document that ships with the page]
  MaxAdds        \* bound: additions the reader makes

Panels == {"logs", "tsa"}

\* digest: whether the name is the digest of the key; letters: how it is spelled.
Names == [key : Keys, letters : {"lower", "upper"}]
Entries == [name : Names, digest : BOOLEAN]

\* A log's id is compared as it is written, an authority's fingerprint in lower
\* case; one entry that does not fit refuses the document.
Fits(p, entry) ==
  /\ entry.digest
  /\ p = "logs" => entry.name.letters = "lower"
Parses(p, document) == \A entry \in document : Fits(p, entry)

\* What ships parses, as core/test/trust.test.ts checks of both documents.
ASSUME PanelAssumption ==
  /\ Documents \subseteq SUBSET Entries
  /\ Shipped \in [Panels -> SUBSET Entries]
  /\ \A p \in Panels : Parses(p, Shipped[p])
  /\ MaxAdds \in Nat

VARIABLES
  rows,      \* [Panels -> [the names that have a row -> the row]]
  chainsOn,  \* the chains switched on
  mounted,   \* the panels whose shipped set has been read
  adding     \* additions being parsed, in the order they were made
panel == <<rows, chainsOn, mounted, adding>>

PanelInit ==
  /\ rows = [p \in Panels |-> << >>]   \* no row
  /\ chainsOn = {}
  /\ mounted = {}
  /\ adding = << >>

NamesIn(document) == {entry.name : entry \in document}
ShippedRow == [shipped |-> TRUE, on |-> TRUE]
AddedRow == [shipped |-> FALSE, on |-> TRUE]

\* Fault: a name that is added again is switched on again.
AddAgain(before, document, row) ==
  [ name \in DOMAIN before \cup NamesIn(document) |->
      IF name \in NamesIn(document) THEN row ELSE before[name] ]

\* A name that has a row gets no other: names are compared as they are spelled.
Add(before, document, row) ==
  [ name \in DOMAIN before \cup NamesIn(document) |->
      IF name \in DOMAIN before THEN before[name] ELSE row ]

\* Fault: the entries that fit stay in the set.
ResultUpToFault(p, document, row) ==
  Add(rows[p], {entry \in document : Fits(p, entry)}, row)

Result(p, document, row) ==
  IF Parses(p, document) THEN Add(rows[p], document, row) ELSE rows[p]

\* mountTrust, mountTsa: the shipped set, then the ways to add to it.
Mount(p) ==
  /\ p \notin mounted
  /\ mounted' = mounted \cup {p}
  /\ rows' = [rows EXCEPT ![p] = Result(p, Shipped[p], ShippedRow)]
  /\ UNCHANGED <<chainsOn, adding>>

\* The reader chooses a file, or a line that names one key: parseTsaRoot writes
\* the fingerprint of a line in lower case.
Choose(p, document) ==
  /\ p \in mounted
  /\ Len(adding) < MaxAdds
  /\ adding' = Append(adding, [panel |-> p, document |-> document, pending |-> TRUE])
  /\ UNCHANGED <<rows, chainsOn, mounted>>

Lines(p) ==
  { {[entry EXCEPT !.name.letters = IF p = "tsa" THEN "lower" ELSE @]} :
      entry \in UNION Documents }

\* The file has been read and parsed, or refused.
Added(i) ==
  /\ i \in DOMAIN adding /\ adding[i].pending
  /\ LET p == adding[i].panel IN
       rows' = [rows EXCEPT ![p] = Result(p, adding[i].document, AddedRow)]
  /\ adding' = [adding EXCEPT ![i].pending = FALSE]
  /\ UNCHANGED <<chainsOn, mounted>>

Switch(p, name) ==
  /\ name \in DOMAIN rows[p]
  /\ rows' = [rows EXCEPT ![p][name].on = ~@]
  /\ UNCHANGED <<chainsOn, mounted, adding>>

\* Its switch under Advanced, or the offer beside a verdict, which only turns on.
SwitchChain(c) ==
  /\ chainsOn' = IF c \in chainsOn THEN chainsOn \ {c} ELSE chainsOn \cup {c}
  /\ UNCHANGED <<rows, mounted, adding>>

PanelNext ==
  \/ \E p \in Panels : Mount(p)
  \/ \E p \in Panels : \E document \in Documents \cup Lines(p) : Choose(p, document)
  \/ \E i \in DOMAIN adding : Added(i)
  \/ \E p \in Panels : \E name \in DOMAIN rows[p] : Switch(p, name)
  \/ \E c \in Chains : SwitchChain(c)

\* What a check of a file is given: the keys with a row that is on.
Trusted(p) == {name.key : name \in {n \in DOMAIN rows[p] : rows[p][n].on}}
Known(p) == {name.key : name \in DOMAIN rows[p]}

\* Fault: only what the reader added counts as a change.
ChangedByAdding == \E p \in Panels : \E name \in DOMAIN rows[p] : ~rows[p][name].shipped

\* trustInUse().changed: any departure from what ships.
Changed ==
  \/ \E p \in Panels : \E name \in DOMAIN rows[p] : ~rows[p][name].shipped \/ ~rows[p][name].on
  \/ chainsOn # {}

(***************************************************************************)
(* Properties.                                                             *)
(***************************************************************************)
\* What the reader switched off stays off until the reader switches it on: no
\* addition that resolves later, of a document that repeats the key, brings it
\* back (trust.ts, "The same key twice is one decision").  An authority whose
\* fingerprint a document spells in capitals is the exception: it gets a second row.
SpeltTwice(p, k) ==
  \E m, n \in DOMAIN rows[p] : m.key = k /\ n.key = k /\ m.letters # n.letters
OffStaysOff ==
  [][\A p \in Panels, k \in Keys :
       /\ k \in Known(p) \ Trusted(p)
       /\ k \in Trusted(p)'
       => \/ \E name \in DOMAIN rows[p] : name.key = k /\ Switch(p, name)
          \/ p = "tsa" /\ SpeltTwice(p, k)']_panel

\* A document is taken whole or not at all, however many additions are under way
\* (trust.ts, "a trust set that half-loaded would be worse than one that refused").
KeysOf(document) == {entry.name.key : entry \in document}
TakenWhole ==
  [][\A i \in DOMAIN adding, p \in Panels :
       Added(i) /\ adding[i].panel = p =>
         rows' = rows \/ KeysOf(adding[i].document) \subseteq Known(p)']_panel

\* Whatever the page trusts that does not ship is told by the line that stands in
\* for the folded panels (trust.ts, trustInUse: "a changed setup is never hidden").
ChangeIsNeverHidden ==
  (\E p \in mounted : Trusted(p) # KeysOf(Shipped[p])) => Changed

\* What an addition may never do: put a switch the reader threw off on again, or
\* leave a document half in.
AdditionsAreHonest == OffStaysOff /\ TakenWhole
=============================================================================
