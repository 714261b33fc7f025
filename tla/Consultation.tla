---------------------------- MODULE Consultation ----------------------------
(***************************************************************************)
(* The trust panels and the chain reader together: a verification reads an *)
(* anchor through the chains that are switched on when it begins           *)
(* (web/src/trust.ts, chainReader), and a read goes on while the reader    *)
(* throws switches.                                                        *)
(***************************************************************************)
EXTENDS TrustPanel, ChainReader

VARIABLE consented   \* history: the chains the reader ever switched on

all == <<panel, vars, consented>>

PageInit == PanelInit /\ Init /\ consented = {}

\* Fault: every chain of the document is handed to the reader.
FollowingAll == Chains

\* chainReader: the chains switched on; none is no reader at all.
Following == chainsOn

Consult(c, claim) == Begin(c, claim, Following)

ReaderNext ==
  \/ \E c \in Chains, claim \in Records : Consult(c, claim)
  \/ \E c \in Chains, r \in Records : Record(c, r)
  \/ \E e \in Endpoints : Follow(e)
  \/ Reply \/ Garble \/ Got \/ TimeOut

PageNext ==
  \/ PanelNext /\ consented' = consented \cup chainsOn' /\ UNCHANGED vars
  \/ ReaderNext /\ UNCHANGED <<panel, consented>>

PageFairness == /\ WF_all(Got /\ UNCHANGED <<panel, consented>>)
                /\ WF_all(TimeOut /\ UNCHANGED <<panel, consented>>)
PageSpec == PageInit /\ [][PageNext]_all /\ PageFairness

\* Nothing is asked of a chain the reader never switched on, whoever hands over a
\* proof that names it, and a file that names it is not consulted, not missing
\* (trust.ts, "Off until the reader asks").
NothingIsSentUnasked ==
  read.is \notin {"idle", "not consulted"} => read.chain \in consented
=============================================================================
