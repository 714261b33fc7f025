---------------------------- MODULE ChainReader ----------------------------
(***************************************************************************)
(* The chain reader (core/src/chain.ts) and the anchor check over it       *)
(* (core/src/anchor.ts), with the transport both the page and the command  *)
(* line hand in.  The endpoints of the named chain are asked in order, two *)
(* calls each; whatever cannot be read as an answer moves on to the next.  *)
(*                                                                         *)
(* Around it: contracts that are written to, endpoints that follow the     *)
(* chain they serve with a delay, may be of another chain, may fail, and   *)
(* may never answer at all.  They do not lie: the code trusts them there.  *)
(***************************************************************************)
EXTENDS PublicChains, Naturals, Sequences

CONSTANTS
  Endpoints,   \* JSON-RPC endpoints
  Serves,      \* [Endpoints -> Chains], the chain each is really of
  Rpc,         \* [Chains -> Seq(Endpoints)], as chains.json lists them
  Records,     \* what a contract may hold under the id the proof names
  None

ASSUME ChainAssumption ==
  /\ None \notin Records
  /\ Serves \in [Endpoints -> Chains]
  /\ Rpc \in [Chains -> Seq(Endpoints)]
  /\ \A c \in Chains : Rpc[c] # << >>     \* parseChainsDocument: a non-empty list

VARIABLES
  contract,   \* [Chains -> what the contract holds under that id]
  seen,       \* [Endpoints -> what the endpoint knows the contract holds]
  read        \* the read of one verification
vars == <<contract, seen, read>>
world == <<contract, seen>>

Idle == [is |-> "idle"]
Compared(claim, found) ==
  CASE found = None  -> "not found on chain"
    [] found = claim -> "on chain"
    [] OTHER         -> "differs from the chain"

Init ==
  /\ contract = [c \in Chains |-> None]
  /\ seen = [e \in Endpoints |-> None]
  /\ read = Idle

(***************************************************************************)
(* The world.                                                              *)
(***************************************************************************)
\* The operator records a batch: an id is written once.
Record(c, r) ==
  /\ contract[c] = None
  /\ contract' = [contract EXCEPT ![c] = r]
  /\ UNCHANGED <<seen, read>>

\* An endpoint catches up with its chain.
Follow(e) ==
  /\ seen[e] # contract[Serves[e]]
  /\ seen' = [seen EXCEPT ![e] = contract[Serves[e]]]
  /\ UNCHANGED <<contract, read>>

(***************************************************************************)
(* The reader.  "step" is the call under way, "reply" what the endpoint    *)
(* has sent back and the reader has not yet got.                           *)
(***************************************************************************)
Reading == read.is = "reading"
Asked == Rpc[read.chain][read.at]

\* Nothing sent back yet.
Silence == [is |-> "silence"]

\* Every endpoint listed for the chain knows the claimed record.
Settled(c, claim) ==
  /\ contract[c] = claim
  /\ \A i \in DOMAIN Rpc[c] : Serves[Rpc[c][i]] = c => seen[Rpc[c][i]] = claim

\* A chain the reader was not given throws at once: not consulted.  The field
\* settled is history.
Begin(c, claim, following) ==
  /\ ~Reading
  /\ read' =
       IF c \in following
       THEN [ is |-> "reading", chain |-> c, claim |-> claim, at |-> 1,
              step |-> "eth_chainId", reply |-> Silence,
              settled |-> Settled(c, claim) ]
       ELSE [is |-> "not consulted", chain |-> c, claim |-> claim]
  /\ UNCHANGED world

\* The endpoint computes its answer, from what it knows at that instant.
Reply ==
  /\ Reading /\ read.reply = Silence
  /\ read' = [read EXCEPT !.reply =
                IF read.step = "eth_chainId" THEN [is |-> "id", id |-> Serves[Asked]]
                ELSE [is |-> "anchor", found |-> seen[Asked]]]
  /\ UNCHANGED world

\* Not JSON, an HTTP error, an RPC error that is no revert, words of the wrong
\* size or range.
Garble ==
  /\ Reading /\ read.reply = Silence
  /\ read' = [read EXCEPT !.reply = [is |-> "unreadable"]]
  /\ UNCHANGED world

\* This endpoint did not answer: the next one, or not consulted.
Failed ==
  read' = IF read.at < Len(Rpc[read.chain])
          THEN [read EXCEPT !.at = @ + 1, !.step = "eth_chainId", !.reply = Silence]
          ELSE [is |-> "not consulted", chain |-> read.chain, claim |-> read.claim]

\* Fault: the id the endpoint gives is not looked at.
CheckIdNever ==
  /\ Reading /\ read.reply.is = "id"
  /\ read' = [read EXCEPT !.step = "eth_call", !.reply = Silence]
  /\ UNCHANGED world

CheckId ==
  /\ Reading /\ read.reply.is = "id"
  /\ IF read.reply.id = read.chain
     THEN read' = [read EXCEPT !.step = "eth_call", !.reply = Silence]
     ELSE Failed
  /\ UNCHANGED world

\* A record, or nothing under that id (a zero root, or a revert): the first
\* endpoint that answers decides.
Conclude ==
  /\ Reading /\ read.reply.is = "anchor"
  /\ read' = [ is |-> Compared(read.claim, read.reply.found), chain |-> read.chain,
               claim |-> read.claim, settled |-> read.settled ]
  /\ UNCHANGED world

\* Fault: any error of eth_call is read as a revert.
RefuseAsRevert ==
  /\ Reading /\ read.reply.is = "unreadable"
  /\ IF read.step = "eth_call"
     THEN read' = [ is |-> "not found on chain", chain |-> read.chain,
                    claim |-> read.claim, settled |-> read.settled ]
     ELSE Failed
  /\ UNCHANGED world

Refuse ==
  /\ Reading /\ read.reply.is = "unreadable"
  /\ Failed
  /\ UNCHANGED world

\* Fault: a transport with no bound waits for as long as the endpoint does.
TimeOutNever == Reading /\ FALSE /\ UNCHANGED vars

\* The transport gives up after ten seconds, whether or not an answer is on its way.
TimeOut ==
  /\ Reading
  /\ Failed
  /\ UNCHANGED world

Got == CheckId \/ Conclude \/ Refuse

Next ==
  \/ \E c \in Chains, r \in Records : Record(c, r)
  \/ \E e \in Endpoints : Follow(e)
  \/ \E c \in Chains, claim \in Records, following \in SUBSET Chains :
        Begin(c, claim, following)
  \/ Reply \/ Garble
  \/ Got \/ TimeOut

Spec == Init /\ [][Next]_vars

(***************************************************************************)
(* An endpoint need never answer, and need never catch up.  The reader's   *)
(* own steps are taken: what arrives is looked at, and a timer fires.      *)
(***************************************************************************)
Fairness == WF_vars(Got) /\ WF_vars(TimeOut)
FairSpec == Spec /\ Fairness

(***************************************************************************)
(* Properties.                                                             *)
(***************************************************************************)
Answers == {"on chain", "differs from the chain", "not found on chain"}
Replies ==
  [is : {"silence", "unreadable"}] \cup [is : {"id"}, id : Chains]
    \cup [is : {"anchor"}, found : Records \cup {None}]

TypeOK ==
  /\ contract \in [Chains -> Records \cup {None}]
  /\ seen \in [Endpoints -> Records \cup {None}]
  /\ read \in {Idle}
       \cup [ is : {"reading"}, chain : Chains, claim : Records, at : Nat,
              step : {"eth_chainId", "eth_call"}, reply : Replies, settled : BOOLEAN ]
       \cup [is : {"not consulted"}, chain : Chains, claim : Records]
       \cup [ is : Answers, chain : Chains, claim : Records, settled : BOOLEAN ]
  /\ Reading => read.at \in DOMAIN Rpc[read.chain]

\* To whoever asked, a read is one step: what it says of the contract was so, and
\* an endpoint that fails, hangs or is of another chain never speaks of the anchor
\* (chain.ts, "Three answers, kept apart on purpose").
Seen == IF Reading THEN [is |-> "reading", chain |-> read.chain, claim |-> read.claim]
        ELSE IF read.is = "idle" THEN read
        ELSE [is |-> read.is, chain |-> read.chain, claim |-> read.claim]
Lookup == INSTANCE Lookup WITH read <- Seen
ImplementsLookup == Lookup!Spec

\* An anchor that every endpoint of its chain knew when the read began is found, or
\* not consulted: no failure on the way makes a genuine anchor missing
\* (anchor.ts, "a verifier offline must not report a genuine anchor as missing").
GenuineAnchorIsNeverMissing ==
  read.is \in {"not found on chain", "differs from the chain"} => ~read.settled

\* Every read ends, whatever the endpoints do (chain.ts and both transports,
\* "a verdict must not wait forever on somebody else's server").
ReadsEnd == Reading ~> ~Reading
=============================================================================
