-------------------------- MODULE ConsultationProofs --------------------------
(***************************************************************************)
(* Reading an anchor, and the page that has it read.                       *)
(*                                                                         *)
(* First, for any chains, endpoints and lists of them: the types of the    *)
(* reader, that no failure makes a genuine anchor missing, and that a      *)
(* read, however many endpoints it asks, implements the one step of        *)
(* Lookup.  The argument: an endpoint knows what its contract holds or     *)
(* held before, an id is written once, and the reader listens about the    *)
(* anchor only to an endpoint whose chain id it has compared.              *)
(*                                                                         *)
(* Then, for any keys and documents too, any number of additions and any   *)
(* order in which they are parsed: no addition undoes what the reader      *)
(* switched off nor comes half, a change is told, nobody is asked whom the *)
(* reader did not allow, and reading an anchor keeps its promise while     *)
(* switches are thrown.  The argument: an addition only gives rows to      *)
(* names that have none, and the shipped rows of a panel are those of its  *)
(* document from the moment it is mounted.                                 *)
(***************************************************************************)
EXTENDS Consultation, TLAPS, SequenceTheorems

\* What an endpoint knows was so.
Follows == \A e \in Endpoints : seen[e] \in {None, contract[Serves[e]]}

\* An answer about the anchor is of the named chain.
OfTheChain ==
  Reading =>
    /\ read.step = "eth_call" => Serves[Asked] = read.chain
    /\ read.reply.is = "id" => read.reply.id = Serves[Asked]
    /\ read.reply.is = "anchor" =>
         /\ read.step = "eth_call"
         /\ read.reply.found \in {None, contract[read.chain]}

\* Once every endpoint of the chain knows the record, each of them says so.
Settles ==
  Reading /\ read.settled =>
    /\ contract[read.chain] = read.claim
    /\ \A i \in DOMAIN Rpc[read.chain] :
         Serves[Rpc[read.chain][i]] = read.chain => seen[Rpc[read.chain][i]] = read.claim
    /\ read.reply.is = "anchor" => read.reply.found = read.claim

IInv == TypeOK /\ Follows /\ OfTheChain /\ Settles /\ GenuineAnchorIsNeverMissing

(***************************************************************************)
(* The lists and what they hold.                                           *)
(***************************************************************************)
LEMMA Lists ==
  ASSUME NEW c \in Chains
  PROVE  /\ Rpc[c] \in Seq(Endpoints)
         /\ Len(Rpc[c]) \in Nat \ {0}
         /\ 1 \in DOMAIN Rpc[c]
         /\ \A i \in DOMAIN Rpc[c] : /\ i \in Nat
                                     /\ Rpc[c][i] \in Endpoints
                                     /\ Serves[Rpc[c][i]] \in Chains
                                     /\ i < Len(Rpc[c]) => i + 1 \in DOMAIN Rpc[c]
BY ChainAssumption

LEMMA InitHolds == Init => IInv
BY DEF Init, IInv, TypeOK, Idle, Reading, Follows, OfTheChain, Settles,
       GenuineAnchorIsNeverMissing

\* A read under way, field by field.
LEMMA Underway ==
  ASSUME TypeOK, Reading
  PROVE  read \in [ is : {"reading"}, chain : Chains, claim : Records, at : Nat,
                    step : {"eth_chainId", "eth_call"}, reply : Replies,
                    settled : BOOLEAN ]
<1>1. read # Idle
  BY DEF Reading, Idle
<1>2. read \notin [is : {"not consulted"}, chain : Chains, claim : Records]
  BY DEF Reading
<1>3. read \notin [ is : Answers, chain : Chains, claim : Records, settled : BOOLEAN ]
  BY DEF Reading, Answers
<1> QED
  BY <1>1, <1>2, <1>3 DEF TypeOK

(***************************************************************************)
(* The world's steps: the read stays, an id is written once.               *)
(***************************************************************************)
LEMMA RecordKeeps ==
  ASSUME IInv, NEW c \in Chains, NEW r \in Records, Record(c, r)
  PROVE  IInv'
<1>1. /\ contract' \in [Chains -> Records \cup {None}]
      /\ \A d \in Chains : contract'[d] = (IF d = c THEN r ELSE contract[d])
      /\ contract[c] = None /\ seen' = seen /\ read' = read
  BY DEF IInv, TypeOK, Record
<1>2. TypeOK'
  BY <1>1 DEF IInv, TypeOK, Reading
<1>3. Follows'
  BY <1>1, ChainAssumption DEF IInv, TypeOK, Follows
<1>4. OfTheChain'
  <2> SUFFICES ASSUME Reading PROVE OfTheChain'
    BY <1>1 DEF OfTheChain, Reading
  <2>1. read.chain \in Chains
    BY Underway DEF IInv
  <2> QED
    BY <1>1, <2>1 DEF IInv, OfTheChain, Reading, Asked
<1>5. Settles'
  <2> SUFFICES ASSUME Reading, read.settled PROVE Settles'
    BY <1>1 DEF Settles, Reading
  <2>1. read.chain \in Chains /\ read.claim \in Records
    BY Underway DEF IInv
  <2> QED
    BY <1>1, <2>1, ChainAssumption DEF IInv, Settles, Reading
<1>6. GenuineAnchorIsNeverMissing'
  BY <1>1 DEF IInv, GenuineAnchorIsNeverMissing
<1> QED
  BY <1>2, <1>3, <1>4, <1>5, <1>6 DEF IInv

LEMMA FollowKeeps ==
  ASSUME IInv, NEW e \in Endpoints, Follow(e)
  PROVE  IInv'
<1>1. /\ seen' \in [Endpoints -> Records \cup {None}]
      /\ \A d \in Endpoints : seen'[d] = (IF d = e THEN contract[Serves[e]] ELSE seen[d])
      /\ contract' = contract /\ read' = read
  BY ChainAssumption DEF IInv, TypeOK, Follow
<1>2. TypeOK'
  BY <1>1 DEF IInv, TypeOK, Reading
<1>3. Follows'
  BY <1>1, ChainAssumption DEF IInv, TypeOK, Follows
<1>4. OfTheChain'
  BY <1>1 DEF IInv, OfTheChain, Reading, Asked
<1>5. Settles'
  <2> SUFFICES ASSUME Reading, read.settled
               PROVE  /\ contract[read.chain] = read.claim
                      /\ \A i \in DOMAIN Rpc[read.chain] :
                           Serves[Rpc[read.chain][i]] = read.chain =>
                             seen'[Rpc[read.chain][i]] = read.claim
                      /\ read.reply.is = "anchor" => read.reply.found = read.claim
    BY <1>1 DEF Settles, Reading
  <2>1. read.chain \in Chains
    BY Underway DEF IInv
  <2> QED
    BY <1>1, <2>1, Lists DEF IInv, Settles
<1>6. GenuineAnchorIsNeverMissing'
  BY <1>1 DEF IInv, GenuineAnchorIsNeverMissing
<1> QED
  BY <1>2, <1>3, <1>4, <1>5, <1>6 DEF IInv

(***************************************************************************)
(* The reader's steps: the world stays.                                    *)
(***************************************************************************)
LEMMA BeginKeeps ==
  ASSUME IInv, NEW c \in Chains, NEW claim \in Records, NEW following \in SUBSET Chains,
         Begin(c, claim, following)
  PROVE  IInv'
<1>1. /\ contract' = contract /\ seen' = seen
      /\ \/ read' = [ is |-> "reading", chain |-> c, claim |-> claim, at |-> 1,
                      step |-> "eth_chainId", reply |-> Silence,
                      settled |-> Settled(c, claim) ]
         \/ read' = [is |-> "not consulted", chain |-> c, claim |-> claim]
  BY DEF Begin, world
<1>2. Settled(c, claim) \in BOOLEAN /\ Silence \in Replies /\ 1 \in Nat
  BY DEF Settled, Silence, Replies
<1>3. TypeOK'
  <2>1. CASE read' = [is |-> "not consulted", chain |-> c, claim |-> claim]
    BY <1>1, <2>1 DEF IInv, TypeOK, Reading
  <2>2. CASE read' = [ is |-> "reading", chain |-> c, claim |-> claim, at |-> 1,
                       step |-> "eth_chainId", reply |-> Silence,
                       settled |-> Settled(c, claim) ]
    <3>1. read' \in [ is : {"reading"}, chain : Chains, claim : Records, at : Nat,
                      step : {"eth_chainId", "eth_call"}, reply : Replies,
                      settled : BOOLEAN ]
      BY <1>2, <2>2
    <3>2. (Reading => read.at \in DOMAIN Rpc[read.chain])'
      BY <2>2, Lists
    <3> QED
      BY <1>1, <3>1, <3>2 DEF IInv, TypeOK
  <2> QED
    BY <1>1, <2>1, <2>2
<1>4. Follows'
  BY <1>1 DEF IInv, Follows
<1>5. PICK s \in BOOLEAN : s = Settled(c, claim)
  BY <1>2
<1>6. /\ read'.is \in {"reading", "not consulted"}
      /\ read'.is = "reading" =>
           /\ read'.chain = c /\ read'.claim = claim /\ read'.step = "eth_chainId"
           /\ read'.reply.is = "silence" /\ read'.settled = s
  <2>1. CASE read' = [is |-> "not consulted", chain |-> c, claim |-> claim]
    BY <2>1
  <2>2. CASE read' = [ is |-> "reading", chain |-> c, claim |-> claim, at |-> 1,
                       step |-> "eth_chainId", reply |-> Silence,
                       settled |-> Settled(c, claim) ]
    <3>1. read' = [ is |-> "reading", chain |-> c, claim |-> claim, at |-> 1,
                    step |-> "eth_chainId", reply |-> Silence, settled |-> s ]
      BY <1>5, <2>2, Zenon
    <3> QED
      BY <3>1 DEF Silence
  <2> QED
    BY <1>1, <2>1, <2>2
<1>7. OfTheChain' /\ GenuineAnchorIsNeverMissing'
  BY <1>6 DEF OfTheChain, GenuineAnchorIsNeverMissing, Reading
<1>8. Settles'
  BY <1>1, <1>5, <1>6 DEF Settles, Settled, Reading
<1> QED
  BY <1>3, <1>4, <1>7, <1>8 DEF IInv

LEMMA FailedKeeps ==
  ASSUME IInv, Reading, Failed, UNCHANGED world
  PROVE  IInv'
<1>1. /\ contract' = contract /\ seen' = seen
      /\ read \in [ is : {"reading"}, chain : Chains, claim : Records, at : Nat,
                    step : {"eth_chainId", "eth_call"}, reply : Replies,
                    settled : BOOLEAN ]
      /\ read.at \in DOMAIN Rpc[read.chain]
  BY Underway DEF IInv, TypeOK, world
<1>2. CASE read.at < Len(Rpc[read.chain])
  <2>1. read' = [read EXCEPT !.at = @ + 1, !.step = "eth_chainId", !.reply = Silence]
    BY <1>2 DEF Failed
  <2>2. read.at + 1 \in DOMAIN Rpc[read.chain]
    BY <1>1, <1>2, Lists
  <2>3. TypeOK'
    <3>1. /\ read' \in [ is : {"reading"}, chain : Chains, claim : Records, at : Nat,
                         step : {"eth_chainId", "eth_call"}, reply : Replies,
                         settled : BOOLEAN ]
          /\ read'.at = read.at + 1 /\ read'.chain = read.chain
      <4>1. Silence \in Replies /\ read.at + 1 \in Nat
        BY <1>1 DEF Silence, Replies
      <4> QED
        BY <1>1, <2>1, <4>1
    <3> QED
      BY <1>1, <2>2, <3>1 DEF IInv, TypeOK
  <2>4. OfTheChain' /\ GenuineAnchorIsNeverMissing'
    BY <1>1, <2>1 DEF OfTheChain, GenuineAnchorIsNeverMissing, Reading, Silence
  <2>5. Follows' /\ Settles'
    BY <1>1, <2>1 DEF IInv, Follows, Settles, Reading, Silence
  <2> QED
    BY <2>3, <2>4, <2>5 DEF IInv
<1>3. CASE ~(read.at < Len(Rpc[read.chain]))
  <2>1. read' = [is |-> "not consulted", chain |-> read.chain, claim |-> read.claim]
    BY <1>3 DEF Failed
  <2>2. TypeOK'
    BY <1>1, <2>1 DEF IInv, TypeOK, Reading
  <2>3. Follows' /\ OfTheChain' /\ Settles' /\ GenuineAnchorIsNeverMissing'
    BY <1>1, <2>1 DEF IInv, Follows, OfTheChain, Settles,
                      GenuineAnchorIsNeverMissing, Reading
  <2> QED
    BY <2>2, <2>3 DEF IInv
<1> QED
  BY <1>2, <1>3

LEMMA ReplyKeeps ==
  ASSUME IInv, Reply
  PROVE  IInv'
<1>1. /\ contract' = contract /\ seen' = seen /\ Reading
      /\ read \in [ is : {"reading"}, chain : Chains, claim : Records, at : Nat,
                    step : {"eth_chainId", "eth_call"}, reply : Replies,
                    settled : BOOLEAN ]
      /\ read.at \in DOMAIN Rpc[read.chain]
  BY Underway DEF IInv, TypeOK, world, Reply
<1> DEFINE answer == IF read.step = "eth_chainId" THEN [is |-> "id", id |-> Serves[Asked]]
                     ELSE [is |-> "anchor", found |-> seen[Asked]]
<1>2. read' = [read EXCEPT !.reply = answer]
  BY DEF Reply
<1>3. Asked \in Endpoints /\ Serves[Asked] \in Chains /\ seen[Asked] \in Records \cup {None}
  BY <1>1, Lists DEF Asked, IInv, TypeOK
<1>4. answer \in Replies
  BY <1>3 DEF Replies
<1>5. TypeOK'
  BY <1>1, <1>2, <1>4 DEF IInv, TypeOK, Reading
<1>6. /\ answer.is = "id" => answer.id = Serves[Asked]
      /\ answer.is = "anchor" =>
           /\ read.step = "eth_call" /\ Serves[Asked] = read.chain
           /\ answer.found = seen[Asked]
           /\ answer.found \in {None, contract[read.chain]}
  BY <1>1, <1>3 DEF IInv, OfTheChain, Follows
<1>7. Asked' = Asked
  BY <1>1, <1>2 DEF Asked
<1>8. OfTheChain'
  BY <1>1, <1>2, <1>6, <1>7 DEF IInv, OfTheChain, Reading
<1>9. Settles'
  BY <1>1, <1>2, <1>6 DEF IInv, Settles, Reading, Asked
<1>10. Follows' /\ GenuineAnchorIsNeverMissing'
  BY <1>1, <1>2 DEF IInv, Follows, GenuineAnchorIsNeverMissing
<1> QED
  BY <1>5, <1>8, <1>9, <1>10 DEF IInv

LEMMA GarbleKeeps ==
  ASSUME IInv, Garble
  PROVE  IInv'
<1>1. /\ contract' = contract /\ seen' = seen /\ Reading
      /\ read \in [ is : {"reading"}, chain : Chains, claim : Records, at : Nat,
                    step : {"eth_chainId", "eth_call"}, reply : Replies,
                    settled : BOOLEAN ]
      /\ read' = [read EXCEPT !.reply = [is |-> "unreadable"]]
  BY Underway DEF IInv, TypeOK, world, Garble
<1>2. TypeOK'
  BY <1>1 DEF IInv, TypeOK, Reading, Replies
<1>3. OfTheChain'
  BY <1>1 DEF IInv, OfTheChain, Reading, Asked
<1>4. Follows' /\ Settles' /\ GenuineAnchorIsNeverMissing'
  BY <1>1 DEF IInv, Follows, Settles, GenuineAnchorIsNeverMissing, Reading
<1> QED
  BY <1>2, <1>3, <1>4 DEF IInv

LEMMA CheckIdKeeps ==
  ASSUME IInv, CheckId
  PROVE  IInv'
<1>1. /\ contract' = contract /\ seen' = seen /\ Reading /\ UNCHANGED world
      /\ read \in [ is : {"reading"}, chain : Chains, claim : Records, at : Nat,
                    step : {"eth_chainId", "eth_call"}, reply : Replies,
                    settled : BOOLEAN ]
  BY Underway DEF IInv, TypeOK, world, CheckId
<1>2. CASE read.reply.id = read.chain
  <2>1. read' = [read EXCEPT !.step = "eth_call", !.reply = Silence]
    BY <1>2 DEF CheckId
  <2>2. TypeOK'
    BY <1>1, <2>1 DEF IInv, TypeOK, Reading, Silence, Replies
  <2>3. OfTheChain'
    BY <1>1, <1>2, <2>1 DEF IInv, OfTheChain, CheckId, Reading, Asked, Silence
  <2>4. Follows' /\ Settles' /\ GenuineAnchorIsNeverMissing'
    BY <1>1, <2>1 DEF IInv, Follows, Settles, GenuineAnchorIsNeverMissing, Reading, Silence
  <2> QED
    BY <2>2, <2>3, <2>4 DEF IInv
<1>3. CASE read.reply.id # read.chain
  BY <1>1, <1>3, FailedKeeps DEF CheckId
<1> QED
  BY <1>2, <1>3

LEMMA ConcludeKeeps ==
  ASSUME IInv, Conclude
  PROVE  IInv'
<1>1. /\ contract' = contract /\ seen' = seen /\ Reading /\ read.reply.is = "anchor"
      /\ read \in [ is : {"reading"}, chain : Chains, claim : Records, at : Nat,
                    step : {"eth_chainId", "eth_call"}, reply : Replies,
                    settled : BOOLEAN ]
      /\ read' = [ is |-> Compared(read.claim, read.reply.found), chain |-> read.chain,
                   claim |-> read.claim, settled |-> read.settled ]
  BY Underway DEF IInv, TypeOK, world, Conclude
<1>2. Compared(read.claim, read.reply.found) \in Answers
  BY DEF Compared, Answers
<1>3. TypeOK'
  BY <1>1, <1>2 DEF IInv, TypeOK, Reading, Answers
<1>4. Follows' /\ OfTheChain' /\ Settles'
  BY <1>1, <1>2 DEF IInv, Follows, OfTheChain, Settles, Reading, Answers
<1>5. GenuineAnchorIsNeverMissing'
  BY <1>1, ChainAssumption DEF IInv, Settles, GenuineAnchorIsNeverMissing, Reading, Compared
<1> QED
  BY <1>3, <1>4, <1>5 DEF IInv

LEMMA NextKeeps ==
  ASSUME IInv, [Next]_vars
  PROVE  IInv'
<1>1. CASE UNCHANGED vars
  BY <1>1 DEF vars, IInv, TypeOK, Follows, OfTheChain, Settles, Reading, Asked,
              GenuineAnchorIsNeverMissing
<1>2. ASSUME NEW c \in Chains, NEW r \in Records, Record(c, r) PROVE IInv'
  BY <1>2, RecordKeeps
<1>3. ASSUME NEW e \in Endpoints, Follow(e) PROVE IInv'
  BY <1>3, FollowKeeps
<1>4. ASSUME NEW c \in Chains, NEW claim \in Records, NEW following \in SUBSET Chains,
             Begin(c, claim, following)
      PROVE  IInv'
  BY <1>4, BeginKeeps
<1>5. CASE Reply
  BY <1>5, ReplyKeeps
<1>6. CASE Garble
  BY <1>6, GarbleKeeps
<1>7. CASE CheckId
  BY <1>7, CheckIdKeeps
<1>8. CASE Conclude
  BY <1>8, ConcludeKeeps
<1>9. CASE Refuse \/ TimeOut
  BY <1>9, FailedKeeps DEF Refuse, TimeOut
<1> QED
  BY <1>1, <1>2, <1>3, <1>4, <1>5, <1>6, <1>7, <1>8, <1>9 DEF Next, Got

LEMMA Inductive == Spec => []IInv
BY InitHolds, NextKeeps, PTL DEF Spec

\* The variables keep their types, and a read never runs off the end of its list.
THEOREM TypeCorrect == Spec => []TypeOK
BY Inductive, PTL DEF IInv

\* No failure on the way makes a genuine anchor missing, whatever the chains and
\* however many endpoints are listed for them (anchor.ts, verifyAnchor).
THEOREM GenuineAnchors == Spec => []GenuineAnchorIsNeverMissing
BY Inductive, PTL DEF IInv

(***************************************************************************)
(* Lookup: asking endpoints is one step to whoever asked for the anchor.   *)
(***************************************************************************)
LEMMA SameInit == Init => Lookup!Init
BY DEF Init, Lookup!Init, Seen, Reading, Idle, Lookup!Idle

LEMMA FailedIsEnd ==
  ASSUME IInv, Reading, Failed, UNCHANGED world
  PROVE  [Lookup!Next]_Lookup!vars
<1>1. /\ contract' = contract
      /\ read \in [ is : {"reading"}, chain : Chains, claim : Records, at : Nat,
                    step : {"eth_chainId", "eth_call"}, reply : Replies,
                    settled : BOOLEAN ]
      /\ Seen = [is |-> "reading", chain |-> read.chain, claim |-> read.claim]
  BY Underway DEF IInv, world, Seen
<1>2. CASE read.at < Len(Rpc[read.chain])
  <2>1. Seen' = Seen
    BY <1>1, <1>2 DEF Failed, Seen, Reading
  <2> QED
    BY <1>1, <2>1 DEF Lookup!vars
<1>3. CASE ~(read.at < Len(Rpc[read.chain]))
  <2>1. Seen' = [is |-> "not consulted", chain |-> read.chain, claim |-> read.claim]
    BY <1>1, <1>3 DEF Failed, Seen, Reading
  <2> DEFINE ended == "not consulted"
  <2>2. /\ Seen.is = "reading" /\ Seen.claim = read.claim /\ Seen.chain = read.chain
        /\ Seen' = [Seen EXCEPT !.is = ended]
    <3>1. /\ Seen = [is |-> "reading", chain |-> read.chain, claim |-> read.claim]
          /\ Seen' = [is |-> ended, chain |-> read.chain, claim |-> read.claim]
      BY <1>1, <2>1
    <3> HIDE DEF ended
    <3> QED
      BY <3>1
  <2>3. Lookup!End
    BY <1>1, <2>2 DEF Lookup!End
  <2> QED
    BY <2>3 DEF Lookup!Next
<1> QED
  BY <1>2, <1>3

LEMMA ConcludeIsEnd ==
  ASSUME IInv, Conclude
  PROVE  Lookup!End
<1>1. /\ contract' = contract /\ Reading /\ read.reply.is = "anchor"
      /\ read \in [ is : {"reading"}, chain : Chains, claim : Records, at : Nat,
                    step : {"eth_chainId", "eth_call"}, reply : Replies,
                    settled : BOOLEAN ]
      /\ read' = [ is |-> Compared(read.claim, read.reply.found), chain |-> read.chain,
                   claim |-> read.claim, settled |-> read.settled ]
      /\ read.reply.found \in {None, contract[read.chain]}
  BY Underway DEF IInv, OfTheChain, world, Conclude
<1>2. /\ Seen = [is |-> "reading", chain |-> read.chain, claim |-> read.claim]
      /\ Seen' = [ is |-> Compared(read.claim, read.reply.found), chain |-> read.chain,
                   claim |-> read.claim ]
  BY <1>1 DEF Seen, Reading, Compared
<1>3. /\ Seen.is = "reading" /\ Seen.claim = read.claim /\ Seen.chain = read.chain
      /\ Seen' = [Seen EXCEPT !.is = Compared(read.claim, read.reply.found)]
  BY <1>2
<1>4. Compared(read.claim, read.reply.found) = Lookup!Compared(Seen.claim, read.reply.found)
  BY <1>3 DEF Compared, Lookup!Compared
<1> QED
  BY <1>1, <1>3, <1>4 DEF Lookup!End

LEMMA StepIsLookup ==
  ASSUME IInv, [Next]_vars
  PROVE  [Lookup!Next]_Lookup!vars
<1>1. CASE UNCHANGED vars
  BY <1>1 DEF vars, Lookup!vars, Seen, Reading
<1>2. ASSUME NEW c \in Chains, NEW r \in Records, Record(c, r)
      PROVE  [Lookup!Next]_Lookup!vars
  <2>1. Lookup!Record(c, r)
    BY <1>2 DEF Record, Lookup!Record, Seen, Reading
  <2> QED
    BY <2>1 DEF Lookup!Next
<1>3. ASSUME NEW e \in Endpoints, Follow(e)
      PROVE  [Lookup!Next]_Lookup!vars
  BY <1>3 DEF Follow, Lookup!vars, Seen, Reading
<1>4. ASSUME NEW c \in Chains, NEW claim \in Records, NEW following \in SUBSET Chains,
             Begin(c, claim, following)
      PROVE  [Lookup!Next]_Lookup!vars
  <2>1. Seen' \in { [is |-> "reading", chain |-> c, claim |-> claim],
                    [is |-> "not consulted", chain |-> c, claim |-> claim] }
    BY <1>4 DEF Begin, Seen, Reading
  <2>2. Seen.is # "reading"
    BY <1>4 DEF Begin, Seen, Reading
  <2>3. Lookup!Begin(c, claim)
    BY <1>4, <2>1, <2>2 DEF Begin, Lookup!Begin, world
  <2> QED
    BY <2>3 DEF Lookup!Next
<1>5. CASE Reply \/ Garble
  <2>1. /\ contract' = contract /\ Reading
        /\ read \in [ is : {"reading"}, chain : Chains, claim : Records, at : Nat,
                      step : {"eth_chainId", "eth_call"}, reply : Replies,
                      settled : BOOLEAN ]
    BY <1>5, Underway DEF IInv, Reply, Garble, world
  <2>2. Seen' = Seen
    BY <1>5, <2>1 DEF Reply, Garble, Seen, Reading
  <2> QED
    BY <2>1, <2>2 DEF Lookup!vars
<1>6. CASE CheckId
  <2>1. CASE read.reply.id = read.chain
    <3>1. /\ contract' = contract /\ Reading
          /\ read \in [ is : {"reading"}, chain : Chains, claim : Records, at : Nat,
                        step : {"eth_chainId", "eth_call"}, reply : Replies,
                        settled : BOOLEAN ]
      BY <1>6, Underway DEF IInv, CheckId, world
    <3>2. Seen' = Seen
      BY <1>6, <2>1, <3>1 DEF CheckId, Seen, Reading
    <3> QED
      BY <3>1, <3>2 DEF Lookup!vars
  <2>2. CASE read.reply.id # read.chain
    BY <1>6, <2>2, FailedIsEnd DEF CheckId
  <2> QED
    BY <2>1, <2>2
<1>7. CASE Conclude
  BY <1>7, ConcludeIsEnd DEF Lookup!Next
<1>8. CASE Refuse \/ TimeOut
  BY <1>8, FailedIsEnd DEF Refuse, TimeOut
<1> QED
  BY <1>1, <1>2, <1>3, <1>4, <1>5, <1>6, <1>7, <1>8 DEF Next, Got

\* However many endpoints are asked, and whatever fails, hangs or belongs to another
\* chain, a read is one step of Lookup (chain.ts, rpcChainReader; anchor.ts,
\* verifyAnchor).
THEOREM ReadsAreLookups == Spec => ImplementsLookup
<1>1. Spec => [][Lookup!Next]_Lookup!vars
  BY Inductive, StepIsLookup, PTL DEF Spec
<1>2. Spec => Lookup!Init
  BY SameInit DEF Spec
<1> QED
  BY <1>1, <1>2 DEF ImplementsLookup, Lookup!Spec

(***************************************************************************)
(* The page: trust panels, consent, and the reads they allow.              *)
(***************************************************************************)

Row == [shipped : BOOLEAN, on : BOOLEAN]
Additions == [panel : Panels, document : SUBSET Entries, pending : BOOLEAN]
IsTable(r) == DOMAIN r \subseteq Names /\ r \in [DOMAIN r -> Row]

\* The types.
PanelTypes ==
  /\ DOMAIN rows = Panels /\ rows = [p \in Panels |-> rows[p]]
  /\ \A p \in Panels : IsTable(rows[p])
  /\ chainsOn \subseteq Chains
  /\ mounted \subseteq Panels
  /\ adding \in Seq(Additions)

\* Nothing is added to a panel before its shipped set has been read.
AfterShipped ==
  /\ \A i \in DOMAIN adding : adding[i].panel \in mounted
  /\ \A p \in Panels \ mounted : DOMAIN rows[p] = {}

\* The rows marked as shipped are those of the shipped document.
ShippedRows ==
  \A p \in mounted : {n \in DOMAIN rows[p] : rows[p][n].shipped} = NamesIn(Shipped[p])

\* A log is named in one way.
LogsLower == \A name \in DOMAIN rows["logs"] : name.letters = "lower"

Consented == chainsOn \subseteq consented /\ NothingIsSentUnasked

PanelInv == PanelTypes /\ AfterShipped /\ ShippedRows /\ LogsLower

(***************************************************************************)
(* What an addition gives.                                                 *)
(***************************************************************************)
LEMMA PanelNames == "logs" \in Panels /\ "tsa" \in Panels
BY DEF Panels

LEMMA NamesAreNames ==
  ASSUME NEW document \in SUBSET Entries
  PROVE  NamesIn(document) \subseteq Names
BY DEF NamesIn, Entries

\* The rows there are stay as they are, the new ones are those of the document.
LEMMA AddGives ==
  ASSUME NEW before, IsTable(before), NEW document \in SUBSET Entries,
         NEW row \in Row, NEW after, after = Add(before, document, row)
  PROVE  /\ IsTable(after)
         /\ DOMAIN after = DOMAIN before \cup NamesIn(document)
         /\ \A n \in DOMAIN before : n \in DOMAIN after /\ after[n] = before[n]
         /\ \A n \in DOMAIN after \ DOMAIN before :
              n \in NamesIn(document) /\ after[n] = row
<1> DEFINE D == DOMAIN before \cup NamesIn(document)
<1>1. after = [n \in D |-> IF n \in DOMAIN before THEN before[n] ELSE row]
  BY DEF Add
<1>2. DOMAIN after = D /\ D \subseteq Names
  BY <1>1, NamesAreNames DEF IsTable
<1>3. \A n \in D : after[n] = IF n \in DOMAIN before THEN before[n] ELSE row
  BY <1>1
<1>4. \A n \in DOMAIN before : before[n] \in Row
  BY DEF IsTable
<1>5. after \in [D -> Row]
  BY <1>1, <1>4
<1> QED
  BY <1>2, <1>3, <1>5 DEF IsTable

\* A refused document gives none.
LEMMA ResultGives ==
  ASSUME PanelInv, NEW p \in Panels, NEW document \in SUBSET Entries,
         NEW row \in Row, NEW after, after = Result(p, document, row)
  PROVE  /\ IsTable(after)
         /\ DOMAIN after \subseteq DOMAIN rows[p] \cup NamesIn(document)
         /\ \A n \in DOMAIN rows[p] : n \in DOMAIN after /\ after[n] = rows[p][n]
         /\ \A n \in DOMAIN after \ DOMAIN rows[p] :
              n \in NamesIn(document) /\ after[n] = row
         /\ Parses(p, document) => NamesIn(document) \subseteq DOMAIN after
         /\ ~Parses(p, document) => after = rows[p]
         /\ p = "logs" => \A n \in DOMAIN after : n.letters = "lower"
<1>1. IsTable(rows[p])
  BY DEF PanelInv, PanelTypes
<1>2. p = "logs" => \A n \in DOMAIN rows[p] : n.letters = "lower"
  BY DEF PanelInv, LogsLower
<1>3. CASE ~Parses(p, document)
  BY <1>1, <1>2, <1>3 DEF Result
<1>4. CASE Parses(p, document)
  <2>1. after = Add(rows[p], document, row)
    BY <1>4 DEF Result
  <2>2. p = "logs" => \A n \in NamesIn(document) : n.letters = "lower"
    BY <1>4 DEF Parses, Fits, NamesIn
  <2>3. /\ IsTable(after)
        /\ DOMAIN after = DOMAIN rows[p] \cup NamesIn(document)
        /\ \A n \in DOMAIN rows[p] : n \in DOMAIN after /\ after[n] = rows[p][n]
        /\ \A n \in DOMAIN after \ DOMAIN rows[p] :
             n \in NamesIn(document) /\ after[n] = row
    <3>1. PICK before : before = rows[p]
      OBVIOUS
    <3>2. IsTable(before) /\ after = Add(before, document, row)
      BY <1>1, <2>1, <3>1
    <3>3. /\ IsTable(after)
          /\ DOMAIN after = DOMAIN before \cup NamesIn(document)
          /\ \A n \in DOMAIN before : n \in DOMAIN after /\ after[n] = before[n]
          /\ \A n \in DOMAIN after \ DOMAIN before :
               n \in NamesIn(document) /\ after[n] = row
      BY <3>2, AddGives
    <3> QED
      BY <3>1, <3>3
  <2>4. ASSUME p = "logs", NEW n \in DOMAIN after PROVE n.letters = "lower"
    <3>1. n \in DOMAIN rows[p] \/ n \in NamesIn(document)
      BY <2>3
    <3> QED
      BY <1>2, <2>2, <2>4, <3>1
  <2>5. /\ DOMAIN after \subseteq DOMAIN rows[p] \cup NamesIn(document)
        /\ NamesIn(document) \subseteq DOMAIN after
    BY <2>3
  <2> QED
    BY <1>4, <2>3, <2>4, <2>5
<1> QED
  BY <1>3, <1>4

\* A step that changes the rows of one panel leaves the other's.
LEMMA OneTable ==
  ASSUME PanelInv, NEW p \in Panels, NEW after, rows' = [rows EXCEPT ![p] = after]
  PROVE  /\ DOMAIN rows' = Panels /\ rows' = [q \in Panels |-> rows'[q]]
         /\ rows'[p] = after
         /\ \A q \in Panels \ {p} : rows'[q] = rows[q]
BY DEF PanelInv, PanelTypes

(***************************************************************************)
(* The invariant of the panels.                                            *)
(***************************************************************************)
LEMMA PanelsStart == PanelInit => PanelInv
<1> SUFFICES ASSUME PanelInit PROVE PanelInv
  OBVIOUS
<1>1. /\ rows = [p \in Panels |-> << >>] /\ chainsOn = {}
      /\ mounted = {} /\ adding = << >>
  BY DEF PanelInit
<1>2. \A p \in Panels : DOMAIN rows[p] = {} /\ IsTable(rows[p])
  <2> TAKE p \in Panels
  <2>1. rows[p] = << >>
    BY <1>1
  <2>2. DOMAIN << >> = {} /\ << >> \in [{} -> Row]
    OBVIOUS
  <2> QED
    BY <2>1, <2>2 DEF IsTable
<1>3. PanelTypes
  BY <1>1, <1>2 DEF PanelTypes
<1> QED
  BY <1>1, <1>2, <1>3, PanelNames DEF PanelInv, AfterShipped, ShippedRows, LogsLower

LEMMA MountKeeps ==
  ASSUME PanelInv, NEW p \in Panels, Mount(p)
  PROVE  PanelInv'
<1> DEFINE after == Result(p, Shipped[p], ShippedRow)
<1>1. /\ p \notin mounted /\ mounted' = mounted \cup {p}
      /\ rows' = [rows EXCEPT ![p] = after]
      /\ chainsOn' = chainsOn /\ adding' = adding
  BY DEF Mount
<1>2. Shipped[p] \in SUBSET Entries /\ Parses(p, Shipped[p])
  BY PanelAssumption
<1>3. DOMAIN rows[p] = {}
  BY <1>1 DEF PanelInv, AfterShipped
<1>4. /\ IsTable(after)
      /\ DOMAIN after \subseteq DOMAIN rows[p] \cup NamesIn(Shipped[p])
      /\ \A n \in DOMAIN after \ DOMAIN rows[p] :
           n \in NamesIn(Shipped[p]) /\ after[n] = ShippedRow
      /\ NamesIn(Shipped[p]) \subseteq DOMAIN after
      /\ p = "logs" => \A n \in DOMAIN after : n.letters = "lower"
  <2> HIDE DEF after
  <2>1. ShippedRow \in Row /\ after = Result(p, Shipped[p], ShippedRow)
    BY DEF after, Row, ShippedRow, AddedRow
  <2> QED
    BY <1>2, <2>1, ResultGives
<1> HIDE DEF after
<1>5. /\ DOMAIN rows' = Panels /\ rows' = [q \in Panels |-> rows'[q]]
      /\ rows'[p] = after
      /\ \A q \in Panels \ {p} : rows'[q] = rows[q]
  BY <1>1, OneTable
<1>6. PanelTypes'
  BY <1>1, <1>4, <1>5 DEF PanelInv, PanelTypes
<1>7. AfterShipped'
  BY <1>1, <1>5 DEF PanelInv, AfterShipped
<1>8. {n \in DOMAIN after : after[n].shipped} = NamesIn(Shipped[p])
  BY <1>3, <1>4 DEF ShippedRow
<1>9. ShippedRows'
  BY <1>1, <1>5, <1>8 DEF PanelInv, PanelTypes, ShippedRows
<1>10. LogsLower'
  BY <1>4, <1>5, PanelNames DEF PanelInv, LogsLower
<1> QED
  BY <1>6, <1>7, <1>9, <1>10 DEF PanelInv

\* A line is an entry too.
LEMMA ChosenAreEntries ==
  ASSUME NEW p \in Panels, NEW document \in Documents \cup Lines(p)
  PROVE  document \in SUBSET Entries
<1>1. CASE document \in Documents
  BY <1>1, PanelAssumption
<1>2. CASE document \in Lines(p)
  <2>1. PICK entry \in UNION Documents :
          document = {[entry EXCEPT !.name.letters = IF p = "tsa" THEN "lower" ELSE @]}
    BY <1>2 DEF Lines
  <2>2. entry \in Entries
    BY <2>1, PanelAssumption
  <2> DEFINE letters == IF p = "tsa" THEN "lower" ELSE entry.name.letters
  <2>3. letters \in {"lower", "upper"} /\ entry.name \in Names
    BY <2>2 DEF Entries, Names
  <2>4. document = {[entry EXCEPT !.name.letters = letters]}
    BY <2>1
  <2> HIDE DEF letters
  <2>5. [entry.name EXCEPT !.letters = letters] \in Names
    BY <2>3 DEF Names
  <2>6. [entry EXCEPT !.name = [entry.name EXCEPT !.letters = letters]] \in Entries
    BY <2>2, <2>5 DEF Entries
  <2>7. document = {[entry EXCEPT !.name = [entry.name EXCEPT !.letters = letters]]}
    BY <2>4
  <2> QED
    BY <2>6, <2>7
<1> QED
  BY <1>1, <1>2

LEMMA ChooseKeeps ==
  ASSUME PanelInv, NEW p \in Panels, NEW document \in Documents \cup Lines(p),
         Choose(p, document)
  PROVE  PanelInv'
<1> DEFINE chosen == [panel |-> p, document |-> document, pending |-> TRUE]
<1>1. /\ p \in mounted /\ adding' = Append(adding, chosen)
      /\ rows' = rows /\ chainsOn' = chainsOn /\ mounted' = mounted
  BY DEF Choose
<1>2. chosen \in Additions
  BY ChosenAreEntries DEF Additions
<1>3. adding \in Seq(Additions)
  BY DEF PanelInv, PanelTypes
<1>4. chosen.panel = p
  OBVIOUS
<1> HIDE DEF chosen
<1>5. /\ adding' \in Seq(Additions)
      /\ Len(adding') = Len(adding) + 1
      /\ \A i \in 1 .. Len(adding) : adding'[i] = adding[i]
      /\ adding'[Len(adding) + 1] = chosen
  BY <1>1, <1>2, <1>3, AppendProperties
<1>6. \A i \in DOMAIN adding' : adding'[i].panel \in mounted
  <2> TAKE i \in DOMAIN adding'
  <2>1. i \in 1 .. Len(adding) \/ i = Len(adding) + 1
    BY <1>3, <1>5, LenProperties
  <2>2. DOMAIN adding = 1 .. Len(adding)
    BY <1>3
  <2> QED
    BY <1>1, <1>4, <1>5, <2>1, <2>2 DEF PanelInv, AfterShipped
<1>7. PanelTypes'
  BY <1>1, <1>5 DEF PanelInv, PanelTypes
<1>8. AfterShipped'
  BY <1>1, <1>6 DEF PanelInv, AfterShipped
<1>9. ShippedRows' /\ LogsLower'
  BY <1>1 DEF PanelInv, ShippedRows, LogsLower
<1> QED
  BY <1>7, <1>8, <1>9 DEF PanelInv

\* The addition that resolves.
LEMMA Resolving ==
  ASSUME PanelInv, NEW i \in DOMAIN adding
  PROVE  /\ adding[i].panel \in mounted /\ adding[i].panel \in Panels
         /\ adding[i].document \in SUBSET Entries
<1>1. adding[i] \in Additions
  <2>1. adding \in Seq(Additions)
    BY DEF PanelInv, PanelTypes
  <2> QED
    BY <2>1, ElementOfSeq
<1> QED
  BY <1>1 DEF PanelInv, AfterShipped, Additions

LEMMA AddedKeeps ==
  ASSUME PanelInv, NEW i \in DOMAIN adding, Added(i)
  PROVE  PanelInv'
<1>2. PICK p \in Panels, document \in SUBSET Entries :
             p = adding[i].panel /\ document = adding[i].document /\ p \in mounted
  BY Resolving
<1> DEFINE after == Result(p, document, AddedRow)
<1>1. /\ rows' = [rows EXCEPT ![p] = after]
      /\ adding' = [adding EXCEPT ![i].pending = FALSE]
      /\ chainsOn' = chainsOn /\ mounted' = mounted
  BY <1>2 DEF Added
<1>3. /\ IsTable(after)
      /\ \A n \in DOMAIN rows[p] : n \in DOMAIN after /\ after[n] = rows[p][n]
      /\ \A n \in DOMAIN after \ DOMAIN rows[p] : after[n] = AddedRow
      /\ p = "logs" => \A n \in DOMAIN after : n.letters = "lower"
  <2> HIDE DEF after
  <2>1. AddedRow \in Row /\ after = Result(p, document, AddedRow)
    BY DEF after, Row, ShippedRow, AddedRow
  <2> QED
    BY <2>1, ResultGives
<1>4. /\ adding' \in Seq(Additions)
      /\ DOMAIN adding' = DOMAIN adding
      /\ \A j \in DOMAIN adding : adding'[j].panel = adding[j].panel
  <2>1. adding \in Seq(Additions)
    BY DEF PanelInv, PanelTypes
  <2>2. [adding[i] EXCEPT !.pending = FALSE] \in Additions
        /\ [adding[i] EXCEPT !.pending = FALSE].panel = adding[i].panel
    <3>1. adding[i] \in Additions
      BY <2>1, ElementOfSeq
    <3> QED
      BY <3>1 DEF Additions
  <2>3. adding' = [adding EXCEPT ![i] = [adding[i] EXCEPT !.pending = FALSE]]
    BY <1>1
  <2>4. i \in 1 .. Len(adding)
    BY <2>1
  <2>5. adding' \in Seq(Additions) /\ DOMAIN adding' = DOMAIN adding
    BY <2>1, <2>2, <2>3, <2>4, ExceptSeq
  <2>6. \A j \in DOMAIN adding : adding'[j].panel = adding[j].panel
    BY <2>2, <2>3
  <2> QED
    BY <2>5, <2>6
<1> HIDE DEF after
<1>5. /\ DOMAIN rows' = Panels /\ rows' = [q \in Panels |-> rows'[q]]
      /\ rows'[p] = after
      /\ \A q \in Panels \ {p} : rows'[q] = rows[q]
  BY <1>1, <1>2, OneTable
<1>6. PanelTypes'
  BY <1>1, <1>3, <1>4, <1>5 DEF PanelInv, PanelTypes
<1>7. AfterShipped'
  BY <1>1, <1>2, <1>4, <1>5 DEF PanelInv, AfterShipped
<1>8. {n \in DOMAIN after : after[n].shipped} = {n \in DOMAIN rows[p] : rows[p][n].shipped}
  BY <1>3 DEF AddedRow
<1>9. ShippedRows'
  BY <1>1, <1>2, <1>5, <1>8 DEF PanelInv, PanelTypes, ShippedRows
<1>10. LogsLower'
  BY <1>3, <1>5, PanelNames DEF PanelInv, LogsLower
<1> QED
  BY <1>6, <1>7, <1>9, <1>10 DEF PanelInv

\* A switch changes one row, and nothing of it but whether it is on.
LEMMA SwitchGives ==
  ASSUME PanelInv, NEW p \in Panels, NEW name \in DOMAIN rows[p], Switch(p, name)
  PROVE  /\ DOMAIN rows' = Panels /\ rows' = [q \in Panels |-> rows'[q]]
         /\ IsTable(rows'[p]) /\ DOMAIN rows'[p] = DOMAIN rows[p]
         /\ \A n \in DOMAIN rows[p] : rows'[p][n].shipped = rows[p][n].shipped
         /\ \A n \in DOMAIN rows[p] \ {name} : rows'[p][n] = rows[p][n]
         /\ \A q \in Panels \ {p} : rows'[q] = rows[q]
<1> DEFINE after == [rows[p] EXCEPT ![name].on = ~@]
<1>1. rows' = [rows EXCEPT ![p] = after]
  BY DEF Switch
<1>2. IsTable(rows[p])
  BY DEF PanelInv, PanelTypes
<1>3. rows[p][name] \in Row
  BY <1>2 DEF IsTable
<1>4. /\ [rows[p][name] EXCEPT !.on = ~@] \in Row
      /\ [rows[p][name] EXCEPT !.on = ~@].shipped = rows[p][name].shipped
  BY <1>3 DEF Row
<1>5. after = [rows[p] EXCEPT ![name] = [rows[p][name] EXCEPT !.on = ~@]]
  OBVIOUS
<1>6. /\ after \in [DOMAIN rows[p] -> Row]
      /\ \A n \in DOMAIN rows[p] : after[n].shipped = rows[p][n].shipped
      /\ \A n \in DOMAIN rows[p] \ {name} : after[n] = rows[p][n]
  BY <1>2, <1>4, <1>5 DEF IsTable
<1> HIDE DEF after
<1>7. /\ DOMAIN rows' = Panels /\ rows' = [q \in Panels |-> rows'[q]]
      /\ rows'[p] = after /\ \A q \in Panels \ {p} : rows'[q] = rows[q]
  BY <1>1, OneTable
<1> QED
  BY <1>2, <1>6, <1>7 DEF IsTable

LEMMA SwitchKeeps ==
  ASSUME PanelInv, NEW p \in Panels, NEW name \in DOMAIN rows[p], Switch(p, name)
  PROVE  PanelInv'
<1>1. chainsOn' = chainsOn /\ mounted' = mounted /\ adding' = adding
  BY DEF Switch
<1>2. /\ DOMAIN rows' = Panels /\ rows' = [q \in Panels |-> rows'[q]]
      /\ IsTable(rows'[p]) /\ DOMAIN rows'[p] = DOMAIN rows[p]
      /\ \A n \in DOMAIN rows[p] : rows'[p][n].shipped = rows[p][n].shipped
      /\ \A q \in Panels \ {p} : rows'[q] = rows[q]
  BY SwitchGives
<1>3. PanelTypes'
  BY <1>1, <1>2 DEF PanelInv, PanelTypes
<1>4. AfterShipped'
  BY <1>1, <1>2 DEF PanelInv, AfterShipped
<1>5. {n \in DOMAIN rows'[p] : rows'[p][n].shipped} = {n \in DOMAIN rows[p] : rows[p][n].shipped}
  BY <1>2
<1>6. ShippedRows'
  BY <1>1, <1>2, <1>5 DEF PanelInv, PanelTypes, ShippedRows
<1>7. LogsLower'
  BY <1>2, PanelNames DEF PanelInv, LogsLower
<1> QED
  BY <1>3, <1>4, <1>6, <1>7 DEF PanelInv

LEMMA SwitchChainKeeps ==
  ASSUME PanelInv, NEW c \in Chains, SwitchChain(c)
  PROVE  PanelInv'
BY DEF SwitchChain, PanelInv, PanelTypes, AfterShipped, ShippedRows, LogsLower

LEMMA PanelsKeep ==
  ASSUME PanelInv, PanelNext \/ UNCHANGED panel
  PROVE  PanelInv'
<1>1. CASE \E p \in Panels : Mount(p)
  BY <1>1, MountKeeps
<1>2. CASE \E p \in Panels : \E document \in Documents \cup Lines(p) : Choose(p, document)
  BY <1>2, ChooseKeeps
<1>3. CASE \E i \in DOMAIN adding : Added(i)
  BY <1>3, AddedKeeps
<1>4. CASE \E p \in Panels : \E name \in DOMAIN rows[p] : Switch(p, name)
  BY <1>4, SwitchKeeps
<1>5. CASE \E c \in Chains : SwitchChain(c)
  BY <1>5, SwitchChainKeeps
<1>6. CASE UNCHANGED panel
  BY <1>6 DEF panel, PanelInv, PanelTypes, AfterShipped, ShippedRows, LogsLower
<1> QED
  BY <1>1, <1>2, <1>3, <1>4, <1>5, <1>6 DEF PanelNext

(***************************************************************************)
(* The page: each step is one of the panels or one of the reader.          *)
(***************************************************************************)
LEMMA StepOfPanels ==
  ASSUME [PageNext]_all
  PROVE  PanelNext \/ UNCHANGED panel
BY DEF PageNext, all

LEMMA StepOfReader ==
  ASSUME PanelInv, [PageNext]_all
  PROVE  [Next]_vars
<1>1. CASE UNCHANGED vars
  BY <1>1
<1>2. CASE ReaderNext
  <2>1. chainsOn \in SUBSET Chains
    BY DEF PanelInv, PanelTypes
  <2>2. ASSUME NEW c \in Chains, NEW claim \in Records, Consult(c, claim) PROVE Next
    BY <2>1, <2>2 DEF Consult, Following, Next
  <2> QED
    BY <1>2, <2>2 DEF ReaderNext, Next
<1> QED
  BY <1>1, <1>2 DEF PageNext, all, vars

LEMMA PanelsHold == PageSpec => []PanelInv
<1>1. PageInit => PanelInv
  BY PanelsStart DEF PageInit
<1>2. PanelInv /\ [PageNext]_all => PanelInv'
  BY StepOfPanels, PanelsKeep
<1> QED
  BY <1>1, <1>2, PTL DEF PageSpec

\* The composition restricts the reader and does nothing else to it.
LEMMA PagesReadAnchors == PageSpec => Spec
<1>1. PageInit => Init
  BY DEF PageInit
<1> QED
  BY <1>1, PanelsHold, StepOfReader, PTL DEF PageSpec, Spec

\* A genuine anchor is never missing while the reader throws switches either
\* (web/src/trust.ts, chainReader).
THEOREM GenuineAnchorsOnThePage == PageSpec => []GenuineAnchorIsNeverMissing
BY PagesReadAnchors, GenuineAnchors, PTL

\* Nor does a switch thrown in the middle make a read more than one step of Lookup
\* (web/src/trust.ts, chainReader).
THEOREM PageReadsAreLookups == PageSpec => ImplementsLookup
BY PagesReadAnchors, ReadsAreLookups, PTL

(***************************************************************************)
(* Whom the page asks.                                                     *)
(***************************************************************************)
\* No step of a read but its beginning chooses a chain.
LEMMA ReadStaysOnItsChain ==
  ASSUME TypeOK, Reply \/ Garble \/ Got \/ TimeOut
  PROVE  Reading /\ (read'.is = "not consulted" \/ read'.chain = read.chain)
<1>1. Reading
  BY DEF Reply, Garble, Got, CheckId, Conclude, Refuse, TimeOut
<1>2. read \in [ is : {"reading"}, chain : Chains, claim : Records, at : Nat,
                 step : {"eth_chainId", "eth_call"}, reply : Replies,
                 settled : BOOLEAN ]
  BY <1>1, Underway
<1>3. CASE Failed
  <2>1. CASE read.at < Len(Rpc[read.chain])
    <3>1. read' = [read EXCEPT !.at = @ + 1, !.step = "eth_chainId", !.reply = Silence]
      BY <1>3, <2>1 DEF Failed
    <3> QED
      BY <1>1, <1>2, <3>1
  <2>2. CASE ~(read.at < Len(Rpc[read.chain]))
    BY <1>1, <1>3, <2>2 DEF Failed
  <2> QED
    BY <2>1, <2>2
<1>4. CASE Conclude
  BY <1>4 DEF Conclude
<1>5. CASE ~Failed /\ ~Conclude
  BY <1>2, <1>5 DEF Reply, Garble, Got, CheckId, Refuse, TimeOut
<1> QED
  BY <1>1, <1>3, <1>4, <1>5

LEMMA ConsentKeeps ==
  ASSUME Consented, TypeOK, [PageNext]_all
  PROVE  Consented'
<1>1. CASE PanelNext /\ consented' = consented \cup chainsOn' /\ UNCHANGED vars
  BY <1>1 DEF Consented, NothingIsSentUnasked, vars
<1>2. CASE ReaderNext /\ UNCHANGED <<panel, consented>>
  <2>1. chainsOn' = chainsOn /\ consented' = consented
    BY <1>2 DEF panel
  <2> SUFFICES NothingIsSentUnasked'
    BY <2>1 DEF Consented
  <2>2. ASSUME NEW c \in Chains, NEW claim \in Records, Consult(c, claim)
        PROVE  NothingIsSentUnasked'
    BY <2>1, <2>2 DEF Consult, Following, Begin, Consented, NothingIsSentUnasked
  <2>3. ASSUME read' = read
        PROVE  NothingIsSentUnasked'
    BY <2>1, <2>3 DEF Consented, NothingIsSentUnasked
  <2>4. CASE Reply \/ Garble \/ Got \/ TimeOut
    BY <2>1, <2>4, ReadStaysOnItsChain DEF Consented, NothingIsSentUnasked, Reading
  <2>5. CASE \E c \in Chains, r \in Records : Record(c, r)
    BY <2>3, <2>5 DEF Record
  <2>6. CASE \E e \in Endpoints : Follow(e)
    BY <2>3, <2>6 DEF Follow
  <2>7. CASE \E c \in Chains, claim \in Records : Consult(c, claim)
    BY <2>2, <2>7
  <2> QED
    BY <1>2, <2>4, <2>5, <2>6, <2>7 DEF ReaderNext
<1>3. CASE UNCHANGED all
  BY <1>3 DEF all, panel, vars, Consented, NothingIsSentUnasked
<1> QED
  BY <1>1, <1>2, <1>3 DEF PageNext

\* No proof makes the page ask a chain its reader never switched on (trust.ts, "Off
\* until the reader asks").
THEOREM OnlyTheAllowedAreAsked == PageSpec => []NothingIsSentUnasked
<1>1. PageInit => Consented
  BY DEF PageInit, PanelInit, Init, Idle, Consented, NothingIsSentUnasked
<1>2. PageSpec => []TypeOK
  BY PagesReadAnchors, TypeCorrect, PTL
<1>3. Consented => NothingIsSentUnasked
  BY DEF Consented
<1> QED
  BY <1>1, <1>2, <1>3, ConsentKeeps, PTL DEF PageSpec

(***************************************************************************)
(* What the page trusts.                                                   *)
(***************************************************************************)
LEMMA UnchangedIsShipped ==
  ASSUME PanelInv, ~Changed, NEW p \in mounted
  PROVE  Trusted(p) = KeysOf(Shipped[p])
<1>1. p \in Panels
  BY DEF PanelInv, PanelTypes
<1>2. \A n \in DOMAIN rows[p] : rows[p][n].shipped /\ rows[p][n].on
  BY <1>1 DEF Changed
<1>3. {n \in DOMAIN rows[p] : rows[p][n].shipped} = NamesIn(Shipped[p])
  BY DEF PanelInv, ShippedRows
<1>4. {n \in DOMAIN rows[p] : rows[p][n].on} = NamesIn(Shipped[p])
  BY <1>2, <1>3
<1> QED
  BY <1>4 DEF Trusted, KeysOf, NamesIn

\* A setup that is not the shipped one is told (trust.ts, trustInUse: "a changed setup
\* is never hidden").
THEOREM ChangesAreTold == PageSpec => []ChangeIsNeverHidden
<1>1. PanelInv => ChangeIsNeverHidden
  BY UnchangedIsShipped DEF ChangeIsNeverHidden
<1> QED
  BY <1>1, PanelsHold, PTL

\* A step is a switch of this panel or leaves every row that is there as it is.
RowsStay(p) == \A n \in DOMAIN rows[p] : n \in DOMAIN rows'[p] /\ rows'[p][n] = rows[p][n]

LEMMA SwitchOrStay ==
  ASSUME PanelInv, PanelNext, NEW p \in Panels
  PROVE  RowsStay(p) \/ \E name \in DOMAIN rows[p] : Switch(p, name)
<1>1. ASSUME rows'[p] = rows[p] PROVE RowsStay(p)
  BY <1>1 DEF RowsStay
<1>2. ASSUME NEW q \in Panels, NEW document \in SUBSET Entries, NEW row \in Row,
             rows' = [rows EXCEPT ![q] = Result(q, document, row)]
      PROVE  RowsStay(p)
  <2> DEFINE after == Result(q, document, row)
  <2>0. after = Result(q, document, row)
    OBVIOUS
  <2> HIDE DEF after
  <2>1. \A n \in DOMAIN rows[q] : n \in DOMAIN after /\ after[n] = rows[q][n]
    BY <2>0, ResultGives
  <2>2. rows'[q] = after /\ \A r \in Panels \ {q} : rows'[r] = rows[r]
    <3>1. rows' = [rows EXCEPT ![q] = after]
      BY <1>2 DEF after
    <3> QED
      BY <3>1, OneTable
  <2>3. CASE p = q
    BY <2>1, <2>2, <2>3 DEF RowsStay
  <2>4. CASE p # q
    BY <1>1, <2>2, <2>4
  <2> QED
    BY <2>3, <2>4
<1>3. ASSUME NEW q \in Panels, Mount(q) PROVE RowsStay(p)
  <2>1. Shipped[q] \in SUBSET Entries /\ ShippedRow \in Row
    BY PanelAssumption DEF ShippedRow, Row
  <2> QED
    BY <1>2, <1>3, <2>1 DEF Mount
<1>4. ASSUME NEW i \in DOMAIN adding, Added(i) PROVE RowsStay(p)
  <2>1. PICK q \in Panels, document \in SUBSET Entries :
          q = adding[i].panel /\ document = adding[i].document
    BY Resolving
  <2>2. rows' = [rows EXCEPT ![q] = Result(q, document, AddedRow)]
    BY <1>4, <2>1 DEF Added
  <2>3. AddedRow \in Row
    BY DEF AddedRow, Row
  <2> QED
    BY <1>2, <2>2, <2>3
<1>5. ASSUME NEW q \in Panels, NEW name \in DOMAIN rows[q], Switch(q, name), q # p
      PROVE  RowsStay(p)
  BY <1>1, <1>5, SwitchGives
<1>6. ASSUME NEW q \in Panels, NEW document, Choose(q, document) PROVE RowsStay(p)
  BY <1>1, <1>6 DEF Choose
<1>7. ASSUME NEW c \in Chains, SwitchChain(c) PROVE RowsStay(p)
  BY <1>1, <1>7 DEF SwitchChain
<1> QED
  BY <1>3, <1>4, <1>5, <1>6, <1>7 DEF PanelNext

LEMMA OffIsKept ==
  ASSUME PanelInv, PanelNext, NEW p \in Panels, NEW k \in Keys,
         k \in Known(p) \ Trusted(p), k \in Trusted(p)'
  PROVE  \/ \E name \in DOMAIN rows[p] : name.key = k /\ Switch(p, name)
         \/ p = "tsa" /\ SpeltTwice(p, k)'
<1>1. PICK m \in DOMAIN rows[p] : m.key = k
  BY DEF Known
<1>2. PICK n \in DOMAIN rows'[p] : n.key = k /\ rows'[p][n].on
  BY DEF Trusted
<1>3. \A x \in DOMAIN rows[p] : x.key = k => ~rows[p][x].on
  BY DEF Trusted
<1>4. PanelInv'
  BY PanelsKeep
<1>5. CASE RowsStay(p)
  <2>1. m \in DOMAIN rows'[p] /\ n \notin DOMAIN rows[p]
    BY <1>2, <1>3, <1>5 DEF RowsStay
  <2>2. m \in Names /\ n \in Names /\ m # n
    BY <1>4, <2>1 DEF PanelInv, PanelTypes, IsTable
  <2>3. m.letters # n.letters
    BY <1>1, <1>2, <2>2 DEF Names
  <2>4. SpeltTwice(p, k)'
    BY <1>1, <1>2, <2>1, <2>3 DEF SpeltTwice
  <2>5. p # "logs"
    BY <1>4, <2>1, <2>3 DEF PanelInv, LogsLower
  <2> QED
    BY <2>4, <2>5 DEF Panels
<1>6. ASSUME NEW name \in DOMAIN rows[p], Switch(p, name)
      PROVE  name.key = k
  <2>1. DOMAIN rows'[p] = DOMAIN rows[p] /\ \A x \in DOMAIN rows[p] \ {name} : rows'[p][x] = rows[p][x]
    BY <1>6, SwitchGives
  <2>2. n = name
    BY <1>2, <1>3, <2>1
  <2> QED
    BY <1>2, <2>2
<1> QED
  BY <1>5, <1>6, SwitchOrStay

LEMMA WholeIsTaken ==
  ASSUME PanelInv, NEW i \in DOMAIN adding, NEW p \in Panels, Added(i), adding[i].panel = p
  PROVE  rows' = rows \/ KeysOf(adding[i].document) \subseteq Known(p)'
<1>1. PICK document \in SUBSET Entries : document = adding[i].document
  BY Resolving
<1> DEFINE after == Result(p, document, AddedRow)
<1>2. rows' = [rows EXCEPT ![p] = after]
  BY <1>1 DEF Added
<1>3. /\ Parses(p, document) => NamesIn(document) \subseteq DOMAIN after
      /\ ~Parses(p, document) => after = rows[p]
  <2> HIDE DEF after
  <2>1. AddedRow \in Row /\ after = Result(p, document, AddedRow)
    BY DEF after, Row, AddedRow
  <2> QED
    BY <2>1, ResultGives
<1> HIDE DEF after
<1>4. /\ DOMAIN rows' = Panels /\ rows' = [q \in Panels |-> rows'[q]]
      /\ rows'[p] = after /\ \A q \in Panels \ {p} : rows'[q] = rows[q]
  BY <1>2, OneTable
<1>5. CASE Parses(p, document)
  BY <1>1, <1>3, <1>4, <1>5 DEF KeysOf, NamesIn, Known
<1>6. CASE ~Parses(p, document)
  <2>1. \A q \in Panels : rows'[q] = rows[q]
    BY <1>3, <1>4, <1>6
  <2>2. rows = [q \in Panels |-> rows[q]]
    BY DEF PanelInv, PanelTypes
  <2> QED
    BY <1>4, <2>1, <2>2
<1> QED
  BY <1>5, <1>6

\* However many additions are under way and in whatever order they resolve, none puts
\* on again what the reader switched off, but for an authority spelt in capitals, and
\* none leaves a document half in (trust.ts, add and addTsa).
THEOREM AdditionsHonest == PageSpec => AdditionsAreHonest
<1>1. PanelInv /\ [PageNext]_all =>
        [\A p \in Panels, k \in Keys :
           /\ k \in Known(p) \ Trusted(p)
           /\ k \in Trusted(p)'
           => \/ \E name \in DOMAIN rows[p] : name.key = k /\ Switch(p, name)
              \/ p = "tsa" /\ SpeltTwice(p, k)']_panel
  BY StepOfPanels, OffIsKept
<1>2. PanelInv /\ [PageNext]_all =>
        [\A i \in DOMAIN adding, p \in Panels :
           Added(i) /\ adding[i].panel = p =>
             rows' = rows \/ KeysOf(adding[i].document) \subseteq Known(p)']_panel
  BY WholeIsTaken
<1>3. PageSpec => OffStaysOff
  BY <1>1, PanelsHold, PTL DEF PageSpec, OffStaysOff
<1>4. PageSpec => TakenWhole
  BY <1>2, PanelsHold, PTL DEF PageSpec, TakenWhole
<1> QED
  BY <1>3, <1>4 DEF AdditionsAreHonest
=============================================================================
