------------------------------- MODULE Lookup -------------------------------
(***************************************************************************)
(* What reading an anchor on a chain promises (core/src/anchor.ts): a read *)
(* ends in one step, having learnt what the contract holds under the id,   *)
(* or held not long ago, or nothing at all.  Who is asked, in what order,  *)
(* and what fails on the way is not said here.                             *)
(***************************************************************************)
EXTENDS Naturals

CONSTANTS
  Chains,     \* the public chains there are
  Records,    \* what a contract may hold under the id the proof names
  None

VARIABLES
  contract,   \* [Chains -> what the contract holds under that id]
  read        \* the read of one verification
vars == <<contract, read>>

Idle == [is |-> "idle"]

\* What the anchor check makes of a record: the proof's, another's, or none.
Compared(claim, found) ==
  CASE found = None  -> "not found on chain"
    [] found = claim -> "on chain"
    [] OTHER         -> "differs from the chain"

Init ==
  /\ contract = [c \in Chains |-> None]
  /\ read = Idle

\* The operator records a batch: an id is written once.
Record(c, r) ==
  /\ contract[c] = None
  /\ contract' = [contract EXCEPT ![c] = r]
  /\ UNCHANGED read

\* A verification meets an anchor on a chain this reader follows, or it does not.
Begin(c, claim) ==
  /\ read.is # "reading"
  /\ read' \in { [is |-> "reading", chain |-> c, claim |-> claim],
                 [is |-> "not consulted", chain |-> c, claim |-> claim] }
  /\ UNCHANGED contract

End ==
  /\ read.is = "reading"
  /\ \/ read' = [read EXCEPT !.is = "not consulted"]
     \/ \E found \in {None, contract[read.chain]} :
          read' = [read EXCEPT !.is = Compared(read.claim, found)]
  /\ UNCHANGED contract

Next ==
  \/ \E c \in Chains, r \in Records : Record(c, r)
  \/ \E c \in Chains, claim \in Records : Begin(c, claim)
  \/ End

Spec == Init /\ [][Next]_vars
=============================================================================
