------------------------------- MODULE Merkle -------------------------------
(***************************************************************************)
(* The two RFC 6962 checks of core/src/merkle.ts, one path node per step:  *)
(* that a leaf stands at an index of a tree, and that a tree extends an    *)
(* older one.  Both walk from a node up to the root with two counters, fn  *)
(* for the node and sn for the last node of its level.                     *)
(*                                                                         *)
(* A hash stands for what was hashed: <<i>> for a leaf, <<l, r>> for a     *)
(* node, so that two are equal exactly when their preimages are.  Indices  *)
(* are exact, as they are below 2^53 in the code.                          *)
(***************************************************************************)
EXTENDS Integers, Sequences

CONSTANTS
  MaxSize,      \* honest logs prove things about trees of up to MaxSize leaves
  ForgedSize,   \* a bound: forged claims are about trees of up to ForgedSize
  ForgedPath    \* a bound on the nodes of a forged path

ASSUME MerkleAssumption ==
  MaxSize \in Nat \ {0} /\ ForgedSize \in Nat /\ ForgedPath \in Nat

VARIABLES
  claim,     \* [kind, log, number, hash, path]: the leaf and its index, or the
             \* older tree's root and size, against the tree over log
  at,        \* the node of the path that is read next
  fn, sn,    \* the counters
  old, new,  \* what the walk has hashed together, from the older root and up
  answer     \* "none" until the call returns
vars == <<claim, at, fn, sn, old, new, answer>>

NodeHash(l, r) == <<l, r>>
Odd(n) == n % 2 = 1
Half(n) == n \div 2

\* A number is a power of two when halving it while it is even leaves one.
Halved[n \in Nat] == IF n > 1 /\ ~Odd(n) THEN Halved[Half(n)] ELSE n
IsPowerOfTwo(n) == Halved[n] = 1

(***************************************************************************)
(* The reference: RFC 6962, section 2.1.  A span <<lo, n>> is the n leaves *)
(* of a log that follow its first lo.                                      *)
(***************************************************************************)
Spans(log) == {p \in (0 .. Len(log)) \X (1 .. Len(log)) : p[1] + p[2] <= Len(log)}
Whole(log) == <<0, Len(log)>>

\* The largest power of two below n.
Split(n) == CHOOSE k \in 1 .. n - 1 : IsPowerOfTwo(k) /\ n <= 2 * k
LeftOf(p) == <<p[1], Split(p[2])>>
RightOf(p) == <<p[1] + Split(p[2]), p[2] - Split(p[2])>>

Tree(log) ==
  LET root[p \in Spans(log)] ==
        IF p[2] = 1 THEN log[p[1] + 1]
        ELSE NodeHash(root[LeftOf(p)], root[RightOf(p)])
  IN  root

RootOf(log) == Tree(log)[Whole(log)]

\* For every span of a leaf, the roots beside the way up to it: from the first
\* span of the way that is one of bottom, with that one's own where it is given.
Paths(log, leaf, bottom, given) ==
  LET path[p \in Spans(log)] ==
        IF p \in bottom
        THEN IF p \in given THEN <<Tree(log)[p]>> ELSE <<>>
        ELSE IF leaf < RightOf(p)[1]
        THEN Append(path[LeftOf(p)], Tree(log)[RightOf(p)])
        ELSE Append(path[RightOf(p)], Tree(log)[LeftOf(p)])
  IN  path

Leaves(log) == {p \in Spans(log) : p[2] = 1}

AuditPath(log, index) == Paths(log, index, Leaves(log), {})[Whole(log)]

\* Up from the newest leaf of the older tree: the spans that end with it are in
\* both trees, and the first is given unless it is the older tree.
Ends(log, first) == {p \in Spans(log) : p[1] + p[2] = first}
Inner(log) == {p \in Spans(log) : p[1] > 0}

ConsistencyProof(log, first) ==
  IF first = 0 THEN <<>>
  ELSE Paths(log, first - 1, Leaves(log) \cup Ends(log, first), Inner(log))[Whole(log)]

Honest(c) ==
  IF c.kind = "inclusion"
  THEN /\ c.number \in 0 .. Len(c.log) - 1
       /\ c.hash = c.log[c.number + 1]
       /\ c.path = AuditPath(c.log, c.number)
  ELSE /\ c.number \in 0 .. Len(c.log)
       /\ c.number > 0 => c.hash = RootOf(SubSeq(c.log, 1, c.number))
       /\ c.path = ConsistencyProof(c.log, c.number)

(***************************************************************************)
(* verifyInclusion and verifyConsistency.                                  *)
(***************************************************************************)
\* Both counters go up while fn is a right child, or while it is a left one.
Above[p \in Nat \X Nat] == IF Odd(p[1]) THEN Above[<<Half(p[1]), Half(p[2])>>] ELSE p
Climb[p \in Nat \X Nat] ==
  IF ~Odd(p[1]) /\ p[1] # 0 THEN Climb[<<Half(p[1]), Half(p[2])>>] ELSE p

Start(first, last, seed, next, said) ==
  /\ fn = first /\ sn = last
  /\ old = seed /\ new = seed
  /\ at = next
  /\ answer = said

\* Everything before the loop of verifyInclusion.
OpensInclusion ==
  LET legal == claim.number \in 0 .. Len(claim.log) - 1 IN
  Start(claim.number, Len(claim.log) - 1, claim.hash, 1, IF legal THEN "none" ELSE "no")

\* Everything before the loop of verifyConsistency: an older tree that is a
\* complete subtree is its own seed, any other is seeded by the path.
OpensConsistency ==
  LET first == claim.number
      last == Len(claim.log)
      up == Above[<<first - 1, last - 1>>]
      Settles(condition) == Start(0, 0, claim.hash, 1, IF condition THEN "yes" ELSE "no")
  IN
  \/ first \notin 0 .. last /\ Settles(FALSE)
  \/ first = last /\ Settles(claim.path = <<>> /\ claim.hash = RootOf(claim.log))
  \/ first = 0 /\ Settles(claim.path = <<>>)
  \/ first \in 1 .. last - 1 /\ claim.path = <<>> /\ Settles(FALSE)
  \/ /\ first \in 1 .. last - 1 /\ claim.path # <<>>
     /\ IF IsPowerOfTwo(first)
        THEN Start(up[1], up[2], claim.hash, 1, "none")
        ELSE Start(up[1], up[2], claim.path[1], 2, "none")

(***************************************************************************)
(* What is claimed of the tree over a log.                                 *)
(***************************************************************************)
LogOf(n) == [i \in 1 .. n |-> <<i>>]
\* The same log with entry j rewritten.
Rewritten(n, j) == [LogOf(n) EXCEPT ![j] = <<0>>]

\* The hashes of a tree's nodes.
Hashes(log) ==
  {log[i] : i \in DOMAIN log} \cup {RootOf(log)}
    \cup UNION {LET path == AuditPath(log, i) IN {path[k] : k \in DOMAIN path}
               : i \in 0 .. Len(log) - 1}

Claims(kind, log, number, hash, path) ==
  claim = [kind |-> kind, log |-> log, number |-> number, hash |-> hash, path |-> path]

HonestClaim ==
  \E n \in 1 .. MaxSize, i \in 0 .. MaxSize :
    \/ i < n /\ Claims("inclusion", LogOf(n), i, <<i + 1>>, AuditPath(LogOf(n), i))
    \/ 0 < i /\ i <= n /\ Claims("consistency", LogOf(n), i, RootOf(LogOf(i)),
                                ConsistencyProof(LogOf(n), i))

\* Any hash passed for a leaf, at any index, with any path over the tree.
ForgedInclusion ==
  \E n \in 1 .. ForgedSize, i \in -1 .. ForgedSize :
    \E hash \in Hashes(LogOf(n)), m \in 0 .. ForgedPath :
      \E path \in [1 .. m -> Hashes(LogOf(n))] :
        Claims("inclusion", LogOf(n), i, hash, path)

\* The root of a log whose entry j was another, with any path over the two.
ForgedConsistency ==
  \E n \in 1 .. ForgedSize, j \in 1 .. ForgedSize, i \in -1 .. ForgedSize + 1 :
    /\ j <= n
    /\ \E size \in j .. n, m \in 0 .. ForgedPath :
         \E path \in [1 .. m -> Hashes(LogOf(n)) \cup Hashes(Rewritten(n, j))] :
           Claims("consistency", LogOf(n), i, RootOf(Rewritten(size, j)), path)

Init ==
  /\ HonestClaim \/ ForgedInclusion \/ ForgedConsistency
  /\ IF claim.kind = "inclusion" THEN OpensInclusion ELSE OpensConsistency

Reading == answer = "none" /\ at <= Len(claim.path)

\* A path longer than the tree is high.
Overruns ==
  /\ Reading
  /\ sn = 0
  /\ answer' = "no"
  /\ UNCHANGED <<claim, at, fn, sn, old, new>>

Ascends(from) ==
  /\ fn' = Half(from[1])
  /\ sn' = Half(from[2])
  /\ at' = at + 1

\* Fault: a last node that is a left child is not taken to its parent.
HashesLeftOfOdd ==
  /\ Reading
  /\ sn # 0
  /\ Odd(fn) \/ fn = sn
  /\ old' = NodeHash(claim.path[at], old)
  /\ new' = NodeHash(claim.path[at], new)
  /\ Ascends(<<fn, sn>>)
  /\ UNCHANGED <<claim, answer>>

\* The node is on the left: of a right child, or of the last node of a level,
\* which goes up alone until it is a right child.
HashesLeft ==
  /\ Reading
  /\ sn # 0
  /\ Odd(fn) \/ fn = sn
  /\ old' = NodeHash(claim.path[at], old)
  /\ new' = NodeHash(claim.path[at], new)
  /\ Ascends(Climb[<<fn, sn>>])
  /\ UNCHANGED <<claim, answer>>

\* The node is on the right: it is newer than the older tree.
HashesRight ==
  /\ Reading
  /\ sn # 0
  /\ ~Odd(fn) /\ fn # sn
  /\ new' = NodeHash(new, claim.path[at])
  /\ Ascends(<<fn, sn>>)
  /\ UNCHANGED <<claim, old, answer>>

\* Fault: a walk that stops below the root is accepted.
ReturnsBelowRoot ==
  /\ answer = "none"
  /\ at > Len(claim.path)
  /\ answer' = IF /\ claim.kind = "consistency" => old = claim.hash
                  /\ new = RootOf(claim.log)
               THEN "yes" ELSE "no"
  /\ UNCHANGED <<claim, at, fn, sn, old, new>>

\* Both walks are at the root, and end where they should.
Returns ==
  /\ answer = "none"
  /\ at > Len(claim.path)
  /\ answer' = IF /\ sn = 0
                  /\ claim.kind = "consistency" => old = claim.hash
                  /\ new = RootOf(claim.log)
               THEN "yes" ELSE "no"
  /\ UNCHANGED <<claim, at, fn, sn, old, new>>

Next == Overruns \/ HashesLeft \/ HashesRight \/ Returns
Spec == Init /\ [][Next]_vars

(***************************************************************************)
(* Properties.                                                             *)
(***************************************************************************)
\* A path that is accepted for an index of the tree is the one path RFC 6962
\* defines, and the leaf is the log's: no other node, index or order of nodes
\* passes (verifyInclusion).
OnlyTheAuditPath ==
  claim.kind = "inclusion" /\ answer = "yes" => Honest(claim)

\* A log that rewrote or dropped an entry never passes for one that grew: an
\* accepted older root is the root of the first leaves of the newer tree
\* (verifyConsistency, "a log that rewrote history fails here").
HistoryIsKept ==
  claim.kind = "consistency" /\ answer = "yes" => Honest(claim)

\* Whatever a log claims, of an index or of an older tree, only what is so of
\* the tree it signed is accepted.
OnlyHonestClaims == OnlyTheAuditPath /\ HistoryIsKept

\* What an honest log proves is accepted, at every index and every size: the
\* right edge of an incomplete tree included.
HonestLogsPass == Honest(claim) => answer # "no"
=============================================================================
