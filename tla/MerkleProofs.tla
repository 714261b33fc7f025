---------------------------- MODULE MerkleProofs ----------------------------
(***************************************************************************)
(* Of logs of every size and paths of every length: what Merkle accepts is *)
(* what RFC 6962 defines, and what RFC 6962 defines is accepted.           *)
(***************************************************************************)
EXTENDS Merkle, TLAPS, SequenceTheorems, WellFoundedInduction

(***************************************************************************)
(* Recursive functions.  What is true of every number is true of its least *)
(* counterexample, which there is not.                                     *)
(***************************************************************************)
\* A set of numbers with no least element is empty.
LEMMA NoDescent ==
  ASSUME NEW B \in SUBSET Nat, \A n \in B : \E m \in B : m < n
  PROVE  B = {}
<1> SUFFICES ASSUME B # {} PROVE FALSE
  OBVIOUS
<1> DEFINE R == {p \in Nat \X Nat : p[1] < p[2]}
<1>1. IsWellFoundedOn(R, Nat)
  BY NatLessThanWellFounded DEF OpToRel
<1> HIDE DEF R
<1>2. PICK n \in B : \A m \in B : <<m, n>> \notin R
  BY <1>1, WFMin
<1>3. PICK m \in B : m < n
  OBVIOUS
<1>4. <<m, n>> \in R
  BY <1>3 DEF R
<1> QED
  BY <1>2, <1>4

\* A loop: from x by h for as long as it is in S.
Loops(f, D, S, h) ==
  /\ f \in [D -> D]
  /\ \A x \in D : f[x] = IF x \in S THEN f[h[x]] ELSE x

\* A loop that lowers a rank ends: its equation has a solution.
LEMMA LoopExists ==
  ASSUME NEW D, NEW S \in SUBSET D, NEW h \in [S -> D], NEW r \in [D -> Nat],
         \A x \in S : r[h[x]] < r[x]
  PROVE  \E f : Loops(f, D, S, h)
<1> DEFINE Closed(C) == \A x \in C : x \in S => h[x] \in C
           Reach(x) == {y \in D \ S : \A C \in SUBSET D : x \in C /\ Closed(C) => y \in C}
<1>1. ASSUME NEW x \in D \ S PROVE Reach(x) = {x}
  <2>1. {x} \in SUBSET D /\ Closed({x})
    OBVIOUS
  <2>2. \A y \in Reach(x) : y = x
    BY <2>1
  <2>3. x \in Reach(x)
    OBVIOUS
  <2> QED
    BY <2>2, <2>3
<1>2. ASSUME NEW x \in S PROVE Reach(x) = Reach(h[x])
  <2>1. ASSUME NEW y \in Reach(h[x]) PROVE y \in Reach(x)
    <3>1. ASSUME NEW C \in SUBSET D, x \in C, Closed(C) PROVE y \in C
      <4>1. h[x] \in C
        BY <3>1
      <4> QED
        BY <2>1, <3>1, <4>1
    <3> QED
      BY <2>1, <3>1
  <2>2. ASSUME NEW y \in Reach(x) PROVE y \in Reach(h[x])
    <3>1. ASSUME NEW C \in SUBSET D, h[x] \in C, Closed(C) PROVE y \in C
      <4>1. C \cup {x} \in SUBSET D /\ Closed(C \cup {x}) /\ x \in C \cup {x}
        BY <3>1
      <4>2. y \in C \cup {x} /\ y # x
        BY <2>2, <4>1
      <4> QED
        BY <4>2
    <3> QED
      BY <2>2, <3>1
  <2> QED
    BY <2>1, <2>2
<1> HIDE DEF Reach
<1>3. \A x \in D : Reach(x) # {}
  <2> DEFINE B == {n \in Nat : \E x \in D : r[x] = n /\ Reach(x) = {}}
  <2>1. ASSUME NEW n \in B PROVE \E m \in B : m < n
    <3>1. PICK x \in D : r[x] = n /\ Reach(x) = {}
      OBVIOUS
    <3>2. x \in S
      BY <1>1, <3>1
    <3>3. Reach(h[x]) = {} /\ h[x] \in D /\ r[h[x]] \in Nat /\ r[h[x]] < n
      BY <1>2, <3>1, <3>2
    <3> QED
      BY <3>3
  <2>2. B \in SUBSET Nat
    OBVIOUS
  <2> HIDE DEF B
  <2>3. B = {}
    BY <2>1, <2>2, NoDescent
  <2> QED
    BY <2>3 DEF B
<1> DEFINE f == [x \in D |-> CHOOSE y \in Reach(x) : TRUE]
<1>4. f \in [D -> D]
  <2>1. \A x \in D : f[x] \in Reach(x)
    BY <1>3
  <2> QED
    BY <2>1 DEF Reach
<1>5. \A x \in D : f[x] = IF x \in S THEN f[h[x]] ELSE x
  BY <1>1, <1>2
<1> QED
  BY <1>4, <1>5 DEF Loops

\* Halving a number gives a smaller one, twice which it is, or one more.
LEMMA HalfIs ==
  ASSUME NEW n \in Nat
  PROVE  /\ Half(n) \in Nat
         /\ Odd(n) => n = 2 * Half(n) + 1
         /\ ~Odd(n) => n = 2 * Half(n)
         /\ n > 0 => Half(n) < n
         /\ ~Odd(2 * n) /\ Half(2 * n) = n
         /\ Odd(2 * n + 1) /\ Half(2 * n + 1) = n
BY DEF Half, Odd

LEMMA TwiceHalf ==
  ASSUME NEW n \in Nat
  PROVE  \E h \in Nat : h = Half(n) /\ (n = 2 * h \/ n = 2 * h + 1)
<1>1. Half(n) \in Nat /\ (n = 2 * Half(n) \/ n = 2 * Half(n) + 1)
  BY HalfIs
<1> QED
  BY ONLY <1>1

LEMMA HalvedIs ==
  /\ Halved \in [Nat -> Nat]
  /\ \A n \in Nat : Halved[n] = IF n > 1 /\ ~Odd(n) THEN Halved[Half(n)] ELSE n
<1> DEFINE S == {n \in Nat : n > 1 /\ ~Odd(n)}
           h == [n \in S |-> Half(n)]
           r == [n \in Nat |-> n]
<1>1. ASSUME NEW x \in S PROVE h[x] \in Nat /\ r[h[x]] < r[x]
  <2>1. x \in Nat /\ x > 0
    OBVIOUS
  <2>2. Half(x) \in Nat /\ Half(x) < x
    BY <2>1, HalfIs
  <2> QED
    BY <2>1, <2>2
<1>2. S \in SUBSET Nat /\ r \in [Nat -> Nat] /\ h \in [S -> Nat]
  BY <1>1
<1>3. PICK f : Loops(f, Nat, S, h)
  <2> HIDE DEF S, h, r
  <2> QED
    BY <1>1, <1>2, LoopExists
<1>4. f = [n \in Nat |-> IF n > 1 /\ ~Odd(n) THEN f[Half(n)] ELSE n]
  BY <1>3 DEF Loops
<1>5. Halved = [n \in Nat |-> IF n > 1 /\ ~Odd(n) THEN Halved[Half(n)] ELSE n]
  BY <1>4 DEF Halved
<1>6. \A n \in Nat : Halved[n] = IF n > 1 /\ ~Odd(n) THEN Halved[Half(n)] ELSE n
  BY <1>5
<1>7. Halved \in [Nat -> Nat]
  <2> DEFINE B == {n \in Nat : Halved[n] \notin Nat}
  <2>1. ASSUME NEW n \in B PROVE \E m \in B : m < n
    <3>1. n > 1 /\ ~Odd(n) /\ Halved[n] = Halved[Half(n)]
      BY <1>6
    <3>2. n \in Nat /\ n > 0
      BY <3>1
    <3>3. Half(n) \in Nat /\ Half(n) < n
      BY <3>2, HalfIs
    <3> QED
      BY <3>1, <3>3
  <2>2. B = {}
    <3> HIDE DEF B
    <3>1. B \in SUBSET Nat
      BY DEF B
    <3> QED
      BY <2>1, <3>1, NoDescent
  <2> QED
    BY <1>5, <2>2
<1> QED
  BY <1>6, <1>7

\* The two counters that are halved together.
Pairs == Nat \X Nat
Halves(p) == <<Half(p[1]), Half(p[2])>>

LEMMA AboveIs ==
  \A p \in Pairs : Above[p] = IF Odd(p[1]) THEN Above[Halves(p)] ELSE p
<1> DEFINE S == {p \in Pairs : Odd(p[1])}
           h == [p \in S |-> Halves(p)]
           r == [p \in Pairs |-> p[1]]
<1>1. h \in [S -> Pairs]
  BY HalfIs DEF Pairs, Halves
<1>2. ASSUME NEW x \in S PROVE r[h[x]] < r[x]
  <2>1. x[1] \in Nat /\ x[1] > 0 /\ h[x] = Halves(x) /\ h[x] \in Pairs /\ x \in Pairs
    BY <1>1 DEF Pairs, Odd
  <2>2. Half(x[1]) < x[1]
    BY <2>1, HalfIs
  <2> QED
    BY <2>1, <2>2 DEF Halves
<1>3. S \in SUBSET Pairs /\ r \in [Pairs -> Nat]
  BY DEF Pairs
<1>4. PICK f : Loops(f, Pairs, S, h)
  <2> HIDE DEF S, h, r
  <2> QED
    BY <1>1, <1>2, <1>3, LoopExists
<1>5. f = [p \in Nat \X Nat |-> IF Odd(p[1]) THEN f[<<Half(p[1]), Half(p[2])>>] ELSE p]
  BY <1>4 DEF Loops, Pairs, Halves
<1>6. Above = [p \in Nat \X Nat |-> IF Odd(p[1]) THEN Above[<<Half(p[1]), Half(p[2])>>] ELSE p]
  BY <1>5 DEF Above
<1> QED
  BY <1>6 DEF Pairs, Halves

LEMMA ClimbIs ==
  \A p \in Pairs : Climb[p] = IF ~Odd(p[1]) /\ p[1] # 0 THEN Climb[Halves(p)] ELSE p
<1> DEFINE S == {p \in Pairs : ~Odd(p[1]) /\ p[1] # 0}
           h == [p \in S |-> Halves(p)]
           r == [p \in Pairs |-> p[1]]
<1>1. h \in [S -> Pairs]
  BY HalfIs DEF Pairs, Halves
<1>2. ASSUME NEW x \in S PROVE r[h[x]] < r[x]
  <2>1. x[1] \in Nat /\ x[1] > 0 /\ h[x] = Halves(x) /\ h[x] \in Pairs /\ x \in Pairs
    BY <1>1 DEF Pairs
  <2>2. Half(x[1]) < x[1]
    BY <2>1, HalfIs
  <2> QED
    BY <2>1, <2>2 DEF Halves
<1>3. S \in SUBSET Pairs /\ r \in [Pairs -> Nat]
  BY DEF Pairs
<1>4. PICK f : Loops(f, Pairs, S, h)
  <2> HIDE DEF S, h, r
  <2> QED
    BY <1>1, <1>2, <1>3, LoopExists
<1>5. f = [p \in Nat \X Nat |->
             IF ~Odd(p[1]) /\ p[1] # 0 THEN f[<<Half(p[1]), Half(p[2])>>] ELSE p]
  BY <1>4 DEF Loops, Pairs, Halves
<1>6. Climb = [p \in Nat \X Nat |->
                 IF ~Odd(p[1]) /\ p[1] # 0 THEN Climb[<<Half(p[1]), Half(p[2])>>] ELSE p]
  BY <1>5 DEF Climb
<1> QED
  BY <1>6 DEF Pairs, Halves

(***************************************************************************)
(* The powers of two.                                                      *)
(***************************************************************************)
Powers == {n \in Nat : IsPowerOfTwo(n)}

LEMMA PowersAre ==
  /\ 1 \in Powers
  /\ \A w \in Powers : w \in Nat /\ w > 0
  /\ \A w \in Powers : 2 * w \in Powers
  /\ \A w \in Powers : w > 1 => Half(w) \in Powers /\ w = 2 * Half(w)
<1>1. Halved[1] = 1 /\ Halved[0] = 0
  BY HalvedIs
<1>2. ASSUME NEW w \in Powers PROVE 2 * w \in Powers
  <2>1. w \in Nat /\ w > 0 /\ Halved[w] = 1
    BY <1>1 DEF Powers, IsPowerOfTwo
  <2>2. 2 * w \in Nat /\ 2 * w > 1 /\ ~Odd(2 * w) /\ Half(2 * w) = w
    BY <2>1, HalfIs
  <2>3. Halved[2 * w] = 1
    BY <2>1, <2>2, HalvedIs
  <2> QED
    BY <2>2, <2>3 DEF Powers, IsPowerOfTwo
<1>3. ASSUME NEW w \in Powers, w > 1 PROVE Half(w) \in Powers /\ w = 2 * Half(w)
  <2>1. w \in Nat /\ Halved[w] = 1
    BY DEF Powers, IsPowerOfTwo
  <2>2. ~Odd(w) /\ Halved[Half(w)] = 1
    BY <1>3, <2>1, HalvedIs
  <2>3. Half(w) \in Nat /\ w = 2 * Half(w)
    BY <2>1, <2>2, HalfIs
  <2> QED
    BY <2>2, <2>3 DEF Powers, IsPowerOfTwo
<1> QED
  BY <1>1, <1>2, <1>3 DEF Powers, IsPowerOfTwo

\* A power of two is a multiple of twice any smaller one.
LEMMA PowersDivide ==
  ASSUME NEW a \in Powers, NEW b \in Powers, a < b
  PROVE  \E c \in Nat : c > 0 /\ b = c * (2 * a)
<1> DEFINE Divides(x, y) == \E c \in Nat : c > 0 /\ y = c * (2 * x)
           B == {y \in Powers : \E x \in Powers : x < y /\ ~Divides(x, y)}
<1>1. ASSUME NEW y \in B PROVE \E m \in B : m < y
  <2>1. PICK x \in Powers : x < y /\ ~Divides(x, y)
    OBVIOUS
  <2>2. x \in Nat /\ y \in Nat /\ x > 0 /\ y > 1 /\ y \in Powers
    BY <2>1, PowersAre
  <2>3. PICK v \in Powers : v \in Nat /\ v > 0 /\ y = 2 * v
    BY <2>2, PowersAre
  <2>4. x > 1
    <3>1. x = 1 => y = v * (2 * x)
      BY <2>3
    <3> QED
      BY <2>1, <2>2, <2>3, <3>1
  <2>5. PICK u \in Powers : u \in Nat /\ x = 2 * u
    BY <2>2, <2>4, PowersAre
  <2>6. ~Divides(u, v)
    <3> SUFFICES ASSUME NEW c \in Nat, c > 0, v = c * (2 * u) PROVE FALSE
      OBVIOUS
    <3>1. y = c * (2 * x)
      BY <2>3, <2>5
    <3> QED
      BY <2>1, <3>1
  <2>7. u < v /\ v < y
    BY <2>1, <2>2, <2>3, <2>5
  <2> QED
    BY <2>6, <2>7
<1>2. B \in SUBSET Nat
  BY PowersAre
<1>3. B = {}
  <2> HIDE DEF B
  <2> QED
    BY <1>1, <1>2, NoDescent
<1> QED
  BY <1>3

\* There is one power of two below n that is at least its half, and Split gives it.
LEMMA SplitIs ==
  ASSUME NEW n \in Nat, NEW w \in Powers, w < n, n <= 2 * w
  PROVE  Split(n) = w
<1>1. w \in 1 .. n - 1 /\ IsPowerOfTwo(w)
  BY PowersAre DEF Powers
<1>2. ASSUME NEW k \in 1 .. n - 1, IsPowerOfTwo(k), n <= 2 * k PROVE k = w
  <2>1. k \in Powers /\ k \in Nat /\ w \in Nat /\ k > 0 /\ w > 0
    BY <1>1, <1>2 DEF Powers
  <2>2. ASSUME NEW a \in Powers, NEW b \in Powers, a < b PROVE 2 * a <= b
    <3>1. PICK c \in Nat : c > 0 /\ b = c * (2 * a)
      BY <2>2, PowersDivide
    <3>2. a \in Nat /\ 2 * a \in Nat
      BY PowersAre
    <3>3. ASSUME NEW d \in Nat PROVE c * d >= d
      BY <3>1
    <3> QED
      BY <3>1, <3>2, <3>3
  <2>3. ~(k < w) /\ ~(w < k)
    BY <1>2, <2>1, <2>2
  <2> QED
    BY <2>1, <2>3
<1> QED
  BY <1>1, <1>2 DEF Split

LEMMA SplitExists ==
  ASSUME NEW n \in Nat, n > 1
  PROVE  Split(n) \in Powers /\ Split(n) \in 1 .. n - 1 /\ n <= 2 * Split(n)
<1> DEFINE B == {m \in Nat : m > 1 /\ ~\E w \in Powers : w < m /\ m <= 2 * w}
<1>1. ASSUME NEW m \in B PROVE \E k \in B : k < m
  <2>1. m # 2
    BY PowersAre
  <2>2. m - 1 \notin B => FALSE
    <3> SUFFICES ASSUME NEW w \in Powers, w < m - 1, m - 1 <= 2 * w PROVE FALSE
      BY <2>1
    <3>1. w \in Nat /\ 2 * w \in Powers
      BY PowersAre
    <3>2. w < m /\ ~(m <= 2 * w)
      BY <3>1
    <3>3. m = 2 * w + 1
      BY <3>1, <3>2
    <3>4. 2 * w < m /\ m <= 2 * (2 * w)
      BY <3>1, <3>3, PowersAre
    <3> QED
      BY <3>1, <3>4
  <2> QED
    BY <2>2
<1>2. B = {}
  <2>1. B \in SUBSET Nat
    OBVIOUS
  <2> HIDE DEF B
  <2> QED
    BY <1>1, <2>1, NoDescent
<1>3. PICK w \in Powers : w < n /\ n <= 2 * w
  BY <1>2
<1>4. Split(n) = w /\ w \in Nat /\ w > 0
  BY <1>3, SplitIs, PowersAre
<1> QED
  BY <1>3, <1>4

(***************************************************************************)
(* The tree of a log, and the ways up to one of its leaves.                *)
(***************************************************************************)
\* What holds at zero and goes on to the next number holds of every number: for a
\* set that says where it holds.
LEMMA Upward ==
  ASSUME NEW U \in SUBSET Nat, 0 \in U, \A n \in U : n + 1 \in U
  PROVE  U = Nat
<1>1. ASSUME NEW n \in Nat \ U PROVE \E m \in Nat \ U : m < n
  <2>1. n # 0
    OBVIOUS
  <2>2. n - 1 \in Nat /\ (n - 1) + 1 = n /\ n - 1 < n
    BY <2>1
  <2>3. n - 1 \notin U
    BY <2>2
  <2> QED
    BY <2>2, <2>3
<1>2. Nat \ U = {}
  <2>1. Nat \ U \in SUBSET Nat
    OBVIOUS
  <2> QED
    BY ONLY <1>1, <2>1, NoDescent
<1> QED
  BY <1>2

\* A span of more than one leaf is parted into two shorter ones.
LEMMA Parted ==
  ASSUME NEW log, Len(log) \in Nat, NEW p \in Spans(log), p[2] # 1
  PROVE  /\ LeftOf(p) \in Spans(log) /\ LeftOf(p)[2] < p[2]
         /\ RightOf(p) \in Spans(log) /\ RightOf(p)[2] < p[2]
         /\ p[1] + p[2] = RightOf(p)[1] + RightOf(p)[2]
         /\ LeftOf(p)[1] = p[1] /\ RightOf(p)[1] = p[1] + LeftOf(p)[2]
<1>1. p[1] \in Nat /\ p[2] \in Nat /\ p[2] > 1 /\ p[1] + p[2] <= Len(log)
  BY DEF Spans
<1>2. Split(p[2]) \in 1 .. p[2] - 1
  BY <1>1, SplitExists
<1> QED
  BY <1>1, <1>2 DEF Spans, LeftOf, RightOf

LEMMA TreeIs ==
  ASSUME NEW log, Len(log) \in Nat
  PROVE  \A p \in Spans(log) :
           Tree(log)[p] = IF p[2] = 1 THEN log[p[1] + 1]
                          ELSE <<Tree(log)[LeftOf(p)], Tree(log)[RightOf(p)]>>
<1> DEFINE D == Spans(log)
           Small(b) == {p \in D : p[2] <= b}
           Solves(t, b) == t = [p \in Small(b) |-> IF p[2] = 1 THEN log[p[1] + 1]
                                                   ELSE <<t[LeftOf(p)], t[RightOf(p)]>>]
           U == {b \in Nat : \E t : Solves(t, b)}
<1>1. \A p \in D : p[1] \in Nat /\ p[2] \in Nat /\ p[2] > 0 /\ p[2] <= Len(log)
  BY DEF Spans
<1>2. 0 \in U
  <2>1. Small(0) = {}
    BY <1>1
  <2>2. PICK t : t = [p \in {} |-> 0]
    OBVIOUS
  <2> QED
    BY <2>1, <2>2
<1>3. ASSUME NEW b \in U PROVE b + 1 \in U
  <2>1. PICK t : Solves(t, b)
    OBVIOUS
  <2> DEFINE g == [p \in Small(b + 1) |-> IF p[2] <= b THEN t[p]
                     ELSE IF p[2] = 1 THEN log[p[1] + 1] ELSE <<t[LeftOf(p)], t[RightOf(p)]>>]
  <2>2. ASSUME NEW p \in Small(b + 1)
        PROVE  g[p] = IF p[2] = 1 THEN log[p[1] + 1] ELSE <<t[LeftOf(p)], t[RightOf(p)]>>
    BY <2>1
  <2>3. ASSUME NEW p \in Small(b)
        PROVE  g[p] = t[p]
    <3>1. p \in Small(b + 1) /\ p[2] <= b
      BY <1>1
    <3> QED
      BY <3>1
  <2>4. ASSUME NEW p \in Small(b + 1), p[2] # 1
        PROVE  LeftOf(p) \in Small(b) /\ RightOf(p) \in Small(b)
    <3>1. p \in Spans(log) /\ p[2] <= b + 1 /\ b \in Nat /\ p[2] \in Nat
      BY <1>1
    <3>2. LeftOf(p) \in D /\ LeftOf(p)[2] < p[2] /\ RightOf(p) \in D /\ RightOf(p)[2] < p[2]
      BY <2>4, <3>1, Parted
    <3>3. LeftOf(p)[2] \in Nat /\ RightOf(p)[2] \in Nat
      BY <1>1, <3>2
    <3> QED
      BY <3>1, <3>2, <3>3
  <2>5. \A p \in Small(b + 1) :
          g[p] = IF p[2] = 1 THEN log[p[1] + 1] ELSE <<g[LeftOf(p)], g[RightOf(p)]>>
    <3> HIDE DEF g, Small
    <3> QED
      BY <2>2, <2>3, <2>4
  <2>6. Solves(g, b + 1)
    <3>1. g = [p \in Small(b + 1) |-> g[p]]
      OBVIOUS
    <3> HIDE DEF g, Small
    <3> QED
      BY <2>5, <3>1
  <2> HIDE DEF g, Solves
  <2> QED
    BY <2>6
<1>4. U = Nat
  <2>1. U \in SUBSET Nat
    OBVIOUS
  <2> HIDE DEF U
  <2> QED
    BY <1>2, <1>3, <2>1, Upward
<1>5. PICK t : Solves(t, Len(log))
  BY <1>4
<1>6. Small(Len(log)) = D
  BY <1>1
<1>7. t = [p \in D |-> IF p[2] = 1 THEN log[p[1] + 1] ELSE NodeHash(t[LeftOf(p)], t[RightOf(p)])]
  <2> HIDE DEF D, Small
  <2> QED
    BY <1>5, <1>6 DEF NodeHash
<1>8. Tree(log) = [p \in D |-> IF p[2] = 1 THEN log[p[1] + 1]
                               ELSE NodeHash(Tree(log)[LeftOf(p)], Tree(log)[RightOf(p)])]
  BY <1>7 DEF Tree
<1> QED
  <2> HIDE DEF D
  <2>1. \A p \in D : Tree(log)[p] = IF p[2] = 1 THEN log[p[1] + 1]
                               ELSE NodeHash(Tree(log)[LeftOf(p)], Tree(log)[RightOf(p)])
    BY <1>8
  <2> QED
    BY <2>1 DEF NodeHash, D

\* The equation of Paths.
ArePaths(path, log, leaf, bottom, given) ==
  \A p \in Spans(log) :
    path[p] = IF p \in bottom THEN IF p \in given THEN <<Tree(log)[p]>> ELSE <<>>
              ELSE IF leaf < RightOf(p)[1]
              THEN Append(path[LeftOf(p)], Tree(log)[RightOf(p)])
              ELSE Append(path[RightOf(p)], Tree(log)[LeftOf(p)])

LEMMA PathsAre ==
  ASSUME NEW log, Len(log) \in Nat, NEW leaf \in Int,
         NEW bottom, Leaves(log) \subseteq bottom, NEW given
  PROVE  ArePaths(Paths(log, leaf, bottom, given), log, leaf, bottom, given)
<1> DEFINE D == Spans(log)
           Small(b) == {p \in D : p[2] <= b}
           First(p) == IF p \in given THEN <<Tree(log)[p]>> ELSE <<>>
           Of(t, p) == IF p \in bottom THEN First(p)
                       ELSE IF leaf < RightOf(p)[1]
                       THEN Append(t[LeftOf(p)], Tree(log)[RightOf(p)])
                       ELSE Append(t[RightOf(p)], Tree(log)[LeftOf(p)])
           Solves(t, b) == t = [p \in Small(b) |-> Of(t, p)]
           U == {b \in Nat : \E t : Solves(t, b)}
<1>1. \A p \in D : p[1] \in Nat /\ p[2] \in Nat /\ p[2] > 0 /\ p[2] <= Len(log)
  BY DEF Spans
<1>2. 0 \in U
  <2>1. Small(0) = {}
    BY <1>1
  <2>2. PICK t : t = [p \in {} |-> 0]
    OBVIOUS
  <2> HIDE DEF Small, Of
  <2> QED
    BY <2>1, <2>2
<1>3. ASSUME NEW b \in U PROVE b + 1 \in U
  <2>1. PICK t : Solves(t, b)
    OBVIOUS
  <2> DEFINE g == [p \in Small(b + 1) |-> IF p[2] <= b THEN t[p] ELSE Of(t, p)]
  <2>2. ASSUME NEW p \in Small(b + 1)
        PROVE  g[p] = Of(t, p)
    <3> HIDE DEF Of
    <3> QED
      BY <2>1
  <2>3. ASSUME NEW p \in Small(b)
        PROVE  g[p] = t[p]
    <3>1. p \in Small(b + 1) /\ p[2] <= b
      BY <1>1
    <3> HIDE DEF Of
    <3> QED
      BY <3>1
  <2>4. ASSUME NEW p \in Small(b + 1), p \notin bottom
        PROVE  LeftOf(p) \in Small(b) /\ RightOf(p) \in Small(b)
    <3>1. p \in Spans(log) /\ p[2] <= b + 1 /\ b \in Nat /\ p[2] \in Nat
      BY <1>1
    <3>2. p[2] # 1
      BY <2>4, <3>1 DEF Leaves
    <3>3. LeftOf(p) \in D /\ LeftOf(p)[2] < p[2] /\ RightOf(p) \in D /\ RightOf(p)[2] < p[2]
      BY <3>1, <3>2, Parted
    <3>4. LeftOf(p)[2] \in Nat /\ RightOf(p)[2] \in Nat
      BY <1>1, <3>3
    <3> QED
      BY <3>1, <3>3, <3>4
  <2>5. ASSUME NEW p \in Small(b + 1)
        PROVE  g[p] = Of(g, p)
    <3>1. CASE p \in bottom
      <4> HIDE DEF g, Small, First
      <4> QED
        BY <2>2, <3>1
    <3>2. CASE p \notin bottom
      <4>1. g[LeftOf(p)] = t[LeftOf(p)] /\ g[RightOf(p)] = t[RightOf(p)]
        <5> HIDE DEF g, Small, Of
        <5> QED
          BY <2>3, <2>4, <3>2
      <4> HIDE DEF g, Small, First
      <4> QED
        BY <2>2, <4>1
    <3> QED
      BY <3>1, <3>2
  <2>6. Solves(g, b + 1)
    <3>1. g = [p \in Small(b + 1) |-> g[p]]
      <4> HIDE DEF Of
      <4> QED
        OBVIOUS
    <3> HIDE DEF g, Small, Of
    <3> QED
      BY <2>5, <3>1
  <2> HIDE DEF g, Solves
  <2> QED
    BY <2>6
<1>4. U = Nat
  <2>1. U \in SUBSET Nat
    OBVIOUS
  <2> HIDE DEF U
  <2> QED
    BY <1>2, <1>3, <2>1, Upward
<1>5. PICK t : Solves(t, Len(log))
  <2> HIDE DEF Solves
  <2> QED
    BY <1>4
<1>6. Small(Len(log)) = D
  BY <1>1
<1>7. t = [p \in D |-> Of(t, p)]
  <2> HIDE DEF D, Small, Of
  <2> QED
    BY <1>5, <1>6
<1> DEFINE P == Paths(log, leaf, bottom, given)
<1>8. P = [p \in D |-> Of(P, p)]
  BY <1>7 DEF Paths
<1>9. \A p \in D : P[p] = Of(P, p)
  <2> HIDE DEF D, P, Of
  <2> QED
    BY <1>8
<1>10. ArePaths(P, log, leaf, bottom, given)
  <2> HIDE DEF P
  <2> QED
    BY <1>9 DEF ArePaths
<1> QED
  BY <1>10

Roots(log) == {Tree(log)[p] : p \in Spans(log)}

LEMMA PathsType ==
  ASSUME NEW log, Len(log) \in Nat, NEW leaf \in Int,
         NEW bottom, Leaves(log) \subseteq bottom, NEW given
  PROVE  \A p \in Spans(log) : Paths(log, leaf, bottom, given)[p] \in Seq(Roots(log))
<1> DEFINE D == Spans(log)
           R == Roots(log)
           P == Paths(log, leaf, bottom, given)
           B == {n \in Nat : \E p \in D : p[2] = n /\ P[p] \notin Seq(R)}
<1>1. \A p \in D : p[1] \in Nat /\ p[2] \in Nat /\ Tree(log)[p] \in R
  BY DEF Spans, Roots
<1>0. ASSUME NEW p \in D
      PROVE  P[p] = IF p \in bottom THEN IF p \in given THEN <<Tree(log)[p]>> ELSE <<>>
                    ELSE IF leaf < RightOf(p)[1]
                    THEN Append(P[LeftOf(p)], Tree(log)[RightOf(p)])
                    ELSE Append(P[RightOf(p)], Tree(log)[LeftOf(p)])
  <2>1. ArePaths(P, log, leaf, bottom, given)
    BY PathsAre
  <2> HIDE DEF P
  <2> QED
    BY <2>1 DEF ArePaths
<1>2. ASSUME NEW n \in B PROVE \E m \in B : m < n
  <2>1. PICK p \in D : p[2] = n /\ P[p] \notin Seq(R)
    OBVIOUS
  <2>2. p \notin bottom
    <3> SUFFICES ASSUME p \in bottom PROVE FALSE
      OBVIOUS
    <3>1. P[p] = <<Tree(log)[p]>> \/ P[p] = <<>>
      <4> HIDE DEF P
      <4> QED
        BY <1>0
    <3>2. P[p] \in Seq(R)
      <4>1. <<>> \in Seq(R) /\ \A x \in R : <<x>> \in Seq(R)
        <5> HIDE DEF R
        <5> QED
          OBVIOUS
      <4> HIDE DEF P, R
      <4> QED
        BY <1>1, <3>1, <4>1
    <3> QED
      BY <2>1, <3>2
  <2>3. p[2] # 1
    BY <2>2 DEF Leaves
  <2>4. /\ LeftOf(p) \in D /\ LeftOf(p)[2] < n /\ LeftOf(p)[2] \in Nat
        /\ RightOf(p) \in D /\ RightOf(p)[2] < n /\ RightOf(p)[2] \in Nat
    BY <1>1, <2>1, <2>3, Parted
  <2>5. \/ P[p] = Append(P[LeftOf(p)], Tree(log)[RightOf(p)])
        \/ P[p] = Append(P[RightOf(p)], Tree(log)[LeftOf(p)])
    <3> HIDE DEF P
    <3> QED
      BY <1>0, <2>2
  <2>6. P[LeftOf(p)] \notin Seq(R) \/ P[RightOf(p)] \notin Seq(R)
    <3>1. Tree(log)[LeftOf(p)] \in R /\ Tree(log)[RightOf(p)] \in R
      BY <1>1, <2>4
    <3>2. \A s \in Seq(R), e \in R : Append(s, e) \in Seq(R)
      <4> HIDE DEF R
      <4> QED
        BY AppendProperties
    <3> HIDE DEF P, R, D
    <3> QED
      BY <2>1, <2>5, <3>1, <3>2
  <2> QED
    BY <2>4, <2>6
<1>3. B = {}
  <2>1. B \in SUBSET Nat
    OBVIOUS
  <2> HIDE DEF B
  <2> QED
    BY <1>2, <2>1, NoDescent
<1> QED
  BY <1>1, <1>3

\* The tree over the first leaves of a log is a part of its tree.
LEMMA PrefixTree ==
  ASSUME NEW S, NEW log \in Seq(S), NEW k \in 0 .. Len(log)
  PROVE  \A p \in Spans(SubSeq(log, 1, k)) :
           p \in Spans(log) /\ Tree(SubSeq(log, 1, k))[p] = Tree(log)[p]
<1> DEFINE older == SubSeq(log, 1, k)
           D == Spans(older)
           B == {n \in Nat : \E p \in D : p[2] = n /\ Tree(older)[p] # Tree(log)[p]}
<1>1. Len(log) \in Nat /\ k \in Nat /\ k <= Len(log)
  OBVIOUS
<1>2. Len(older) = k /\ \A i \in 1 .. k : older[i] = log[i]
  BY <1>1
<1> HIDE DEF older
<1>3. \A p \in D : /\ p \in Spans(log) /\ p[1] \in Nat /\ p[2] \in Nat /\ p[2] > 0
                   /\ p[1] + p[2] <= k
  BY <1>1, <1>2 DEF Spans
<1>4. ASSUME NEW n \in B PROVE \E m \in B : m < n
  <2>1. PICK p \in D : p[2] = n /\ Tree(older)[p] # Tree(log)[p]
    OBVIOUS
  <2>2. /\ Tree(older)[p] = IF p[2] = 1 THEN older[p[1] + 1]
                            ELSE <<Tree(older)[LeftOf(p)], Tree(older)[RightOf(p)]>>
        /\ Tree(log)[p] = IF p[2] = 1 THEN log[p[1] + 1]
                          ELSE <<Tree(log)[LeftOf(p)], Tree(log)[RightOf(p)]>>
    BY <1>1, <1>2, <1>3, TreeIs
  <2>3. p[2] # 1
    <3> SUFFICES ASSUME p[2] = 1 PROVE FALSE
      OBVIOUS
    <3>1. p[1] + 1 \in 1 .. k
      BY <1>1, <1>3
    <3> QED
      BY <1>2, <2>1, <2>2, <3>1
  <2>4. /\ LeftOf(p) \in D /\ LeftOf(p)[2] < n /\ RightOf(p) \in D /\ RightOf(p)[2] < n
    BY <1>1, <1>2, <2>1, <2>3, Parted
  <2>5. \/ Tree(older)[LeftOf(p)] # Tree(log)[LeftOf(p)]
        \/ Tree(older)[RightOf(p)] # Tree(log)[RightOf(p)]
    BY <2>1, <2>2, <2>3
  <2>6. LeftOf(p)[2] \in Nat /\ RightOf(p)[2] \in Nat
    BY <1>3, <2>4
  <2> QED
    BY <2>4, <2>5, <2>6
<1>5. B = {}
  <2>1. B \in SUBSET Nat
    OBVIOUS
  <2> HIDE DEF B
  <2> QED
    BY <1>4, <2>1, NoDescent
<1> QED
  BY <1>3, <1>5 DEF older

\* The root of the first k leaves of a log.
LEMMA PrefixRoot ==
  ASSUME NEW S, NEW log \in Seq(S), NEW k \in 1 .. Len(log)
  PROVE  <<0, k>> \in Spans(log) /\ RootOf(SubSeq(log, 1, k)) = Tree(log)[<<0, k>>]
<1>1. Len(log) \in Nat /\ k \in Nat /\ k \in 0 .. Len(log) /\ k > 0
  OBVIOUS
<1>2. Len(SubSeq(log, 1, k)) = k
  BY <1>1
<1>3. <<0, k>> \in Spans(SubSeq(log, 1, k))
  BY <1>1, <1>2 DEF Spans
<1> QED
  BY <1>1, <1>2, <1>3, PrefixTree DEF RootOf, Whole

(***************************************************************************)
(* The spots a walk may stand at: on the level where a node has w leaves,  *)
(* the node that follows j others, cut off where the log ends.             *)
(***************************************************************************)
Spot(end, w, j) == <<j * w, IF (j + 1) * w <= end THEN w ELSE end - j * w>>

\* Where a span is parted that has more leaves than a power of two, and at most twice
\* as many.
LEMMA PartedAt ==
  ASSUME NEW lo \in Nat, NEW n \in Nat, NEW w \in Powers, w < n, n <= 2 * w
  PROVE  LeftOf(<<lo, n>>) = <<lo, w>> /\ RightOf(<<lo, n>>) = <<lo + w, n - w>>
BY SplitIs DEF LeftOf, RightOf

LEMMA SpotIsSpan ==
  ASSUME NEW log, Len(log) \in Nat, NEW w \in Powers, NEW j \in Nat, j * w < Len(log)
  PROVE  Spot(Len(log), w, j) \in Spans(log)
<1>1. w \in Nat /\ w > 0 /\ j * w \in Nat /\ (j + 1) * w = j * w + w
  BY PowersAre
<1> DEFINE lo == j * w
<1>2. lo \in Nat /\ lo < Len(log) /\ (j + 1) * w = lo + w
  BY <1>1
<1> HIDE DEF lo
<1>3. <<lo, IF lo + w <= Len(log) THEN w ELSE Len(log) - lo>> \in Spans(log)
  BY <1>1, <1>2 DEF Spans
<1> QED
  BY <1>1, <1>2, <1>3 DEF Spot, lo

\* The parent of a left child that has a right one beside it.
LEMMA ParentIs ==
  ASSUME NEW end \in Nat, NEW w \in Powers, NEW j \in Nat, ~Odd(j), (j + 1) * w < end
  PROVE  LET p == Spot(end, 2 * w, Half(j)) IN
         /\ LeftOf(p) = Spot(end, w, j)
         /\ RightOf(p) = Spot(end, w, j + 1)
         /\ p[2] > 1 /\ p[1] = j * w /\ p[1] + p[2] > (j + 1) * w
         /\ RightOf(p)[1] = (j + 1) * w
         /\ Half(j) * (2 * w) < end
<1>1. w \in Nat /\ w > 0
  BY PowersAre
<1>2. PICK h \in Nat : h = Half(j) /\ j = 2 * h
  BY HalfIs
<1>3. PICK lo \in Nat : lo = j * w
  BY <1>1
<1>4. /\ (j + 1) * w = lo + w /\ (j + 1 + 1) * w = lo + 2 * w
      /\ h * (2 * w) = lo /\ (h + 1) * (2 * w) = lo + 2 * w
  <2>1. h * (2 * w) = (2 * h) * w /\ (h + 1) * (2 * w) = h * (2 * w) + 2 * w
    BY <1>1
  <2>2. (j + 1) * w = j * w + w /\ (j + 1 + 1) * w = j * w + 2 * w
    BY <1>1
  <2> QED
    BY <1>2, <1>3, <2>1, <2>2
<1>5. PICK n \in Nat : n = IF lo + 2 * w <= end THEN 2 * w ELSE end - lo
  <2>1. lo < end /\ 2 * w \in Nat
    BY <1>1, <1>4
  <2> QED
    BY <2>1
<1>6. Spot(end, 2 * w, h) = <<lo, n>>
  BY <1>4, <1>5 DEF Spot
<1>7. w < n /\ n <= 2 * w
  BY <1>1, <1>4, <1>5
<1>8. LeftOf(<<lo, n>>) = <<lo, w>> /\ RightOf(<<lo, n>>) = <<lo + w, n - w>>
  BY <1>7, PartedAt
<1>9. Spot(end, w, j) = <<lo, w>>
  BY <1>1, <1>3, <1>4 DEF Spot
<1>10. Spot(end, w, j + 1) = <<lo + w, n - w>>
  <2>1. n - w = IF lo + 2 * w <= end THEN w ELSE end - (lo + w)
    BY <1>1, <1>5
  <2> QED
    BY <1>4, <2>1 DEF Spot
<1> QED
  BY <1>1, <1>2, <1>3, <1>4, <1>6, <1>7, <1>8, <1>9, <1>10

(***************************************************************************)
(* A claim, and the way a walk that checks it should go.                   *)
(***************************************************************************)
IsClaim(c) ==
  /\ c.kind \in {"inclusion", "consistency"}
  /\ \E S : c.log \in Seq(S)
  /\ Len(c.log) > 0
  /\ c.number \in Int
  /\ \E S : c.path \in Seq(S)

\* The claims a path is read for.
Walked(c) ==
  /\ IsClaim(c)
  /\ IF c.kind = "inclusion" THEN c.number \in 0 .. Len(c.log) - 1
                             ELSE c.number \in 1 .. Len(c.log) - 1

LeafOf(c) == IF c.kind = "inclusion" THEN c.number ELSE c.number - 1
BottomOf(c) == IF c.kind = "inclusion" THEN Leaves(c.log)
               ELSE Leaves(c.log) \cup Ends(c.log, c.number)
GivenOf(c) == IF c.kind = "inclusion" THEN {} ELSE Inner(c.log)
WayOf(c) == Paths(c.log, LeafOf(c), BottomOf(c), GivenOf(c))
SpotOf(c, w, f) == Spot(Len(c.log), w, f)

\* fn is the node of its level that has the leaf, sn the last of the level; a walk that
\* stands where the older tree ends has just begun, at a left child.
Counters(c, f, s, w) ==
  /\ w \in Powers /\ f \in Nat /\ s \in Nat
  /\ f * w <= LeafOf(c) /\ LeafOf(c) < (f + 1) * w
  /\ s * w < Len(c.log) /\ Len(c.log) <= (s + 1) * w
  /\ c.kind = "consistency" /\ SpotOf(c, w, f)[1] + SpotOf(c, w, f)[2] = c.number
       => ~Odd(f) /\ f # s

LEMMA WayIs ==
  ASSUME NEW c, Walked(c)
  PROVE  /\ Len(c.log) \in Nat /\ Len(c.log) > 0
         /\ LeafOf(c) \in Nat /\ LeafOf(c) < Len(c.log)
         /\ ArePaths(WayOf(c), c.log, LeafOf(c), BottomOf(c), GivenOf(c))
         /\ \A p \in Spans(c.log) : WayOf(c)[p] \in Seq(Roots(c.log))
<1>1. Len(c.log) \in Nat /\ Len(c.log) > 0
  BY DEF Walked, IsClaim
<1>2. LeafOf(c) \in Nat /\ LeafOf(c) < Len(c.log)
  BY <1>1 DEF Walked, IsClaim, LeafOf
<1>3. Leaves(c.log) \subseteq BottomOf(c) /\ LeafOf(c) \in Int
  BY <1>2 DEF BottomOf
<1> QED
  BY <1>1, <1>2, <1>3, PathsAre, PathsType DEF WayOf

\* The node a walk stands at comes before the last of its level, or is it.
LEMMA CountersOrder ==
  ASSUME NEW c, Walked(c), NEW f, NEW s, NEW w, Counters(c, f, s, w)
  PROVE  /\ w \in Nat /\ w > 0 /\ f \in Nat /\ s \in Nat /\ f <= s
         /\ f # s => (f + 1) * w < Len(c.log)
         /\ f = s => Len(c.log) <= (f + 1) * w
         /\ f * w < Len(c.log)
<1>1. w \in Nat /\ w > 0 /\ f \in Nat /\ s \in Nat
  BY PowersAre DEF Counters
<1>2. Len(c.log) \in Nat /\ LeafOf(c) \in Nat /\ LeafOf(c) < Len(c.log)
  BY WayIs
<1>3. ASSUME NEW a \in Nat, NEW b \in Nat, a < b PROVE (a + 1) * w <= b * w
  <2>1. PICK d \in Nat : b = (a + 1) + d
    <3>1. b - (a + 1) \in Nat
      BY <1>3
    <3> QED
      BY <3>1
  <2>2. b * w = (a + 1) * w + d * w /\ d * w \in Nat /\ (a + 1) * w \in Nat
    BY <1>1, <2>1
  <2> QED
    BY <2>2
<1>4. f * w \in Nat /\ s * w \in Nat /\ (f + 1) * w \in Nat /\ (s + 1) * w \in Nat
  BY <1>1
<1>5. ~(s < f)
  <2>1. s < f => (s + 1) * w <= f * w
    BY <1>1, <1>3
  <2> QED
    BY <1>2, <1>4, <2>1 DEF Counters
<1>6. f < s => (f + 1) * w < Len(c.log)
  <2>1. f < s => (f + 1) * w <= s * w
    BY <1>1, <1>3
  <2> QED
    BY <1>2, <1>4, <2>1 DEF Counters
<1> QED
  BY <1>1, <1>2, <1>4, <1>5, <1>6 DEF Counters

\* What the way goes on with when the node has one on its right.
LEMMA RiseFromLeft ==
  ASSUME NEW c, Walked(c), NEW f, NEW s, NEW w, Counters(c, f, s, w), ~Odd(f), f # s
  PROVE  LET spot == SpotOf(c, w, f)
             next == SpotOf(c, w, f + 1)
             up == SpotOf(c, 2 * w, Half(f)) IN
         /\ spot \in Spans(c.log) /\ next \in Spans(c.log) /\ up \in Spans(c.log)
         /\ WayOf(c)[up] = Append(WayOf(c)[spot], Tree(c.log)[next])
         /\ Tree(c.log)[up] = <<Tree(c.log)[spot], Tree(c.log)[next]>>
         /\ up[1] + up[2] > LeafOf(c) + 1
<1> DEFINE spot == SpotOf(c, w, f)
           next == SpotOf(c, w, f + 1)
           up == SpotOf(c, 2 * w, Half(f))
<1>1. /\ w \in Powers /\ 2 * w \in Powers /\ w \in Nat /\ f \in Nat /\ Len(c.log) \in Nat
      /\ (f + 1) * w < Len(c.log) /\ f * w < Len(c.log) /\ LeafOf(c) < (f + 1) * w
      /\ LeafOf(c) \in Nat /\ Half(f) \in Nat /\ (f + 1) * w \in Nat /\ f + 1 \in Nat
  <2>1. /\ w \in Nat /\ f \in Nat /\ (f + 1) * w < Len(c.log) /\ f * w < Len(c.log)
    BY CountersOrder
  <2>2. w \in Powers /\ 2 * w \in Powers /\ LeafOf(c) < (f + 1) * w
    BY PowersAre DEF Counters
  <2>3. LeafOf(c) \in Nat /\ Len(c.log) \in Nat
    BY WayIs
  <2>4. Half(f) \in Nat /\ f + 1 \in Nat
    BY <2>1, HalfIs
  <2>5. (f + 1) * w \in Nat
    BY <2>1, <2>4
  <2> QED
    BY <2>1, <2>2, <2>3, <2>4, <2>5
<1>2. /\ LeftOf(up) = spot /\ RightOf(up) = next
      /\ up[2] > 1 /\ up[1] + up[2] > (f + 1) * w
      /\ RightOf(up)[1] = (f + 1) * w
      /\ Half(f) * (2 * w) < Len(c.log)
  BY <1>1, ParentIs DEF SpotOf
<1>3. spot \in Spans(c.log) /\ next \in Spans(c.log) /\ up \in Spans(c.log)
  BY <1>1, <1>2, SpotIsSpan DEF SpotOf
<1>4. up[1] \in Nat /\ up[2] \in Nat
  BY <1>3 DEF Spans
<1> HIDE DEF spot, next, up
<1>5. up[1] + up[2] > LeafOf(c) + 1 /\ up[2] # 1
  BY <1>1, <1>2, <1>4
<1>6. up \notin BottomOf(c)
  <2>1. c.kind # "inclusion" => c.number = LeafOf(c) + 1
    BY DEF LeafOf, Walked, IsClaim
  <2>2. up \notin Leaves(c.log)
    BY <1>5 DEF Leaves
  <2>3. c.kind # "inclusion" => up \notin Ends(c.log, c.number)
    BY <1>1, <1>4, <1>5, <2>1 DEF Ends
  <2> QED
    BY <2>2, <2>3 DEF BottomOf
<1>7. WayOf(c)[up] = Append(WayOf(c)[spot], Tree(c.log)[next])
  BY <1>1, <1>2, <1>3, <1>6, WayIs DEF ArePaths
<1>8. Tree(c.log)[up] = <<Tree(c.log)[spot], Tree(c.log)[next]>>
  BY <1>1, <1>2, <1>3, <1>5, TreeIs
<1> QED
  BY <1>3, <1>5, <1>7, <1>8 DEF spot, next, up

\* And when it has one on its left.
LEMMA RiseFromRight ==
  ASSUME NEW c, Walked(c), NEW f, NEW s, NEW w, Counters(c, f, s, w), Odd(f)
  PROVE  LET spot == SpotOf(c, w, f)
             last == SpotOf(c, w, f - 1)
             up == SpotOf(c, 2 * w, Half(f)) IN
         /\ spot \in Spans(c.log) /\ last \in Spans(c.log) /\ up \in Spans(c.log)
         /\ WayOf(c)[up] = Append(WayOf(c)[spot], Tree(c.log)[last])
         /\ Tree(c.log)[up] = <<Tree(c.log)[last], Tree(c.log)[spot]>>
         /\ up[1] + up[2] = spot[1] + spot[2]
<1> DEFINE spot == SpotOf(c, w, f)
           last == SpotOf(c, w, f - 1)
           up == SpotOf(c, 2 * w, Half(f))
<1>1. PICK h \in Nat : h = Half(f) /\ f = 2 * h + 1 /\ f \in Nat
  BY CountersOrder, HalfIs
<1>2. /\ w \in Powers /\ 2 * w \in Powers /\ w \in Nat /\ Len(c.log) \in Nat
      /\ f * w < Len(c.log) /\ f * w <= LeafOf(c)
      /\ LeafOf(c) \in Nat /\ f * w \in Nat
  BY CountersOrder, WayIs, PowersAre DEF Counters
<1>3. /\ f - 1 \in Nat /\ ~Odd(f - 1) /\ Half(f - 1) = h /\ (f - 1) + 1 = f
      /\ (f - 1) * w < Len(c.log)
  <2>1. f - 1 = 2 * h
    BY <1>1
  <2>2. (f - 1) * w = f * w - w
    BY <1>1, <1>2
  <2>3. (f - 1) * w < Len(c.log)
    BY <1>2, <2>2
  <2>4. ~Odd(2 * h) /\ Half(2 * h) = h
    BY ONLY h \in Nat, HalfIs
  <2>5. f - 1 \in Nat /\ (f - 1) + 1 = f
    BY ONLY <1>1, h \in Nat
  <2> QED
    BY ONLY <2>1, <2>3, <2>4, <2>5
<1>4. /\ LeftOf(up) = last /\ RightOf(up) = spot
      /\ up[2] > 1 /\ RightOf(up)[1] = f * w
      /\ Half(f) * (2 * w) < Len(c.log)
  <2>1. PICK j \in Nat : j = f - 1
    BY <1>3
  <2>2. ~Odd(j) /\ (j + 1) * w < Len(c.log) /\ Half(j) = Half(f) /\ j + 1 = f
    BY <1>1, <1>2, <1>3, <2>1
  <2>3. LET p == Spot(Len(c.log), 2 * w, Half(j)) IN
        /\ LeftOf(p) = Spot(Len(c.log), w, j)
        /\ RightOf(p) = Spot(Len(c.log), w, j + 1)
        /\ p[2] > 1 /\ RightOf(p)[1] = (j + 1) * w
        /\ Half(j) * (2 * w) < Len(c.log)
    BY <1>2, <2>2, ParentIs
  <2> QED
    BY <2>1, <2>2, <2>3 DEF SpotOf
<1>5. spot \in Spans(c.log) /\ last \in Spans(c.log) /\ up \in Spans(c.log)
  BY <1>1, <1>2, <1>3, <1>4, SpotIsSpan DEF SpotOf
<1> HIDE DEF spot, last, up
<1>6. up[2] # 1
  BY <1>4
<1>7. up[1] + up[2] = spot[1] + spot[2]
  BY <1>2, <1>4, <1>5, <1>6, Parted
<1>8. up \notin BottomOf(c)
  <2>1. c.kind = "inclusion" \/ c.kind = "consistency"
    BY DEF Walked, IsClaim
  <2>2. c.kind = "consistency" => spot[1] + spot[2] # c.number
    BY DEF Counters, spot
  <2> QED
    BY <1>6, <1>7, <2>1, <2>2 DEF BottomOf, Leaves, Ends
<1>9. WayOf(c)[up] = Append(WayOf(c)[spot], Tree(c.log)[last])
  <2>1. PICK lo \in Nat : lo = f * w
    BY <1>2
  <2>2. ~(LeafOf(c) < RightOf(up)[1])
    BY <1>2, <1>4, <2>1
  <2> QED
    BY <1>4, <1>5, <1>8, <2>2, WayIs DEF ArePaths
<1>10. Tree(c.log)[up] = <<Tree(c.log)[last], Tree(c.log)[spot]>>
  BY <1>2, <1>4, <1>5, <1>6, TreeIs
<1> QED
  BY <1>5, <1>7, <1>9, <1>10 DEF spot, last, up

\* And when it has none: it is its own parent.
LEMMA RiseAlone ==
  ASSUME NEW c, Walked(c), NEW f, NEW s, NEW w, Counters(c, f, s, w), ~Odd(f), f = s
  PROVE  SpotOf(c, 2 * w, Half(f)) = SpotOf(c, w, f)
<1>1. PICK h \in Nat : h = Half(f) /\ f = 2 * h /\ f \in Nat
  BY CountersOrder, HalfIs
<1>2. /\ w \in Nat /\ w > 0 /\ Len(c.log) \in Nat /\ Len(c.log) <= (f + 1) * w
      /\ f * w < Len(c.log)
  BY CountersOrder, WayIs
<1>3. PICK lo \in Nat : lo = f * w
  BY <1>1, <1>2
<1>4. (f + 1) * w = lo + w /\ h * (2 * w) = lo /\ (h + 1) * (2 * w) = lo + 2 * w
  <2> w \in Nat /\ h \in Nat /\ f \in Nat
    BY <1>1, <1>2
  <2>1. h * (2 * w) = (2 * h) * w /\ (h + 1) * (2 * w) = h * (2 * w) + 2 * w
    OBVIOUS
  <2>2. (f + 1) * w = f * w + w
    OBVIOUS
  <2> QED
    BY <1>1, <1>3, <2>1, <2>2
<1>5. SpotOf(c, w, f) = <<lo, IF lo + w <= Len(c.log) THEN w ELSE Len(c.log) - lo>>
  BY <1>3, <1>4 DEF SpotOf, Spot
<1>6. SpotOf(c, 2 * w, h) = <<lo, IF lo + 2 * w <= Len(c.log) THEN 2 * w ELSE Len(c.log) - lo>>
  BY <1>4 DEF SpotOf, Spot
<1>7. Len(c.log) <= lo + w /\ lo < Len(c.log)
  BY <1>2, <1>3, <1>4
<1>8. /\ (IF lo + w <= Len(c.log) THEN w ELSE Len(c.log) - lo) = Len(c.log) - lo
      /\ (IF lo + 2 * w <= Len(c.log) THEN 2 * w ELSE Len(c.log) - lo) = Len(c.log) - lo
  BY <1>2, <1>7
<1> QED
  BY <1>1, <1>5, <1>6, <1>8

LEMMA CountersRise ==
  ASSUME NEW c, Walked(c), NEW f, NEW s, NEW w, Counters(c, f, s, w), s # 0
  PROVE  Counters(c, Half(f), Half(s), 2 * w)
<1>1. PICK leaf \in Nat, end \in Nat : leaf = LeafOf(c) /\ end = Len(c.log)
  BY WayIs
<1>2. /\ w \in Nat /\ w > 0 /\ f \in Nat /\ s \in Nat
      /\ f * w <= leaf /\ leaf < (f + 1) * w /\ s * w < end /\ end <= (s + 1) * w
  BY <1>1, CountersOrder DEF Counters
<1>3. ASSUME NEW n \in Nat
      PROVE  /\ Half(n) \in Nat
             /\ Half(n) * (2 * w) <= n * w /\ (n + 1) * w <= (Half(n) + 1) * (2 * w)
             /\ n * w \in Nat /\ (n + 1) * w \in Nat
             /\ Half(n) * (2 * w) \in Nat /\ (Half(n) + 1) * (2 * w) \in Nat
  <2>1. PICK h \in Nat : h = Half(n) /\ (n = 2 * h \/ n = 2 * h + 1)
    BY ONLY n \in Nat, TwiceHalf
  <2>2. PICK m \in Nat : m = h * w
    BY <1>2, <2>1
  <2>3. h * (2 * w) = 2 * m /\ (h + 1) * (2 * w) = 2 * m + 2 * w
    BY <1>2, <2>1, <2>2
  <2>4. (2 * h) * w = 2 * m /\ (2 * h + 1) * w = 2 * m + w /\ (2 * h + 1 + 1) * w = 2 * m + 2 * w
    BY <1>2, <2>1, <2>2
  <2> QED
    BY <1>2, <2>1, <2>2, <2>3, <2>4
<1>4. /\ Half(f) \in Nat /\ Half(s) \in Nat
      /\ Half(f) * (2 * w) <= leaf /\ leaf < (Half(f) + 1) * (2 * w)
      /\ Half(s) * (2 * w) < end /\ end <= (Half(s) + 1) * (2 * w)
  <2>1. /\ Half(f) \in Nat /\ Half(f) * (2 * w) <= leaf /\ leaf < (Half(f) + 1) * (2 * w)
    <3>1. PICK a, b, d, e \in Nat : /\ a = Half(f) * (2 * w) /\ b = f * w
                                    /\ d = (f + 1) * w /\ e = (Half(f) + 1) * (2 * w)
                                    /\ a <= b /\ d <= e /\ Half(f) \in Nat
      BY <1>2, <1>3
    <3>2. b <= leaf /\ leaf < d
      BY <1>2, <3>1
    <3>3. a <= leaf /\ leaf < e
      BY ONLY <3>1, <3>2, leaf \in Nat, a \in Nat, b \in Nat, d \in Nat, e \in Nat
    <3> QED
      BY <3>1, <3>3
  <2>2. /\ Half(s) \in Nat /\ Half(s) * (2 * w) < end /\ end <= (Half(s) + 1) * (2 * w)
    <3>1. PICK a, b, d, e \in Nat : /\ a = Half(s) * (2 * w) /\ b = s * w
                                    /\ d = (s + 1) * w /\ e = (Half(s) + 1) * (2 * w)
                                    /\ a <= b /\ d <= e /\ Half(s) \in Nat
      BY <1>2, <1>3
    <3>2. b < end /\ end <= d
      BY <1>2, <3>1
    <3>3. a < end /\ end <= e
      BY ONLY <3>1, <3>2, end \in Nat, a \in Nat, b \in Nat, d \in Nat, e \in Nat
    <3> QED
      BY <3>1, <3>3
  <2> QED
    BY <2>1, <2>2
<1>5. ASSUME c.kind = "consistency"
      PROVE  SpotOf(c, 2 * w, Half(f))[1] + SpotOf(c, 2 * w, Half(f))[2] # c.number
  <2>1. c.number = leaf + 1
    BY <1>1, <1>5 DEF LeafOf, Walked, IsClaim
  <2>2. CASE Odd(f)
    <3>1. /\ SpotOf(c, 2 * w, Half(f))[1] + SpotOf(c, 2 * w, Half(f))[2]
             = SpotOf(c, w, f)[1] + SpotOf(c, w, f)[2]
      BY <2>2, RiseFromRight
    <3> QED
      BY <1>5, <2>2, <3>1 DEF Counters
  <2>3. CASE ~Odd(f) /\ f # s
    <3>1. SpotOf(c, 2 * w, Half(f))[1] + SpotOf(c, 2 * w, Half(f))[2] > leaf + 1
      BY <1>1, <2>3, RiseFromLeft
    <3> QED
      BY <2>1, <3>1
  <2>4. CASE ~Odd(f) /\ f = s
    <3>1. SpotOf(c, 2 * w, Half(f)) = SpotOf(c, w, f)
      BY <2>4, RiseAlone
    <3> QED
      BY <1>5, <2>4, <3>1 DEF Counters
  <2> QED
    BY <2>2, <2>3, <2>4
<1>6. 2 * w \in Powers
  BY PowersAre DEF Counters
<1> QED
  BY <1>1, <1>4, <1>5, <1>6 DEF Counters

\* The last level has one node, the root.
LEMMA TopIs ==
  ASSUME NEW c, Walked(c), NEW f, NEW s, NEW w, Counters(c, f, s, w), s = 0
  PROVE  SpotOf(c, w, f) = Whole(c.log) /\ f = 0
<1>1. f = 0 /\ w \in Nat /\ w > 0 /\ Len(c.log) <= (f + 1) * w
  BY CountersOrder
<1>2. f * w = 0 /\ (f + 1) * w = w /\ Len(c.log) \in Nat
  BY <1>1, WayIs
<1>3. (IF w <= Len(c.log) THEN w ELSE Len(c.log) - 0) = Len(c.log)
  BY <1>1, <1>2
<1>4. SpotOf(c, w, f) = <<0, IF w <= Len(c.log) THEN w ELSE Len(c.log) - 0>>
  BY <1>2 DEF SpotOf, Spot
<1> QED
  BY <1>1, <1>3, <1>4 DEF Whole

\* Below the root there is more of the way to go.
LEMMA WayGoesOn ==
  ASSUME NEW c, Walked(c), NEW f, NEW s, NEW w, Counters(c, f, s, w), s # 0
  PROVE  Len(WayOf(c)[SpotOf(c, w, f)]) < Len(WayOf(c)[Whole(c.log)])
<1> DEFINE Way == WayOf(c)
           all == Len(Way[Whole(c.log)])
           end == Len(c.log)
           Short(x, v) == Len(Way[SpotOf(c, v, x)]) < all
           B == {n \in Nat : \E x, y, v : /\ Counters(c, x, y, v) /\ y # 0
                                          /\ n = end - v /\ ~Short(x, v)}
<1>1. /\ end \in Nat /\ \A p \in Spans(c.log) : Len(Way[p]) \in Nat
  <2>1. \A p \in Spans(c.log) : Way[p] \in Seq(Roots(c.log))
    BY WayIs
  <2> QED
    BY <2>1, WayIs
<1>2. ASSUME NEW x, NEW y, NEW v, Counters(c, x, y, v)
      PROVE  SpotOf(c, v, x) \in Spans(c.log)
  <2>1. v \in Powers /\ x \in Nat /\ x * v < end
    BY <1>2, CountersOrder DEF Counters
  <2> QED
    BY <1>1, <2>1, SpotIsSpan DEF SpotOf
<1>3. all \in Nat
  <2>1. Whole(c.log) \in Spans(c.log)
    BY WayIs DEF Whole, Spans
  <2> QED
    BY <1>1, <2>1
<1>4. ASSUME NEW x, NEW y, NEW v, Counters(c, x, y, v), y # 0
      PROVE  v \in Nat /\ v > 0 /\ v < end
  <2>1. v \in Nat /\ v > 0 /\ y \in Nat /\ y > 0 /\ y * v < end
    <3>1. v \in Nat /\ v > 0 /\ y \in Nat
      BY <1>4, CountersOrder
    <3>2. y * v < end
      BY <1>4 DEF Counters
    <3> QED
      BY <1>4, <3>1, <3>2
  <2>2. v <= y * v /\ y * v \in Nat
    BY <2>1
  <2> QED
    BY <1>1, <2>1, <2>2
<1>5. ASSUME NEW x, NEW y, NEW v, Counters(c, x, y, v), y # 0,
             Counters(c, Half(x), Half(y), 2 * v), Half(y) # 0 => Short(Half(x), 2 * v)
      PROVE  Short(x, v)
  <2> DEFINE spot == SpotOf(c, v, x)
             up == SpotOf(c, 2 * v, Half(x))
  <2>1. /\ spot \in Spans(c.log) /\ up \in Spans(c.log)
        /\ Len(Way[spot]) \in Nat /\ Len(Way[up]) \in Nat
    BY <1>1, <1>2, <1>5
  <2>2. Half(y) = 0 => up = Whole(c.log)
    BY <1>5, TopIs
  <2>3. Len(Way[up]) <= all
    <3> HIDE DEF up, Way
    <3>1. Half(y) = 0 => Len(Way[up]) = all
      BY <2>2
    <3>2. Half(y) # 0 => Len(Way[up]) < all
      BY <1>5 DEF up
    <3> QED
      BY <1>3, <2>1, <3>1, <3>2
  <2>4. ASSUME NEW p \in Spans(c.log), Way[up] = Append(Way[spot], Tree(c.log)[p])
        PROVE  Short(x, v)
    <3>1. Way[spot] \in Seq(Roots(c.log)) /\ Tree(c.log)[p] \in Roots(c.log)
      BY <2>1, WayIs DEF Roots
    <3>2. Len(Way[up]) = Len(Way[spot]) + 1
      BY <2>4, <3>1, AppendProperties
    <3> HIDE DEF Way, up
    <3> QED
      BY <1>3, <2>1, <2>3, <3>2
  <2>5. CASE Odd(x)
    <3>1. PICK p \in Spans(c.log) : Way[up] = Append(Way[spot], Tree(c.log)[p])
      BY <1>5, <2>5, RiseFromRight
    <3> QED
      BY <2>4, <3>1
  <2>6. CASE ~Odd(x) /\ x # y
    <3>1. PICK p \in Spans(c.log) : Way[up] = Append(Way[spot], Tree(c.log)[p])
      BY <1>5, <2>6, RiseFromLeft
    <3> QED
      BY <2>4, <3>1
  <2>7. CASE ~Odd(x) /\ x = y
    <3>1. up = spot
      BY <1>5, <2>7, RiseAlone
    <3>2. Half(y) # 0
      <4>1. y \in Nat /\ y # 0 /\ ~Odd(y)
        BY <1>5, <2>7, CountersOrder
      <4>2. y = 2 * Half(y)
        BY <4>1, HalfIs
      <4> QED
        BY <4>1, <4>2
    <3> QED
      BY <1>5, <3>1, <3>2
  <2> QED
    BY <2>5, <2>6, <2>7
<1>6. ASSUME NEW n \in B PROVE \E m \in B : m < n
  <2>1. PICK x, y, v : Counters(c, x, y, v) /\ y # 0 /\ n = end - v /\ ~Short(x, v)
    OBVIOUS
  <2>2. Counters(c, Half(x), Half(y), 2 * v)
    BY <2>1, CountersRise
  <2>3. Half(y) # 0 /\ ~Short(Half(x), 2 * v)
    <3> HIDE DEF Short
    <3> QED
      BY <1>5, <2>1, <2>2
  <2>4. v \in Nat /\ v > 0 /\ 2 * v < end
    <3> HIDE DEF Short, end
    <3> QED
      BY <1>4, <2>1, <2>2, <2>3
  <2>5. end - 2 * v \in Nat /\ end - 2 * v < n
    <3>1. end \in Nat /\ n = end - v
      BY <1>1, <2>1
    <3> HIDE DEF end
    <3> QED
      BY <2>4, <3>1
  <2>6. end - 2 * v \in B
    <3> HIDE DEF Short
    <3> QED
      BY <2>2, <2>3, <2>5
  <2> QED
    BY <2>5, <2>6
<1>7. B = {}
  <2>1. B \in SUBSET Nat
    OBVIOUS
  <2> HIDE DEF B
  <2> QED
    BY <1>6, <2>1, NoDescent
<1>8. end - w \in Nat
  BY <1>1, <1>4
<1> HIDE DEF Short
<1>9. Short(f, w)
  BY <1>7, <1>8
<1> QED
  BY <1>9 DEF Short

(***************************************************************************)
(* A walk that stands at a spot has hashed the spot's root together exactly *)
(* when all it was given so far is right, and then the root of what the     *)
(* older tree has of it.                                                   *)
(***************************************************************************)
HashIsRight(c) ==
  IF c.kind = "inclusion" THEN c.hash = c.log[c.number + 1]
                          ELSE c.hash = RootOf(SubSeq(c.log, 1, c.number))
\* The path gives the first root too.
SeedGiven(c) == c.kind = "consistency" /\ ~IsPowerOfTwo(c.number)
Agrees(c, p, a) == \A i \in 1 .. a - 1 : c.path[i] = WayOf(c)[p][i]
Older(c, w, f) == <<f * w, c.number - f * w>>

Standing(c, f, s, a, o, n, w) ==
  /\ Counters(c, f, s, w)
  /\ a \in Nat /\ a = Len(WayOf(c)[SpotOf(c, w, f)]) + 1 /\ a <= Len(c.path) + 1
  /\ n = Tree(c.log)[SpotOf(c, w, f)]
       <=> (SeedGiven(c) \/ HashIsRight(c)) /\ Agrees(c, SpotOf(c, w, f), a)
  /\ c.kind = "consistency" /\ n = Tree(c.log)[SpotOf(c, w, f)]
       => o = Tree(c.log)[Older(c, w, f)]

\* One node of the path more, and one of the way.
Extends(c, p, up, q, a) ==
  /\ a + 1 = Len(WayOf(c)[up]) + 1
  /\ Agrees(c, up, a + 1) <=> Agrees(c, p, a) /\ c.path[a] = Tree(c.log)[q]

LEMMA OneMore ==
  ASSUME NEW c, Walked(c), NEW p \in Spans(c.log), NEW up \in Spans(c.log),
         NEW q \in Spans(c.log), WayOf(c)[up] = Append(WayOf(c)[p], Tree(c.log)[q]),
         NEW a \in Nat, a = Len(WayOf(c)[p]) + 1
  PROVE  Extends(c, p, up, q, a)
<1> DEFINE way == WayOf(c)[p]
           more == WayOf(c)[up]
           node == Tree(c.log)[q]
<1>1. way \in Seq(Roots(c.log)) /\ node \in Roots(c.log) /\ more = Append(way, node)
  BY WayIs DEF Roots
<1> HIDE DEF way, more, node
<1>2. /\ Len(way) \in Nat /\ Len(more) = Len(way) + 1 /\ more[Len(way) + 1] = node
      /\ \A i \in 1 .. Len(way) : more[i] = way[i]
  BY <1>1, AppendProperties
<1>3. a = Len(way) + 1
  BY DEF way
<1>4. (\A i \in 1 .. a : c.path[i] = more[i])
        <=> (\A i \in 1 .. a - 1 : c.path[i] = way[i]) /\ c.path[a] = node
  BY <1>2, <1>3
<1>5. Agrees(c, up, a + 1) <=> \A i \in 1 .. a : c.path[i] = more[i]
  <2>1. (a + 1) - 1 = a
    OBVIOUS
  <2> QED
    BY <2>1 DEF Agrees, more
<1>6. Agrees(c, p, a) <=> \A i \in 1 .. a - 1 : c.path[i] = way[i]
  BY DEF Agrees, way
<1> QED
  BY <1>2, <1>3, <1>4, <1>5, <1>6 DEF Extends, more, node

\* What the older tree has of a node and of the one on its left.
LEMMA OlderRises ==
  ASSUME NEW c, Walked(c), c.kind = "consistency",
         NEW f, NEW s, NEW w, Counters(c, f, s, w), Odd(f)
  PROVE  Tree(c.log)[Older(c, 2 * w, Half(f))]
           = <<Tree(c.log)[SpotOf(c, w, f - 1)], Tree(c.log)[Older(c, w, f)]>>
<1>1. PICK h \in Nat : h = Half(f) /\ f = 2 * h + 1 /\ f \in Nat
  BY CountersOrder, HalfIs
<1>2. /\ w \in Nat /\ w > 0 /\ Len(c.log) \in Nat /\ f * w < Len(c.log) /\ w \in Powers
      /\ c.number \in Nat /\ c.number <= Len(c.log)
      /\ f * w <= c.number - 1 /\ c.number - 1 < (f + 1) * w
  <2>1. LeafOf(c) = c.number - 1 /\ c.number \in 1 .. Len(c.log) - 1 /\ Len(c.log) \in Nat
    BY WayIs DEF LeafOf, Walked
  <2>2. w \in Nat /\ w > 0 /\ f * w < Len(c.log)
    BY CountersOrder
  <2> QED
    BY <2>1, <2>2 DEF Counters
<1>3. PICK lo \in Nat : lo = h * (2 * w)
  BY <1>2
<1>4. f * w = lo + w /\ (f + 1) * w = lo + 2 * w /\ (f - 1) * w = lo /\ ((f - 1) + 1) * w = lo + w
  <2> w \in Nat /\ h \in Nat /\ f = 2 * h + 1
    BY <1>1, <1>2
  <2>1. f * w = h * (2 * w) + w /\ (f + 1) * w = h * (2 * w) + 2 * w
    OBVIOUS
  <2>2. (f - 1) * w = h * (2 * w) /\ ((f - 1) + 1) * w = h * (2 * w) + w
    OBVIOUS
  <2> QED
    BY <1>3, <2>1, <2>2
<1>5. PICK n \in Nat : n = c.number - lo
  BY <1>2, <1>4
<1>6. w < n /\ n <= 2 * w /\ n - w = c.number - (lo + w) /\ lo + n <= Len(c.log)
  BY <1>2, <1>4, <1>5
<1>7. LeftOf(<<lo, n>>) = <<lo, w>> /\ RightOf(<<lo, n>>) = <<lo + w, n - w>>
  BY <1>2, <1>6, PartedAt
<1>8. <<lo, n>> \in Spans(c.log) /\ n # 1
  BY <1>2, <1>6 DEF Spans
<1>9. Tree(c.log)[<<lo, n>>] = <<Tree(c.log)[<<lo, w>>], Tree(c.log)[<<lo + w, n - w>>]>>
  BY <1>2, <1>7, <1>8, TreeIs
<1>10. Older(c, 2 * w, Half(f)) = <<lo, n>> /\ Older(c, w, f) = <<lo + w, n - w>>
  BY <1>1, <1>3, <1>4, <1>5, <1>6 DEF Older
<1>11. SpotOf(c, w, f - 1) = <<lo, w>>
  <2>1. lo + w <= Len(c.log)
    BY <1>2, <1>4
  <2> QED
    BY <1>4, <2>1 DEF SpotOf, Spot
<1> QED
  BY <1>9, <1>10, <1>11

\* The two steps of the loop, and a level that is skipped by the inner one.
LEMMA StandsAfterRight ==
  ASSUME NEW c, Walked(c), NEW f, NEW s, NEW a, NEW o, NEW n, NEW w,
         Standing(c, f, s, a, o, n, w), s # 0, a <= Len(c.path), ~Odd(f), f # s
  PROVE  Standing(c, Half(f), Half(s), a + 1, o, <<n, c.path[a]>>, 2 * w)
<1> DEFINE spot == SpotOf(c, w, f)
           next == SpotOf(c, w, f + 1)
           up == SpotOf(c, 2 * w, Half(f))
<1>1. Counters(c, Half(f), Half(s), 2 * w) /\ Counters(c, f, s, w)
  BY CountersRise DEF Standing
<1>2. /\ spot \in Spans(c.log) /\ next \in Spans(c.log) /\ up \in Spans(c.log)
      /\ WayOf(c)[up] = Append(WayOf(c)[spot], Tree(c.log)[next])
      /\ Tree(c.log)[up] = <<Tree(c.log)[spot], Tree(c.log)[next]>>
  BY <1>1, RiseFromLeft
<1>3. a \in Nat /\ a = Len(WayOf(c)[spot]) + 1
  BY DEF Standing
<1>4. /\ a + 1 = Len(WayOf(c)[up]) + 1
      /\ Agrees(c, up, a + 1) <=> Agrees(c, spot, a) /\ c.path[a] = Tree(c.log)[next]
  <2> HIDE DEF spot, next, up
  <2>1. Extends(c, spot, up, next, a)
    BY <1>2, <1>3, OneMore
  <2> QED
    BY <2>1 DEF Extends
<1>5. Len(c.path) \in Nat
  BY DEF Walked, IsClaim
<1>6. <<n, c.path[a]>> = Tree(c.log)[up]
        <=> n = Tree(c.log)[spot] /\ c.path[a] = Tree(c.log)[next]
  <2> HIDE DEF spot, next, up
  <2> QED
    BY <1>2
<1>7. Older(c, 2 * w, Half(f)) = Older(c, w, f)
  <2>0. f \in Nat
    BY <1>1, CountersOrder
  <2>1. PICK h \in Nat : h = Half(f) /\ f = 2 * h
    BY <2>0, HalfIs
  <2>2. w \in Nat
    BY <1>1, CountersOrder
  <2>3. h * (2 * w) = f * w
    BY <2>1, <2>2
  <2> QED
    BY <2>1, <2>3 DEF Older
<1>8. /\ n = Tree(c.log)[spot] <=> (SeedGiven(c) \/ HashIsRight(c)) /\ Agrees(c, spot, a)
      /\ c.kind = "consistency" /\ n = Tree(c.log)[spot] => o = Tree(c.log)[Older(c, w, f)]
  BY DEF Standing
<1>9. a + 1 \in Nat /\ a + 1 <= Len(c.path) + 1
  BY <1>3, <1>5
<1>10. /\ <<n, c.path[a]>> = Tree(c.log)[up]
            <=> (SeedGiven(c) \/ HashIsRight(c)) /\ Agrees(c, up, a + 1)
       /\ c.kind = "consistency" /\ <<n, c.path[a]>> = Tree(c.log)[up]
            => o = Tree(c.log)[Older(c, 2 * w, Half(f))]
  <2> HIDE DEF spot, next, up
  <2> QED
    BY <1>4, <1>6, <1>7, <1>8
<1> QED
  BY <1>1, <1>4, <1>9, <1>10 DEF Standing

LEMMA StandsAfterLeft ==
  ASSUME NEW c, Walked(c), NEW f, NEW s, NEW a, NEW o, NEW n, NEW w,
         Standing(c, f, s, a, o, n, w), s # 0, a <= Len(c.path), Odd(f)
  PROVE  Standing(c, Half(f), Half(s), a + 1, <<c.path[a], o>>, <<c.path[a], n>>, 2 * w)
<1> DEFINE spot == SpotOf(c, w, f)
           last == SpotOf(c, w, f - 1)
           up == SpotOf(c, 2 * w, Half(f))
<1>1. Counters(c, Half(f), Half(s), 2 * w) /\ Counters(c, f, s, w)
  BY CountersRise DEF Standing
<1>2. /\ spot \in Spans(c.log) /\ last \in Spans(c.log) /\ up \in Spans(c.log)
      /\ WayOf(c)[up] = Append(WayOf(c)[spot], Tree(c.log)[last])
      /\ Tree(c.log)[up] = <<Tree(c.log)[last], Tree(c.log)[spot]>>
  BY <1>1, RiseFromRight
<1>3. a \in Nat /\ a = Len(WayOf(c)[spot]) + 1
  BY DEF Standing
<1>4. /\ a + 1 = Len(WayOf(c)[up]) + 1
      /\ Agrees(c, up, a + 1) <=> Agrees(c, spot, a) /\ c.path[a] = Tree(c.log)[last]
  <2> HIDE DEF spot, last, up
  <2>1. Extends(c, spot, up, last, a)
    BY <1>2, <1>3, OneMore
  <2> QED
    BY <2>1 DEF Extends
<1>5. Len(c.path) \in Nat
  BY DEF Walked, IsClaim
<1>6. <<c.path[a], n>> = Tree(c.log)[up]
        <=> n = Tree(c.log)[spot] /\ c.path[a] = Tree(c.log)[last]
  <2> HIDE DEF spot, last, up
  <2> QED
    BY <1>2
<1>7. c.kind = "consistency" => Tree(c.log)[Older(c, 2 * w, Half(f))]
           = <<Tree(c.log)[last], Tree(c.log)[Older(c, w, f)]>>
  BY <1>1, OlderRises
<1>8. /\ n = Tree(c.log)[spot] <=> (SeedGiven(c) \/ HashIsRight(c)) /\ Agrees(c, spot, a)
      /\ c.kind = "consistency" /\ n = Tree(c.log)[spot] => o = Tree(c.log)[Older(c, w, f)]
  BY DEF Standing
<1>9. a + 1 \in Nat /\ a + 1 <= Len(c.path) + 1
  BY <1>3, <1>5
<1>10. /\ <<c.path[a], n>> = Tree(c.log)[up]
            <=> (SeedGiven(c) \/ HashIsRight(c)) /\ Agrees(c, up, a + 1)
       /\ c.kind = "consistency" /\ <<c.path[a], n>> = Tree(c.log)[up]
            => <<c.path[a], o>> = Tree(c.log)[Older(c, 2 * w, Half(f))]
  <2> HIDE DEF spot, last, up
  <2> QED
    BY <1>4, <1>6, <1>7, <1>8
<1> QED
  BY <1>1, <1>4, <1>9, <1>10 DEF Standing

LEMMA StandsAlone ==
  ASSUME NEW c, Walked(c), NEW f, NEW s, NEW a, NEW o, NEW n, NEW w,
         Standing(c, f, s, a, o, n, w), s # 0, ~Odd(f), f = s
  PROVE  Standing(c, Half(f), Half(s), a, o, n, 2 * w)
<1>1. Counters(c, Half(f), Half(s), 2 * w) /\ Counters(c, f, s, w)
  BY CountersRise DEF Standing
<1>2. SpotOf(c, 2 * w, Half(f)) = SpotOf(c, w, f)
  BY <1>1, RiseAlone
<1>3. Older(c, 2 * w, Half(f)) = Older(c, w, f)
  <2>0. f \in Nat
    BY <1>1, CountersOrder
  <2>1. PICK h \in Nat : h = Half(f) /\ f = 2 * h
    BY <2>0, HalfIs
  <2>2. w \in Nat
    BY <1>1, CountersOrder
  <2>3. h * (2 * w) = f * w
    BY <2>1, <2>2
  <2> QED
    BY <2>1, <2>3 DEF Older
<1> QED
  BY <1>1, <1>2, <1>3 DEF Standing

LEMMA ClimbStands ==
  ASSUME NEW c, Walked(c), NEW f, NEW s, NEW a, NEW o, NEW n, NEW w,
         Standing(c, f, s, a, o, n, w), s # 0, Odd(f) \/ f = s
  PROVE  \E v, j, i : /\ Climb[<<f, s>>] = <<j, i>>
                      /\ Odd(j) /\ i # 0 /\ Standing(c, j, i, a, o, n, v)
<1> DEFINE Lands(x, y) == \E v, j, i : /\ Climb[<<x, y>>] = <<j, i>>
                                       /\ Odd(j) /\ i # 0 /\ Standing(c, j, i, a, o, n, v)
           B == {x \in Nat : /\ x # 0 /\ ~Lands(x, x)
                             /\ \E v : Standing(c, x, x, a, o, n, v)}
<1>1. ASSUME NEW x \in Nat, NEW y \in Nat, Odd(x), y # 0, NEW v, Standing(c, x, y, a, o, n, v)
      PROVE  Lands(x, y)
  <2>1. <<x, y>> \in Pairs
    BY DEF Pairs
  <2>2. Climb[<<x, y>>] = <<x, y>>
    BY <1>1, <2>1, ClimbIs
  <2> QED
    BY <1>1, <2>2
<1>2. f \in Nat /\ s \in Nat
  BY CountersOrder DEF Standing
<1>3. ASSUME NEW x \in B PROVE \E m \in B : m < x
  <2>1. PICK v : Standing(c, x, x, a, o, n, v)
    OBVIOUS
  <2>2. x \in Nat /\ x # 0 /\ ~Lands(x, x)
    OBVIOUS
  <2> HIDE DEF Lands
  <2>3. ~Odd(x)
    BY <1>1, <2>1, <2>2
  <2>4. PICK h \in Nat : h = Half(x) /\ x = 2 * h
    BY <2>2, <2>3, HalfIs
  <2>5. h # 0 /\ h < x
    BY <2>2, <2>4
  <2>6. Standing(c, h, h, a, o, n, 2 * v)
    BY <2>1, <2>2, <2>3, <2>4, StandsAlone
  <2>7. Climb[<<x, x>>] = Climb[<<h, h>>]
    <3>1. <<x, x>> \in Pairs /\ Halves(<<x, x>>) = <<h, h>>
      BY <2>2, <2>4 DEF Pairs, Halves
    <3> QED
      BY <2>2, <2>3, <3>1, ClimbIs
  <2>8. ~Lands(h, h)
    BY <2>2, <2>7 DEF Lands
  <2> QED
    BY <2>5, <2>6, <2>8
<1>4. B = {}
  <2>1. B \in SUBSET Nat
    OBVIOUS
  <2> HIDE DEF B
  <2> QED
    BY <1>3, <2>1, NoDescent
<1> HIDE DEF Lands
<1>5. CASE Odd(f)
  <2>1. Lands(f, s)
    BY <1>1, <1>2, <1>5
  <2> QED
    BY <2>1 DEF Lands
<1>6. CASE f = s
  <2>1. Lands(f, s)
    BY <1>2, <1>4, <1>6
  <2> QED
    BY <2>1 DEF Lands
<1> QED
  BY <1>5, <1>6

\* Where the outer loop that skips the right children ends.
LEMMA AboveLands ==
  ASSUME NEW x \in Nat, NEW y \in Nat
  PROVE  \E w \in Powers, j \in Nat, i \in Nat :
           /\ Above[<<x, y>>] = <<j, i>>
           /\ ~Odd(j) /\ x + 1 = (j + 1) * w /\ i * w <= y /\ y < (i + 1) * w
<1> DEFINE Lands(u, v) == \E w \in Powers, j \in Nat, i \in Nat :
             /\ Above[<<u, v>>] = <<j, i>>
             /\ ~Odd(j) /\ u + 1 = (j + 1) * w /\ i * w <= v /\ v < (i + 1) * w
           B == {u \in Nat : \E v \in Nat : ~Lands(u, v)}
<1>1. ASSUME NEW u \in Nat, NEW v \in Nat, ~Odd(u) PROVE Lands(u, v)
  <2>1. <<u, v>> \in Pairs
    BY DEF Pairs
  <2>2. Above[<<u, v>>] = <<u, v>>
    BY <1>1, <2>1, AboveIs
  <2>3. u + 1 = (u + 1) * 1 /\ v * 1 <= v /\ v < (v + 1) * 1 /\ 1 \in Powers
    BY PowersAre
  <2> QED
    BY <1>1, <2>2, <2>3
<1>2. ASSUME NEW u \in B PROVE \E m \in B : m < u
  <2>1. PICK v \in Nat : ~Lands(u, v)
    OBVIOUS
  <2>2. u \in Nat /\ Odd(u)
    <3> HIDE DEF Lands
    <3> QED
      BY <1>1, <2>1
  <2>3. PICK h \in Nat : h = Half(u) /\ u = 2 * h + 1
    BY <2>2, HalfIs
  <2>4. PICK k \in Nat : k = Half(v) /\ 2 * k <= v /\ v < 2 * k + 2
    <3>1. PICK k \in Nat : k = Half(v) /\ (v = 2 * k \/ v = 2 * k + 1)
      BY ONLY v \in Nat, TwiceHalf
    <3> QED
      BY <3>1
  <2>5. Above[<<u, v>>] = Above[<<h, k>>]
    <3>1. <<u, v>> \in Pairs /\ Halves(<<u, v>>) = <<h, k>>
      BY <2>2, <2>3, <2>4 DEF Pairs, Halves
    <3> QED
      BY <2>2, <3>1, AboveIs
  <2>6. ~Lands(h, k)
    <3> SUFFICES ASSUME NEW w \in Powers, NEW j \in Nat, NEW i \in Nat,
                        Above[<<h, k>>] = <<j, i>>, ~Odd(j),
                        h + 1 = (j + 1) * w, i * w <= k, k < (i + 1) * w
                 PROVE  Lands(u, v)
      BY <2>1
    <3>1. 2 * w \in Powers /\ w \in Nat
      BY PowersAre
    <3>2. u + 1 = (j + 1) * (2 * w)
      <4>1. (j + 1) * (2 * w) = 2 * ((j + 1) * w)
        BY <3>1
      <4> QED
        BY <2>3, <4>1
    <3>3. i * (2 * w) <= v /\ v < (i + 1) * (2 * w)
      <4>1. PICK p \in Nat, q \in Nat : p = i * w /\ q = (i + 1) * w
        BY <3>1
      <4>2. i * (2 * w) = 2 * p /\ (i + 1) * (2 * w) = 2 * q
        BY <3>1, <4>1
      <4>3. p <= k /\ k + 1 <= q
        BY <4>1
      <4> QED
        BY <2>4, <4>2, <4>3
    <3> QED
      BY <2>5, <3>1, <3>2, <3>3
  <2>7. h < u
    BY <2>3
  <2> QED
    BY <2>6, <2>7
<1>3. B = {}
  <2>1. B \in SUBSET Nat
    OBVIOUS
  <2> HIDE DEF B
  <2> QED
    BY <1>2, <2>1, NoDescent
<1> HIDE DEF Lands
<1>4. Lands(x, y)
  BY <1>3
<1> QED
  BY <1>4 DEF Lands

(***************************************************************************)
(* Where the walks begin.                                                  *)
(***************************************************************************)
LEMMA InclusionStands ==
  ASSUME NEW c, Walked(c), c.kind = "inclusion"
  PROVE  Standing(c, c.number, Len(c.log) - 1, 1, c.hash, c.hash, 1)
<1> DEFINE spot == SpotOf(c, 1, c.number)
<1>1. /\ c.number \in Nat /\ c.number < Len(c.log) /\ Len(c.log) \in Nat
      /\ LeafOf(c) = c.number /\ 1 \in Powers
  BY WayIs, PowersAre DEF Walked, LeafOf
<1>2. /\ c.number * 1 = c.number /\ (c.number + 1) * 1 = c.number + 1
      /\ (Len(c.log) - 1) * 1 = Len(c.log) - 1 /\ (Len(c.log) - 1 + 1) * 1 = Len(c.log)
      /\ Len(c.log) - 1 \in Nat
  BY <1>1
<1>3. Counters(c, c.number, Len(c.log) - 1, 1)
  BY <1>1, <1>2 DEF Counters
<1>4. spot = <<c.number, 1>>
  BY <1>1, <1>2 DEF SpotOf, Spot
<1>5. spot \in Spans(c.log) /\ spot \in Leaves(c.log)
  BY <1>1, <1>4 DEF Spans, Leaves
<1>6. Tree(c.log)[spot] = c.log[c.number + 1]
  <2>1. spot[1] = c.number /\ spot[2] = 1
    BY <1>4
  <2> HIDE DEF spot
  <2>2. Tree(c.log)[spot] = IF spot[2] = 1 THEN c.log[spot[1] + 1]
                            ELSE <<Tree(c.log)[LeftOf(spot)], Tree(c.log)[RightOf(spot)]>>
    BY <1>1, <1>5, TreeIs
  <2> QED
    BY <2>1, <2>2
<1>7. WayOf(c)[spot] = <<>>
  <2> HIDE DEF spot
  <2>1. spot \in BottomOf(c) /\ spot \notin GivenOf(c)
    BY <1>5 DEF BottomOf, GivenOf
  <2> QED
    BY <1>5, <2>1, WayIs DEF ArePaths
<1>8. Len(WayOf(c)[spot]) = 0 /\ Len(c.path) \in Nat
  <2>1. Len(<<>>) = 0
    OBVIOUS
  <2> QED
    BY <1>7, <2>1 DEF Walked, IsClaim
<1>9. Agrees(c, spot, 1)
  BY DEF Agrees
<1>10. /\ c.hash = Tree(c.log)[spot]
            <=> (SeedGiven(c) \/ HashIsRight(c)) /\ Agrees(c, spot, 1)
  BY <1>6, <1>9 DEF SeedGiven, HashIsRight
<1> QED
  BY <1>3, <1>8, <1>10 DEF Standing

\* Above gives the counters of the largest span that ends with the older tree's newest
\* leaf, and it is the older tree itself when that has a power of two of leaves.
LEMMA ConsistencyStarts ==
  ASSUME NEW c, Walked(c), c.kind = "consistency"
  PROVE  \E w, j, i :
           /\ Above[<<c.number - 1, Len(c.log) - 1>>] = <<j, i>>
           /\ Counters(c, j, i, w) /\ i # 0
           /\ SpotOf(c, w, j) \in Spans(c.log) /\ SpotOf(c, w, j) = Older(c, w, j)
           /\ IF IsPowerOfTwo(c.number)
              THEN SpotOf(c, w, j) = <<0, c.number>> /\ WayOf(c)[SpotOf(c, w, j)] = <<>>
              ELSE WayOf(c)[SpotOf(c, w, j)] = <<Tree(c.log)[SpotOf(c, w, j)]>>
<1>1. /\ c.number \in Nat /\ c.number > 0 /\ c.number < Len(c.log) /\ Len(c.log) \in Nat
      /\ LeafOf(c) = c.number - 1
  BY WayIs DEF Walked, LeafOf
<1>2. PICK x \in Nat, y \in Nat : /\ x = c.number - 1 /\ y = Len(c.log) - 1
                                  /\ x + 1 = c.number /\ y + 1 = Len(c.log)
  <2>1. c.number - 1 \in Nat /\ (c.number - 1) + 1 = c.number
    BY <1>1
  <2>2. Len(c.log) - 1 \in Nat /\ (Len(c.log) - 1) + 1 = Len(c.log)
    BY <1>1
  <2> QED
    BY <2>1, <2>2
<1>3. PICK w \in Powers, j \in Nat, i \in Nat :
         /\ Above[<<x, y>>] = <<j, i>>
         /\ ~Odd(j) /\ x + 1 = (j + 1) * w /\ i * w <= y /\ y < (i + 1) * w
  BY AboveLands
<1>4. w \in Nat /\ w > 0
  BY PowersAre
<1>5. PICK lo \in Nat : lo = j * w
  BY <1>4
<1>6. (j + 1) * w = lo + w /\ lo + w = c.number
  <2>1. (j + 1) * w = j * w + w
    BY <1>4
  <2> QED
    BY <1>2, <1>3, <1>5, <2>1
<1>7. SpotOf(c, w, j) = <<lo, w>> /\ Older(c, w, j) = <<lo, w>>
  BY <1>1, <1>4, <1>5, <1>6 DEF SpotOf, Spot, Older
<1>8. i * w < Len(c.log) /\ Len(c.log) <= (i + 1) * w
  <2>1. PICK p \in Nat, q \in Nat : p = i * w /\ q = (i + 1) * w
    BY <1>4
  <2>2. p <= y /\ y < q
    BY <1>3, <2>1
  <2> QED
    BY <1>2, <2>1, <2>2
<1>9. j # i
  <2>1. j = i => (j + 1) * w = (i + 1) * w
    OBVIOUS
  <2> QED
    BY <1>1, <1>6, <1>8, <2>1
<1>10. Counters(c, j, i, w)
  <2>1. j * w <= LeafOf(c) /\ LeafOf(c) < (j + 1) * w
    BY <1>1, <1>4, <1>5, <1>6
  <2> QED
    BY <1>3, <1>8, <1>9, <2>1 DEF Counters
<1>11. i # 0
  <2>1. i = 0 => (i + 1) * w = w
    BY <1>4
  <2>2. w <= c.number
    BY <1>4, <1>6
  <2> QED
    BY <1>1, <1>4, <1>8, <2>1, <2>2
<1>12. <<lo, w>> \in Spans(c.log) /\ <<lo, w>> \in Ends(c.log, c.number)
  BY <1>1, <1>4, <1>6 DEF Spans, Ends
<1>13. WayOf(c)[<<lo, w>>] = IF lo > 0 THEN <<Tree(c.log)[<<lo, w>>]>> ELSE <<>>
  <2>1. <<lo, w>> \in BottomOf(c)
    BY <1>12 DEF BottomOf
  <2>2. <<lo, w>> \in GivenOf(c) <=> lo > 0
    BY <1>12 DEF GivenOf, Inner
  <2>3. PICK p : p = <<lo, w>>
    OBVIOUS
  <2>4. /\ p \in GivenOf(c) => WayOf(c)[p] = <<Tree(c.log)[p]>>
        /\ p \notin GivenOf(c) => WayOf(c)[p] = <<>>
    BY <1>12, <2>1, <2>3, WayIs DEF ArePaths
  <2> QED
    BY <2>2, <2>3, <2>4
<1>14. IsPowerOfTwo(c.number) <=> lo = 0
  <2>1. lo = 0 => IsPowerOfTwo(c.number)
    <3>1. lo = 0 => c.number = w
      BY <1>4, <1>6
    <3> QED
      BY <3>1 DEF Powers
  <2>2. ASSUME IsPowerOfTwo(c.number), lo # 0 PROVE FALSE
    <3>1. c.number \in Powers /\ w < c.number
      BY <1>1, <1>4, <1>6, <2>2 DEF Powers
    <3>2. PICK d \in Nat : c.number = d * (2 * w)
      BY <3>1, PowersDivide
    <3>3. (j + 1) * w = (2 * d) * w
      <4>1. d * (2 * w) = (2 * d) * w
        BY <1>4
      <4> QED
        BY <1>6, <3>2, <4>1
    <3>4. j + 1 = 2 * d
      BY <1>4, <3>3
    <3>5. ~Odd(j)
      BY <1>3
    <3>6. Half(j) \in Nat /\ j = 2 * Half(j)
      BY <3>5, HalfIs
    <3> QED
      BY <3>4, <3>6
  <2> QED
    BY <2>1, <2>2
<1>15. IF IsPowerOfTwo(c.number)
       THEN <<lo, w>> = <<0, c.number>> /\ WayOf(c)[<<lo, w>>] = <<>>
       ELSE WayOf(c)[<<lo, w>>] = <<Tree(c.log)[<<lo, w>>]>>
  <2>1. CASE lo = 0
    <3>1. w = c.number
      BY <1>4, <1>6, <2>1
    <3> QED
      BY <1>13, <1>14, <2>1, <3>1
  <2>2. CASE lo > 0
    BY <1>13, <1>14, <2>2
  <2> QED
    BY <2>1, <2>2
<1>16. Above[<<c.number - 1, Len(c.log) - 1>>] = <<j, i>>
  BY <1>2, <1>3
<1> QED
  BY <1>7, <1>10, <1>11, <1>12, <1>15, <1>16

LEMMA ConsistencyStands ==
  ASSUME NEW c, Walked(c), c.kind = "consistency", c.path # <<>>,
         NEW up, up = Above[<<c.number - 1, Len(c.log) - 1>>]
  PROVE  IF IsPowerOfTwo(c.number)
         THEN \E w : Standing(c, up[1], up[2], 1, c.hash, c.hash, w)
         ELSE \E w : Standing(c, up[1], up[2], 2, c.path[1], c.path[1], w)
<1>1. PICK w, j, i :
           /\ up = <<j, i>> /\ Counters(c, j, i, w)
           /\ SpotOf(c, w, j) \in Spans(c.log) /\ SpotOf(c, w, j) = Older(c, w, j)
           /\ IF IsPowerOfTwo(c.number)
              THEN SpotOf(c, w, j) = <<0, c.number>> /\ WayOf(c)[SpotOf(c, w, j)] = <<>>
              ELSE WayOf(c)[SpotOf(c, w, j)] = <<Tree(c.log)[SpotOf(c, w, j)]>>
  BY ConsistencyStarts
<1>2. PICK spot : spot = SpotOf(c, w, j)
  OBVIOUS
<1>3. up[1] = j /\ up[2] = i
  BY <1>1
<1>4. Len(c.path) \in Nat /\ Len(c.path) > 0
  <2>1. PICK S : c.path \in Seq(S)
    BY DEF Walked, IsClaim
  <2> QED
    BY <2>1, EmptySeq
<1>5. CASE IsPowerOfTwo(c.number)
  <2>1. spot = <<0, c.number>> /\ WayOf(c)[spot] = <<>>
    BY <1>1, <1>2, <1>5
  <2>2. Len(WayOf(c)[spot]) = 0
    <3>1. Len(<<>>) = 0
      OBVIOUS
    <3> QED
      BY <2>1, <3>1
  <2>3. Tree(c.log)[spot] = RootOf(SubSeq(c.log, 1, c.number))
    <3>1. c.number \in 1 .. Len(c.log) /\ \E S : c.log \in Seq(S)
      <4>1. Len(c.log) \in Nat /\ c.number \in 1 .. Len(c.log) - 1 /\ \E S : c.log \in Seq(S)
        BY WayIs DEF Walked, IsClaim
      <4> QED
        BY <4>1
    <3> QED
      BY <2>1, <3>1, PrefixRoot
  <2>4. Agrees(c, spot, 1)
    BY DEF Agrees
  <2>5. /\ c.hash = Tree(c.log)[spot]
            <=> (SeedGiven(c) \/ HashIsRight(c)) /\ Agrees(c, spot, 1)
    BY <1>5, <2>3, <2>4 DEF SeedGiven, HashIsRight
  <2>6. Standing(c, j, i, 1, c.hash, c.hash, w)
    BY <1>1, <1>2, <1>4, <2>2, <2>5 DEF Standing
  <2> QED
    BY <1>3, <1>5, <2>6
<1>6. CASE ~IsPowerOfTwo(c.number)
  <2>1. WayOf(c)[spot] = <<Tree(c.log)[spot]>>
    BY <1>1, <1>2, <1>6
  <2>2. Len(WayOf(c)[spot]) = 1 /\ WayOf(c)[spot][1] = Tree(c.log)[spot]
    BY <2>1
  <2>3. Agrees(c, spot, 2) <=> c.path[1] = Tree(c.log)[spot]
    <3>1. 1 .. 2 - 1 = {1}
      OBVIOUS
    <3> QED
      BY <2>2, <3>1 DEF Agrees
  <2>4. /\ c.path[1] = Tree(c.log)[spot]
            <=> (SeedGiven(c) \/ HashIsRight(c)) /\ Agrees(c, spot, 2)
    BY <1>6, <2>3 DEF SeedGiven
  <2>5. 2 \in Nat /\ 2 = Len(WayOf(c)[spot]) + 1 /\ 2 <= Len(c.path) + 1
    BY <1>4, <2>2
  <2>6. Standing(c, j, i, 2, c.path[1], c.path[1], w)
    BY <1>1, <1>2, <2>4, <2>5 DEF Standing
  <2> QED
    BY <1>3, <1>6, <2>6
<1> QED
  BY <1>5, <1>6

(***************************************************************************)
(* What the walks say.                                                     *)
(***************************************************************************)
LEMMA HonestIs ==
  ASSUME NEW c, Walked(c)
  PROVE  Honest(c) <=> HashIsRight(c) /\ c.path = WayOf(c)[Whole(c.log)]
<1>1. CASE c.kind = "inclusion"
  <2>1. c.number \in 0 .. Len(c.log) - 1
    BY <1>1 DEF Walked
  <2>2. AuditPath(c.log, c.number) = WayOf(c)[Whole(c.log)]
    BY <1>1 DEF AuditPath, WayOf, LeafOf, BottomOf, GivenOf
  <2> QED
    BY <1>1, <2>1, <2>2 DEF Honest, HashIsRight
<1>2. CASE c.kind # "inclusion"
  <2>1. /\ c.number \in 0 .. Len(c.log) /\ c.number > 0 /\ c.number # 0
    <3>1. Len(c.log) \in Nat /\ c.number \in 1 .. Len(c.log) - 1
      BY <1>2, WayIs DEF Walked
    <3> QED
      BY <3>1
  <2>2. ConsistencyProof(c.log, c.number) = WayOf(c)[Whole(c.log)]
    BY <1>2, <2>1 DEF ConsistencyProof, WayOf, LeafOf, BottomOf, GivenOf
  <2> QED
    BY <1>2, <2>1, <2>2 DEF Honest, HashIsRight
<1> QED
  BY <1>1, <1>2

\* An honest path is read to its end, at the root, and not beyond it.
LEMMA HonestEnds ==
  ASSUME NEW c, Walked(c), NEW f, NEW s, NEW a, NEW o, NEW n, NEW w,
         Standing(c, f, s, a, o, n, w), Honest(c)
  PROVE  s = 0 <=> a > Len(c.path)
<1>1. a \in Nat /\ a = Len(WayOf(c)[SpotOf(c, w, f)]) + 1 /\ a <= Len(c.path) + 1
  BY DEF Standing
<1>2. c.path = WayOf(c)[Whole(c.log)] /\ Len(c.path) \in Nat
  BY HonestIs DEF Walked, IsClaim
<1>3. s = 0 => SpotOf(c, w, f) = Whole(c.log)
  BY TopIs DEF Standing
<1>4. s # 0 => Len(WayOf(c)[SpotOf(c, w, f)]) < Len(WayOf(c)[Whole(c.log)])
  BY WayGoesOn DEF Standing
<1>5. CASE s = 0
  <2>1. a = Len(c.path) + 1
    BY <1>1, <1>2, <1>3, <1>5
  <2> QED
    BY <1>2, <1>5, <2>1
<1>6. CASE s # 0
  <2>1. PICK k : k = Len(WayOf(c)[SpotOf(c, w, f)])
    OBVIOUS
  <2>2. k < Len(c.path) /\ a = k + 1
    BY <1>1, <1>2, <1>4, <1>6, <2>1
  <2>3. k \in Nat
    <3>1. SpotOf(c, w, f) \in Spans(c.log)
      <4>1. Len(c.log) \in Nat /\ w \in Powers /\ f \in Nat /\ f * w < Len(c.log)
        BY CountersOrder, WayIs DEF Standing, Counters
      <4> QED
        BY <4>1, SpotIsSpan DEF SpotOf
    <3>2. WayOf(c)[SpotOf(c, w, f)] \in Seq(Roots(c.log))
      BY <3>1, WayIs
    <3> QED
      BY <2>1, <3>2
  <2> QED
    BY <1>2, <1>6, <2>2, <2>3
<1> QED
  BY <1>5, <1>6

LEMMA ReturnsAreRight ==
  ASSUME NEW c, Walked(c), NEW f, NEW s, NEW a, NEW o, NEW n, NEW w,
         Standing(c, f, s, a, o, n, w), a > Len(c.path)
  PROVE  Honest(c) <=> /\ s = 0
                       /\ c.kind = "consistency" => o = c.hash
                       /\ n = RootOf(c.log)
<1>1. SUFFICES ASSUME s = 0
               PROVE  Honest(c) <=> /\ c.kind = "consistency" => o = c.hash
                                    /\ n = RootOf(c.log)
  BY HonestEnds
<1>2. SpotOf(c, w, f) = Whole(c.log) /\ f = 0
  BY <1>1, TopIs DEF Standing
<1>3. /\ a \in Nat /\ a = Len(WayOf(c)[Whole(c.log)]) + 1 /\ a <= Len(c.path) + 1
      /\ n = Tree(c.log)[Whole(c.log)]
           <=> (SeedGiven(c) \/ HashIsRight(c)) /\ Agrees(c, Whole(c.log), a)
      /\ c.kind = "consistency" /\ n = Tree(c.log)[Whole(c.log)]
           => o = Tree(c.log)[Older(c, w, f)]
  BY <1>2 DEF Standing
<1>4. Agrees(c, Whole(c.log), a) <=> c.path = WayOf(c)[Whole(c.log)]
  <2>1. PICK way : way = WayOf(c)[Whole(c.log)]
    OBVIOUS
  <2>2. Whole(c.log) \in Spans(c.log)
    BY WayIs DEF Whole, Spans
  <2>3. (\E S : c.path \in Seq(S)) /\ \E S : way \in Seq(S)
    BY <2>1, <2>2, WayIs DEF Walked, IsClaim
  <2>4. Len(c.path) \in Nat /\ Len(way) \in Nat
    BY <2>3
  <2>5. Len(c.path) = Len(way) /\ a = Len(way) + 1
    BY <1>3, <2>1, <2>4
  <2>6. Agrees(c, Whole(c.log), a) <=> \A i \in 1 .. Len(way) : c.path[i] = way[i]
    BY <2>1, <2>4, <2>5 DEF Agrees
  <2>7. (\A i \in 1 .. Len(way) : c.path[i] = way[i]) => c.path = way
    <3>1. PICK S, T : c.path \in Seq(S) /\ way \in Seq(T)
      BY <2>3
    <3>2. c.path \in Seq(S \cup T) /\ way \in Seq(S \cup T)
      BY <3>1, SeqMonotonic
    <3> QED
      BY <2>5, <3>2, SeqEqual
  <2> QED
    BY <2>1, <2>6, <2>7
<1>5. n = RootOf(c.log) <=> n = Tree(c.log)[Whole(c.log)]
  BY DEF RootOf
<1>6. Honest(c) <=> HashIsRight(c) /\ c.path = WayOf(c)[Whole(c.log)]
  BY HonestIs
<1>7. CASE c.kind = "inclusion"
  BY <1>3, <1>4, <1>5, <1>6, <1>7 DEF SeedGiven
<1>8. CASE c.kind = "consistency"
  <2>1. Tree(c.log)[Older(c, w, f)] = RootOf(SubSeq(c.log, 1, c.number))
    <3>1. c.number \in 1 .. Len(c.log) /\ \E S : c.log \in Seq(S)
      <4>1. Len(c.log) \in Nat /\ c.number \in 1 .. Len(c.log) - 1 /\ \E S : c.log \in Seq(S)
        BY <1>8, WayIs DEF Walked, IsClaim
      <4> QED
        BY <4>1
    <3>2. Older(c, w, f) = <<0, c.number>>
      <4>1. w \in Nat /\ f * w = 0
        BY <1>2, CountersOrder DEF Standing
      <4> QED
        BY <3>1, <4>1 DEF Older
    <3> QED
      BY <3>1, <3>2, PrefixRoot
  <2> QED
    BY <1>3, <1>4, <1>5, <1>6, <1>8, <2>1 DEF HashIsRight
<1> QED
  BY <1>7, <1>8 DEF Walked, IsClaim

(***************************************************************************)
(* The invariant.                                                          *)
(***************************************************************************)
WalkInv ==
  answer = "none" =>
    Walked(claim) /\ \E w : Standing(claim, fn, sn, at, old, new, w)
AnswerInv ==
  /\ answer \in {"none", "yes", "no"}
  /\ answer = "yes" => Honest(claim)
  /\ answer = "no" => ~Honest(claim)
IInv == IsClaim(claim) /\ WalkInv /\ AnswerInv

LEMMA LogOfIs ==
  ASSUME NEW n \in Nat
  PROVE  /\ Len(LogOf(n)) = n /\ \E S : LogOf(n) \in Seq(S)
<1>1. LogOf(n) \in Seq({<<i>> : i \in 1 .. n})
  BY DEF LogOf
<1>2. Len(LogOf(n)) = n
  BY DEF LogOf
<1> QED
  BY <1>1, <1>2

\* What every claim of Init is.
LEMMA ClaimsAre ==
  ASSUME HonestClaim \/ ForgedInclusion \/ ForgedConsistency
  PROVE  IsClaim(claim)
<1>1. ASSUME NEW kind \in {"inclusion", "consistency"}, NEW n \in Nat, n > 0,
             NEW i \in Int, NEW hash, NEW path, \E S : path \in Seq(S),
             Claims(kind, LogOf(n), i, hash, path)
      PROVE  IsClaim(claim)
  <2>1. /\ claim.kind = kind /\ claim.log = LogOf(n) /\ claim.number = i /\ claim.path = path
    BY <1>1 DEF Claims
  <2> QED
    BY <1>1, <2>1, LogOfIs DEF IsClaim
<1>2. ASSUME NEW n \in Nat, n > 0, NEW leaf \in Int, NEW bottom, NEW given,
             Leaves(LogOf(n)) \subseteq bottom
      PROVE  \E S : Paths(LogOf(n), leaf, bottom, given)[Whole(LogOf(n))] \in Seq(S)
  <2>1. Len(LogOf(n)) = n
    BY LogOfIs
  <2>2. Whole(LogOf(n)) \in Spans(LogOf(n))
    BY <1>2, <2>1 DEF Whole, Spans
  <2> QED
    BY <1>2, <2>1, <2>2, PathsType
<1>3. CASE HonestClaim
  <2>1. PICK n \in 1 .. MaxSize, i \in 0 .. MaxSize :
          \/ i < n /\ Claims("inclusion", LogOf(n), i, <<i + 1>>, AuditPath(LogOf(n), i))
          \/ 0 < i /\ i <= n /\ Claims("consistency", LogOf(n), i, RootOf(LogOf(i)),
                                      ConsistencyProof(LogOf(n), i))
    BY <1>3 DEF HonestClaim
  <2>2. n \in Nat /\ n > 0 /\ i \in Int
    BY MerkleAssumption
  <2>3. CASE Claims("inclusion", LogOf(n), i, <<i + 1>>, AuditPath(LogOf(n), i))
    <3>1. \E S : AuditPath(LogOf(n), i) \in Seq(S)
      BY <1>2, <2>2 DEF AuditPath
    <3> QED
      BY <1>1, <2>2, <2>3, <3>1
  <2>4. CASE /\ 0 < i
             /\ Claims("consistency", LogOf(n), i, RootOf(LogOf(i)), ConsistencyProof(LogOf(n), i))
    <3>1. \E S : ConsistencyProof(LogOf(n), i) \in Seq(S)
      <4>1. i # 0 /\ i - 1 \in Int
        BY <2>2, <2>4
      <4> QED
        BY <1>2, <2>2, <4>1 DEF ConsistencyProof
    <3> QED
      BY <1>1, <2>2, <2>4, <3>1
  <2> QED
    BY <2>1, <2>3, <2>4
<1>4. ASSUME NEW m \in Nat, NEW H, NEW path \in [1 .. m -> H]
      PROVE  \E S : path \in Seq(S)
  <2>1. path \in Seq(H)
    OBVIOUS
  <2> QED
    BY <2>1
<1>5. CASE ForgedInclusion
  <2>1. PICK n \in 1 .. ForgedSize, i \in -1 .. ForgedSize :
          \E hash \in Hashes(LogOf(n)), m \in 0 .. ForgedPath :
            \E path \in [1 .. m -> Hashes(LogOf(n))] :
              Claims("inclusion", LogOf(n), i, hash, path)
    BY <1>5 DEF ForgedInclusion
  <2>2. PICK hash \in Hashes(LogOf(n)), m \in 0 .. ForgedPath :
          \E path \in [1 .. m -> Hashes(LogOf(n))] :
            Claims("inclusion", LogOf(n), i, hash, path)
    BY <2>1
  <2>3. PICK path \in [1 .. m -> Hashes(LogOf(n))] :
          Claims("inclusion", LogOf(n), i, hash, path)
    BY <2>2
  <2>4. n \in Nat /\ n > 0 /\ i \in Int /\ m \in Nat
    BY MerkleAssumption
  <2>5. \E S : path \in Seq(S)
    BY <1>4, <2>4
  <2> QED
    BY <1>1, <2>3, <2>4, <2>5
<1>6. CASE ForgedConsistency
  <2>1. PICK n \in 1 .. ForgedSize, j \in 1 .. ForgedSize, i \in -1 .. ForgedSize + 1 :
          /\ j <= n
          /\ \E size \in j .. n, m \in 0 .. ForgedPath :
               \E path \in [1 .. m -> Hashes(LogOf(n)) \cup Hashes(Rewritten(n, j))] :
                 Claims("consistency", LogOf(n), i, RootOf(Rewritten(size, j)), path)
    BY <1>6 DEF ForgedConsistency
  <2>2. PICK size \in j .. n, m \in 0 .. ForgedPath :
          \E path \in [1 .. m -> Hashes(LogOf(n)) \cup Hashes(Rewritten(n, j))] :
            Claims("consistency", LogOf(n), i, RootOf(Rewritten(size, j)), path)
    BY <2>1
  <2>3. PICK path \in [1 .. m -> Hashes(LogOf(n)) \cup Hashes(Rewritten(n, j))] :
          Claims("consistency", LogOf(n), i, RootOf(Rewritten(size, j)), path)
    BY <2>2
  <2>4. n \in Nat /\ n > 0 /\ i \in Int /\ m \in Nat
    BY MerkleAssumption
  <2>5. \E S : path \in Seq(S)
    BY <1>4, <2>4
  <2> QED
    BY <1>1, <2>3, <2>4, <2>5
<1> QED
  BY <1>3, <1>5, <1>6

\* Between trees of one size there is nothing to prove.
LEMMA EqualSizes ==
  ASSUME NEW c, IsClaim(c), c.kind = "consistency", c.number = Len(c.log)
  PROVE  Honest(c) <=> c.path = <<>> /\ c.hash = RootOf(c.log)
<1>1. Len(c.log) \in Nat /\ Len(c.log) > 0 /\ \E S : c.log \in Seq(S)
  BY DEF IsClaim
<1> DEFINE leaf == c.number - 1
           bottom == Leaves(c.log) \cup Ends(c.log, c.number)
           given == Inner(c.log)
           path == Paths(c.log, leaf, bottom, given)
<1>2. ArePaths(path, c.log, leaf, bottom, given)
  <2>1. leaf \in Int /\ Leaves(c.log) \subseteq bottom
    BY <1>1
  <2> HIDE DEF leaf, bottom, given
  <2> QED
    BY <1>1, <2>1, PathsAre
<1>3. /\ Whole(c.log) \in Spans(c.log) /\ Whole(c.log) \in bottom /\ Whole(c.log) \notin given
  BY <1>1 DEF Whole, Spans, Ends, Inner
<1>4. path[Whole(c.log)] = <<>>
  <2> HIDE DEF path, bottom, given, leaf
  <2> QED
    BY <1>2, <1>3 DEF ArePaths
<1>5. ConsistencyProof(c.log, c.number) = <<>>
  BY <1>1, <1>4 DEF ConsistencyProof
<1>6. SubSeq(c.log, 1, c.number) = c.log
  BY <1>1, SubSeqFull
<1>7. c.number \in 0 .. Len(c.log) /\ c.number > 0
  BY <1>1
<1>8. c.kind # "inclusion"
  OBVIOUS
<1>9. Honest(c) <=> /\ c.number \in 0 .. Len(c.log)
                    /\ c.number > 0 => c.hash = RootOf(SubSeq(c.log, 1, c.number))
                    /\ c.path = ConsistencyProof(c.log, c.number)
  BY ONLY <1>8 DEF Honest
<1> QED
  BY ONLY <1>5, <1>6, <1>7, <1>9

LEMMA InitInv == Init => IInv
<1> SUFFICES ASSUME Init PROVE IInv
  OBVIOUS
<1>1. IsClaim(claim)
  BY ClaimsAre DEF Init
<1>2. Len(claim.log) \in Nat /\ Len(claim.log) > 0 /\ claim.number \in Int
  BY <1>1 DEF IsClaim
<1>3. CASE claim.kind = "inclusion"
  <2>1. OpensInclusion
    BY <1>3 DEF Init
  <2>2. CASE claim.number \in 0 .. Len(claim.log) - 1
    <3>1. /\ fn = claim.number /\ sn = Len(claim.log) - 1 /\ at = 1
          /\ old = claim.hash /\ new = claim.hash /\ answer = "none"
      BY <2>1, <2>2 DEF OpensInclusion, Start
    <3>2. Walked(claim)
      BY <1>1, <1>3, <2>2 DEF Walked
    <3>3. Standing(claim, fn, sn, at, old, new, 1)
      BY <1>3, <3>1, <3>2, InclusionStands
    <3> QED
      BY <1>1, <3>1, <3>2, <3>3 DEF IInv, WalkInv, AnswerInv
  <2>3. CASE claim.number \notin 0 .. Len(claim.log) - 1
    <3>1. answer = "no"
      BY <2>1, <2>3 DEF OpensInclusion, Start
    <3>2. ~Honest(claim)
      BY <1>3, <2>3 DEF Honest
    <3> QED
      BY <1>1, <3>1, <3>2 DEF IInv, WalkInv, AnswerInv
  <2> QED
    BY <2>2, <2>3
<1>4. CASE claim.kind = "consistency"
  <2> DEFINE first == claim.number
             last == Len(claim.log)
  <2>0. OpensConsistency
    BY <1>4 DEF Init
  <2>1. ASSUME NEW condition \in BOOLEAN,
               Start(0, 0, claim.hash, 1, IF condition THEN "yes" ELSE "no"),
               Honest(claim) <=> condition
        PROVE  IInv
    BY <1>1, <2>1 DEF Start, IInv, WalkInv, AnswerInv
  <2>2. CASE first \notin 0 .. last /\ Start(0, 0, claim.hash, 1, "no")
    <3>1. ~Honest(claim)
      BY <1>4, <2>2 DEF Honest
    <3> QED
      BY <2>1, <2>2, <3>1
  <2>3. CASE /\ first = last
             /\ Start(0, 0, claim.hash, 1,
                      IF claim.path = <<>> /\ claim.hash = RootOf(claim.log) THEN "yes" ELSE "no")
    <3>1. Honest(claim) <=> claim.path = <<>> /\ claim.hash = RootOf(claim.log)
      BY <1>1, <1>4, <2>3, EqualSizes
    <3> QED
      BY <2>1, <2>3, <3>1
  <2>4. CASE first = 0 /\ Start(0, 0, claim.hash, 1, IF claim.path = <<>> THEN "yes" ELSE "no")
    <3>1. Honest(claim) <=> claim.path = <<>>
      BY <1>2, <1>4, <2>4 DEF Honest, ConsistencyProof
    <3> QED
      BY <2>1, <2>4, <3>1
  <2>5. CASE first \in 1 .. last - 1
    <3>1. Walked(claim)
      BY <1>1, <1>4, <2>5 DEF Walked
    <3>2. CASE claim.path = <<>> /\ Start(0, 0, claim.hash, 1, "no")
      <4>1. PICK w, j, i : /\ Counters(claim, j, i, w) /\ i # 0
                           /\ SpotOf(claim, w, j) \in Spans(claim.log)
        BY <1>4, <3>1, ConsistencyStarts
      <4>2. Len(WayOf(claim)[SpotOf(claim, w, j)]) < Len(WayOf(claim)[Whole(claim.log)])
        BY <3>1, <4>1, WayGoesOn
      <4>3. Len(WayOf(claim)[SpotOf(claim, w, j)]) \in Nat
        BY <3>1, <4>1, WayIs
      <4>4. claim.path # WayOf(claim)[Whole(claim.log)]
        <5>1. Len(<<>>) = 0
          OBVIOUS
        <5> QED
          BY <3>2, <4>2, <4>3, <5>1
      <4>5. ~Honest(claim)
        BY <3>1, <4>4, HonestIs
      <4> QED
        BY <2>1, <3>2, <4>5
    <3>3. CASE /\ claim.path # <<>>
               /\ LET up == Above[<<first - 1, last - 1>>] IN
                  IF IsPowerOfTwo(first) THEN Start(up[1], up[2], claim.hash, 1, "none")
                                         ELSE Start(up[1], up[2], claim.path[1], 2, "none")
      <4>1. PICK up : up = Above[<<first - 1, last - 1>>]
        OBVIOUS
      <4>2. IF IsPowerOfTwo(first)
            THEN \E w : Standing(claim, up[1], up[2], 1, claim.hash, claim.hash, w)
            ELSE \E w : Standing(claim, up[1], up[2], 2, claim.path[1], claim.path[1], w)
        BY <1>4, <3>1, <3>3, <4>1, ConsistencyStands
      <4>3. answer = "none" /\ \E w : Standing(claim, fn, sn, at, old, new, w)
        BY <3>3, <4>1, <4>2 DEF Start
      <4> QED
        BY <1>1, <3>1, <4>3 DEF IInv, WalkInv, AnswerInv
    <3>4. \/ claim.path = <<>> /\ Start(0, 0, claim.hash, 1, "no")
          \/ /\ claim.path # <<>>
             /\ LET up == Above[<<first - 1, last - 1>>] IN
                IF IsPowerOfTwo(first) THEN Start(up[1], up[2], claim.hash, 1, "none")
                                       ELSE Start(up[1], up[2], claim.path[1], 2, "none")
      BY <1>2, <2>0, <2>5 DEF OpensConsistency
    <3> QED
      BY <3>2, <3>3, <3>4
  <2> QED
    BY <2>0, <2>2, <2>3, <2>4, <2>5 DEF OpensConsistency
<1> QED
  BY <1>1, <1>3, <1>4 DEF IsClaim

LEMMA NextInv == IInv /\ [Next]_vars => IInv'
<1> SUFFICES ASSUME IInv, [Next]_vars PROVE IInv'
  OBVIOUS
<1>1. ASSUME answer = "none"
      PROVE  Walked(claim) /\ \E w : Standing(claim, fn, sn, at, old, new, w)
  BY <1>1 DEF IInv, WalkInv
<1>2. ASSUME Next PROVE claim' = claim /\ answer = "none"
  BY <1>2 DEF Next, Overruns, HashesLeft, HashesRight, Returns, Reading
<1>3. ASSUME Next, claim' = claim, answer' = "none",
             \E w : Standing(claim, fn', sn', at', old', new', w)
      PROVE  IInv'
  BY <1>1, <1>2, <1>3 DEF IInv, WalkInv, AnswerInv
<1>4. ASSUME Next, claim' = claim, answer' \in {"yes", "no"}, answer' = "yes" <=> Honest(claim)
      PROVE  IInv'
  BY <1>4 DEF IInv, WalkInv, AnswerInv
<1>5. CASE Overruns
  <2>1. PICK w : Walked(claim) /\ Standing(claim, fn, sn, at, old, new, w)
    BY <1>1, <1>5 DEF Overruns, Reading
  <2>2. sn = 0 /\ at <= Len(claim.path) /\ answer' = "no" /\ claim' = claim
    BY <1>5 DEF Overruns, Reading
  <2>3. at \in Nat /\ Len(claim.path) \in Nat
    BY <2>1 DEF Standing, Walked, IsClaim
  <2>4. ~Honest(claim)
    <3>1. ~(at > Len(claim.path))
      BY <2>2, <2>3
    <3> QED
      BY <2>1, <2>2, <3>1, HonestEnds
  <2> QED
    BY <1>4, <1>5, <2>2, <2>4 DEF Next
<1>6. CASE HashesRight
  <2>1. PICK w : Walked(claim) /\ Standing(claim, fn, sn, at, old, new, w)
    BY <1>1, <1>6 DEF HashesRight, Reading
  <2>2. /\ at <= Len(claim.path) /\ sn # 0 /\ ~Odd(fn) /\ fn # sn
        /\ new' = <<new, claim.path[at]>> /\ old' = old
        /\ fn' = Half(fn) /\ sn' = Half(sn) /\ at' = at + 1
        /\ claim' = claim /\ answer' = "none"
    BY <1>6 DEF HashesRight, Reading, Ascends, NodeHash
  <2>3. Standing(claim, Half(fn), Half(sn), at + 1, old, <<new, claim.path[at]>>, 2 * w)
    BY <2>1, <2>2, StandsAfterRight
  <2>4. \E v : Standing(claim, fn', sn', at', old', new', v)
    BY <2>2, <2>3
  <2> QED
    BY <1>3, <1>6, <2>2, <2>4 DEF Next
<1>7. CASE HashesLeft
  <2>1. PICK w : Walked(claim) /\ Standing(claim, fn, sn, at, old, new, w)
    BY <1>1, <1>7 DEF HashesLeft, Reading
  <2>2. /\ new' = <<claim.path[at], new>> /\ old' = <<claim.path[at], old>>
        /\ fn' = Half(Climb[<<fn, sn>>][1]) /\ sn' = Half(Climb[<<fn, sn>>][2])
        /\ at' = at + 1
        /\ claim' = claim /\ answer' = "none"
    BY <1>7 DEF HashesLeft, Reading, Ascends, NodeHash
  <2>3. sn # 0 /\ (Odd(fn) \/ fn = sn) /\ at <= Len(claim.path)
    BY <1>7 DEF HashesLeft, Reading
  <2>4. PICK v, j, i : /\ Climb[<<fn, sn>>] = <<j, i>>
                       /\ Odd(j) /\ i # 0 /\ Standing(claim, j, i, at, old, new, v)
    BY <2>1, <2>3, ClimbStands
  <2>5. Standing(claim, Half(j), Half(i), at + 1,
                 <<claim.path[at], old>>, <<claim.path[at], new>>, 2 * v)
    BY <2>1, <2>3, <2>4, StandsAfterLeft
  <2>6. fn' = Half(j) /\ sn' = Half(i)
    BY <2>2, <2>4
  <2>7. \E u : Standing(claim, fn', sn', at', old', new', u)
    BY <2>2, <2>5, <2>6
  <2> QED
    BY <1>3, <1>7, <2>2, <2>7 DEF Next
<1>8. CASE Returns
  <2>1. PICK w : Walked(claim) /\ Standing(claim, fn, sn, at, old, new, w)
    BY <1>1, <1>8 DEF Returns
  <2>2. /\ at > Len(claim.path) /\ claim' = claim
        /\ answer' \in {"yes", "no"}
        /\ answer' = "yes" <=> /\ sn = 0
                               /\ claim.kind = "consistency" => old = claim.hash
                               /\ new = RootOf(claim.log)
    BY <1>8 DEF Returns
  <2>3. Honest(claim) <=> /\ sn = 0
                          /\ claim.kind = "consistency" => old = claim.hash
                          /\ new = RootOf(claim.log)
    BY <2>1, <2>2, ReturnsAreRight
  <2> QED
    BY <1>4, <1>8, <2>2, <2>3 DEF Next
<1>9. CASE UNCHANGED vars
  BY <1>9 DEF vars, IInv, WalkInv, AnswerInv
<1> QED
  BY <1>5, <1>6, <1>7, <1>8, <1>9 DEF Next

THEOREM Inductive == Spec => []IInv
BY InitInv, NextInv, PTL DEF Spec

\* Of every claim, over a log of any length and with a path of any length, only what
\* RFC 6962 says of the log is accepted: a leaf's own path, and for an older tree the
\* root of the first leaves of the newer one (verifyInclusion, verifyConsistency).
THEOREM OnlyHonestClaimsPass == Spec => []OnlyHonestClaims
<1>1. IInv => OnlyHonestClaims
  BY DEF IInv, AnswerInv, OnlyHonestClaims, OnlyTheAuditPath, HistoryIsKept
<1> QED
  BY <1>1, Inductive, PTL

\* And what RFC 6962 says of the log is never refused, whatever the size of its tree.
THEOREM HonestLogsAlwaysPass == Spec => []HonestLogsPass
<1>1. IInv => HonestLogsPass
  BY DEF IInv, AnswerInv, HonestLogsPass
<1> QED
  BY <1>1, Inductive, PTL
=============================================================================
