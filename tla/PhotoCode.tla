------------------------------ MODULE PhotoCode ------------------------------
(***************************************************************************)
(* How a capture id is read back from a photo (web/src/layouts.ts,         *)
(* photo-bch-v3): a shortened BCH code over GF(2^m), decoded with          *)
(* syndromes, Berlekamp-Massey and a search for the roots.  The code of    *)
(* the source has Degree 8, DataBits 128, EccBits 124 and T 18; the        *)
(* algorithm is the same for every field.  One action for each turn of the *)
(* Berlekamp-Massey loop, one for what comes before it and one for what    *)
(* comes after.                                                            *)
(*                                                                         *)
(* A word is the bits by their place, the data first; bit i is the         *)
(* coefficient of x^(CodeBits-1-i).  An element of the field is a          *)
(* polynomial over GF(2), as the set of its exponents: a sum is the        *)
(* symmetric difference, zero is the empty set.                            *)
(***************************************************************************)
EXTENDS Integers, FiniteSets, FiniteSetsExt, Functions, SequencesExt

CONSTANTS
  Degree,     \* m: the field has 2^m elements
  Primitive,  \* the primitive polynomial, as its exponents
  DataBits, EccBits,
  T,          \* errors the code corrects
  Embedded,   \* the codewords writers embed
  MaxErrors   \* bound on the bits read wrong

VARIABLES
  sent,       \* the codeword the writer embedded
  came,       \* the bits the detector read
  word,       \* the bits, corrected when they can be
  syndromes,  \* << >> before they are computed
  locator,    \* of Berlekamp-Massey: the polynomial, its length, the one to shift
  turn,       \* the syndromes it has taken in
  payload     \* the id; Undecided before there is an answer, NoWord for none

photoVars == <<sent, came, word, syndromes, locator, turn, payload>>

Order == 2^Degree - 1
CodeBits == DataBits + EccBits
Words == [0 .. CodeBits - 1 -> {0, 1}]
Ones(w) == {i \in DOMAIN w : w[i] = 1}
Distance(v, w) == Cardinality({i \in DOMAIN v : v[i] # w[i]})

Zero == {}
Plus(a, b) == (a \ b) \union (b \ a)
Sum(f, S) == FoldFunctionOnSet(Plus, Zero, f, S)

\* EXP[i + 1] is the i-th power of alpha, LOG its inverse.
TimesX(a) ==
  LET x == {e + 1 : e \in a} IN IF Degree \in x THEN Plus(x, Primitive) ELSE x
EXP[i \in 1 .. Order] == IF i = 1 THEN {0} ELSE TimesX(EXP[i - 1])
Power(n) == EXP[(n % Order) + 1]
LOG(a) == (CHOOSE i \in 1 .. Order : EXP[i] = a) - 1

\* Every element but zero is a power of alpha, and of one exponent only: the polynomial
\* is primitive.  The shortened code has no more places than alpha has powers.
ASSUME FieldAssumption ==
  /\ Degree \in Nat \ {0} /\ Order \in Nat
  /\ Primitive \subseteq 0 .. Degree /\ {0, Degree} \subseteq Primitive
  /\ \A a \in SUBSET (0 .. Degree - 1) : a # Zero => \E i \in 1 .. Order : EXP[i] = a
  /\ \A i, j \in 1 .. Order : EXP[i] = EXP[j] => i = j
  /\ CodeBits <= Order

Mul(a, b) == IF Zero \in {a, b} THEN Zero ELSE Power(LOG(a) + LOG(b))
Div(a, b) == IF a = Zero THEN Zero ELSE Power(LOG(a) + Order - LOG(b))
Coefficient(p, i) == IF i \in DOMAIN p THEN p[i] ELSE Zero

\* The word at alpha^j, for each of the code's roots; all are zero on a codeword.
SyndromesOf(w) ==
  [j \in 1 .. 2 * T |-> Sum([i \in Ones(w) |-> Power(j * (CodeBits - 1 - i))], Ones(w))]
Clean(s) == \A j \in DOMAIN s : s[j] = Zero

-----------------------------------------------------------------------------
Undecided == <<"undecided">>
NoWord == <<"none">>
Data(w) == [i \in 0 .. DataBits - 1 |-> w[i]]
\* All zeroes is what an empty frame decodes to: nothing was there.
Payload(w) == IF Ones(Data(w)) = {} THEN NoWord ELSE Data(w)

\* The encoder is the writer's; what it embeds is a word of the code.
ASSUME EmbeddedAssumption ==
  /\ {DataBits, EccBits, T} \subseteq Nat \ {0}
  /\ \A w \in Embedded : w \in Words /\ Clean(SyndromesOf(w))

Flipped(w, places) ==
  [i \in DOMAIN w |-> IF CodeBits - 1 - i \in places THEN 1 - w[i] ELSE w[i]]
Wrong == UNION {kSubset(k, 0 .. CodeBits - 1) : k \in 0 .. MaxErrors}

PhotoInit ==
  /\ sent \in Embedded
  /\ came \in {Flipped(sent, places) : places \in Wrong}
  /\ word = came
  /\ syndromes = << >>
  /\ locator = [ sigma |-> [i \in {0} |-> {0}], previous |-> [i \in {0} |-> {0}],
                 errors |-> 0, shift |-> 1, last |-> {0} ]
  /\ turn = 0
  /\ payload = Undecided

\* decodePhoto, up to the locator: a word without an error is taken as it is.
TakeIn ==
  /\ syndromes = << >>
  /\ syndromes' = SyndromesOf(word)
  /\ payload' = IF Clean(syndromes') THEN Payload(word) ELSE payload
  /\ UNCHANGED <<sent, came, word, locator, turn>>

\* What the next syndrome differs by from what the recurrence so far says it is.
Discrepancy ==
  Plus(syndromes[turn + 1],
       Sum([i \in 1 .. locator.errors |->
              Mul(Coefficient(locator.sigma, i), syndromes[turn + 1 - i])],
           1 .. locator.errors))
Updated(d) ==
  LET scale == Div(d, locator.last) IN
  [i \in 0 .. 2 * T |->
     Plus(Coefficient(locator.sigma, i),
          Mul(scale, Coefficient(locator.previous, i - locator.shift)))]

\* Fault: a recurrence of half the turns is taken to be long enough.
TooShortByHalf(length) == 2 * length < turn
\* The length is told by the recurrence, never by the polynomial.
TooShort(length) == 2 * length <= turn
Lengthened(d, length) ==
  IF TooShort(length)
  THEN [ sigma |-> Updated(d), previous |-> locator.sigma, errors |-> turn + 1 - length,
         shift |-> 1, last |-> d ]
  ELSE [locator EXCEPT !.sigma = Updated(d), !.shift = @ + 1]
NextLocator ==
  IF Discrepancy = Zero THEN [locator EXCEPT !.shift = @ + 1]
  ELSE Lengthened(Discrepancy, locator.errors)

\* One turn of errorLocator's loop.
Turn ==
  /\ payload = Undecided /\ syndromes # << >> /\ turn < 2 * T
  /\ locator' = NextLocator
  /\ turn' = turn + 1
  /\ UNCHANGED <<sent, came, word, syndromes, payload>>

DegreeOf(sigma) ==
  CHOOSE d \in DOMAIN sigma : /\ d = 0 \/ sigma[d] # Zero
                              /\ \A i \in DOMAIN sigma : i > d => sigma[i] = Zero
\* errorPositions: the places the roots name, as exponents; none when they do not add
\* up to an error pattern of that weight inside the shortened word.
Roots == {e \in 0 .. Order - 1 :
            Sum([i \in 0 .. DegreeOf(locator.sigma) |-> Mul(locator.sigma[i], Power(e * i))],
                0 .. DegreeOf(locator.sigma)) = Zero}
Places == {(Order - e) % Order : e \in Roots}
PlacesAreErrors ==
  /\ DegreeOf(locator.sigma) = locator.errors
  /\ Places \subseteq 0 .. CodeBits - 1
  /\ Cardinality(Places) = DegreeOf(locator.sigma)

\* The correction, taken only when it is a codeword: a miscorrection is worse than a
\* refusal.
Correct ==
  /\ payload = Undecided /\ turn = 2 * T
  /\ IF /\ PlacesAreErrors /\ Cardinality(Places) <= T
        /\ Clean(SyndromesOf(Flipped(word, Places)))
     THEN word' = Flipped(word, Places) /\ payload' = Payload(word')
     ELSE payload' = NoWord /\ UNCHANGED word
  /\ UNCHANGED <<sent, came, syndromes, locator, turn>>

PhotoNext == TakeIn \/ Turn \/ Correct

-----------------------------------------------------------------------------
\* The recurrence found so far explains every syndrome taken in so far, which is what
\* makes the roots of its polynomial the places of the errors.
Recurs ==
  \A k \in locator.errors + 1 .. turn :
    Sum([i \in 0 .. locator.errors |-> Mul(Coefficient(locator.sigma, i), syndromes[k - i])],
        0 .. locator.errors) = Zero

\* A photo with at most T bits read wrong gives the id that was embedded.  One with more
\* gives none, or the id of a codeword it really is that near to: a correction that is
\* no codeword, or that reaches further than T, is never reported
\* (layouts.ts, decodePhoto, errorLocator and errorPositions).
PhotoIsReadRight ==
  /\ Recurs
  /\ payload # Undecided =>
       \/ payload = Payload(sent) /\ Distance(came, sent) <= T
       \/ /\ Distance(came, sent) > T
          /\ \/ payload = NoWord
             \/ Clean(SyndromesOf(word)) /\ Distance(came, word) <= T
=============================================================================
