---------------------------- MODULE NumbersProofs ----------------------------
(***************************************************************************)
(* parse_u16 finds the number a word is in decimal, for words of any length. *)
(*                                                                          *)
(* The definitions of Numbers are recursive functions, so the first part    *)
(* says that such functions exist, and gives induction in a form that takes *)
(* a set instead of a predicate.  Both start from the library's theorem     *)
(* that there is no endless chain of ever smaller finite sets.              *)
(***************************************************************************)
EXTENDS Numbers, FiniteSetTheorems, TLAPS

(* Every set of natural numbers that is not empty has a least.             *)
LEMMA NatMin ==
    ASSUME NEW T \in SUBSET Nat, T # {}
    PROVE  \E x \in T : \A y \in T : ~(y < x)
<1> DEFINE upTo(n) == 0 .. n
           Fam == {upTo(n) : n \in T}
<1>1. Fam \subseteq FiniteSubsetsOf(Nat) /\ Fam # {}
  <2>1. \A n \in T : upTo(n) \in SUBSET Nat /\ IsFiniteSet(upTo(n))
    BY FS_Interval
  <2> QED BY <2>1 DEF FiniteSubsetsOf
<1>2. IsWellFoundedOn(StrictSubsetOrdering(Nat), FiniteSubsetsOf(Nat))
  BY FS_StrictSubsetOrderingWellFounded
<1>3. PICK I \in Fam : \A J \in Fam : ~(<<J, I>> \in StrictSubsetOrdering(Nat))
  BY <1>1, <1>2, WFMin
<1>4. PICK x \in T : I = upTo(x)
  OBVIOUS
<1>5. ASSUME NEW y \in T, y < x PROVE FALSE
  <2>1. upTo(y) \in Fam
    OBVIOUS
  <2>2. upTo(y) \subseteq upTo(x) /\ x \in upTo(x) /\ x \notin upTo(y)
    BY <1>5
  <2>3. upTo(y) \in SUBSET Nat /\ upTo(x) \in SUBSET Nat /\ upTo(y) # upTo(x)
    BY <2>2
  <2>4. <<upTo(y), upTo(x)>> \in StrictSubsetOrdering(Nat)
    BY <2>2, <2>3 DEF StrictSubsetOrdering
  <2> QED BY <1>3, <1>4, <2>1, <2>4
<1> QED BY <1>5

(* Induction, with the numbers a claim holds for as a set.                 *)
LEMMA Induction ==
    ASSUME NEW S, 0 \in S, \A n \in Nat : n \in S => n + 1 \in S
    PROVE  Nat \subseteq S
<1> DEFINE T == Nat \ S
<1>1. SUFFICES ASSUME T # {} PROVE FALSE
  OBVIOUS
<1>2. PICK x \in T : \A y \in T : ~(y < x)
  BY <1>1, NatMin
<1>3. x # 0 /\ x - 1 \in Nat /\ x - 1 < x /\ x = (x - 1) + 1
  BY <1>2
<1>4. x - 1 \in S
  BY <1>2, <1>3
<1> QED BY <1>3, <1>4

(* A definition by recursion, as the function F from what is put in for the *)
(* function on the right to what comes out on the left: at every place it  *)
(* depends only on places of lower measure.                                *)
Recursion(F, D, T, m, bound) ==
    /\ T # {} /\ bound \in Nat /\ m \in [D -> 0 .. bound]
    /\ F \in [[D -> T] -> [D -> T]]
    /\ \A f, g \in [D -> T] : \A d \in D :
           (\A e \in D : m[e] < m[d] => f[e] = g[e]) => F[f][d] = F[g][d]

(* A function that satisfies the definition exists.                        *)
LEMMA FixedPoint ==
    ASSUME NEW F, NEW D, NEW T, NEW m, NEW bound, Recursion(F, D, T, m, bound)
    PROVE  \E f \in [D -> T] : F[f] = f
<1>0. /\ T # {} /\ bound \in Nat /\ m \in [D -> 0 .. bound]
      /\ F \in [[D -> T] -> [D -> T]]
      /\ \A f, g \in [D -> T] : \A d \in D :
             (\A e \in D : m[e] < m[d] => f[e] = g[e]) => F[f][d] = F[g][d]
  BY DEF Recursion
<1> DEFINE Upto(f, n) == \A d \in D : m[d] < n => F[f][d] = f[d]
           S == {n \in Nat : \E f \in [D -> T] : Upto(f, n)}
<1>1. \A d \in D : m[d] \in Nat /\ m[d] \leq bound
  BY <1>0
<1>2. 0 \in S
  <2>1. PICK t \in T : TRUE
    BY <1>0
  <2>2. [d \in D |-> t] \in [D -> T]
    OBVIOUS
  <2>3. \A d \in D : ~(m[d] < 0)
    BY <1>1
  <2>4. Upto([d \in D |-> t], 0)
    BY <2>3
  <2> QED BY <2>2, <2>4
<1>3. ASSUME NEW n \in Nat, n \in S PROVE n + 1 \in S
  <2>1. PICK f \in [D -> T] : Upto(f, n)
    BY <1>3
  <2> DEFINE g == F[f]
  <2>2. g \in [D -> T]
    BY <1>0
  <2>3. ASSUME NEW d \in D, m[d] < n + 1 PROVE F[g][d] = g[d]
    <3>1. \A e \in D : m[e] < m[d] => f[e] = g[e]
      BY <1>1, <2>1, <2>3
    <3> HIDE DEF g
    <3>2. F[f][d] = F[g][d]
      BY <1>0, <2>2, <3>1
    <3> QED BY <3>2 DEF g
  <2>4. Upto(g, n + 1)
    BY <2>3
  <2> QED BY <2>2, <2>4
<1>4. bound + 1 \in S
  <2>1. Nat \subseteq S
    <3> HIDE DEF S
    <3> QED BY <1>2, <1>3, Induction
  <2> QED BY <1>0, <2>1
<1>5. PICK f \in [D -> T] : Upto(f, bound + 1)
  BY <1>4
<1>6. \A d \in D : F[f][d] = f[d]
  BY <1>0, <1>5
<1> QED BY <1>0, <1>6

(* Recursion along 0 .. N, each place by the one before.                   *)
Along(N, T, a, s) == N \in Nat /\ a \in T /\ s \in [(1 .. N) \X T -> T]
IsChain(f, N, T, a, s) ==
    f \in [0 .. N -> T] /\ f[0] = a /\ \A n \in 1 .. N : f[n] = s[<<n, f[n - 1]>>]

LEMMA ChainExists ==
    ASSUME NEW N, NEW T, NEW a, NEW s, Along(N, T, a, s)
    PROVE  \E f : IsChain(f, N, T, a, s)
<1>0. N \in Nat /\ a \in T /\ s \in [(1 .. N) \X T -> T]
  BY DEF Along
<1> DEFINE D == 0 .. N
           G(f, n) == IF n = 0 THEN a ELSE s[<<n, f[n - 1]>>]
           F == [f \in [D -> T] |-> [n \in D |-> G(f, n)]]
           m == [n \in D |-> n]
<1>1. m \in [D -> 0 .. N]
  OBVIOUS
<1>2. \A n \in D : n # 0 => n \in 1 .. N /\ n - 1 \in D /\ n - 1 < n
  BY <1>0
<1>3. ASSUME NEW f \in [D -> T], NEW n \in D PROVE G(f, n) \in T
  <2>1. CASE n = 0
    BY <1>0, <2>1
  <2>2. CASE n # 0
    <3>1. <<n, f[n - 1]>> \in (1 .. N) \X T
      BY <1>2, <2>2
    <3> QED BY <1>0, <2>2, <3>1
  <2> QED BY <2>1, <2>2
<1>4. F \in [[D -> T] -> [D -> T]]
  BY <1>3
<1>5. ASSUME NEW f \in [D -> T], NEW g \in [D -> T], NEW d \in D,
             \A e \in D : m[e] < m[d] => f[e] = g[e]
      PROVE  F[f][d] = F[g][d]
  <2>1. d # 0 => f[d - 1] = g[d - 1]
    BY <1>2, <1>5
  <2>2. G(f, d) = G(g, d)
    BY <2>1
  <2> QED BY <2>2
<1>6. Recursion(F, D, T, m, N)
  <2> HIDE DEF D, F, m
  <2> QED BY <1>0, <1>1, <1>4, <1>5 DEF Recursion
<1>7. PICK f \in [D -> T] : F[f] = f
  <2> HIDE DEF D, F, m
  <2> QED BY <1>6, FixedPoint
<1>8. \A n \in D : f[n] = G(f, n)
  BY <1>7
<1>9. 0 \in D /\ \A n \in 1 .. N : n \in D /\ n # 0
  BY <1>0
<1> QED BY <1>8, <1>9 DEF IsChain

LEMMA ChainHolds ==
    ASSUME NEW N \in Nat, NEW f, NEW T, f[0] \in T,
           \A n \in 1 .. N : f[n - 1] \in T => f[n] \in T
    PROVE  \A n \in 0 .. N : f[n] \in T
<1> DEFINE S == {n \in Nat : n \leq N => f[n] \in T}
<1>1. 0 \in S
  OBVIOUS
<1>2. ASSUME NEW n \in Nat, n \in S PROVE n + 1 \in S
  <2>1. CASE n + 1 \leq N
    <3>1. n + 1 \in 1 .. N /\ (n + 1) - 1 = n /\ n \leq N
      BY <2>1
    <3>2. f[n] \in T
      BY <1>2, <3>1
    <3>3. f[n + 1] \in T
      BY <3>1, <3>2
    <3> QED BY <3>3
  <2>2. CASE ~(n + 1 \leq N)
    BY <2>2
  <2> QED BY <2>1, <2>2
<1>3. Nat \subseteq S
  <2> HIDE DEF S
  <2> QED BY <1>1, <1>2, Induction
<1> QED BY <1>3

-----------------------------------------------------------------------------
(* The definitions of Numbers say what they look like.                     *)
LEMMA WeightsChain ==
    ASSUME NEW N \in Nat
    PROVE  /\ Weights(N)[0] = 1
           /\ \A k \in 1 .. N : Weights(N)[k] = 10 * Weights(N)[k - 1]
           /\ \A k \in 0 .. N : Weights(N)[k] \in Nat \ {0}
<1> DEFINE s == [x \in (1 .. N) \X Nat |-> 10 * x[2]]
           W == Weights(N)
<1>1. Along(N, Nat, 1, s)
  BY DEF Along
<1>2. PICK f : IsChain(f, N, Nat, 1, s)
  <2> HIDE DEF s, W
  <2> QED BY <1>1, ChainExists
<1>3. \A k \in 0 .. N : k # 0 => k \in 1 .. N /\ k - 1 \in 0 .. N
  OBVIOUS
<1>4. \A k \in 0 .. N : f[k] = Ten(f, k)
  BY <1>2, <1>3 DEF Ten, IsChain
<1>5. f = [k \in 0 .. N |-> Ten(f, k)]
  BY <1>2, <1>4 DEF IsChain
<1>6. W = [k \in 0 .. N |-> Ten(W, k)]
  BY <1>5, Zenon DEF Weights
<1> HIDE DEF W
<1>7. /\ W[0] = 1
      /\ \A k \in 1 .. N : W[k] = 10 * W[k - 1]
  BY <1>6 DEF Ten
<1>8. \A k \in 0 .. N : W[k] \in Nat \ {0}
  <2>1. W[0] \in Nat \ {0}
    BY <1>7
  <2>2. \A k \in 1 .. N : W[k - 1] \in Nat \ {0} => W[k] \in Nat \ {0}
    BY <1>7
  <2> HIDE DEF s
  <2> QED BY <2>1, <2>2, ChainHolds
<1> QED BY <1>7, <1>8 DEF W

LEMMA Characters ==
    ASSUME NEW word \in Seq(Int)
    PROVE  Len(word) \in Nat /\ \A i \in 1 .. Len(word) : word[i] \in Int
OBVIOUS

LEMMA ValuesChain ==
    ASSUME NEW word \in Seq(Int)
    PROVE  LET N == Len(word)
               V == Values(word)
           IN  /\ V[0] = 0
               /\ \A k \in 1 .. N :
                      V[k] = V[k - 1] + DigitValue(word[N - k + 1]) * Weights(N)[k - 1]
               /\ \A k \in 0 .. N : V[k] \in Int
<1> DEFINE N == Len(word)
           W == Weights(N)
           V == Values(word)
           s == [x \in (1 .. N) \X Int |-> x[2] + DigitValue(word[N - x[1] + 1]) * W[x[1] - 1]]
<1>1. N \in Nat
  BY Characters
<1>2. ASSUME NEW k \in 1 .. N
      PROVE  k \in 0 .. N /\ k # 0 /\ k - 1 \in 0 .. N /\ DigitValue(word[N - k + 1]) * W[k - 1] \in Int
  <2>1. k - 1 \in 0 .. N /\ N - k + 1 \in 1 .. N
    BY <1>1
  <2>2. DigitValue(word[N - k + 1]) \in Int
    BY <2>1, Characters DEF DigitValue
  <2>3. W[k - 1] \in Int
    BY <1>1, <2>1, WeightsChain
  <2> HIDE DEF W, N
  <2> QED BY <1>1, <2>1, <2>2, <2>3
<1> HIDE DEF W
<1>3. Along(N, Int, 0, s)
  <2>1. ASSUME NEW x \in (1 .. N) \X Int
        PROVE  x[2] + DigitValue(word[N - x[1] + 1]) * W[x[1] - 1] \in Int
    <3>1. x[1] \in 1 .. N /\ x[2] \in Int
      OBVIOUS
    <3> HIDE DEF N
    <3> QED BY <1>2, <3>1
  <2> HIDE DEF N
  <2> QED BY <1>1, <2>1 DEF Along
<1>4. PICK f : IsChain(f, N, Int, 0, s)
  <2> HIDE DEF s, N
  <2> QED BY <1>3, ChainExists
<1>5. \A k \in 0 .. N : k # 0 => k \in 1 .. N /\ k - 1 \in 0 .. N
  BY <1>1
<1>6. \A k \in 0 .. N : f[k] = Place(word, f, k)
  <2> HIDE DEF N
  <2> QED BY <1>4, <1>5 DEF Place, IsChain, N, W
<1>7. f = [k \in 0 .. N |-> Place(word, f, k)]
  BY <1>4, <1>6 DEF IsChain
<1>8. V = [k \in 0 .. N |-> Place(word, V, k)]
  BY <1>7, Zenon DEF Values
<1> HIDE DEF V
<1>9. /\ V[0] = 0
      /\ \A k \in 1 .. N : V[k] = V[k - 1] + DigitValue(word[N - k + 1]) * W[k - 1]
  <2>1. \A k \in 0 .. N : V[k] = Place(word, V, k)
    BY <1>8
  <2>2. 0 \in 0 .. N
    BY <1>1
  <2> QED BY <1>2, <2>1, <2>2 DEF Place, W
<1>10. \A k \in 0 .. N : V[k] \in Int
  <2>1. V[0] \in Int
    BY <1>9
  <2>2. \A k \in 1 .. N : V[k - 1] \in Int => V[k] \in Int
    BY <1>2, <1>9
  <2> HIDE DEF s, N
  <2> QED BY <1>1, <2>1, <2>2, ChainHolds
<1> QED BY <1>9, <1>10 DEF V, W

ParseResults == {NotANumber} \cup 0 .. UINT16_MAX

(* The bound stays a name in the proofs: the provers write out intervals.  *)
LEMMA MaxIsNat == UINT16_MAX \in Nat
BY DEF UINT16_MAX

LEMMA ParseInRange ==
    ASSUME NEW t \in ParseResults, NEW c \in Int
    PROVE  /\ Parse(t, c) \in ParseResults
           /\ Parse(t, c) # NotANumber =>
                 /\ t \in 0 .. UINT16_MAX /\ IsDigit(c)
                 /\ Parse(t, c) = 10 * t + DigitValue(c) /\ Parse(t, c) \in 0 .. UINT16_MAX
           /\ Parse(t, c) = NotANumber =>
                 \/ t = NotANumber \/ ~IsDigit(c)
                 \/ t \in 0 .. UINT16_MAX /\ 10 * t + DigitValue(c) > UINT16_MAX
BY MaxIsNat DEF Parse, ParseResults, NotANumber, IsDigit, DigitValue

LEMMA ParsedChain ==
    ASSUME NEW word \in Seq(Int)
    PROVE  LET P == Parsed(word) IN
           /\ P[0] = 0
           /\ \A n \in 1 .. Len(word) : P[n] = Parse(P[n - 1], word[n])
           /\ \A n \in 0 .. Len(word) : P[n] \in ParseResults
<1> DEFINE N == Len(word)
           P == Parsed(word)
           s == [x \in (1 .. N) \X ParseResults |-> Parse(x[2], word[x[1]])]
<1>1. N \in Nat
  BY Characters
<1>2. ASSUME NEW t \in ParseResults, NEW n \in 1 .. N PROVE Parse(t, word[n]) \in ParseResults
  BY Characters, ParseInRange
<1>3. Along(N, ParseResults, 0, s)
  <2>1. 0 \in ParseResults
    <3>1. 0 \in 0 .. UINT16_MAX
      BY DEF UINT16_MAX
    <3> QED BY <3>1 DEF ParseResults
  <2>2. \A x \in (1 .. N) \X ParseResults : Parse(x[2], word[x[1]]) \in ParseResults
    <3> HIDE DEF N
    <3> QED BY <1>2
  <2> HIDE DEF N
  <2> QED BY <1>1, <2>1, <2>2 DEF Along
<1>4. PICK f : IsChain(f, N, ParseResults, 0, s)
  <2> HIDE DEF s, N
  <2> QED BY <1>3, ChainExists
<1>5. \A n \in 0 .. N : n # 0 => n \in 1 .. N /\ n - 1 \in 0 .. N
  BY <1>1
<1>6. \A n \in 0 .. N : f[n] = IF n = 0 THEN 0 ELSE Parse(f[n - 1], word[n])
  <2> HIDE DEF N
  <2> QED BY <1>4, <1>5 DEF IsChain
<1>7. f = [n \in 0 .. N |-> IF n = 0 THEN 0 ELSE Parse(f[n - 1], word[n])]
  <2> HIDE DEF N, s
  <2> QED BY <1>4, <1>6 DEF IsChain
<1>8. P = [n \in 0 .. N |-> IF n = 0 THEN 0 ELSE Parse(P[n - 1], word[n])]
  BY <1>7, Zenon DEF Parsed
<1> HIDE DEF P
<1>9. P[0] = 0 /\ \A n \in 1 .. N : P[n] = Parse(P[n - 1], word[n])
  <2>1. \A n \in 1 .. N : n \in 0 .. N /\ n # 0
    BY <1>1
  <2>2. 0 \in 0 .. N
    BY <1>1
  <2> HIDE DEF N, s
  <2> QED BY <1>8, <2>1, <2>2
<1>10. \A n \in 0 .. N : P[n] \in ParseResults
  <2>1. 0 \in 0 .. UINT16_MAX
    BY DEF UINT16_MAX
  <2>2. P[0] \in ParseResults
    BY <1>9, <2>1 DEF ParseResults
  <2>3. \A n \in 1 .. N : P[n - 1] \in ParseResults => P[n] \in ParseResults
    BY <1>2, <1>9
  <2> HIDE DEF s, N
  <2> QED BY <1>1, <2>2, <2>3, ChainHolds
<1> QED BY <1>9, <1>10 DEF P

-----------------------------------------------------------------------------
(* What is left after a refusal is a refusal.                              *)
LEMMA RefusalLasts ==
    ASSUME NEW word \in Seq(Int), NEW n \in 0 .. Len(word), Parsed(word)[n] = NotANumber
    PROVE  Parsed(word)[Len(word)] = NotANumber
<1> DEFINE N == Len(word)
           P == Parsed(word)
           S == {k \in Nat : n + k \leq N => P[n + k] = NotANumber}
<1>1. N \in Nat /\ n \in Nat /\ n \leq N
  BY Characters
<1>2. 0 \in S
  BY <1>1
<1>3. ASSUME NEW k \in Nat, k \in S PROVE k + 1 \in S
  <2>1. CASE n + (k + 1) \leq N
    <3>1. n + (k + 1) \in 1 .. N /\ (n + (k + 1)) - 1 = n + k /\ n + k \leq N
      BY <1>1, <2>1
    <3>2. P[n + k] = NotANumber
      BY <1>3, <3>1
    <3>3. P[n + (k + 1)] = Parse(P[n + k], word[n + (k + 1)])
      BY <3>1, ParsedChain
    <3>4. P[n + (k + 1)] = NotANumber
      BY <3>2, <3>3 DEF Parse
    <3> QED BY <3>4
  <2>2. CASE ~(n + (k + 1) \leq N)
    BY <2>2
  <2> QED BY <2>1, <2>2
<1>4. Nat \subseteq S
  <2> HIDE DEF S
  <2> QED BY <1>2, <1>3, Induction
<1>5. N - n \in Nat /\ n + (N - n) = N
  BY <1>1
<1>6. N - n \in S
  BY <1>4, <1>5
<1> QED BY <1>5, <1>6

LEMMA ParsedStep ==
    ASSUME NEW word \in Seq(Int), NEW k \in Nat, k + 1 \leq Len(word),
           Parsed(word)[k + 1] # NotANumber
    PROVE  /\ Parsed(word)[k] \in 0 .. UINT16_MAX /\ Parsed(word)[k] # NotANumber
           /\ IsDigit(word[k + 1])
           /\ Parsed(word)[k + 1] = 10 * Parsed(word)[k] + DigitValue(word[k + 1])
<1> DEFINE N == Len(word)
           P == Parsed(word)
<1>1. k + 1 \in 1 .. N /\ (k + 1) - 1 = k /\ k \in 0 .. N
  BY Characters
<1>2. P[k + 1] = Parse(P[k], word[k + 1]) /\ P[k] \in ParseResults /\ word[k + 1] \in Int
  BY <1>1, ParsedChain, Characters
<1>3. /\ P[k] \in 0 .. UINT16_MAX /\ IsDigit(word[k + 1])
      /\ P[k + 1] = 10 * P[k] + DigitValue(word[k + 1])
  <2> DEFINE t == P[k]
             c == word[k + 1]
             u == P[k + 1]
  <2>1. u = Parse(t, c) /\ t \in ParseResults /\ c \in Int /\ u # NotANumber
    BY <1>2
  <2> HIDE DEF t, c, u
  <2>2. t \in 0 .. UINT16_MAX /\ IsDigit(c) /\ u = 10 * t + DigitValue(c)
    BY <2>1, ParseInRange
  <2> QED BY <2>2 DEF t, c, u
<1>4. NotANumber \notin 0 .. UINT16_MAX
  BY DEF NotANumber
<1> QED BY <1>3, <1>4

LEMMA PlaceStep ==
    ASSUME NEW word \in Seq(Int), NEW k \in Nat, k + 1 \leq Len(word)
    PROVE  LET N == Len(word)
               W == Weights(N)
               V == Values(word)
           IN  /\ W[N - k] = 10 * W[N - (k + 1)] /\ W[N - (k + 1)] \in Nat \ {0}
               /\ V[N - k] = V[N - (k + 1)] + DigitValue(word[k + 1]) * W[N - (k + 1)]
               /\ V[N - (k + 1)] \in Int /\ DigitValue(word[k + 1]) \in Int
<1> DEFINE N == Len(word)
           W == Weights(N)
           V == Values(word)
<1>1. N \in Nat /\ k + 1 \in 1 .. N
  BY Characters
<1>2. /\ N - k \in 1 .. N /\ (N - k) - 1 = N - (k + 1) /\ N - (k + 1) \in 0 .. N
      /\ N - (N - k) + 1 = k + 1
  <2> HIDE DEF N
  <2> QED BY <1>1
<1>3. W[N - k] = 10 * W[(N - k) - 1] /\ W[N - (k + 1)] \in Nat \ {0}
  BY <1>1, <1>2, WeightsChain
<1>4. /\ V[N - k] = V[(N - k) - 1] + DigitValue(word[N - (N - k) + 1]) * W[(N - k) - 1]
      /\ V[N - (k + 1)] \in Int
  BY <1>2, ValuesChain
<1>5. DigitValue(word[k + 1]) \in Int
  BY <1>1, Characters DEF DigitValue
<1> HIDE DEF N, W, V
<1>6. /\ W[N - k] = 10 * W[N - (k + 1)] /\ W[N - (k + 1)] \in Nat \ {0}
      /\ V[N - k] = V[N - (k + 1)] + DigitValue(word[k + 1]) * W[N - (k + 1)]
      /\ V[N - (k + 1)] \in Int /\ DigitValue(word[k + 1]) \in Int
  BY <1>2, <1>3, <1>4, <1>5
<1> QED BY <1>6 DEF N, W, V

LEMMA Carry ==
    ASSUME NEW p \in Int, NEW d \in Int, NEW w \in Int, NEW v \in Int
    PROVE  p * (10 * w) + (v + d * w) = (10 * p + d) * w + v
OBVIOUS

(* After n characters without a refusal there are n digits, and what there *)
(* is, with zeros for the digits to come, and those make the number.       *)
SoFar(word, n) ==
    LET N == Len(word) IN
    /\ \A i \in 1 .. n : IsDigit(word[i])
    /\ Parsed(word)[n] * Weights(N)[N - n] + Values(word)[N - n] = Decimal(word)

LEMMA SoFarNext ==
    ASSUME NEW word \in Seq(Int), NEW k \in Nat, k + 1 \leq Len(word),
           Parsed(word)[k + 1] # NotANumber, SoFar(word, k)
    PROVE  SoFar(word, k + 1)
<1> DEFINE N == Len(word)
           p == Parsed(word)[k]
           d == DigitValue(word[k + 1])
           w == Weights(N)[N - (k + 1)]
           v == Values(word)[N - (k + 1)]
<1>1. p \in Int /\ IsDigit(word[k + 1]) /\ Parsed(word)[k + 1] = 10 * p + d
  BY ParsedStep
<1>2. /\ Weights(N)[N - k] = 10 * w /\ Values(word)[N - k] = v + d * w
      /\ w \in Int /\ v \in Int /\ d \in Int
  BY PlaceStep
<1>3. /\ \A i \in 1 .. k : IsDigit(word[i])
      /\ p * Weights(N)[N - k] + Values(word)[N - k] = Decimal(word)
  BY DEF SoFar
<1>4. p * (10 * w) + (v + d * w) = Decimal(word)
  <2> HIDE DEF p, d, w, v
  <2> QED BY <1>2, <1>3
<1>5. (10 * p + d) * w + v = Decimal(word)
  <2> HIDE DEF p, d, w, v
  <2> QED BY <1>1, <1>2, <1>4, Carry
<1>6. \A i \in 1 .. k + 1 : i \in 1 .. k \/ i = k + 1
  OBVIOUS
<1>7. \A i \in 1 .. k + 1 : IsDigit(word[i])
  BY <1>1, <1>3, <1>6
<1>8. Parsed(word)[k + 1] * w + v = Decimal(word)
  <2> HIDE DEF p, d, w, v
  <2> QED BY <1>1, <1>5
<1> QED BY <1>7, <1>8 DEF SoFar

LEMMA ParsedSoFar ==
    ASSUME NEW word \in Seq(Int), NEW n \in 0 .. Len(word), Parsed(word)[n] # NotANumber
    PROVE  SoFar(word, n) /\ Parsed(word)[n] \in 0 .. UINT16_MAX
<1> DEFINE N == Len(word)
           S == {k \in Nat : k \leq N /\ Parsed(word)[k] # NotANumber => SoFar(word, k)}
<1>0. N \in Nat
  BY Characters
<1>1. 0 \in S
  <2>1. Parsed(word)[0] = 0
    BY ParsedChain
  <2>2. 0 \in 0 .. N /\ N - 0 = N /\ N \in 0 .. N
    BY <1>0
  <2>3. Weights(N)[N] \in Nat /\ Values(word)[N] \in Int
    BY <1>0, <2>2, WeightsChain, ValuesChain
  <2>4. 0 * Weights(N)[N] + Values(word)[N] = Values(word)[N]
    BY <2>3
  <2>5. SoFar(word, 0)
    BY <2>1, <2>2, <2>4 DEF SoFar, Decimal
  <2> QED BY <2>5
<1>2. ASSUME NEW k \in Nat, k \in S PROVE k + 1 \in S
  <2>1. ASSUME k + 1 \leq N, Parsed(word)[k + 1] # NotANumber PROVE SoFar(word, k + 1)
    <3>1. k \leq N
      BY <1>0, <2>1
    <3>2. Parsed(word)[k] # NotANumber
      BY <2>1, ParsedStep
    <3>3. SoFar(word, k)
      BY <1>2, <3>1, <3>2
    <3> QED BY <2>1, <3>3, SoFarNext
  <2> QED BY <2>1
<1>3. Nat \subseteq S
  <2> HIDE DEF S
  <2> QED BY <1>1, <1>2, Induction
<1>4. n \in Nat /\ n \leq N
  BY <1>0
<1>5. SoFar(word, n)
  BY <1>3, <1>4
<1>6. Parsed(word)[n] \in ParseResults
  BY ParsedChain
<1> QED BY <1>5, <1>6 DEF ParseResults

LEMMA ValuesNatural ==
    ASSUME NEW word \in Seq(Int), AllDigits(word)
    PROVE  \A k \in 0 .. Len(word) : Values(word)[k] \in Nat
<1> DEFINE N == Len(word)
           V == Values(word)
<1>1. N \in Nat
  BY Characters
<1>2. V[0] \in Nat
  BY ValuesChain
<1>3. ASSUME NEW k \in 1 .. N, V[k - 1] \in Nat PROVE V[k] \in Nat
  <2> DEFINE d == DigitValue(word[N - k + 1])
             w == Weights(N)[k - 1]
  <2>1. N - k + 1 \in 1 .. N /\ k - 1 \in 0 .. N
    BY <1>1
  <2>2. word[N - k + 1] \in 48 .. 57
    BY <2>1 DEF AllDigits, IsDigit
  <2>3. d \in Nat
    BY <2>2 DEF DigitValue
  <2>4. w \in Nat
    BY <1>1, <2>1, WeightsChain
  <2>5. V[k] = V[k - 1] + d * w
    BY ValuesChain
  <2> HIDE DEF d, w, V
  <2> QED BY <1>3, <2>3, <2>4, <2>5
<1> HIDE DEF N, V
<1>4. \A k \in 0 .. N : V[k] \in Nat
  BY <1>1, <1>2, <1>3, ChainHolds
<1> QED BY <1>4 DEF N, V

LEMMA GrowsBy ==
    ASSUME NEW q \in Nat, NEW w \in Nat \ {0}, NEW v \in Nat
    PROVE  q \leq q * w + v
OBVIOUS

(* A number that does not fit shows at some digit, and the digits to come   *)
(* only add to it.                                                         *)
LEMMA RefusedRightly ==
    ASSUME NEW word \in Seq(Int), Parsed(word)[Len(word)] = NotANumber, AllDigits(word)
    PROVE  Decimal(word) > UINT16_MAX
<1> DEFINE N == Len(word)
           P == Parsed(word)
           T == {n \in Nat : n \leq N /\ P[n] = NotANumber}
<1>1. N \in Nat /\ N \in T
  BY Characters
<1>2. PICK n \in T : \A k \in T : ~(k < n)
  <2> HIDE DEF T
  <2>1. T \in SUBSET Nat
    BY DEF T
  <2> QED BY <1>1, <2>1, NatMin
<1>3. n \in Nat /\ n \leq N /\ P[n] = NotANumber
  OBVIOUS
<1>4. n # 0
  BY <1>3, ParsedChain DEF NotANumber
<1> DEFINE k == n - 1
<1>5. k \in Nat /\ k + 1 = n /\ k + 1 \leq N /\ k \in 0 .. N
  BY <1>1, <1>3, <1>4
<1> HIDE DEF k
<1>6. P[k] # NotANumber
  <2>1. k < n /\ k \leq N
    BY <1>1, <1>3, <1>5
  <2> QED BY <1>2, <1>5, <2>1
<1> HIDE DEF T
<1> DEFINE p == P[k]
           d == DigitValue(word[k + 1])
           w == Weights(N)[N - (k + 1)]
           v == Values(word)[N - (k + 1)]
<1>7. P[n] = Parse(p, word[n]) /\ p \in ParseResults /\ word[n] \in Int /\ IsDigit(word[n])
  <2>1. n \in 1 .. N /\ n - 1 = k
    BY <1>1, <1>3, <1>4 DEF k
  <2> QED BY <1>5, <2>1, ParsedChain, Characters DEF AllDigits
<1>8. p \in 0 .. UINT16_MAX /\ 10 * p + d > UINT16_MAX
  <2>1. Parse(p, word[n]) = NotANumber /\ p # NotANumber
    BY <1>3, <1>6, <1>7
  <2> HIDE DEF p
  <2>2. p \in 0 .. UINT16_MAX /\ 10 * p + DigitValue(word[n]) > UINT16_MAX
    BY <1>7, <2>1, ParseInRange
  <2> QED BY <1>5, <2>2
<1>9. p * Weights(N)[N - k] + Values(word)[N - k] = Decimal(word)
  BY <1>5, <1>6, ParsedSoFar DEF SoFar
<1>10. /\ Weights(N)[N - k] = 10 * w /\ Values(word)[N - k] = v + d * w
       /\ w \in Nat \ {0} /\ d \in Int
  BY <1>5, PlaceStep
<1>11. v \in Nat
  <2>1. N - (k + 1) \in 0 .. N
    BY <1>1, <1>5
  <2> QED BY <2>1, ValuesNatural
<1>12. p \in Int /\ UINT16_MAX \in Nat
  BY <1>8, MaxIsNat
<1> HIDE DEF p, d, w, v, N, P
<1>13. p * (10 * w) + (v + d * w) = Decimal(word)
  BY <1>9, <1>10
<1>14. (10 * p + d) * w + v = Decimal(word)
  <2>1. w \in Int /\ v \in Int
    BY <1>10, <1>11
  <2> QED BY <1>10, <1>12, <1>13, <2>1, Carry
<1>15. 10 * p + d \in Nat
  BY <1>8, <1>10, <1>12
<1>16. 10 * p + d \leq Decimal(word)
  BY <1>10, <1>11, <1>14, <1>15, GrowsBy
<1>17. Decimal(word) \in Int
  BY <1>10, <1>11, <1>14, <1>15
<1> QED BY <1>8, <1>12, <1>15, <1>16, <1>17

(* parse_u16 takes a word for the number it is in decimal, leading zeros    *)
(* and all, and refuses what is no number or does not fit in 16 bits,       *)
(* however long the word is: the check of every digit leaves no way around. *)
THEOREM NumberRead ==
    ASSUME NEW word \in Seq(Int), word # <<>>
    PROVE  parse_u16(word) =
               IF AllDigits(word) /\ Decimal(word) \leq UINT16_MAX
               THEN Decimal(word) ELSE NotANumber
<1> DEFINE N == Len(word)
           P == Parsed(word)
<1>1. N \in Nat /\ parse_u16(word) = P[N] /\ N \in 0 .. N /\ N - N = 0 /\ 0 \in 0 .. N
  BY Characters DEF parse_u16
<1>2. CASE P[N] # NotANumber
  <2>1. SoFar(word, N) /\ P[N] \in 0 .. UINT16_MAX
    BY <1>1, <1>2, ParsedSoFar
  <2>2. AllDigits(word) /\ P[N] * Weights(N)[0] + Values(word)[0] = Decimal(word)
    BY <1>1, <2>1 DEF SoFar, AllDigits
  <2>3. Weights(N)[0] = 1 /\ Values(word)[0] = 0
    BY <1>1, WeightsChain, ValuesChain
  <2> HIDE DEF P, N
  <2>4. P[N] \in Int /\ P[N] \leq UINT16_MAX
    BY <2>1, MaxIsNat
  <2>5. P[N] = Decimal(word)
    BY <2>2, <2>3, <2>4
  <2> QED BY <1>1, <2>2, <2>4, <2>5
<1>3. CASE P[N] = NotANumber
  <2>1. ASSUME AllDigits(word), Decimal(word) \leq UINT16_MAX PROVE FALSE
    <3>1. Decimal(word) > UINT16_MAX
      BY <1>3, <2>1, RefusedRightly
    <3>2. Decimal(word) \in Int /\ UINT16_MAX \in Int
      BY <1>1, ValuesChain DEF Decimal, UINT16_MAX
    <3> QED BY <2>1, <3>1, <3>2
  <2> QED BY <1>1, <1>3, <2>1
<1> QED BY <1>2, <1>3
=============================================================================
