--------------------------- MODULE ReadToolsProofs ---------------------------
(***************************************************************************)
(* Proofs about ReadTools: for every tree, every call and every move of    *)
(* the other program, an answer tells of nothing private and no traversal  *)
(* exceeds its ceilings; in a tree nobody touches, pages assemble to the   *)
(* file they are pages of, and a traversal leaves out nothing silently.    *)
(***************************************************************************)
EXTENDS ReadTools, FiniteSetTheorems, SequenceTheorems, NaturalsInduction, WellFoundedInduction, TLAPS

-----------------------------------------------------------------------------
(* Induction *)

\* Every nonempty set of naturals has a least element.
LEMMA LeastNatural ==
    ASSUME NEW T, T \subseteq Nat, T # {}
    PROVE  \E m \in T : \A n \in T : m <= n
<1> DEFINE R == {p \in Nat \X Nat : p[1] < p[2]}
<1>1. IsWellFoundedOn(R, Nat)
  <2>1. R = OpToRel(<, Nat)
    BY DEF OpToRel
  <2> QED BY <2>1, NatLessThanWellFounded
<1>2. PICK m \in T : \A n \in T : <<n, m>> \notin R
  <2> HIDE DEF R
  <2> QED BY <1>1, WFMin
<1>3. \A n \in T : ~(n < m)
  BY <1>2
<1> QED BY <1>3

\* A nonempty set of natural numbers has a largest element, if it has a bound.
LEMMA LargestBelow ==
    ASSUME NEW T, T \subseteq Nat, T # {}, NEW b \in Nat, \A n \in T : n <= b
    PROVE  \E m \in T : \A n \in T : n <= m
<1> DEFINE R == {p \in Nat \X Nat : p[1] < p[2]}
           Gaps == {b - n : n \in T}
<1>1. IsWellFoundedOn(R, Nat)
  <2>1. R = OpToRel(<, Nat)
    BY DEF OpToRel
  <2> QED BY <2>1, NatLessThanWellFounded
<1>2. Gaps \subseteq Nat /\ Gaps # {}
  <2>1. \A n \in T : b - n \in Nat
    OBVIOUS
  <2>2. PICK n \in T : TRUE
    OBVIOUS
  <2>3. b - n \in Gaps
    OBVIOUS
  <2> QED BY <2>1, <2>3
<1>3. PICK g \in Gaps : \A h \in Gaps : <<h, g>> \notin R
  <2> HIDE DEF R, Gaps
  <2> QED BY <1>1, <1>2, WFMin
<1>4. PICK m \in T : g = b - m
  OBVIOUS
<1>5. ASSUME NEW n \in T PROVE n <= m
  <2>1. b - n \in Gaps /\ b - n \in Nat /\ b - m \in Nat
    OBVIOUS
  <2>2. ~(b - n < b - m)
    BY <1>3, <1>4, <2>1
  <2> QED BY <2>1, <2>2
<1> QED BY <1>5

\* What holds of 0 and passes from each number to the next holds up to a bound:
\* induction over the set of the numbers for which it fails.
LEMMA UpToBound ==
    ASSUME NEW n \in Nat, NEW Good, 0 \in Good,
           \A i \in 1..n : i - 1 \in Good => i \in Good
    PROVE  0..n \subseteq Good
<1> DEFINE Bad == {i \in 0..n : i \notin Good}
<1> SUFFICES ASSUME Bad # {} PROVE FALSE
  OBVIOUS
<1>1. PICK m \in Bad : \A i \in Bad : m <= i
  <2>1. Bad \subseteq Nat
    OBVIOUS
  <2> HIDE DEF Bad
  <2> QED BY <2>1, LeastNatural
<1>2. m \in 1..n /\ m - 1 \in 0..n
  OBVIOUS
<1>3. m - 1 \in Good
  BY <1>1, <1>2
<1> QED BY <1>1, <1>2, <1>3

Solves(f, n, base, G) == f = [i \in 0..n |-> IF i = 0 THEN base ELSE G[<<f[i - 1], i>>]]

\* A recursion over 0..n has a solution.
LEMMA Recursion ==
    ASSUME NEW n \in Nat, NEW S, NEW base \in S, NEW G \in [S \X (1..n) -> S]
    PROVE  \E f \in [0..n -> S] : Solves(f, n, base, G)
<1> DEFINE Partial(m, g) == /\ g \in [0..m -> S] /\ g[0] = base
                            /\ \A i \in 1..m : g[i] = G[<<g[i - 1], i>>]
           Good == {m \in 0..n : \E g : Partial(m, g)}
<1>1. 0 \in Good
  <2>1. Partial(0, [i \in 0..0 |-> base])
    OBVIOUS
  <2> HIDE DEF Partial
  <2> QED BY <2>1
<1>2. ASSUME NEW m \in 1..n, m - 1 \in Good PROVE m \in Good
  <2>1. PICK h : Partial(m - 1, h)
    BY <1>2
  <2> DEFINE g == [i \in 0..m |-> IF i = m THEN G[<<h[m - 1], m>>] ELSE h[i]]
  <2>2. h[m - 1] \in S /\ G[<<h[m - 1], m>>] \in S
    BY <2>1
  <2>3. g \in [0..m -> S]
    BY <2>1, <2>2
  <2>4. g[0] = base
    BY <2>1
  <2>5. ASSUME NEW i \in 1..m PROVE g[i] = G[<<g[i - 1], i>>]
    <3>1. CASE i = m
      <4>1. g[m - 1] = h[m - 1] /\ g[m] = G[<<h[m - 1], m>>]
        OBVIOUS
      <4> QED BY <3>1, <4>1
    <3>2. CASE i # m
      <4>1. i \in 1..(m - 1) /\ i - 1 \in 0..m /\ i - 1 # m
        BY <3>2
      <4>2. g[i] = h[i] /\ g[i - 1] = h[i - 1]
        BY <3>2, <4>1
      <4>3. h[i] = G[<<h[i - 1], i>>]
        BY <2>1, <4>1
      <4> QED BY <4>2, <4>3
    <3> QED BY <3>1, <3>2
  <2>6. Partial(m, g)
    <3> HIDE DEF g
    <3> QED BY <2>3, <2>4, <2>5
  <2> HIDE DEF Partial, g
  <2> QED BY <2>6
<1>3. 0..n \subseteq Good
  <2> HIDE DEF Good
  <2> QED BY <1>1, <1>2, UpToBound
<1>4. PICK f : Partial(n, f)
  <2>1. n \in Good
    BY <1>3
  <2> QED BY <2>1
<1>5. f = [i \in 0..n |-> IF i = 0 THEN base ELSE G[<<f[i - 1], i>>]]
  <2> DEFINE g == [i \in 0..n |-> IF i = 0 THEN base ELSE G[<<f[i - 1], i>>]]
  <2>1. \A i \in 0..n : f[i] = g[i]
    BY <1>4
  <2>2. f \in [0..n -> S] /\ DOMAIN g = 0..n
    BY <1>4
  <2> HIDE DEF g
  <2>3. g = [i \in 0..n |-> g[i]]
    BY DEF g
  <2> QED BY <2>1, <2>2, <2>3 DEF g
<1> QED BY <1>4, <1>5 DEF Solves

-----------------------------------------------------------------------------
(* The UTF-8 validator *)

Byte == 0..255
Within == [need : 1..3, low : 0..255, high : 0..255]
Utf8State == {Whole, Broken} \cup Within

LEMMA LeadCases ==
    ASSUME NEW b
    PROVE  \/ b \in 0..127 /\ Lead(b) = Whole
           \/ b \notin 128..191 /\ Lead(b) \in Within
           \/ Lead(b) = Broken
<1> DEFINE low == IF b = 224 THEN 160 ELSE IF b = 240 THEN 144 ELSE 128
           high == IF b = 237 THEN 159 ELSE IF b = 244 THEN 143 ELSE 191
           Needs(k) == [need |-> k, low |-> low, high |-> high]
<1>1. Needs(1) \in Within /\ Needs(2) \in Within /\ Needs(3) \in Within
  BY DEF Within
<1>2. /\ b \in 194..223 => b \notin 128..191
      /\ b \in 224..239 => b \notin 128..191
      /\ b \in 240..244 => b \notin 128..191
  OBVIOUS
<1>3. Lead(b) = CASE b \in 0..127 -> Whole
                  [] b \in 194..223 -> Needs(1)
                  [] b \in 224..239 -> Needs(2)
                  [] b \in 240..244 -> Needs(3)
                  [] OTHER -> Broken
  BY Zenon DEF Lead
<1> DEFINE A == b \in 0..127
           B == b \in 194..223
           C == b \in 224..239
           D == b \in 240..244
<1>4. Lead(b) = CASE A -> Whole [] B -> Needs(1) [] C -> Needs(2) [] D -> Needs(3) [] OTHER -> Broken
  BY <1>3
<1>5. (A => ~B /\ ~C /\ ~D) /\ (B => ~C /\ ~D) /\ (C => ~D)
  OBVIOUS
<1> HIDE DEF Needs, A, B, C, D
<1>6. \/ A /\ Lead(b) = Whole
      \/ B /\ Lead(b) = Needs(1)
      \/ C /\ Lead(b) = Needs(2)
      \/ D /\ Lead(b) = Needs(3)
      \/ Lead(b) = Broken
  BY <1>4, <1>5, Zenon
<1> QED BY <1>1, <1>2, <1>6 DEF A, B, C, D

\* A step stays among the states, and what a broken text or a code point under
\* way becomes.
LEMMA StepFacts ==
    ASSUME NEW b
    PROVE  /\ \A s \in Utf8State : Utf8Step(s, b) \in Utf8State
           /\ Utf8Step(Broken, b) = Broken
           /\ \A s \in Within : \/ Utf8Step(s, b) \in {Whole, Broken}
                                \/ Utf8Step(s, b) \in Within /\ Utf8Step(s, b).need = s.need - 1
           /\ Utf8Step(Whole, b) = Lead(b)
<1>1. Utf8Step(Broken, b) = Broken
  <2>1. Broken # Whole /\ Broken.low = 1 /\ Broken.high = 0
    BY DEF Broken, Whole
  <2>2. b \notin 1..0
    OBVIOUS
  <2> QED BY <2>1, <2>2 DEF Utf8Step
<1>2. ASSUME NEW s \in Within
      PROVE  \/ Utf8Step(s, b) \in {Whole, Broken}
             \/ Utf8Step(s, b) \in Within /\ Utf8Step(s, b).need = s.need - 1
  <2>1. s # Whole
    BY DEF Within, Whole
  <2>2. CASE s.need = 1 \/ b \notin s.low .. s.high
    BY <2>1, <2>2 DEF Utf8Step
  <2>3. CASE ~(s.need = 1 \/ b \notin s.low .. s.high)
    <3>1. Utf8Step(s, b) = [need |-> s.need - 1, low |-> 128, high |-> 191]
      BY <2>1, <2>3 DEF Utf8Step
    <3>2. s.need \in 2..3
      BY <2>3 DEF Within
    <3>3. [need |-> s.need - 1, low |-> 128, high |-> 191] \in Within
      BY <3>2 DEF Within
    <3> QED BY <3>1, <3>3
  <2> QED BY <2>2, <2>3
<1>3. Utf8Step(Whole, b) = Lead(b)
  BY DEF Utf8Step
<1>4. Lead(b) \in Utf8State
  BY LeadCases DEF Utf8State
<1> QED BY <1>1, <1>2, <1>3, <1>4 DEF Utf8State

\* The recursion of Utf8Run.
LEMMA RunFacts ==
    ASSUME NEW z \in Seq(Byte)
    PROVE  /\ Utf8Run(z) \in [0..Len(z) -> Utf8State]
           /\ Utf8Run(z)[0] = Whole
           /\ \A i \in 1..Len(z) : Utf8Run(z)[i] = Utf8Step(Utf8Run(z)[i - 1], z[i])
<1> DEFINE n == Len(z)
           G == [p \in Utf8State \X (1..n) |-> Utf8Step(p[1], z[p[2]])]
<1>1. n \in Nat
  BY LenProperties
<1>2. G \in [Utf8State \X (1..n) -> Utf8State]
  BY StepFacts
<1>3. Whole \in Utf8State
  BY DEF Utf8State
<1>4. PICK f \in [0..n -> Utf8State] : Solves(f, n, Whole, G)
  <2> HIDE DEF n, G
  <2> QED BY <1>1, <1>2, <1>3, Recursion
<1>5. ASSUME NEW i \in 1..n
      PROVE  f[i - 1] \in Utf8State /\ G[<<f[i - 1], i>>] = Utf8Step(f[i - 1], z[i])
  <2>1. i - 1 \in 0..n /\ f[i - 1] \in Utf8State
    BY <1>1
  <2> QED BY <2>1
<1>6. f = [i \in 0..n |-> IF i = 0 THEN Whole ELSE Utf8Step(f[i - 1], z[i])]
  <2>1. f[0] = Whole
    BY <1>1, <1>4 DEF Solves
  <2>2. ASSUME NEW i \in 0..n, i # 0 PROVE f[i] = Utf8Step(f[i - 1], z[i])
    <3>1. i \in 1..n
      BY <2>2
    <3>2. f[i] = G[<<f[i - 1], i>>]
      <4> HIDE DEF G
      <4> QED BY <1>4, <2>2 DEF Solves
    <3> QED BY <1>5, <3>1, <3>2
  <2>3. f = [i \in 0..n |-> f[i]]
    OBVIOUS
  <2>4. \A i \in 0..n : f[i] = IF i = 0 THEN Whole ELSE Utf8Step(f[i - 1], z[i])
    BY <2>1, <2>2
  <2> HIDE DEF G, n
  <2> QED BY <2>3, <2>4
<1>7. Utf8Run(z) = [i \in 0..n |-> IF i = 0 THEN Whole ELSE Utf8Step(Utf8Run(z)[i - 1], z[i])]
  BY <1>6 DEF Utf8Run
<1> DEFINE run == Utf8Run(z)
<1>8. run[0] = Whole /\ \A i \in 1..n : run[i] = Utf8Step(run[i - 1], z[i])
  <2> HIDE DEF run, n
  <2>1. run = [i \in 0..n |-> IF i = 0 THEN Whole ELSE Utf8Step(run[i - 1], z[i])]
    BY <1>7 DEF run
  <2> QED BY <1>1, <2>1
<1>9. run \in [0..n -> Utf8State]
  <2> DEFINE Good == {i \in 0..n : run[i] \in Utf8State}
  <2>1. 0 \in Good
    BY <1>1, <1>3, <1>8
  <2>2. ASSUME NEW i \in 1..n, i - 1 \in Good PROVE i \in Good
    <3>1. run[i - 1] \in Utf8State
      BY <2>2
    <3>2. run[i] = Utf8Step(run[i - 1], z[i])
      BY <1>8
    <3>3. Utf8Step(run[i - 1], z[i]) \in Utf8State
      BY <3>1, StepFacts
    <3>4. i \in 0..n
      BY <1>1
    <3> QED BY <3>2, <3>3, <3>4
  <2>3. 0..n \subseteq Good
    <3> HIDE DEF Good, n
    <3> QED BY <1>1, <2>1, <2>2, UpToBound
  <2>4. run = [i \in 0..n |-> run[i]]
    <3> HIDE DEF n
    <3>1. run = [i \in 0..n |-> IF i = 0 THEN Whole ELSE Utf8Step(run[i - 1], z[i])]
      BY <1>7
    <3> HIDE DEF run
    <3> QED BY <3>1
  <2> HIDE DEF run, n
  <2> QED BY <2>3, <2>4
<1> QED BY <1>8, <1>9

\* A broken text stays broken.
LEMMA BrokenStays ==
    ASSUME NEW z \in Seq(Byte), NEW i \in 0..Len(z), Utf8Run(z)[i] = Broken, NEW j \in i..Len(z)
    PROVE  Utf8Run(z)[j] = Broken
<1> DEFINE n == Len(z) - i
           Good == {k \in 0..n : Utf8Run(z)[i + k] = Broken}
<1>1. n \in Nat /\ Len(z) \in Nat
  BY LenProperties
<1>2. 0 \in Good
  BY <1>1
<1>3. ASSUME NEW k \in 1..n, k - 1 \in Good PROVE k \in Good
  <2>1. i + k \in 1..Len(z) /\ (i + k) - 1 = i + (k - 1) /\ k \in 0..n
    BY <1>1
  <2>2. Utf8Run(z)[i + k] = Utf8Step(Utf8Run(z)[(i + k) - 1], z[i + k])
    BY <2>1, RunFacts
  <2>3. Utf8Run(z)[(i + k) - 1] = Broken
    BY <1>3, <2>1
  <2>4. Utf8Run(z)[i + k] = Broken
    BY <2>2, <2>3, StepFacts
  <2> QED BY <2>1, <2>4
<1>4. 0..n \subseteq Good
  <2> HIDE DEF Good, n
  <2> QED BY <1>1, <1>2, <1>3, UpToBound
<1>5. j - i \in 0..n /\ i + (j - i) = j
  BY <1>1
<1>6. j - i \in Good
  BY <1>4, <1>5
<1>7. Utf8Run(z)[i + (j - i)] = Broken
  BY <1>6
<1> QED BY <1>5, <1>7

\* Where a code point begins, a part of a text is validated like the whole.
LEMMA RunOfPart ==
    ASSUME NEW z \in Seq(Byte), NEW k \in 0..Len(z), NEW m \in k..Len(z), Utf8Run(z)[k] = Whole
    PROVE  /\ SubSeq(z, k + 1, m) \in Seq(Byte) /\ Len(SubSeq(z, k + 1, m)) = m - k
           /\ \A i \in 1..(m - k) : SubSeq(z, k + 1, m)[i] = z[k + i]
           /\ \A i \in 0..(m - k) : Utf8Run(SubSeq(z, k + 1, m))[i] = Utf8Run(z)[k + i]
<1> DEFINE y == SubSeq(z, k + 1, m)
           Good == {i \in 0..(m - k) : Utf8Run(y)[i] = Utf8Run(z)[k + i]}
<1>1. Len(z) \in Nat /\ m - k \in Nat
  BY LenProperties
<1>2. y \in Seq(Byte) /\ Len(y) = m - k /\ \A i \in 1..(m - k) : y[i] = z[k + i]
  <2>1. \A i \in (k + 1)..m : z[i] \in Byte
    BY <1>1, ElementOfSeq
  <2>2. /\ y \in Seq(Byte)
        /\ Len(y) = IF k + 1 <= m THEN m - (k + 1) + 1 ELSE 0
        /\ \A i \in 1..(m - (k + 1) + 1) : y[i] = z[(k + 1) + i - 1]
    BY <1>1, <2>1, SubSeqProperties
  <2>3. m - (k + 1) + 1 = m - k /\ \A i \in 1..(m - k) : (k + 1) + i - 1 = k + i
    BY <1>1
  <2> QED BY <1>1, <2>2, <2>3
<1>3. 0 \in Good
  <2> HIDE DEF y
  <2> QED BY <1>1, <1>2, RunFacts
<1>4. ASSUME NEW i \in 1..(m - k), i - 1 \in Good PROVE i \in Good
  <2> HIDE DEF y
  <2>1. i \in 1..Len(y) /\ k + i \in 1..Len(z) /\ (k + i) - 1 = k + (i - 1)
    BY <1>1, <1>2
  <2>2. Utf8Run(y)[i] = Utf8Step(Utf8Run(y)[i - 1], y[i])
    BY <1>2, <2>1, RunFacts
  <2>3. Utf8Run(z)[k + i] = Utf8Step(Utf8Run(z)[(k + i) - 1], z[k + i])
    BY <2>1, RunFacts
  <2>4. Utf8Run(y)[i - 1] = Utf8Run(z)[(k + i) - 1] /\ y[i] = z[k + i]
    BY <1>2, <1>4, <2>1
  <2> QED BY <2>2, <2>3, <2>4
<1>5. 0..(m - k) \subseteq Good
  <2> HIDE DEF Good
  <2> QED BY <1>1, <1>3, <1>4, UpToBound
<1> QED BY <1>2, <1>5

\* A code point under way began at most three bytes ago.
LEMMA NearWhole ==
    ASSUME NEW z \in Seq(Byte), NEW i \in 0..Len(z), Utf8Run(z)[i] # Broken
    PROVE  \E j \in 0..i : Utf8Run(z)[j] = Whole /\ i - j <= 3
<1> DEFINE run == Utf8Run(z)
           Near(k) == \/ run[k] \in {Whole, Broken}
                      \/ run[k] \in Within /\ \E j \in 0..k : run[j] = Whole /\ run[k].need + (k - j) <= 4
           Good == {k \in 0..Len(z) : Near(k)}
<1>1. Len(z) \in Nat
  BY LenProperties
<1>2. /\ run[0] = Whole
      /\ \A k \in 0..Len(z) : run[k] \in Utf8State
      /\ \A k \in 1..Len(z) : run[k] = Utf8Step(run[k - 1], z[k])
  BY RunFacts
<1> HIDE DEF run
<1>3. 0 \in Good
  BY <1>1, <1>2
<1>4. ASSUME NEW k \in 1..Len(z), k - 1 \in Good PROVE k \in Good
  <2>1. run[k] = Utf8Step(run[k - 1], z[k]) /\ k \in 0..Len(z) /\ k - 1 \in 0..k
    BY <1>1, <1>2
  <2>2. CASE run[k - 1] = Whole
    <3>1. run[k] = Lead(z[k])
      BY <2>1, <2>2, StepFacts
    <3>2. CASE run[k] \in {Whole, Broken}
      BY <2>1, <3>2
    <3>3. CASE run[k] \in Within
      <4>1. run[k].need + (k - (k - 1)) <= 4
        BY <1>1, <3>3 DEF Within
      <4> QED BY <2>1, <2>2, <3>3, <4>1
    <3> QED BY <3>1, <3>2, <3>3, LeadCases
  <2>3. CASE run[k - 1] = Broken
    <3>1. run[k] = Broken
      BY <2>1, <2>3, StepFacts
    <3> QED BY <2>1, <3>1
  <2>4. CASE /\ run[k - 1] \in Within
             /\ \E j \in 0..(k - 1) : run[j] = Whole /\ run[k - 1].need + ((k - 1) - j) <= 4
    <3>1. PICK j \in 0..(k - 1) : run[j] = Whole /\ run[k - 1].need + ((k - 1) - j) <= 4
      BY <2>4
    <3>2. CASE run[k] \in {Whole, Broken}
      BY <2>1, <3>2
    <3>3. CASE run[k] \in Within /\ run[k].need = run[k - 1].need - 1
      <4>1. run[k - 1].need \in 1..3
        BY <2>4 DEF Within
      <4>2. j \in 0..k /\ run[k].need + (k - j) <= 4
        BY <1>1, <3>1, <3>3, <4>1
      <4> QED BY <2>1, <3>1, <3>3, <4>2
    <3>4. \/ Utf8Step(run[k - 1], z[k]) \in {Whole, Broken}
          \/ /\ Utf8Step(run[k - 1], z[k]) \in Within
             /\ Utf8Step(run[k - 1], z[k]).need = run[k - 1].need - 1
      BY <2>4, StepFacts
    <3> QED BY <2>1, <3>2, <3>3, <3>4
  <2> QED BY <1>4, <2>2, <2>3, <2>4
<1>5. 0..Len(z) \subseteq Good
  <2> HIDE DEF Good
  <2> QED BY <1>1, <1>3, <1>4, UpToBound
<1>6. CASE run[i] = Whole
  BY <1>1, <1>6 DEF run
<1>7. CASE run[i] # Whole
  <2>1. run[i] \in Within /\ \E j \in 0..i : run[j] = Whole /\ run[i].need + (i - j) <= 4
    BY <1>5, <1>7 DEF run
  <2>2. PICK j \in 0..i : run[j] = Whole /\ run[i].need + (i - j) <= 4
    BY <2>1
  <2>3. run[i].need \in 1..3
    BY <2>1 DEF Within
  <2>4. i - j <= 3
    BY <1>1, <2>2, <2>3
  <2> QED BY <2>2, <2>4 DEF run
<1> QED BY <1>6, <1>7

\* valid_up_to is the end of the last whole code point.
LEMMA ValidUpToFacts ==
    ASSUME NEW z \in Seq(Byte)
    PROVE  /\ ValidUpTo(z) \in 0..Len(z)
           /\ Utf8Run(z)[ValidUpTo(z)] = Whole
           /\ \A i \in 0..Len(z) : Utf8Run(z)[i] = Whole => i <= ValidUpTo(z)
<1> DEFINE T == {i \in 0..Len(z) : Utf8Run(z)[i] = Whole}
<1>1. Len(z) \in Nat
  BY LenProperties
<1>2. T \subseteq Nat /\ T # {} /\ \A i \in T : i <= Len(z)
  <2>1. 0 \in T
    BY <1>1, RunFacts
  <2> QED BY <1>1, <2>1
<1>3. PICK m \in T : \A i \in T : i <= m
  <2> HIDE DEF T
  <2> QED BY <1>1, <1>2, LargestBelow
<1>4. ValidUpTo(z) = Max(T)
  BY DEF ValidUpTo
<1>5. Max(T) \in T /\ \A i \in T : Max(T) >= i
  <2> HIDE DEF T
  <2>1. \A i \in T : m >= i
    BY <1>2, <1>3
  <2> QED BY <1>3, <2>1 DEF Max
<1>6. ValidUpTo(z) \in T /\ \A i \in T : i <= ValidUpTo(z)
  <2> HIDE DEF T
  <2> QED BY <1>2, <1>4, <1>5
<1> QED BY <1>6

-----------------------------------------------------------------------------
(* Base64 *)

\* The digits of three bytes make up the number whose bytes they are.
LEMMA DigitsOfBytes ==
    ASSUME NEW a \in Byte, NEW b \in Byte, NEW c \in Byte
    PROVE  LET v == (((a \div 4) * 64 + ((a % 4) * 16 + b \div 16)) * 64
                        + ((b % 16) * 4 + c \div 64)) * 64 + (c % 64)
           IN  v \div 65536 = a /\ (v \div 256) % 256 = b /\ v % 256 = c
BY DEF Byte

LEMMA DigitRanges ==
    ASSUME NEW a \in Byte, NEW b \in Byte, NEW c \in Byte
    PROVE  /\ a \div 4 \in 0..63
           /\ (a % 4) * 16 + b \div 16 \in 0..63
           /\ (b % 16) * 4 + c \div 64 \in 0..63
           /\ c % 64 \in 0..63
BY DEF Byte

\* The byte of a text at a position, 0 behind its end.
ByteAt(z, i) == IF i <= Len(z) THEN z[i] ELSE 0

\* The digits of the i-th group.
LEMMA GroupFacts ==
    ASSUME NEW z \in Seq(Byte), NEW i \in Nat, 3 * i < Len(z)
    PROVE  LET a == ByteAt(z, 3 * i + 1)
               b == ByteAt(z, 3 * i + 2)
               c == ByteAt(z, 3 * i + 3)
               d == EncodeBase64(z)
           IN  /\ a \in Byte /\ b \in Byte /\ c \in Byte
               /\ d[4 * i + 1] = a \div 4
               /\ d[4 * i + 2] = (a % 4) * 16 + b \div 16
               /\ d[4 * i + 3] = IF 3 * i + 2 <= Len(z) THEN (b % 16) * 4 + c \div 64 ELSE Pad
               /\ d[4 * i + 4] = IF 3 * i + 3 <= Len(z) THEN c % 64 ELSE Pad
<1> DEFINE n == Len(z)
           a == ByteAt(z, 3 * i + 1)
           b == ByteAt(z, 3 * i + 2)
           c == ByteAt(z, 3 * i + 3)
           last == IF 3 * (i + 1) < n THEN 3 * (i + 1) ELSE n
           g == SubSeq(z, 3 * (i + 1) - 2, last)
           D(k) == Group(SubSeq(z, 3 * ((k + 3) \div 4) - 2,
                                IF 3 * ((k + 3) \div 4) < n THEN 3 * ((k + 3) \div 4) ELSE n))[((k - 1) % 4) + 1]
<1>1. n \in Nat /\ \A k \in 1..n : z[k] \in Byte
  BY LenProperties, ElementOfSeq
<1>2. a \in Byte /\ b \in Byte /\ c \in Byte
  BY <1>1 DEF ByteAt, Byte
<1>3. /\ g \in Seq(Byte) /\ Len(g) = last - 3 * i /\ Len(g) \in 1..3
      /\ \A j \in 1..Len(g) : g[j] = z[3 * i + j]
  <2>1. 3 * (i + 1) - 2 = 3 * i + 1 /\ last \in (3 * i + 1)..n /\ last - 3 * i \in 1..3
    BY <1>1
  <2>2. \A k \in (3 * i + 1)..last : z[k] \in Byte
    BY <1>1, <2>1
  <2>3. /\ SubSeq(z, 3 * i + 1, last) \in Seq(Byte)
        /\ Len(SubSeq(z, 3 * i + 1, last)) = IF 3 * i + 1 <= last THEN last - (3 * i + 1) + 1 ELSE 0
        /\ \A j \in 1..(last - (3 * i + 1) + 1) : SubSeq(z, 3 * i + 1, last)[j] = z[(3 * i + 1) + j - 1]
    <3> HIDE DEF last
    <3> QED BY <1>1, <2>1, <2>2, SubSeqProperties
  <2>4. g = SubSeq(z, 3 * i + 1, last)
    BY <2>1
  <2>5. last - (3 * i + 1) + 1 = last - 3 * i /\ \A j \in 1..(last - 3 * i) : (3 * i + 1) + j - 1 = 3 * i + j
    <3> HIDE DEF last
    <3> QED BY <1>1, <2>1
  <2> HIDE DEF g, last
  <2>6. g \in Seq(Byte) /\ Len(g) = last - 3 * i
    BY <1>1, <2>1, <2>3, <2>4, <2>5
  <2>7. ASSUME NEW j \in 1..Len(g) PROVE g[j] = z[3 * i + j]
    <3>1. j \in 1..(last - (3 * i + 1) + 1) /\ (3 * i + 1) + j - 1 = 3 * i + j
      BY <2>5, <2>6
    <3>2. g[j] = z[(3 * i + 1) + j - 1]
      BY <2>3, <2>4, <3>1
    <3> QED BY <3>1, <3>2
  <2> QED BY <2>1, <2>6, <2>7
<1>4. /\ g[1] = a
      /\ (IF Len(g) > 1 THEN g[2] ELSE 0) = b /\ (Len(g) > 1 <=> 3 * i + 2 <= n)
      /\ (IF Len(g) > 2 THEN g[3] ELSE 0) = c /\ (Len(g) > 2 <=> 3 * i + 3 <= n)
  <2>1. last - 3 * i = IF 3 * i + 3 <= n THEN 3 ELSE IF 3 * i + 2 <= n THEN 2 ELSE 1
    BY <1>1
  <2> HIDE DEF g, last
  <2> QED BY <1>1, <1>3, <2>1 DEF ByteAt
<1>5. Group(g) = << a \div 4,
                    (a % 4) * 16 + b \div 16,
                    IF 3 * i + 2 <= n THEN (b % 16) * 4 + c \div 64 ELSE Pad,
                    IF 3 * i + 3 <= n THEN c % 64 ELSE Pad >>
  <2> HIDE DEF a, b, c, g, n
  <2> QED BY <1>4 DEF Group
<1>6. EncodeBase64(z) = [k \in 1 .. 4 * ((n + 2) \div 3) |-> D(k)]
  BY DEF EncodeBase64
<1>7. \A j \in 1..4 : 4 * i + j \in 1 .. 4 * ((n + 2) \div 3)
  BY <1>1
<1>8. \A j \in 1..4 : ((4 * i + j) + 3) \div 4 = i + 1 /\ (((4 * i + j) - 1) % 4) + 1 = j
  BY <1>1
<1>9. \A j \in 1..4 : EncodeBase64(z)[4 * i + j] = Group(g)[j]
  <2> SUFFICES ASSUME NEW j \in 1..4 PROVE EncodeBase64(z)[4 * i + j] = Group(g)[j]
    OBVIOUS
  <2>1. EncodeBase64(z)[4 * i + j] = D(4 * i + j)
    <3> HIDE DEF D, n
    <3> QED BY <1>6, <1>7
  <2> HIDE DEF n
  <2> QED BY <1>8, <2>1
<1> HIDE DEF g, a, b, c
<1>10. /\ EncodeBase64(z)[4 * i + 1] = Group(g)[1] /\ EncodeBase64(z)[4 * i + 2] = Group(g)[2]
       /\ EncodeBase64(z)[4 * i + 3] = Group(g)[3] /\ EncodeBase64(z)[4 * i + 4] = Group(g)[4]
  BY <1>9
<1> QED BY <1>2, <1>5, <1>10 DEF a, b, c

\* Decoding undoes encode_base64.
LEMMA Base64RoundTrip ==
    ASSUME NEW z \in Seq(Byte)
    PROVE  DecodeBase64(EncodeBase64(z)) = z
<1> DEFINE n == Len(z)
           groups == (n + 2) \div 3
           d == EncodeBase64(z)
           Padded == {k \in DOMAIN d : d[k] = Pad}
<1>1. n \in Nat /\ groups \in Nat /\ 3 * groups - n \in 0..2
  BY LenProperties
<1>2. DOMAIN d = 1 .. 4 * groups /\ Len(d) = 4 * groups
  <2>1. DOMAIN d = 1 .. 4 * groups
    BY DEF EncodeBase64
  <2>2. d \in Seq({d[k] : k \in 1 .. 4 * groups})
    <3>1. d = [k \in 1 .. 4 * groups |-> d[k]]
      BY DEF EncodeBase64
    <3> HIDE DEF d, groups
    <3>2. 4 * groups \in Nat
      BY <1>1
    <3> QED BY <3>1, <3>2, SeqDef
  <2> HIDE DEF d, groups
  <2> QED BY <1>1, <2>1, <2>2, LenProperties
<1>3. ASSUME NEW i \in 0 .. groups - 1
      PROVE  LET a == ByteAt(z, 3 * i + 1)
                 b == ByteAt(z, 3 * i + 2)
                 c == ByteAt(z, 3 * i + 3)
             IN  /\ a \in Byte /\ b \in Byte /\ c \in Byte
                 /\ d[4 * i + 1] = a \div 4
                 /\ d[4 * i + 2] = (a % 4) * 16 + b \div 16
                 /\ d[4 * i + 3] = IF 3 * i + 2 <= n THEN (b % 16) * 4 + c \div 64 ELSE Pad
                 /\ d[4 * i + 4] = IF 3 * i + 3 <= n THEN c % 64 ELSE Pad
  <2>1. i \in Nat /\ 3 * i < n
    BY <1>1
  <2> QED BY <2>1, GroupFacts
<1>4. ASSUME NEW k \in 1 .. 4 * groups
      PROVE  d[k] = Pad <=> k > 4 * groups - (3 * groups - n)
  <2> DEFINE i == (k - 1) \div 4
             j == k - 4 * i
             a == ByteAt(z, 3 * i + 1)
             b == ByteAt(z, 3 * i + 2)
             c == ByteAt(z, 3 * i + 3)
  <2>1. i \in 0 .. groups - 1 /\ j \in 1..4 /\ k = 4 * i + j
    BY <1>1
  <2>2. /\ a \in Byte /\ b \in Byte /\ c \in Byte
        /\ d[4 * i + 1] = a \div 4
        /\ d[4 * i + 2] = (a % 4) * 16 + b \div 16
        /\ d[4 * i + 3] = IF 3 * i + 2 <= n THEN (b % 16) * 4 + c \div 64 ELSE Pad
        /\ d[4 * i + 4] = IF 3 * i + 3 <= n THEN c % 64 ELSE Pad
    <3> HIDE DEF i, d, n
    <3> QED BY <1>3, <2>1
  <2>3. /\ a \div 4 \in 0..63
        /\ (a % 4) * 16 + b \div 16 \in 0..63
        /\ (b % 16) * 4 + c \div 64 \in 0..63
        /\ c % 64 \in 0..63
    <3> HIDE DEF a, b, c
    <3> QED BY <2>2, DigitRanges
  <2> HIDE DEF a, b, c, d, i, j, n, groups
  <2>4. j = 1 => d[k] \in 0..63
    BY <2>1, <2>2, <2>3
  <2>5. j = 2 => d[k] \in 0..63
    BY <2>1, <2>2, <2>3
  <2>6. j = 3 => IF 3 * i + 2 <= n THEN d[k] \in 0..63 ELSE d[k] = Pad
    BY <2>1, <2>2, <2>3
  <2>7. j = 4 => IF 3 * i + 3 <= n THEN d[k] \in 0..63 ELSE d[k] = Pad
    BY <2>1, <2>2, <2>3
  <2>8. Pad \notin 0..63
    BY DEF Pad
  <2>9. j = 1 => 3 * i + 1 <= n
    BY <1>1, <2>1
  <2>10. j = 1 \/ j = 2 \/ j = 3 \/ j = 4
    BY <2>1
  <2>11. /\ j \in 1..2 => k <= 4 * groups - (3 * groups - n)
         /\ j = 3 => (3 * i + 2 <= n <=> k <= 4 * groups - (3 * groups - n))
         /\ j = 4 => (3 * i + 3 <= n <=> k <= 4 * groups - (3 * groups - n))
    BY <1>1, <2>1
  <2>12. k > 4 * groups - (3 * groups - n) <=> ~(k <= 4 * groups - (3 * groups - n))
    BY <1>1
  <2> DEFINE within == k <= 4 * groups - (3 * groups - n)
             digit == d[k]
  <2>13. CASE j = 1 \/ j = 2
    <3>1. within /\ digit \in 0..63
      BY <2>4, <2>5, <2>11, <2>13
    <3> HIDE DEF within, digit
    <3>2. digit # Pad
      BY <2>8, <3>1
    <3> QED BY <2>12, <3>1, <3>2 DEF within, digit
  <2>14. CASE j = 3
    <3>1. IF within THEN digit \in 0..63 ELSE digit = Pad
      BY <2>6, <2>11, <2>14
    <3> HIDE DEF within, digit
    <3>2. digit = Pad <=> ~ within
      BY <2>8, <3>1
    <3> QED BY <2>12, <3>2 DEF within, digit
  <2>15. CASE j = 4
    <3>1. IF within THEN digit \in 0..63 ELSE digit = Pad
      BY <2>7, <2>11, <2>15
    <3> HIDE DEF within, digit
    <3>2. digit = Pad <=> ~ within
      BY <2>8, <3>1
    <3> QED BY <2>12, <3>2 DEF within, digit
  <2> QED BY <2>10, <2>13, <2>14, <2>15
<1>5. Cardinality(Padded) = 3 * groups - n
  <2> DEFINE from == 4 * groups - (3 * groups - n) + 1
  <2>1. Padded = from .. 4 * groups
    <3> HIDE DEF d, groups, n
    <3>1. from \in Int /\ from >= 1
      BY <1>1
    <3> QED BY <1>1, <1>2, <1>4, <3>1
  <2>2. from \in Int /\ 4 * groups \in Int
    BY <1>1
  <2>3. Cardinality(from .. 4 * groups) = IF from > 4 * groups THEN 0 ELSE 4 * groups - from + 1
    <3> HIDE DEF from, groups
    <3> QED BY <2>2, FS_Interval
  <2> HIDE DEF Padded, groups
  <2> QED BY <1>1, <2>1, <2>3
<1> DEFINE Value(i) == IF d[i] = Pad THEN 0 ELSE d[i]
           Number(i) == ((Value(i + 1) * 64 + Value(i + 2)) * 64 + Value(i + 3)) * 64 + Value(i + 4)
           Decoded(k) == IF k % 3 = 1 THEN Number(4 * ((k - 1) \div 3)) \div 65536
                         ELSE IF k % 3 = 2 THEN (Number(4 * ((k - 1) \div 3)) \div 256) % 256
                         ELSE Number(4 * ((k - 1) \div 3)) % 256
<1>6. DecodeBase64(d) = [k \in 1 .. 3 * (Len(d) \div 4) - Cardinality(Padded) |-> Decoded(k)]
  <2> HIDE DEF d
  <2> QED BY DEF DecodeBase64
<1>7. 3 * (Len(d) \div 4) - Cardinality(Padded) = n
  <2> HIDE DEF Padded, d, n, groups
  <2> QED BY <1>1, <1>2, <1>5
<1>8. ASSUME NEW k \in 1..n PROVE Decoded(k) = z[k]
  <2> DEFINE i == (k - 1) \div 3
             a == ByteAt(z, 3 * i + 1)
             b == ByteAt(z, 3 * i + 2)
             c == ByteAt(z, 3 * i + 3)
             v == (((a \div 4) * 64 + ((a % 4) * 16 + b \div 16)) * 64
                        + ((b % 16) * 4 + c \div 64)) * 64 + (c % 64)
  <2>1. i \in 0 .. groups - 1 /\ k - 3 * i \in 1..3
    BY <1>1
  <2>2. /\ a \in Byte /\ b \in Byte /\ c \in Byte
        /\ d[4 * i + 1] = a \div 4
        /\ d[4 * i + 2] = (a % 4) * 16 + b \div 16
        /\ d[4 * i + 3] = IF 3 * i + 2 <= n THEN (b % 16) * 4 + c \div 64 ELSE Pad
        /\ d[4 * i + 4] = IF 3 * i + 3 <= n THEN c % 64 ELSE Pad
    <3> HIDE DEF i, d, n
    <3> QED BY <1>3, <2>1
  <2>3. /\ a \div 4 \in 0..63
        /\ (a % 4) * 16 + b \div 16 \in 0..63
        /\ (b % 16) * 4 + c \div 64 \in 0..63
        /\ c % 64 \in 0..63
    <3> HIDE DEF a, b, c
    <3> QED BY <2>2, DigitRanges
  <2>4. /\ 3 * i + 2 > n => b = 0 /\ c = 0
        /\ 3 * i + 3 > n => c = 0
    BY <1>1, <2>1 DEF ByteAt
  <2> DEFINE p == a \div 4
             q == (a % 4) * 16 + b \div 16
             r == (b % 16) * 4 + c \div 64
             t == c % 64
  <2>5. /\ d[4 * i + 1] = p /\ p \in 0..63 /\ d[4 * i + 2] = q /\ q \in 0..63
        /\ d[4 * i + 3] = (IF 3 * i + 2 <= n THEN r ELSE Pad) /\ r \in 0..63
        /\ d[4 * i + 4] = (IF 3 * i + 3 <= n THEN t ELSE Pad) /\ t \in 0..63
    BY <2>2, <2>3
  <2>6. (3 * i + 2 > n => r = 0) /\ (3 * i + 3 > n => t = 0)
    <3>1. (0 % 16) * 4 + 0 \div 64 = 0 /\ 0 % 64 = 0
      OBVIOUS
    <3> HIDE DEF a, b, c
    <3> QED BY <2>4, <3>1
  <2>7. Value(4 * i + 1) = p /\ Value(4 * i + 2) = q /\ Value(4 * i + 3) = r /\ Value(4 * i + 4) = t
    <3>1. \A x \in 0..63 : x # Pad
      BY DEF Pad
    <3>2. (3 * i + 2 <= n \/ 3 * i + 2 > n) /\ (3 * i + 3 <= n \/ 3 * i + 3 > n)
      BY <1>1, <2>1
    <3> HIDE DEF p, q, r, t, d, i, n
    <3> QED BY <2>5, <2>6, <3>1, <3>2
  <2>8. Number(4 * i) = v
    <3> HIDE DEF Value, a, b, c, i
    <3> QED BY <2>7
  <2>9. v \div 65536 = a /\ (v \div 256) % 256 = b /\ v % 256 = c
    <3> HIDE DEF a, b, c
    <3> QED BY <2>2, DigitsOfBytes
  <2>10. /\ k % 3 = 1 <=> k = 3 * i + 1
         /\ k % 3 = 2 <=> k = 3 * i + 2
         /\ k = 3 * i + 1 \/ k = 3 * i + 2 \/ k = 3 * i + 3
    BY <1>1, <2>1
  <2>11. /\ k = 3 * i + 1 => z[k] = a
         /\ k = 3 * i + 2 => z[k] = b
         /\ k = 3 * i + 3 => z[k] = c
    BY <1>1 DEF ByteAt
  <2>12. CASE k = 3 * i + 1
    <3>1. k % 3 = 1 /\ k % 3 # 2
      BY <2>10, <2>12
    <3>2. Decoded(k) = Number(4 * i) \div 65536
      <4> HIDE DEF Number
      <4> QED BY <3>1
    <3> QED BY <2>8, <2>9, <2>11, <2>12, <3>2
  <2>13. CASE k = 3 * i + 2
    <3>1. k % 3 = 2 /\ k % 3 # 1
      BY <2>10, <2>13
    <3>2. Decoded(k) = (Number(4 * i) \div 256) % 256
      <4> HIDE DEF Number
      <4> QED BY <3>1
    <3> QED BY <2>8, <2>9, <2>11, <2>13, <3>2
  <2>14. CASE k = 3 * i + 3
    <3>1. k % 3 # 2 /\ k % 3 # 1
      BY <1>1, <2>1, <2>10, <2>14
    <3>2. Decoded(k) = Number(4 * i) % 256
      <4> HIDE DEF Number
      <4> QED BY <3>1
    <3> QED BY <2>8, <2>9, <2>11, <2>14, <3>2
  <2> QED BY <2>10, <2>12, <2>13, <2>14
<1>9. z = [k \in 1..n |-> z[k]]
  BY LenProperties
<1> HIDE DEF Decoded, Padded, d, n
<1>10. DecodeBase64(d) = [k \in 1..n |-> Decoded(k)]
  BY <1>6, <1>7
<1>11. DecodeBase64(d) = z
  BY <1>8, <1>9, <1>10
<1> QED BY <1>11 DEF d

-----------------------------------------------------------------------------
(* Opening names *)

LEMMA OpenatCases ==
    ASSUME NEW d, NEW n
    PROVE  Openat(d, n) \in {Loop, NoAccess} \/ (Openat(d, n) = entries[d][n] /\ entries[d][n] \notin Links)
BY Zenon DEF Openat

\* A name of a directory that is not private leads to a private inode only if
\* that is a quarantine of the directory.
LEMMA NameFacts ==
    ASSUME TreeSafe, NEW d \in Dirs \ Private, NEW n \in Names
    PROVE  /\ entries[d][n] \in Nodes \cup {NoNode}
           /\ entries[d][n] \in Private => entries[d][n] \in QuarantineIdentities(d)
           /\ QuarantineIdentities(d) \subseteq Dirs
<1>1. entries[d][n] \in Nodes \cup {NoNode}
  BY DEF TreeSafe
<1>2. /\ \A q \in Quarantines : entries[d][q] \in Dirs \cup {NoNode}
      /\ entries[d][n] \in Private => \E q \in Quarantines : entries[d][q] = entries[d][n]
  BY DEF TreeSafe, Confined
<1>3. NoNode \notin Private
  BY NodesAssumption
<1> QED BY <1>1, <1>2, <1>3 DEF QuarantineIdentities

\* open_child_directory opens no private directory.
LEMMA ChildFacts ==
    ASSUME TreeSafe, NEW d \in Dirs \ Private, NEW n \in Names, OpenChildDirectory(d, n) # NoNode
    PROVE  OpenChildDirectory(d, n) \in Dirs \ Private
<1> DEFINE child == Openat(d, n)
<1>1. /\ OpenChildDirectory(d, n) = child
      /\ child \in Dirs /\ child \notin QuarantineIdentities(d)
  BY DEF OpenChildDirectory
<1>2. Loop \notin Dirs /\ NoAccess \notin Dirs
  BY NodesAssumption DEF Nodes
<1>3. child = entries[d][n]
  BY <1>1, <1>2, OpenatCases
<1> QED BY <1>1, <1>3, NameFacts

\* A file opened by its name is not private.
LEMMA FileFacts ==
    ASSUME TreeSafe, NEW d \in Dirs \ Private, NEW n \in Names, Openat(d, n) \in Files
    PROVE  Openat(d, n) \in Files \ Private /\ Openat(d, n) \in Safe
<1>1. Loop \notin Files /\ NoAccess \notin Files
  BY NodesAssumption DEF Nodes
<1>2. Openat(d, n) = entries[d][n]
  BY <1>1, OpenatCases
<1>3. entries[d][n] \notin QuarantineIdentities(d)
  BY <1>2, NameFacts, NodesAssumption
<1>4. entries[d][n] \notin Private
  BY <1>3, NameFacts
<1> QED BY <1>2, <1>4, NodesAssumption DEF Safe, Nodes

-----------------------------------------------------------------------------
(* Anchoring *)

\* The anchor of an accepted path is a safe root, and what is left of the path
\* are names that are not reserved.
LEMMA AnchorFacts ==
    ASSUME TreeSafe, CallSafe, ~ AnchorRefuses(call.path)
    PROVE  /\ roots[AnchorRoot(call.path)] \in Dirs \ Private
           /\ RelativePath(call.path) \in Seq(Names)
<1> DEFINE path == call.path
           H == HoldingRoots(path)
           All == Names \cup Reserved \cup {DotDot}
<1>1. path.parts \in Seq(All) /\ Len(path.parts) \in Nat
  BY LenProperties DEF CallSafe
<1>2. H # {} /\ H \subseteq Labels
  BY DEF AnchorRefuses, HoldingRoots
<1>3. \A l \in H : l \in Seq(Names) /\ Len(l) \in Nat /\ Len(l) <= Len(path.parts)
  <2> SUFFICES ASSUME NEW l \in H PROVE l \in Seq(Names) /\ Len(l) \in Nat /\ Len(l) <= Len(path.parts)
    OBVIOUS
  <2>1. l \in Seq(Names)
    BY <1>2, NodesAssumption
  <2> QED BY <2>1, LenProperties DEF HoldingRoots, IsPrefix
<1>4. PICK l \in H : \A k \in H : Len(k) <= Len(l)
  <2> DEFINE T == {Len(k) : k \in H}
  <2>1. T \subseteq Nat /\ T # {} /\ \A n \in T : n <= Len(path.parts)
    BY <1>2, <1>3
  <2>2. PICK m \in T : \A n \in T : n <= m
    <3> HIDE DEF T
    <3> QED BY <1>1, <2>1, LargestBelow
  <2> QED BY <2>2
<1>5. AnchorRoot(path) \in H
  <2> HIDE DEF H
  <2> QED BY <1>4 DEF AnchorRoot, H
<1>6. roots[AnchorRoot(path)] \in Dirs \ Private
  BY <1>2, <1>5 DEF TreeSafe
<1> DEFINE from == Len(AnchorRoot(path)) + 1
           relative == SubSeq(path.parts, from, Len(path.parts))
<1>7. from \in 1..Len(path.parts) + 1
  BY <1>1, <1>3, <1>5
<1>8. /\ relative \in Seq(All)
      /\ \A i \in 1..Len(relative) : from + i - 1 \in DOMAIN path.parts /\ relative[i] = path.parts[from + i - 1]
  <2> HIDE DEF from, path, All
  <2>1. \A i \in from..Len(path.parts) : path.parts[i] \in All
    BY <1>1, <1>7, ElementOfSeq
  <2>2. /\ relative \in Seq(All)
        /\ Len(relative) = IF from <= Len(path.parts) THEN Len(path.parts) - from + 1 ELSE 0
        /\ \A i \in 1..(Len(path.parts) - from + 1) : relative[i] = path.parts[from + i - 1]
    BY <1>1, <1>7, <2>1, SubSeqProperties
  <2>3. DOMAIN path.parts = 1..Len(path.parts)
    BY <1>1, LenProperties
  <2> QED BY <1>1, <1>7, <2>2, <2>3
<1>9. relative = RelativePath(path)
  BY DEF RelativePath
<1>10. /\ \A i \in DOMAIN path.parts : path.parts[i] # DotDot
       /\ \A i \in DOMAIN RelativePath(path) : RelativePath(path)[i] \notin Reserved
  BY DEF AnchorRefuses
<1>11. ASSUME NEW i \in 1..Len(relative) PROVE relative[i] \in Names
  <2> HIDE DEF relative, path
  <2>1. relative[i] \in All /\ i \in DOMAIN relative
    BY <1>8, ElementOfSeq, LenProperties
  <2>2. relative[i] # DotDot /\ relative[i] \notin Reserved
    BY <1>8, <1>9, <1>10, <2>1
  <2> QED BY <2>1, <2>2
<1>12. relative \in Seq(Names)
  <2> HIDE DEF relative, All
  <2> QED BY <1>8, <1>11, LenProperties, SeqDef
<1> QED BY <1>6, <1>9, <1>12

-----------------------------------------------------------------------------
(* What the guards of an answer say *)

LEMMA StartOk ==
    ASSUME StartStatus = "ok"
    PROVE  ~ AnchorRefuses(call.path)
<1>1. "path_rejected" # "ok" /\ "invalid_query" # "ok" /\ "invalid_range" # "ok"
  OBVIOUS
<1> HIDE DEF StartStatus
<1> QED BY <1>1, Zenon DEF StartStatus

LEMMA ParentOk ==
    ASSUME NEW d, NEW n, OpenMetadataParent(d, n) = "ok"
    PROVE  entries[d][n] \in Dirs /\ entries[d][n] \notin QuarantineIdentities(d)
<1>1. "path_rejected" # "ok" /\ "not_found" # "ok"
  OBVIOUS
<1> QED BY <1>1, Zenon DEF OpenMetadataParent

LEMMA MetadataOk ==
    ASSUME NEW node, MetadataStatus(node) = "ok"
    PROVE  /\ node # NoNode /\ node \notin Links
           /\ rest # <<>> => node \notin QuarantineIdentities(fd)
<1>1. "path_rejected" # "ok" /\ "not_found" # "ok" /\ "unsupported" # "ok"
  OBVIOUS
<1> QED BY <1>1, Zenon DEF MetadataStatus

LEMMA StatOk ==
    ASSUME NEW node, StatStatus(node) = "ok"
    PROVE  rest # <<>>
<1>1. "path_rejected" # "ok"
  OBVIOUS
<1> QED BY <1>1, Zenon DEF StatStatus

LEMMA OpenOk ==
    ASSUME NEW node, OpenStatus(node) = "ok"
    PROVE  node \in Files
<1>1. "path_rejected" # "ok" /\ "not_found" # "ok" /\ "unsupported" # "ok" /\ "io" # "ok"
  OBVIOUS
<1> QED BY <1>1, Zenon DEF OpenStatus

LEMMA ExaminedCases ==
    ASSUME NEW n
    PROVE  Examined(n) \in {ListExamine(n), FindExamine(n), SearchExamine(n)}
BY Zenon DEF Examined

LEMMA ProcessedCases ==
    ASSUME NEW w, NEW e
    PROVE  Processed(w, e) \in {ListProcess(w, e), FindProcess(w, e), SearchProcess(w, e)}
BY Zenon DEF Processed

LEMMA PublishedCases == Published \in {ListDirectory, FindPaths, SearchText}
BY Zenon DEF Published

-----------------------------------------------------------------------------
(* Traversals *)

LEMMA Fields ==
    DOMAIN NoWalk = {"queue", "here", "listing", "pending", "found", "used", "examined", "files",
                     "scanned", "truncated"}
BY DEF NoWalk

\* A safe walk of the same directory.
Keeps(v, w) == WalkSafe(v) /\ v.here = w.here

\* What keeps a walk safe: changes of its counters, of its candidates, of its
\* matches and of its queue.
LEMMA CountersKeep ==
    ASSUME NEW w, WalkSafe(w), NEW a, NEW b
    PROVE  /\ Keeps([w EXCEPT !.truncated = a], w)
           /\ Keeps([w EXCEPT !.listing = a], w)
           /\ Keeps([w EXCEPT !.listing = a, !.truncated = b], w)
           /\ Keeps([w EXCEPT !.examined = a], w)
           /\ Keeps([w EXCEPT !.files = a, !.scanned = b], w)
<1>1. Keeps([w EXCEPT !.truncated = a], w)
  BY Fields DEF WalkSafe, Keeps
<1>2. Keeps([w EXCEPT !.listing = a], w)
  BY Fields DEF WalkSafe, Keeps
<1>3. Keeps([w EXCEPT !.listing = a, !.truncated = b], w)
  BY Fields DEF WalkSafe, Keeps
<1>4. Keeps([w EXCEPT !.examined = a], w)
  BY Fields DEF WalkSafe, Keeps
<1>5. Keeps([w EXCEPT !.files = a, !.scanned = b], w)
  BY Fields DEF WalkSafe, Keeps
<1> QED BY <1>1, <1>2, <1>3, <1>4, <1>5

LEMMA PendingKeep ==
    ASSUME NEW w, WalkSafe(w), NEW P, \A e \in P : e.node \in Safe /\ e.name \in Names, NEW t
    PROVE  /\ Keeps([w EXCEPT !.pending = P], w)
           /\ Keeps([w EXCEPT !.pending = P, !.truncated = t], w)
<1>1. Keeps([w EXCEPT !.pending = P], w)
  BY Fields DEF WalkSafe, Keeps
<1>2. Keeps([w EXCEPT !.pending = P, !.truncated = t], w)
  BY Fields DEF WalkSafe, Keeps
<1> QED BY <1>1, <1>2

LEMMA FoundKeep ==
    ASSUME NEW w, WalkSafe(w), NEW F, \A m \in F : m.node \in Safe, NEW t
    PROVE  /\ Keeps([w EXCEPT !.found = F], w)
           /\ Keeps([w EXCEPT !.found = F, !.truncated = t], w)
           /\ Keeps([w EXCEPT !.used = t, !.found = F], w)
<1>1. Keeps([w EXCEPT !.found = F], w)
  BY Fields DEF WalkSafe, Keeps
<1>2. Keeps([w EXCEPT !.found = F, !.truncated = t], w)
  BY Fields DEF WalkSafe, Keeps
<1>3. Keeps([w EXCEPT !.used = t, !.found = F], w)
  BY Fields DEF WalkSafe, Keeps
<1> QED BY <1>1, <1>2, <1>3

LEMMA QueueKeep ==
    ASSUME NEW w, WalkSafe(w), NEW q \in Seq(Queueable), NEW t
    PROVE  /\ Keeps([w EXCEPT !.queue = q], w)
           /\ Keeps([w EXCEPT !.queue = q, !.truncated = t], w)
           /\ Keeps([w EXCEPT !.pending = {}, !.queue = q, !.truncated = t], w)
<1>1. Keeps([w EXCEPT !.queue = q], w)
  BY Fields DEF WalkSafe, Keeps
<1>2. Keeps([w EXCEPT !.queue = q, !.truncated = t], w)
  BY Fields DEF WalkSafe, Keeps
<1>3. Keeps([w EXCEPT !.pending = {}, !.queue = q, !.truncated = t], w)
  BY Fields DEF WalkSafe, Keeps
<1> QED BY <1>1, <1>2, <1>3

\* The walk enters a directory of its queue.
LEMMA HereUpdate ==
    ASSUME NEW w, WalkSafe(w), NEW q \in Seq(Queueable), NEW h, NEW l
    PROVE  /\ WalkSafe([w EXCEPT !.queue = q, !.here = h, !.listing = l])
           /\ WalkSafe([w EXCEPT !.here = h])
<1>1. WalkSafe([w EXCEPT !.queue = q, !.here = h, !.listing = l])
  BY Fields DEF WalkSafe
<1>2. WalkSafe([w EXCEPT !.here = h])
  BY Fields DEF WalkSafe
<1> QED BY <1>1, <1>2

LEMMA KeepsTransitive ==
    ASSUME NEW u, NEW v, NEW w, Keeps(u, v), Keeps(v, w)
    PROVE  Keeps(u, w)
BY DEF Keeps

\* A found directory is queued only if it is not private.
LEMMA QueuedKeeps ==
    ASSUME TreeSafe, NEW w, WalkSafe(w), w.here \in Queueable, NEW e, e.name \in Names
    PROVE  Keeps(Queued(w, e), w)
<1> DEFINE child == OpenChildDirectory(w.here.dir, e.name)
           next == [dir |-> child, depth |-> w.here.depth + 1, path |-> Append(w.here.path, e.name)]
<1>1. CASE ~(e.node \in Dirs /\ w.here.depth < Depth(call) /\ child # NoNode)
  <2>1. Queued(w, e) = w
    BY <1>1 DEF Queued
  <2> QED BY <2>1 DEF Keeps
<1>2. CASE e.node \in Dirs /\ w.here.depth < Depth(call) /\ child # NoNode
  <2>1. Queued(w, e) = [w EXCEPT !.queue = Append(w.queue, next)]
    BY <1>2 DEF Queued
  <2>2. child \in Dirs \ Private
    <3>1. w.here.dir \in Dirs \ Private
      BY DEF Queueable
    <3> QED BY <1>2, <3>1, ChildFacts
  <2>3. next \in Queueable
    <3>1. Append(w.here.path, e.name) \in Seq(Names)
      BY AppendProperties DEF Queueable
    <3> QED BY <2>2, <3>1 DEF Queueable
  <2>4. Append(w.queue, next) \in Seq(Queueable)
    <3> HIDE DEF next
    <3> QED BY <2>3, AppendProperties DEF WalkSafe
  <2> QED BY <2>1, <2>4, QueueKeep
<1> QED BY <1>1, <1>2

\* What a directory's name is found to lead to is safe, when it is an entry.
LEMMA EntryFacts ==
    ASSUME TreeSafe, walk.here \in Queueable, NEW n \in Names \cup Reserved \cup {Dot},
           IsEntry(n), entries[walk.here.dir][n] \notin Links
    PROVE  Entry(n).node \in Safe /\ Entry(n).name = n /\ n \in Names
<1>1. n \in Names /\ walk.here.dir \in Dirs \ Private
  BY DEF IsEntry, Queueable
<1>2. /\ entries[walk.here.dir][n] \in Nodes
      /\ entries[walk.here.dir][n] \notin Private
  BY <1>1, NameFacts DEF IsEntry
<1>3. Entry(n).node = entries[walk.here.dir][n] /\ Entry(n).name = n
  BY DEF Entry
<1> QED BY <1>1, <1>2, <1>3 DEF Safe

LEMMA ListExamineKeeps ==
    ASSUME TreeSafe, WalkSafe(walk), walk.here \in Queueable,
           NEW n \in Names \cup Reserved \cup {Dot}
    PROVE  Keeps(ListExamine(n), walk)
<1> DEFINE entry == [Entry(n) EXCEPT !.path = DisplayedPath(@)]
           inserted == {e \in walk.pending : e.path # entry.path} \cup {entry}
           kept == PopUntilFits(inserted, ListFits)
           skipped == Skipped(walk, n)
<1>1. Keeps(skipped, walk)
  BY CountersKeep DEF Skipped
<1>2. CASE ~ IsEntry(n) \/ entries[walk.here.dir][n] \in Links
  BY <1>1, <1>2 DEF ListExamine
<1>3. CASE ~(~ IsEntry(n) \/ entries[walk.here.dir][n] \in Links)
  <2>1. ListExamine(n) = [skipped EXCEPT !.pending = kept,
                                         !.truncated = skipped.truncated \/ kept # inserted]
    BY <1>3 DEF ListExamine
  <2>2. entry.node \in Safe /\ entry.name \in Names
    <3>1. Entry(n).node \in Safe /\ Entry(n).name \in Names
      BY <1>3, EntryFacts
    <3>2. entry.node = Entry(n).node /\ entry.name = Entry(n).name
      BY DEF Entry
    <3> QED BY <3>1, <3>2
  <2>3. \A e \in inserted : e.node \in Safe /\ e.name \in Names
    <3> HIDE DEF entry
    <3> QED BY <2>2 DEF WalkSafe
  <2>4. kept \subseteq inserted
    BY DEF PopUntilFits
  <2>5. WalkSafe(skipped)
    BY <1>1 DEF Keeps
  <2>6. Keeps([skipped EXCEPT !.pending = kept, !.truncated = skipped.truncated \/ kept # inserted],
              skipped)
    <3> HIDE DEF kept, inserted, skipped
    <3> QED BY <2>3, <2>4, <2>5, PendingKeep
  <2> QED BY <1>1, <2>1, <2>6, KeepsTransitive
<1> QED BY <1>2, <1>3

LEMMA ExamineUpToKeeps ==
    ASSUME TreeSafe, WalkSafe(walk), walk.here \in Queueable,
           NEW n \in Names \cup Reserved \cup {Dot}, NEW max
    PROVE  Keeps(ExamineUpTo(n, max), walk)
<1> DEFINE counted == IF n \in Reserved \cup {Dot} THEN walk
                      ELSE [walk EXCEPT !.examined = walk.examined + 1]
           skipped == Skipped(counted, n)
           kept == /\ IsEntry(n) /\ Displayed[n] = n
                   /\ entries[walk.here.dir][n] \in Files \cup Dirs
<1>1. CASE walk.examined >= max
  <2>1. ExamineUpTo(n, max) = [walk EXCEPT !.listing = {}, !.truncated = TRUE]
    BY <1>1 DEF ExamineUpTo
  <2>2. Keeps([walk EXCEPT !.listing = {}, !.truncated = TRUE], walk)
    BY CountersKeep
  <2> QED BY <2>1, <2>2
<1>2. CASE ~(walk.examined >= max)
  <2>1. Keeps(counted, walk)
    <3>1. Keeps([walk EXCEPT !.examined = walk.examined + 1], walk)
      BY CountersKeep
    <3> QED BY <3>1 DEF Keeps
  <2>2. Keeps(skipped, walk)
    <3> HIDE DEF counted
    <3>1. Keeps(skipped, counted)
      BY <2>1, CountersKeep DEF Skipped, Keeps
    <3> QED BY <2>1, <3>1, KeepsTransitive
  <2>3. CASE kept
    <3>1. ExamineUpTo(n, max) = [skipped EXCEPT !.pending = skipped.pending \cup {Entry(n)}]
      BY <1>2, <2>3 DEF ExamineUpTo
    <3>2. entries[walk.here.dir][n] \notin Links
      BY <2>3, NodesAssumption
    <3>3. Entry(n).node \in Safe /\ Entry(n).name \in Names
      BY <2>3, <3>2, EntryFacts
    <3>4. WalkSafe(skipped)
      BY <2>2 DEF Keeps
    <3> HIDE DEF skipped
    <3>5. \A e \in skipped.pending \cup {Entry(n)} : e.node \in Safe /\ e.name \in Names
      BY <3>3, <3>4 DEF WalkSafe
    <3>6. Keeps(ExamineUpTo(n, max), skipped)
      BY <3>1, <3>4, <3>5, PendingKeep
    <3> QED BY <2>2, <3>6, KeepsTransitive
  <2>4. CASE ~ kept
    <3>1. ExamineUpTo(n, max) = skipped
      BY <1>2, <2>4 DEF ExamineUpTo
    <3> QED BY <2>2, <3>1
  <2> QED BY <2>3, <2>4
<1> QED BY <1>1, <1>2

LEMMA ExaminedKeeps ==
    ASSUME TreeSafe, WalkSafe(walk), walk.here \in Queueable,
           NEW n \in Names \cup Reserved \cup {Dot}
    PROVE  Keeps(Examined(n), walk)
<1>1. Keeps(FindExamine(n), walk) /\ Keeps(SearchExamine(n), walk)
  BY ExamineUpToKeeps DEF FindExamine, SearchExamine
<1>2. Keeps(ListExamine(n), walk)
  BY ListExamineKeeps
<1> QED BY <1>1, <1>2, ExaminedCases

LEMMA ListProcessKeeps ==
    ASSUME TreeSafe, NEW w, WalkSafe(w), w.here \in Queueable,
           NEW e, e.node \in Safe, e.name \in Names
    PROVE  Keeps(ListProcess(w, e), w)
<1> DEFINE found == w.found \cup {Found(e.path, e.node, <<>>)}
           used == w.used + Encoded(e.path) + (IF w.found = {} THEN 0 ELSE 1)
           next == [w EXCEPT !.used = used, !.found = found]
<1>1. ListProcess(w, e) = Queued(next, e)
  BY DEF ListProcess
<1>2. \A m \in found : m.node \in Safe
  BY DEF Found, WalkSafe
<1>3. Keeps(next, w)
  <2> HIDE DEF found, used
  <2> QED BY <1>2, FoundKeep
<1> HIDE DEF next
<1>4. Keeps(Queued(next, e), next)
  BY <1>3, QueuedKeeps DEF Keeps
<1> QED BY <1>1, <1>3, <1>4, KeepsTransitive

LEMMA FindProcessKeeps ==
    ASSUME TreeSafe, NEW w, WalkSafe(w), w.here \in Queueable,
           NEW e, e.node \in Safe, e.name \in Names
    PROVE  Keeps(FindProcess(w, e), w)
<1> DEFINE matched == [w EXCEPT !.found = w.found \cup {Found(e.path, e.node, <<>>)}]
           matches == NameContains(e.name, call.query) /\ FilterMatches(call.filter, e.node)
           next == IF matches THEN matched ELSE w
<1>1. CASE Cardinality(w.found) >= MAX_FIND_MATCHES
  <2>1. FindProcess(w, e) = [w EXCEPT !.pending = {}, !.queue = <<>>, !.truncated = TRUE]
    BY <1>1 DEF FindProcess
  <2>2. <<>> \in Seq(Queueable)
    OBVIOUS
  <2> QED BY <2>1, <2>2, QueueKeep
<1>2. CASE ~(Cardinality(w.found) >= MAX_FIND_MATCHES)
  <2>1. FindProcess(w, e) = Queued(next, e)
    BY <1>2 DEF FindProcess
  <2>2. \A m \in w.found \cup {Found(e.path, e.node, <<>>)} : m.node \in Safe
    BY DEF Found, WalkSafe
  <2>3. Keeps(matched, w)
    BY <2>2, FoundKeep
  <2>4. Keeps(next, w)
    <3> HIDE DEF matched, matches
    <3> QED BY <2>3 DEF Keeps
  <2> HIDE DEF next
  <2>5. Keeps(Queued(next, e), next)
    BY <2>4, QueuedKeeps DEF Keeps
  <2> QED BY <2>1, <2>4, <2>5, KeepsTransitive
<1> QED BY <1>1, <1>2

LEMMA SearchProcessKeeps ==
    ASSUME TreeSafe, NEW w, WalkSafe(w), w.here \in Queueable,
           NEW e, e.node \in Safe, e.name \in Names
    PROVE  Keeps(SearchProcess(w, e), w)
<1>1. Keeps([w EXCEPT !.pending = {}, !.truncated = TRUE], w)
  BY PendingKeep
<1>2. Keeps(Queued(w, e), w)
  BY QueuedKeeps
<1>3. Keeps(ScanSearchFile(w, e), w)
  <2> DEFINE node == Openat(w.here.dir, e.name)
             left == MAX_SEARCH_TOTAL_BYTES - w.scanned
             limit == IF MAX_SEARCH_FILE_BYTES < left THEN MAX_SEARCH_FILE_BYTES ELSE left
             content == bytes[node]
             all == {Found(e.path, node, at) : at \in TextMatches(content, call.query)}
             room == MAX_SEARCH_MATCHES - Cardinality(w.found)
             kept == PopUntilFits(all, LAMBDA S : Cardinality(S) <= room)
             counted == [w EXCEPT !.files = w.files + 1, !.scanned = w.scanned + Len(content)]
             more == [counted EXCEPT !.found = counted.found \cup kept,
                                     !.truncated = counted.truncated \/ kept # all]
  <2>1. ScanSearchFile(w, e) =
           IF e.size > limit THEN [w EXCEPT !.truncated = TRUE]
           ELSE IF node \notin Files THEN w
           ELSE IF Len(content) > limit THEN [w EXCEPT !.truncated = TRUE]
           ELSE IF ~ IsUtf8(content) THEN counted
           ELSE more
    BY DEF ScanSearchFile
  <2>2. Keeps([w EXCEPT !.truncated = TRUE], w) /\ Keeps(counted, w)
    BY CountersKeep
  <2>3. Keeps(w, w)
    BY DEF Keeps
  <2>4. ASSUME node \in Files PROVE Keeps(more, w)
    <3>1. node \in Safe
      <4>1. w.here.dir \in Dirs \ Private
        BY DEF Queueable
      <4> QED BY <2>4, <4>1, FileFacts
    <3>2. kept \subseteq all
      BY DEF PopUntilFits
    <3>3. \A m \in all : m.node \in Safe
      BY <3>1 DEF Found
    <3>4. WalkSafe(counted)
      BY <2>2 DEF Keeps
    <3> HIDE DEF counted, kept, all
    <3>5. \A m \in counted.found \cup kept : m.node \in Safe
      BY <3>2, <3>3, <3>4 DEF WalkSafe
    <3>6. Keeps(more, counted)
      BY <3>4, <3>5, FoundKeep
    <3> QED BY <2>2, <3>6, KeepsTransitive
  <2> HIDE DEF counted, more, limit, content, node
  <2> QED BY <2>1, <2>2, <2>3, <2>4
<1> QED BY <1>1, <1>2, <1>3 DEF SearchProcess

LEMMA ProcessedKeeps ==
    ASSUME TreeSafe, NEW w, WalkSafe(w), w.here \in Queueable,
           NEW e, e.node \in Safe, e.name \in Names
    PROVE  Keeps(Processed(w, e), w)
BY ListProcessKeeps, FindProcessKeeps, SearchProcessKeeps, ProcessedCases

LEMMA PublishedKeeps ==
    ASSUME WalkSafe(walk)
    PROVE  Keeps(Published, walk)
<1>1. ASSUME NEW max PROVE Keeps(Trimmed(max), walk)
  <2> DEFINE kept == PopUntilFits(walk.found, LAMBDA S : ListBytes(S) <= max)
  <2>1. Trimmed(max) = [walk EXCEPT !.found = kept, !.truncated = walk.truncated \/ kept # walk.found]
    BY DEF Trimmed
  <2>2. kept \subseteq walk.found
    BY DEF PopUntilFits
  <2>3. \A m \in kept : m.node \in Safe
    <3> HIDE DEF kept
    <3> QED BY <2>2 DEF WalkSafe
  <2>4. Keeps([walk EXCEPT !.found = kept, !.truncated = walk.truncated \/ kept # walk.found], walk)
    <3> HIDE DEF kept
    <3> QED BY <2>3, FoundKeep
  <2> QED BY <2>1, <2>4
<1>2. Keeps(ListDirectory, walk)
  BY DEF ListDirectory, Keeps
<1>3. Keeps(FindPaths, walk) /\ Keeps(SearchText, walk)
  BY <1>1 DEF FindPaths, SearchText
<1> QED BY <1>2, <1>3, PublishedCases

-----------------------------------------------------------------------------
(* Steps that change neither the tree nor the walk *)

LEMMA EndSafe ==
    ASSUME IInv, NEW result, End(result), UNCHANGED <<world, call, fd, walk>>, disclosed' \subseteq Safe
    PROVE  IInv'
<1>1. TreeSafe'
  BY DEF IInv, TreeSafe, Confined, world
<1>2. CallSafe'
  BY DEF IInv, CallSafe, End
<1>3. DescriptorSafe'
  BY DEF End, DescriptorSafe
<1>4. WalkSafe(walk)'
  BY DEF IInv, WalkSafe
<1> QED BY <1>1, <1>2, <1>3, <1>4 DEF IInv

LEMMA RefuseSafe ==
    ASSUME IInv, NEW status, Refuse(status), UNCHANGED <<world, call>>
    PROVE  IInv'
<1>1. End(Outcome(status)) /\ UNCHANGED <<fd, walk>> /\ disclosed' \subseteq Safe
  BY DEF Refuse, IInv
<1> QED BY <1>1, EndSafe

LEMMA DescriptorStep ==
    ASSUME IInv, UNCHANGED <<world, call, walk, disclosed>>, rest' \in Seq(Names), DescriptorSafe'
    PROVE  IInv'
<1>1. TreeSafe'
  BY DEF IInv, TreeSafe, Confined, world
<1>2. CallSafe'
  BY DEF IInv, CallSafe
<1>3. WalkSafe(walk)'
  BY DEF IInv, WalkSafe
<1>4. disclosed' \subseteq Safe
  BY DEF IInv
<1> QED BY <1>1, <1>2, <1>3, <1>4 DEF IInv

LEMMA StartSafe ==
    ASSUME IInv, Start
    PROVE  IInv'
<1>1. CASE StartStatus # "ok"
  BY <1>1, RefuseSafe DEF Start
<1>2. CASE StartStatus = "ok"
  <2>1. /\ fd' = roots[AnchorRoot(call.path)] /\ rest' = RelativePath(call.path)
        /\ pc' = IF call.tool \in Walkers THEN "descend" ELSE "parent"
        /\ UNCHANGED <<world, call, walk, disclosed>>
    BY <1>2 DEF Start
  <2>2. fd' \in Dirs \ Private /\ rest' \in Seq(Names)
    BY <1>2, <2>1, StartOk, AnchorFacts DEF IInv
  <2>3. pc' \in {"descend", "parent"}
    BY <2>1
  <2>4. DescriptorSafe'
    BY <2>2, <2>3 DEF DescriptorSafe
  <2> QED BY <2>1, <2>2, <2>4, DescriptorStep
<1> QED BY <1>1, <1>2

LEMMA RestFacts ==
    ASSUME IInv, rest # <<>>
    PROVE  rest[1] \in Names /\ Tail(rest) \in Seq(Names)
BY HeadTailProperties DEF IInv, CallSafe

LEMMA DescendSafe ==
    ASSUME IInv, Descend
    PROVE  IInv'
<1> DEFINE child == OpenChildDirectory(fd, rest[1])
<1>1. pc = "descend" /\ fd \in Dirs \ Private /\ UNCHANGED <<world, call>>
  BY DEF Descend, IInv, DescriptorSafe
<1>2. CASE rest # <<>> /\ child = NoNode
  <2>1. Refuse("path_rejected")
    BY <1>2 DEF Descend
  <2> QED BY <1>1, <2>1, RefuseSafe
<1>3. CASE rest # <<>> /\ child # NoNode
  <2>1. fd' = child /\ rest' = Tail(rest) /\ UNCHANGED <<pc, walk, disclosed>>
    BY <1>3 DEF Descend
  <2>2. child \in Dirs \ Private
    BY <1>1, <1>3, RestFacts, ChildFacts DEF IInv
  <2>3. DescriptorSafe'
    <3> HIDE DEF child
    <3> QED BY <1>1, <2>1, <2>2 DEF DescriptorSafe
  <2> QED BY <1>1, <1>3, <2>1, <2>3, RestFacts, DescriptorStep
<1>4. CASE rest = <<>>
  <2> DEFINE queue == <<[dir |-> fd, path |-> <<>>, depth |-> 1]>>
  <2>1. /\ pc' = "pop" /\ walk' = [walk EXCEPT !.queue = queue]
        /\ UNCHANGED <<fd, rest, disclosed>>
    BY <1>4 DEF Descend
  <2>2. queue \in Seq(Queueable)
    BY <1>1 DEF Queueable
  <2>3. WalkSafe(walk)'
    <3>1. WalkSafe([walk EXCEPT !.queue = queue])
      <4> HIDE DEF queue
      <4> QED BY <2>2, QueueKeep DEF IInv, Keeps
    <3> HIDE DEF queue
    <3> QED BY <2>1, <3>1 DEF WalkSafe
  <2>4. TreeSafe' /\ CallSafe' /\ disclosed' \subseteq Safe
    BY <1>1, <2>1 DEF IInv, TreeSafe, Confined, world, CallSafe
  <2>5. DescriptorSafe'
    BY <2>1 DEF DescriptorSafe
  <2> QED BY <2>3, <2>4, <2>5 DEF IInv
<1> QED BY <1>2, <1>3, <1>4

LEMMA ParentSafe ==
    ASSUME IInv, Parent
    PROVE  IInv'
<1>1. /\ pc = "parent" /\ fd \in Dirs \ Private /\ UNCHANGED <<world, call>> /\ rest # <<>>
      /\ TreeSafe
  <2>1. pc = "parent" /\ UNCHANGED <<world, call>> /\ Len(rest) > 1
    BY DEF Parent
  <2>2. rest # <<>>
    BY <2>1
  <2> QED BY <2>1, <2>2 DEF IInv, DescriptorSafe
<1>2. CASE OpenMetadataParent(fd, rest[1]) # "ok"
  <2>1. PICK status : Refuse(status)
    BY <1>2 DEF Parent
  <2> QED BY <1>1, <2>1, RefuseSafe
<1>3. CASE OpenMetadataParent(fd, rest[1]) = "ok"
  <2>1. fd' = entries[fd][rest[1]] /\ rest' = Tail(rest) /\ UNCHANGED <<pc, walk, disclosed>>
    BY <1>3 DEF Parent
  <2>2. entries[fd][rest[1]] \in Dirs \ Private
    BY <1>1, <1>3, RestFacts, ParentOk, NameFacts
  <2>3. DescriptorSafe'
    BY <1>1, <2>1, <2>2 DEF DescriptorSafe
  <2> QED BY <1>1, <2>1, <2>3, RestFacts, DescriptorStep
<1> QED BY <1>2, <1>3

LEMMA SanitizeSafe ==
    ASSUME IInv, Sanitize
    PROVE  IInv'
<1>1. PICK status : Refuse(status)
  BY DEF Sanitize
<1> QED BY <1>1, RefuseSafe DEF Sanitize

LEMMA PathMetadataSafe ==
    ASSUME IInv, PathMetadata
    PROVE  IInv'
<1> DEFINE node == IF rest = <<>> THEN fd ELSE entries[fd][rest[1]]
<1>1. /\ fd \in Dirs \ Private /\ TreeSafe
      /\ UNCHANGED <<world, call, fd, walk>>
      /\ End(Outcome(MetadataStatus(node)))
      /\ disclosed' = IF MetadataStatus(node) = "ok" THEN {node} ELSE {}
  BY DEF PathMetadata, IInv, DescriptorSafe
<1>2. ASSUME MetadataStatus(node) = "ok" PROVE node \in Safe
  <2>1. node # NoNode /\ node \notin Links /\ (rest # <<>> => node \notin QuarantineIdentities(fd))
    <3> HIDE DEF node
    <3> QED BY <1>2, MetadataOk
  <2>2. CASE rest = <<>>
    BY <1>1, <2>1, <2>2 DEF Safe, Nodes
  <2>3. CASE rest # <<>>
    <3>1. node = entries[fd][rest[1]] /\ rest[1] \in Names
      BY <2>3, RestFacts
    <3>2. node \in Nodes \cup {NoNode} /\ node \notin Private
      BY <1>1, <2>1, <2>3, <3>1, NameFacts
    <3> QED BY <2>1, <3>2 DEF Safe
  <2> QED BY <2>2, <2>3
<1>3. disclosed' \subseteq Safe
  <2> HIDE DEF node
  <2> QED BY <1>1, <1>2
<1> HIDE DEF node
<1> QED BY <1>1, <1>3, EndSafe

LEMMA StatFileSafe ==
    ASSUME IInv, StatFile
    PROVE  IInv'
<1> DEFINE node == IF rest = <<>> THEN NoNode ELSE entries[fd][rest[1]]
<1>1. pc = "parent" /\ fd \in Dirs \ Private /\ UNCHANGED <<world, call>>
  BY DEF StatFile, IInv, DescriptorSafe
<1>2. CASE StatStatus(node) # "ok"
  <2>1. Refuse(StatStatus(node))
    BY <1>2 DEF StatFile
  <2> HIDE DEF node
  <2> QED BY <1>1, <2>1, RefuseSafe
<1>3. CASE StatStatus(node) = "ok"
  <2>1. pc' = "open" /\ UNCHANGED <<fd, rest, walk, disclosed>>
    BY <1>3 DEF StatFile
  <2>2. rest # <<>>
    <3> HIDE DEF node
    <3> QED BY <1>3, StatOk
  <2>3. DescriptorSafe'
    BY <1>1, <2>1, <2>2 DEF DescriptorSafe
  <2>4. rest' \in Seq(Names)
    BY <2>1 DEF IInv, CallSafe
  <2> QED BY <1>1, <2>1, <2>3, <2>4, DescriptorStep
<1> QED BY <1>2, <1>3

LEMMA OpenSafe ==
    ASSUME IInv, OpenVerifiedRegularFile
    PROVE  IInv'
<1> DEFINE node == Openat(fd, rest[1])
<1>1. fd \in Dirs \ Private /\ rest # <<>> /\ TreeSafe /\ UNCHANGED <<world, call>>
  BY DEF OpenVerifiedRegularFile, IInv, DescriptorSafe
<1>2. CASE OpenStatus(node) # "ok"
  <2>1. Refuse(OpenStatus(node))
    BY <1>2 DEF OpenVerifiedRegularFile
  <2> HIDE DEF node
  <2> QED BY <1>1, <2>1, RefuseSafe
<1>3. CASE OpenStatus(node) = "ok"
  <2>1. fd' = node /\ rest' = <<>> /\ pc' = "read" /\ UNCHANGED <<walk, disclosed>>
    BY <1>3 DEF OpenVerifiedRegularFile
  <2>2. node \in Files
    <3> HIDE DEF node
    <3> QED BY <1>3, OpenOk
  <2>3. node \in Files \ Private
    BY <1>1, <2>2, RestFacts, FileFacts
  <2>4. DescriptorSafe'
    <3> HIDE DEF node
    <3> QED BY <2>1, <2>3 DEF DescriptorSafe
  <2>5. rest' \in Seq(Names)
    BY <2>1
  <2> QED BY <1>1, <2>1, <2>4, <2>5, DescriptorStep
<1> QED BY <1>2, <1>3

\* The inode of an open file may be told of.
LEMMA OpenFileSafe ==
    ASSUME IInv, pc \in {"read", "verify"}
    PROVE  fd \in Safe
<1>1. fd \in Files \ Private
  BY DEF IInv, DescriptorSafe
<1> QED BY <1>1, NodesAssumption DEF Safe, Nodes

LEMMA AnswerSafe ==
    ASSUME IInv, pc = "read", NEW content, Answer(content), UNCHANGED <<world, call>>
    PROVE  IInv'
<1>1. PICK result : End(result) /\ UNCHANGED <<fd, walk>> /\ disclosed' = {fd}
  BY DEF Answer
<1>2. disclosed' \subseteq Safe
  BY <1>1, OpenFileSafe
<1> QED BY <1>1, <1>2, EndSafe

LEMMA PageSafe ==
    ASSUME IInv, pc = "verify", NEW content, NEW size, Page(content, size), UNCHANGED <<world, call>>
    PROVE  IInv'
<1>1. PICK result : End(result) /\ UNCHANGED <<fd, walk>> /\ disclosed' = {fd}
  BY DEF Page
<1>2. disclosed' \subseteq Safe
  BY <1>1, OpenFileSafe
<1> QED BY <1>1, <1>2, EndSafe

LEMMA ReadFileSafe ==
    ASSUME IInv, ReadFile
    PROVE  IInv'
<1>1. pc = "read" /\ UNCHANGED <<world, call>>
  BY DEF ReadFile
<1>2. (\E status : Refuse(status)) \/ (\E content : Answer(content))
  BY Zenon DEF ReadFile
<1> QED BY <1>1, <1>2, RefuseSafe, AnswerSafe

LEMMA ReadBinaryFileSafe ==
    ASSUME IInv, ReadBinaryFile
    PROVE  IInv'
<1>1. pc = "read" /\ UNCHANGED <<world, call>>
  BY DEF ReadBinaryFile
<1>2. (\E status : Refuse(status)) \/ (\E content : Answer(content))
  BY Zenon DEF ReadBinaryFile
<1> QED BY <1>1, <1>2, RefuseSafe, AnswerSafe

LEMMA HashFileSafe ==
    ASSUME IInv, HashFile
    PROVE  IInv'
<1>1. pc = "read" /\ UNCHANGED <<world, call>>
  BY DEF HashFile
<1>2. (\E status : Refuse(status)) \/ (\E content : Answer(content))
  BY Zenon DEF HashFile
<1> QED BY <1>1, <1>2, RefuseSafe, AnswerSafe

LEMMA ReadRangeSafe ==
    ASSUME IInv, ReadRange
    PROVE  IInv'
<1>1. pc = "read" /\ UNCHANGED <<world, call>>
  BY DEF ReadRange
<1>2. CASE Refuse("invalid_range")
  BY <1>1, <1>2, RefuseSafe
<1>3. CASE pc' = "verify" /\ UNCHANGED <<fd, rest, stat, walk, answer, disclosed>>
  <2>1. DescriptorSafe'
    BY <1>1, <1>3 DEF DescriptorSafe, IInv
  <2>2. rest' \in Seq(Names)
    BY <1>3 DEF IInv, CallSafe
  <2> QED BY <1>1, <1>3, <2>1, <2>2, DescriptorStep
<1> QED BY <1>2, <1>3 DEF ReadRange

LEMMA ReadBinaryRangeSafe ==
    ASSUME IInv, ReadVerifiedBinaryRange
    PROVE  IInv'
<1>1. pc = "verify" /\ UNCHANGED <<world, call>>
  BY DEF ReadVerifiedBinaryRange
<1>2. (\E status : Refuse(status)) \/ (\E content, size : Page(content, size))
  BY Zenon DEF ReadVerifiedBinaryRange
<1> QED BY <1>1, <1>2, RefuseSafe, PageSafe

LEMMA ReadTextRangeSafe ==
    ASSUME IInv, ReadVerifiedTextRange
    PROVE  IInv'
<1>1. pc = "verify" /\ UNCHANGED <<world, call>>
  BY DEF ReadVerifiedTextRange
<1>2. (\E status : Refuse(status)) \/ (\E content, size : Page(content, size))
  BY Zenon DEF ReadVerifiedTextRange
<1> QED BY <1>1, <1>2, RefuseSafe, PageSafe

LEMMA NextPageSafe ==
    ASSUME IInv, NextPage
    PROVE  IInv'
<1>1. /\ call' = [call EXCEPT !.offset = answer.next] /\ pc' = "start"
      /\ UNCHANGED <<world, fd, rest, walk, disclosed>>
  BY DEF NextPage
<1>2. TreeSafe' /\ disclosed' \subseteq Safe /\ WalkSafe(walk)'
  BY <1>1 DEF IInv, TreeSafe, Confined, world, WalkSafe
<1>3. CallSafe'
  <2>1. rest' \in Seq(Names)
    BY <1>1 DEF IInv, CallSafe
  <2>2. call' = [f \in {"tool", "path", "depth", "query", "filter", "offset", "first", "length"} |->
                    call'[f]]
    BY <1>1 DEF IInv, CallSafe
  <2>3. call'.path = call.path
    BY <1>1 DEF IInv, CallSafe
  <2> QED BY <2>1, <2>2, <2>3 DEF IInv, CallSafe
<1>4. DescriptorSafe'
  BY <1>1 DEF DescriptorSafe
<1> QED BY <1>2, <1>3, <1>4 DEF IInv

-----------------------------------------------------------------------------
(* Steps of a traversal *)

LEMMA WalkStep ==
    ASSUME IInv, UNCHANGED <<world, call, fd, rest, disclosed>>, WalkSafe(walk'), DescriptorSafe'
    PROVE  IInv'
<1>1. TreeSafe' /\ CallSafe' /\ disclosed' \subseteq Safe
  BY DEF IInv, TreeSafe, Confined, world, CallSafe
<1>2. WalkSafe(walk)'
  BY DEF WalkSafe
<1> QED BY <1>1, <1>2 DEF IInv

LEMMA PopDirectorySafe ==
    ASSUME IInv, PopDirectory
    PROVE  IInv'
<1>1. UNCHANGED <<world, call, fd, rest, disclosed>> /\ WalkSafe(walk)
  BY DEF PopDirectory, IInv
<1>2. CASE pc' = "publish" /\ UNCHANGED walk
  <2>1. DescriptorSafe'
    BY <1>2 DEF DescriptorSafe
  <2> QED BY <1>1, <1>2, <2>1, WalkStep
<1>3. CASE pc' = "publish" /\ walk' = [walk EXCEPT !.queue = <<>>, !.truncated = TRUE]
  <2>1. <<>> \in Seq(Queueable)
    OBVIOUS
  <2>2. WalkSafe([walk EXCEPT !.queue = <<>>, !.truncated = TRUE])
    BY <1>1, <2>1, QueueKeep DEF Keeps
  <2>3. DescriptorSafe'
    BY <1>3 DEF DescriptorSafe
  <2> QED BY <1>1, <1>3, <2>2, <2>3, WalkStep
<1> DEFINE head == Head(walk.queue)
           listing == {Dot} \cup {n \in Names \cup Reserved : entries[head.dir][n] # NoNode}
           next == [walk EXCEPT !.queue = Tail(walk.queue), !.here = head, !.listing = listing]
<1>4. CASE walk.queue # <<>> /\ pc' = "examine" /\ walk' = next
  <2>1. Tail(walk.queue) \in Seq(Queueable) /\ head \in Queueable
    BY <1>1, <1>4, HeadTailProperties DEF WalkSafe
  <2>2. WalkSafe(next) /\ next.here = head
    <3> HIDE DEF head, listing
    <3>1. WalkSafe(next)
      BY <1>1, <2>1, HereUpdate
    <3>2. next.here = head
      BY <1>1, Fields DEF WalkSafe
    <3> QED BY <3>1, <3>2
  <2>3. DescriptorSafe'
    <3> HIDE DEF head, next
    <3> QED BY <1>4, <2>1, <2>2 DEF DescriptorSafe
  <2> HIDE DEF next
  <2> QED BY <1>1, <1>4, <2>2, <2>3, WalkStep
<1> QED BY <1>2, <1>3, <1>4 DEF PopDirectory

LEMMA NoWalkSafe == WalkSafe(NoWalk)
<1>1. NoWalk = [f \in DOMAIN NoWalk |-> NoWalk[f]]
  BY DEF NoWalk
<1>2. NoWalk.queue = <<>> /\ NoWalk.pending = {} /\ NoWalk.found = {}
  BY DEF NoWalk
<1>3. <<>> \in Seq(Queueable)
  OBVIOUS
<1> QED BY <1>1, <1>2, <1>3 DEF WalkSafe

LEMMA FailureSafe ==
    ASSUME IInv, TraversalFails
    PROVE  IInv'
<1>1. UNCHANGED <<world, call, fd, disclosed>> /\ walk' = NoWalk /\ pc' = "done" /\ rest' = <<>>
  BY DEF TraversalFails, End
<1>2. TreeSafe'
  BY <1>1 DEF IInv, TreeSafe, Confined, world
<1>3. CallSafe'
  BY <1>1 DEF IInv, CallSafe
<1>4. DescriptorSafe'
  BY <1>1 DEF DescriptorSafe
<1>5. WalkSafe(walk)' /\ disclosed' \subseteq Safe
  BY <1>1, NoWalkSafe DEF WalkSafe, IInv
<1> QED BY <1>2, <1>3, <1>4, <1>5 DEF IInv

LEMMA ExamineSafe ==
    ASSUME IInv, NEW n \in Names \cup Reserved \cup {Dot}, Examine(n)
    PROVE  IInv'
<1>1. /\ UNCHANGED <<world, call, fd, rest, disclosed>> /\ walk' = Examined(n)
      /\ pc = "examine" /\ pc' \in {"process", "examine"}
  BY DEF Examine
<1>2. walk.here \in Queueable /\ TreeSafe /\ WalkSafe(walk)
  BY <1>1 DEF IInv, DescriptorSafe
<1>3. Keeps(Examined(n), walk)
  BY <1>2, ExaminedKeeps
<1>4. WalkSafe(walk') /\ walk'.here = walk.here
  BY <1>1, <1>3 DEF Keeps
<1>5. DescriptorSafe'
  BY <1>1, <1>2, <1>4 DEF DescriptorSafe
<1> QED BY <1>1, <1>4, <1>5, WalkStep

LEMMA ProcessSafe ==
    ASSUME IInv, Process
    PROVE  IInv'
<1>1. UNCHANGED <<world, call, fd, rest, disclosed>> /\ pc = "process"
  BY DEF Process
<1>2. walk.here \in Queueable /\ TreeSafe /\ WalkSafe(walk)
  BY <1>1 DEF IInv, DescriptorSafe
<1>3. CASE pc' = "pop" /\ walk' = [walk EXCEPT !.here = NoWalk.here]
  <2>1. WalkSafe([walk EXCEPT !.here = NoWalk.here])
    BY <1>2, HereUpdate DEF WalkSafe
  <2>2. DescriptorSafe'
    BY <1>3 DEF DescriptorSafe
  <2> QED BY <1>1, <1>3, <2>1, <2>2, WalkStep
<1>4. ASSUME NEW e \in walk.pending,
             walk' = Processed([walk EXCEPT !.pending = walk.pending \ {e}], e), UNCHANGED pc
      PROVE  IInv'
  <2> DEFINE w == [walk EXCEPT !.pending = walk.pending \ {e}]
  <2>1. e.node \in Safe /\ e.name \in Names
    BY <1>2 DEF WalkSafe
  <2>2. Keeps(w, walk)
    <3>1. \A x \in walk.pending \ {e} : x.node \in Safe /\ x.name \in Names
      BY <1>2 DEF WalkSafe
    <3> QED BY <1>2, <3>1, PendingKeep
  <2>3. walk' = Processed(w, e)
    BY <1>4
  <2> HIDE DEF w
  <2>4. Keeps(Processed(w, e), w)
    BY <1>2, <2>1, <2>2, ProcessedKeeps DEF Keeps
  <2>5. WalkSafe(walk') /\ walk'.here = walk.here
    BY <2>2, <2>3, <2>4 DEF Keeps
  <2>6. DescriptorSafe'
    BY <1>1, <1>2, <1>4, <2>5 DEF DescriptorSafe
  <2> QED BY <1>1, <2>5, <2>6, WalkStep
<1> QED BY <1>3, <1>4 DEF Process

LEMMA PublishSafe ==
    ASSUME IInv, Publish
    PROVE  IInv'
<1>1. /\ UNCHANGED <<world, call>> /\ walk' = Published /\ pc' = "done" /\ rest' = <<>>
      /\ disclosed' = {m.node : m \in Published.found}
  BY DEF Publish, End
<1>2. WalkSafe(Published)
  BY PublishedKeeps DEF IInv, Keeps
<1>3. disclosed' \subseteq Safe
  BY <1>1, <1>2 DEF WalkSafe
<1>4. WalkSafe(walk)'
  BY <1>1, <1>2 DEF WalkSafe
<1>5. TreeSafe' /\ CallSafe'
  <2>1. rest' \in Seq(Names)
    BY <1>1
  <2>2. TreeSafe'
    BY <1>1 DEF IInv, TreeSafe, Confined, world
  <2> QED BY <1>1, <2>1, <2>2 DEF IInv, CallSafe
<1>6. DescriptorSafe'
  BY <1>1 DEF DescriptorSafe
<1> QED BY <1>3, <1>4, <1>5, <1>6 DEF IInv

-----------------------------------------------------------------------------
(* Steps of the other program *)

LEMMA RelinkSafe ==
    ASSUME IInv, NEW r \in Relinks, Relink(r.dir, r.name, r.node)
    PROVE  IInv'
<1>1. /\ r.dir \in Dirs /\ r.name \in Names /\ r.node \in Nodes \cup {NoNode}
      /\ r.dir \notin Private => r.node \notin Private
  BY ScenariosAssumption
<1>2. /\ entries' = [entries EXCEPT ![r.dir][r.name] = r.node]
      /\ UNCHANGED <<roots, call, pc, fd, rest, walk, disclosed>>
  BY DEF Relink
<1>3. entries \in [Dirs -> [Names \cup Reserved -> Nodes \cup {NoNode}]] /\ Confined(entries)
  BY DEF IInv, TreeSafe
<1>4. entries' \in [Dirs -> [Names \cup Reserved -> Nodes \cup {NoNode}]]
  BY <1>1, <1>2, <1>3
<1>5. Confined(entries')
  <2> SUFFICES ASSUME NEW d \in Dirs \ Private
               PROVE  /\ \A q \in Quarantines : entries'[d][q] \in (Dirs \cap Private) \cup {NoNode}
                      /\ \A n \in Names : entries'[d][n] \in Private =>
                            \E q \in Quarantines : entries'[d][q] = entries'[d][n]
    BY DEF Confined
  <2>1. \A q \in Quarantines : entries'[d][q] = entries[d][q]
    BY <1>1, <1>2, <1>3, NodesAssumption
  <2>2. \A n \in Names : entries'[d][n] = entries[d][n] \/ entries'[d][n] \notin Private
    BY <1>1, <1>2, <1>3
  <2>3. /\ \A q \in Quarantines : entries[d][q] \in (Dirs \cap Private) \cup {NoNode}
        /\ \A n \in Names : entries[d][n] \in Private =>
              \E q \in Quarantines : entries[d][q] = entries[d][n]
    BY <1>3 DEF Confined
  <2> QED BY <2>1, <2>2, <2>3
<1>6. TreeSafe'
  BY <1>2, <1>4, <1>5 DEF IInv, TreeSafe, Confined
<1>7. CallSafe' /\ DescriptorSafe' /\ WalkSafe(walk)' /\ disclosed' \subseteq Safe
  BY <1>2 DEF IInv, CallSafe, DescriptorSafe, WalkSafe
<1> QED BY <1>6, <1>7 DEF IInv

\* Nothing the invariant speaks of changes.
LEMMA Unchanged ==
    ASSUME IInv, UNCHANGED <<entries, roots, call, pc, fd, rest, walk, disclosed>>
    PROVE  IInv'
BY DEF IInv, TreeSafe, Confined, CallSafe, DescriptorSafe, WalkSafe

-----------------------------------------------------------------------------
(* The invariant *)

LEMMA InitInv == Init => IInv
<1> SUFFICES ASSUME Init PROVE IInv
  OBVIOUS
<1>1. PICK s \in Scenarios :
         /\ entries = s.tree /\ call = s.call
         /\ \A l \in Labels : PinSafeRoot(s.tree, l) \in Dirs \ {FsRoot}
         /\ roots = [l \in Labels |-> PinSafeRoot(s.tree, l)]
  BY DEF Init
<1>2. /\ s.tree \in [Dirs -> [Names \cup Reserved -> Nodes \cup {NoNode}]] /\ Confined(s.tree)
      /\ s.call \in Calls
      /\ \A l \in Labels : PinSafeRoot(s.tree, l) \notin Private
  BY ScenariosAssumption
<1>3. TreeSafe
  <2>1. roots \in [Labels -> Dirs \ Private]
    BY <1>1, <1>2
  <2> QED BY <1>1, <1>2, <2>1 DEF TreeSafe
<1>4. CallSafe
  <2>1. rest \in Seq(Names)
    BY DEF Init
  <2>2. call \in Calls
    BY <1>1, <1>2
  <2> QED BY <2>1, <2>2 DEF CallSafe, Calls
<1>5. DescriptorSafe
  BY DEF Init, DescriptorSafe
<1>6. WalkSafe(walk)
  BY NoWalkSafe DEF Init
<1>7. disclosed \subseteq Safe
  BY DEF Init
<1> QED BY <1>3, <1>4, <1>5, <1>6, <1>7 DEF IInv

LEMMA NextInv == IInv /\ [Next]_vars => IInv'
<1> SUFFICES ASSUME IInv, [Next]_vars PROVE IInv'
  OBVIOUS
<1>1. CASE Start BY <1>1, StartSafe
<1>2. CASE Descend BY <1>2, DescendSafe
<1>3. CASE Parent BY <1>3, ParentSafe
<1>4. CASE Sanitize BY <1>4, SanitizeSafe
<1>5. CASE PathMetadata BY <1>5, PathMetadataSafe
<1>6. CASE StatFile BY <1>6, StatFileSafe
<1>7. CASE OpenVerifiedRegularFile BY <1>7, OpenSafe
<1>8. CASE ReadFile BY <1>8, ReadFileSafe
<1>9. CASE ReadBinaryFile BY <1>9, ReadBinaryFileSafe
<1>10. CASE HashFile BY <1>10, HashFileSafe
<1>11. CASE ReadRange BY <1>11, ReadRangeSafe
<1>12. CASE ReadVerifiedBinaryRange BY <1>12, ReadBinaryRangeSafe
<1>13. CASE ReadVerifiedTextRange BY <1>13, ReadTextRangeSafe
<1>14. CASE NextPage BY <1>14, NextPageSafe
<1>15. CASE PopDirectory BY <1>15, PopDirectorySafe
<1>16. CASE Process BY <1>16, ProcessSafe
<1>17. CASE Publish BY <1>17, PublishSafe
<1>18. ASSUME NEW n \in Names \cup Reserved \cup {Dot}, Examine(n) PROVE IInv'
  BY <1>18, ExamineSafe
<1>19. ASSUME NEW r \in Relinks, Relink(r.dir, r.name, r.node) PROVE IInv'
  BY <1>19, RelinkSafe
<1>20. ASSUME NEW f \in Files \ Private, NEW content \in Rewrites, Rewrite(f, content) PROVE IInv'
  <2>1. UNCHANGED <<entries, roots, call, pc, fd, rest, walk, disclosed>>
    BY <1>20 DEF Rewrite
  <2> QED BY <2>1, Unchanged
<1>22. CASE TraversalFails BY <1>22, FailureSafe
<1>21. CASE UNCHANGED vars
  <2>1. UNCHANGED <<entries, roots, call, pc, fd, rest, walk, disclosed>>
    BY <1>21 DEF vars
  <2> QED BY <2>1, Unchanged
<1> QED BY Zenon, <1>1, <1>2, <1>3, <1>4, <1>5, <1>6, <1>7, <1>8, <1>9, <1>10, <1>11, <1>12, <1>13,
           <1>14, <1>15, <1>16, <1>17, <1>18, <1>19, <1>20, <1>21, <1>22 DEF Next

\* The invariant holds of every call on every tree: descriptors, the queue of a
\* traversal, its candidates and its matches are never of a private inode.
THEOREM InductiveInvariant == Spec => []IInv
<1> QED BY InitInv, NextInv, PTL DEF Spec

\* Whatever is relinked between a stat and an open, an answer of any read tool
\* tells of nothing outside the pinned safe roots, of nothing in a quarantine
\* under whatever name, and of no symbolic link.
THEOREM DisclosureSafety == Spec => []OnlySafeDisclosed
<1>1. IInv => OnlySafeDisclosed
  BY DEF IInv, Safe, OnlySafeDisclosed
<1> QED BY <1>1, InductiveInvariant, PTL

-----------------------------------------------------------------------------
(* Pages: trails and parts of a file *)

\* The inodes of a trail, one after the other.
LEMMA TrailFacts ==
    ASSUME TreeSafe, NEW top \in Dirs, NEW names \in Seq(Names)
    PROVE  /\ Trail(entries, top, names)[0] = top
           /\ \A i \in 1..Len(names) :
                Trail(entries, top, names)[i] =
                    IF Trail(entries, top, names)[i - 1] \in Dirs
                    THEN entries[Trail(entries, top, names)[i - 1]][names[i]] ELSE NoNode
<1> DEFINE n == Len(names)
           S == Nodes \cup {NoNode}
           Enter(d, i) == IF d \in Dirs THEN entries[d][names[i]] ELSE NoNode
           G == [p \in S \X (1..n) |-> Enter(p[1], p[2])]
<1>1. n \in Nat
  BY LenProperties
<1>2. G \in [S \X (1..n) -> S]
  <2>1. ASSUME NEW d \in S, NEW i \in 1..n PROVE Enter(d, i) \in S
    <3>1. names[i] \in Names
      BY ElementOfSeq
    <3> QED BY <3>1 DEF TreeSafe
  <2> HIDE DEF Enter, S, n
  <2> QED BY <2>1
<1>3. top \in S
  BY DEF Nodes
<1>4. PICK f \in [0..n -> S] : Solves(f, n, top, G)
  <2> HIDE DEF n, S, G
  <2> QED BY <1>1, <1>2, <1>3, Recursion
<1>5. f = [i \in 0..n |-> IF i = 0 THEN top ELSE Enter(f[i - 1], i)]
  <2> HIDE DEF Enter, S
  <2>1. f[0] = top
    BY <1>1, <1>4 DEF Solves
  <2>2. ASSUME NEW i \in 0..n, i # 0 PROVE f[i] = Enter(f[i - 1], i)
    <3>1. i \in 1..n /\ i - 1 \in 0..n /\ f[i - 1] \in S
      BY <1>1, <2>2
    <3>2. f[i] = G[<<f[i - 1], i>>]
      <4> HIDE DEF G
      <4> QED BY <1>4, <2>2 DEF Solves
    <3> QED BY <3>1, <3>2
  <2>3. f = [i \in 0..n |-> f[i]]
    OBVIOUS
  <2> HIDE DEF G, n
  <2> QED BY <2>1, <2>2, <2>3
<1> DEFINE at == Trail(entries, top, names)
<1>6. at = [i \in 0..n |-> IF i = 0 THEN top ELSE Enter(at[i - 1], i)]
  BY <1>5 DEF Trail
<1>7. at[0] = top /\ \A i \in 1..n : at[i] = Enter(at[i - 1], i)
  <2> HIDE DEF at, n, Enter
  <2> QED BY <1>1, <1>6
<1> QED BY <1>7

\* A part of a sequence of bytes.
LEMMA Part ==
    ASSUME NEW b \in Seq(Byte), NEW f \in Nat, NEW u \in Nat, f <= u, u <= Len(b)
    PROVE  /\ SubSeq(b, f + 1, u) \in Seq(Byte)
           /\ Len(SubSeq(b, f + 1, u)) = u - f
           /\ \A i \in 1..(u - f) : SubSeq(b, f + 1, u)[i] = b[f + i]
<1> DEFINE y == SubSeq(b, f + 1, u)
<1>1. Len(b) \in Nat
  BY LenProperties
<1>2. \A i \in (f + 1)..u : b[i] \in Byte
  BY <1>1, ElementOfSeq
<1>3. /\ y \in Seq(Byte)
      /\ Len(y) = IF f + 1 <= u THEN u - (f + 1) + 1 ELSE 0
      /\ \A i \in 1..(u - (f + 1) + 1) : y[i] = b[(f + 1) + i - 1]
  BY <1>2, SubSeqProperties
<1>4. u - (f + 1) + 1 = u - f /\ \A i \in 1..(u - f) : (f + 1) + i - 1 = f + i
  OBVIOUS
<1> HIDE DEF y
<1>5. Len(y) = u - f
  BY <1>3, <1>4
<1> QED BY <1>3, <1>4, <1>5 DEF y

LEMMA EqualBytes ==
    ASSUME NEW x \in Seq(Byte), NEW y \in Seq(Byte), Len(x) = Len(y),
           \A i \in 1..Len(x) : x[i] = y[i]
    PROVE  x = y
BY SeqEqual

\* Adjacent parts make one.
LEMMA PartsJoin ==
    ASSUME NEW b \in Seq(Byte), NEW f \in Nat, NEW o \in Nat, NEW u \in Nat,
           f <= o, o <= u, u <= Len(b)
    PROVE  SubSeq(b, f + 1, o) \o SubSeq(b, o + 1, u) = SubSeq(b, f + 1, u)
<1> DEFINE x == SubSeq(b, f + 1, o)
           y == SubSeq(b, o + 1, u)
           z == SubSeq(b, f + 1, u)
<1>1. Len(b) \in Nat /\ o <= Len(b) /\ f <= u
  BY LenProperties
<1>2. x \in Seq(Byte) /\ Len(x) = o - f /\ \A i \in 1..(o - f) : x[i] = b[f + i]
  BY <1>1, Part
<1>3. y \in Seq(Byte) /\ Len(y) = u - o /\ \A i \in 1..(u - o) : y[i] = b[o + i]
  BY <1>1, Part
<1>4. z \in Seq(Byte) /\ Len(z) = u - f /\ \A i \in 1..(u - f) : z[i] = b[f + i]
  BY <1>1, Part
<1> HIDE DEF x, y, z
<1>5. /\ x \o y \in Seq(Byte)
      /\ Len(x \o y) = Len(x) + Len(y)
      /\ \A i \in 1..Len(x) + Len(y) : (x \o y)[i] = IF i <= Len(x) THEN x[i] ELSE y[i - Len(x)]
  BY <1>2, <1>3, ConcatProperties
<1>6. ASSUME NEW i \in 1..(u - f) PROVE (x \o y)[i] = z[i]
  <2>1. i \in 1..Len(x) + Len(y)
    BY <1>2, <1>3
  <2>2. CASE i <= o - f
    BY <1>2, <1>4, <1>5, <2>1, <2>2
  <2>3. CASE ~ (i <= o - f)
    <3>1. i - (o - f) \in 1..(u - o) /\ o + (i - (o - f)) = f + i
      BY <2>3
    <3>2. (x \o y)[i] = y[i - (o - f)]
      BY <1>2, <1>5, <2>1, <2>3
    <3> QED BY <1>3, <1>4, <3>1, <3>2
  <2> QED BY <2>2, <2>3
<1>7. x \o y = z
  <2> DEFINE w == x \o y
  <2>1. w \in Seq(Byte) /\ Len(w) = u - f
    BY <1>2, <1>3, <1>5
  <2>2. \A i \in 1..(u - f) : w[i] = z[i]
    BY <1>6
  <2> HIDE DEF w
  <2>3. w = z
    BY <1>4, <2>1, <2>2, EqualBytes
  <2> QED BY <2>3 DEF w
<1> QED BY <1>7 DEF x, y, z

\* A part of a part is a part.
LEMMA PartOfPart ==
    ASSUME NEW b \in Seq(Byte), NEW f \in Nat, NEW u \in Nat, f <= u, u <= Len(b),
           NEW k \in Nat, NEW m \in Nat, k <= m, m <= u - f
    PROVE  SubSeq(SubSeq(b, f + 1, u), k + 1, m) = SubSeq(b, (f + k) + 1, f + m)
<1> DEFINE x == SubSeq(b, f + 1, u)
           y == SubSeq(x, k + 1, m)
           z == SubSeq(b, (f + k) + 1, f + m)
<1>1. Len(b) \in Nat /\ f + k \in Nat /\ f + m \in Nat /\ f + k <= f + m /\ f + m <= Len(b)
  BY LenProperties
<1>2. x \in Seq(Byte) /\ Len(x) = u - f /\ \A i \in 1..(u - f) : x[i] = b[f + i]
  BY Part
<1>3. y \in Seq(Byte) /\ Len(y) = m - k /\ \A i \in 1..(m - k) : y[i] = x[k + i]
  <2> HIDE DEF x
  <2> QED BY <1>2, Part
<1>4. z \in Seq(Byte) /\ Len(z) = (f + m) - (f + k) /\ \A i \in 1..((f + m) - (f + k)) : z[i] = b[(f + k) + i]
  <2> DEFINE g == f + k
             h == f + m
  <2>1. SubSeq(b, g + 1, h) \in Seq(Byte) /\ Len(SubSeq(b, g + 1, h)) = h - g
        /\ \A i \in 1..(h - g) : SubSeq(b, g + 1, h)[i] = b[g + i]
    <3> HIDE DEF g, h
    <3> QED BY <1>1, Part DEF g, h
  <2> QED BY <2>1
<1> HIDE DEF x, y, z
<1>5. (f + m) - (f + k) = m - k
  OBVIOUS
<1>6. ASSUME NEW i \in 1..(m - k) PROVE y[i] = z[i]
  <2>1. k + i \in 1..(u - f) /\ f + (k + i) = (f + k) + i
    OBVIOUS
  <2> QED BY <1>2, <1>3, <1>4, <1>5, <2>1
<1>7. y = z
  BY <1>3, <1>4, <1>5, <1>6, EqualBytes
<1> QED BY <1>7 DEF x, y, z

-----------------------------------------------------------------------------
(* Pages: what refuses a range *)

LEMMA RangeTools ==
    ASSUME call.tool \in Ranges
    PROVE  /\ call.tool \in Readers /\ call.tool \notin Walkers
           /\ call.tool \notin {"find_paths", "search_text", "sanitize", "path_metadata",
                                "read_file", "read_binary_file", "hash_file"}
           /\ call.tool = "read_text_range" \/ call.tool = "read_binary_range"
           /\ FileLimit \in Nat
BY CeilingsAssumption DEF Ranges, Readers, Walkers, FileLimit

LEMMA RangeFileLimit ==
    ASSUME call.tool \in Ranges
    PROVE  MaxFileBytes = FileLimit
<1>1. call.tool # "read_file" /\ call.tool # "read_binary_file" /\ call.tool # "hash_file"
  BY RangeTools
<1>2. CASE call.tool = "read_text_range"
  <2>1. MaxFileBytes = MAX_TEXT_RANGE_FILE_BYTES
    BY <1>1, <1>2, Zenon DEF MaxFileBytes
  <2> QED BY <1>2, <2>1 DEF FileLimit
<1>3. CASE call.tool # "read_text_range"
  <2>1. MaxFileBytes = MAX_BINARY_RANGE_FILE_BYTES
    BY <1>1, <1>3, Zenon DEF MaxFileBytes
  <2> QED BY <1>3, <2>1 DEF FileLimit
<1> QED BY <1>2, <1>3

LEMMA StartPages ==
    ASSUME call.tool \in Ranges, call.offset \in Nat, call.length \in Nat
    PROVE  /\ StartStatus # "invalid_encoding"
           /\ StartStatus = "ok" => Acceptable
           /\ Acceptable /\ call.offset <= FileLimit => StartStatus = "ok"
<1> DEFINE Query == ValidateFindQuery(call) \/ ValidateSearchQuery(call)
           Range1 == BinaryRangeRefused(call) \/ TextRangeRefused(call)
           Refused == AnchorRefuses(call.path)
<1>1. ~ Query
  BY RangeTools DEF ValidateFindQuery, ValidateSearchQuery
<1>2. /\ StartStatus \in {"invalid_range", "path_rejected", "ok"}
      /\ StartStatus = "ok" <=> ~ Range1 /\ ~ Refused
  <2>1. "invalid_range" # "ok" /\ "path_rejected" # "ok"
    OBVIOUS
  <2>2. StartStatus = CASE Query -> "invalid_query" [] Range1 -> "invalid_range"
                        [] Refused -> "path_rejected" [] OTHER -> "ok"
    BY Zenon DEF StartStatus
  <2> HIDE DEF Query, Range1, Refused
  <2> QED BY <1>1, <2>1, <2>2, Zenon
<1>3. CASE call.tool = "read_text_range"
  <2>1. /\ Acceptable <=> ~ Refused /\ call.length \in MIN_TEXT_RANGE_BYTES..MAX_TEXT_RANGE_BYTES
        /\ FileLimit = MAX_TEXT_RANGE_FILE_BYTES
    BY <1>3 DEF Acceptable, FileLimit
  <2>2. Range1 <=> \/ call.offset > MAX_TEXT_RANGE_FILE_BYTES
                   \/ call.length \notin MIN_TEXT_RANGE_BYTES..MAX_TEXT_RANGE_BYTES
    BY <1>3 DEF BinaryRangeRefused, TextRangeRefused
  <2> HIDE DEF Range1, Refused
  <2> QED BY <1>2, <2>1, <2>2, CeilingsAssumption
<1>4. CASE call.tool = "read_binary_range"
  <2>1. /\ Acceptable <=> ~ Refused /\ call.length \in 1..MAX_BINARY_RANGE_BYTES
        /\ FileLimit = MAX_BINARY_RANGE_FILE_BYTES
    BY <1>4 DEF Acceptable, FileLimit
  <2>2. Range1 <=> \/ call.offset > MAX_BINARY_RANGE_FILE_BYTES
                   \/ call.length \notin 1..MAX_BINARY_RANGE_BYTES
    BY <1>4 DEF BinaryRangeRefused, TextRangeRefused
  <2> HIDE DEF Range1, Refused
  <2> QED BY <1>2, <2>1, <2>2, CeilingsAssumption
<1> QED BY <1>3, <1>4, RangeTools

\* open_metadata_parent_directory refuses no directory that is no quarantine.
LEMMA ParentPages ==
    ASSUME NEW d, NEW n
    PROVE  /\ OpenMetadataParent(d, n) # "invalid_encoding"
           /\ /\ n \notin Reserved /\ entries[d][n] \in Dirs
              /\ entries[d][n] \notin QuarantineIdentities(d)
              => OpenMetadataParent(d, n) = "ok"
<1>1. "path_rejected" # "invalid_encoding" /\ "not_found" # "invalid_encoding" /\ "ok" # "invalid_encoding"
  OBVIOUS
<1>2. entries[d][n] \in Dirs => entries[d][n] \notin Links
  BY NodesAssumption
<1> QED BY <1>1, <1>2, Zenon DEF OpenMetadataParent

LEMMA StatPages ==
    ASSUME NEW node
    PROVE  /\ StatStatus(node) # "invalid_encoding"
           /\ StatStatus(node) = "ok" =>
                rest # <<>> /\ node \in Files /\ ~ (Len(bytes[node]) > MaxFileBytes)
           /\ rest # <<>> /\ node \in Files /\ ~ (Len(bytes[node]) > MaxFileBytes)
              => StatStatus(node) = "ok"
<1>1. /\ "path_rejected" # "invalid_encoding" /\ "not_found" # "invalid_encoding"
      /\ "ok" # "invalid_encoding" /\ "unsupported" # "invalid_encoding"
      /\ "too_large" # "invalid_encoding" /\ "path_rejected" # "ok" /\ "not_found" # "ok"
      /\ "unsupported" # "ok" /\ "too_large" # "ok"
  OBVIOUS
<1>2. node \in Files => node \notin Links /\ node # NoNode
  BY NodesAssumption DEF Nodes
<1> DEFINE large == Len(bytes[node]) > MaxFileBytes
<1>3. StatStatus(node) = CASE rest = <<>> -> "path_rejected"
                           [] node = NoNode -> "not_found"
                           [] node \in Links -> "path_rejected"
                           [] node \notin Files -> "unsupported"
                           [] large -> "too_large"
                           [] OTHER -> "ok"
  BY Zenon DEF StatStatus
<1> HIDE DEF large
<1>4. /\ StatStatus(node) # "invalid_encoding"
      /\ StatStatus(node) = "ok" => rest # <<>> /\ node \in Files /\ ~ large
      /\ rest # <<>> /\ node \in Files /\ ~ large => StatStatus(node) = "ok"
  BY <1>1, <1>2, <1>3, Zenon
<1> QED BY <1>4, Zenon DEF large

LEMMA OpenPages ==
    ASSUME NEW node
    PROVE  /\ OpenStatus(node) # "invalid_encoding"
           /\ OpenStatus(node) = "ok" =>
                node \in Files /\ node = stat.node /\ ~ (Len(bytes[node]) > MaxFileBytes)
           /\ node \in Files /\ node = stat.node /\ ~ (Len(bytes[node]) > MaxFileBytes)
              => OpenStatus(node) = "ok"
<1>1. /\ "path_rejected" # "invalid_encoding" /\ "not_found" # "invalid_encoding"
      /\ "ok" # "invalid_encoding" /\ "unsupported" # "invalid_encoding"
      /\ "too_large" # "invalid_encoding" /\ "io" # "invalid_encoding"
      /\ "path_rejected" # "ok" /\ "not_found" # "ok" /\ "unsupported" # "ok"
      /\ "too_large" # "ok" /\ "io" # "ok"
  OBVIOUS
<1>2. node \in Files => node # Loop /\ node # NoAccess /\ node # NoNode
  BY NodesAssumption DEF Nodes
<1> DEFINE large == Len(bytes[node]) > MaxFileBytes
<1>3. OpenStatus(node) = CASE node = NoNode -> "not_found"
                           [] node = Loop -> "path_rejected"
                           [] node = NoAccess -> "io"
                           [] node \notin Files -> "unsupported"
                           [] node # stat.node -> "path_rejected"
                           [] large -> "too_large"
                           [] OTHER -> "ok"
  BY Zenon DEF OpenStatus
<1> HIDE DEF large
<1>4. /\ OpenStatus(node) # "invalid_encoding"
      /\ OpenStatus(node) = "ok" => node \in Files /\ node = stat.node /\ ~ large
      /\ node \in Files /\ node = stat.node /\ ~ large => OpenStatus(node) = "ok"
  BY <1>1, <1>2, <1>3, Zenon
<1> QED BY <1>4, Zenon DEF large

\* openat gives the inode of a name exactly if it is readable and no link.
LEMMA OpenatPages ==
    ASSUME NEW d, NEW n, entries[d][n] \in Files
    PROVE  /\ entries[d][n] \notin Unreadable => Openat(d, n) = entries[d][n]
           /\ Openat(d, n) \in Files => entries[d][n] \notin Unreadable /\ Openat(d, n) = entries[d][n]
<1>1. entries[d][n] \notin Links /\ Loop \notin Files /\ NoAccess \notin Files
  BY NodesAssumption DEF Nodes
<1> QED BY <1>1, Zenon DEF Openat

-----------------------------------------------------------------------------
(* Pages: steps *)

\* What the trail depends on.
SameTrail ==
    /\ UNCHANGED <<entries, bytes, roots>>
    /\ call'.path = call.path /\ call'.tool = call.tool
    /\ call'.first = call.first /\ call'.length = call.length

LEMMA TrailStays ==
    ASSUME SameTrail
    PROVE  /\ PathNames' = PathNames /\ At' = At /\ Target' = Target /\ Wanted' = Wanted
           /\ Acceptable' <=> Acceptable
           /\ Reached' <=> Reached
<1>1. PathNames' = PathNames /\ At' = At
  BY DEF SameTrail, PathNames, At
<1>2. Target' = Target
  BY <1>1 DEF Target
<1>3. Wanted' = Wanted
  BY <1>2 DEF Wanted, SameTrail
<1>4. Acceptable' <=> Acceptable
  BY DEF Acceptable, SameTrail
<1>5. Entered(Len(PathNames) - 1)' <=> Entered(Len(PathNames) - 1)
  BY <1>1 DEF Entered, SameTrail
<1>6. FileLimit' = FileLimit
  BY DEF FileLimit, SameTrail
<1>7. Reached' <=> Reached
  BY <1>1, <1>2, <1>4, <1>5, <1>6 DEF Reached, SameTrail
<1> QED BY <1>1, <1>2, <1>3, <1>4, <1>7

LEMMA SameCall ==
    ASSUME UNCHANGED <<world, call>>
    PROVE  SameTrail
BY DEF SameTrail, world

\* What a call is sure of, in the words of the steps below.
LEMMA PagesFacts ==
    ASSUME IInv, PInv, call.tool \in Ranges
    PROVE  /\ PagesTyped /\ TreeSafe /\ CallSafe
           /\ ~ moved => OnTrail /\ InOrder
           /\ bytes \in [Files -> Seq(Byte)]
           /\ call.offset \in Nat /\ call.first \in Nat /\ call.length \in Nat
BY DEF IInv, PInv, PagesTyped, Byte

\* A refused call keeps the invariant if its offset is the first one, or the text
\* from there on is none.
LEMMA RefusePages ==
    ASSUME IInv, PInv, call.tool \in Ranges, UNCHANGED <<world, call, received>>,
           NEW status, Refuse(status), status # "ok",
           ~ moved => \/ call.offset = call.first /\ status # "invalid_encoding"
                      \/ /\ call.tool = "read_text_range"
                         /\ status \in {"invalid_range", "invalid_encoding"}
                         /\ fd = Target /\ ~ IsUtf8(Wanted)
    PROVE  PInv'
<1>1. SameTrail /\ moved' = moved /\ call' = call /\ received' = received
  BY SameCall DEF world
<1>2. pc' = "done" /\ answer'.status = status /\ fd' = fd
  BY DEF Refuse, End, Outcome, NoAnswer
<1>3. PagesTyped'
  BY <1>1, <1>2, PagesFacts DEF PagesTyped, SameTrail
<1>4. ASSUME ~ moved PROVE OnTrail' /\ InOrder'
  <2>1. OnTrail'
    BY <1>2 DEF OnTrail
  <2>2. IF call.offset = call.first THEN received = <<>> ELSE Reached /\ Assembled(received, call.offset)
    BY <1>4, PagesFacts DEF InOrder
  <2>3. Assembled(received, call.offset)' <=> Assembled(received, call.offset)
    BY <1>1, TrailStays DEF Assembled, SameTrail
  <2>4. (IF call.offset = call.first THEN received = <<>> ELSE Reached /\ Assembled(received, call.offset))'
    BY <1>1, <2>2, <2>3, TrailStays
  <2>5. ASSUME call.offset # call.first \/ status = "invalid_encoding"
        PROVE  /\ call.tool = "read_text_range"
               /\ status \in {"invalid_range", "invalid_encoding"}
               /\ fd = Target /\ ~ IsUtf8(Wanted)
    BY <1>4, <2>5
  <2>6. (call.offset # call.first \/ answer.status = "invalid_encoding"
         => /\ call.tool = "read_text_range"
            /\ answer.status \in {"invalid_range", "invalid_encoding"}
            /\ fd = Target /\ ~ IsUtf8(Wanted))'
    BY <1>1, <1>2, <2>5, TrailStays
  <2> QED BY <1>2, <2>1, <2>4, <2>6 DEF InOrder
<1> QED BY <1>1, <1>3, <1>4 DEF PInv

\* A step within a call keeps the invariant if it stays on the trail.
LEMMA MovePages ==
    ASSUME IInv, PInv, call.tool \in Ranges, UNCHANGED <<world, call, received>>,
           pc' \in {"parent", "open", "read", "verify"},
           pc' = "verify" => data' \in Seq(Byte),
           ~ moved => OnTrail'
    PROVE  PInv'
<1>1. SameTrail /\ moved' = moved /\ call' = call /\ received' = received /\ pc' # "done"
  BY SameCall DEF world
<1>2. PagesTyped'
  BY <1>1, PagesFacts DEF PagesTyped, SameTrail, Byte
<1>3. ASSUME ~ moved PROVE InOrder'
  <2>1. IF call.offset = call.first THEN received = <<>> ELSE Reached /\ Assembled(received, call.offset)
    BY <1>3, PagesFacts DEF InOrder
  <2>2. Assembled(received, call.offset)' <=> Assembled(received, call.offset)
    BY <1>1, TrailStays DEF Assembled, SameTrail
  <2>3. (IF call.offset = call.first THEN received = <<>> ELSE Reached /\ Assembled(received, call.offset))'
    BY <1>1, <2>1, <2>2, TrailStays
  <2> QED BY <1>1, <2>3 DEF InOrder
<1> QED BY <1>1, <1>2, <1>3 DEF PInv

\* The trail of a path in a safe root.
LEMMA AnchoredFacts ==
    ASSUME TreeSafe, CallSafe, ~ AnchorRefuses(call.path)
    PROVE  /\ PathNames \in Seq(Names) /\ Len(PathNames) \in Nat
           /\ At[0] = roots[AnchorRoot(call.path)]
           /\ \A i \in 1..Len(PathNames) :
                At[i] = IF At[i - 1] \in Dirs THEN entries[At[i - 1]][PathNames[i]] ELSE NoNode
<1> DEFINE top == roots[AnchorRoot(call.path)]
<1>1. top \in Dirs /\ PathNames \in Seq(Names)
  BY AnchorFacts DEF PathNames
<1>2. At = Trail(entries, top, PathNames)
  BY DEF At
<1> HIDE DEF top
<1>3. Len(PathNames) \in Nat
  BY <1>1, LenProperties
<1> QED BY <1>1, <1>2, <1>3, TrailFacts DEF top

LEMMA AtFacts ==
    ASSUME TreeSafe, CallSafe, Acceptable
    PROVE  /\ PathNames \in Seq(Names) /\ Len(PathNames) \in Nat
           /\ At[0] = roots[AnchorRoot(call.path)]
           /\ \A i \in 1..Len(PathNames) :
                At[i] = IF At[i - 1] \in Dirs THEN entries[At[i - 1]][PathNames[i]] ELSE NoNode
BY AnchoredFacts DEF Acceptable

\* Where a call stands that opens names.
LEMMA DescentFacts ==
    ASSUME TreeSafe, CallSafe, DescentPlace, fd \in Dirs \ Private
    PROVE  /\ fd = At[Taken]
           /\ PathNames \in Seq(Names) /\ Len(PathNames) \in Nat
           /\ Taken \in 0..Len(PathNames)
           /\ rest = SubSeq(PathNames, Taken + 1, Len(PathNames))
           /\ Len(rest) = Len(PathNames) - Taken
           /\ rest # <<>> =>
                /\ Taken + 1 \in 1..Len(PathNames)
                /\ rest[1] = PathNames[Taken + 1] /\ rest[1] \in Names
                /\ At[Taken + 1] = entries[fd][rest[1]]
<1>1. /\ ~ AnchorRefuses(call.path) /\ fd = At[Taken]
      /\ Taken \in 0..Len(PathNames)
      /\ rest = SubSeq(PathNames, Taken + 1, Len(PathNames))
  BY DEF DescentPlace
<1>2. rest \in Seq(Names) /\ Len(rest) \in Nat
  BY LenProperties DEF CallSafe
<1>3. PathNames \in Seq(Names) /\ Len(PathNames) \in Nat
  BY <1>1, AnchoredFacts
<1>4. Len(rest) = Len(PathNames) - Taken
  BY <1>2, <1>3 DEF Taken
<1>5. ASSUME rest # <<>>
      PROVE  /\ Taken + 1 \in 1..Len(PathNames)
             /\ rest[1] = PathNames[Taken + 1] /\ rest[1] \in Names
             /\ At[Taken + 1] = entries[fd][rest[1]]
  <2>1. Len(rest) # 0 /\ rest[1] \in Names
    BY <1>2, <1>5, EmptySeq, RestFacts
  <2> DEFINE t == Taken
  <2>2. t \in Nat /\ t + 1 \in 1..Len(PathNames)
    BY <1>1, <1>2, <1>3, <1>4, <2>1
  <2>3. rest[1] = PathNames[t + 1]
    <3> HIDE DEF t
    <3>1. rest = SubSeq(PathNames, t + 1, Len(PathNames))
      BY <1>1 DEF t
    <3> QED BY <1>3, <2>2, <3>1
  <2>4. (t + 1) - 1 = t
    BY <2>2
  <2>5. At[t + 1] = IF At[(t + 1) - 1] \in Dirs THEN entries[At[(t + 1) - 1]][PathNames[t + 1]] ELSE NoNode
    <3> HIDE DEF t
    <3> QED BY <1>1, <2>2, AnchoredFacts
  <2> QED BY <1>1, <1>2, <2>1, <2>2, <2>3, <2>4, <2>5
<1> QED BY <1>1, <1>2, <1>3, <1>4, <1>5

LEMMA PlaceFacts ==
    ASSUME IInv, PInv, call.tool \in Ranges, ~ moved, pc \in {"parent", "open"}
    PROVE  /\ Acceptable /\ Entered(Taken) /\ fd = At[Taken] /\ fd \in Dirs \ Private
           /\ PathNames \in Seq(Names) /\ Len(PathNames) \in Nat
           /\ Taken \in 0..Len(PathNames)
           /\ rest = SubSeq(PathNames, Taken + 1, Len(PathNames))
           /\ Len(rest) = Len(PathNames) - Taken
           /\ rest # <<>> =>
                /\ Taken + 1 \in 1..Len(PathNames)
                /\ rest[1] = PathNames[Taken + 1] /\ rest[1] \in Names
                /\ At[Taken + 1] = entries[fd][rest[1]]
<1>1. Acceptable /\ Entered(Taken) /\ DescentPlace
  BY PagesFacts DEF OnTrail, Acceptable, DescentPlace
<1>2. TreeSafe /\ CallSafe /\ fd \in Dirs \ Private
  BY DEF IInv, DescriptorSafe
<1> QED BY <1>1, <1>2, DescentFacts

LEMMA StartRange ==
    ASSUME IInv, PInv, call.tool \in Ranges, Start
    PROVE  PInv'
<1>1. pc = "start" /\ UNCHANGED <<world, call, received>>
  BY DEF Start
<1>2. /\ StartStatus # "invalid_encoding"
      /\ StartStatus = "ok" => Acceptable
      /\ Acceptable /\ call.offset <= FileLimit => StartStatus = "ok"
  BY PagesFacts, StartPages
<1>3. CASE StartStatus # "ok"
  <2>1. Refuse(StartStatus)
    BY <1>3 DEF Start
  <2>2. ASSUME ~ moved PROVE call.offset = call.first
    <3>1. SUFFICES ASSUME call.offset # call.first PROVE FALSE
      OBVIOUS
    <3>2. Reached /\ Assembled(received, call.offset)
      BY <2>2, <3>1, PagesFacts DEF InOrder
    <3>3. Acceptable /\ call.offset <= Len(bytes[Target]) /\ Len(bytes[Target]) <= FileLimit
      BY <3>2 DEF Reached, Assembled
    <3>4. Len(bytes[Target]) \in Nat /\ FileLimit \in Nat
      BY <3>2, PagesFacts, RangeTools, LenProperties DEF Reached
    <3>5. call.offset <= FileLimit
      BY <3>3, <3>4, PagesFacts
    <3> QED BY <1>2, <1>3, <3>3, <3>5
  <2> HIDE DEF StartStatus
  <2> QED BY <1>1, <1>2, <1>3, <2>1, <2>2, RefusePages
<1>4. CASE StartStatus = "ok"
  <2>1. /\ fd' = roots[AnchorRoot(call.path)] /\ rest' = RelativePath(call.path)
        /\ pc' = "parent"
    BY <1>4, RangeTools DEF Start
  <2>2. Acceptable
    BY <1>2, <1>4
  <2>3. PathNames \in Seq(Names) /\ Len(PathNames) \in Nat /\ At[0] = fd' /\ rest' = PathNames
    BY <2>1, <2>2, PagesFacts, AtFacts DEF PathNames
  <2>4. SameTrail
    BY <1>1, SameCall
  <2>5. /\ PathNames' = PathNames /\ At' = At /\ Acceptable'
    BY <2>2, <2>4, TrailStays
  <2>6. Taken' = 0
    BY <2>3, <2>5 DEF Taken
  <2>7. rest' = SubSeq(PathNames, 0 + 1, Len(PathNames))
    BY <2>3
  <2>8. Entered(Taken)'
    BY <2>6 DEF Entered
  <2>9. OnTrail'
    <3>1. (/\ Acceptable /\ Entered(Taken)
           /\ Taken \in 0..Len(PathNames) /\ fd = At[Taken]
           /\ rest = SubSeq(PathNames, Taken + 1, Len(PathNames)))'
      BY <2>3, <2>5, <2>6, <2>7, <2>8
    <3> QED BY <2>1, <3>1 DEF OnTrail
  <2> QED BY <1>1, <2>1, <2>9, MovePages
<1> QED BY <1>3, <1>4

LEMMA LaterPage ==
    ASSUME IInv, PInv, call.tool \in Ranges, ~ moved, call.offset # call.first
    PROVE  Reached /\ Assembled(received, call.offset)
BY PagesFacts DEF InOrder

LEMMA NamesPart ==
    ASSUME NEW s \in Seq(Names), NEW k \in Nat, k <= Len(s)
    PROVE  /\ SubSeq(s, k + 1, Len(s)) \in Seq(Names)
           /\ Len(SubSeq(s, k + 1, Len(s))) = Len(s) - k
           /\ \A i \in 1..(Len(s) - k) : SubSeq(s, k + 1, Len(s))[i] = s[k + i]
<1> DEFINE y == SubSeq(s, k + 1, Len(s))
           n == Len(s)
<1>1. n \in Nat
  BY LenProperties
<1>2. \A i \in (k + 1)..n : s[i] \in Names
  BY <1>1, ElementOfSeq
<1>3. /\ y \in Seq(Names)
      /\ Len(y) = IF k + 1 <= n THEN n - (k + 1) + 1 ELSE 0
      /\ \A i \in 1..(n - (k + 1) + 1) : y[i] = s[(k + 1) + i - 1]
  BY <1>1, <1>2, SubSeqProperties
<1>4. k <= n /\ n - (k + 1) + 1 = n - k /\ \A i \in 1..(n - k) : (k + 1) + i - 1 = k + i
  BY <1>1
<1> HIDE DEF y, n
<1>5. Len(y) = n - k
  BY <1>1, <1>3, <1>4
<1> QED BY <1>3, <1>4, <1>5 DEF y, n

\* One name less to go.
LEMMA NamesTail ==
    ASSUME NEW s \in Seq(Names), NEW t \in Nat, t + 1 \in 1..Len(s),
           NEW r, r = SubSeq(s, t + 1, Len(s))
    PROVE  Tail(r) = SubSeq(s, (t + 1) + 1, Len(s)) /\ Len(Tail(r)) = Len(s) - (t + 1)
<1> DEFINE n == Len(s)
           k == t + 1
           y == SubSeq(s, k + 1, n)
<1>1. n \in Nat /\ t <= n /\ k \in Nat /\ k <= n /\ n - k = (n - t) - 1 /\ n - t > 0
  BY LenProperties
<1>2. /\ r \in Seq(Names) /\ Len(r) = n - t
      /\ \A i \in 1..(n - t) : r[i] = s[t + i]
  BY <1>1, NamesPart
<1>3. /\ y \in Seq(Names) /\ Len(y) = n - k
      /\ \A i \in 1..(n - k) : y[i] = s[k + i]
  <2> HIDE DEF k
  <2> QED BY <1>1, NamesPart
<1> HIDE DEF y
<1>4. r # <<>>
  <2>1. Len(r) # 0
    <3> HIDE DEF n, k
    <3> QED BY <1>1, <1>2
  <2> QED BY <1>2, <2>1, EmptySeq
<1>5. /\ Tail(r) \in Seq(Names) /\ Len(Tail(r)) = n - k
      /\ \A i \in 1..(n - k) : Tail(r)[i] = r[i + 1]
  <2>1. /\ Tail(r) \in Seq(Names) /\ Len(Tail(r)) = Len(r) - 1
        /\ \A i \in 1..Len(Tail(r)) : Tail(r)[i] = r[i + 1]
    BY <1>2, <1>4, HeadTailProperties
  <2> QED BY <1>1, <1>2, <2>1
<1>6. ASSUME NEW i \in 1..(n - k) PROVE y[i] = Tail(r)[i]
  <2>1. i + 1 \in 1..(n - t) /\ t + (i + 1) = k + i
    BY <1>1
  <2> QED BY <1>2, <1>3, <1>5, <2>1
<1>7. y = Tail(r)
  BY <1>1, <1>3, <1>5, <1>6, SeqEqual
<1> QED BY <1>5, <1>7 DEF y

LEMMA ParentRange ==
    ASSUME IInv, PInv, call.tool \in Ranges, Parent
    PROVE  PInv'
<1> DEFINE outcome == OpenMetadataParent(fd, rest[1])
<1>1. pc = "parent" /\ Len(rest) > 1 /\ UNCHANGED <<world, call, received>> /\ rest # <<>>
  <2>1. pc = "parent" /\ Len(rest) > 1 /\ UNCHANGED <<world, call, received>>
    BY DEF Parent
  <2> QED BY <2>1
<1>2. CASE outcome # "ok"
  <2>1. Refuse(outcome)
    BY <1>2, RangeTools DEF Parent
  <2>2. outcome # "invalid_encoding"
    BY ParentPages
  <2>3. ASSUME ~ moved PROVE call.offset = call.first
    <3>1. SUFFICES ASSUME call.offset # call.first PROVE FALSE
      OBVIOUS
    <3>2. Entered(Len(PathNames) - 1)
      BY <2>3, <3>1, LaterPage DEF Reached
    <3> DEFINE t == Taken
    <3>3. /\ Len(PathNames) \in Nat /\ t \in Nat /\ Len(rest) = Len(PathNames) - t
          /\ fd = At[t] /\ At[t + 1] = entries[fd][rest[1]] /\ rest[1] \in Names
      BY <1>1, <2>3, PlaceFacts
    <3> HIDE DEF t
    <3>4. t + 1 \in 1..(Len(PathNames) - 1) /\ (t + 1) - 1 = t
      BY <1>1, <3>3
    <3>5. At[t + 1] \in Dirs /\ \A q \in Quarantines : entries[At[t]][q] # At[t + 1]
      BY <3>2, <3>4 DEF Entered
    <3>6. rest[1] \notin Reserved
      BY <3>3, NodesAssumption
    <3>7. entries[fd][rest[1]] \in Dirs /\ entries[fd][rest[1]] \notin QuarantineIdentities(fd)
      BY <3>3, <3>5 DEF QuarantineIdentities
    <3> QED BY <1>2, <3>6, <3>7, ParentPages
  <2> HIDE DEF outcome
  <2> QED BY <1>1, <1>2, <2>1, <2>2, <2>3, RefusePages
<1>3. CASE outcome = "ok"
  <2>1. fd' = entries[fd][rest[1]] /\ rest' = Tail(rest) /\ UNCHANGED <<pc>>
    BY <1>3 DEF Parent
  <2>2. entries[fd][rest[1]] \in Dirs /\ entries[fd][rest[1]] \notin QuarantineIdentities(fd)
    BY <1>3, ParentOk
  <2>3. ASSUME ~ moved PROVE OnTrail'
    <3> DEFINE t == Taken
               n == Len(PathNames)
    <3>1. /\ Acceptable /\ Entered(t) /\ PathNames \in Seq(Names)
          /\ rest = SubSeq(PathNames, t + 1, n)
          /\ fd = At[t] /\ At[t + 1] = entries[fd][rest[1]]
      BY <1>1, <2>3, PlaceFacts
    <3>2. n \in Nat /\ t \in Nat /\ Len(rest) = n - t /\ t + 1 \in 1..n
      BY <1>1, <2>3, PlaceFacts
    <3>3. SameTrail
      BY <1>1, SameCall
    <3>4. PathNames' = PathNames /\ At' = At /\ Acceptable'
      BY <3>1, <3>3, TrailStays
    <3>5. Tail(rest) = SubSeq(PathNames, (t + 1) + 1, n) /\ Len(Tail(rest)) = n - (t + 1)
      <4> HIDE DEF t
      <4> QED BY <3>1, <3>2, NamesTail
    <3>6. Taken' = t + 1
      <4>1. Taken' = n - Len(Tail(rest))
        BY <2>1, <3>4 DEF Taken
      <4>2. Taken' = n - (n - (t + 1)) /\ n \in Nat /\ t \in Nat
        BY <3>2, <3>5, <4>1
      <4> HIDE DEF t, n
      <4> QED BY <4>2
    <3>7. rest' = SubSeq(PathNames, (t + 1) + 1, n)
      BY <2>1, <3>5
    <3> HIDE DEF t, n
    <3>8. Entered(t + 1)
      <4>1. ASSUME NEW i \in 1..(t + 1)
            PROVE  At[i] \in Dirs /\ \A q \in Quarantines : entries[At[i - 1]][q] # At[i]
        <5>1. CASE i \in 1..t
          BY <3>1, <5>1 DEF Entered
        <5>2. CASE i = t + 1
          <6>1. i - 1 = t
            BY <3>2, <5>2
          <6>2. entries[fd][rest[1]] # NoNode
            BY <2>2, NodesAssumption DEF Nodes
          <6> QED BY <2>2, <3>1, <5>2, <6>1, <6>2 DEF QuarantineIdentities
        <5> QED BY <3>2, <5>1, <5>2
      <4> QED BY <4>1 DEF Entered
    <3>9. Entered(Taken)'
      BY <3>3, <3>4, <3>6, <3>8 DEF Entered, SameTrail
    <3>10. (/\ Acceptable /\ Entered(Taken)
            /\ Taken \in 0..Len(PathNames) /\ fd = At[Taken]
            /\ rest = SubSeq(PathNames, Taken + 1, Len(PathNames)))'
      BY <2>1, <3>1, <3>2, <3>4, <3>6, <3>7, <3>9 DEF n
    <3> QED BY <1>1, <2>1, <3>10 DEF OnTrail
  <2> QED BY <1>1, <2>1, <2>3, MovePages
<1> QED BY <1>2, <1>3

LEMMA StatRange ==
    ASSUME IInv, PInv, call.tool \in Ranges, StatFile
    PROVE  PInv'
<1> DEFINE node == IF rest = <<>> THEN NoNode ELSE entries[fd][rest[1]]
<1>1. pc = "parent" /\ Len(rest) <= 1 /\ UNCHANGED <<world, call, received>>
  BY DEF StatFile
<1>2. ASSUME ~ moved, rest # <<>>
      PROVE  Len(rest) = 1 /\ Taken = Len(PathNames) - 1 /\ node = Target /\ Taken \in Nat
  <2>1. rest \in Seq(Names)
    BY DEF IInv, CallSafe
  <2>2. Len(rest) \in Nat /\ Len(rest) # 0
    BY <1>2, <2>1, EmptySeq, LenProperties
  <2>3. Len(rest) = 1
    <3> DEFINE k == Len(rest)
    <3>1. k \in Nat /\ k # 0 /\ k <= 1
      BY <1>1, <2>2
    <3> HIDE DEF k
    <3>2. k = 1
      BY <3>1
    <3> QED BY <3>2 DEF k
  <2> DEFINE t == Taken
             n == Len(PathNames)
  <2>4. n \in Nat /\ t \in Nat /\ 1 = n - t
    BY <1>1, <1>2, <2>3, PlaceFacts
  <2>5. At[t + 1] = entries[fd][rest[1]]
    BY <1>1, <1>2, PlaceFacts
  <2> HIDE DEF t, n
  <2>6. t + 1 = n /\ t = n - 1
    BY <2>4
  <2> QED BY <1>2, <2>3, <2>4, <2>5, <2>6 DEF Target, t, n
<1>3. /\ StatStatus(node) # "invalid_encoding"
      /\ StatStatus(node) = "ok" => rest # <<>>
      /\ rest # <<>> /\ node \in Files /\ ~ (Len(bytes[node]) > FileLimit) => StatStatus(node) = "ok"
  <2> HIDE DEF node
  <2> QED BY StatPages, RangeFileLimit
<1>4. CASE StatStatus(node) # "ok"
  <2>1. Refuse(StatStatus(node))
    BY <1>4 DEF StatFile
  <2>2. ASSUME ~ moved PROVE call.offset = call.first
    <3>1. SUFFICES ASSUME call.offset # call.first PROVE FALSE
      OBVIOUS
    <3>2. /\ PathNames # <<>> /\ Entered(Len(PathNames) - 1) /\ Target \in Files
          /\ Len(bytes[Target]) <= FileLimit
      BY <2>2, <3>1, LaterPage DEF Reached
    <3>3. ~ (Len(bytes[Target]) > FileLimit)
      <4>1. Len(bytes[Target]) \in Nat /\ FileLimit \in Nat
        BY <3>2, PagesFacts, RangeTools, LenProperties
      <4> QED BY <3>2, <4>1
    <3>4. rest # <<>>
      <4>1. SUFFICES ASSUME rest = <<>> PROVE FALSE
        OBVIOUS
      <4> DEFINE t == Taken
                 n == Len(PathNames)
      <4>2. n \in Nat /\ t = n /\ fd = At[t] /\ fd \in Dirs
        BY <1>1, <2>2, <4>1, PlaceFacts
      <4>3. fd = Target
        BY <4>2 DEF Target
      <4> QED BY <3>2, <4>2, <4>3, NodesAssumption
    <3>5. node = Target
      BY <1>2, <2>2, <3>4
    <3> HIDE DEF node
    <3> QED BY <1>3, <1>4, <3>2, <3>3, <3>4, <3>5
  <2> HIDE DEF node
  <2> QED BY <1>1, <1>3, <1>4, <2>1, <2>2, RefusePages
<1>5. CASE StatStatus(node) = "ok"
  <2>1. stat'.node = node /\ pc' = "open" /\ UNCHANGED <<fd, rest>>
    BY <1>5 DEF StatFile
  <2>2. ASSUME ~ moved PROVE OnTrail'
    <3>1. Len(rest) = 1 /\ node = Target
      BY <1>2, <1>3, <1>5, <2>2
    <3>2. SameTrail
      BY <1>1, SameCall
    <3>3. PathNames' = PathNames /\ At' = At /\ (Acceptable' <=> Acceptable) /\ Target' = Target
      BY <3>2, TrailStays
    <3>4. /\ Acceptable /\ Entered(Taken)
          /\ Taken \in 0..Len(PathNames) /\ fd = At[Taken]
          /\ rest = SubSeq(PathNames, Taken + 1, Len(PathNames))
      BY <1>1, <2>2, PlaceFacts
    <3>5. Taken' = Taken
      BY <2>1, <3>3 DEF Taken
    <3>6. Entered(Taken)'
      BY <3>2, <3>3, <3>4, <3>5 DEF Entered, SameTrail
    <3>7. (/\ Acceptable /\ Entered(Taken)
           /\ Taken \in 0..Len(PathNames) /\ fd = At[Taken]
           /\ rest = SubSeq(PathNames, Taken + 1, Len(PathNames)))'
      BY <2>1, <3>3, <3>4, <3>5, <3>6
    <3>8. (Len(rest) = 1 /\ stat.node = Target)'
      <4> HIDE DEF node
      <4> QED BY <2>1, <3>1, <3>3
    <3> QED BY <2>1, <3>7, <3>8 DEF OnTrail
  <2> QED BY <1>1, <2>1, <2>2, MovePages
<1> QED BY <1>4, <1>5

LEMMA OpenRange ==
    ASSUME IInv, PInv, call.tool \in Ranges, OpenVerifiedRegularFile
    PROVE  PInv'
<1> DEFINE node == Openat(fd, rest[1])
<1>1. pc = "open" /\ UNCHANGED <<world, call, received>>
  BY DEF OpenVerifiedRegularFile
<1>2. /\ OpenStatus(node) # "invalid_encoding"
      /\ OpenStatus(node) = "ok" =>
           node \in Files /\ node = stat.node /\ ~ (Len(bytes[node]) > FileLimit)
      /\ node \in Files /\ node = stat.node /\ ~ (Len(bytes[node]) > FileLimit)
           => OpenStatus(node) = "ok"
  <2> HIDE DEF node
  <2> QED BY OpenPages, RangeFileLimit
<1>3. ASSUME ~ moved
      PROVE  /\ stat.node = Target /\ Target = entries[fd][rest[1]]
             /\ PathNames # <<>> /\ Entered(Len(PathNames) - 1) /\ Acceptable
  <2>1. Len(rest) = 1 /\ stat.node = Target
    BY <1>1, <1>3, PagesFacts DEF OnTrail
  <2>2. rest # <<>>
    BY <1>1 DEF IInv, DescriptorSafe
  <2> DEFINE t == Taken
             n == Len(PathNames)
  <2>3. n \in Nat /\ t \in Nat /\ 1 = n - t
    BY <1>1, <1>3, <2>1, PlaceFacts
  <2>4. At[t + 1] = entries[fd][rest[1]] /\ Entered(t) /\ Acceptable
    BY <1>1, <1>3, <2>2, PlaceFacts
  <2> HIDE DEF t, n
  <2>5. t + 1 = n /\ t = n - 1 /\ n # 0
    BY <2>3
  <2>6. At[n] = entries[fd][rest[1]] /\ Entered(n - 1)
    BY <2>4, <2>5
  <2>7. PathNames # <<>>
    BY <2>5 DEF n
  <2> QED BY <2>1, <2>4, <2>6, <2>7 DEF Target, n
<1>4. CASE OpenStatus(node) # "ok"
  <2>1. Refuse(OpenStatus(node))
    BY <1>4 DEF OpenVerifiedRegularFile
  <2>2. ASSUME ~ moved PROVE call.offset = call.first
    <3>1. SUFFICES ASSUME call.offset # call.first PROVE FALSE
      OBVIOUS
    <3>2. Target \in Files \ Unreadable /\ Len(bytes[Target]) <= FileLimit
      BY <2>2, <3>1, LaterPage DEF Reached
    <3>3. ~ (Len(bytes[Target]) > FileLimit)
      <4>1. Len(bytes[Target]) \in Nat /\ FileLimit \in Nat
        BY <3>2, PagesFacts, RangeTools, LenProperties
      <4> QED BY <3>2, <4>1
    <3>4. node = Target /\ stat.node = Target
      BY <1>3, <2>2, <3>2, OpenatPages
    <3> HIDE DEF node
    <3> QED BY <1>2, <1>4, <3>2, <3>3, <3>4
  <2> HIDE DEF node
  <2> QED BY <1>1, <1>2, <1>4, <2>1, <2>2, RefusePages
<1>5. CASE OpenStatus(node) = "ok"
  <2>1. fd' = node /\ stat'.size = Len(bytes[node]) /\ pc' = "read"
    BY <1>5 DEF OpenVerifiedRegularFile
  <2>2. ASSUME ~ moved PROVE OnTrail'
    <3>1. node \in Files /\ node = Target /\ ~ (Len(bytes[node]) > FileLimit)
      BY <1>2, <1>3, <1>5, <2>2
    <3>2. Target \in Files \ Unreadable
      BY <1>3, <2>2, <3>1, OpenatPages
    <3> HIDE DEF node
    <3>3. Len(bytes[Target]) <= FileLimit
      <4>1. Len(bytes[Target]) \in Nat /\ FileLimit \in Nat
        BY <3>2, PagesFacts, RangeTools, LenProperties
      <4> QED BY <3>1, <4>1
    <3>4. Reached
      BY <1>3, <2>2, <3>2, <3>3 DEF Reached
    <3>5. SameTrail
      BY <1>1, SameCall
    <3>6. Reached' /\ Target' = Target /\ bytes' = bytes
      BY <3>4, <3>5, TrailStays DEF SameTrail
    <3>7. fd' = Target' /\ stat'.size = Len(bytes'[Target'])
      BY <2>1, <3>1, <3>6
    <3> QED BY <2>1, <3>6, <3>7 DEF OnTrail
  <2> HIDE DEF node
  <2> QED BY <1>1, <2>1, <2>2, MovePages
<1> QED BY <1>4, <1>5

\* The end of what one read brings.
ReadEnd(size) == IF call.offset + call.length < size THEN call.offset + call.length ELSE size

LEMMA ReadAtFacts ==
    ASSUME bytes \in [Files -> Seq(Byte)], fd \in Files,
           call.offset \in Nat, call.length \in Nat, call.offset <= Len(bytes[fd])
    PROVE  /\ ReadEnd(Len(bytes[fd])) \in Nat /\ call.offset <= ReadEnd(Len(bytes[fd]))
           /\ ReadEnd(Len(bytes[fd])) <= Len(bytes[fd])
           /\ ReadAt(call.offset, call.length)
                = SubSeq(bytes[fd], call.offset + 1, ReadEnd(Len(bytes[fd])))
           /\ ReadAt(call.offset, call.length) \in Seq(Byte)
           /\ Len(ReadAt(call.offset, call.length)) = ReadEnd(Len(bytes[fd])) - call.offset
<1> DEFINE b == bytes[fd]
           e == ReadEnd(Len(b))
<1>1. b \in Seq(Byte) /\ Len(b) \in Nat
  BY LenProperties
<1>2. e \in Nat /\ call.offset <= e /\ e <= Len(b)
  BY <1>1 DEF ReadEnd
<1>3. ReadAt(call.offset, call.length) = SubSeq(b, call.offset + 1, e)
  BY DEF ReadAt, ReadEnd
<1> HIDE DEF b, e
<1>4. SubSeq(b, call.offset + 1, e) \in Seq(Byte) /\ Len(SubSeq(b, call.offset + 1, e)) = e - call.offset
  BY <1>1, <1>2, Part
<1> QED BY <1>2, <1>3, <1>4 DEF b, e

LEMMA ReadRangePages ==
    ASSUME IInv, PInv, call.tool \in Ranges, ReadRange
    PROVE  PInv'
<1>1. pc = "read" /\ UNCHANGED <<world, call, received>> /\ fd \in Files
  BY DEF ReadRange, IInv, DescriptorSafe
<1>2. ASSUME ~ moved
      PROVE  Reached /\ fd = Target /\ stat.size = Len(bytes[Target])
  BY <1>1, <1>2, PagesFacts DEF OnTrail
<1>3. CASE call.offset > stat.size /\ Refuse("invalid_range")
  <2>1. ASSUME ~ moved PROVE call.offset = call.first
    <3>1. SUFFICES ASSUME call.offset # call.first PROVE FALSE
      OBVIOUS
    <3>2. call.offset <= Len(bytes[Target])
      BY <2>1, <3>1, LaterPage DEF Assembled
    <3>3. Len(bytes[Target]) \in Nat /\ call.offset \in Nat /\ stat.size = Len(bytes[Target])
      BY <1>1, <1>2, <2>1, PagesFacts, LenProperties
    <3> QED BY <1>3, <3>2, <3>3
  <2>2. "invalid_range" # "ok" /\ "invalid_range" # "invalid_encoding"
    OBVIOUS
  <2> QED BY <1>1, <1>3, <2>1, <2>2, RefusePages
<1>4. CASE /\ call.offset <= stat.size
           /\ data' = ReadAt(call.offset, call.length)
           /\ pc' = "verify" /\ UNCHANGED <<fd, stat>>
  <2>1. data' \in Seq(Byte)
    <3>1. CASE call.offset <= Len(bytes[fd])
      BY <1>1, <1>4, <3>1, PagesFacts, ReadAtFacts
    <3>2. CASE ~ (call.offset <= Len(bytes[fd]))
      <4> DEFINE b == bytes[fd]
                 e == ReadEnd(Len(b))
      <4>1. b \in Seq(Byte) /\ Len(b) \in Nat /\ call.offset \in Nat /\ call.length \in Nat
        BY <1>1, PagesFacts, LenProperties
      <4>2. e = Len(b) /\ Len(b) < call.offset + 1
        BY <3>2, <4>1 DEF ReadEnd
      <4>3. data' = SubSeq(b, call.offset + 1, e)
        BY <1>4 DEF ReadAt, ReadEnd
      <4>4. SubSeq(b, call.offset + 1, e) = <<>>
        <5> HIDE DEF b, e
        <5> QED BY <4>1, <4>2, SubSeqProperties
      <4> HIDE DEF b, e
      <4>5. data' = <<>>
        BY <4>3, <4>4
      <4> QED BY <4>5
    <3> QED BY <3>1, <3>2
  <2>2. ASSUME ~ moved PROVE OnTrail'
    <3>1. SameTrail
      BY <1>1, SameCall
    <3>2. (Reached' <=> Reached) /\ Target' = Target /\ bytes' = bytes /\ call' = call
      BY <1>1, <3>1, TrailStays DEF SameTrail
    <3>3. ReadAt(call.offset, call.length)' = ReadAt(call.offset, call.length)
      BY <1>4, <3>2 DEF ReadAt
    <3>4. (Reached /\ fd = Target /\ stat.size = Len(bytes[Target]))'
      BY <1>2, <1>4, <2>2, <3>2
    <3>5. (call.offset <= stat.size /\ data = ReadAt(call.offset, call.length))'
      BY <1>4, <3>2, <3>3
    <3> QED BY <1>4, <3>4, <3>5 DEF OnTrail
  <2> QED BY <1>1, <1>4, <2>1, <2>2, MovePages
<1> QED BY <1>3, <1>4 DEF ReadRange

LEMMA RangeLengths ==
    /\ MIN_TEXT_RANGE_BYTES \in Nat /\ MAX_TEXT_RANGE_BYTES \in Nat
    /\ MAX_BINARY_RANGE_BYTES \in Nat /\ MIN_TEXT_RANGE_BYTES >= 4
BY CeilingsAssumption

\* Before a page is returned, what is received and read are adjacent parts of the file.
LEMMA VerifyFacts ==
    ASSUME IInv, PInv, call.tool \in Ranges, ~ moved, pc = "verify"
    PROVE  LET b == bytes[Target]
               o == call.offset
               f == call.first
               e == ReadEnd(Len(b))
           IN  /\ Reached /\ fd = Target /\ stat.size = Len(b) /\ ~ ChangedDuringRead
               /\ b \in Seq(Byte) /\ Len(b) \in Nat /\ f \in Nat /\ o \in Nat /\ e \in Nat
               /\ f <= o /\ o <= e /\ e <= Len(b)
               /\ data = SubSeq(b, o + 1, e) /\ data \in Seq(Byte) /\ Len(data) = e - o
               /\ received = SubSeq(b, f + 1, o)
               /\ Wanted = SubSeq(b, f + 1, Len(b))
               /\ call.tool = "read_text_range" => Utf8Run(Wanted)[o - f] = Whole
               /\ call.length \in Nat /\ call.length >= 1
               /\ call.tool = "read_text_range" => call.length >= 4
<1> DEFINE b == bytes[Target]
           o == call.offset
           f == call.first
           e == ReadEnd(Len(b))
<1>1. /\ Reached /\ fd = Target /\ stat.size = Len(b) /\ call.offset <= stat.size
      /\ data = ReadAt(call.offset, call.length)
  BY PagesFacts DEF OnTrail
<1>2. fd \in Files /\ b = bytes[fd]
  BY <1>1 DEF IInv, DescriptorSafe
<1>3. b \in Seq(Byte) /\ Len(b) \in Nat /\ f \in Nat /\ o \in Nat /\ call.length \in Nat
  BY <1>2, PagesFacts, LenProperties
<1>4. e \in Nat /\ o <= e /\ e <= Len(b) /\ data = SubSeq(b, o + 1, e)
      /\ data \in Seq(Byte) /\ Len(data) = e - o
  BY <1>1, <1>2, <1>3, PagesFacts, ReadAtFacts
<1>5. ~ ChangedDuringRead
  BY <1>1, <1>2 DEF ChangedDuringRead
<1>6. b = bytes[Target] /\ o = call.offset /\ f = call.first
  OBVIOUS
<1> HIDE DEF b, o, f, e
<1>7. f <= Len(b) => Wanted = SubSeq(b, f + 1, Len(b)) /\ Wanted \in Seq(Byte)
  <2>1. CASE f <= Len(b)
    <3>1. SubSeq(b, f + 1, Len(b)) \in Seq(Byte)
      BY <1>3, <2>1, Part
    <3> QED BY <1>6, <3>1 DEF Wanted
  <2> QED BY <2>1
<1>8. f <= o /\ received = SubSeq(b, f + 1, o)
  <2>1. CASE o = f
    <3>1. received = <<>>
      BY <1>6, <2>1, PagesFacts DEF InOrder
    <3>2. SubSeq(b, f + 1, o) = <<>>
      BY <1>3, <2>1, SubSeqProperties
    <3> QED BY <1>3, <2>1, <3>1, <3>2
  <2>2. CASE o # f
    <3>1. Assembled(received, call.offset)
      BY <1>6, <2>2, LaterPage
    <3> QED BY <1>3, <1>6, <3>1 DEF Assembled
  <2> QED BY <2>1, <2>2
<1>9. f <= Len(b)
  BY <1>3, <1>4, <1>8
<1>10. ASSUME call.tool = "read_text_range" PROVE Utf8Run(Wanted)[o - f] = Whole
  <2>1. CASE o = f
    <3>1. o - f = 0 /\ Wanted \in Seq(Byte)
      BY <1>3, <1>7, <1>9, <2>1
    <3> QED BY <3>1, RunFacts
  <2>2. CASE o # f
    <3>1. Assembled(received, call.offset)
      BY <1>6, <2>2, LaterPage
    <3> QED BY <1>6, <1>10, <3>1 DEF Assembled
  <2> QED BY <2>1, <2>2
<1>11. call.length >= 1 /\ (call.tool = "read_text_range" => call.length >= 4)
  <2>1. Acceptable
    BY <1>1 DEF Reached
  <2>2. CASE call.tool = "read_text_range"
    <3>1. call.length \in MIN_TEXT_RANGE_BYTES..MAX_TEXT_RANGE_BYTES
      BY <2>1, <2>2 DEF Acceptable
    <3> QED BY <1>3, <3>1, RangeLengths
  <2>3. CASE call.tool # "read_text_range"
    <3>1. call.length \in 1..MAX_BINARY_RANGE_BYTES
      BY <2>1, <2>3 DEF Acceptable
    <3> QED BY <1>3, <2>3, <3>1, RangeLengths
  <2> QED BY <2>2, <2>3
<1> QED BY <1>1, <1>3, <1>4, <1>5, <1>7, <1>8, <1>9, <1>10, <1>11 DEF b, o, f, e

\* A page keeps the invariant if it brings what follows and, unless it is the
\* last, something.
LEMMA PagePages ==
    ASSUME IInv, PInv, call.tool \in Ranges, pc = "verify", UNCHANGED <<world, call, received>>,
           ~ ChangedDuringRead, NEW content, NEW size \in Nat, Page(content, size),
           ~ moved => /\ Assembled(received \o Content(call.tool, content), call.offset + size)
                      /\ call.offset + size >= stat.size \/ size > 0
    PROVE  PInv'
<1>1. SameTrail /\ moved' = moved /\ call' = call /\ received' = received /\ bytes' = bytes
  BY SameCall DEF world
<1>2. /\ pc' = "done" /\ fd' = fd /\ answer'.status = "ok" /\ answer'.data = content
      /\ answer'.next = call.offset + size
      /\ answer'.eof = (call.offset + size >= stat.size)
  BY DEF Page, End
<1>3. call.offset \in Nat /\ call.offset + size \in Nat
  BY PagesFacts
<1>4. stat.size = Len(bytes[fd])
  BY DEF ChangedDuringRead
<1>5. (answer.next \in Nat /\ (answer.eof <=> answer.next >= Len(bytes[fd])))'
  BY <1>1, <1>2, <1>3, <1>4
<1>6. PagesTyped'
  BY <1>1, <1>2, <1>5, PagesFacts DEF PagesTyped
<1>7. ASSUME ~ moved PROVE OnTrail' /\ InOrder'
  <2>1. OnTrail'
    BY <1>2 DEF OnTrail
  <2>2. IF call.offset = call.first THEN received = <<>> ELSE Reached /\ Assembled(received, call.offset)
    BY <1>7, PagesFacts DEF InOrder
  <2>3. Assembled(received, call.offset)' <=> Assembled(received, call.offset)
    BY <1>1, TrailStays DEF Assembled, SameTrail
  <2>4. (IF call.offset = call.first THEN received = <<>> ELSE Reached /\ Assembled(received, call.offset))'
    BY <1>1, <2>2, <2>3, TrailStays
  <2>5. Reached /\ fd = Target
    BY <1>7, PagesFacts DEF OnTrail
  <2>6. (Reached /\ fd = Target)'
    BY <1>1, <1>2, <2>5, TrailStays
  <2> DEFINE got == received \o Content(call.tool, content)
             upto == call.offset + size
  <2>7. Assembled(got, upto)
    BY <1>7
  <2>8. (received \o Content(call.tool, answer.data))' = got /\ answer'.next = upto
    BY <1>1, <1>2
  <2>9. Assembled(received \o Content(call.tool, answer.data), answer.next)'
    <3> HIDE DEF got, upto
    <3> QED BY <1>1, <2>7, <2>8, TrailStays DEF Assembled, SameTrail
  <2>10. (answer.eof \/ answer.next > call.offset)'
    <3>1. CASE call.offset + size >= stat.size
      BY <1>2, <3>1
    <3>2. CASE size > 0
      <4>1. call.offset + size > call.offset
        BY <1>3, <3>2
      <4> QED BY <1>1, <1>2, <4>1
    <3> QED BY <1>7, <3>1, <3>2
  <2> QED BY <1>2, <2>1, <2>4, <2>6, <2>9, <2>10 DEF InOrder
<1> QED BY <1>1, <1>6, <1>7 DEF PInv

LEMMA BinaryPages ==
    ASSUME IInv, PInv, call.tool \in Ranges, ReadVerifiedBinaryRange
    PROVE  PInv'
<1>1. pc = "verify" /\ call.tool = "read_binary_range" /\ UNCHANGED <<world, call, received>>
  BY DEF ReadVerifiedBinaryRange
<1>2. data \in Seq(Byte) /\ Len(data) \in Nat
  BY <1>1, PagesFacts, LenProperties DEF PagesTyped, Byte
<1>3. CASE ChangedDuringRead /\ Refuse("changed_during_read")
  <2>1. moved
    <3>1. SUFFICES ASSUME ~ moved PROVE FALSE
      OBVIOUS
    <3>2. ~ ChangedDuringRead
      BY <1>1, <3>1, VerifyFacts
    <3> QED BY <1>3, <3>2
  <2>2. "changed_during_read" # "ok"
    OBVIOUS
  <2> QED BY <1>1, <1>3, <2>1, <2>2, RefusePages
<1>4. CASE ~ ChangedDuringRead /\ Page(EncodeBase64(data), Len(data))
  <2>1. Content(call.tool, EncodeBase64(data)) = data
    <3>1. call.tool # "read_text_range"
      BY <1>1
    <3>2. DecodeBase64(EncodeBase64(data)) = data
      BY <1>2, Base64RoundTrip
    <3> QED BY <3>1, <3>2 DEF Content
  <2>2. ASSUME ~ moved
        PROVE  /\ Assembled(received \o data, call.offset + Len(data))
               /\ call.offset + Len(data) >= stat.size \/ Len(data) > 0
    <3> DEFINE b == bytes[Target]
               o == call.offset
               f == call.first
               e == ReadEnd(Len(b))
    <3>1. /\ stat.size = Len(b)
          /\ b \in Seq(Byte) /\ Len(b) \in Nat /\ f \in Nat /\ o \in Nat /\ e \in Nat
          /\ f <= o /\ o <= e /\ e <= Len(b)
          /\ data = SubSeq(b, o + 1, e) /\ Len(data) = e - o
          /\ received = SubSeq(b, f + 1, o)
          /\ call.length \in Nat /\ call.length >= 1
      BY <1>1, <2>2, VerifyFacts
    <3>2. received \o data = SubSeq(b, f + 1, e)
      <4> HIDE DEF b, o, f, e
      <4> QED BY <3>1, PartsJoin
    <3>3. o + Len(data) = e /\ e \in f..Len(b)
      <4> HIDE DEF b, o, f, e
      <4> QED BY <3>1
    <3>4. Assembled(received \o data, e)
      <4> HIDE DEF e
      <4> QED BY <1>1, <3>2, <3>3 DEF Assembled
    <3>5. e >= Len(b) \/ e > o
      <4>1. e = IF o + call.length < Len(b) THEN o + call.length ELSE Len(b)
        BY DEF ReadEnd
      <4> HIDE DEF b, o, f, e
      <4> QED BY <3>1, <4>1
    <3>6. e >= stat.size \/ Len(data) > 0
      <4> HIDE DEF b, o, f, e
      <4> QED BY <3>1, <3>5
    <3> QED BY <3>3, <3>4, <3>6
  <2> QED BY <1>1, <1>2, <1>4, <2>1, <2>2, PagePages
<1> QED BY <1>3, <1>4 DEF ReadVerifiedBinaryRange

\* read_verified_text_range: status and guards.
LEMMA TextStatusFacts ==
    /\ TextRangeStatus \in {"changed_during_read", "invalid_range", "invalid_encoding", "ok"}
    /\ TextRangeStatus = "changed_during_read" => ChangedDuringRead
    /\ TextRangeStatus = "invalid_range" => data # <<>> /\ IsContinuation(data[1])
    /\ TextRangeStatus = "invalid_encoding" =>
         ~ IsUtf8(data) /\ ~ (EndsWithinCodePoint(data) /\ call.offset + Len(data) < stat.size)
    /\ TextRangeStatus = "ok" =>
         /\ ~ ChangedDuringRead
         /\ IsUtf8(data) \/ (EndsWithinCodePoint(data) /\ call.offset + Len(data) < stat.size)
<1> DEFINE deferred == EndsWithinCodePoint(data) /\ call.offset + Len(data) < stat.size
           within == data # <<>> /\ IsContinuation(data[1])
           invalid == ~ IsUtf8(data) /\ ~ deferred
<1>1. TextRangeStatus = CASE ChangedDuringRead -> "changed_during_read"
                          [] within -> "invalid_range"
                          [] invalid -> "invalid_encoding"
                          [] OTHER -> "ok"
  BY Zenon DEF TextRangeStatus
<1>2. /\ "changed_during_read" # "ok" /\ "invalid_range" # "ok" /\ "invalid_encoding" # "ok"
      /\ "changed_during_read" # "invalid_range" /\ "changed_during_read" # "invalid_encoding"
      /\ "invalid_range" # "invalid_encoding"
  OBVIOUS
<1> DEFINE changed == ChangedDuringRead
<1>3. /\ TextRangeStatus \in {"changed_during_read", "invalid_range", "invalid_encoding", "ok"}
      /\ TextRangeStatus = "changed_during_read" => changed
      /\ TextRangeStatus = "invalid_range" => within
      /\ TextRangeStatus = "invalid_encoding" => invalid
      /\ TextRangeStatus = "ok" => ~ changed /\ ~ invalid
  <2> HIDE DEF within, invalid, changed
  <2> QED BY <1>1, <1>2, Zenon DEF changed
<1> QED BY <1>3, Zenon

\* A continuation byte begins no code point.
LEMMA ContinuationBroken ==
    ASSUME NEW z \in Seq(Byte), z # <<>>, IsContinuation(z[1])
    PROVE  1 <= Len(z) /\ Utf8Run(z)[1] = Broken
<1>1. Len(z) \in Nat /\ Len(z) # 0
  BY EmptySeq, LenProperties
<1>2. 1 \in 1..Len(z) /\ z[1] \in Byte
  BY <1>1, ElementOfSeq
<1>3. z[1] \in 128..191
  <2> DEFINE c == z[1]
  <2>1. c \in 0..255 /\ c \div 64 = 2
    BY <1>2 DEF IsContinuation, Byte
  <2> HIDE DEF c
  <2>2. c \in 128..191
    BY <2>1
  <2> QED BY <2>2 DEF c
<1>4. Utf8Run(z)[1] = Utf8Step(Utf8Run(z)[0], z[1]) /\ Utf8Run(z)[0] = Whole
  <2>1. 1 - 1 = 0
    OBVIOUS
  <2> QED BY <1>2, <2>1, RunFacts
<1>5. Utf8Step(Whole, z[1]) = Lead(z[1])
  BY DEF Utf8Step
<1>6. Lead(z[1]) = Broken
  <2> DEFINE c == z[1]
  <2>1. c \in 128..191
    BY <1>3
  <2> HIDE DEF c
  <2>2. c \notin 0..127 /\ c \notin 194..223 /\ c \notin 224..239 /\ c \notin 240..244
    BY <2>1
  <2>3. Lead(c) = Broken
    BY <2>2, Zenon DEF Lead
  <2> QED BY <2>3 DEF c
<1> QED BY <1>1, <1>4, <1>5, <1>6

\* What a read from o brings of a text that is wanted from f on, where a code point begins.
TextPart(b, f, o, size, x) ==
    /\ b \in Seq(Byte) /\ f \in Nat /\ o \in f..Len(b) /\ size \in Nat /\ size >= 4
    /\ x = SubSeq(b, o + 1, IF o + size < Len(b) THEN o + size ELSE Len(b))
    /\ Utf8Run(SubSeq(b, f + 1, Len(b)))[o - f] = Whole

LEMMA TextPartRun ==
    ASSUME NEW b, NEW f, NEW o, NEW size, NEW x, TextPart(b, f, o, size, x)
    PROVE  LET w == SubSeq(b, f + 1, Len(b))
           IN  /\ b \in Seq(Byte) /\ Len(b) \in Nat /\ f \in Nat /\ o \in Nat /\ f <= o
               /\ x \in Seq(Byte) /\ Len(x) \in Nat /\ o + Len(x) <= Len(b)
               /\ o + Len(x) < Len(b) => Len(x) >= 4
               /\ Len(x) = 0 => o = Len(b)
               /\ x = SubSeq(b, o + 1, o + Len(x))
               /\ w \in Seq(Byte) /\ Len(w) = Len(b) - f
               /\ \A i \in 0..Len(x) : Utf8Run(x)[i] = Utf8Run(w)[(o - f) + i]
<1> DEFINE w == SubSeq(b, f + 1, Len(b))
           e == IF o + size < Len(b) THEN o + size ELSE Len(b)
           k == o - f
           m == e - f
<1>1. b \in Seq(Byte) /\ f \in Nat /\ o \in f..Len(b) /\ size \in Nat /\ size >= 4
  BY DEF TextPart
<1>2. x = SubSeq(b, o + 1, e)
  BY DEF TextPart
<1>3. Utf8Run(w)[k] = Whole
  BY DEF TextPart
<1>4. Len(b) \in Nat
  BY <1>1, LenProperties
<1>5. o \in Nat /\ f <= o /\ f <= Len(b) /\ e \in Nat /\ o <= e /\ e <= Len(b)
  BY <1>1, <1>4
<1>6. (e < Len(b) => e - o >= 4) /\ (e - o = 0 => o = Len(b))
  BY <1>1, <1>4, <1>5
<1> HIDE DEF e
<1>7. x \in Seq(Byte) /\ Len(x) = e - o
  BY <1>1, <1>2, <1>5, Part
<1>8. w \in Seq(Byte) /\ Len(w) = Len(b) - f
  <2>1. Len(b) <= Len(b)
    BY <1>4
  <2> QED BY <1>1, <1>4, <1>5, <2>1, Part
<1>9. k \in Nat /\ m \in Nat /\ k <= m /\ m <= Len(b) - f /\ f + k = o /\ f + m = e /\ m - k = e - o
  BY <1>1, <1>4, <1>5
<1>10. SubSeq(w, k + 1, m) = x
  <2> HIDE DEF k, m
  <2>1. Len(b) <= Len(b)
    BY <1>4
  <2>2. SubSeq(SubSeq(b, f + 1, Len(b)), k + 1, m) = SubSeq(b, (f + k) + 1, f + m)
    BY <1>1, <1>4, <1>5, <1>9, <2>1, PartOfPart
  <2> QED BY <1>2, <1>9, <2>2
<1>11. \A i \in 0..(e - o) : Utf8Run(x)[i] = Utf8Run(w)[k + i]
  <2> HIDE DEF k, m, w
  <2>1. k \in 0..Len(w) /\ m \in k..Len(w)
    BY <1>4, <1>5, <1>8, <1>9
  <2>2. \A i \in 0..(m - k) : Utf8Run(SubSeq(w, k + 1, m))[i] = Utf8Run(w)[k + i]
    BY <1>3, <1>8, <2>1, RunOfPart
  <2> QED BY <1>9, <1>10, <2>2
<1> HIDE DEF m, w
<1>12. o + (e - o) = e /\ e - o \in Nat
  BY <1>5
<1> QED BY <1>1, <1>2, <1>4, <1>5, <1>6, <1>7, <1>8, <1>11, <1>12 DEF w

\* A text of which a part is broken, or ends within a code point at its end, is none.
LEMMA TextPartBroken ==
    ASSUME NEW b, NEW f, NEW o, NEW size, NEW x, TextPart(b, f, o, size, x),
           NEW i \in 0..Len(x),
           \/ Utf8Run(x)[i] = Broken
           \/ Utf8Run(x)[i] # Whole /\ i = Len(x) /\ ~ (o + Len(x) < Len(b))
    PROVE  ~ IsUtf8(SubSeq(b, f + 1, Len(b)))
<1> DEFINE w == SubSeq(b, f + 1, Len(b))
           k == o - f
           n == Len(w)
<1>1. /\ Len(b) \in Nat /\ f \in Nat /\ o \in Nat /\ f <= o
      /\ Len(x) \in Nat /\ o + Len(x) <= Len(b)
      /\ w \in Seq(Byte) /\ n = Len(b) - f
  BY TextPartRun
<1>2. \A j \in 0..Len(x) : Utf8Run(x)[j] = Utf8Run(w)[(o - f) + j]
  BY TextPartRun
<1> HIDE DEF w, n
<1>3. k + i \in 0..n /\ n \in (k + i)..n
  BY <1>1
<1>4. Utf8Run(w)[k + i] = Utf8Run(x)[i]
  BY <1>2
<1> HIDE DEF k
<1>5. Broken # Whole
  BY DEF Broken, Whole
<1>6. CASE Utf8Run(x)[i] = Broken
  <2>1. Utf8Run(w)[n] = Broken
    BY <1>1, <1>3, <1>4, <1>6, BrokenStays DEF n
  <2> QED BY <1>5, <2>1 DEF IsUtf8, w, n
<1>7. CASE Utf8Run(x)[i] # Whole /\ i = Len(x) /\ ~ (o + Len(x) < Len(b))
  <2>1. k + i = n
    BY <1>1, <1>7 DEF k
  <2>2. Utf8Run(w)[n] # Whole
    BY <1>4, <1>7, <2>1
  <2> QED BY <2>2 DEF IsUtf8, w, n
<1> QED BY <1>6, <1>7

Extends(b, f, o, x, v) == SubSeq(b, f + 1, o) \o SubSeq(x, 1, v) = SubSeq(b, f + 1, o + v)

\* The whole code points of a part follow what was there before, and there is one
\* unless the text ends.
LEMMA TextPartWhole ==
    ASSUME NEW b, NEW f, NEW o, NEW size, NEW x, TextPart(b, f, o, size, x),
           IsUtf8(x) \/ (EndsWithinCodePoint(x) /\ o + Len(x) < Len(b))
    PROVE  LET v == ValidUpTo(x)
               w == SubSeq(b, f + 1, Len(b))
           IN  /\ v \in Nat /\ o + v \in f..Len(b)
               /\ Extends(b, f, o, x, v)
               /\ Utf8Run(w)[(o + v) - f] = Whole
               /\ o + v >= Len(b) \/ v > 0
<1> DEFINE v == ValidUpTo(x)
           w == SubSeq(b, f + 1, Len(b))
           u == o + v
           n == Len(x)
<1>1. /\ b \in Seq(Byte) /\ Len(b) \in Nat /\ f \in Nat /\ o \in Nat /\ f <= o
      /\ n \in Nat /\ o + n <= Len(b)
      /\ o + n < Len(b) => n >= 4
      /\ n = 0 => o = Len(b)
  BY TextPartRun
<1>2. x \in Seq(Byte) /\ x = SubSeq(b, o + 1, o + n)
  BY TextPartRun
<1>3. \A i \in 0..n : Utf8Run(x)[i] = Utf8Run(w)[(o - f) + i]
  BY TextPartRun
<1>4. /\ v \in 0..n
      /\ Utf8Run(x)[v] = Whole
      /\ \A i \in 0..n : Utf8Run(x)[i] = Whole => i <= v
  BY <1>2, ValidUpToFacts
<1> HIDE DEF v, w, n
<1>5. v \in Nat /\ u \in Nat /\ f <= o /\ o <= u /\ u <= Len(b) /\ u \in f..Len(b) /\ u - f = (o - f) + v
  BY <1>1, <1>4
<1>6. SubSeq(x, 1, v) = SubSeq(b, o + 1, u)
  <2> DEFINE e == o + n
  <2>1. e \in Nat /\ o <= e /\ e <= Len(b) /\ 0 \in Nat /\ 0 <= v /\ v <= e - o
    BY <1>1, <1>4
  <2> HIDE DEF e
  <2>2. SubSeq(SubSeq(b, o + 1, e), 0 + 1, v) = SubSeq(b, (o + 0) + 1, o + v)
    BY <1>1, <1>5, <2>1, PartOfPart
  <2>3. o + 0 = o /\ 0 + 1 = 1
    BY <1>1
  <2> QED BY <1>2, <2>2, <2>3 DEF e
<1>7. SubSeq(b, f + 1, o) \o SubSeq(b, o + 1, u) = SubSeq(b, f + 1, u)
  <2> HIDE DEF u
  <2> QED BY <1>1, <1>5, PartsJoin
<1>8. Utf8Run(w)[u - f] = Whole
  BY <1>3, <1>4, <1>5
<1>9. u >= Len(b) \/ v > 0
  <2>1. CASE IsUtf8(x)
    <3>1. n \in 0..n /\ Utf8Run(x)[n] = Whole
      BY <1>1, <2>1 DEF IsUtf8, n
    <3>2. n <= v
      BY <1>4, <3>1
    <3>3. v = n
      BY <1>1, <1>4, <3>2
    <3> QED BY <1>1, <3>3
  <2>2. CASE EndsWithinCodePoint(x) /\ o + n < Len(b)
    <3>1. n >= 4 /\ n \in 0..n
      BY <1>1, <2>2
    <3>2. Utf8Run(x)[n] # Broken
      BY <2>2 DEF EndsWithinCodePoint, n
    <3>3. PICK j \in 0..n : Utf8Run(x)[j] = Whole /\ n - j <= 3
      BY <1>2, <3>1, <3>2, NearWhole DEF n
    <3>4. j <= v /\ j > 0
      BY <1>1, <1>4, <3>1, <3>3
    <3> QED BY <1>5, <3>3, <3>4
  <2> QED BY <2>1, <2>2 DEF n
<1>10. Extends(b, f, o, x, v)
  BY <1>6, <1>7 DEF Extends
<1> QED BY <1>5, <1>8, <1>9, <1>10 DEF v, w

LEMMA TextPages ==
    ASSUME IInv, PInv, call.tool \in Ranges, ReadVerifiedTextRange
    PROVE  PInv'
<1>1. pc = "verify" /\ call.tool = "read_text_range" /\ UNCHANGED <<world, call, received>>
  BY DEF ReadVerifiedTextRange
<1>2. data \in Seq(Byte) /\ Len(data) \in Nat
  BY <1>1, PagesFacts, LenProperties DEF PagesTyped, Byte
<1> DEFINE b == bytes[Target]
           o == call.offset
           f == call.first
<1>3. ASSUME ~ moved
      PROVE  /\ fd = Target /\ stat.size = Len(b) /\ ~ ChangedDuringRead
             /\ received = SubSeq(b, f + 1, o) /\ Wanted = SubSeq(b, f + 1, Len(b))
             /\ TextPart(b, f, o, call.length, data)
  <2>1. /\ fd = Target /\ stat.size = Len(b) /\ ~ ChangedDuringRead
        /\ received = SubSeq(b, f + 1, o) /\ Wanted = SubSeq(b, f + 1, Len(b))
    BY <1>1, <1>3, VerifyFacts
  <2>2. /\ b \in Seq(Byte) /\ Len(b) \in Nat /\ f \in Nat /\ o \in Nat
        /\ f <= o /\ o <= ReadEnd(Len(b)) /\ ReadEnd(Len(b)) <= Len(b) /\ ReadEnd(Len(b)) \in Nat
        /\ call.length \in Nat /\ call.length >= 4
    BY <1>1, <1>3, VerifyFacts
  <2>3. data = SubSeq(b, o + 1, ReadEnd(Len(b)))
    BY <1>1, <1>3, VerifyFacts
  <2>4. Utf8Run(Wanted)[o - f] = Whole
    BY <1>1, <1>3, VerifyFacts
  <2>5. o \in f..Len(b)
    <3> HIDE DEF b, o, f
    <3> QED BY <2>2
  <2> QED BY <2>1, <2>2, <2>3, <2>4, <2>5 DEF TextPart, ReadEnd
<1>4. CASE TextRangeStatus # "ok"
  <2>1. Refuse(TextRangeStatus)
    BY <1>4 DEF ReadVerifiedTextRange
  <2>2. ASSUME ~ moved
        PROVE  TextRangeStatus \in {"invalid_range", "invalid_encoding"} /\ ~ IsUtf8(Wanted)
    <3>1. TextRangeStatus \in {"invalid_range", "invalid_encoding"}
      BY <1>3, <1>4, <2>2, TextStatusFacts
    <3>2. TextPart(b, f, o, call.length, data) /\ Wanted = SubSeq(b, f + 1, Len(b)) /\ stat.size = Len(b)
      BY <1>3, <2>2
    <3> HIDE DEF b, f
    <3>3. CASE TextRangeStatus = "invalid_range"
      <4>1. data # <<>> /\ IsContinuation(data[1])
        BY <3>3, TextStatusFacts
      <4>2. 1 <= Len(data) /\ Utf8Run(data)[1] = Broken
        BY <1>2, <4>1, ContinuationBroken
      <4>3. 1 \in 0..Len(data)
        BY <1>2, <4>2
      <4>4. ~ IsUtf8(Wanted)
        <5> HIDE DEF o
        <5> QED BY <3>2, <4>2, <4>3, TextPartBroken
      <4> QED BY <3>1, <4>4
    <3>4. CASE TextRangeStatus = "invalid_encoding"
      <4>1. ~ IsUtf8(data) /\ ~ (EndsWithinCodePoint(data) /\ o + Len(data) < Len(b))
        BY <3>2, <3>4, TextStatusFacts
      <4> DEFINE last == Utf8Run(data)[Len(data)]
      <4>2. \/ last = Broken
            \/ last # Whole /\ ~ (o + Len(data) < Len(b))
        BY <4>1, Zenon DEF IsUtf8, EndsWithinCodePoint
      <4>3. Len(data) \in 0..Len(data)
        BY <1>2
      <4>4. ~ IsUtf8(Wanted)
        <5> HIDE DEF o
        <5> QED BY <3>2, <4>2, <4>3, TextPartBroken
      <4> QED BY <3>1, <4>4
    <3> QED BY <3>1, <3>3, <3>4
  <2>3. fd = Target \/ moved
    BY <1>3
  <2> QED BY <1>1, <1>4, <2>1, <2>2, <2>3, RefusePages
<1>5. CASE TextRangeStatus = "ok"
  <2> DEFINE v == ValidUpTo(data)
             content == SubSeq(data, 1, v)
  <2>1. Page(content, v)
    BY <1>5 DEF ReadVerifiedTextRange
  <2>2. ~ ChangedDuringRead
    BY <1>5, TextStatusFacts
  <2>3. v \in Nat
    BY <1>2, ValidUpToFacts
  <2>4. Content(call.tool, content) = content
    BY <1>1 DEF Content
  <2>5. ASSUME ~ moved
        PROVE  /\ Assembled(received \o content, o + v)
               /\ o + v >= stat.size \/ v > 0
    <3>1. /\ TextPart(b, f, o, call.length, data) /\ stat.size = Len(b)
          /\ received = SubSeq(b, f + 1, o) /\ Wanted = SubSeq(b, f + 1, Len(b))
      BY <1>3, <2>5
    <3>2. IsUtf8(data) \/ (EndsWithinCodePoint(data) /\ o + Len(data) < Len(b))
      BY <1>5, <3>1, TextStatusFacts
    <3>3. /\ o + v \in f..Len(b)
          /\ SubSeq(b, f + 1, o) \o content = SubSeq(b, f + 1, o + v)
          /\ Utf8Run(SubSeq(b, f + 1, Len(b)))[(o + v) - f] = Whole
          /\ o + v >= Len(b) \/ v > 0
      <4> HIDE DEF b, o, f
      <4>1. o + v \in f..Len(b) /\ (o + v >= Len(b) \/ v > 0)
        BY <3>1, <3>2, TextPartWhole
      <4>2. Extends(b, f, o, data, v)
        BY <3>1, <3>2, TextPartWhole
      <4>3. Utf8Run(SubSeq(b, f + 1, Len(b)))[(o + v) - f] = Whole
        BY <3>1, <3>2, TextPartWhole
      <4>4. SubSeq(b, f + 1, o) \o content = SubSeq(b, f + 1, o + v)
        BY <4>2 DEF Extends
      <4> HIDE DEF v, content
      <4> QED BY <4>1, <4>3, <4>4
    <3>4. Assembled(received \o content, o + v)
      <4> HIDE DEF v, content
      <4> QED BY <3>1, <3>3 DEF Assembled
    <3> QED BY <3>1, <3>3, <3>4
  <2> HIDE DEF content, v
  <2> QED BY <1>1, <2>1, <2>2, <2>3, <2>4, <2>5, PagePages
<1> QED BY <1>4, <1>5

LEMMA NextPagePages ==
    ASSUME IInv, PInv, call.tool \in Ranges, NextPage
    PROVE  PInv'
<1> DEFINE got == received \o Content(call.tool, answer.data)
<1>1. /\ pc = "done" /\ answer.status = "ok" /\ ~ answer.eof
      /\ received' = got /\ call' = [call EXCEPT !.offset = answer.next]
      /\ pc' = "start" /\ UNCHANGED world
  BY DEF NextPage
<1>2. /\ call'.path = call.path /\ call'.tool = call.tool /\ call'.first = call.first
      /\ call'.length = call.length /\ call'.offset = answer.next
  BY <1>1, PagesFacts DEF CallSafe
<1>3. SameTrail /\ moved' = moved /\ bytes' = bytes
  BY <1>1, <1>2 DEF SameTrail, world
<1>4. PagesTyped'
  BY <1>1, <1>2, <1>3, PagesFacts DEF PagesTyped
<1>5. ASSUME ~ moved PROVE OnTrail' /\ InOrder'
  <2>1. OnTrail'
    BY <1>1 DEF OnTrail
  <2>2. Reached /\ Assembled(got, answer.next)
    BY <1>1, <1>5, PagesFacts DEF InOrder
  <2> HIDE DEF got
  <2>3. Reached' /\ Assembled(received, call.offset)'
    BY <1>1, <1>2, <1>3, <2>2, TrailStays DEF Assembled, SameTrail
  <2>4. ASSUME call'.offset = call'.first PROVE received' = <<>>
    <3> DEFINE b == bytes[Target]
               f == call.first
    <3>1. b \in Seq(Byte) /\ Len(b) \in Nat /\ f \in Nat
      BY <2>2, PagesFacts, LenProperties DEF Reached
    <3>2. got = SubSeq(b, f + 1, f)
      BY <1>2, <2>2, <2>4 DEF Assembled
    <3>3. SubSeq(b, f + 1, f) = <<>>
      <4> HIDE DEF b, f
      <4> QED BY <3>1, SubSeqProperties
    <3> QED BY <1>1, <3>2, <3>3
  <2> QED BY <1>1, <2>1, <2>3, <2>4 DEF InOrder
<1> QED BY <1>2, <1>3, <1>4, <1>5 DEF PInv

-----------------------------------------------------------------------------
(* Pages: the invariant *)

LEMMA InitPages == Init => PInv
<1> SUFFICES ASSUME Init, call.tool \in Ranges PROVE PagesTyped /\ OnTrail /\ InOrder
  BY DEF PInv
<1>1. PICK s \in Scenarios : bytes = s.content /\ call = s.call
  BY DEF Init
<1>2. s.content \in [Files -> Seq(0..255)] /\ s.call \in Calls /\ s.call.first = s.call.offset
  BY ScenariosAssumption
<1>3. call.offset \in Nat /\ call.first \in Nat /\ call.length \in Nat /\ call.offset = call.first
  BY <1>1, <1>2 DEF Calls
<1>4. pc = "start" /\ received = <<>>
  BY DEF Init
<1>5. PagesTyped
  BY <1>1, <1>2, <1>3, <1>4 DEF PagesTyped
<1>6. OnTrail
  BY <1>4 DEF OnTrail
<1>7. InOrder
  BY <1>3, <1>4 DEF InOrder
<1> QED BY <1>5, <1>6, <1>7

\* The outsider takes every promise about an untouched tree away.
LEMMA OutsidePages ==
    ASSUME IInv, PInv, call.tool \in Ranges, pc # "done", moved' = TRUE,
           UNCHANGED <<call, pc, data, answer, fd>>, bytes' \in [Files -> Seq(0..255)]
    PROVE  PInv'
<1>1. PagesTyped
  BY PagesFacts
<1>2. PagesTyped'
  BY <1>1 DEF PagesTyped
<1> QED BY <1>2 DEF PInv

LEMMA NextPages == IInv /\ PInv /\ [Next]_vars => PInv'
<1> SUFFICES ASSUME IInv, PInv, [Next]_vars PROVE PInv'
  OBVIOUS
<1>1. CASE call.tool \notin Ranges
  <2>1. call' = call \/ NextPage
    BY <1>1, Zenon DEF Next, vars, Start, Descend, Parent, Sanitize, PathMetadata, StatFile,
       OpenVerifiedRegularFile, ReadFile, ReadBinaryFile, HashFile, ReadRange,
       ReadVerifiedBinaryRange, ReadVerifiedTextRange, PopDirectory, TraversalFails, Process, Publish,
       Examine, Relink, Rewrite
  <2>2. call' = call
    BY <1>1, <2>1 DEF NextPage
  <2> QED BY <1>1, <2>2 DEF PInv
<1>2. CASE call.tool \in Ranges
  <2> USE <1>2
  <2>1. /\ pc \in {"start", "parent", "open", "read", "verify", "done"}
        /\ call.tool \notin {"find_paths", "search_text", "sanitize", "path_metadata",
                             "read_file", "read_binary_file", "hash_file"}
        /\ bytes \in [Files -> Seq(0..255)]
    BY PagesFacts, RangeTools DEF PagesTyped
  <2>2. CASE Start BY <2>2, StartRange
  <2>3. CASE Parent BY <2>3, ParentRange
  <2>4. CASE StatFile BY <2>4, StatRange
  <2>5. CASE OpenVerifiedRegularFile BY <2>5, OpenRange
  <2>6. CASE ReadRange BY <2>6, ReadRangePages
  <2>7. CASE ReadVerifiedBinaryRange BY <2>7, BinaryPages
  <2>8. CASE ReadVerifiedTextRange BY <2>8, TextPages
  <2>9. CASE NextPage BY <2>9, NextPagePages
  <2>10. CASE Descend \/ Sanitize \/ PathMetadata \/ ReadFile \/ ReadBinaryFile \/ HashFile
    BY <2>1, <2>10 DEF Descend, Sanitize, PathMetadata, ReadFile, ReadBinaryFile, HashFile
  <2>11. CASE PopDirectory \/ TraversalFails \/ Process \/ Publish
    BY <2>1, <2>11 DEF PopDirectory, TraversalFails, Process, Publish
  <2>12. ASSUME NEW n \in Names \cup Reserved \cup {Dot}, Examine(n) PROVE PInv'
    BY <2>1, <2>12 DEF Examine
  <2>13. ASSUME NEW r \in Relinks, Relink(r.dir, r.name, r.node) PROVE PInv'
    <3>1. pc # "done" /\ moved' = TRUE /\ UNCHANGED <<bytes, call, pc, data, answer, fd>>
      BY <2>13 DEF Relink
    <3> QED BY <2>1, <3>1, OutsidePages
  <2>14. ASSUME NEW f \in Files \ Private, NEW content \in Rewrites, Rewrite(f, content)
         PROVE  PInv'
    <3>1. /\ pc # "done" /\ moved' = TRUE /\ UNCHANGED <<call, pc, data, answer, fd>>
          /\ bytes' = [bytes EXCEPT ![f] = content]
      BY <2>14 DEF Rewrite
    <3>2. bytes' \in [Files -> Seq(0..255)]
      BY <2>1, <3>1, ScenariosAssumption
    <3> QED BY <3>1, <3>2, OutsidePages
  <2>15. CASE UNCHANGED vars
    <3>1. UNCHANGED <<entries, bytes, roots, moved, call, pc, fd, rest, stat, data, answer, received>>
      BY <2>15 DEF vars
    <3>2. SameTrail
      BY <3>1 DEF SameTrail
    <3>3. PagesTyped'
      BY <3>1, PagesFacts DEF PagesTyped
    <3>4. ASSUME ~ moved PROVE OnTrail' /\ InOrder'
      <4>1. OnTrail /\ InOrder
        BY <3>4, PagesFacts
      <4>2. /\ PathNames' = PathNames /\ At' = At /\ Target' = Target /\ Wanted' = Wanted
            /\ Acceptable' <=> Acceptable
            /\ Reached' <=> Reached
        BY <3>2, TrailStays
      <4>3. Taken' = Taken
        BY <3>1, <4>2 DEF Taken
      <4>4. Entered(Taken)' <=> Entered(Taken)
        BY <3>1, <4>2, <4>3 DEF Entered
      <4>5. ReadAt(call.offset, call.length)' = ReadAt(call.offset, call.length)
        BY <3>1 DEF ReadAt
      <4>6. OnTrail'
        BY <3>1, <4>1, <4>2, <4>3, <4>4, <4>5 DEF OnTrail
      <4>7. Assembled(received, call.offset)' <=> Assembled(received, call.offset)
        BY <3>1, <4>2 DEF Assembled
      <4>8. Assembled(received \o Content(call.tool, answer.data), answer.next)'
              <=> Assembled(received \o Content(call.tool, answer.data), answer.next)
        BY <3>1, <4>2 DEF Assembled
      <4>9. InOrder'
        BY <3>1, <4>1, <4>2, <4>7, <4>8 DEF InOrder
      <4> QED BY <4>6, <4>9
    <3> QED BY <3>1, <3>3, <3>4 DEF PInv
  <2> QED BY Zenon, <2>2, <2>3, <2>4, <2>5, <2>6, <2>7, <2>8, <2>9, <2>10, <2>11, <2>12, <2>13,
             <2>14, <2>15 DEF Next
<1> QED BY <1>1, <1>2

LEMMA PagesEstablished == PInv => PagesAssemble
<1> SUFFICES ASSUME PInv, call.tool \in Ranges, pc = "done" PROVE PagesAssemble
  BY DEF PagesAssemble
<1>1. answer.status = "ok" => (answer.eof <=> answer.next >= Len(bytes[fd]))
  BY DEF PInv, PagesTyped
<1>2. ASSUME ~ moved, answer.status = "ok"
      PROVE  /\ received \o Content(call.tool, answer.data) = SubSeq(bytes[fd], call.first + 1, answer.next)
             /\ answer.eof \/ answer.next > call.offset
  BY <1>2 DEF PInv, InOrder, Assembled
<1>3. ASSUME ~ moved, answer.status # "ok",
             call.offset # call.first \/ answer.status = "invalid_encoding"
      PROVE  /\ call.tool = "read_text_range"
             /\ answer.status \in {"invalid_range", "invalid_encoding"}
             /\ ~ IsUtf8(SubSeq(bytes[fd], call.first + 1, Len(bytes[fd])))
  BY <1>3 DEF PInv, InOrder, Wanted
<1> QED BY <1>1, <1>2, <1>3 DEF PagesAssemble

\* For every file, offset and length, in bounds or not: the pages of a file nobody
\* touches are its bytes from the first offset on, without a gap and to the end,
\* every page but the last brings something, and a page that is refused, or a text
\* that is called badly encoded, is no text; and though the file changes, a page is
\* the last exactly if it reaches the end that the file has when it is returned.
THEOREM PagesInOrder == Spec => []PagesAssemble
<1>1. Init => IInv /\ PInv
  BY InitInv, InitPages
<1>2. (IInv /\ PInv) /\ [Next]_vars => (IInv /\ PInv)'
  BY NextInv, NextPages
<1>3. IInv /\ PInv => PagesAssemble
  BY PagesEstablished
<1> QED BY <1>1, <1>2, <1>3, PTL DEF Spec

-----------------------------------------------------------------------------
(* Ceilings: the order of an answer and its length *)

\* The order of sequences is strict.
LEMMA OrderFacts ==
    ASSUME NEW a \in Seq(Nat), NEW b \in Seq(Nat), NEW c \in Seq(Nat)
    PROVE  ~ SeqLess(a, a) /\ (SeqLess(a, b) /\ SeqLess(b, c) => SeqLess(a, c))
<1>1. ~ SeqLess(a, a)
  <2>1. \A k \in 1..Len(a) : ~(k > Len(a)) /\ ~(a[k] < a[k])
    OBVIOUS
  <2> QED BY <2>1 DEF SeqLess
<1>2. ASSUME SeqLess(a, b), SeqLess(b, c) PROVE SeqLess(a, c)
  <2>1. PICK k \in 1..Len(b) : /\ \A i \in 1 .. k - 1 : i <= Len(a) /\ a[i] = b[i]
                               /\ k > Len(a) \/ a[k] < b[k]
    BY <1>2 DEF SeqLess
  <2>2. PICK l \in 1..Len(c) : /\ \A i \in 1 .. l - 1 : i <= Len(b) /\ b[i] = c[i]
                               /\ l > Len(b) \/ b[l] < c[l]
    BY <1>2 DEF SeqLess
  <2> DEFINE m == IF k < l THEN k ELSE l
  <2>3. m \in 1..Len(c) /\ m <= k /\ m <= l
    OBVIOUS
  <2>4. \A i \in 1 .. m - 1 : i <= Len(a) /\ a[i] = c[i]
    BY <2>1, <2>2
  <2>5. m > Len(a) \/ a[m] < c[m]
    <3>1. CASE k < l
      BY <2>1, <2>2, <3>1
    <3>2. CASE k = l
      BY <2>1, <2>2, <3>2
    <3>3. CASE l < k
      BY <2>1, <2>2, <3>3
    <3> QED BY <3>1, <3>2, <3>3
  <2> HIDE DEF m
  <2> QED BY <2>3, <2>4, <2>5 DEF SeqLess
<1> QED BY <1>1, <1>2

\* What is popped from the end leaves what is up to the last that stays.
LEMMA TopOf ==
    ASSUME NEW S, Items(S), NEW R, R \subseteq S, R # {}
    PROVE  \E top \in R : R \subseteq UpTo(S, top)
<1> DEFINE Key(e) == e.path \o e.at
           Sizes == {Cardinality(UpTo(S, e)) : e \in R}
<1>1. \A e \in S : Key(e) \in Seq(Nat)
  BY DEF Items
<1>2. IsFiniteSet(S) /\ Cardinality(S) \in Nat
  BY FS_CardinalityType DEF Items
<1>3. \A e : IsFiniteSet(UpTo(S, e)) /\ Cardinality(UpTo(S, e)) \in 0..Cardinality(S)
  <2> TAKE e
  <2>1. UpTo(S, e) \in SUBSET S
    BY DEF UpTo
  <2> HIDE DEF Key
  <2>2. IsFiniteSet(UpTo(S, e)) /\ Cardinality(UpTo(S, e)) <= Cardinality(S)
    BY <1>2, <2>1, FS_Subset
  <2>3. Cardinality(UpTo(S, e)) \in Nat
    BY <2>2, FS_CardinalityType
  <2> QED BY <1>2, <2>2, <2>3
<1>4. PICK m \in Sizes : \A n \in Sizes : n <= m
  <2>1. Sizes \subseteq Nat /\ \A n \in Sizes : n <= Cardinality(S)
    BY <1>2, <1>3
  <2>2. Sizes # {}
    OBVIOUS
  <2> HIDE DEF Sizes
  <2> QED BY <1>2, <2>1, <2>2, LargestBelow
<1>5. PICK top \in R : m = Cardinality(UpTo(S, top))
  OBVIOUS
<1>6. ASSUME NEW d \in R, d \notin UpTo(S, top) PROVE FALSE
  <2>1. SeqLess(Key(top), Key(d))
    BY <1>6 DEF UpTo
  <2>2. UpTo(S, top) \subseteq UpTo(S, d)
    <3> SUFFICES ASSUME NEW x \in S, SeqLess(Key(d), Key(x)) PROVE SeqLess(Key(top), Key(x))
      BY DEF UpTo
    <3> HIDE DEF Key
    <3>1. Key(top) \in Seq(Nat) /\ Key(d) \in Seq(Nat) /\ Key(x) \in Seq(Nat)
      BY <1>1
    <3> QED BY <2>1, <3>1, OrderFacts
  <2>3. d \in UpTo(S, d)
    <3>1. ~ SeqLess(Key(d), Key(d))
      <4> HIDE DEF Key
      <4>1. Key(d) \in Seq(Nat)
        BY <1>1
      <4> QED BY <4>1, OrderFacts
    <3> QED BY <3>1 DEF UpTo
  <2>4. Cardinality(UpTo(S, d)) <= Cardinality(UpTo(S, top))
    BY <1>4, <1>5
  <2>5. /\ Cardinality(UpTo(S, top)) <= Cardinality(UpTo(S, d))
        /\ Cardinality(UpTo(S, d)) = Cardinality(UpTo(S, top)) => UpTo(S, d) = UpTo(S, top)
    BY <1>3, <2>2, FS_Subset
  <2> QED BY <1>3, <1>6, <2>3, <2>4, <2>5
<1> QED BY <1>6

\* What the bytes of a list are counted by.
Spread(S) == UNION {{e} \X (1..Encoded(e.path)) : e \in S}

LEMMA SpreadFinite ==
    ASSUME NEW S, Items(S)
    PROVE  IsFiniteSet(Spread(S)) /\ Cardinality(Spread(S)) \in Nat
<1> DEFINE Strip(e) == {e} \X (1..Encoded(e.path))
           T == {Strip(e) : e \in S}
           f == [e \in S |-> Strip(e)]
<1>1. f \in Surjection(S, T)
  <2>1. f \in [S -> T]
    OBVIOUS
  <2>2. \A t \in T : \E e \in S : f[e] = t
    OBVIOUS
  <2> QED BY <2>1, <2>2 DEF Surjection
<1>2. IsFiniteSet(T)
  <2> HIDE DEF f, T
  <2> QED BY <1>1, FS_Surjection DEF Items
<1>3. \A t \in T : IsFiniteSet(t)
  <2> SUFFICES ASSUME NEW e \in S PROVE IsFiniteSet(Strip(e))
    OBVIOUS
  <2>1. Encoded(e.path) \in Nat
    BY DEF Items
  <2>2. IsFiniteSet(1..Encoded(e.path))
    BY <2>1, FS_Interval
  <2>3. IsFiniteSet({e})
    BY FS_Singleton
  <2> QED BY <2>2, <2>3, FS_Product
<1>4. Spread(S) = UNION T
  BY DEF Spread
<1>5. IsFiniteSet(UNION T)
  <2> HIDE DEF T
  <2> QED BY <1>2, <1>3, FS_UNION
<1> QED BY <1>4, <1>5, FS_CardinalityType

LEMMA EmptyBytes == Items({}) /\ ListBytes({}) = 0
<1>1. Items({})
  BY FS_EmptySet DEF Items
<1>2. UNION {{e} \X (1..Encoded(e.path)) : e \in {}} = {}
  OBVIOUS
<1> QED BY <1>1, <1>2, FS_EmptySet DEF ListBytes

LEMMA BytesBySpread ==
    ASSUME NEW S, Items(S)
    PROVE  /\ ListBytes(S) = Cardinality(Spread(S)) + (IF S = {} THEN 0 ELSE Cardinality(S) - 1)
           /\ ListBytes(S) \in Nat
           /\ Cardinality(S) \in Nat /\ (S # {} => Cardinality(S) >= 1)
<1>1. Cardinality(S) \in Nat /\ (Cardinality(S) = 0 <=> S = {})
  BY FS_CardinalityType, FS_EmptySet DEF Items
<1>2. Cardinality(Spread(S)) \in Nat
  BY SpreadFinite
<1>3. ListBytes(S) = Cardinality(Spread(S)) + (IF S = {} THEN 0 ELSE Cardinality(S) - 1)
  BY DEF ListBytes, Spread
<1> QED BY <1>1, <1>2, <1>3

\* A part of a list is no longer than the list.
LEMMA PartOfList ==
    ASSUME NEW S, Items(S), NEW R, R \subseteq S
    PROVE  Items(R) /\ Cardinality(R) <= Cardinality(S) /\ ListBytes(R) <= ListBytes(S)
<1>1. IsFiniteSet(S) /\ R \in SUBSET S
  BY DEF Items
<1>2. IsFiniteSet(R) /\ Cardinality(R) <= Cardinality(S)
  BY <1>1, FS_Subset
<1>3. Items(R)
  BY <1>2 DEF Items
<1>4. Cardinality(Spread(R)) <= Cardinality(Spread(S))
  <2>1. Spread(R) \in SUBSET Spread(S)
    BY DEF Spread
  <2> QED BY <2>1, SpreadFinite, FS_Subset
<1>5. /\ ListBytes(S) = Cardinality(Spread(S)) + (IF S = {} THEN 0 ELSE Cardinality(S) - 1)
      /\ Cardinality(S) \in Nat /\ (S # {} => Cardinality(S) >= 1)
  BY BytesBySpread
<1>6. /\ ListBytes(R) = Cardinality(Spread(R)) + (IF R = {} THEN 0 ELSE Cardinality(R) - 1)
      /\ Cardinality(R) \in Nat /\ (R # {} => Cardinality(R) >= 1)
  BY <1>3, BytesBySpread
<1>7. Cardinality(Spread(R)) \in Nat /\ Cardinality(Spread(S)) \in Nat
  BY <1>3, SpreadFinite
<1>8. R # {} => S # {}
  OBVIOUS
<1>9. ListBytes(R) <= ListBytes(S)
  BY <1>2, <1>4, <1>5, <1>6, <1>7, <1>8
<1> QED BY <1>2, <1>3, <1>9

\* One entry more is its own bytes and a comma more.
LEMMA OneMore ==
    ASSUME NEW S, Items(S), NEW e, e \notin S, e.path \in Seq(Nat), e.at \in Seq(Nat),
           Encoded(e.path) \in Nat
    PROVE  /\ Items(S \cup {e})
           /\ Cardinality(S \cup {e}) = Cardinality(S) + 1
           /\ ListBytes(S \cup {e}) =
                ListBytes(S) + Encoded(e.path) + (IF S = {} THEN 0 ELSE 1)
<1> DEFINE T == S \cup {e}
           strip == {e} \X (1..Encoded(e.path))
<1>1. IsFiniteSet(T) /\ Cardinality(T) = Cardinality(S) + 1
  BY FS_AddElement DEF Items
<1>2. Items(T)
  BY <1>1 DEF Items
<1>3. Spread(T) = Spread(S) \cup strip
  <2>1. ASSUME NEW x \in Spread(T) PROVE x \in Spread(S) \cup strip
    BY <2>1 DEF Spread
  <2>2. ASSUME NEW x \in Spread(S) \cup strip PROVE x \in Spread(T)
    <3>1. CASE x \in strip
      BY <3>1 DEF Spread
    <3>2. CASE x \in Spread(S)
      BY <3>2 DEF Spread
    <3> QED BY <2>2, <3>1, <3>2
  <2> QED BY <2>1, <2>2
<1>4. Spread(S) \cap strip = {}
  BY DEF Spread
<1>5. IsFiniteSet(strip) /\ Cardinality(strip) = Encoded(e.path)
  <2>1. IsFiniteSet(1..Encoded(e.path)) /\ Cardinality(1..Encoded(e.path)) = Encoded(e.path)
    BY FS_Interval
  <2>2. IsFiniteSet({e}) /\ Cardinality({e}) = 1
    BY FS_Singleton
  <2>3. /\ IsFiniteSet(strip)
        /\ Cardinality(strip) = Cardinality({e}) * Cardinality(1..Encoded(e.path))
    BY <2>1, <2>2, FS_Product
  <2> QED BY <2>1, <2>2, <2>3
<1>6. Cardinality(Spread(T)) = Cardinality(Spread(S)) + Encoded(e.path)
  <2>1. IsFiniteSet(Spread(S)) /\ Cardinality(Spread(S)) \in Nat
    BY SpreadFinite
  <2>2. Cardinality(Spread(S) \cup strip) =
           Cardinality(Spread(S)) + Cardinality(strip) - Cardinality(Spread(S) \cap strip)
    <3> HIDE DEF strip
    <3> QED BY <1>5, <2>1, FS_Union
  <2>3. Cardinality(Spread(S) \cap strip) = 0
    BY <1>4, FS_EmptySet
  <2> HIDE DEF strip, T
  <2> QED BY <1>3, <1>5, <2>1, <2>2, <2>3
<1>7. /\ ListBytes(S) = Cardinality(Spread(S)) + (IF S = {} THEN 0 ELSE Cardinality(S) - 1)
      /\ Cardinality(S) \in Nat
  BY BytesBySpread
<1>8. ListBytes(T) = Cardinality(Spread(T)) + Cardinality(T) - 1
  <2>1. T # {}
    OBVIOUS
  <2>2. /\ ListBytes(T) = Cardinality(Spread(T)) + (IF T = {} THEN 0 ELSE Cardinality(T) - 1)
        /\ Cardinality(T) \in Nat
    <3> HIDE DEF T
    <3> QED BY <1>2, BytesBySpread
  <2>3. Cardinality(Spread(T)) \in Nat
    <3> HIDE DEF T
    <3> QED BY <1>2, SpreadFinite
  <2> HIDE DEF T
  <2> QED BY <2>1, <2>2, <2>3
<1>9. Cardinality(Spread(S)) \in Nat /\ (S = {} => Cardinality(S) = 0)
  BY SpreadFinite, FS_EmptySet
<1> HIDE DEF T
<1>10. ListBytes(T) = ListBytes(S) + Encoded(e.path) + (IF S = {} THEN 0 ELSE 1)
  BY <1>1, <1>6, <1>7, <1>8, <1>9
<1> QED BY <1>1, <1>2, <1>10 DEF T

\* A list popped until its bytes fit fits, and so does one popped until its number does.
LEMMA PoppedBytes ==
    ASSUME NEW S, Items(S), NEW max \in Nat
    PROVE  LET R == PopUntilFits(S, LAMBDA X : ListBytes(X) <= max)
           IN  R \subseteq S /\ Items(R) /\ ListBytes(R) <= max
<1> DEFINE R == PopUntilFits(S, LAMBDA X : ListBytes(X) <= max)
<1>1. R \subseteq S /\ \A e \in R : ListBytes(UpTo(S, e)) <= max
  BY DEF PopUntilFits
<1> HIDE DEF R
<1>2. Items(R)
  BY <1>1, PartOfList
<1>3. ListBytes(R) <= max
  <2>1. CASE R = {}
    BY <2>1, EmptyBytes
  <2>2. CASE R # {}
    <3>1. PICK top \in R : R \subseteq UpTo(S, top)
      BY <1>1, <2>2, TopOf
    <3>2. UpTo(S, top) \subseteq S
      BY DEF UpTo
    <3>3. Items(UpTo(S, top))
      BY <3>2, PartOfList
    <3>4. ListBytes(R) <= ListBytes(UpTo(S, top))
      BY <3>1, <3>3, PartOfList
    <3>5. ListBytes(R) \in Nat /\ ListBytes(UpTo(S, top)) \in Nat
      BY <1>2, <3>3, BytesBySpread
    <3>6. ListBytes(UpTo(S, top)) <= max
      BY <1>1
    <3> QED BY <3>4, <3>5, <3>6
  <2> QED BY <2>1, <2>2
<1> QED BY <1>1, <1>2, <1>3 DEF R

LEMMA PoppedCount ==
    ASSUME NEW S, Items(S), NEW room \in Nat
    PROVE  LET R == PopUntilFits(S, LAMBDA X : Cardinality(X) <= room)
           IN  R \subseteq S /\ Items(R) /\ Cardinality(R) <= room
<1> DEFINE R == PopUntilFits(S, LAMBDA X : Cardinality(X) <= room)
<1>1. R \subseteq S /\ \A e \in R : Cardinality(UpTo(S, e)) <= room
  BY DEF PopUntilFits
<1> HIDE DEF R
<1>2. Items(R)
  BY <1>1, PartOfList
<1>3. Cardinality(R) <= room
  <2>1. CASE R = {}
    BY <2>1, FS_EmptySet
  <2>2. CASE R # {}
    <3>1. PICK top \in R : R \subseteq UpTo(S, top)
      BY <1>1, <2>2, TopOf
    <3>2. UpTo(S, top) \subseteq S
      BY DEF UpTo
    <3>3. Items(UpTo(S, top))
      BY <3>2, PartOfList
    <3>4. Cardinality(R) <= Cardinality(UpTo(S, top))
      BY <3>1, <3>3, PartOfList
    <3>5. Cardinality(R) \in Nat /\ Cardinality(UpTo(S, top)) \in Nat
      BY <1>2, <3>3, BytesBySpread
    <3>6. Cardinality(UpTo(S, top)) <= room
      BY <1>1
    <3> QED BY <3>4, <3>5, <3>6
  <2> QED BY <2>1, <2>2
<1> QED BY <1>1, <1>2, <1>3 DEF R

\* What is left of the candidates of list_directory fits next to what it found.
LEMMA PoppedList ==
    ASSUME NEW S, Items(S), Items(walk.found), walk.used \in Nat
    PROVE  LET R == PopUntilFits(S, ListFits)
           IN  R \subseteq S /\ Items(R) /\ (R = {} \/ ListFits(R))
<1> DEFINE R == PopUntilFits(S, ListFits)
<1>1. R \subseteq S /\ \A e \in R : ListFits(UpTo(S, e))
  BY DEF PopUntilFits
<1> HIDE DEF R
<1>2. Items(R)
  BY <1>1, PartOfList
<1>3. ASSUME R # {} PROVE ListFits(R)
  <2>1. PICK top \in R : R \subseteq UpTo(S, top)
    BY <1>1, <1>3, TopOf
  <2> DEFINE T == UpTo(S, top)
  <2>2. T \subseteq S
    BY DEF UpTo
  <2>3. ListFits(T) /\ R \subseteq T
    BY <1>1, <2>1
  <2> HIDE DEF T
  <2>4. Items(T)
    BY <2>2, PartOfList
  <2>5. Cardinality(R) <= Cardinality(T) /\ ListBytes(R) <= ListBytes(T)
    BY <2>3, <2>4, PartOfList
  <2>6. /\ Cardinality(R) \in Nat /\ Cardinality(T) \in Nat
        /\ ListBytes(R) \in Nat /\ ListBytes(T) \in Nat
    BY <1>2, <2>4, BytesBySpread
  <2>7. Cardinality(walk.found) \in Nat
    BY BytesBySpread
  <2>8. MAX_LIST_ENTRIES \in Nat /\ MAX_LIST_STRUCTURED_BYTES \in Nat
    BY CeilingsAssumption
  <2> QED BY <2>3, <2>5, <2>6, <2>7, <2>8 DEF ListFits
<1> QED BY <1>1, <1>2, <1>3 DEF R

-----------------------------------------------------------------------------
(* Ceilings: matches of a text *)

LEMMA MatchesInRange ==
    ASSUME NEW line, Len(line) \in Nat, NEW query \in Seq(Nat)
    PROVE  MatchIndices(line, query) \subseteq 1 .. Len(line) + 1
<1>1. Len(query) \in Nat
  OBVIOUS
<1>2. MatchIndices(line, query) \subseteq 1 .. Len(line) - Len(query) + 1
  BY DEF MatchIndices
<1> QED BY <1>1, <1>2

LEMMA TextMatchesFinite ==
    ASSUME NEW text \in Seq(0..255), NEW query \in Seq(Nat)
    PROVE  /\ IsFiniteSet(TextMatches(text, query))
           /\ \A at \in TextMatches(text, query) : at \in Seq(Nat)
<1> DEFINE L == Len(text)
           Number(l) == Cardinality({i \in 1 .. l[1] - 1 : text[i] = Newline}) + 1
           Columns(l) == MatchIndices(SubSeq(text, l[1], l[2]), query)
           Places == (1 .. L + 1) \X (1 .. L + 1)
<1>1. L \in Nat
  OBVIOUS
<1>2. ASSUME NEW l \in Lines(text)
      PROVE  l[1] \in 1 .. L + 1 /\ l[2] \in 0 .. L
  <2> DEFINE Breaks == {0, Len(text) + 1} \cup {i \in 1..Len(text) : text[i] = Newline}
             Adjacent == {p \in Breaks \X Breaks :
                            p[1] < p[2] /\ \A d \in Breaks : d <= p[1] \/ d >= p[2]}
  <2>1. Lines(text) = {<<p[1] + 1, p[2] - 1>> : p \in Adjacent}
    BY DEF Lines
  <2>2. PICK p \in Adjacent : l = <<p[1] + 1, p[2] - 1>>
    BY <2>1
  <2>3. p[1] \in 0 .. L + 1 /\ p[2] \in 0 .. L + 1 /\ p[1] < p[2]
    BY <1>1
  <2> QED BY <1>1, <2>2, <2>3
<1>3. ASSUME NEW l \in Lines(text)
      PROVE  Number(l) \in 1 .. L + 1 /\ Columns(l) \subseteq 1 .. L + 1
  <2>1. l[1] \in 1 .. L + 1 /\ l[2] \in 0 .. L
    BY <1>2
  <2>2. Number(l) \in 1 .. L + 1
    <3> DEFINE B == {i \in 1 .. l[1] - 1 : text[i] = Newline}
    <3>1. B \in SUBSET (1..L)
      BY <1>1, <2>1
    <3>2. IsFiniteSet(1..L) /\ Cardinality(1..L) = L
      <4> HIDE DEF L
      <4>1. /\ IsFiniteSet(1..L)
            /\ Cardinality(1..L) = IF 1 > L THEN 0 ELSE L - 1 + 1
        BY <1>1, FS_Interval
      <4> QED BY <1>1, <4>1
    <3> HIDE DEF B
    <3>3. IsFiniteSet(B) /\ Cardinality(B) <= L
      BY <3>1, <3>2, FS_Subset
    <3>4. Cardinality(B) \in Nat
      BY <3>3, FS_CardinalityType
    <3>5. Cardinality(B) + 1 \in 1 .. L + 1
      BY <1>1, <3>3, <3>4
    <3> QED BY <3>5 DEF B
  <2>3. Columns(l) \subseteq 1 .. L + 1
    <3> DEFINE line == SubSeq(text, l[1], l[2])
    <3>1. Len(line) \in Nat /\ Len(line) <= L
      BY <1>1, <2>1
    <3>2. Columns(l) \subseteq 1 .. Len(line) + 1
      <4> HIDE DEF line
      <4>1. MatchIndices(line, query) \subseteq 1 .. Len(line) + 1
        BY <3>1, MatchesInRange
      <4> QED BY <4>1 DEF line
    <3> HIDE DEF line
    <3> QED BY <1>1, <3>1, <3>2
  <2> QED BY <2>2, <2>3
<1>4. TextMatches(text, query) = UNION {{<<Number(l), i>> : i \in Columns(l)} : l \in Lines(text)}
  BY DEF TextMatches
<1>5. TextMatches(text, query) \in SUBSET Places
  <2> HIDE DEF L, Number, Columns
  <2> QED BY <1>3, <1>4
<1>6. IsFiniteSet(Places)
  <2>1. IsFiniteSet(1 .. L + 1)
    BY <1>1, FS_Interval
  <2> HIDE DEF L
  <2> QED BY <2>1, FS_Product
<1>7. \A at \in Places : at \in Seq(Nat)
  <2>1. \A i, k \in Nat : <<i, k>> \in Seq(Nat)
    OBVIOUS
  <2>2. \A at \in Places : at = <<at[1], at[2]>> /\ at[1] \in Nat /\ at[2] \in Nat
    BY <1>1
  <2> QED BY <2>1, <2>2, Zenon
<1> HIDE DEF Places
<1> QED BY <1>5, <1>6, <1>7, FS_Subset

-----------------------------------------------------------------------------
(* Ceilings: steps of a traversal *)

\* Two walks that count the same.
Tally(v, w) ==
    /\ v.found = w.found /\ v.pending = w.pending
    /\ v.used = w.used /\ v.examined = w.examined /\ v.files = w.files /\ v.scanned = w.scanned

LEMMA TallyHeld ==
    ASSUME NEW tool, NEW w, Held(tool, w), NEW v, Tally(v, w)
    PROVE  Held(tool, v)
BY DEF Tally, Held, ListHeld, FindHeld, SearchHeld

\* What leaves the tally alone.
LEMMA TallyKeeps ==
    ASSUME NEW w, WalkSafe(w), NEW q, NEW h, NEW l, NEW t
    PROVE  /\ Tally([w EXCEPT !.queue = q], w)
           /\ Tally([w EXCEPT !.here = h], w)
           /\ Tally([w EXCEPT !.truncated = t], w)
           /\ Tally([w EXCEPT !.listing = l], w)
           /\ Tally([w EXCEPT !.listing = l, !.truncated = t], w)
           /\ Tally([w EXCEPT !.queue = q, !.truncated = t], w)
           /\ Tally([w EXCEPT !.queue = q, !.here = h, !.listing = l], w)
<1>1. Tally([w EXCEPT !.queue = q], w) /\ Tally([w EXCEPT !.here = h], w)
  BY Fields DEF WalkSafe, Tally
<1>2. Tally([w EXCEPT !.truncated = t], w) /\ Tally([w EXCEPT !.listing = l], w)
  BY Fields DEF WalkSafe, Tally
<1>3. /\ Tally([w EXCEPT !.listing = l, !.truncated = t], w)
      /\ Tally([w EXCEPT !.queue = q, !.truncated = t], w)
  BY Fields DEF WalkSafe, Tally
<1>4. Tally([w EXCEPT !.queue = q, !.here = h, !.listing = l], w)
  BY Fields DEF WalkSafe, Tally
<1> QED BY <1>1, <1>2, <1>3, <1>4

LEMMA QueuedTally ==
    ASSUME NEW w, WalkSafe(w), NEW e
    PROVE  Tally(Queued(w, e), w)
<1> DEFINE child == OpenChildDirectory(w.here.dir, e.name)
           next == Append(w.queue, [dir |-> child, depth |-> w.here.depth + 1,
                                    path |-> Append(w.here.path, e.name)])
<1>1. Queued(w, e) = w \/ Queued(w, e) = [w EXCEPT !.queue = next]
  BY DEF Queued
<1>2. Tally(w, w)
  BY DEF Tally
<1> HIDE DEF next
<1>3. Tally([w EXCEPT !.queue = next], w)
  BY TallyKeeps
<1> QED BY <1>1, <1>2, <1>3

\* An entry has a place and a length, as it is named and as it is displayed.
LEMMA EntryItem ==
    ASSUME walk.here \in Queueable, NEW n \in Names
    PROVE  /\ Entry(n).path \in Seq(Nat) /\ Entry(n).at = <<>>
           /\ Displayed[n] = n => Encoded(Entry(n).path) \in Nat
           /\ DisplayedPath(Entry(n).path) \in Seq(Nat)
           /\ Encoded(DisplayedPath(Entry(n).path)) \in Nat
<1> DEFINE here == walk.here.path
           path == Append(here, n)
<1>1. here \in Seq(Names) /\ Entry(n).path = path /\ Entry(n).at = <<>>
  BY DEF Queueable, Entry
<1> HIDE DEF here
<1>2. path \in Seq(Names) /\ Len(path) \in Nat /\ Len(path) >= 1 /\ path[Len(path)] = n
  BY <1>1
<1> HIDE DEF path
<1>3. \A i \in 1..Len(path) : path[i] \in Names
  BY <1>2
<1>4. path \in Seq(Nat)
  <2>1. Names \subseteq Nat
    BY DisplayAssumption
  <2>2. path = [i \in 1..Len(path) |-> path[i]]
    BY <1>2
  <2>3. \A i \in 1..Len(path) : path[i] \in Nat
    BY <1>3, <2>1
  <2> QED BY <1>2, <2>2, <2>3
<1>5. /\ DisplayedPath(path) \in Seq(Nat) /\ Len(DisplayedPath(path)) = Len(path)
      /\ DisplayedPath(path)[Len(path)] = Displayed[n]
  <2>1. DOMAIN path = 1..Len(path) /\ Len(path) \in 1..Len(path)
    BY <1>2
  <2>2. DisplayedPath(path) = [i \in 1..Len(path) |-> Displayed[path[i]]]
    BY <2>1 DEF DisplayedPath
  <2>3. \A i \in 1..Len(path) : Displayed[path[i]] \in Nat
    BY <1>3, DisplayAssumption
  <2>4. DisplayedPath(path) \in [1..Len(path) -> Nat]
    BY <2>2, <2>3
  <2>5. DisplayedPath(path) \in Seq(Nat) /\ Len(DisplayedPath(path)) = Len(path)
    BY <1>2, <2>4
  <2>6. DisplayedPath(path)[Len(path)] = Displayed[n]
    BY <1>2, <2>1, <2>2
  <2> QED BY <2>5, <2>6
<1>6. EncodedBytes[Displayed[n]] \in Nat
  BY DisplayAssumption
<1>7. Encoded(DisplayedPath(path)) \in Nat
  BY <1>2, <1>5, <1>6 DEF Encoded
<1>8. Displayed[n] = n => Encoded(path) \in Nat
  BY <1>2, <1>6 DEF Encoded
<1> QED BY <1>1, <1>4, <1>5, <1>7, <1>8

LEMMA Inserted ==
    ASSUME NEW S, Items(S), NEW e, e.path \in Seq(Nat), e.at \in Seq(Nat), Encoded(e.path) \in Nat
    PROVE  /\ Items(S \cup {e})
           /\ Cardinality(S \cup {e}) <= Cardinality(S) + 1
           /\ ListBytes(S \cup {e}) <=
                ListBytes(S) + Encoded(e.path) + (IF S = {} THEN 0 ELSE 1)
<1>1. /\ ListBytes(S) \in Nat /\ Cardinality(S) \in Nat
  BY BytesBySpread
<1>2. CASE e \in S
  <2> DEFINE k == Cardinality(S)
             b == ListBytes(S)
             c == Encoded(e.path)
             d == IF S = {} THEN 0 ELSE 1
  <2>1. S \cup {e} = S
    BY <1>2
  <2>2. k <= k + 1 /\ b <= b + c + d
    <3>1. k \in Nat /\ b \in Nat /\ c \in Nat /\ d \in {0, 1}
      BY <1>1
    <3> HIDE DEF k, b, c, d
    <3> QED BY <3>1
  <2> HIDE DEF k, b, c, d
  <2>3. Items(S \cup {e}) /\ Cardinality(S \cup {e}) <= k + 1 /\ ListBytes(S \cup {e}) <= b + c + d
    BY <2>1, <2>2 DEF k, b
  <2> QED BY <2>3 DEF k, b, c, d
<1>3. CASE e \notin S
  <2>1. /\ Items(S \cup {e})
        /\ Cardinality(S \cup {e}) = Cardinality(S) + 1
        /\ ListBytes(S \cup {e}) = ListBytes(S) + Encoded(e.path) + (IF S = {} THEN 0 ELSE 1)
    BY <1>3, OneMore
  <2> QED BY <1>1, <2>1
<1> QED BY <1>2, <1>3

LEMMA ListExamineHeld ==
    ASSUME WalkSafe(walk), walk.here \in Queueable, Held("list_directory", walk),
           NEW n \in Names \cup Reserved \cup {Dot}
    PROVE  Held("list_directory", ListExamine(n))
<1> DEFINE entry == [Entry(n) EXCEPT !.path = DisplayedPath(@)]
           inserted == {e \in walk.pending : e.path # entry.path} \cup {entry}
           kept == PopUntilFits(inserted, ListFits)
           skipped == Skipped(walk, n)
           next == [skipped EXCEPT !.pending = kept,
                                   !.truncated = skipped.truncated \/ kept # inserted]
<1>1. Tally(skipped, walk) /\ WalkSafe(skipped)
  BY TallyKeeps, CountersKeep DEF Skipped, Keeps
<1>2. CASE ~ IsEntry(n) \/ entries[walk.here.dir][n] \in Links
  <2>1. ListExamine(n) = skipped
    BY <1>2 DEF ListExamine
  <2> QED BY <1>1, <2>1, TallyHeld
<1>3. CASE ~(~ IsEntry(n) \/ entries[walk.here.dir][n] \in Links)
  <2>1. ListExamine(n) = next
    BY <1>3 DEF ListExamine
  <2>2. n \in Names
    BY <1>3 DEF IsEntry
  <2>3. /\ entry.path = DisplayedPath(Entry(n).path) /\ entry.at = Entry(n).at
    BY DEF Entry
  <2>4. entry.path \in Seq(Nat) /\ entry.at \in Seq(Nat) /\ Encoded(entry.path) \in Nat
    <3> HIDE DEF entry
    <3>1. <<>> \in Seq(Nat)
      OBVIOUS
    <3> QED BY <2>2, <2>3, <3>1, EntryItem
  <2>5. /\ Items(walk.found) /\ Items(walk.pending) /\ ListHeld(walk)
        /\ walk.used \in Nat /\ walk.examined \in Nat /\ walk.files \in Nat /\ walk.scanned \in Nat
    BY DEF Held
  <2>6. Items(inserted)
    <3> DEFINE others == {e \in walk.pending : e.path # entry.path}
    <3> HIDE DEF entry
    <3>1. others \subseteq walk.pending
      OBVIOUS
    <3> HIDE DEF others
    <3>2. Items(others)
      BY <2>5, <3>1, PartOfList
    <3>3. Items(others \cup {entry})
      BY <2>4, <3>2, Inserted
    <3> QED BY <3>3 DEF others
  <2>7. Items(kept) /\ (kept = {} \/ ListFits(kept))
    <3> HIDE DEF inserted
    <3> QED BY <2>5, <2>6, PoppedList
  <2> HIDE DEF kept, inserted
  <2>8. /\ next.found = walk.found /\ next.pending = kept /\ next.used = walk.used
        /\ next.examined = walk.examined /\ next.files = walk.files
        /\ next.scanned = walk.scanned
    <3> HIDE DEF skipped
    <3> QED BY <1>1, Fields DEF WalkSafe, Tally
  <2> HIDE DEF next
  <2>9. /\ Cardinality(walk.found) \in Nat /\ ListBytes(walk.found) \in Nat
        /\ Cardinality(walk.pending) \in Nat /\ ListBytes(walk.pending) \in Nat
        /\ Cardinality(kept) \in Nat /\ ListBytes(kept) \in Nat
        /\ (kept = {} => Cardinality(kept) = 0)
    <3>1. kept = {} => Cardinality(kept) = 0
      BY FS_EmptySet
    <3> QED BY <2>5, <2>7, <3>1, BytesBySpread
  <2>10. MAX_LIST_ENTRIES \in Nat /\ MAX_LIST_STRUCTURED_BYTES \in Nat
    BY CeilingsAssumption
  <2>11. ListHeld(next)
    <3>1. CASE kept = {}
      BY <2>5, <2>8, <2>9, <2>10, <3>1 DEF ListHeld
    <3>2. CASE kept # {}
      BY <2>5, <2>7, <2>8, <2>9, <2>10, <3>2 DEF ListHeld, ListFits
    <3> QED BY <3>1, <3>2
  <2>12. Held("list_directory", next)
    BY <2>5, <2>7, <2>8, <2>11 DEF Held
  <2> QED BY <2>1, <2>12
<1> QED BY <1>2, <1>3

LEMMA ExamineUpToHeld ==
    ASSUME WalkSafe(walk), walk.here \in Queueable, Items(walk.pending), walk.examined \in Nat,
           NEW n \in Names \cup Reserved \cup {Dot}, NEW max \in Nat, walk.examined <= max
    PROVE  LET v == ExamineUpTo(n, max)
           IN  /\ v.found = walk.found /\ v.used = walk.used /\ v.files = walk.files
               /\ v.scanned = walk.scanned
               /\ Items(v.pending) /\ v.examined \in Nat /\ v.examined <= max
<1> DEFINE counted == IF n \in Reserved \cup {Dot} THEN walk
                      ELSE [walk EXCEPT !.examined = walk.examined + 1]
           skipped == Skipped(counted, n)
           kept == /\ IsEntry(n) /\ Displayed[n] = n
                   /\ entries[walk.here.dir][n] \in Files \cup Dirs
           Fine(v) == /\ v.found = walk.found /\ v.used = walk.used /\ v.files = walk.files
                      /\ v.scanned = walk.scanned
                      /\ Items(v.pending) /\ v.examined \in Nat /\ v.examined <= max
<1> SUFFICES Fine(ExamineUpTo(n, max))
  OBVIOUS
<1>1. CASE walk.examined >= max
  <2> DEFINE stop == [walk EXCEPT !.listing = {}, !.truncated = TRUE]
  <2>1. ExamineUpTo(n, max) = stop
    BY <1>1 DEF ExamineUpTo
  <2>2. Tally(stop, walk)
    BY TallyKeeps
  <2> HIDE DEF stop
  <2>3. Fine(stop)
    BY <2>2 DEF Tally
  <2> QED BY <2>1, <2>3
<1>2. CASE ~(walk.examined >= max)
  <2>1. /\ WalkSafe(counted)
        /\ counted.found = walk.found /\ counted.used = walk.used /\ counted.files = walk.files
        /\ counted.scanned = walk.scanned /\ counted.pending = walk.pending
        /\ counted.examined \in Nat /\ counted.examined <= max
    <3> DEFINE more == [walk EXCEPT !.examined = walk.examined + 1]
    <3>1. WalkSafe(more)
      BY CountersKeep DEF Keeps
    <3>2. /\ more.found = walk.found /\ more.used = walk.used /\ more.files = walk.files
          /\ more.scanned = walk.scanned /\ more.pending = walk.pending
          /\ more.examined = walk.examined + 1
      BY Fields DEF WalkSafe
    <3> HIDE DEF more
    <3>3. counted = walk \/ counted = more
      BY DEF more
    <3> HIDE DEF counted
    <3> QED BY <1>2, <3>1, <3>2, <3>3
  <2> HIDE DEF counted
  <2>2. WalkSafe(skipped) /\ Tally(skipped, counted)
    BY <2>1, CountersKeep, TallyKeeps DEF Skipped, Keeps
  <2>3. CASE kept
    <3> DEFINE next == [skipped EXCEPT !.pending = skipped.pending \cup {Entry(n)}]
    <3>1. ExamineUpTo(n, max) = next
      BY <1>2, <2>3 DEF ExamineUpTo, counted
    <3>2. n \in Names
      BY <2>3 DEF IsEntry
    <3>3. /\ Entry(n).path \in Seq(Nat) /\ Entry(n).at \in Seq(Nat)
          /\ Encoded(Entry(n).path) \in Nat
      <4>1. <<>> \in Seq(Nat)
        OBVIOUS
      <4> QED BY <2>3, <3>2, <4>1, EntryItem
    <3> HIDE DEF skipped
    <3>4. skipped.pending = walk.pending
      BY <2>1, <2>2 DEF Tally
    <3>5. Items(skipped.pending \cup {Entry(n)})
      BY <3>3, <3>4, Inserted
    <3>6. /\ next.found = skipped.found /\ next.used = skipped.used /\ next.files = skipped.files
          /\ next.scanned = skipped.scanned /\ next.examined = skipped.examined
          /\ next.pending = skipped.pending \cup {Entry(n)}
      BY <2>2, Fields DEF WalkSafe
    <3> HIDE DEF next
    <3>7. Fine(next)
      BY <2>1, <2>2, <3>5, <3>6 DEF Tally
    <3> QED BY <3>1, <3>7
  <2>4. CASE ~ kept
    <3>1. ExamineUpTo(n, max) = skipped
      BY <1>2, <2>4 DEF ExamineUpTo, counted
    <3> HIDE DEF skipped
    <3>2. Fine(skipped)
      BY <2>1, <2>2 DEF Tally
    <3> QED BY <3>1, <3>2
  <2> HIDE DEF kept
  <2> QED BY <2>3, <2>4
<1> QED BY <1>1, <1>2

\* Which of the three traversals a step is one of.
LEMMA ByTool ==
    ASSUME NEW n, NEW w, NEW e
    PROVE  /\ call.tool = "list_directory" =>
                /\ Examined(n) = ListExamine(n) /\ Processed(w, e) = ListProcess(w, e)
                /\ Published = ListDirectory
           /\ call.tool = "find_paths" =>
                /\ Examined(n) = FindExamine(n) /\ Processed(w, e) = FindProcess(w, e)
                /\ Published = FindPaths
           /\ call.tool = "search_text" =>
                /\ Examined(n) = SearchExamine(n) /\ Processed(w, e) = SearchProcess(w, e)
                /\ Published = SearchText
<1>1. /\ "list_directory" # "find_paths" /\ "list_directory" # "search_text"
      /\ "find_paths" # "search_text"
  OBVIOUS
<1>2. ASSUME call.tool = "list_directory"
      PROVE  /\ Examined(n) = ListExamine(n) /\ Processed(w, e) = ListProcess(w, e)
             /\ Published = ListDirectory
  <2>1. call.tool # "find_paths"
    BY <1>1, <1>2
  <2>2. Examined(n) = ListExamine(n)
    BY <1>2, <2>1, Zenon DEF Examined
  <2>3. Processed(w, e) = ListProcess(w, e)
    BY <1>2, <2>1, Zenon DEF Processed
  <2>4. Published = ListDirectory
    BY <1>2, <2>1, Zenon DEF Published
  <2> QED BY <2>2, <2>3, <2>4
<1>3. ASSUME call.tool = "find_paths"
      PROVE  /\ Examined(n) = FindExamine(n) /\ Processed(w, e) = FindProcess(w, e)
             /\ Published = FindPaths
  <2>1. call.tool # "list_directory"
    BY <1>1, <1>3
  <2>2. Examined(n) = FindExamine(n)
    BY <1>3, <2>1, Zenon DEF Examined
  <2>3. Processed(w, e) = FindProcess(w, e)
    BY <1>3, <2>1, Zenon DEF Processed
  <2>4. Published = FindPaths
    BY <1>3, <2>1, Zenon DEF Published
  <2> QED BY <2>2, <2>3, <2>4
<1>4. ASSUME call.tool = "search_text"
      PROVE  /\ Examined(n) = SearchExamine(n) /\ Processed(w, e) = SearchProcess(w, e)
             /\ Published = SearchText
  <2>1. call.tool # "list_directory" /\ call.tool # "find_paths"
    BY <1>1, <1>4
  <2>2. Examined(n) = SearchExamine(n)
    BY <2>1, Zenon DEF Examined
  <2>3. Processed(w, e) = SearchProcess(w, e)
    BY <2>1, Zenon DEF Processed
  <2>4. Published = SearchText
    BY <2>1, Zenon DEF Published
  <2> QED BY <2>2, <2>3, <2>4
<1> QED BY <1>2, <1>3, <1>4

LEMMA ExaminedHeld ==
    ASSUME WalkSafe(walk), walk.here \in Queueable, call.tool \in Walkers, Held(call.tool, walk),
           NEW n \in Names \cup Reserved \cup {Dot}
    PROVE  Held(call.tool, Examined(n))
<1>1. CASE call.tool = "list_directory"
  <2>1. Held("list_directory", ListExamine(n))
    BY <1>1, ListExamineHeld
  <2> QED BY <1>1, <2>1, ByTool
<1>2. /\ Items(walk.found) /\ Items(walk.pending)
      /\ walk.used \in Nat /\ walk.examined \in Nat /\ walk.files \in Nat /\ walk.scanned \in Nat
  BY DEF Held
<1>3. CASE call.tool = "find_paths"
  <2>1. FindHeld(walk) /\ MAX_FIND_ENTRIES \in Nat
    BY <1>3, CeilingsAssumption DEF Held
  <2> DEFINE v == ExamineUpTo(n, MAX_FIND_ENTRIES)
  <2>2. /\ v.found = walk.found /\ v.used = walk.used /\ v.files = walk.files
        /\ v.scanned = walk.scanned
        /\ Items(v.pending) /\ v.examined \in Nat /\ v.examined <= MAX_FIND_ENTRIES
    BY <1>2, <2>1, ExamineUpToHeld DEF FindHeld
  <2>3. Examined(n) = v
    BY <1>3, ByTool DEF FindExamine
  <2> HIDE DEF v
  <2>4. FindHeld(v)
    BY <2>1, <2>2 DEF FindHeld
  <2>5. Held("find_paths", v)
    BY <1>2, <2>2, <2>4 DEF Held
  <2> QED BY <1>3, <2>3, <2>5
<1>4. CASE call.tool = "search_text"
  <2>1. SearchHeld(walk) /\ MAX_SEARCH_ENTRIES \in Nat
    BY <1>4, CeilingsAssumption DEF Held
  <2> DEFINE v == ExamineUpTo(n, MAX_SEARCH_ENTRIES)
  <2>2. /\ v.found = walk.found /\ v.used = walk.used /\ v.files = walk.files
        /\ v.scanned = walk.scanned
        /\ Items(v.pending) /\ v.examined \in Nat /\ v.examined <= MAX_SEARCH_ENTRIES
    BY <1>2, <2>1, ExamineUpToHeld DEF SearchHeld
  <2>3. Examined(n) = v
    BY <1>4, ByTool DEF SearchExamine
  <2> HIDE DEF v
  <2>4. SearchHeld(v)
    BY <2>1, <2>2 DEF SearchHeld
  <2>5. Held("search_text", v)
    BY <1>2, <2>2, <2>4 DEF Held
  <2> QED BY <1>4, <2>3, <2>5
<1> QED BY <1>1, <1>3, <1>4 DEF Walkers

\* The walk without a candidate that is processed.
Without(e) == [walk EXCEPT !.pending = walk.pending \ {e}]

LEMMA WithoutFacts ==
    ASSUME WalkSafe(walk), NEW e
    PROVE  /\ WalkSafe(Without(e)) /\ Without(e).here = walk.here
           /\ Without(e).pending = walk.pending \ {e}
           /\ Without(e).found = walk.found /\ Without(e).used = walk.used
           /\ Without(e).examined = walk.examined /\ Without(e).files = walk.files
           /\ Without(e).scanned = walk.scanned
<1>1. WalkSafe(Without(e)) /\ Without(e).here = walk.here
  BY PendingKeep DEF Without, WalkSafe, Keeps
<1>2. /\ Without(e).pending = walk.pending \ {e}
      /\ Without(e).found = walk.found /\ Without(e).used = walk.used
      /\ Without(e).examined = walk.examined /\ Without(e).files = walk.files
      /\ Without(e).scanned = walk.scanned
  BY Fields DEF Without, WalkSafe
<1> QED BY <1>1, <1>2

LEMMA WithoutItems ==
    ASSUME Items(walk.pending), NEW e \in walk.pending
    PROVE  LET left == walk.pending \ {e}
           IN  /\ Items(left) /\ Cardinality(left) \in Nat /\ ListBytes(left) \in Nat
               /\ Cardinality(walk.pending) = Cardinality(left) + 1
               /\ ListBytes(walk.pending) =
                    ListBytes(left) + Encoded(e.path) + (IF left = {} THEN 0 ELSE 1)
               /\ e.path \in Seq(Nat) /\ Encoded(e.path) \in Nat
<1> DEFINE left == walk.pending \ {e}
<1>1. e.path \in Seq(Nat) /\ e.at \in Seq(Nat) /\ Encoded(e.path) \in Nat
  BY DEF Items
<1>2. left \subseteq walk.pending /\ e \notin left /\ walk.pending = left \cup {e}
  OBVIOUS
<1>3. Items(left)
  BY <1>2, PartOfList
<1> HIDE DEF left
<1>4. /\ Cardinality(left \cup {e}) = Cardinality(left) + 1
      /\ ListBytes(left \cup {e}) =
           ListBytes(left) + Encoded(e.path) + (IF left = {} THEN 0 ELSE 1)
  BY <1>1, <1>2, <1>3, OneMore
<1>5. Cardinality(left) \in Nat /\ ListBytes(left) \in Nat
  BY <1>3, BytesBySpread
<1>6. /\ Items(left) /\ Cardinality(left) \in Nat /\ ListBytes(left) \in Nat
      /\ Cardinality(walk.pending) = Cardinality(left) + 1
      /\ ListBytes(walk.pending) =
           ListBytes(left) + Encoded(e.path) + (IF left = {} THEN 0 ELSE 1)
      /\ e.path \in Seq(Nat) /\ Encoded(e.path) \in Nat
  BY <1>1, <1>2, <1>3, <1>4, <1>5
<1> QED BY <1>6 DEF left

LEMMA ListProcessHeld ==
    ASSUME WalkSafe(walk), Held("list_directory", walk), NEW e \in walk.pending,
           e.node \in Safe
    PROVE  Held("list_directory", ListProcess(Without(e), e))
<1> DEFINE w == Without(e)
           m == Found(e.path, e.node, <<>>)
           found == w.found \cup {m}
           used == w.used + Encoded(e.path) + (IF w.found = {} THEN 0 ELSE 1)
           next == [w EXCEPT !.used = used, !.found = found]
           left == walk.pending \ {e}
<1>1. ListProcess(w, e) = Queued(next, e)
  BY DEF ListProcess
<1>2. /\ WalkSafe(w) /\ w.pending = left /\ w.found = walk.found /\ w.used = walk.used
      /\ w.examined = walk.examined /\ w.files = walk.files /\ w.scanned = walk.scanned
  BY WithoutFacts
<1>3. /\ Items(walk.found) /\ Items(walk.pending) /\ ListHeld(walk)
      /\ walk.used \in Nat /\ walk.examined \in Nat /\ walk.files \in Nat /\ walk.scanned \in Nat
  BY DEF Held
<1>4. /\ Items(left) /\ Cardinality(left) \in Nat /\ ListBytes(left) \in Nat
      /\ Cardinality(walk.pending) = Cardinality(left) + 1
      /\ ListBytes(walk.pending) =
           ListBytes(left) + Encoded(e.path) + (IF left = {} THEN 0 ELSE 1)
      /\ e.path \in Seq(Nat) /\ Encoded(e.path) \in Nat
  BY <1>3, WithoutItems
<1>5. m.path = e.path /\ m.at = <<>> /\ m.node = e.node
  BY DEF Found
<1> HIDE DEF w, m, left
<1>6. /\ Items(found)
      /\ Cardinality(found) <= Cardinality(walk.found) + 1
      /\ ListBytes(found) <=
           ListBytes(walk.found) + Encoded(e.path) + (IF walk.found = {} THEN 0 ELSE 1)
  <2>1. m.path \in Seq(Nat) /\ m.at \in Seq(Nat) /\ Encoded(m.path) = Encoded(e.path)
    BY <1>4, <1>5
  <2> QED BY <1>2, <1>3, <1>4, <2>1, Inserted
<1>7. \A x \in found : x.node \in Safe
  BY <1>2, <1>5 DEF WalkSafe
<1>8. found # {}
  OBVIOUS
<1> HIDE DEF found
<1>9. WalkSafe(next)
  BY <1>2, <1>7, FoundKeep DEF Keeps
<1>10. /\ next.found = found /\ next.pending = left /\ next.used = used
       /\ next.examined = walk.examined /\ next.files = walk.files
       /\ next.scanned = walk.scanned
  <2> HIDE DEF used
  <2> QED BY <1>2, Fields DEF WalkSafe
<1>11. /\ Cardinality(walk.found) \in Nat /\ ListBytes(walk.found) \in Nat
       /\ Cardinality(found) \in Nat /\ ListBytes(found) \in Nat
  BY <1>3, <1>6, BytesBySpread
<1>12. MAX_LIST_ENTRIES \in Nat /\ MAX_LIST_STRUCTURED_BYTES \in Nat
  BY CeilingsAssumption
<1>13. walk.pending # {}
  OBVIOUS
<1>14. used = walk.used + Encoded(e.path) + (IF walk.found = {} THEN 0 ELSE 1) /\ used \in Nat
  BY <1>2, <1>3, <1>4
<1> HIDE DEF next, used
<1>15. ListBytes(found) <= used
  <2> DEFINE a == ListBytes(found)
             b == ListBytes(walk.found)
             c == Encoded(e.path)
             f == IF walk.found = {} THEN 0 ELSE 1
             u == walk.used
  <2>1. b <= u
    BY <1>3 DEF ListHeld
  <2>2. /\ a \in Nat /\ b \in Nat /\ c \in Nat /\ f \in Nat /\ u \in Nat
        /\ a <= b + c + f /\ used = u + c + f
    BY <1>3, <1>4, <1>6, <1>11, <1>14
  <2> HIDE DEF a, b, c, f, u
  <2>3. a <= used
    BY <2>1, <2>2
  <2> QED BY <2>3 DEF a
<1>16. Cardinality(found) + Cardinality(left) <= MAX_LIST_ENTRIES
  BY <1>3, <1>4, <1>6, <1>11, <1>12 DEF ListHeld
<1>17. used + (IF left = {} THEN 0 ELSE ListBytes(left) + 1) <= MAX_LIST_STRUCTURED_BYTES
  <2>1. walk.used + ListBytes(walk.pending) + (IF walk.found = {} THEN 0 ELSE 1)
           <= MAX_LIST_STRUCTURED_BYTES
    <3> DEFINE f == IF walk.found = {} THEN 0 ELSE 1
               b == ListBytes(walk.pending)
    <3>1. walk.used + (b + f) <= MAX_LIST_STRUCTURED_BYTES
      <4>1. walk.used + (IF walk.pending = {} THEN 0 ELSE b + f) <= MAX_LIST_STRUCTURED_BYTES
        BY <1>3 DEF ListHeld
      <4> HIDE DEF b, f
      <4> QED BY <1>13, <4>1
    <3>2. b \in Nat /\ f \in Nat
      BY <1>3, BytesBySpread
    <3> HIDE DEF b, f
    <3>3. walk.used + b + f <= MAX_LIST_STRUCTURED_BYTES
      BY <1>3, <3>1, <3>2
    <3> QED BY <3>3 DEF b, f
  <2> DEFINE a == walk.used
             b == ListBytes(walk.pending)
             c == Encoded(e.path)
             d == ListBytes(left)
             f == IF walk.found = {} THEN 0 ELSE 1
             max == MAX_LIST_STRUCTURED_BYTES
  <2>2. /\ a \in Nat /\ c \in Nat /\ d \in Nat /\ f \in Nat /\ max \in Nat
        /\ a + b + f <= max /\ used = a + c + f /\ b = d + c + (IF left = {} THEN 0 ELSE 1)
    BY <1>3, <1>4, <1>12, <1>14, <2>1
  <2>3. used + (IF left = {} THEN 0 ELSE d + 1) <= max
    <3> HIDE DEF a, b, c, d, f, max
    <3>1. CASE left = {}
      BY <2>2, <3>1
    <3>2. CASE left # {}
      BY <2>2, <3>2
    <3> QED BY <3>1, <3>2
  <2> QED BY <2>3
<1>18. ListHeld(next)
  BY <1>8, <1>10, <1>15, <1>16, <1>17 DEF ListHeld
<1>19. Held("list_directory", next)
  BY <1>3, <1>4, <1>6, <1>10, <1>14, <1>18 DEF Held
<1>20. Tally(Queued(next, e), next)
  BY <1>9, QueuedTally
<1>21. Held("list_directory", Queued(next, e))
  BY <1>19, <1>20, TallyHeld
<1> QED BY <1>1, <1>21 DEF w

LEMMA FindProcessHeld ==
    ASSUME WalkSafe(walk), Held("find_paths", walk), NEW e \in walk.pending, e.node \in Safe
    PROVE  Held("find_paths", FindProcess(Without(e), e))
<1> DEFINE w == Without(e)
           m == Found(e.path, e.node, <<>>)
           found == w.found \cup {m}
           matched == [w EXCEPT !.found = found]
           matches == NameContains(e.name, call.query) /\ FilterMatches(call.filter, e.node)
           next == IF matches THEN matched ELSE w
           left == walk.pending \ {e}
<1>1. /\ WalkSafe(w) /\ w.pending = left /\ w.found = walk.found /\ w.used = walk.used
      /\ w.examined = walk.examined /\ w.files = walk.files /\ w.scanned = walk.scanned
  BY WithoutFacts
<1>2. /\ Items(walk.found) /\ Items(walk.pending) /\ FindHeld(walk)
      /\ walk.used \in Nat /\ walk.examined \in Nat /\ walk.files \in Nat /\ walk.scanned \in Nat
  BY DEF Held
<1>3. Items(left) /\ e.path \in Seq(Nat) /\ Encoded(e.path) \in Nat
  BY <1>2, WithoutItems
<1>4. m.path = e.path /\ m.at = <<>> /\ m.node = e.node
  BY DEF Found
<1>5. MAX_FIND_MATCHES \in Nat /\ Cardinality(walk.found) \in Nat
  BY <1>2, CeilingsAssumption, BytesBySpread
<1>6. CASE Cardinality(w.found) >= MAX_FIND_MATCHES
  <2> DEFINE stop == [w EXCEPT !.pending = {}, !.queue = <<>>, !.truncated = TRUE]
  <2>1. FindProcess(w, e) = stop
    BY <1>6 DEF FindProcess
  <2> HIDE DEF w
  <2>2. /\ stop.found = walk.found /\ stop.pending = {} /\ stop.used = walk.used
        /\ stop.examined = walk.examined /\ stop.files = walk.files
        /\ stop.scanned = walk.scanned
    BY <1>1, Fields DEF WalkSafe
  <2> HIDE DEF stop
  <2>3. FindHeld(stop)
    BY <1>2, <2>2 DEF FindHeld
  <2>4. Held("find_paths", stop)
    BY <1>2, <2>2, <2>3, EmptyBytes DEF Held
  <2> QED BY <2>1, <2>4 DEF w
<1>7. CASE ~(Cardinality(w.found) >= MAX_FIND_MATCHES)
  <2>1. FindProcess(w, e) = Queued(next, e)
    BY <1>7 DEF FindProcess
  <2> HIDE DEF w, m, left
  <2>2. Items(found) /\ Cardinality(found) <= Cardinality(walk.found) + 1
    <3>1. m.path \in Seq(Nat) /\ m.at \in Seq(Nat) /\ Encoded(m.path) \in Nat
      BY <1>3, <1>4
    <3> QED BY <1>1, <1>2, <3>1, Inserted
  <2>3. \A x \in found : x.node \in Safe
    BY <1>1, <1>4 DEF WalkSafe
  <2> HIDE DEF found
  <2>4. Cardinality(found) <= MAX_FIND_MATCHES
    <3>1. Cardinality(found) \in Nat
      BY <2>2, BytesBySpread
    <3> QED BY <1>1, <1>5, <1>7, <2>2, <3>1
  <2>5. WalkSafe(matched)
    BY <1>1, <2>3, FoundKeep DEF Keeps
  <2>6. /\ matched.found = found /\ matched.pending = left /\ matched.used = walk.used
        /\ matched.examined = walk.examined /\ matched.files = walk.files
        /\ matched.scanned = walk.scanned
    BY <1>1, Fields DEF WalkSafe
  <2> HIDE DEF matched
  <2>7. Held("find_paths", matched)
    <3>1. FindHeld(matched)
      BY <1>2, <2>4, <2>6 DEF FindHeld
    <3> QED BY <1>2, <1>3, <2>2, <2>6, <3>1 DEF Held
  <2>8. Held("find_paths", w)
    <3>1. FindHeld(w)
      BY <1>1, <1>2 DEF FindHeld
    <3> QED BY <1>1, <1>2, <1>3, <3>1 DEF Held
  <2>9. next = matched \/ next = w
    <3> HIDE DEF matches
    <3> QED OBVIOUS
  <2> HIDE DEF next
  <2>10. WalkSafe(next) /\ Held("find_paths", next)
    BY <1>1, <2>5, <2>7, <2>8, <2>9
  <2>11. Tally(Queued(next, e), next)
    BY <2>10, QueuedTally
  <2>12. Held("find_paths", Queued(next, e))
    BY <2>10, <2>11, TallyHeld
  <2> QED BY <2>1, <2>12 DEF w
<1> QED BY <1>6, <1>7

MatchesOf(text, query, path, node) ==
    {Found(path, node, at) : at \in TextMatches(text, query)}

\* The places of a query in a file are a list to keep a part of.
LEMMA MatchItems ==
    ASSUME NEW text \in Seq(0..255), NEW query \in Seq(Nat), NEW path \in Seq(Nat),
           Encoded(path) \in Nat, NEW node
    PROVE  Items(MatchesOf(text, query, path, node))
<1> DEFINE places == TextMatches(text, query)
           all == {Found(path, node, at) : at \in places}
           f == [at \in places |-> Found(path, node, at)]
<1>1. IsFiniteSet(places) /\ \A at \in places : at \in Seq(Nat)
  BY TextMatchesFinite
<1> HIDE DEF places
<1>2. f \in Surjection(places, all)
  <2>1. f \in [places -> all] /\ \A m \in all : \E at \in places : f[at] = m
    OBVIOUS
  <2> QED BY <2>1 DEF Surjection
<1>3. IsFiniteSet(all)
  <2> HIDE DEF f, all
  <2> QED BY <1>1, <1>2, FS_Surjection
<1>4. \A m \in all : m.path \in Seq(Nat) /\ m.at \in Seq(Nat) /\ Encoded(m.path) \in Nat
  BY <1>1 DEF Found
<1>5. Items(all)
  BY <1>3, <1>4 DEF Items
<1> QED BY <1>5 DEF places, MatchesOf

LEMMA JoinItems ==
    ASSUME NEW S, NEW R, Items(S), Items(R)
    PROVE  Items(S \cup R) /\ Cardinality(S \cup R) <= Cardinality(S) + Cardinality(R)
<1>1. IsFiniteSet(S) /\ IsFiniteSet(R)
  BY DEF Items
<1>2. /\ IsFiniteSet(S \cup R)
      /\ Cardinality(S \cup R) = Cardinality(S) + Cardinality(R) - Cardinality(S \cap R)
  BY <1>1, FS_Union
<1>3. IsFiniteSet(S \cap R)
  BY <1>1, FS_Intersection
<1>4. Cardinality(S) \in Nat /\ Cardinality(R) \in Nat /\ Cardinality(S \cap R) \in Nat
  BY <1>1, <1>3, FS_CardinalityType
<1>5. Items(S \cup R)
  BY <1>2 DEF Items
<1> QED BY <1>2, <1>4, <1>5

LEMMA ScanHeld ==
    ASSUME WalkSafe(walk), Held("search_text", walk), NEW e \in walk.pending,
           ~ SearchExhausted, bytes \in [Files -> Seq(0..255)], call.query \in Seq(Nat)
    PROVE  Held("search_text", ScanSearchFile(Without(e), e))
<1> DEFINE w == Without(e)
           node == Openat(w.here.dir, e.name)
           left == MAX_SEARCH_TOTAL_BYTES - w.scanned
           limit == IF MAX_SEARCH_FILE_BYTES < left THEN MAX_SEARCH_FILE_BYTES ELSE left
           content == bytes[node]
           all == {Found(e.path, node, at) : at \in TextMatches(content, call.query)}
           room == MAX_SEARCH_MATCHES - Cardinality(w.found)
           kept == PopUntilFits(all, LAMBDA S : Cardinality(S) <= room)
           counted == [w EXCEPT !.files = w.files + 1, !.scanned = w.scanned + Len(content)]
           more == [counted EXCEPT !.found = counted.found \cup kept,
                                   !.truncated = counted.truncated \/ kept # all]
           short == [w EXCEPT !.truncated = TRUE]
<1>1. ScanSearchFile(w, e) =
         IF e.size > limit THEN short
         ELSE IF node \notin Files THEN w
         ELSE IF Len(content) > limit THEN short
         ELSE IF ~ IsUtf8(content) THEN counted
         ELSE more
  BY DEF ScanSearchFile
<1>2. /\ WalkSafe(w) /\ w.pending = walk.pending \ {e}
      /\ w.found = walk.found /\ w.used = walk.used
      /\ w.examined = walk.examined /\ w.files = walk.files /\ w.scanned = walk.scanned
  BY WithoutFacts
<1>3. /\ Items(walk.found) /\ Items(walk.pending) /\ SearchHeld(walk)
      /\ walk.used \in Nat /\ walk.examined \in Nat /\ walk.files \in Nat /\ walk.scanned \in Nat
  BY DEF Held
<1>4. Items(w.pending) /\ e.path \in Seq(Nat) /\ Encoded(e.path) \in Nat
  BY <1>2, <1>3, WithoutItems
<1>5. /\ {MAX_SEARCH_MATCHES, MAX_SEARCH_FILES, MAX_SEARCH_TOTAL_BYTES,
          MAX_SEARCH_FILE_BYTES} \subseteq Nat
      /\ Cardinality(walk.found) \in Nat
  BY <1>3, CeilingsAssumption, BytesBySpread
<1>6. /\ walk.files < MAX_SEARCH_FILES
      /\ Cardinality(walk.found) < MAX_SEARCH_MATCHES
  BY <1>3, <1>5 DEF SearchExhausted
<1> HIDE DEF w
<1>7. Held("search_text", w)
  <2>1. SearchHeld(w)
    BY <1>2, <1>3 DEF SearchHeld
  <2> QED BY <1>2, <1>3, <1>4, <2>1 DEF Held
<1>8. Held("search_text", short)
  BY <1>2, <1>7, TallyKeeps, TallyHeld
<1>9. ASSUME node \in Files, ~(Len(content) > limit)
      PROVE  Held("search_text", counted) /\ Held("search_text", more)
  <2>1. content \in Seq(0..255) /\ Len(content) \in Nat
    BY <1>9
  <2> HIDE DEF node, content
  <2>2. walk.scanned + Len(content) <= MAX_SEARCH_TOTAL_BYTES
    <3>1. left = MAX_SEARCH_TOTAL_BYTES - walk.scanned /\ left \in Int
      BY <1>2, <1>3, <1>5
    <3>2. Len(content) <= left
      <4> HIDE DEF left
      <4> QED BY <1>5, <1>9, <2>1, <3>1
    <3> HIDE DEF left, limit
    <3> QED BY <1>3, <1>5, <2>1, <3>1, <3>2
  <2>3. /\ counted.found = walk.found /\ counted.pending = w.pending
        /\ counted.used = walk.used /\ counted.examined = walk.examined
        /\ counted.files = walk.files + 1 /\ counted.scanned = walk.scanned + Len(content)
    BY <1>2, Fields DEF WalkSafe
  <2>4. WalkSafe(counted)
    BY <1>2, CountersKeep DEF Keeps
  <2> HIDE DEF counted, limit, left
  <2>5. Held("search_text", counted)
    <3>1. SearchHeld(counted)
      BY <1>3, <1>5, <1>6, <2>2, <2>3 DEF SearchHeld
    <3>2. {counted.used, counted.examined, counted.files, counted.scanned} \subseteq Nat
      BY <1>3, <2>1, <2>3
    <3> QED BY <1>3, <1>4, <2>3, <3>1, <3>2 DEF Held
  <2>6. Items(all)
    <3>1. Items(MatchesOf(content, call.query, e.path, node))
      BY <1>4, <2>1, MatchItems
    <3> QED BY <3>1 DEF MatchesOf
  <2> HIDE DEF all
  <2>7. room \in Nat
    BY <1>2, <1>5, <1>6
  <2>8. room = MAX_SEARCH_MATCHES - Cardinality(walk.found)
    BY <1>2
  <2> HIDE DEF room
  <2>9. Items(kept) /\ Cardinality(kept) <= room
    BY <2>6, <2>7, PoppedCount
  <2> HIDE DEF kept
  <2>10. /\ Items(walk.found \cup kept)
         /\ Cardinality(walk.found \cup kept) <= Cardinality(walk.found) + Cardinality(kept)
    BY <1>3, <2>9, JoinItems
  <2>11. Cardinality(walk.found \cup kept) <= MAX_SEARCH_MATCHES
    <3>1. Cardinality(kept) \in Nat /\ Cardinality(walk.found \cup kept) \in Nat
      BY <2>9, <2>10, BytesBySpread
    <3> QED BY <1>5, <2>7, <2>8, <2>9, <2>10, <3>1
  <2>12. /\ more.found = walk.found \cup kept /\ more.pending = counted.pending
         /\ more.used = counted.used /\ more.examined = counted.examined
         /\ more.files = counted.files /\ more.scanned = counted.scanned
    BY <2>3, <2>4, Fields DEF WalkSafe
  <2> HIDE DEF more
  <2>13. Held("search_text", more)
    <3>1. SearchHeld(more)
      BY <2>5, <2>11, <2>12 DEF Held, SearchHeld
    <3> QED BY <2>5, <2>10, <2>12, <3>1 DEF Held
  <2> QED BY <2>5, <2>13
<1> HIDE DEF counted, more, short, limit, content, node
<1>10. Held("search_text", ScanSearchFile(w, e))
  BY <1>1, <1>7, <1>8, <1>9
<1> QED BY <1>10 DEF w

LEMMA SearchProcessHeld ==
    ASSUME WalkSafe(walk), Held("search_text", walk), NEW e \in walk.pending,
           bytes \in [Files -> Seq(0..255)], call.query \in Seq(Nat)
    PROVE  Held("search_text", SearchProcess(Without(e), e))
<1> DEFINE w == Without(e)
           stop == [w EXCEPT !.pending = {}, !.truncated = TRUE]
<1>1. /\ WalkSafe(w) /\ w.pending = walk.pending \ {e}
      /\ w.found = walk.found /\ w.used = walk.used
      /\ w.examined = walk.examined /\ w.files = walk.files /\ w.scanned = walk.scanned
  BY WithoutFacts
<1>2. /\ Items(walk.found) /\ Items(walk.pending) /\ SearchHeld(walk)
      /\ walk.used \in Nat /\ walk.examined \in Nat /\ walk.files \in Nat /\ walk.scanned \in Nat
  BY DEF Held
<1>3. Items(w.pending)
  BY <1>1, <1>2, WithoutItems
<1>4. ~ SearchExhausted => Held("search_text", ScanSearchFile(w, e))
  BY ScanHeld
<1>5. \/ SearchProcess(w, e) = stop
      \/ SearchProcess(w, e) = Queued(w, e)
      \/ ~ SearchExhausted /\ SearchProcess(w, e) = ScanSearchFile(w, e)
  BY DEF SearchProcess
<1> HIDE DEF w
<1>6. Held("search_text", w)
  <2>1. SearchHeld(w)
    BY <1>1, <1>2 DEF SearchHeld
  <2> QED BY <1>1, <1>2, <1>3, <2>1 DEF Held
<1>7. Held("search_text", Queued(w, e))
  BY <1>1, <1>6, QueuedTally, TallyHeld
<1>8. Held("search_text", stop)
  <2>1. /\ stop.found = w.found /\ stop.pending = {} /\ stop.used = w.used
        /\ stop.examined = w.examined /\ stop.files = w.files /\ stop.scanned = w.scanned
    BY <1>1, Fields DEF WalkSafe
  <2> HIDE DEF stop
  <2>2. SearchHeld(stop)
    BY <1>6, <2>1 DEF Held, SearchHeld
  <2> QED BY <1>6, <2>1, <2>2, EmptyBytes DEF Held
<1> HIDE DEF stop
<1>9. Held("search_text", SearchProcess(w, e))
  BY <1>4, <1>5, <1>7, <1>8
<1> QED BY <1>9 DEF w

LEMMA ProcessedHeld ==
    ASSUME WalkSafe(walk), call.tool \in Walkers, Held(call.tool, walk), NEW e \in walk.pending,
           bytes \in [Files -> Seq(0..255)], call.query \in Seq(Nat)
    PROVE  Held(call.tool, Processed(Without(e), e))
<1>1. e.node \in Safe
  BY DEF WalkSafe
<1>2. CASE call.tool = "list_directory"
  <2>1. Held("list_directory", ListProcess(Without(e), e))
    BY <1>1, <1>2, ListProcessHeld
  <2> QED BY <1>2, <2>1, ByTool
<1>3. CASE call.tool = "find_paths"
  <2>1. Held("find_paths", FindProcess(Without(e), e))
    BY <1>1, <1>3, FindProcessHeld
  <2> QED BY <1>3, <2>1, ByTool
<1>4. CASE call.tool = "search_text"
  <2>1. Held("search_text", SearchProcess(Without(e), e))
    BY <1>4, SearchProcessHeld
  <2> QED BY <1>4, <2>1, ByTool
<1> QED BY <1>2, <1>3, <1>4 DEF Walkers

\* What is answered fits its budget of bytes.
LEMMA PublishedHeld ==
    ASSUME WalkSafe(walk), call.tool \in Walkers, Held(call.tool, walk)
    PROVE  /\ Held(call.tool, Published)
           /\ call.tool = "find_paths" => ListBytes(Published.found) <= MAX_FIND_STRUCTURED_BYTES
           /\ call.tool = "search_text" => ListBytes(Published.found) <= MAX_SEARCH_STRUCTURED_BYTES
<1>1. ASSUME NEW max \in Nat
      PROVE  Held(call.tool, Trimmed(max)) \/ call.tool = "list_directory"
  <2> DEFINE kept == PopUntilFits(walk.found, LAMBDA S : ListBytes(S) <= max)
             next == [walk EXCEPT !.found = kept, !.truncated = walk.truncated \/ kept # walk.found]
  <2>1. Trimmed(max) = next
    BY DEF Trimmed
  <2>2. /\ Items(walk.found) /\ Items(walk.pending)
        /\ walk.used \in Nat /\ walk.examined \in Nat /\ walk.files \in Nat /\ walk.scanned \in Nat
    BY DEF Held
  <2>3. kept \subseteq walk.found /\ Items(kept)
    BY <2>2, PoppedBytes
  <2> HIDE DEF kept
  <2>4. Cardinality(kept) <= Cardinality(walk.found)
    BY <2>2, <2>3, PartOfList
  <2>5. Cardinality(kept) \in Nat /\ Cardinality(walk.found) \in Nat
    BY <2>2, <2>3, BytesBySpread
  <2>6. /\ next.found = kept /\ next.pending = walk.pending /\ next.used = walk.used
        /\ next.examined = walk.examined /\ next.files = walk.files
        /\ next.scanned = walk.scanned
    BY Fields DEF WalkSafe
  <2> HIDE DEF next
  <2>7. CASE call.tool = "find_paths"
    <3>1. FindHeld(walk) /\ MAX_FIND_MATCHES \in Nat
      BY <2>7, CeilingsAssumption DEF Held
    <3>2. FindHeld(next)
      BY <2>4, <2>5, <2>6, <3>1 DEF FindHeld
    <3>3. Held("find_paths", next)
      BY <2>2, <2>3, <2>6, <3>2 DEF Held
    <3> QED BY <2>1, <2>7, <3>3
  <2>8. CASE call.tool = "search_text"
    <3>1. SearchHeld(walk) /\ MAX_SEARCH_MATCHES \in Nat
      BY <2>8, CeilingsAssumption DEF Held
    <3>2. SearchHeld(next)
      BY <2>4, <2>5, <2>6, <3>1 DEF SearchHeld
    <3>3. Held("search_text", next)
      BY <2>2, <2>3, <2>6, <3>2 DEF Held
    <3> QED BY <2>1, <2>8, <3>3
  <2> QED BY <2>7, <2>8 DEF Walkers
<1>2. ASSUME NEW max \in Nat
      PROVE  ListBytes(Trimmed(max).found) <= max
  <2> DEFINE kept == PopUntilFits(walk.found, LAMBDA S : ListBytes(S) <= max)
             next == [walk EXCEPT !.found = kept, !.truncated = walk.truncated \/ kept # walk.found]
  <2>1. Trimmed(max) = next
    BY DEF Trimmed
  <2>2. ListBytes(kept) <= max
    BY PoppedBytes DEF Held
  <2> HIDE DEF kept
  <2>3. next.found = kept
    BY Fields DEF WalkSafe
  <2> HIDE DEF next
  <2> QED BY <2>1, <2>2, <2>3
<1>3. MAX_FIND_STRUCTURED_BYTES \in Nat /\ MAX_SEARCH_STRUCTURED_BYTES \in Nat
  BY CeilingsAssumption
<1>4. CASE call.tool = "list_directory"
  <2>1. Published = walk
    BY <1>4, ByTool DEF ListDirectory
  <2> QED BY <1>4, <2>1
<1>5. CASE call.tool = "find_paths"
  <2>1. Published = Trimmed(MAX_FIND_STRUCTURED_BYTES)
    BY <1>5, ByTool DEF FindPaths
  <2> QED BY <1>1, <1>2, <1>3, <1>5, <2>1
<1>6. CASE call.tool = "search_text"
  <2>1. Published = Trimmed(MAX_SEARCH_STRUCTURED_BYTES)
    BY <1>6, ByTool DEF SearchText
  <2> QED BY <1>1, <1>2, <1>3, <1>6, <2>1
<1> QED BY <1>4, <1>5, <1>6 DEF Walkers

-----------------------------------------------------------------------------
(* Ceilings: the invariant *)

\* Off the traversal nothing is counted, and a walker that is refused found nothing.
LEMMA IdleStep ==
    ASSUME CInv, walk' = walk, call'.tool = call.tool, call'.query = call.query, bytes' = bytes,
           pc \notin Walking \cup {"done"} \/ call.tool \notin Walkers,
           pc' \in Walking \cup {"descend"} => pc' = "descend" /\ call.tool \in Walkers
    PROVE  CInv'
<1>1. call.tool \in Walkers => walk.found = {}
  BY DEF CInv
<1>2. ListBytes(walk.found)' = ListBytes(walk.found)
  BY DEF ListBytes
<1>3. pc' = "done" =>
        /\ call.tool = "find_paths" => ListBytes(walk.found) <= MAX_FIND_STRUCTURED_BYTES
        /\ call.tool = "search_text" => ListBytes(walk.found) <= MAX_SEARCH_STRUCTURED_BYTES
  BY <1>1, EmptyBytes, CeilingsAssumption DEF Walkers
<1>4. Held(call.tool, walk)'
  BY DEF CInv
<1>5. bytes' \in [Files -> Seq(0..255)] /\ call'.query \in Seq(Nat)
  BY DEF CInv
<1> QED BY <1>1, <1>2, <1>3, <1>4, <1>5 DEF CInv

\* A step of the traversal.
LEMMA HeldStep ==
    ASSUME CInv, UNCHANGED <<call, bytes>>, Held(call.tool, walk'), pc \in Walking \cup {"descend"},
           pc' \in Walking
    PROVE  CInv'
<1>1. Held(call.tool, walk)'
  OBVIOUS
<1>2. /\ bytes' \in [Files -> Seq(0..255)] /\ call'.query \in Seq(Nat) /\ call'.tool \in Walkers
      /\ pc' # "done"
  BY DEF CInv, Walking
<1> QED BY <1>1, <1>2 DEF CInv

LEMMA DescendHeld ==
    ASSUME IInv, CInv, Descend
    PROVE  CInv'
<1> DEFINE next == [walk EXCEPT !.queue = <<[dir |-> fd, path |-> <<>>, depth |-> 1]>>]
<1>1. pc = "descend" /\ UNCHANGED <<bytes, call>> /\ call.tool \in Walkers
  BY DEF Descend, world, CInv
<1>2. \/ walk' = walk /\ pc' \in {"done", "descend"}
      \/ walk' = next /\ pc' = "pop"
  <2> HIDE DEF next
  <2>1. \/ Refuse("path_rejected")
        \/ UNCHANGED <<pc, walk>>
        \/ pc' = "pop" /\ walk' = next
    BY Zenon DEF Descend, next
  <2> QED BY <1>1, <2>1 DEF Refuse, End
<1>3. CASE walk' = walk /\ pc' \in {"done", "descend"}
  BY <1>1, <1>3, IdleStep DEF Walking
<1>4. CASE walk' = next /\ pc' = "pop"
  <2>1. Held(call.tool, next)
    BY TallyKeeps, TallyHeld DEF IInv, CInv
  <2> HIDE DEF next
  <2> QED BY <1>1, <1>4, <2>1, HeldStep DEF Walking
<1> QED BY <1>2, <1>3, <1>4

LEMMA PopDirectoryHeld ==
    ASSUME IInv, CInv, PopDirectory
    PROVE  CInv'
<1> DEFINE head == Head(walk.queue)
           listing == {Dot} \cup {n \in Names \cup Reserved : entries[head.dir][n] # NoNode}
           next == [walk EXCEPT !.queue = Tail(walk.queue), !.here = head, !.listing = listing]
           stop == [walk EXCEPT !.queue = <<>>, !.truncated = TRUE]
<1>1. /\ UNCHANGED <<bytes, call>> /\ pc = "pop" /\ pc' \in {"publish", "examine"}
      /\ walk' = walk \/ walk' = stop \/ walk' = next
  BY DEF PopDirectory, world
<1>2. WalkSafe(walk) /\ Held(call.tool, walk)
  BY DEF IInv, CInv
<1> HIDE DEF head, listing
<1>3. Held(call.tool, stop) /\ Held(call.tool, next)
  BY <1>2, TallyKeeps, TallyHeld
<1> HIDE DEF next, stop
<1> QED BY <1>1, <1>2, <1>3, HeldStep DEF Walking

LEMMA NoWalkHeld ==
    ASSUME NEW tool
    PROVE  Held(tool, NoWalk)
<1>1. /\ NoWalk.found = {} /\ NoWalk.pending = {} /\ NoWalk.used = 0 /\ NoWalk.examined = 0
      /\ NoWalk.files = 0 /\ NoWalk.scanned = 0
  BY DEF NoWalk
<1>2. Items({}) /\ ListBytes({}) = 0 /\ Cardinality({}) = 0
  BY EmptyBytes, FS_EmptySet
<1>3. ListHeld(NoWalk) /\ FindHeld(NoWalk) /\ SearchHeld(NoWalk)
  BY <1>1, <1>2, CeilingsAssumption DEF ListHeld, FindHeld, SearchHeld
<1> QED BY <1>1, <1>2, <1>3 DEF Held

LEMMA FailureHeld ==
    ASSUME CInv, TraversalFails
    PROVE  CInv'
<1>1. UNCHANGED <<bytes, call>> /\ walk' = NoWalk /\ pc' = "done"
  BY DEF TraversalFails, End, world
<1>2. Held(call.tool, walk)' /\ walk'.found = {}
  BY <1>1, NoWalkHeld DEF NoWalk
<1>3. ListBytes(walk'.found) = 0 /\ ListBytes(walk.found)' = ListBytes(walk'.found)
  BY <1>2, EmptyBytes DEF ListBytes
<1>4. bytes' \in [Files -> Seq(0..255)] /\ call'.query \in Seq(Nat)
  BY <1>1 DEF CInv
<1> QED BY <1>1, <1>2, <1>3, <1>4, CeilingsAssumption DEF CInv, Walking

LEMMA ExamineHeld ==
    ASSUME IInv, CInv, NEW n \in Names \cup Reserved \cup {Dot}, Examine(n)
    PROVE  CInv'
<1>1. /\ UNCHANGED <<bytes, call>> /\ walk' = Examined(n)
      /\ pc = "examine" /\ pc' \in {"process", "examine"}
  BY DEF Examine, world
<1>2. walk.here \in Queueable /\ WalkSafe(walk) /\ call.tool \in Walkers /\ Held(call.tool, walk)
  BY <1>1 DEF IInv, DescriptorSafe, CInv, Walking
<1>3. Held(call.tool, walk')
  BY <1>1, <1>2, ExaminedHeld
<1> QED BY <1>1, <1>3, HeldStep DEF Walking

LEMMA ProcessHeld ==
    ASSUME IInv, CInv, Process
    PROVE  CInv'
<1>1. UNCHANGED <<bytes, call>> /\ pc = "process"
  BY DEF Process, world
<1>2. /\ WalkSafe(walk) /\ call.tool \in Walkers /\ Held(call.tool, walk)
      /\ bytes \in [Files -> Seq(0..255)] /\ call.query \in Seq(Nat)
  BY <1>1 DEF IInv, CInv, Walking
<1>3. CASE pc' = "pop" /\ walk' = [walk EXCEPT !.here = NoWalk.here]
  <2>1. Held(call.tool, walk')
    BY <1>2, <1>3, TallyKeeps, TallyHeld
  <2> QED BY <1>1, <1>3, <2>1, HeldStep DEF Walking
<1>4. ASSUME NEW e \in walk.pending,
             walk' = Processed([walk EXCEPT !.pending = walk.pending \ {e}], e), UNCHANGED pc
      PROVE  CInv'
  <2>1. walk' = Processed(Without(e), e)
    BY <1>4 DEF Without
  <2>2. Held(call.tool, walk')
    BY <1>2, <2>1, ProcessedHeld
  <2> QED BY <1>1, <1>4, <2>2, HeldStep DEF Walking
<1> QED BY <1>3, <1>4 DEF Process

LEMMA PublishHeld ==
    ASSUME IInv, CInv, Publish
    PROVE  CInv'
<1>1. UNCHANGED <<bytes, call>> /\ pc = "publish" /\ pc' = "done" /\ walk' = Published
  BY DEF Publish, End, world
<1>2. WalkSafe(walk) /\ call.tool \in Walkers /\ Held(call.tool, walk)
  BY <1>1 DEF IInv, CInv, Walking
<1>3. /\ Held(call.tool, walk')
      /\ call.tool = "find_paths" => ListBytes(walk'.found) <= MAX_FIND_STRUCTURED_BYTES
      /\ call.tool = "search_text" => ListBytes(walk'.found) <= MAX_SEARCH_STRUCTURED_BYTES
  BY <1>1, <1>2, PublishedHeld
<1>4. Held(call.tool, walk)' /\ pc' \notin Walking \cup {"descend"} /\ pc' \in Walking \cup {"done"}
  BY <1>1, <1>3 DEF Walking
<1>5. bytes' \in [Files -> Seq(0..255)] /\ call'.query \in Seq(Nat)
  BY <1>1 DEF CInv
<1>6. ListBytes(walk.found)' = ListBytes(walk'.found)
  BY DEF ListBytes
<1> QED BY <1>1, <1>3, <1>4, <1>5, <1>6 DEF CInv

LEMMA InitHeld == Init => CInv
<1> SUFFICES ASSUME Init PROVE CInv
  OBVIOUS
<1>1. PICK s \in Scenarios : bytes = s.content /\ call = s.call
  BY DEF Init
<1>2. s.content \in [Files -> Seq(0..255)] /\ s.call \in Calls
  BY ScenariosAssumption
<1>3. bytes \in [Files -> Seq(0..255)] /\ call.query \in Seq(Nat)
  BY <1>1, <1>2 DEF Calls
<1>4. pc = "start" /\ walk = NoWalk
  BY DEF Init
<1>5. Held(call.tool, walk) /\ walk.found = {}
  BY <1>4, NoWalkHeld DEF NoWalk
<1> QED BY <1>3, <1>4, <1>5 DEF CInv, Walking

LEMMA NextHeld == IInv /\ CInv /\ [Next]_vars => CInv'
<1> SUFFICES ASSUME IInv, CInv, [Next]_vars PROVE CInv'
  OBVIOUS
<1>1. CASE Start
  <2>1. /\ pc = "start" /\ UNCHANGED <<bytes, call, walk>>
        /\ pc' \in {"done", "parent"} \/ (pc' = "descend" /\ call.tool \in Walkers)
    BY <1>1 DEF Start, Refuse, End, world
  <2> QED BY <2>1, IdleStep DEF Walking
<1>2. CASE Parent \/ Sanitize \/ PathMetadata \/ StatFile
  <2>1. /\ pc = "parent" /\ UNCHANGED <<bytes, call, walk>> /\ pc' \in {"done", "parent", "open"}
    BY <1>2 DEF Parent, Sanitize, PathMetadata, StatFile, Refuse, End, world
  <2> QED BY <2>1, IdleStep DEF Walking
<1>3. CASE OpenVerifiedRegularFile
  <2>1. /\ pc = "open" /\ UNCHANGED <<bytes, call, walk>> /\ pc' \in {"done", "read"}
    BY <1>3 DEF OpenVerifiedRegularFile, Refuse, End, world
  <2> QED BY <2>1, IdleStep DEF Walking
<1>4. CASE ReadFile \/ ReadBinaryFile \/ HashFile \/ ReadRange
  <2>1. /\ pc = "read" /\ UNCHANGED <<bytes, call, walk>> /\ pc' \in {"done", "verify"}
    BY <1>4 DEF ReadFile, ReadBinaryFile, HashFile, ReadRange, Answer, Refuse, End, world
  <2> QED BY <2>1, IdleStep DEF Walking
<1>5. CASE ReadVerifiedBinaryRange \/ ReadVerifiedTextRange
  <2>1. /\ pc = "verify" /\ UNCHANGED <<bytes, call, walk>> /\ pc' = "done"
    BY <1>5 DEF ReadVerifiedBinaryRange, ReadVerifiedTextRange, Page, Refuse, End, world
  <2> QED BY <2>1, IdleStep DEF Walking
<1>6. CASE NextPage
  <2>1. /\ pc' = "start" /\ UNCHANGED <<bytes, walk>> /\ call.tool \in Ranges
        /\ call' = [call EXCEPT !.offset = answer.next]
    BY <1>6 DEF NextPage, world
  <2>2. call'.tool = call.tool /\ call'.query = call.query
    BY <2>1 DEF IInv, CallSafe
  <2>3. call.tool \notin Walkers
    BY <2>1 DEF Ranges, Walkers
  <2> QED BY <2>1, <2>2, <2>3, IdleStep DEF Walking
<1>7. CASE Descend BY <1>7, DescendHeld
<1>8. CASE PopDirectory BY <1>8, PopDirectoryHeld
<1>9. CASE Process BY <1>9, ProcessHeld
<1>10. CASE Publish BY <1>10, PublishHeld
<1>11. ASSUME NEW n \in Names \cup Reserved \cup {Dot}, Examine(n) PROVE CInv'
  BY <1>11, ExamineHeld
<1>12. ASSUME UNCHANGED <<call, pc, walk>>, bytes' \in [Files -> Seq(0..255)] PROVE CInv'
  <2>1. Held(call.tool, walk)' /\ ListBytes(walk.found)' = ListBytes(walk.found)
    BY <1>12 DEF CInv, ListBytes
  <2> QED BY <1>12, <2>1 DEF CInv
<1>13. ASSUME NEW r \in Relinks, Relink(r.dir, r.name, r.node) PROVE CInv'
  <2>1. UNCHANGED <<bytes, call, pc, walk>>
    BY <1>13 DEF Relink
  <2> QED BY <1>12, <2>1 DEF CInv
<1>14. ASSUME NEW f \in Files \ Private, NEW content \in Rewrites, Rewrite(f, content)
       PROVE  CInv'
  <2>1. UNCHANGED <<call, pc, walk>> /\ bytes' = [bytes EXCEPT ![f] = content]
    BY <1>14 DEF Rewrite
  <2>2. bytes' \in [Files -> Seq(0..255)]
    BY <2>1, ScenariosAssumption DEF CInv
  <2> QED BY <1>12, <2>1, <2>2
<1>16. CASE TraversalFails BY <1>16, FailureHeld
<1>15. CASE UNCHANGED vars
  <2>1. UNCHANGED <<bytes, call, pc, walk>>
    BY <1>15 DEF vars
  <2> QED BY <1>12, <2>1 DEF CInv
<1> QED BY Zenon, <1>1, <1>2, <1>3, <1>4, <1>5, <1>6, <1>7, <1>8, <1>9, <1>10, <1>11, <1>13,
           <1>14, <1>15, <1>16 DEF Next

LEMMA HeldKeepsCeilings == CInv => CeilingsKept
<1> SUFFICES ASSUME CInv PROVE CeilingsKept
  OBVIOUS
<1>1. ASSUME call.tool = "list_directory"
      PROVE  /\ Cardinality(walk.found) <= MAX_LIST_ENTRIES
             /\ ListBytes(walk.found) <= MAX_LIST_STRUCTURED_BYTES
  <2>1. ListHeld(walk) /\ Items(walk.found) /\ Items(walk.pending) /\ walk.used \in Nat
    BY <1>1 DEF CInv, Held
  <2>2. MAX_LIST_ENTRIES \in Nat /\ MAX_LIST_STRUCTURED_BYTES \in Nat
    BY CeilingsAssumption
  <2> DEFINE a == Cardinality(walk.found)
             b == Cardinality(walk.pending)
             c == ListBytes(walk.found)
             d == IF walk.pending = {} THEN 0
                  ELSE ListBytes(walk.pending) + (IF walk.found = {} THEN 0 ELSE 1)
  <2>3. a \in Nat /\ b \in Nat /\ c \in Nat /\ d \in Nat
    BY <2>1, BytesBySpread
  <2>4. a + b <= MAX_LIST_ENTRIES /\ c <= walk.used /\ walk.used + d <= MAX_LIST_STRUCTURED_BYTES
    BY <2>1 DEF ListHeld
  <2> HIDE DEF a, b, c, d
  <2>5. a <= MAX_LIST_ENTRIES /\ c <= MAX_LIST_STRUCTURED_BYTES
    BY <2>1, <2>2, <2>3, <2>4
  <2> QED BY <2>5 DEF a, c
<1>2. ASSUME call.tool = "find_paths"
      PROVE  FindHeld(walk) /\ (pc = "done" => ListBytes(walk.found) <= MAX_FIND_STRUCTURED_BYTES)
  BY <1>2 DEF CInv, Held
<1>3. ASSUME call.tool = "search_text"
      PROVE  SearchHeld(walk) /\ (pc = "done" => ListBytes(walk.found) <= MAX_SEARCH_STRUCTURED_BYTES)
  BY <1>3 DEF CInv, Held
<1> QED BY <1>1, <1>2, <1>3 DEF CeilingsKept, FindHeld, SearchHeld

\* For every tree, query and ceilings, and whatever is relinked or rewritten while a
\* traversal runs: no traversal examines, opens, reads or answers more than its
\* ceilings allow, neither in entries nor in bytes with their commas.
THEOREM CeilingsHold == Spec => []CeilingsKept
<1>1. Init => IInv /\ CInv
  BY InitInv, InitHeld
<1>2. (IInv /\ CInv) /\ [Next]_vars => (IInv /\ CInv)'
  BY NextInv, NextHeld
<1>3. IInv /\ CInv => CeilingsKept
  BY HeldKeepsCeilings
<1> QED BY <1>1, <1>2, <1>3, PTL DEF Spec

-----------------------------------------------------------------------------
(* Honesty: paths in a tree *)

\* The scene of a call, with a directory to begin in.
Actual(s) ==
    /\ TreeSafe /\ call.depth \in Nat
    /\ s.tree = entries /\ s.content = bytes /\ s.call = call /\ s.top \in Dirs

LEMMA DepthFacts ==
    ASSUME call.depth \in Nat
    PROVE  Depth(call) \in Nat /\ Depth(call) >= 1
BY CeilingsAssumption DEF Depth

LEMMA FollowedNames ==
    ASSUME NEW tool, NEW p \in Seq(Followed(tool))
    PROVE  /\ p \in Seq(Names) /\ Len(p) \in Nat
           /\ \A i \in 1..Len(p) : p[i] \in Followed(tool)
<1>1. Followed(tool) \subseteq Names
  BY DEF Followed
<1>2. Len(p) \in Nat /\ p = [i \in 1..Len(p) |-> p[i]]
  OBVIOUS
<1>3. \A i \in 1..Len(p) : p[i] \in Followed(tool)
  BY ElementOfSeq
<1>4. \A i \in 1..Len(p) : p[i] \in Names
  BY <1>1, <1>3
<1> QED BY <1>2, <1>3, <1>4

\* The trail of a path begins with the trails of its beginnings.
LEMMA TrailBegins ==
    ASSUME TreeSafe, NEW top \in Dirs, NEW p \in Seq(Names), NEW q \in Seq(Names),
           Len(q) <= Len(p), \A i \in 1..Len(q) : q[i] = p[i]
    PROVE  \A i \in 0..Len(q) : Trail(entries, top, p)[i] = Trail(entries, top, q)[i]
<1> DEFINE f == Trail(entries, top, p)
           g == Trail(entries, top, q)
           n == Len(q)
           Good == {i \in 0..n : f[i] = g[i]}
<1>1. n \in Nat /\ Len(p) \in Nat
  OBVIOUS
<1>2. /\ f[0] = top
      /\ \A i \in 1..Len(p) : f[i] = IF f[i - 1] \in Dirs THEN entries[f[i - 1]][p[i]] ELSE NoNode
  BY TrailFacts
<1>3. /\ g[0] = top
      /\ \A i \in 1..n : g[i] = IF g[i - 1] \in Dirs THEN entries[g[i - 1]][q[i]] ELSE NoNode
  BY TrailFacts
<1> HIDE DEF f, g
<1>4. 0 \in Good
  BY <1>1, <1>2, <1>3
<1>5. ASSUME NEW i \in 1..n, i - 1 \in Good PROVE i \in Good
  <2>1. i \in 1..Len(p) /\ q[i] = p[i] /\ f[i - 1] = g[i - 1]
    BY <1>1, <1>5
  <2> QED BY <1>2, <1>3, <2>1
<1>6. 0..n \subseteq Good
  <2> HIDE DEF Good, n
  <2> QED BY <1>1, <1>4, <1>5, UpToBound
<1> QED BY <1>6 DEF f, g

\* A path and one name more.
LEMMA OneNameMore ==
    ASSUME NEW s, Actual(s), NEW q \in Seq(Names), NEW n \in Names, NodeAt(s, q) \in Dirs
    PROVE  /\ Append(q, n) \in Seq(Names) /\ Len(Append(q, n)) = Len(q) + 1
           /\ NodeAt(s, Append(q, n)) = entries[NodeAt(s, q)][n]
           /\ Passable(s, Append(q, n), Len(q)) <=> Passable(s, q, Len(q))
<1> DEFINE p == Append(q, n)
           top == s.top
           f == Trail(entries, top, p)
           g == Trail(entries, top, q)
           k == Len(q)
<1>1. k \in Nat /\ p \in Seq(Names) /\ Len(p) = k + 1 /\ p[k + 1] = n
      /\ \A i \in 1..k : q[i] = p[i]
  OBVIOUS
<1>2. TreeSafe /\ top \in Dirs /\ s.tree = entries
  BY DEF Actual
<1> HIDE DEF p, top, k
<1>3. \A i \in 0..k : f[i] = g[i]
  <2>1. k <= Len(p) /\ k = Len(q)
    BY <1>1 DEF k
  <2> QED BY <1>1, <1>2, <2>1, TrailBegins
<1>4. \A i \in 1..Len(p) : f[i] = IF f[i - 1] \in Dirs THEN entries[f[i - 1]][p[i]] ELSE NoNode
  BY <1>1, <1>2, TrailFacts
<1>5. NodeAt(s, q) = g[k] /\ NodeAt(s, p) = f[k + 1]
  BY <1>1, <1>2 DEF NodeAt, k, top
<1> HIDE DEF f, g
<1>6. f[k + 1] = entries[g[k]][n]
  <2>1. k + 1 \in 1..Len(p) /\ (k + 1) - 1 = k /\ k \in 0..k
    BY <1>1
  <2> QED BY <1>1, <1>3, <1>4, <1>5, <2>1
<1>7. Passable(s, p, k) <=> \A i \in 1..k : f[i] \in Dirs \ (Private \cup Unreadable)
  BY <1>2 DEF Passable, f, top
<1>8. Passable(s, q, k) <=> \A i \in 1..k : g[i] \in Dirs \ (Private \cup Unreadable)
  BY <1>2 DEF Passable, g, top
<1>9. \A i \in 1..k : f[i] = g[i]
  BY <1>1, <1>3
<1> QED BY <1>1, <1>5, <1>6, <1>7, <1>8, <1>9 DEF p, k

LEMMA ReachableFacts ==
    ASSUME NEW s, Actual(s), NEW p
    PROVE  p \in Reachable(s) <=>
             /\ p \in Seq(Followed(call.tool)) /\ Len(p) \in 1..Depth(call)
             /\ Passable(s, p, Len(p) - 1)
             /\ NodeAt(s, p) \notin Links \cup Private \cup {NoNode}
<1> DEFINE F == Followed(call.tool)
           D == Depth(call)
           Paths == UNION {[1..k -> F] : k \in 1..D}
<1>1. D \in Nat
  BY DepthFacts DEF Actual
<1> HIDE DEF D, F
<1>2. p \in Paths <=> p \in Seq(F) /\ Len(p) \in 1..D
  <2>1. ASSUME p \in Paths PROVE p \in Seq(F) /\ Len(p) \in 1..D
    <3>1. PICK k \in 1..D : p \in [1..k -> F]
      BY <2>1
    <3> QED BY <1>1, <3>1
  <2>2. ASSUME p \in Seq(F), Len(p) \in 1..D PROVE p \in Paths
    <3>1. p \in [1..Len(p) -> F]
      BY <2>2
    <3> QED BY <2>2, <3>1
  <2> QED BY <2>1, <2>2
<1>3. s.call = call
  BY DEF Actual
<1>4. p \in Reachable(s) <=> /\ p \in Paths /\ Passable(s, p, Len(p) - 1)
                             /\ NodeAt(s, p) \notin Links \cup Private \cup {NoNode}
  BY <1>3 DEF Reachable, F, D
<1> HIDE DEF Paths
<1> QED BY <1>2, <1>4 DEF F, D

\* openat of a name that is no link and can be read, and what it means if it opens.
LEMMA OpenatPlain ==
    ASSUME NEW d, NEW n
    PROVE  /\ entries[d][n] \notin Links \cup Unreadable => Openat(d, n) = entries[d][n]
           /\ Openat(d, n) \in {Loop, NoAccess} \/
                (Openat(d, n) = entries[d][n] /\ entries[d][n] \notin Links \cup Unreadable)
BY Zenon DEF Openat

\* What a quarantine of a directory leads to is private.
LEMMA QuarantinesPrivate ==
    ASSUME TreeSafe, NEW d \in Dirs \ Private
    PROVE  QuarantineIdentities(d) \subseteq Private
<1>1. \A q \in Quarantines : entries[d][q] \in (Dirs \cap Private) \cup {NoNode}
  BY DEF TreeSafe, Confined
<1> QED BY <1>1 DEF QuarantineIdentities

\* open_child_directory opens exactly the directories that can be read and are not private.
LEMMA ChildOpened ==
    ASSUME TreeSafe, NEW d \in Dirs \ Private, NEW n \in Names
    PROVE  /\ entries[d][n] \in Dirs \ (Private \cup Unreadable) =>
                OpenChildDirectory(d, n) = entries[d][n] /\ OpenChildDirectory(d, n) # NoNode
           /\ OpenChildDirectory(d, n) # NoNode =>
                /\ OpenChildDirectory(d, n) = entries[d][n]
                /\ entries[d][n] \in Dirs \ (Private \cup Unreadable)
<1> DEFINE child == Openat(d, n)
           open == OpenChildDirectory(d, n)
<1>1. n \notin Reserved
  BY NodesAssumption
<1>2. Loop \notin Dirs /\ NoAccess \notin Dirs /\ NoNode \notin Dirs
  BY NodesAssumption DEF Nodes
<1>3. ASSUME entries[d][n] \in Dirs \ (Private \cup Unreadable)
      PROVE  open = entries[d][n] /\ open # NoNode
  <2>1. entries[d][n] \notin Links \cup Unreadable
    BY <1>3, NodesAssumption
  <2>2. child = entries[d][n]
    BY <2>1, OpenatPlain
  <2>3. child \notin QuarantineIdentities(d)
    BY <1>3, <2>2, QuarantinesPrivate
  <2> QED BY <1>1, <1>2, <1>3, <2>2, <2>3 DEF OpenChildDirectory
<1>4. ASSUME open # NoNode
      PROVE  open = entries[d][n] /\ entries[d][n] \in Dirs \ (Private \cup Unreadable)
  <2>1. open = child /\ child \in Dirs
    BY <1>4 DEF OpenChildDirectory
  <2>2. child = entries[d][n] /\ entries[d][n] \notin Unreadable
    BY <1>2, <2>1, OpenatPlain
  <2>3. open \in Dirs \ Private
    BY <1>4, ChildFacts
  <2> QED BY <2>1, <2>2, <2>3
<1> QED BY <1>3, <1>4

\* What an entry of a directory leads to that is passed on.
LEMMA EntryPublic ==
    ASSUME TreeSafe, NEW d \in Dirs \ Private, NEW n \in Names
    PROVE  entries[d][n] # NoNode =>
             (entries[d][n] \in QuarantineIdentities(d) <=> entries[d][n] \in Private)
BY NameFacts, QuarantinesPrivate

\* An entry of a directory on its way into the answer can be reached.
LEMMA EntryReachable ==
    ASSUME NEW s, Actual(s), NEW v, Visit(s, v), NEW n \in Followed(call.tool),
           entries[v.dir][n] \notin Links \cup Private \cup {NoNode}
    PROVE  Append(v.path, n) \in Reachable(s) /\ NodeAt(s, Append(v.path, n)) = entries[v.dir][n]
<1> DEFINE F == Followed(call.tool)
           D == Depth(call)
           q == v.path
           p == Append(q, n)
<1>1. /\ q \in Seq(F) /\ v.depth = Len(q) + 1 /\ v.depth <= D
      /\ v.dir = NodeAt(s, q) /\ v.dir \in Dirs /\ Passable(s, q, Len(q))
  BY DEF Visit, Actual
<1>2. q \in Seq(Names) /\ n \in Names
  BY <1>1, FollowedNames DEF Followed
<1>3. D \in Nat
  BY DepthFacts DEF Actual
<1> HIDE DEF q, D, F
<1>4. p \in Seq(F) /\ Len(p) = Len(q) + 1 /\ Len(q) \in Nat
  BY <1>1 DEF F
<1>5. NodeAt(s, p) = entries[v.dir][n] /\ Passable(s, p, Len(q))
  <2>1. NodeAt(s, q) \in Dirs
    BY <1>1
  <2>2. /\ NodeAt(s, p) = entries[NodeAt(s, q)][n]
        /\ Passable(s, p, Len(q)) <=> Passable(s, q, Len(q))
    BY <1>2, <2>1, OneNameMore
  <2> QED BY <1>1, <2>2
<1> HIDE DEF p
<1>6. Len(p) \in 1..D /\ Len(p) - 1 = Len(q)
  BY <1>1, <1>3, <1>4
<1>7. p \in Reachable(s)
  BY <1>4, <1>5, <1>6, ReachableFacts DEF F, D
<1> QED BY <1>5, <1>7 DEF p, q

\* A reachable path below a directory goes on with one of its entries.
LEMMA PathGoesOn ==
    ASSUME NEW s, Actual(s), NEW v, Visit(s, v), NEW p \in Reachable(s), Below(v.path, p)
    PROVE  LET n == p[Len(v.path) + 1]
           IN  /\ n \in Followed(call.tool)
               /\ entries[v.dir][n] \notin Links \cup Private \cup {NoNode}
               /\ \/ p = Append(v.path, n) /\ NodeAt(s, p) = entries[v.dir][n]
                  \/ /\ entries[v.dir][n] \in Dirs \ (Private \cup Unreadable)
                     /\ v.depth < Depth(call) /\ Below(Append(v.path, n), p)
<1> DEFINE F == Followed(call.tool)
           D == Depth(call)
           q == v.path
           k == Len(q)
           n == p[k + 1]
           top == s.top
           f == Trail(entries, top, p)
           g == Trail(entries, top, q)
<1>1. /\ q \in Seq(F) /\ v.depth = k + 1 /\ v.depth <= D
      /\ v.dir = NodeAt(s, q) /\ v.dir \in Dirs
  BY DEF Visit, Actual
<1>2. /\ p \in Seq(F) /\ Len(p) \in 1..D
      /\ Passable(s, p, Len(p) - 1) /\ NodeAt(s, p) \notin Links \cup Private \cup {NoNode}
  BY ReachableFacts
<1>3. q \in Seq(Names) /\ p \in Seq(Names) /\ k \in Nat /\ Len(p) \in Nat
  BY <1>1, <1>2, FollowedNames
<1>4. D \in Nat /\ TreeSafe /\ top \in Dirs /\ s.tree = entries
  BY DepthFacts DEF Actual
<1>5. k < Len(p) /\ SubSeq(p, 1, k) = q
  BY DEF Below
<1> HIDE DEF q, F, D, top
<1>6. \A i \in 1..k : q[i] = p[i]
  <2>1. \A i \in 1..k : SubSeq(p, 1, k)[i] = p[i]
    BY <1>3, <1>5
  <2> QED BY <1>5, <2>1
<1>7. \A i \in 0..k : f[i] = g[i]
  <2>1. Len(q) <= Len(p)
    BY <1>3, <1>5
  <2> QED BY <1>3, <1>4, <1>6, <2>1, TrailBegins
<1>8. \A i \in 1..Len(p) : f[i] = IF f[i - 1] \in Dirs THEN entries[f[i - 1]][p[i]] ELSE NoNode
  BY <1>3, <1>4, TrailFacts
<1>9. /\ NodeAt(s, q) = g[k] /\ NodeAt(s, p) = f[Len(p)]
      /\ \A i \in 1..(Len(p) - 1) : f[i] \in Dirs \ (Private \cup Unreadable)
  BY <1>2, <1>4 DEF NodeAt, Passable, top
<1> HIDE DEF f, g
<1>10. k + 1 \in 1..Len(p) /\ (k + 1) - 1 = k /\ k \in 0..k
  BY <1>3, <1>5
<1> HIDE DEF k
<1>11. f[k + 1] = entries[v.dir][n]
  BY <1>1, <1>7, <1>8, <1>9, <1>10
<1>12. n \in F
  BY <1>2, <1>10, FollowedNames DEF F
<1>13. CASE Len(p) = k + 1
  <2>1. p = Append(q, n)
    <3>1. Append(q, n) \in Seq(Names) /\ Len(Append(q, n)) = k + 1 /\ Append(q, n)[k + 1] = n
          /\ \A i \in 1..k : Append(q, n)[i] = q[i]
      BY <1>3, <1>12 DEF k, F, Followed
    <3> DEFINE r == Append(q, n)
    <3> HIDE DEF r
    <3>2. \A i \in 1..(k + 1) : r[i] = p[i]
      <4> SUFFICES ASSUME NEW i \in 1..(k + 1) PROVE r[i] = p[i]
        OBVIOUS
      <4>1. i = k + 1 \/ i \in 1..k
        BY <1>3
      <4> QED BY <1>6, <3>1, <4>1 DEF r
    <3>3. r = [i \in 1..(k + 1) |-> r[i]] /\ p = [i \in 1..(k + 1) |-> p[i]]
      BY <1>3, <1>13, <3>1 DEF r
    <3> QED BY <3>2, <3>3 DEF r
  <2>2. NodeAt(s, p) = entries[v.dir][n]
    BY <1>9, <1>11, <1>13
  <2> QED BY <1>2, <1>12, <2>1, <2>2 DEF q, k, F
<1>14. CASE Len(p) # k + 1
  <2>1. k + 1 < Len(p) /\ k + 1 \in 1..(Len(p) - 1)
    BY <1>3, <1>5, <1>14
  <2>2. entries[v.dir][n] \in Dirs \ (Private \cup Unreadable)
    BY <1>9, <1>11, <2>1
  <2>3. v.depth < D
    BY <1>1, <1>2, <1>3, <1>4, <2>1
  <2>4. Below(Append(q, n), p)
    <3> DEFINE r == Append(q, n)
               t == SubSeq(p, 1, k + 1)
    <3>1. r \in Seq(Names) /\ Len(r) = k + 1 /\ r[k + 1] = n
          /\ \A i \in 1..k : r[i] = q[i]
      BY <1>3, <1>12 DEF k, F, Followed
    <3>2. t \in Seq(Names) /\ Len(t) = k + 1 /\ \A i \in 1..(k + 1) : t[i] = p[i]
      BY <1>3, <2>1
    <3> HIDE DEF r, t
    <3>3. \A i \in 1..(k + 1) : r[i] = t[i]
      <4> SUFFICES ASSUME NEW i \in 1..(k + 1) PROVE r[i] = t[i]
        OBVIOUS
      <4>1. i = k + 1 \/ i \in 1..k
        BY <1>3
      <4> QED BY <1>6, <3>1, <3>2, <4>1
    <3>4. r = [i \in 1..(k + 1) |-> r[i]] /\ t = [i \in 1..(k + 1) |-> t[i]]
      BY <1>3, <3>1, <3>2
    <3>5. r = t
      BY <3>3, <3>4
    <3> QED BY <2>1, <3>1, <3>5 DEF Below, r, t
  <2>5. entries[v.dir][n] \notin Links \cup Private \cup {NoNode}
    BY <2>2, NodesAssumption DEF Nodes
  <2> QED BY <1>12, <2>2, <2>3, <2>4, <2>5 DEF q, k, F, D
<1> QED BY <1>13, <1>14

\* A directory found in another one.
LEMMA VisitChild ==
    ASSUME NEW s, Actual(s), NEW v, Visit(s, v), NEW n \in Followed(call.tool),
           v.depth < Depth(call), entries[v.dir][n] \in Dirs \ (Private \cup Unreadable)
    PROVE  Visit(s, [dir |-> entries[v.dir][n], depth |-> v.depth + 1, path |-> Append(v.path, n)])
<1> DEFINE F == Followed(call.tool)
           D == Depth(call)
           q == v.path
           k == Len(q)
           p == Append(q, n)
           node == entries[v.dir][n]
           u == [dir |-> node, depth |-> v.depth + 1, path |-> p]
<1>1. /\ q \in Seq(F) /\ v.depth = k + 1 /\ v.dir = NodeAt(s, q) /\ v.dir \in Dirs
      /\ Passable(s, q, k)
  BY DEF Visit, Actual
<1>2. q \in Seq(Names) /\ n \in Names /\ k \in Nat
  BY <1>1, FollowedNames DEF Followed
<1>3. D \in Nat /\ s.call = call
  BY DepthFacts DEF Actual
<1> HIDE DEF q, D, F
<1>4. p \in Seq(F) /\ Len(p) = k + 1
  BY <1>1 DEF F
<1>5. NodeAt(s, p) = node /\ Passable(s, p, k)
  <2>1. NodeAt(s, q) \in Dirs
    BY <1>1
  <2>2. /\ NodeAt(s, p) = entries[NodeAt(s, q)][n]
        /\ Passable(s, p, Len(q)) <=> Passable(s, q, Len(q))
    BY <1>2, <2>1, OneNameMore
  <2> QED BY <1>1, <2>2
<1> HIDE DEF p, k
<1>6. Passable(s, p, k + 1)
  <2> DEFINE f == Trail(s.tree, s.top, p)
  <2>1. f[k + 1] = node
    BY <1>4, <1>5 DEF NodeAt
  <2>2. \A i \in 1..k : f[i] \in Dirs \ (Private \cup Unreadable)
    BY <1>5 DEF Passable
  <2> HIDE DEF f
  <2>3. \A i \in 1..(k + 1) : i = k + 1 \/ i \in 1..k
    BY <1>2
  <2>4. \A i \in 1..(k + 1) : f[i] \in Dirs \ (Private \cup Unreadable)
    BY <2>1, <2>2, <2>3
  <2> QED BY <2>4 DEF Passable, f
<1> DEFINE c == v.depth + 1
<1>7. c = (k + 1) + 1 /\ c <= D
  BY <1>1, <1>2, <1>3 DEF D
<1> HIDE DEF c, node
<1>8. u.path = p /\ u.depth = c /\ u.dir = node
  BY DEF c
<1> HIDE DEF u
<1>9. Visit(s, u)
  <2>1. node \in Dirs \ Private
    BY DEF node
  <2> QED BY <1>3, <1>4, <1>5, <1>6, <1>7, <1>8, <2>1 DEF Visit, F, D
<1> QED BY <1>9 DEF u, p, q, c, node

-----------------------------------------------------------------------------
(* Honesty: what is wanted and what is there *)

LEMMA WantedByTool ==
    ASSUME NEW s, NEW p
    PROVE  /\ s.call.tool = "list_directory" => WantedAt(s, p) = {<<>>}
           /\ s.call.tool = "find_paths" =>
                WantedAt(s, p) = {at \in {<<>>} :
                    /\ NodeAt(s, p) \in Files \cup Dirs
                    /\ NameContains(p[Len(p)], s.call.query)
                    /\ FilterMatches(s.call.filter, NodeAt(s, p))}
           /\ s.call.tool = "search_text" =>
                WantedAt(s, p) = IF NodeAt(s, p) \in Files \ Unreadable /\ IsUtf8(s.content[NodeAt(s, p)])
                                 THEN TextMatches(s.content[NodeAt(s, p)], s.call.query) ELSE {}
<1>1. /\ "list_directory" # "find_paths" /\ "list_directory" # "search_text"
      /\ "find_paths" # "search_text"
  OBVIOUS
<1>2. ASSUME s.call.tool = "list_directory" PROVE WantedAt(s, p) = {<<>>}
  <2>1. s.call.tool # "find_paths"
    BY <1>1, <1>2
  <2> QED BY <1>2, <2>1, Zenon DEF WantedAt
<1>3. ASSUME s.call.tool = "find_paths"
      PROVE  WantedAt(s, p) = {at \in {<<>>} :
                    /\ NodeAt(s, p) \in Files \cup Dirs
                    /\ NameContains(p[Len(p)], s.call.query)
                    /\ FilterMatches(s.call.filter, NodeAt(s, p))}
  <2>1. s.call.tool # "list_directory"
    BY <1>1, <1>3
  <2> QED BY <1>3, <2>1, Zenon DEF WantedAt
<1>4. ASSUME s.call.tool = "search_text"
      PROVE  WantedAt(s, p) = IF NodeAt(s, p) \in Files \ Unreadable /\ IsUtf8(s.content[NodeAt(s, p)])
                              THEN TextMatches(s.content[NodeAt(s, p)], s.call.query) ELSE {}
  <2>1. s.call.tool # "list_directory" /\ s.call.tool # "find_paths"
    BY <1>1, <1>4
  <2> QED BY <2>1, Zenon DEF WantedAt
<1> QED BY <1>2, <1>3, <1>4

LEMMA WantsExpected ==
    ASSUME NEW s, NEW p \in Reachable(s)
    PROVE  Wants(s, p) \subseteq Expected(s)
BY DEF Expected

LEMMA GotFacts ==
    ASSUME NEW w, NEW v
    PROVE  /\ v.found = w.found => Got(v) = Got(w)
           /\ v.found \subseteq w.found => Got(v) \subseteq Got(w)
           /\ \A F : v.found = w.found \cup F => Got(v) = Got(w) \cup {<<m.path, m.at>> : m \in F}
<1>1. v.found = w.found => Got(v) = Got(w)
  BY DEF Got
<1>2. v.found \subseteq w.found => Got(v) \subseteq Got(w)
  BY DEF Got
<1>3. ASSUME NEW F, v.found = w.found \cup F
      PROVE  Got(v) = Got(w) \cup {<<m.path, m.at>> : m \in F}
  BY <1>3 DEF Got
<1> QED BY <1>1, <1>2, <1>3

\* Which entries of a directory look alike in an answer.
LEMMA ShownAlike ==
    ASSUME NEW tool, NEW q \in Seq(Names), NEW n \in Names, NEW m \in Names,
           Shown(tool, Append(q, n)) = Shown(tool, Append(q, m))
    PROVE  IF tool = "list_directory" THEN Displayed[n] = Displayed[m] ELSE n = m
<1> DEFINE k == Len(q) + 1
           a == Append(q, n)
           b == Append(q, m)
<1>1. /\ a \in Seq(Names) /\ b \in Seq(Names) /\ Len(a) = k /\ Len(b) = k
      /\ k \in DOMAIN a /\ k \in DOMAIN b /\ a[k] = n /\ b[k] = m
  OBVIOUS
<1> HIDE DEF k, a, b
<1>2. CASE tool = "list_directory"
  <2>1. DisplayedPath(a) = DisplayedPath(b)
    BY <1>2 DEF Shown, a, b
  <2>2. DisplayedPath(a)[k] = Displayed[n] /\ DisplayedPath(b)[k] = Displayed[m]
    BY <1>1 DEF DisplayedPath
  <2> QED BY <1>2, <2>1, <2>2
<1>3. CASE tool # "list_directory"
  <2>1. a = b
    BY <1>3 DEF Shown, a, b
  <2> QED BY <1>1, <1>3, <2>1
<1> QED BY <1>2, <1>3

LEMMA WantsAlike ==
    ASSUME NEW s, s.call.tool \in Walkers, NEW q \in Seq(Names), NEW n \in Names, NEW m \in Names,
           Shown(s.call.tool, Append(q, n)) = Shown(s.call.tool, Append(q, m))
    PROVE  Wants(s, Append(q, n)) = Wants(s, Append(q, m))
<1>1. CASE s.call.tool = "list_directory"
  <2> DEFINE a == Append(q, n)
             b == Append(q, m)
  <2>1. WantedAt(s, a) = {<<>>} /\ WantedAt(s, b) = {<<>>}
    BY <1>1, WantedByTool
  <2>2. Shown(s.call.tool, a) = Shown(s.call.tool, b)
    OBVIOUS
  <2> HIDE DEF a, b
  <2>3. Wants(s, a) = Wants(s, b)
    BY <2>1, <2>2 DEF Wants
  <2> QED BY <2>3 DEF a, b
<1>2. CASE s.call.tool # "list_directory"
  <2>1. n = m
    BY <1>2, ShownAlike
  <2> QED BY <2>1
<1> QED BY <1>1, <1>2

-----------------------------------------------------------------------------
(* Honesty: steps of a traversal *)

\* The queue after a candidate is processed.
Enqueued(queue, here, e) ==
    IF /\ e.node \in Dirs /\ here.depth < Depth(call)
       /\ OpenChildDirectory(here.dir, e.name) # NoNode
    THEN Append(queue, [dir |-> OpenChildDirectory(here.dir, e.name), depth |-> here.depth + 1,
                        path |-> Append(here.path, e.name)])
    ELSE queue

LEMMA QueuedFields ==
    ASSUME NEW w, WalkSafe(w), NEW e
    PROVE  /\ Queued(w, e).queue = Enqueued(w.queue, w.here, e)
           /\ Queued(w, e).here = w.here /\ Queued(w, e).listing = w.listing
           /\ Queued(w, e).pending = w.pending /\ Queued(w, e).found = w.found
           /\ Queued(w, e).truncated = w.truncated
<1> DEFINE child == OpenChildDirectory(w.here.dir, e.name)
           next == Append(w.queue, [dir |-> child, depth |-> w.here.depth + 1,
                                    path |-> Append(w.here.path, e.name)])
           goes == e.node \in Dirs /\ w.here.depth < Depth(call) /\ child # NoNode
<1>1. CASE goes
  <2>1. Queued(w, e) = [w EXCEPT !.queue = next] /\ Enqueued(w.queue, w.here, e) = next
    BY <1>1 DEF Queued, Enqueued
  <2> HIDE DEF next
  <2> QED BY <2>1, Fields DEF WalkSafe
<1>2. CASE ~ goes
  <2>1. Queued(w, e) = w /\ Enqueued(w.queue, w.here, e) = w.queue
    BY <1>2 DEF Queued, Enqueued
  <2> QED BY <2>1
<1> QED BY <1>1, <1>2

LEMMA EnqueuedFacts ==
    ASSUME NEW s, Actual(s), NEW queue \in Seq(Queueable), \A i \in DOMAIN queue : Visit(s, queue[i]),
           NEW here, Visit(s, here), NEW e, Candidate(s, here, e)
    PROVE  LET next == Enqueued(queue, here, e)
           IN  /\ \A i \in DOMAIN next : Visit(s, next[i])
               /\ \A i \in DOMAIN queue : i \in DOMAIN next /\ next[i] = queue[i]
               /\ entries[here.dir][e.name] \in Dirs \ (Private \cup Unreadable) /\ here.depth < Depth(call)
                  => \E i \in DOMAIN next : next[i].path = Append(here.path, e.name)
<1> DEFINE child == OpenChildDirectory(here.dir, e.name)
           dir == entries[here.dir][e.name]
           rec == [dir |-> child, depth |-> here.depth + 1, path |-> Append(here.path, e.name)]
           next == Enqueued(queue, here, e)
           goes == e.node \in Dirs /\ here.depth < Depth(call) /\ child # NoNode
<1>1. TreeSafe /\ s.tree = entries /\ s.call = call
  BY DEF Actual
<1>2. here.dir \in Dirs \ Private /\ e.name \in Followed(call.tool) /\ e.name \in Names /\ e.node = dir
  BY <1>1 DEF Visit, Candidate, Followed
<1>3. /\ dir \in Dirs \ (Private \cup Unreadable) => child = dir /\ child # NoNode
      /\ child # NoNode => child = dir /\ dir \in Dirs \ (Private \cup Unreadable)
  BY <1>1, <1>2, ChildOpened
<1>4. CASE goes
  <2>1. next = Append(queue, rec)
    BY <1>4 DEF Enqueued
  <2>2. Visit(s, [dir |-> dir, depth |-> here.depth + 1, path |-> Append(here.path, e.name)])
    BY <1>2, <1>3, <1>4, VisitChild
  <2>3. Visit(s, rec)
    BY <1>3, <1>4, <2>2
  <2>4. rec.path = Append(here.path, e.name)
    OBVIOUS
  <2> HIDE DEF rec, next
  <2>5. rec \in {rec} \cup Queueable /\ queue \in Seq({rec} \cup Queueable)
    <3>1. queue = [i \in 1..Len(queue) |-> queue[i]] /\ \A i \in 1..Len(queue) : queue[i] \in Queueable
      OBVIOUS
    <3>2. \A i \in 1..Len(queue) : queue[i] \in {rec} \cup Queueable
      BY <3>1
    <3> QED BY <3>1, <3>2
  <2>6. /\ DOMAIN queue = 1..Len(queue) /\ Len(queue) \in Nat
        /\ DOMAIN next = 1..(Len(queue) + 1)
        /\ next[Len(queue) + 1] = rec /\ \A i \in 1..Len(queue) : next[i] = queue[i]
    BY <2>1, <2>5
  <2>7. \A i \in DOMAIN next : Visit(s, next[i])
    <3> SUFFICES ASSUME NEW i \in DOMAIN next PROVE Visit(s, next[i])
      OBVIOUS
    <3>1. i = Len(queue) + 1 \/ i \in DOMAIN queue
      BY <2>6
    <3> QED BY <2>3, <2>6, <3>1
  <2>8. \A i \in DOMAIN queue : i \in DOMAIN next /\ next[i] = queue[i]
    BY <2>6
  <2>9. Len(queue) + 1 \in DOMAIN next /\ next[Len(queue) + 1].path = Append(here.path, e.name)
    BY <2>4, <2>6
  <2> QED BY <2>7, <2>8, <2>9 DEF next
<1>5. CASE ~ goes
  <2>1. next = queue
    BY <1>5 DEF Enqueued
  <2>2. ~(dir \in Dirs \ (Private \cup Unreadable) /\ here.depth < Depth(call))
    BY <1>2, <1>3, <1>5
  <2> QED BY <2>1, <2>2
<1> QED BY <1>4, <1>5

\* A candidate is processed: what it brings is in the answer, and what is below it
\* in the queue.
LEMMA CandidateProcessed ==
    ASSUME NEW s, Actual(s), call.tool \in Walkers,
           NEW w, w.queue \in Seq(Queueable), Walked(s, w), NEW e \in w.pending,
           NEW v, v.queue = Enqueued(w.queue, w.here, e), v.here = w.here,
           v.listing = w.listing, v.pending = w.pending \ {e},
           Got(w) \subseteq Got(v), Got(v) \subseteq Expected(s),
           ~ v.truncated => ~ w.truncated /\ Wants(s, Append(w.here.path, e.name)) \subseteq Got(v)
    PROVE  Walked(s, v)
<1> DEFINE here == w.here
           queue == w.queue
           next == Enqueued(queue, here, e)
           tool == call.tool
<1>1. /\ \A i \in DOMAIN queue : Visit(s, queue[i])
      /\ Visit(s, here) /\ Candidate(s, here, e)
      /\ \A d \in w.pending : Candidate(s, here, d)
      /\ ~ w.truncated /\ Apart(s) => Covered(s, w)
  BY DEF Walked
<1>2. /\ \A i \in DOMAIN next : Visit(s, next[i])
      /\ \A i \in DOMAIN queue : i \in DOMAIN next /\ next[i] = queue[i]
      /\ entries[here.dir][e.name] \in Dirs \ (Private \cup Unreadable) /\ here.depth < Depth(call)
         => \E i \in DOMAIN next : next[i].path = Append(here.path, e.name)
  <2> HIDE DEF queue, here
  <2>1. queue \in Seq(Queueable)
    BY DEF queue
  <2> QED BY <1>1, <2>1, EnqueuedFacts
<1>3. s.call = call /\ s.tree = entries
  BY DEF Actual
<1>4. /\ here.path \in Seq(Followed(tool)) /\ here.dir \in Dirs \ Private
      /\ e.name \in Followed(tool) /\ e.path = Shown(tool, Append(here.path, e.name))
      /\ entries[here.dir][e.name] \notin Links \cup Private \cup {NoNode}
  BY <1>1, <1>3 DEF Visit, Candidate
<1>5. here.path \in Seq(Names) /\ e.name \in Names
  BY <1>4, FollowedNames DEF Followed
<1> HIDE DEF here, queue, next
<1>6. v.queue = next /\ v.here = here
  BY DEF next, queue, here
<1>7. ASSUME ~ v.truncated, Apart(s), NEW p \in Reachable(s)
      PROVE  Coming(s, v, p) \/ Wants(s, p) \subseteq Got(v)
  <2>1. Coming(s, w, p) \/ Wants(s, p) \subseteq Got(w)
    BY <1>1, <1>7 DEF Covered
  <2>2. CASE Wants(s, p) \subseteq Got(w)
    BY <2>2
  <2>3. ASSUME NEW i \in DOMAIN queue, Below(queue[i].path, p) PROVE Coming(s, v, p)
    BY <1>2, <1>6, <2>3 DEF Coming
  <2> DEFINE n == p[Len(here.path) + 1]
  <2>4. ASSUME Below(here.path, p), n \in w.listing PROVE Coming(s, v, p)
    BY <1>6, <2>4 DEF Coming, Ahead
  <2>5. ASSUME Below(here.path, p), NEW d \in w.pending, d # e, d.path = Shown(tool, Append(here.path, n))
        PROVE  Coming(s, v, p)
    <3>1. d \in v.pending
      BY <2>5
    <3> QED BY <1>3, <1>6, <2>5, <3>1 DEF Coming, Ahead
  <2>6. ASSUME Below(here.path, p), e.path = Shown(tool, Append(here.path, n))
        PROVE  Coming(s, v, p) \/ Wants(s, p) \subseteq Got(v)
    <3>1. /\ n \in Followed(tool)
          /\ \/ p = Append(here.path, n)
             \/ /\ entries[here.dir][n] \in Dirs \ (Private \cup Unreadable)
                /\ here.depth < Depth(call) /\ Below(Append(here.path, n), p)
      BY <1>1, <2>6, PathGoesOn
    <3> HIDE DEF n
    <3>2. n \in Names /\ Shown(tool, Append(here.path, n)) = Shown(tool, Append(here.path, e.name))
      BY <1>4, <2>6, <3>1 DEF Followed
    <3>3. CASE p = Append(here.path, n)
      <4>1. Wants(s, p) = Wants(s, Append(here.path, e.name))
        BY <1>3, <1>5, <3>2, <3>3, WantsAlike
      <4> QED BY <1>7, <4>1 DEF here
    <3>4. CASE /\ entries[here.dir][n] \in Dirs \ (Private \cup Unreadable)
               /\ here.depth < Depth(call) /\ Below(Append(here.path, n), p)
      <4>1. n = e.name
        <5>1. CASE tool = "list_directory"
          <6>1. Displayed[n] = Displayed[e.name]
            BY <1>5, <3>2, <5>1, ShownAlike
          <6>2. DirectoriesApart(entries)
            BY <1>3, <1>7, <5>1 DEF Apart
          <6> QED BY <1>4, <1>5, <3>2, <3>4, <6>1, <6>2 DEF DirectoriesApart
        <5>2. CASE tool # "list_directory"
          BY <1>5, <3>2, <5>2, ShownAlike
        <5> QED BY <5>1, <5>2
      <4>2. PICK i \in DOMAIN next : next[i].path = Append(here.path, e.name)
        BY <1>2, <3>4, <4>1
      <4>3. Below(next[i].path, p)
        BY <3>4, <4>1, <4>2
      <4> QED BY <1>6, <4>3 DEF Coming
    <3> QED BY <3>1, <3>3, <3>4
  <2>7. \/ Wants(s, p) \subseteq Got(w)
        \/ \E i \in DOMAIN queue : Below(queue[i].path, p)
        \/ /\ Below(here.path, p)
           /\ n \in w.listing \/ \E d \in w.pending : d.path = Shown(tool, Append(here.path, n))
    BY <1>3, <2>1 DEF Coming, Ahead, queue, here
  <2> HIDE DEF n
  <2> QED BY <2>2, <2>3, <2>4, <2>5, <2>6, <2>7
<1>8. ~ v.truncated /\ Apart(s) => Covered(s, v)
  BY <1>7 DEF Covered
<1>9. \A d \in v.pending : Candidate(s, v.here, d)
  BY <1>1, <1>6
<1> QED BY <1>1, <1>2, <1>6, <1>8, <1>9 DEF Walked

\* A name is read: what it leads to is a candidate, unless the call wants nothing there.
LEMMA NameExamined ==
    ASSUME NEW s, Actual(s), NEW w, Walked(s, w), NEW n \in w.listing,
           NEW v, v.queue = w.queue, v.here = w.here, v.found = w.found,
           \A e \in v.pending : Candidate(s, w.here, e),
           ~ v.truncated =>
             /\ ~ w.truncated /\ w.listing \ {n} \subseteq v.listing
             /\ \A e \in w.pending : \E d \in v.pending : d.path = e.path
             /\ \/ \E d \in v.pending : d.path = Shown(call.tool, Append(w.here.path, n))
                \/ \A p \in Reachable(s) : Below(w.here.path, p) /\ p[Len(w.here.path) + 1] = n
                                           => Wants(s, p) = {}
    PROVE  Walked(s, v)
<1>1. /\ \A i \in DOMAIN w.queue : Visit(s, w.queue[i])
      /\ Visit(s, w.here) /\ Got(w) \subseteq Expected(s)
      /\ ~ w.truncated /\ Apart(s) => Covered(s, w)
  BY DEF Walked
<1>2. Got(v) = Got(w)
  BY GotFacts
<1>3. s.call = call
  BY DEF Actual
<1>4. ASSUME ~ v.truncated, Apart(s), NEW p \in Reachable(s)
      PROVE  Coming(s, v, p) \/ Wants(s, p) \subseteq Got(v)
  <2> DEFINE k == Len(w.here.path) + 1
             tool == call.tool
  <2>1. Coming(s, w, p) \/ Wants(s, p) \subseteq Got(w)
    BY <1>1, <1>4 DEF Covered
  <2>2. \/ Wants(s, p) \subseteq Got(w)
        \/ \E i \in DOMAIN w.queue : Below(w.queue[i].path, p)
        \/ /\ Below(w.here.path, p)
           /\ \/ p[k] \in w.listing
              \/ \E d \in w.pending : d.path = Shown(tool, Append(w.here.path, p[k]))
    BY <1>3, <2>1 DEF Coming, Ahead
  <2>3. ASSUME Below(w.here.path, p),
               \/ p[k] \in v.listing
               \/ \E d \in v.pending : d.path = Shown(tool, Append(w.here.path, p[k]))
        PROVE  Coming(s, v, p)
    BY <1>3, <2>3 DEF Coming, Ahead
  <2>4. ASSUME NEW i \in DOMAIN w.queue, Below(w.queue[i].path, p) PROVE Coming(s, v, p)
    BY <2>4 DEF Coming
  <2> HIDE DEF k
  <2>5. ASSUME Below(w.here.path, p), p[k] \in w.listing, p[k] # n PROVE Coming(s, v, p)
    BY <1>4, <2>3, <2>5
  <2>6. ASSUME Below(w.here.path, p), p[k] = n
        PROVE  Coming(s, v, p) \/ Wants(s, p) = {}
    <3>1. \/ \E d \in v.pending : d.path = Shown(tool, Append(w.here.path, n))
          \/ Wants(s, p) = {}
      BY <1>4, <2>6 DEF k
    <3> QED BY <2>3, <2>6, <3>1
  <2>7. ASSUME Below(w.here.path, p), NEW d \in w.pending, d.path = Shown(tool, Append(w.here.path, p[k]))
        PROVE  Coming(s, v, p)
    <3>1. \E f \in v.pending : f.path = d.path
      BY <1>4
    <3> QED BY <2>3, <2>7, <3>1
  <2> QED BY <1>2, <2>2, <2>4, <2>5, <2>6, <2>7
<1>5. ~ v.truncated /\ Apart(s) => Covered(s, v)
  BY <1>4 DEF Covered
<1> QED BY <1>1, <1>2, <1>5 DEF Walked

\* What lies below a name of the directory being read.
LEMMA NameLeads ==
    ASSUME NEW s, Actual(s), Visit(s, walk.here), NEW p \in Reachable(s), NEW n,
           Below(walk.here.path, p), p[Len(walk.here.path) + 1] = n
    PROVE  /\ n \in Followed(call.tool) /\ IsEntry(n) /\ entries[walk.here.dir][n] \notin Links
           /\ call.tool \in {"find_paths", "search_text"} /\ entries[walk.here.dir][n] \notin Files \cup Dirs
              => Wants(s, p) = {}
<1> DEFINE d == walk.here.dir
<1>1. /\ n \in Followed(call.tool) /\ entries[d][n] \notin Links \cup Private \cup {NoNode}
      /\ \/ NodeAt(s, p) = entries[d][n]
         \/ entries[d][n] \in Dirs \ (Private \cup Unreadable)
  BY PathGoesOn
<1>2. TreeSafe /\ d \in Dirs \ Private /\ n \in Names /\ s.call = call
  BY <1>1 DEF Actual, Visit, Followed
<1>3. entries[d][n] \notin QuarantineIdentities(d)
  BY <1>1, <1>2, EntryPublic
<1>4. n \notin Reserved \cup {Dot}
  BY <1>2, NodesAssumption
<1>5. IsEntry(n)
  BY <1>1, <1>3, <1>4 DEF IsEntry
<1>6. ASSUME call.tool \in {"find_paths", "search_text"}, entries[d][n] \notin Files \cup Dirs
      PROVE  Wants(s, p) = {}
  <2>1. NodeAt(s, p) \notin Files \cup Dirs
    BY <1>1, <1>6
  <2>2. WantedAt(s, p) = {}
    <3>1. CASE call.tool = "find_paths"
      BY <1>2, <2>1, <3>1, WantedByTool
    <3>2. CASE call.tool = "search_text"
      BY <1>2, <2>1, <3>2, WantedByTool
    <3> QED BY <1>6, <3>1, <3>2
  <2> QED BY <2>2 DEF Wants
<1> QED BY <1>1, <1>5, <1>6

\* What an entry of the directory is, as a candidate.
LEMMA EntryCandidate ==
    ASSUME NEW s, Actual(s), Visit(s, walk.here), NEW n \in Names \cup Reserved \cup {Dot},
           IsEntry(n), entries[walk.here.dir][n] \notin Links
    PROVE  n \in Names /\ entries[walk.here.dir][n] \notin Links \cup Private \cup {NoNode}
<1>1. n \in Names /\ entries[walk.here.dir][n] # NoNode
  BY DEF IsEntry
<1>2. TreeSafe /\ walk.here.dir \in Dirs \ Private
  BY DEF Actual, Visit
<1>3. entries[walk.here.dir][n] \notin Private
  BY <1>1, <1>2, EntryPublic DEF IsEntry
<1> QED BY <1>1, <1>3

LEMMA SkippedWalked ==
    ASSUME NEW s, Actual(s), WalkSafe(walk), Walked(s, walk), NEW n \in walk.listing,
           NEW w, WalkSafe(w), w.pending = walk.pending, w.found = walk.found,
           w.queue = walk.queue, w.here = walk.here, w.listing = walk.listing,
           w.truncated = walk.truncated,
           \A p \in Reachable(s) : Below(walk.here.path, p) /\ p[Len(walk.here.path) + 1] = n
                                   => Wants(s, p) = {}
    PROVE  Walked(s, Skipped(w, n))
<1> DEFINE v == Skipped(w, n)
<1>1. w.pending = walk.pending /\ w.found = walk.found
  OBVIOUS
<1>2. /\ v.queue = w.queue /\ v.here = w.here /\ v.found = w.found /\ v.pending = w.pending
      /\ v.listing = w.listing \ {n} /\ v.truncated = w.truncated
  BY Fields DEF Skipped, WalkSafe
<1> HIDE DEF v
<1>3. \A e \in v.pending : Candidate(s, walk.here, e)
  BY <1>1, <1>2 DEF Walked
<1>4. /\ v.queue = walk.queue /\ v.here = walk.here /\ v.found = walk.found
      /\ walk.listing \ {n} \subseteq v.listing /\ v.pending = walk.pending
      /\ ~ v.truncated => ~ walk.truncated
  BY <1>1, <1>2
<1>5. \A e \in walk.pending : \E d \in v.pending : d.path = e.path
  BY <1>4
<1>6. Walked(s, v)
  BY <1>3, <1>4, <1>5, NameExamined
<1> QED BY <1>6 DEF v

LEMMA ListExamineWalked ==
    ASSUME NEW s, Actual(s), WalkSafe(walk), Walked(s, walk), call.tool = "list_directory",
           NEW n \in walk.listing, n \in Names \cup Reserved \cup {Dot}
    PROVE  Walked(s, ListExamine(n))
<1> DEFINE entry == [Entry(n) EXCEPT !.path = DisplayedPath(@)]
           inserted == {e \in walk.pending : e.path # entry.path} \cup {entry}
           kept == PopUntilFits(inserted, ListFits)
           skipped == Skipped(walk, n)
           v == [skipped EXCEPT !.pending = kept, !.truncated = skipped.truncated \/ kept # inserted]
<1>1. Visit(s, walk.here) /\ s.call = call /\ s.tree = entries
  BY DEF Walked, Actual
<1>2. CASE ~ IsEntry(n) \/ entries[walk.here.dir][n] \in Links
  <2>1. ListExamine(n) = Skipped(walk, n)
    BY <1>2 DEF ListExamine
  <2>2. \A p \in Reachable(s) : ~(Below(walk.here.path, p) /\ p[Len(walk.here.path) + 1] = n)
    BY <1>1, <1>2, NameLeads
  <2>3. Walked(s, Skipped(walk, n))
    BY <2>2, SkippedWalked
  <2> QED BY <2>1, <2>3
<1>3. CASE ~(~ IsEntry(n) \/ entries[walk.here.dir][n] \in Links)
  <2>1. ListExamine(n) = v
    BY <1>3 DEF ListExamine
  <2>2. n \in Names /\ entries[walk.here.dir][n] \notin Links \cup Private \cup {NoNode}
    BY <1>1, <1>3, EntryCandidate
  <2>3. /\ entry.name = n /\ entry.path = DisplayedPath(Append(walk.here.path, n))
        /\ entry.node = entries[walk.here.dir][n]
    BY DEF Entry
  <2>4. kept \subseteq inserted
    BY DEF PopUntilFits
  <2> HIDE DEF entry, kept
  <2>5. entry.path = Shown(call.tool, Append(walk.here.path, n))
    BY <2>3 DEF Shown
  <2>6. Candidate(s, walk.here, entry)
    BY <1>1, <2>2, <2>3, <2>5 DEF Candidate, Followed
  <2>7. \A e \in kept : Candidate(s, walk.here, e)
    BY <2>4, <2>6 DEF Walked
  <2>8. /\ skipped.queue = walk.queue /\ skipped.here = walk.here /\ skipped.found = walk.found
        /\ skipped.listing = walk.listing \ {n} /\ skipped.truncated = walk.truncated
        /\ WalkSafe(skipped)
    BY Fields, CountersKeep DEF Skipped, WalkSafe, Keeps
  <2> HIDE DEF skipped, inserted
  <2>9. /\ v.queue = skipped.queue /\ v.here = skipped.here /\ v.found = skipped.found
        /\ v.listing = skipped.listing /\ v.pending = kept
    BY <2>8, Fields DEF WalkSafe
  <2>10. v.truncated = (skipped.truncated \/ kept # inserted)
    BY <2>8, Fields DEF WalkSafe
  <2> HIDE DEF v
  <2>11. ~ v.truncated => ~ walk.truncated /\ kept = inserted
    BY <2>8, <2>10
  <2>12. kept = inserted =>
           /\ \A e \in walk.pending : \E d \in v.pending : d.path = e.path
           /\ \E d \in v.pending : d.path = Shown(call.tool, Append(walk.here.path, n))
    BY <2>5, <2>9 DEF inserted
  <2>13. Walked(s, v)
    BY <2>7, <2>8, <2>9, <2>11, <2>12, NameExamined
  <2> QED BY <2>1, <2>13
<1> QED BY <1>2, <1>3

LEMMA ExamineUpToWalked ==
    ASSUME NEW s, Actual(s), WalkSafe(walk), Walked(s, walk), call.tool \in {"find_paths", "search_text"},
           NEW n \in walk.listing, n \in Names \cup Reserved \cup {Dot}, NEW max
    PROVE  Walked(s, ExamineUpTo(n, max))
<1> DEFINE stop == [walk EXCEPT !.listing = {}, !.truncated = TRUE]
           counted == IF n \in Reserved \cup {Dot} THEN walk
                      ELSE [walk EXCEPT !.examined = walk.examined + 1]
           wanted == /\ IsEntry(n) /\ Displayed[n] = n
                     /\ entries[walk.here.dir][n] \in Files \cup Dirs
           skipped == Skipped(counted, n)
           v == [skipped EXCEPT !.pending = skipped.pending \cup {Entry(n)}]
<1>1. Visit(s, walk.here) /\ s.call = call /\ s.tree = entries /\ call.tool # "list_directory"
  BY DEF Walked, Actual
<1>2. CASE walk.examined >= max
  <2>1. ExamineUpTo(n, max) = stop
    BY <1>2 DEF ExamineUpTo
  <2>2. /\ stop.queue = walk.queue /\ stop.here = walk.here /\ stop.found = walk.found
        /\ stop.pending = walk.pending /\ stop.truncated
    BY Fields DEF WalkSafe
  <2> HIDE DEF stop
  <2>3. \A e \in stop.pending : Candidate(s, walk.here, e)
    BY <2>2 DEF Walked
  <2>4. Walked(s, stop)
    BY <2>2, <2>3, NameExamined
  <2> QED BY <2>1, <2>4
<1>3. ~(walk.examined >= max) => ExamineUpTo(n, max) = IF wanted THEN v ELSE skipped
  BY DEF ExamineUpTo
<1>4. /\ counted.queue = walk.queue /\ counted.here = walk.here /\ counted.found = walk.found
      /\ counted.pending = walk.pending /\ counted.listing = walk.listing
      /\ counted.truncated = walk.truncated /\ WalkSafe(counted)
  BY Fields, CountersKeep DEF WalkSafe, Keeps
<1> HIDE DEF counted
<1>5. CASE ~ wanted
  <2>1. \A p \in Reachable(s) : Below(walk.here.path, p) /\ p[Len(walk.here.path) + 1] = n
                                => Wants(s, p) = {}
    <3> SUFFICES ASSUME NEW p \in Reachable(s), Below(walk.here.path, p),
                        p[Len(walk.here.path) + 1] = n
                 PROVE  Wants(s, p) = {}
      OBVIOUS
    <3>1. /\ n \in Followed(call.tool) /\ IsEntry(n)
          /\ entries[walk.here.dir][n] \notin Files \cup Dirs => Wants(s, p) = {}
      BY <1>1, NameLeads
    <3>2. Displayed[n] = n
      BY <1>1, <3>1 DEF Followed
    <3> QED BY <1>5, <3>1, <3>2
  <2>2. Walked(s, skipped)
    BY <1>4, <2>1, SkippedWalked
  <2> QED BY <1>2, <1>3, <1>5, <2>2
<1>6. CASE wanted
  <2>1. Entry(n).name = n /\ Entry(n).path = Append(walk.here.path, n)
        /\ Entry(n).node = entries[walk.here.dir][n]
    BY DEF Entry
  <2>2. n \in Names /\ entries[walk.here.dir][n] \notin Links \cup Private \cup {NoNode}
    <3>1. entries[walk.here.dir][n] \notin Links
      BY <1>6, NodesAssumption
    <3> QED BY <1>1, <1>6, <3>1, EntryCandidate
  <2>3. Entry(n).path = Shown(call.tool, Append(walk.here.path, n))
    BY <1>1, <2>1 DEF Shown
  <2>4. Candidate(s, walk.here, Entry(n))
    BY <1>1, <1>6, <2>1, <2>2, <2>3 DEF Candidate, Followed
  <2>5. /\ skipped.queue = walk.queue /\ skipped.here = walk.here /\ skipped.found = walk.found
        /\ skipped.listing = walk.listing \ {n} /\ skipped.truncated = walk.truncated
        /\ skipped.pending = walk.pending /\ WalkSafe(skipped)
    BY <1>4, Fields, CountersKeep DEF Skipped, WalkSafe, Keeps
  <2> HIDE DEF skipped
  <2>6. /\ v.queue = walk.queue /\ v.here = walk.here /\ v.found = walk.found
        /\ v.listing = walk.listing \ {n} /\ v.truncated = walk.truncated
        /\ v.pending = walk.pending \cup {Entry(n)}
    BY <2>5, Fields DEF WalkSafe
  <2> HIDE DEF v
  <2>7. \A e \in v.pending : Candidate(s, walk.here, e)
    BY <2>4, <2>6 DEF Walked
  <2>8. /\ walk.listing \ {n} \subseteq v.listing
        /\ \A e \in walk.pending : \E d \in v.pending : d.path = e.path
        /\ \E d \in v.pending : d.path = Shown(call.tool, Append(walk.here.path, n))
    BY <2>3, <2>6
  <2>9. Walked(s, v)
    BY <2>6, <2>7, <2>8, NameExamined
  <2> QED BY <1>2, <1>3, <1>6, <2>9
<1> QED BY <1>5, <1>6

LEMMA ExaminedWalked ==
    ASSUME NEW s, Actual(s), WalkSafe(walk), Walked(s, walk), call.tool \in Walkers,
           NEW n \in walk.listing, n \in Names \cup Reserved \cup {Dot}
    PROVE  Walked(s, Examined(n))
<1>1. CASE call.tool = "list_directory"
  BY <1>1, ListExamineWalked, ByTool
<1>2. CASE call.tool = "find_paths"
  <2>1. Walked(s, ExamineUpTo(n, MAX_FIND_ENTRIES))
    BY <1>2, ExamineUpToWalked
  <2> QED BY <1>2, <2>1, ByTool DEF FindExamine
<1>3. CASE call.tool = "search_text"
  <2>1. Walked(s, ExamineUpTo(n, MAX_SEARCH_ENTRIES))
    BY <1>3, ExamineUpToWalked
  <2> QED BY <1>3, <2>1, ByTool DEF SearchExamine
<1> QED BY <1>1, <1>2, <1>3 DEF Walkers

\* A traversal that stops and says so.
LEMMA StopWalked ==
    ASSUME NEW s, NEW w, Walked(s, w), NEW v, v.truncated, v.queue = w.queue \/ v.queue = <<>>,
           v.here = w.here, v.listing = w.listing, v.pending \subseteq w.pending,
           v.found \subseteq w.found
    PROVE  Walked(s, v)
<1>1. Got(v) \subseteq Got(w)
  BY GotFacts
<1>2. \A i \in DOMAIN v.queue : Visit(s, v.queue[i])
  <2>1. DOMAIN <<>> = {}
    OBVIOUS
  <2> QED BY <2>1 DEF Walked
<1> QED BY <1>1, <1>2 DEF Walked

LEMMA CandidatePath ==
    ASSUME NEW s, Actual(s), NEW v, Visit(s, v), NEW e, Candidate(s, v, e)
    PROVE  LET p == Append(v.path, e.name)
           IN  /\ p \in Reachable(s) /\ NodeAt(s, p) = e.node /\ e.path = Shown(call.tool, p)
               /\ p[Len(p)] = e.name /\ Wants(s, p) = {e.path} \X WantedAt(s, p)
<1> DEFINE p == Append(v.path, e.name)
<1>1. s.call = call /\ s.tree = entries
  BY DEF Actual
<1>2. /\ e.name \in Followed(call.tool) /\ e.path = Shown(call.tool, p)
      /\ e.node = entries[v.dir][e.name] /\ e.node \notin Links \cup Private \cup {NoNode}
      /\ v.path \in Seq(Followed(call.tool))
  BY <1>1 DEF Candidate, Visit
<1>3. p \in Reachable(s) /\ NodeAt(s, p) = e.node
  BY <1>2, EntryReachable
<1>4. p[Len(p)] = e.name
  BY <1>2
<1> HIDE DEF p
<1>5. Wants(s, p) = {e.path} \X WantedAt(s, p)
  BY <1>1, <1>2 DEF Wants
<1> QED BY <1>2, <1>3, <1>4, <1>5 DEF p

\* A candidate that brings what is wanted of it, no more and no less.
LEMMA BroughtWalked ==
    ASSUME NEW s, Actual(s), call.tool \in Walkers, WalkSafe(walk), Walked(s, walk),
           NEW e \in walk.pending, NEW at, NEW node,
           NEW v, v.queue = Enqueued(walk.queue, walk.here, e), v.here = walk.here,
           v.listing = walk.listing, v.pending = walk.pending \ {e},
           v.found = walk.found \cup {Found(e.path, node, a) : a \in at},
           at \subseteq WantedAt(s, Append(walk.here.path, e.name)),
           ~ v.truncated => ~ walk.truncated /\ at = WantedAt(s, Append(walk.here.path, e.name))
    PROVE  Walked(s, v)
<1> DEFINE p == Append(walk.here.path, e.name)
           F == {Found(e.path, node, a) : a \in at}
           G == {<<m.path, m.at>> : m \in F}
<1>1. Visit(s, walk.here) /\ Candidate(s, walk.here, e) /\ Got(walk) \subseteq Expected(s)
  BY DEF Walked
<1>2. p \in Reachable(s) /\ Wants(s, p) = {e.path} \X WantedAt(s, p)
  BY <1>1, CandidatePath
<1>3. G = {e.path} \X at
  <2>1. \A a : Found(e.path, node, a).path = e.path /\ Found(e.path, node, a).at = a
    BY DEF Found
  <2> QED BY <2>1
<1> HIDE DEF F
<1>4. Got(v) = Got(walk) \cup G
  <2>1. v.found = walk.found \cup F
    BY DEF F
  <2> QED BY <2>1, GotFacts
<1> HIDE DEF G, p
<1>5. G \subseteq Wants(s, p) /\ (~ v.truncated => Wants(s, p) \subseteq G /\ ~ walk.truncated)
  BY <1>2, <1>3 DEF p
<1>6. Got(walk) \subseteq Got(v) /\ Got(v) \subseteq Expected(s)
  BY <1>1, <1>2, <1>4, <1>5, WantsExpected
<1>7. ~ v.truncated => ~ walk.truncated /\ Wants(s, p) \subseteq Got(v)
  BY <1>4, <1>5
<1>8. walk.queue \in Seq(Queueable)
  BY DEF WalkSafe
<1> QED BY <1>6, <1>7, <1>8, CandidateProcessed DEF p

LEMMA ListProcessWalked ==
    ASSUME NEW s, Actual(s), WalkSafe(walk), Walked(s, walk), call.tool = "list_directory",
           NEW e \in walk.pending
    PROVE  Walked(s, ListProcess(Without(e), e))
<1> DEFINE w == Without(e)
           a == w.used + Encoded(e.path) + (IF w.found = {} THEN 0 ELSE 1)
           F == w.found \cup {Found(e.path, e.node, <<>>)}
           x == [w EXCEPT !.used = a, !.found = F]
           v == Queued(x, e)
           at == {<<>>}
<1>1. ListProcess(w, e) = v
  BY DEF ListProcess
<1>2. /\ WalkSafe(w) /\ w.here = walk.here /\ w.pending = walk.pending \ {e} /\ w.found = walk.found
  BY WithoutFacts
<1>3. w.queue = walk.queue /\ w.listing = walk.listing /\ w.truncated = walk.truncated
  BY Fields DEF Without, WalkSafe
<1> HIDE DEF w, a
<1>4. \A m \in F : m.node \in Safe
  <2>1. e.node \in Safe /\ \A m \in walk.found : m.node \in Safe
    BY DEF WalkSafe
  <2>2. Found(e.path, e.node, <<>>).node = e.node
    BY DEF Found
  <2> QED BY <1>2, <2>1, <2>2
<1>5. F = walk.found \cup {Found(e.path, e.node, b) : b \in at}
  BY <1>2
<1> HIDE DEF F
<1>6. /\ WalkSafe(x) /\ x.here = walk.here /\ x.pending = walk.pending \ {e} /\ x.found = F
      /\ x.queue = walk.queue /\ x.listing = walk.listing /\ x.truncated = walk.truncated
  <2>1. WalkSafe(x)
    BY <1>2, <1>4, FoundKeep DEF Keeps
  <2>2. /\ x.here = w.here /\ x.pending = w.pending /\ x.found = F
        /\ x.queue = w.queue /\ x.listing = w.listing /\ x.truncated = w.truncated
    BY <1>2, Fields DEF WalkSafe
  <2> QED BY <1>2, <1>3, <2>1, <2>2
<1> HIDE DEF x
<1>7. /\ v.queue = Enqueued(walk.queue, walk.here, e) /\ v.here = walk.here
      /\ v.listing = walk.listing /\ v.pending = walk.pending \ {e} /\ v.found = F
      /\ v.truncated = walk.truncated
  BY <1>6, QueuedFields
<1> HIDE DEF v
<1>8. WantedAt(s, Append(walk.here.path, e.name)) = at
  BY WantedByTool DEF Actual
<1> HIDE DEF at
<1>9. Walked(s, v)
  <2>1. at \subseteq WantedAt(s, Append(walk.here.path, e.name))
    BY <1>8
  <2>2. v.found = walk.found \cup {Found(e.path, e.node, b) : b \in at}
    BY <1>5, <1>7
  <2> QED BY <1>7, <1>8, <2>1, <2>2, BroughtWalked DEF Walkers
<1> QED BY <1>1, <1>9 DEF w

LEMMA FindProcessWalked ==
    ASSUME NEW s, Actual(s), WalkSafe(walk), Walked(s, walk), call.tool = "find_paths",
           NEW e \in walk.pending
    PROVE  Walked(s, FindProcess(Without(e), e))
<1> DEFINE w == Without(e)
           hit == NameContains(e.name, call.query) /\ FilterMatches(call.filter, e.node)
           F == w.found \cup {Found(e.path, e.node, <<>>)}
           x == IF hit THEN [w EXCEPT !.found = F] ELSE w
           v == Queued(x, e)
           stop == [w EXCEPT !.pending = {}, !.queue = <<>>, !.truncated = TRUE]
           at == IF hit THEN {<<>>} ELSE {}
<1>1. FindProcess(w, e) = stop \/ FindProcess(w, e) = v
  BY DEF FindProcess
<1>2. /\ WalkSafe(w) /\ w.here = walk.here /\ w.pending = walk.pending \ {e} /\ w.found = walk.found
  BY WithoutFacts
<1>3. w.queue = walk.queue /\ w.listing = walk.listing /\ w.truncated = walk.truncated
  BY Fields DEF Without, WalkSafe
<1> HIDE DEF w
<1>4. Walked(s, stop)
  <2>1. /\ stop.truncated /\ stop.queue = <<>> /\ stop.here = w.here /\ stop.listing = w.listing
        /\ stop.pending = {} /\ stop.found = w.found
    BY <1>2, Fields DEF WalkSafe
  <2> HIDE DEF stop
  <2> QED BY <1>2, <1>3, <2>1, StopWalked
<1> HIDE DEF hit
<1>5. \A m \in F : m.node \in Safe
  <2>1. e.node \in Safe /\ \A m \in walk.found : m.node \in Safe
    BY DEF WalkSafe
  <2>2. Found(e.path, e.node, <<>>).node = e.node
    BY DEF Found
  <2> QED BY <1>2, <2>1, <2>2
<1>6. (IF hit THEN F ELSE w.found) = walk.found \cup {Found(e.path, e.node, b) : b \in at}
  BY <1>2
<1> HIDE DEF F
<1>7. /\ WalkSafe(x) /\ x.here = walk.here /\ x.pending = walk.pending \ {e}
      /\ x.found = (IF hit THEN F ELSE w.found)
      /\ x.queue = walk.queue /\ x.listing = walk.listing /\ x.truncated = walk.truncated
  <2> DEFINE y == [w EXCEPT !.found = F]
  <2>1. WalkSafe(y)
    BY <1>2, <1>5, FoundKeep DEF Keeps
  <2>2. /\ y.here = w.here /\ y.pending = w.pending /\ y.found = F
        /\ y.queue = w.queue /\ y.listing = w.listing /\ y.truncated = w.truncated
    BY <1>2, Fields DEF WalkSafe
  <2>3. x = IF hit THEN y ELSE w
    OBVIOUS
  <2> HIDE DEF y, x
  <2> QED BY <1>2, <1>3, <2>1, <2>2, <2>3
<1> HIDE DEF x
<1>8. /\ v.queue = Enqueued(walk.queue, walk.here, e) /\ v.here = walk.here
      /\ v.listing = walk.listing /\ v.pending = walk.pending \ {e} /\ v.found = x.found
      /\ v.truncated = walk.truncated
  BY <1>7, QueuedFields
<1> HIDE DEF v
<1>9. WantedAt(s, Append(walk.here.path, e.name)) = at
  <2> DEFINE p == Append(walk.here.path, e.name)
  <2>1. Visit(s, walk.here) /\ Candidate(s, walk.here, e) /\ s.call = call
    BY DEF Walked, Actual
  <2>2. NodeAt(s, p) = e.node /\ p[Len(p)] = e.name /\ e.node \in Files \cup Dirs
    BY <2>1, CandidatePath DEF Candidate
  <2> HIDE DEF p
  <2>3. WantedAt(s, p) = {b \in {<<>>} : /\ NodeAt(s, p) \in Files \cup Dirs
                                         /\ NameContains(p[Len(p)], call.query)
                                         /\ FilterMatches(call.filter, NodeAt(s, p))}
    BY <2>1, WantedByTool
  <2>4. WantedAt(s, p) = {b \in {<<>>} : hit}
    BY <2>2, <2>3 DEF hit
  <2> QED BY <2>4 DEF p
<1> HIDE DEF at
<1>10. Walked(s, v)
  <2>1. at \subseteq WantedAt(s, Append(walk.here.path, e.name))
    BY <1>9
  <2>2. v.found = walk.found \cup {Found(e.path, e.node, b) : b \in at}
    BY <1>6, <1>7, <1>8
  <2> QED BY <1>8, <1>9, <2>1, <2>2, BroughtWalked DEF Walkers
<1> QED BY <1>1, <1>4, <1>10 DEF w

LEMMA ScanWalked ==
    ASSUME NEW s, Actual(s), WalkSafe(walk), Walked(s, walk), call.tool = "search_text",
           NEW e \in walk.pending, e.node \notin Dirs
    PROVE  Walked(s, ScanSearchFile(Without(e), e))
<1> DEFINE w == Without(e)
           node == Openat(w.here.dir, e.name)
           left == MAX_SEARCH_TOTAL_BYTES - w.scanned
           limit == IF MAX_SEARCH_FILE_BYTES < left THEN MAX_SEARCH_FILE_BYTES ELSE left
           content == bytes[node]
           at == TextMatches(content, call.query)
           all == {Found(e.path, node, a) : a \in at}
           room == MAX_SEARCH_MATCHES - Cardinality(w.found)
           kept == PopUntilFits(all, LAMBDA S : Cardinality(S) <= room)
           counted == [w EXCEPT !.files = w.files + 1, !.scanned = w.scanned + Len(content)]
           more == [counted EXCEPT !.found = counted.found \cup kept,
                                   !.truncated = counted.truncated \/ kept # all]
           short == [w EXCEPT !.truncated = TRUE]
           p == Append(walk.here.path, e.name)
<1>1. ScanSearchFile(w, e) =
         IF e.size > limit THEN short
         ELSE IF node \notin Files THEN w
         ELSE IF Len(content) > limit THEN short
         ELSE IF ~ IsUtf8(content) THEN counted
         ELSE more
  BY DEF ScanSearchFile
<1>2. /\ WalkSafe(w) /\ w.here = walk.here /\ w.pending = walk.pending \ {e} /\ w.found = walk.found
  BY WithoutFacts
<1>3. w.queue = walk.queue /\ w.listing = walk.listing /\ w.truncated = walk.truncated
  BY Fields DEF Without, WalkSafe
<1> HIDE DEF w
<1>4. /\ Visit(s, walk.here) /\ Candidate(s, walk.here, e) /\ s.call = call /\ s.tree = entries
      /\ s.content = bytes
  BY DEF Walked, Actual
<1>5. NodeAt(s, p) = e.node
  BY <1>4, CandidatePath
<1>6. e.node = entries[walk.here.dir][e.name] /\ e.node \in Files
  BY <1>4 DEF Candidate
<1>7. /\ e.node \notin Unreadable => node = e.node
      /\ node \in Files => node = e.node /\ e.node \notin Unreadable
  <2>1. Loop \notin Files /\ NoAccess \notin Files /\ e.node \notin Links
    BY <1>6, NodesAssumption DEF Nodes
  <2> QED BY <1>2, <1>6, <2>1, OpenatPlain
<1>8. WantedAt(s, p) = IF e.node \in Files \ Unreadable /\ IsUtf8(bytes[e.node])
                       THEN TextMatches(bytes[e.node], call.query) ELSE {}
  <2> HIDE DEF p
  <2>1. WantedAt(s, p) = IF NodeAt(s, p) \in Files \ Unreadable /\ IsUtf8(s.content[NodeAt(s, p)])
                         THEN TextMatches(s.content[NodeAt(s, p)], s.call.query) ELSE {}
    BY <1>4, WantedByTool
  <2> QED BY <1>4, <1>5, <2>1
<1>9. walk.queue = Enqueued(walk.queue, walk.here, e)
  BY DEF Enqueued
<1>10. Walked(s, short)
  <2>1. /\ short.truncated /\ short.queue = w.queue /\ short.here = w.here
        /\ short.listing = w.listing /\ short.pending = w.pending /\ short.found = w.found
    BY <1>2, Fields DEF WalkSafe
  <2> HIDE DEF short
  <2> QED BY <1>2, <1>3, <2>1, StopWalked
\* A walk to which nothing is added, where nothing is wanted.
<1>11. ASSUME WantedAt(s, p) = {}, NEW v, v.queue = walk.queue, v.here = walk.here,
              v.listing = walk.listing, v.pending = walk.pending \ {e}, v.found = walk.found,
              v.truncated = walk.truncated
       PROVE  Walked(s, v)
  <2> DEFINE none == {}
  <2>1. v.found = walk.found \cup {Found(e.path, e.node, b) : b \in none}
    BY <1>11
  <2>2. none \subseteq WantedAt(s, Append(walk.here.path, e.name))
        /\ none = WantedAt(s, Append(walk.here.path, e.name))
    BY <1>11
  <2>3. /\ v.queue = Enqueued(walk.queue, walk.here, e) /\ v.here = walk.here
        /\ v.listing = walk.listing /\ v.pending = walk.pending \ {e}
    BY <1>9, <1>11
  <2> HIDE DEF none, p
  <2>4. ~ v.truncated => ~ walk.truncated /\ none = WantedAt(s, Append(walk.here.path, e.name))
    BY <1>11, <2>2
  <2>5. call.tool \in Walkers
    BY DEF Walkers
  <2> QED BY <2>1, <2>2, <2>3, <2>4, <2>5, BroughtWalked
<1> HIDE DEF p, short
<1>12. ASSUME node \notin Files PROVE Walked(s, w)
  <2>1. WantedAt(s, p) = {}
    BY <1>6, <1>7, <1>8, <1>12
  <2> QED BY <1>2, <1>3, <1>11, <2>1
<1>13. /\ WalkSafe(counted) /\ counted.queue = w.queue /\ counted.here = w.here
       /\ counted.listing = w.listing /\ counted.pending = w.pending
       /\ counted.found = w.found /\ counted.truncated = w.truncated
  <2>1. WalkSafe(counted)
    BY <1>2, CountersKeep DEF Keeps
  <2>2. /\ counted.queue = w.queue /\ counted.here = w.here
        /\ counted.listing = w.listing /\ counted.pending = w.pending
        /\ counted.found = w.found /\ counted.truncated = w.truncated
    BY <1>2, Fields DEF WalkSafe
  <2> QED BY <2>1, <2>2
<1> HIDE DEF counted
<1>14. ASSUME node \in Files, ~ IsUtf8(content) PROVE Walked(s, counted)
  <2>1. WantedAt(s, p) = {}
    BY <1>7, <1>8, <1>14
  <2> QED BY <1>2, <1>3, <1>11, <1>13, <2>1
<1>15. ASSUME node \in Files, IsUtf8(content) PROVE Walked(s, more)
  <2>1. WantedAt(s, p) = at
    BY <1>7, <1>8, <1>15
  <2>2. kept \subseteq all
    BY DEF PopUntilFits
  <2> DEFINE part == {a \in at : Found(e.path, node, a) \in kept}
  <2>3. kept = {Found(e.path, node, a) : a \in part} /\ part \subseteq at
    <3> HIDE DEF kept, at
    <3> QED BY <2>2
  <2>4. kept = all => part = at
    <3> HIDE DEF kept, at
    <3> QED OBVIOUS
  <2> HIDE DEF kept, all, at, part, node
  <2>5. /\ more.queue = counted.queue /\ more.here = counted.here
        /\ more.listing = counted.listing /\ more.pending = counted.pending
        /\ more.found = counted.found \cup kept
    BY <1>13, Fields DEF WalkSafe
  <2>6. more.truncated = (counted.truncated \/ kept # all)
    BY <1>13, Fields DEF WalkSafe
  <2> HIDE DEF more
  <2>7. ~ more.truncated => ~ walk.truncated /\ part = at
    BY <1>3, <1>13, <2>4, <2>6
  <2>8. /\ more.queue = Enqueued(walk.queue, walk.here, e) /\ more.here = walk.here
        /\ more.listing = walk.listing /\ more.pending = walk.pending \ {e}
        /\ more.found = walk.found \cup {Found(e.path, node, a) : a \in part}
    BY <1>2, <1>3, <1>9, <1>13, <2>3, <2>5
  <2>9. /\ part \subseteq WantedAt(s, Append(walk.here.path, e.name))
        /\ ~ more.truncated => ~ walk.truncated /\ part = WantedAt(s, Append(walk.here.path, e.name))
    BY <2>1, <2>3, <2>7 DEF p
  <2> QED BY <2>8, <2>9, BroughtWalked DEF Walkers
<1> HIDE DEF more, content, node, limit
<1>16. Walked(s, ScanSearchFile(w, e))
  BY <1>1, <1>10, <1>12, <1>14, <1>15
<1> QED BY <1>16 DEF w

LEMMA SearchProcessWalked ==
    ASSUME NEW s, Actual(s), WalkSafe(walk), Walked(s, walk), call.tool = "search_text",
           NEW e \in walk.pending
    PROVE  Walked(s, SearchProcess(Without(e), e))
<1> DEFINE w == Without(e)
           v == Queued(w, e)
           stop == [w EXCEPT !.pending = {}, !.truncated = TRUE]
           none == {}
<1>1. \/ SearchProcess(w, e) = stop
      \/ e.node \in Dirs /\ SearchProcess(w, e) = v
      \/ e.node \notin Dirs /\ SearchProcess(w, e) = ScanSearchFile(w, e)
  BY DEF SearchProcess
<1>2. /\ WalkSafe(w) /\ w.here = walk.here /\ w.pending = walk.pending \ {e} /\ w.found = walk.found
  BY WithoutFacts
<1>3. w.queue = walk.queue /\ w.listing = walk.listing /\ w.truncated = walk.truncated
  BY Fields DEF Without, WalkSafe
<1>4. e.node \notin Dirs => Walked(s, ScanSearchFile(w, e))
  BY ScanWalked
<1> HIDE DEF w
<1>5. Walked(s, stop)
  <2>1. /\ stop.truncated /\ stop.queue = w.queue /\ stop.here = w.here /\ stop.listing = w.listing
        /\ stop.pending = {} /\ stop.found = w.found
    BY <1>2, Fields DEF WalkSafe
  <2> HIDE DEF stop
  <2> QED BY <1>2, <1>3, <2>1, StopWalked
<1> HIDE DEF stop
<1>6. ASSUME e.node \in Dirs PROVE Walked(s, v)
  <2> DEFINE p == Append(walk.here.path, e.name)
  <2>1. Visit(s, walk.here) /\ Candidate(s, walk.here, e) /\ s.call = call
    BY DEF Walked, Actual
  <2>2. NodeAt(s, p) = e.node
    BY <2>1, CandidatePath
  <2>3. WantedAt(s, p) = none
    <3> HIDE DEF p
    <3>1. NodeAt(s, p) \notin Files
      BY <1>6, <2>2, NodesAssumption
    <3> QED BY <2>1, <3>1, WantedByTool
  <2>4. /\ v.queue = Enqueued(walk.queue, walk.here, e) /\ v.here = walk.here
        /\ v.listing = walk.listing /\ v.pending = walk.pending \ {e} /\ v.found = walk.found
        /\ v.truncated = walk.truncated
    BY <1>2, <1>3, QueuedFields
  <2>5. v.found = walk.found \cup {Found(e.path, e.node, b) : b \in none}
    BY <2>4
  <2> HIDE DEF v, none
  <2>6. none \subseteq WantedAt(s, Append(walk.here.path, e.name))
    BY <2>3
  <2> QED BY <2>3, <2>4, <2>5, <2>6, BroughtWalked DEF Walkers
<1>7. Walked(s, SearchProcess(w, e))
  BY <1>1, <1>4, <1>5, <1>6
<1> QED BY <1>7 DEF w

LEMMA ProcessedWalked ==
    ASSUME NEW s, Actual(s), WalkSafe(walk), Walked(s, walk), call.tool \in Walkers,
           NEW e \in walk.pending
    PROVE  Walked(s, Processed(Without(e), e))
<1>1. CASE call.tool = "list_directory"
  BY <1>1, ListProcessWalked, ByTool
<1>2. CASE call.tool = "find_paths"
  BY <1>2, FindProcessWalked, ByTool
<1>3. CASE call.tool = "search_text"
  BY <1>3, SearchProcessWalked, ByTool
<1> QED BY <1>1, <1>2, <1>3 DEF Walkers

\* The next directory of the queue is opened: what is below it is below one of its names.
LEMMA PopWalked ==
    ASSUME NEW s, Actual(s), WalkSafe(walk), Walked(s, walk),
           walk.listing = {}, walk.pending = {}, walk.queue # <<>>,
           NEW v, v.queue = Tail(walk.queue), v.here = Head(walk.queue),
           v.listing = {Dot} \cup {n \in Names \cup Reserved :
                                     entries[Head(walk.queue).dir][n] # NoNode},
           v.pending = {}, v.found = walk.found, ~ v.truncated => ~ walk.truncated
    PROVE  Walked(s, v)
<1> DEFINE q == walk.queue
           head == Head(q)
<1>1. q \in Seq(Queueable) /\ q # <<>>
  BY DEF WalkSafe
<1>2. /\ head = q[1] /\ DOMAIN q = 1..Len(q) /\ Len(q) \in Nat /\ Len(q) >= 1
      /\ DOMAIN Tail(q) = 1..(Len(q) - 1)
      /\ \A i \in 1..(Len(q) - 1) : Tail(q)[i] = q[i + 1]
  <2> HIDE DEF q
  <2> QED BY <1>1
<1>3. /\ \A i \in DOMAIN q : Visit(s, q[i])
      /\ Got(walk) \subseteq Expected(s)
      /\ ~ walk.truncated /\ Apart(s) => Covered(s, walk)
  BY DEF Walked
<1> HIDE DEF q, head
<1>4. v.queue = Tail(q) /\ v.here = head
  BY DEF q, head
<1>5. Visit(s, head)
  BY <1>2, <1>3
<1>6. \A i \in DOMAIN v.queue : Visit(s, v.queue[i])
  <2> SUFFICES ASSUME NEW i \in 1..(Len(q) - 1) PROVE Visit(s, q[i + 1])
    BY <1>2, <1>4
  <2>1. i + 1 \in DOMAIN q
    BY <1>2
  <2> QED BY <1>3, <2>1
<1>7. Got(v) = Got(walk)
  BY GotFacts
<1>8. ASSUME ~ v.truncated, Apart(s) PROVE Covered(s, v)
  <2> SUFFICES ASSUME NEW p \in Reachable(s), ~ (Wants(s, p) \subseteq Got(walk))
               PROVE  Coming(s, v, p)
    BY <1>7 DEF Covered
  <2>1. Coming(s, walk, p)
    BY <1>3, <1>8 DEF Covered
  <2>2. PICK i \in DOMAIN q : Below(q[i].path, p)
    BY <2>1 DEF Coming, Ahead, q
  <2>3. CASE i = 1
    <3> DEFINE n == p[Len(head.path) + 1]
    <3>1. Below(head.path, p)
      BY <1>2, <2>2, <2>3
    <3>2. n \in Followed(call.tool) /\ entries[head.dir][n] # NoNode
      BY <1>5, <3>1, PathGoesOn
    <3>3. n \in Names
      BY <3>2 DEF Followed
    <3>4. n \in v.listing
      <4> HIDE DEF n
      <4> QED BY <3>2, <3>3 DEF head, q
    <3> QED BY <1>4, <3>1, <3>4 DEF Coming, Ahead
  <2>4. CASE i # 1
    <3>1. i - 1 \in 1..(Len(q) - 1) /\ (i - 1) + 1 = i
      BY <1>2, <2>4
    <3>2. i - 1 \in DOMAIN v.queue /\ v.queue[i - 1] = q[i]
      BY <1>2, <1>4, <3>1
    <3> QED BY <2>2, <3>2 DEF Coming
  <2> QED BY <2>3, <2>4
<1> QED BY <1>3, <1>4, <1>5, <1>6, <1>7, <1>8 DEF Walked

\* Between two directories it does not matter which one was the last.
LEMMA LeftWalked ==
    ASSUME NEW s, NEW w, Walked(s, w), w.listing = {}, w.pending = {},
           NEW v, v.queue = w.queue, v.listing = {}, v.pending = {}, v.found = w.found,
           v.truncated = w.truncated
    PROVE  Walked(s, v)
<1>1. Got(v) = Got(w)
  BY GotFacts
<1>2. ASSUME Covered(s, w) PROVE Covered(s, v)
  <2> SUFFICES ASSUME NEW p \in Reachable(s), Coming(s, w, p) PROVE Coming(s, v, p)
    BY <1>1, <1>2 DEF Covered
  <2>1. \E i \in DOMAIN w.queue : Below(w.queue[i].path, p)
    BY DEF Coming, Ahead
  <2> QED BY <2>1 DEF Coming
<1>3. /\ \A i \in DOMAIN w.queue : Visit(s, w.queue[i])
      /\ Got(w) \subseteq Expected(s)
      /\ ~ w.truncated /\ Apart(s) => Covered(s, w)
  BY DEF Walked
<1> QED BY <1>1, <1>2, <1>3 DEF Walked

LEMMA TrimmedWalked ==
    ASSUME NEW s, WalkSafe(walk), Walked(s, walk), NEW max
    PROVE  /\ Walked(s, Trimmed(max))
           /\ Trimmed(max).queue = walk.queue /\ Trimmed(max).listing = walk.listing
           /\ Trimmed(max).pending = walk.pending
<1> DEFINE kept == PopUntilFits(walk.found, LAMBDA S : ListBytes(S) <= max)
           v == [walk EXCEPT !.found = kept, !.truncated = walk.truncated \/ kept # walk.found]
<1>1. Trimmed(max) = v
  BY DEF Trimmed
<1>2. kept \subseteq walk.found
  BY DEF PopUntilFits
<1> HIDE DEF kept
<1>3. /\ v.queue = walk.queue /\ v.here = walk.here /\ v.listing = walk.listing
      /\ v.pending = walk.pending /\ v.found = kept
  BY Fields DEF WalkSafe
<1>4. v.truncated = (walk.truncated \/ kept # walk.found)
  BY Fields DEF WalkSafe
<1> HIDE DEF v
<1>5. CASE v.truncated
  BY <1>1, <1>2, <1>3, <1>5, StopWalked
<1>6. CASE ~ v.truncated
  <2>1. kept = walk.found /\ ~ walk.truncated
    BY <1>4, <1>6
  <2>2. Got(v) = Got(walk)
    BY <1>3, <2>1, GotFacts
  <2>3. Covered(s, walk) => Covered(s, v)
    BY <1>3, <2>2 DEF Covered, Coming, Ahead
  <2>4. Walked(s, v)
    BY <1>3, <1>6, <2>1, <2>2, <2>3 DEF Walked
  <2> QED BY <1>1, <1>3, <2>4
<1> QED BY <1>5, <1>6

LEMMA PublishedWalked ==
    ASSUME NEW s, WalkSafe(walk), Walked(s, walk), call.tool \in Walkers
    PROVE  /\ Walked(s, Published)
           /\ Published.queue = walk.queue /\ Published.listing = walk.listing
           /\ Published.pending = walk.pending
<1>1. CASE call.tool = "list_directory"
  BY <1>1, ByTool DEF ListDirectory
<1>2. CASE call.tool = "find_paths"
  BY <1>2, TrimmedWalked, ByTool DEF FindPaths
<1>3. CASE call.tool = "search_text"
  BY <1>3, TrimmedWalked, ByTool DEF SearchText
<1> QED BY <1>1, <1>2, <1>3 DEF Walkers

-----------------------------------------------------------------------------
(* Honesty: a traversal keeps to its tree, step by step *)

\* A traversal that begins has everything before it.
LEMMA FirstWalked ==
    ASSUME NEW s, Actual(s), s.top \in Dirs \ Private, NEW v,
           v.queue = <<[dir |-> s.top, path |-> <<>>, depth |-> 1]>>,
           v.listing = {}, v.pending = {}, v.found = {}
    PROVE  Walked(s, v)
<1> DEFINE first == [dir |-> s.top, path |-> <<>>, depth |-> 1]
           none == <<>>
<1>1. first.dir = s.top /\ first.path = none /\ first.depth = 1 /\ Len(none) = 0
  OBVIOUS
<1>2. none \in Seq(Followed(s.call.tool)) /\ none \in Seq(Names)
  OBVIOUS
<1>3. NodeAt(s, none) = s.top
  <2>1. TreeSafe /\ s.tree = entries /\ s.top \in Dirs
    BY DEF Actual
  <2> DEFINE top == s.top
  <2> HIDE DEF none, top
  <2>2. Trail(entries, top, none)[0] = top
    BY <1>2, <2>1, TrailFacts DEF top
  <2> QED BY <1>1, <2>1, <2>2 DEF NodeAt, top
<1>4. 1 <= Depth(s.call)
  BY DepthFacts DEF Actual
<1>5. v.queue = <<first>> /\ DOMAIN v.queue = {1} /\ v.queue[1] = first
  OBVIOUS
<1> HIDE DEF first
<1>6. Visit(s, first)
  <2>1. Passable(s, none, 0)
    BY DEF Passable
  <2> HIDE DEF none
  <2> QED BY <1>1, <1>2, <1>3, <1>4, <2>1 DEF Visit
<1>7. ASSUME NEW p \in Reachable(s) PROVE Coming(s, v, p)
  <2>1. p \in Seq(Followed(call.tool)) /\ Len(p) \in 1..Depth(call)
    BY ReachableFacts
  <2>2. Len(none) < Len(p) /\ SubSeq(p, 1, Len(none)) = none
    BY <2>1
  <2>3. Below(first.path, p)
    <3> HIDE DEF none
    <3> QED BY <1>1, <2>2 DEF Below
  <2> QED BY <1>5, <2>3 DEF Coming
<1>8. Got(v) = {}
  BY DEF Got
<1> QED BY <1>5, <1>6, <1>7, <1>8 DEF Walked, Covered

\* What depends on the tree and the call alone.
LEMMA SceneStays ==
    ASSUME UNCHANGED <<world, call>>
    PROVE  /\ Scene' = Scene /\ Target' = Target /\ PathNames' = PathNames /\ At' = At
           /\ moved' = moved /\ AnchorRefuses(call.path)' = AnchorRefuses(call.path)
<1>1. SameTrail
  BY SameCall
<1>2. PathNames' = PathNames /\ At' = At /\ Target' = Target
  BY <1>1, TrailStays
<1>3. entries' = entries /\ bytes' = bytes /\ call' = call /\ moved' = moved /\ roots' = roots
  BY DEF world
<1>4. Scene' = Scene
  BY <1>2, <1>3 DEF Scene
<1>5. AnchorRefuses(call.path)' = AnchorRefuses(call.path)
  BY <1>3 DEF AnchorRefuses, HoldingRoots, RelativePath, AnchorRoot
<1> QED BY <1>2, <1>3, <1>4, <1>5

LEMMA ActualScene ==
    ASSUME IInv, call.depth \in Nat, Target \in Dirs
    PROVE  Actual(Scene)
<1>1. /\ Scene.tree = entries /\ Scene.content = bytes /\ Scene.call = call
      /\ Scene.top = Target
  BY DEF Scene
<1> QED BY <1>1 DEF Actual, IInv

\* What a step of a traversal has to show.
LEMMA HonestStep ==
    ASSUME WInv, call.tool \in Walkers, UNCHANGED <<world, call>>, WalkPlace',
           ~ moved /\ pc' = "descend" => DescentPlace',
           ~ moved /\ (pc' \in Walking \/ (pc' = "done" /\ answer'.status = "ok")) =>
               Target \in Dirs /\ Walked(Scene, walk')
    PROVE  WInv'
<1>1. call' = call /\ moved' = moved /\ Scene' = Scene /\ Target' = Target
  BY SceneStays
<1>2. call.depth \in Nat
  BY DEF WInv
<1>3. Walked(Scene, walk') => Walked(Scene, walk)'
  BY <1>1
<1> QED BY <1>1, <1>2, <1>3 DEF WInv

\* A refusal is no answer, and a traversal that did not begin kept nothing.
LEMMA RefuseWalk ==
    ASSUME WInv, call.tool \in Walkers, UNCHANGED <<world, call>>, walk = NoWalk,
           NEW status, status # "ok", Refuse(status)
    PROVE  WInv'
<1>1. pc' = "done" /\ answer'.status = status /\ walk' = NoWalk
  BY DEF Refuse, End, Outcome, NoAnswer
<1>2. NoWalk.listing = {} /\ NoWalk.pending = {} /\ NoWalk.queue = <<>>
  BY DEF NoWalk
<1>3. WalkPlace'
  BY <1>1, <1>2 DEF WalkPlace
<1>4. pc' # "descend" /\ pc' \notin Walking /\ answer'.status # "ok"
  BY <1>1 DEF Walking
<1> QED BY <1>3, <1>4, HonestStep

LEMMA StartWalk ==
    ASSUME IInv, WInv, call.tool \in Walkers, Start
    PROVE  WInv'
<1>1. pc = "start" /\ UNCHANGED <<world, call>>
  BY DEF Start
<1>2. walk = NoWalk
  BY <1>1 DEF WInv, WalkPlace
<1>3. CASE StartStatus # "ok"
  <2>1. Refuse(StartStatus)
    BY <1>3 DEF Start
  <2> HIDE DEF StartStatus
  <2> QED BY <1>1, <1>2, <1>3, <2>1, RefuseWalk
<1>4. CASE StartStatus = "ok"
  <2>1. /\ fd' = roots[AnchorRoot(call.path)] /\ rest' = RelativePath(call.path)
        /\ pc' = "descend" /\ walk' = walk
    BY <1>4 DEF Start
  <2>2. ~ AnchorRefuses(call.path)
    BY <1>4, StartOk
  <2>3. /\ PathNames \in Seq(Names) /\ Len(PathNames) \in Nat /\ At[0] = fd'
        /\ rest' = PathNames
    BY <2>1, <2>2, AnchoredFacts DEF PathNames, IInv
  <2>4. PathNames' = PathNames /\ At' = At /\ ~ AnchorRefuses(call.path)'
    BY <1>1, <2>2, SceneStays
  <2>5. Taken' = 0
    BY <2>3, <2>4 DEF Taken
  <2>6. rest' = SubSeq(PathNames, 0 + 1, Len(PathNames))
    BY <2>3
  <2>7. DescentPlace'
    BY <2>3, <2>4, <2>5, <2>6 DEF DescentPlace
  <2>8. WalkPlace' /\ pc' \notin Walking /\ pc' # "done"
    BY <1>2, <2>1 DEF WalkPlace, Walking, NoWalk
  <2> QED BY <1>1, <2>7, <2>8, HonestStep
<1> QED BY <1>3, <1>4

\* One name of the path behind it, a descent stands one step further on the trail.
LEMMA DescentGoesOn ==
    ASSUME TreeSafe, CallSafe, DescentPlace, fd \in Dirs \ Private, rest # <<>>,
           UNCHANGED <<world, call>>, fd' = entries[fd][rest[1]], rest' = Tail(rest)
    PROVE  DescentPlace'
<1> DEFINE t == Taken
           n == Len(PathNames)
<1>1. /\ PathNames \in Seq(Names) /\ rest = SubSeq(PathNames, t + 1, n)
      /\ n \in Nat /\ t \in Nat /\ Len(rest) = n - t /\ t + 1 \in 1..n
      /\ At[t + 1] = entries[fd][rest[1]]
  BY DescentFacts
<1>2. PathNames' = PathNames /\ At' = At /\ ~ AnchorRefuses(call.path)'
  BY SceneStays DEF DescentPlace
<1>3. Tail(rest) = SubSeq(PathNames, (t + 1) + 1, n) /\ Len(Tail(rest)) = n - (t + 1)
  <2> HIDE DEF t
  <2> QED BY <1>1, NamesTail
<1>4. Taken' = t + 1
  <2>1. Taken' = n - Len(Tail(rest))
    BY <1>2 DEF Taken
  <2> HIDE DEF t, n
  <2> QED BY <1>1, <1>3, <2>1
<1>5. t + 1 \in 0..n
  <2> HIDE DEF t, n
  <2> QED BY <1>1
<1> HIDE DEF t
<1> QED BY <1>1, <1>2, <1>3, <1>4, <1>5 DEF DescentPlace

LEMMA DescendWalk ==
    ASSUME IInv, WInv, call.tool \in Walkers, Descend
    PROVE  WInv'
<1> DEFINE child == OpenChildDirectory(fd, rest[1])
           first == [dir |-> fd, path |-> <<>>, depth |-> 1]
           next == [NoWalk EXCEPT !.queue = <<first>>]
<1>1. pc = "descend" /\ UNCHANGED <<world, call>>
  BY DEF Descend
<1>2. walk = NoWalk /\ call.depth \in Nat /\ (~ moved => DescentPlace)
  BY <1>1 DEF WInv, WalkPlace
<1>3. TreeSafe /\ CallSafe /\ fd \in Dirs \ Private
  BY <1>1 DEF IInv, DescriptorSafe
<1>4. \/ Refuse("path_rejected")
      \/ /\ rest # <<>> /\ child # NoNode /\ fd' = child /\ rest' = Tail(rest)
         /\ UNCHANGED <<pc, walk>>
      \/ rest = <<>> /\ pc' = "pop" /\ walk' = next
  <2>1. [walk EXCEPT !.queue = <<first>>] = next
    BY <1>2
  <2> HIDE DEF next
  <2> QED BY <2>1, Zenon DEF Descend, child, first
<1>5. CASE Refuse("path_rejected")
  BY <1>1, <1>2, <1>5, RefuseWalk
<1> HIDE DEF child
<1>6. CASE /\ rest # <<>> /\ child # NoNode /\ fd' = child /\ rest' = Tail(rest)
           /\ UNCHANGED <<pc, walk>>
  <2>1. ASSUME ~ moved PROVE DescentPlace'
    <3>1. DescentPlace
      BY <1>2, <2>1
    <3>2. rest[1] \in Names
      BY <1>3, <1>6, <3>1, DescentFacts
    <3>3. child = entries[fd][rest[1]]
      BY <1>3, <1>6, <3>2, ChildOpened DEF child
    <3> QED BY <1>1, <1>3, <1>6, <3>1, <3>3, DescentGoesOn
  <2>2. WalkPlace' /\ pc' \notin Walking /\ pc' # "done"
    BY <1>1, <1>2, <1>6 DEF WalkPlace, Walking, NoWalk
  <2> QED BY <1>1, <2>1, <2>2, HonestStep
<1>7. CASE rest = <<>> /\ pc' = "pop" /\ walk' = next
  <2>1. /\ next.queue = <<first>> /\ next.listing = {} /\ next.pending = {} /\ next.found = {}
    BY DEF NoWalk
  <2> HIDE DEF next
  <2>2. WalkPlace' /\ pc' # "descend"
    BY <1>7, <2>1 DEF WalkPlace, Walking
  <2>3. ASSUME ~ moved PROVE Target \in Dirs /\ Walked(Scene, next)
    <3>1. fd = At[Taken] /\ Len(PathNames) \in Nat
      BY <1>2, <1>3, <2>3, DescentFacts
    <3>2. Taken = Len(PathNames)
      BY <1>7, <3>1 DEF Taken
    <3>3. Target = fd
      BY <3>1, <3>2 DEF Target
    <3>4. Actual(Scene) /\ Scene.top = fd
      BY <1>2, <1>3, <3>3, ActualScene DEF Scene
    <3>5. Walked(Scene, next)
      BY <1>3, <2>1, <3>4, FirstWalked
    <3> QED BY <1>3, <3>3, <3>5
  <2> QED BY <1>1, <1>7, <2>2, <2>3, HonestStep
<1> QED BY <1>4, <1>5, <1>6, <1>7

\* What a traversal knows between two steps.
LEMMA WalkingFacts ==
    ASSUME IInv, WInv, call.tool \in Walkers, pc \in Walking
    PROVE  /\ WalkSafe(walk) /\ WalkPlace
           /\ ~ moved => Target \in Dirs /\ Actual(Scene) /\ Walked(Scene, walk)
<1>1. WalkSafe(walk) /\ WalkPlace /\ call.depth \in Nat
  BY DEF IInv, WInv
<1>2. ~ moved => Target \in Dirs /\ Walked(Scene, walk)
  BY DEF WInv
<1> QED BY <1>1, <1>2, ActualScene

LEMMA PopWalk ==
    ASSUME IInv, WInv, call.tool \in Walkers, PopDirectory
    PROVE  WInv'
<1> DEFINE head == Head(walk.queue)
           listing == {Dot} \cup {n \in Names \cup Reserved : entries[head.dir][n] # NoNode}
           next == [walk EXCEPT !.queue = Tail(walk.queue), !.here = head, !.listing = listing]
           stop == [walk EXCEPT !.queue = <<>>, !.truncated = TRUE]
<1>1. /\ pc = "pop" /\ UNCHANGED <<world, call>>
      /\ \/ walk.queue = <<>> /\ pc' = "publish" /\ walk' = walk
         \/ pc' = "publish" /\ walk' = stop
         \/ walk.queue # <<>> /\ pc' = "examine" /\ walk' = next
  BY DEF PopDirectory
<1>2. /\ WalkSafe(walk) /\ walk.listing = {} /\ walk.pending = {}
      /\ ~ moved => Target \in Dirs /\ Actual(Scene) /\ Walked(Scene, walk)
  BY <1>1, WalkingFacts DEF Walking, WalkPlace
<1>3. /\ stop.truncated /\ stop.queue = <<>> /\ stop.here = walk.here
      /\ stop.listing = walk.listing /\ stop.pending = walk.pending /\ stop.found = walk.found
  BY <1>2, Fields DEF WalkSafe
<1> HIDE DEF stop
<1>4. /\ next.queue = Tail(walk.queue) /\ next.here = Head(walk.queue)
      /\ next.listing = listing /\ next.pending = walk.pending /\ next.found = walk.found
      /\ next.truncated = walk.truncated
  <2> HIDE DEF listing
  <2> QED BY <1>2, Fields DEF WalkSafe
<1> HIDE DEF next
<1>5. WalkPlace' /\ pc' # "descend"
  BY <1>1, <1>2, <1>3, <1>4 DEF WalkPlace, Walking
<1>6. ASSUME ~ moved PROVE Target \in Dirs /\ Walked(Scene, walk')
  <2>1. Walked(Scene, stop)
    BY <1>2, <1>3, <1>6, StopWalked
  <2>2. walk.queue # <<>> => Walked(Scene, next)
    BY <1>2, <1>4, <1>6, PopWalked
  <2> QED BY <1>1, <1>2, <1>6, <2>1, <2>2
<1> QED BY <1>1, <1>5, <1>6, HonestStep

LEMMA ExamineWalk ==
    ASSUME IInv, WInv, call.tool \in Walkers, NEW n \in Names \cup Reserved \cup {Dot}, Examine(n)
    PROVE  WInv'
<1>1. /\ pc = "examine" /\ n \in walk.listing /\ walk' = Examined(n)
      /\ pc' = IF Examined(n).listing = {} THEN "process" ELSE "examine"
      /\ UNCHANGED <<world, call>>
  BY DEF Examine
<1>2. /\ WalkSafe(walk)
      /\ ~ moved => Target \in Dirs /\ Actual(Scene) /\ Walked(Scene, walk)
  BY <1>1, WalkingFacts DEF Walking
<1>3. WalkPlace' /\ pc' # "descend"
  BY <1>1 DEF WalkPlace, Walking
<1>4. ~ moved => Target \in Dirs /\ Walked(Scene, walk')
  BY <1>1, <1>2, ExaminedWalked
<1> QED BY <1>1, <1>3, <1>4, HonestStep

LEMMA ProcessedListing ==
    ASSUME WalkSafe(walk), call.tool \in Walkers, NEW e \in walk.pending
    PROVE  Processed(Without(e), e).listing = walk.listing
<1> DEFINE w == Without(e)
<1>1. WalkSafe(w) /\ w.found = walk.found /\ e.node \in Safe
  BY WithoutFacts DEF WalkSafe
<1>2. w.listing = walk.listing
  BY Fields DEF Without, WalkSafe
<1> HIDE DEF w
<1>3. CASE call.tool = "list_directory"
  <2> DEFINE used == w.used + Encoded(e.path) + (IF w.found = {} THEN 0 ELSE 1)
             found == w.found \cup {Found(e.path, e.node, <<>>)}
             x == [w EXCEPT !.used = used, !.found = found]
  <2>1. ListProcess(w, e) = Queued(x, e)
    BY DEF ListProcess
  <2>2. Found(e.path, e.node, <<>>).node = e.node
    BY DEF Found
  <2>3. \A m \in found : m.node \in Safe
    BY <1>1, <2>2 DEF WalkSafe
  <2> HIDE DEF used, found
  <2>4. x.listing = w.listing /\ WalkSafe(x)
    <3>1. /\ x.queue = w.queue /\ x.pending = w.pending /\ x.found = found
          /\ x = [f \in DOMAIN NoWalk |-> x[f]] /\ x.listing = w.listing
      BY <1>1, Fields DEF WalkSafe
    <3> HIDE DEF x
    <3> QED BY <1>1, <2>3, <3>1 DEF WalkSafe
  <2> HIDE DEF x
  <2> QED BY <1>2, <1>3, <2>1, <2>4, QueuedFields, ByTool DEF w
<1>4. CASE call.tool = "find_paths"
  <2> DEFINE found == w.found \cup {Found(e.path, e.node, <<>>)}
             stop == [w EXCEPT !.pending = {}, !.queue = <<>>, !.truncated = TRUE]
             x == [w EXCEPT !.found = found]
  <2>1. \/ FindProcess(w, e) = stop \/ FindProcess(w, e) = Queued(x, e)
        \/ FindProcess(w, e) = Queued(w, e)
    BY DEF FindProcess
  <2>2. Found(e.path, e.node, <<>>).node = e.node
    BY DEF Found
  <2>3. \A m \in found : m.node \in Safe
    BY <1>1, <2>2 DEF WalkSafe
  <2> HIDE DEF found
  <2>4. x.listing = w.listing /\ WalkSafe(x) /\ stop.listing = w.listing
    <3>1. /\ x.queue = w.queue /\ x.pending = w.pending /\ x.found = found
          /\ x = [f \in DOMAIN NoWalk |-> x[f]] /\ x.listing = w.listing
      BY <1>1, Fields DEF WalkSafe
    <3>2. stop.listing = w.listing
      BY <1>1, Fields DEF WalkSafe
    <3> HIDE DEF x, stop
    <3> QED BY <1>1, <2>3, <3>1, <3>2 DEF WalkSafe
  <2> HIDE DEF x, stop
  <2>5. Queued(x, e).listing = w.listing /\ Queued(w, e).listing = w.listing
    BY <1>1, <2>4, QueuedFields
  <2> QED BY <1>2, <1>4, <2>1, <2>4, <2>5, ByTool DEF w
<1>5. CASE call.tool = "search_text"
  <2>1. SearchProcess(w, e).listing = w.listing
    <3>1. [w EXCEPT !.pending = {}, !.truncated = TRUE].listing = w.listing
      BY <1>1, Fields DEF WalkSafe
    <3>2. Queued(w, e).listing = w.listing
      BY <1>1, QueuedFields
    <3>3. ScanSearchFile(w, e).listing = w.listing
      <4> DEFINE short == [w EXCEPT !.truncated = TRUE]
                 scanned == w.scanned + Len(bytes[Openat(w.here.dir, e.name)])
                 counted == [w EXCEPT !.files = w.files + 1, !.scanned = scanned]
                 Added(kept, all) ==
                     [counted EXCEPT !.found = counted.found \cup kept,
                                     !.truncated = counted.truncated \/ kept # all]
      <4>1. \/ ScanSearchFile(w, e) \in {short, w, counted}
            \/ \E kept, all : ScanSearchFile(w, e) = Added(kept, all)
        BY DEF ScanSearchFile
      <4> HIDE DEF scanned
      <4>2. /\ short.listing = w.listing /\ counted.listing = w.listing
            /\ counted = [f \in DOMAIN NoWalk |-> counted[f]]
        BY <1>1, Fields DEF WalkSafe
      <4> HIDE DEF short, counted
      <4>3. ASSUME NEW kept, NEW all PROVE Added(kept, all).listing = counted.listing
        BY <4>2, Fields
      <4> HIDE DEF Added
      <4> QED BY <4>1, <4>2, <4>3
    <3> QED BY <3>1, <3>2, <3>3 DEF SearchProcess
  <2> QED BY <1>2, <1>5, <2>1, ByTool DEF w
<1> QED BY <1>3, <1>4, <1>5 DEF Walkers

LEMMA ProcessWalk ==
    ASSUME IInv, WInv, call.tool \in Walkers, Process
    PROVE  WInv'
<1>1. pc = "process" /\ UNCHANGED <<world, call>>
  BY DEF Process
<1>2. /\ WalkSafe(walk) /\ walk.listing = {}
      /\ ~ moved => Target \in Dirs /\ Actual(Scene) /\ Walked(Scene, walk)
  BY <1>1, WalkingFacts DEF Walking, WalkPlace
<1>3. CASE walk.pending = {} /\ pc' = "pop" /\ walk' = [walk EXCEPT !.here = NoWalk.here]
  <2> DEFINE v == [walk EXCEPT !.here = NoWalk.here]
  <2>1. /\ v.queue = walk.queue /\ v.listing = {} /\ v.pending = {} /\ v.found = walk.found
        /\ v.truncated = walk.truncated
    BY <1>2, <1>3, Fields DEF WalkSafe
  <2>2. walk' = v
    BY <1>3
  <2> HIDE DEF v
  <2>3. WalkPlace' /\ pc' # "descend"
    BY <1>3, <2>1, <2>2 DEF WalkPlace, Walking
  <2>4. ~ moved => Walked(Scene, v)
    BY <1>2, <1>3, <2>1, LeftWalked
  <2> QED BY <1>1, <1>2, <2>2, <2>3, <2>4, HonestStep
<1>4. ASSUME NEW e \in walk.pending,
             walk' = Processed([walk EXCEPT !.pending = walk.pending \ {e}], e), UNCHANGED pc
      PROVE  WInv'
  <2>1. walk' = Processed(Without(e), e)
    BY <1>4 DEF Without
  <2>2. walk'.listing = {}
    BY <1>2, <2>1, ProcessedListing
  <2>3. WalkPlace' /\ pc' # "descend"
    BY <1>1, <1>4, <2>2 DEF WalkPlace, Walking
  <2>4. ~ moved => Walked(Scene, walk')
    BY <1>2, <2>1, ProcessedWalked
  <2> QED BY <1>1, <1>2, <2>3, <2>4, HonestStep
<1> QED BY <1>3, <1>4 DEF Process

LEMMA PublishWalk ==
    ASSUME IInv, WInv, call.tool \in Walkers, Publish
    PROVE  WInv'
<1>1. pc = "publish" /\ pc' = "done" /\ walk' = Published /\ UNCHANGED <<world, call>>
  BY DEF Publish, End
<1>2. /\ WalkSafe(walk) /\ walk.listing = {} /\ walk.pending = {} /\ walk.queue = <<>>
      /\ ~ moved => Target \in Dirs /\ Walked(Scene, walk)
  BY <1>1, WalkingFacts DEF Walking, WalkPlace
<1>3. ~ moved => Target \in Dirs /\ Walked(Scene, walk')
  BY <1>1, <1>2, PublishedWalked
<1>4. walk'.listing = {} /\ walk'.pending = {} /\ walk'.queue = <<>>
  <2>1. ASSUME NEW max
        PROVE  /\ Trimmed(max).queue = walk.queue /\ Trimmed(max).listing = walk.listing
               /\ Trimmed(max).pending = walk.pending
    <3> DEFINE kept == PopUntilFits(walk.found, LAMBDA S : ListBytes(S) <= max)
    <3>1. Trimmed(max) = [walk EXCEPT !.found = kept,
                                      !.truncated = walk.truncated \/ kept # walk.found]
      BY DEF Trimmed
    <3> HIDE DEF kept
    <3> QED BY <1>2, <3>1, Fields DEF WalkSafe
  <2>2. Published = walk \/ \E max : Published = Trimmed(max)
    BY ByTool DEF ListDirectory, FindPaths, SearchText, Walkers
  <2> QED BY <1>1, <1>2, <2>1, <2>2
<1>5. WalkPlace' /\ pc' # "descend"
  BY <1>1, <1>4 DEF WalkPlace
<1> QED BY <1>1, <1>3, <1>5, HonestStep

LEMMA FailureWalk ==
    ASSUME WInv, call.tool \in Walkers, TraversalFails
    PROVE  WInv'
<1>1. /\ UNCHANGED <<world, call>> /\ walk' = NoWalk /\ pc' = "done" /\ answer'.status = "io"
  BY DEF TraversalFails, End, Outcome, NoAnswer
<1>2. NoWalk.listing = {} /\ NoWalk.pending = {} /\ NoWalk.queue = <<>>
  BY DEF NoWalk
<1>3. WalkPlace' /\ pc' # "descend" /\ pc' \notin Walking
  BY <1>1, <1>2 DEF WalkPlace, Walking
<1> QED BY <1>1, <1>3, HonestStep

LEMMA InitWalk == Init => WInv
<1> SUFFICES ASSUME Init PROVE WInv
  OBVIOUS
<1>1. PICK s \in Scenarios : call = s.call
  BY DEF Init
<1>2. call.depth \in Nat
  BY <1>1, ScenariosAssumption DEF Calls
<1>3. pc = "start" /\ walk = NoWalk
  BY DEF Init
<1> QED BY <1>2, <1>3 DEF WInv, WalkPlace, NoWalk, Walking

LEMMA NextWalk == IInv /\ WInv /\ [Next]_vars => WInv'
<1> SUFFICES ASSUME IInv, WInv, [Next]_vars PROVE WInv'
  OBVIOUS
<1>1. ASSUME call'.tool \notin Walkers PROVE WInv'
  BY <1>1 DEF WInv
<1>2. CASE NextPage
  <2>1. call.tool \in Ranges /\ call' = [call EXCEPT !.offset = answer.next]
    BY <1>2 DEF NextPage
  <2>2. call'.tool = call.tool
    BY <2>1 DEF IInv, CallSafe
  <2> QED BY <1>1, <2>1, <2>2 DEF Ranges, Walkers
<1>3. ASSUME call.tool \in Walkers PROVE pc \in {"start", "descend", "done"} \cup Walking
  BY <1>3 DEF WInv, WalkPlace
\* A step of another tool.
<1>4. ASSUME call' = call, pc \in {"parent", "open", "read", "verify"} PROVE WInv'
  <2>1. call.tool \notin Walkers
    BY <1>3, <1>4 DEF Walking
  <2> QED BY <1>1, <1>4, <2>1
<1>5. CASE Start
  <2>1. call' = call
    BY <1>5 DEF Start
  <2> QED BY <1>1, <1>5, <2>1, StartWalk
<1>6. CASE Parent \/ Sanitize \/ PathMetadata \/ StatFile
  <2>1. pc = "parent" /\ call' = call
    BY <1>6 DEF Parent, Sanitize, PathMetadata, StatFile
  <2> QED BY <1>4, <2>1
<1>7. CASE OpenVerifiedRegularFile
  <2>1. pc = "open" /\ call' = call
    BY <1>7 DEF OpenVerifiedRegularFile
  <2> QED BY <1>4, <2>1
<1>8. CASE ReadFile \/ ReadBinaryFile \/ HashFile \/ ReadRange
  <2>1. pc = "read" /\ call' = call
    BY <1>8 DEF ReadFile, ReadBinaryFile, HashFile, ReadRange
  <2> QED BY <1>4, <2>1
<1>9. CASE ReadVerifiedBinaryRange \/ ReadVerifiedTextRange
  <2>1. pc = "verify" /\ call' = call
    BY <1>9 DEF ReadVerifiedBinaryRange, ReadVerifiedTextRange
  <2> QED BY <1>4, <2>1
<1>10. CASE Descend
  <2>1. call' = call
    BY <1>10 DEF Descend
  <2> QED BY <1>1, <1>10, <2>1, DescendWalk
<1>11. CASE PopDirectory
  <2>1. call' = call
    BY <1>11 DEF PopDirectory
  <2> QED BY <1>1, <1>11, <2>1, PopWalk
<1>12. CASE Process
  <2>1. call' = call
    BY <1>12 DEF Process
  <2> QED BY <1>1, <1>12, <2>1, ProcessWalk
<1>13. CASE Publish
  <2>1. call' = call
    BY <1>13 DEF Publish
  <2> QED BY <1>1, <1>13, <2>1, PublishWalk
<1>14. ASSUME NEW n \in Names \cup Reserved \cup {Dot}, Examine(n) PROVE WInv'
  <2>1. call' = call
    BY <1>14 DEF Examine
  <2> QED BY <1>1, <1>14, <2>1, ExamineWalk
\* Once another program moved something, only the bookkeeping is left.
<1>15. ASSUME moved', UNCHANGED <<call, pc, walk>> PROVE WInv'
  <2>1. call.tool \in Walkers => call.depth \in Nat /\ WalkPlace
    BY DEF WInv
  <2>2. WalkPlace' <=> WalkPlace
    BY <1>15 DEF WalkPlace
  <2> QED BY <1>15, <2>1, <2>2 DEF WInv
<1>16. ASSUME NEW r \in Relinks, Relink(r.dir, r.name, r.node) PROVE WInv'
  <2>1. moved' /\ UNCHANGED <<call, pc, walk>>
    BY <1>16 DEF Relink
  <2> QED BY <1>15, <2>1
<1>17. ASSUME NEW f \in Files \ Private, NEW content \in Rewrites, Rewrite(f, content)
       PROVE  WInv'
  <2>1. moved' /\ UNCHANGED <<call, pc, walk>>
    BY <1>17 DEF Rewrite
  <2> QED BY <1>15, <2>1
<1>19. CASE TraversalFails
  <2>1. call' = call
    BY <1>19 DEF TraversalFails
  <2> QED BY <1>1, <1>19, <2>1, FailureWalk
<1>18. CASE UNCHANGED vars
  <2>1. UNCHANGED <<world, call, pc, fd, rest, walk, answer>>
    BY <1>18 DEF vars, world
  <2>2. SUFFICES ASSUME call.tool \in Walkers PROVE WInv'
    BY <1>1, <2>1
  <2>3. WalkPlace /\ (~ moved /\ pc = "descend" => DescentPlace)
        /\ (~ moved /\ (pc \in Walking \/ (pc = "done" /\ answer.status = "ok")) =>
              Target \in Dirs /\ Walked(Scene, walk))
    BY <2>2 DEF WInv
  <2>4. WalkPlace'
    BY <2>1, <2>3 DEF WalkPlace
  <2>5. DescentPlace => DescentPlace'
    BY <2>1, SceneStays DEF DescentPlace, Taken
  <2> QED BY <2>1, <2>2, <2>3, <2>4, <2>5, HonestStep
<1> QED BY Zenon, <1>2, <1>5, <1>6, <1>7, <1>8, <1>9, <1>10, <1>11, <1>12, <1>13, <1>14, <1>16,
           <1>17, <1>18, <1>19 DEF Next

LEMMA WalkedHonest == WInv => WalkHonest
<1> SUFFICES ASSUME WInv, call.tool \in Walkers, pc = "done", answer.status = "ok", ~ moved
             PROVE  /\ Got(walk) \subseteq Expected(Scene)
                    /\ ~ walk.truncated /\ Apart(Scene) => Got(walk) = Expected(Scene)
  BY DEF WalkHonest
<1> DEFINE s == Scene
<1>1. /\ Walked(s, walk) /\ walk.queue = <<>> /\ walk.listing = {} /\ walk.pending = {}
  BY DEF WInv, WalkPlace
<1> HIDE DEF s
<1>2. Got(walk) \subseteq Expected(s)
  BY <1>1 DEF Walked
<1>3. ASSUME ~ walk.truncated, Apart(s) PROVE Expected(s) \subseteq Got(walk)
  <2>1. Covered(s, walk)
    BY <1>1, <1>3 DEF Walked
  <2>2. DOMAIN walk.queue = {}
    BY <1>1
  <2>3. \A p : ~ Coming(s, walk, p)
    BY <1>1, <2>2 DEF Coming, Ahead
  <2>4. \A p \in Reachable(s) : Wants(s, p) \subseteq Got(walk)
    BY <2>1, <2>3 DEF Covered
  <2> QED BY <2>4 DEF Expected
<1> QED BY <1>2, <1>3 DEF s

\* For every tree, depth, query and ceilings: the answer of a traversal of a tree that
\* nobody touches holds only what is there, and one that does not say it was truncated
\* holds everything that list_directory, find_paths or search_text was asked for, but
\* for what cannot be opened and for directories displayed like something next to them.
THEOREM WalksHonest == Spec => []WalkHonest
<1>1. Init => IInv /\ WInv
  BY InitInv, InitWalk
<1>2. IInv /\ WInv /\ [Next]_vars => (IInv /\ WInv)'
  BY NextInv, NextWalk
<1>3. IInv /\ WInv => WalkHonest
  BY WalkedHonest
<1> QED BY <1>1, <1>2, <1>3, PTL DEF Spec
=============================================================================
