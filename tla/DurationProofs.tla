--------------------------- MODULE DurationProofs ---------------------------
(***************************************************************************)
(* What duration.Parse accepts and what it returns, for every table of     *)
(* units and every word size, and what Format prints of it.                *)
(***************************************************************************)
EXTENDS Duration, SelectionProofs

-----------------------------------------------------------------------------
(***************************************************************************)
(* Division, remainders and wrapped sums.                                  *)
(***************************************************************************)

\* A multiple of w strictly between -w and w is 0.
LEMMA Small ==
  ASSUME NEW w \in Nat \ {0}, NEW m \in Int, -w < m * w, m * w < w
  PROVE  m = 0
<1>1. CASE m >= 1
  <2>1. (m - 1) * w >= 0
    BY <1>1
  <2>2. (m - 1) * w = m * w - w
    OBVIOUS
  <2> QED BY <2>1, <2>2
<1>2. CASE m <= -1
  <2>1. (-m - 1) * w >= 0
    BY <1>2
  <2>2. (-m - 1) * w = -(m * w) - w
    OBVIOUS
  <2> QED BY <2>1, <2>2
<1> QED BY <1>1, <1>2

\* Quotient and remainder.
LEMMA Divides ==
  ASSUME NEW a \in Int, NEW b \in Nat \ {0}
  PROVE  /\ a \div b \in Int
         /\ (a % b) \in 0..(b - 1)
         /\ a = (a \div b) * b + (a % b)
<1>1. a \div b \in Int
  OBVIOUS
<1>2. (a % b) \in 0..(b - 1)
  OBVIOUS
<1>3. a = b * (a \div b) + (a % b)
  OBVIOUS

<1> QED BY <1>1, <1>2, <1>3

\* The remainder is the only one.
LEMMA OneRemainder ==
  ASSUME NEW b \in Nat \ {0}, NEW r \in 0..(b - 1), NEW k \in Int
  PROVE  ((r + k * b) % b) = r
<1> DEFINE x == r + k * b
           q == x \div b
           y == x % b
<1>1. x \in Int /\ k * b \in Int
  OBVIOUS
<1>2. q \in Int /\ y \in 0..(b - 1) /\ x = q * b + y
  BY <1>1, Divides
<1> HIDE DEF q, y
<1>3. (k - q) * b = y - r
  <2>1. (k - q) * b = k * b - q * b
    BY <1>2
  <2>2. q * b \in Int
    BY <1>2
  <2> QED BY <1>1, <1>2, <2>1, <2>2
<1>4. -b < y - r /\ y - r < b
  BY <1>2
<1>5. k - q = 0
  <2>1. k - q \in Int
    BY <1>2
  <2> QED BY <1>3, <1>4, <2>1, Small
<1>6. y = r
  BY <1>2, <1>3, <1>5
<1> QED BY <1>6 DEF y

\* A multiple more does not change the remainder.
LEMMA SameRemainder ==
  ASSUME NEW b \in Nat \ {0}, NEW x \in Int, NEW k \in Int
  PROVE  ((x + k * b) % b) = (x % b)
<1> DEFINE q == x \div b
           r == x % b
<1>1. q \in Int /\ r \in 0..(b - 1) /\ x = q * b + r
  BY Divides
<1> HIDE DEF q, r
<1>2. q + k \in Int /\ x + k * b = r + (q + k) * b
  <2>1. (q + k) * b = q * b + k * b
    BY <1>1
  <2>2. q * b \in Int /\ k * b \in Int
    BY <1>1
  <2> QED BY <1>1, <2>1, <2>2
<1>3. ((r + (q + k) * b) % b) = r
  BY <1>1, <1>2, OneRemainder
<1> QED BY <1>2, <1>3 DEF r

Half == Word \div 2

\* The signed words: half of them are negative.
LEMMA Halves == Half \in Nat \ {0} /\ Word = Half + Half /\ Word \in Nat \ {0}
<1>1. Word \in Nat /\ Word % 2 = 0 /\ Word > 0
  BY DurationAssumption
<1> QED BY <1>1 DEF Half

\* Wrapping takes off a multiple of Word.
LEMMA WrapTakes ==
  ASSUME NEW x \in Int
  PROVE  /\ Wrap(x) \in Int /\ -Half <= Wrap(x) /\ Wrap(x) < Half
         /\ \E k \in Int : x = Wrap(x) + k * Word
<1> DEFINE q == (x + Half) \div Word
           r == (x + Half) % Word
<1>1. Half \in Nat \ {0} /\ Word = Half + Half /\ Word \in Nat \ {0}
  BY Halves
<1>2. x + Half \in Int
  BY <1>1
<1>3. q \in Int /\ r \in 0..(Word - 1) /\ x + Half = q * Word + r
  BY <1>1, <1>2, Divides
<1>4. Wrap(x) = r - Half
  BY DEF Wrap, Half
<1> HIDE DEF q, r
<1>5. q * Word \in Int
  BY <1>1, <1>3
<1>6. x = (r - Half) + q * Word
  BY <1>1, <1>3, <1>5
<1> QED BY <1>1, <1>3, <1>4, <1>6

\* And it is the only signed word that differs by a multiple of Word.
LEMMA WrapIs ==
  ASSUME NEW y \in Int, -Half <= y, y < Half, NEW k \in Int
  PROVE  Wrap(y + k * Word) = y
<1>1. Half \in Nat \ {0} /\ Word = Half + Half /\ Word \in Nat \ {0}
  BY Halves
<1>2. y + Half \in 0..(Word - 1)
  BY <1>1
<1>3. (((y + Half) + k * Word) % Word) = y + Half
  BY <1>1, <1>2, OneRemainder
<1>4. k * Word \in Int
  BY <1>1
<1>5. (y + k * Word) + Half = (y + Half) + k * Word
  BY <1>1, <1>4
<1>6. Wrap(y + k * Word) = (((y + k * Word) + Half) % Word) - Half
  BY DEF Wrap, Half
<1> QED BY <1>1, <1>3, <1>5, <1>6

\* What is a signed word already does not wrap.
LEMMA NoWrap ==
  ASSUME NEW x \in Int, -Half <= x, x < Half
  PROVE  Wrap(x) = x
<1>1. Wrap(x + 0 * Word) = x
  BY WrapIs
<1>2. x + 0 * Word = x
  BY Halves
<1> QED BY <1>1, <1>2

\* Wrapping the parts of a sum, and then the sum, wraps the sum.
LEMMA WrapSums ==
  ASSUME NEW a \in Int, NEW b \in Int
  PROVE  Wrap(Wrap(a) + Wrap(b)) = Wrap(a + b)
<1>1. PICK i \in Int : a = Wrap(a) + i * Word
  BY WrapTakes
<1>2. PICK j \in Int : b = Wrap(b) + j * Word
  BY WrapTakes
<1>3. Wrap(a) \in Int /\ Wrap(b) \in Int /\ Wrap(a) + Wrap(b) \in Int
  BY WrapTakes
<1> DEFINE y == Wrap(Wrap(a) + Wrap(b))
<1>4. y \in Int /\ -Half <= y /\ y < Half
  BY <1>3, WrapTakes
<1>5. PICK k \in Int : Wrap(a) + Wrap(b) = y + k * Word
  BY <1>3, WrapTakes
<1> HIDE DEF y
<1>6. a + b = y + (i + j + k) * Word
  <2>1. (i + j + k) * Word = i * Word + j * Word + k * Word
    BY Halves
  <2>2. i * Word \in Int /\ j * Word \in Int /\ k * Word \in Int
    BY Halves
  <2> QED BY <1>1, <1>2, <1>3, <1>4, <1>5, <2>1, <2>2
<1>7. Wrap(y + (i + j + k) * Word) = y
  BY <1>4, WrapIs
<1> QED BY <1>6, <1>7 DEF y

-----------------------------------------------------------------------------
(***************************************************************************)
(* The recursive functions obey their own equations.                       *)
(***************************************************************************)

\* The running totals of any table of numbers are a function.
LEMMA TotalsExist ==
  ASSUME NEW n \in Nat, NEW a
  PROVE  \E f : f = [i \in 0..n |-> IF i = 0 THEN 0 ELSE f[i - 1] + a[i]]
<1> DEFINE Is(f, m) == f = [i \in 0..m |-> IF i = 0 THEN 0 ELSE f[i - 1] + a[i]]
           Ns == {m \in Nat : \E f : Is(f, m)}
<1>1. 0 \in Ns
  <2>1. Is([i \in 0..0 |-> 0], 0)
    OBVIOUS
  <2> QED BY <2>1
<1>2. ASSUME NEW m \in Nat, m \in Ns
      PROVE  m + 1 \in Ns
  <2>1. PICK f : Is(f, m)
    BY <1>2
  <2> DEFINE g == [i \in 0..(m + 1) |-> IF i = m + 1 THEN f[m] + a[i] ELSE f[i]]
  <2>2. \A i \in 0..(m + 1) : g[i] = IF i = 0 THEN 0 ELSE g[i - 1] + a[i]
    <3> SUFFICES ASSUME NEW i \in 0..(m + 1)
                 PROVE g[i] = IF i = 0 THEN 0 ELSE g[i - 1] + a[i]
      OBVIOUS
    <3>1. CASE i = m + 1
      BY <3>1
    <3>2. CASE i # m + 1
      <4>1. i \in 0..m /\ g[i] = f[i] /\ (i # 0 => i - 1 \in 0..m /\ g[i - 1] = f[i - 1])
        BY <3>2
      <4> HIDE DEF g
      <4> QED BY <2>1, <4>1
    <3> QED BY <3>1, <3>2
  <2>3. g = [i \in 0..(m + 1) |-> g[i]]
    OBVIOUS
  <2> HIDE DEF g
  <2>4. Is(g, m + 1)
    BY <2>2, <2>3
  <2>5. \E h : Is(h, m + 1)
    BY <2>4
  <2> HIDE DEF Is
  <2> QED BY <2>5
<1> HIDE DEF Ns, Is
<1>3. Nat \subseteq Ns
  BY <1>1, <1>2, SetInduction
<1>4. \E f : Is(f, n)
  BY <1>3 DEF Ns
<1> QED BY <1>4 DEF Is

\* The length of the i-th pair of a text.
Pair(s, i) == s[2*i - 1].value * Length[s[2*i].unit]

\* The sums of its pairs, one after the other.
LEMMA SumsStep ==
  ASSUME NEW s, Len(s) \in Nat
  PROVE  /\ Sums(s)[0] = 0
         /\ \A i \in 0..((Len(s) \div 2) - 1) : Sums(s)[i + 1] = Sums(s)[i] + Pair(s, i + 1)
<1> DEFINE n == Len(s) \div 2
           a == [i \in 1..n |-> Pair(s, i)]
           Is(f) == f = [i \in 0..n |-> IF i = 0 THEN 0 ELSE f[i - 1] + Pair(s, i)]
<1>1. n \in Nat
  OBVIOUS
<1>2. PICK f : f = [i \in 0..n |-> IF i = 0 THEN 0 ELSE f[i - 1] + a[i]]
  <2> HIDE DEF n, a
  <2> QED BY <1>1, TotalsExist
<1>3. Is(f)
  <2>1. \A i \in 0..n : i # 0 => a[i] = Pair(s, i)
    BY <1>1
  <2> HIDE DEF n, a
  <2> QED BY <1>2, <2>1
<1>4. Sums(s) = CHOOSE g : Is(g)
  BY DEF Sums, Pair
<1>5. Is(Sums(s))
  <2> HIDE DEF Is
  <2> QED BY <1>3, <1>4
<1> DEFINE g == Sums(s)
<1>6. g = [i \in 0..n |-> IF i = 0 THEN 0 ELSE g[i - 1] + Pair(s, i)]
  BY <1>5
<1> HIDE DEF g
<1>7. g[0] = 0
  <2> HIDE DEF n
  <2> QED BY <1>1, <1>6
<1>8. ASSUME NEW i \in 0..(n - 1)
      PROVE  g[i + 1] = g[i] + Pair(s, i + 1)
  <2> HIDE DEF n
  <2>1. i + 1 \in 0..n /\ i + 1 # 0 /\ (i + 1) - 1 = i
    BY <1>1
  <2> QED BY <1>6, <2>1
<1> QED BY <1>7, <1>8 DEF g

\* What the numbers in front of the units add up to, unit after unit.
LEMMA PrintedStep ==
  ASSUME NEW p
  PROVE  /\ Printed(p)[0] = 0
         /\ \A u \in 0..(Len(Length) - 1) :
              Printed(p)[u + 1] = Printed(p)[u] + p[u + 1] * Length[u + 1]
<1> DEFINE n == Len(Length)
           a == [i \in 1..n |-> p[i] * Length[i]]
           Is(f) == f = [i \in 0..n |-> IF i = 0 THEN 0 ELSE f[i - 1] + p[i] * Length[i]]
<1>1. n \in Nat
  BY DurationAssumption
<1>2. PICK f : f = [i \in 0..n |-> IF i = 0 THEN 0 ELSE f[i - 1] + a[i]]
  <2> HIDE DEF n, a
  <2> QED BY <1>1, TotalsExist
<1>3. Is(f)
  <2>1. \A i \in 0..n : i # 0 => a[i] = p[i] * Length[i]
    BY <1>1
  <2> HIDE DEF n, a
  <2> QED BY <1>2, <2>1
<1>4. Printed(p) = CHOOSE g : Is(g)
  BY DEF Printed
<1>5. Is(Printed(p))
  <2> HIDE DEF Is
  <2> QED BY <1>3, <1>4
<1> DEFINE g == Printed(p)
<1>6. g = [i \in 0..n |-> IF i = 0 THEN 0 ELSE g[i - 1] + p[i] * Length[i]]
  BY <1>5
<1> HIDE DEF g
<1>7. g[0] = 0
  <2> HIDE DEF n
  <2> QED BY <1>1, <1>6
<1>8. ASSUME NEW i \in 0..(n - 1)
      PROVE  g[i + 1] = g[i] + p[i + 1] * Length[i + 1]
  <2> HIDE DEF n
  <2>1. i + 1 \in 0..n /\ i + 1 # 0 /\ (i + 1) - 1 = i
    BY <1>1
  <2> QED BY <1>6, <2>1
<1> QED BY <1>7, <1>8 DEF g

\* The units, largest first.
LEMMA UnitsAre ==
  /\ Len(Length) \in Nat \ {0} /\ Units = 1..Len(Length)
  /\ \A u \in Units : Length[u] \in Nat \ {0}
  /\ \A u \in Units : Length[u] % Length[Len(Length)] = 0
BY DurationAssumption DEF Units

\* What the units before the first n leave of d.
RestIs(f, d, n) ==
  f = [u \in 1..n |-> IF u = 1 THEN d ELSE f[u - 1] % Length[u - 1]]

\* What each unit leaves to the next.
LEMMA RestStep ==
  ASSUME NEW d
  PROVE  /\ Rest(d)[1] = d
         /\ \A u \in 1..(Len(Length) - 1) : Rest(d)[u + 1] = (Rest(d)[u] % Length[u])
<1> DEFINE Ns == {m \in Nat : \E f : RestIs(f, d, m)}
           n == Len(Length)
<1>1. 0 \in Ns
  <2>1. RestIs([u \in 1..0 |-> d], d, 0)
    BY DEF RestIs
  <2> QED BY <2>1
<1>2. ASSUME NEW m \in Nat, m \in Ns
      PROVE  m + 1 \in Ns
  <2>1. PICK f : RestIs(f, d, m)
    BY <1>2
  <2> DEFINE g == [u \in 1..(m + 1) |->
                     IF u = m + 1 THEN (IF u = 1 THEN d ELSE f[m] % Length[m]) ELSE f[u]]
  <2>2. \A u \in 1..(m + 1) : g[u] = IF u = 1 THEN d ELSE g[u - 1] % Length[u - 1]
    <3> SUFFICES ASSUME NEW u \in 1..(m + 1)
                 PROVE g[u] = IF u = 1 THEN d ELSE g[u - 1] % Length[u - 1]
      OBVIOUS
    <3>1. CASE u = m + 1
      <4>1. u - 1 = m /\ (u # 1 => m \in 1..(m + 1) /\ m # m + 1)
        BY <3>1
      <4>2. g[u] = IF u = 1 THEN d ELSE f[m] % Length[m]
        BY <3>1
      <4>3. u # 1 => g[u - 1] = f[m]
        BY <4>1
      <4> HIDE DEF g
      <4> QED BY <4>1, <4>2, <4>3
    <3>2. CASE u # m + 1
      <4>1. u \in 1..m /\ g[u] = f[u] /\ (u # 1 => u - 1 \in 1..m /\ g[u - 1] = f[u - 1])
        BY <3>2
      <4> HIDE DEF g
      <4> QED BY <2>1, <4>1 DEF RestIs
    <3> QED BY <3>1, <3>2
  <2>3. g = [u \in 1..(m + 1) |-> g[u]]
    OBVIOUS
  <2> HIDE DEF g
  <2>4. RestIs(g, d, m + 1)
    BY <2>2, <2>3 DEF RestIs
  <2> QED BY <2>4
<1>3. n \in Nat \ {0} /\ Units = 1..n
  BY UnitsAre
<1>4. \E f : RestIs(f, d, n)
  <2> HIDE DEF Ns, n
  <2>1. Nat \subseteq Ns
    BY <1>1, <1>2, SetInduction
  <2> QED BY <1>3, <2>1 DEF Ns
<1>5. Rest(d) = CHOOSE f : RestIs(f, d, n)
  BY <1>3 DEF Rest, RestIs
<1>6. RestIs(Rest(d), d, n)
  BY <1>4, <1>5
<1> DEFINE g == Rest(d)
<1>7. g = [u \in 1..n |-> IF u = 1 THEN d ELSE g[u - 1] % Length[u - 1]]
  BY <1>6 DEF RestIs
<1> HIDE DEF g, n
<1>8. g[1] = d
  BY <1>3, <1>7
<1>9. ASSUME NEW u \in 1..(n - 1)
      PROVE  g[u + 1] = (g[u] % Length[u])
  <2>1. u + 1 \in 1..n /\ u + 1 # 1 /\ (u + 1) - 1 = u
    BY <1>3
  <2> QED BY <1>7, <2>1
<1> QED BY <1>8, <1>9 DEF g, n

-----------------------------------------------------------------------------
(***************************************************************************)
(* What a text means.                                                      *)
(***************************************************************************)
Token == Numbers \cup { [unit |-> u] : u \in Units } \cup {Other}

\* A token with a unit has one of the units, and is no number.
LEMMA Tokens ==
  /\ \A t \in Token : "unit" \in DOMAIN t => t.unit \in Units
  /\ \A t \in Numbers : t.value \in Nat /\ t.digits \in Nat /\ "unit" \notin DOMAIN t
  /\ \A u \in Units : [unit |-> u] \in Token \ Numbers /\ "unit" \in DOMAIN [unit |-> u]
  /\ Other \in Token \ Numbers /\ "unit" \notin DOMAIN Other
<1>1. \A t \in Numbers : t \in [value : Nat, digits : Nat \ {0}]
  BY DurationAssumption
<1>2. \A t \in Numbers : t.value \in Nat /\ t.digits \in Nat /\ "unit" \notin DOMAIN t
                         /\ "value" \in DOMAIN t
  <2> SUFFICES ASSUME NEW t \in Numbers
               PROVE  /\ t.value \in Nat /\ t.digits \in Nat /\ "unit" \notin DOMAIN t
                      /\ "value" \in DOMAIN t
    OBVIOUS
  <2>1. t \in [value : Nat, digits : Nat \ {0}]
    BY <1>1
  <2>2. t.value \in Nat /\ t.digits \in Nat
    BY <2>1
  <2>3. DOMAIN t = {"value", "digits"}
    BY <2>1
  <2> QED BY <2>2, <2>3
<1>3. "unit" \notin DOMAIN Other /\ "value" \notin DOMAIN Other
  BY DEF Other
<1>4. \A u \in Units : /\ "unit" \in DOMAIN [unit |-> u] /\ "value" \notin DOMAIN [unit |-> u]
                       /\ [unit |-> u].unit = u
  OBVIOUS
<1>5. Other \notin Numbers /\ \A u \in Units : [unit |-> u] \notin Numbers
  BY <1>2, <1>3, <1>4
<1>6. \A t \in Token : "unit" \in DOMAIN t => t.unit \in Units
  <2> SUFFICES ASSUME NEW t \in Token, "unit" \in DOMAIN t PROVE t.unit \in Units
    OBVIOUS
  <2>1. PICK u \in Units : t = [unit |-> u]
    BY <1>2, <1>3 DEF Token
  <2> QED BY <1>4, <2>1
<1> QED BY <1>2, <1>3, <1>4, <1>5, <1>6 DEF Token

\* The places of a pair.
LEMMA Places ==
  ASSUME NEW s \in Seq(Token)
  PROVE  /\ Len(s) \in Nat /\ Len(s) \div 2 \in Nat
         /\ Pairs(s) = 1..(Len(s) \div 2)
         /\ \A i \in Pairs(s) : i \in Nat \ {0} /\ 2*i - 1 \in 1..Len(s) /\ 2*i \in 1..Len(s)
         /\ Len(s) = 2 * (Len(s) \div 2) + (Len(s) % 2) /\ (Len(s) % 2) \in 0..1
<1>1. Len(s) \in Nat
  BY LenProperties
<1>2. /\ Len(s) \div 2 \in Nat
      /\ Len(s) = 2 * (Len(s) \div 2) + (Len(s) % 2)
      /\ (Len(s) % 2) \in 0..1
  <2> DEFINE n == Len(s)
  <2>1. n \in Nat
    BY <1>1
  <2> HIDE DEF n
  <2>2. (n % 2) \in 0..1
    BY <2>1
  <2>3. n = 2 * (n \div 2) + (n % 2)
    BY <2>1
  <2>4. n \div 2 \in Nat
    BY <2>1
  <2> QED BY <2>2, <2>3, <2>4 DEF n
<1>3. Pairs(s) = 1..(Len(s) \div 2)
  BY DEF Pairs
<1>4. ASSUME NEW i \in Pairs(s)
      PROVE  i \in Nat \ {0} /\ 2*i - 1 \in 1..Len(s) /\ 2*i \in 1..Len(s)
  BY <1>1, <1>2, <1>3
<1> QED BY <1>1, <1>2, <1>3, <1>4

\* A pair of a text whose pairs have been read is a natural number, and a
\* multiple of the smallest unit.
LEMMA PairIs ==
  ASSUME NEW s \in Seq(Token), PairsRead(s), NEW i \in Pairs(s)
  PROVE  Pair(s, i) \in Nat /\ (Pair(s, i) % Length[Len(Length)]) = 0
<1>1. s[2*i - 1] \in Numbers /\ "unit" \in DOMAIN s[2*i]
  BY DEF PairsRead
<1>2. s[2*i] \in Token
  BY Places
<1> DEFINE v == s[2*i - 1].value
           w == Length[s[2*i].unit]
           b == Length[Len(Length)]
<1>3. v \in Nat /\ w \in Nat \ {0} /\ w % b = 0 /\ b \in Nat \ {0}
  BY <1>1, <1>2, Tokens, UnitsAre
<1>4. Pair(s, i) = v * w
  BY DEF Pair
<1> HIDE DEF v, w, b
<1> DEFINE q == w \div b
<1>5. q \in Int /\ w = q * b
  BY <1>3, Divides
<1> HIDE DEF q
<1> DEFINE k == v * q
<1>6. k \in Int /\ v * (q * b) = k * b /\ v * w \in Nat
  BY <1>3, <1>5
<1> HIDE DEF k
<1>7. v * w = 0 + k * b
  <2>1. k * b \in Int
    BY <1>3, <1>6
  <2> QED BY <1>5, <1>6, <2>1
<1>8. ((0 + k * b) % b) = 0
  BY <1>3, <1>6, OneRemainder
<1> QED BY <1>4, <1>6, <1>7, <1>8 DEF b

\* So is the meaning of the text.
LEMMA MeaningIs ==
  ASSUME NEW s \in Seq(Token), PairsRead(s)
  PROVE  Meaning(s) \in Nat /\ (Meaning(s) % Length[Len(Length)]) = 0
<1> DEFINE f == Sums(s)
           n == Len(s) \div 2
           b == Length[Len(Length)]
           Ns == {i \in Nat : i <= n => f[i] \in Nat /\ (f[i] % b) = 0}
<1>1. n \in Nat /\ Len(s) \in Nat
  BY Places
<1>2. f[0] = 0 /\ \A i \in 0..(n - 1) : f[i + 1] = f[i] + Pair(s, i + 1)
  BY <1>1, SumsStep
<1>3. b \in Nat \ {0}
  BY UnitsAre
<1>4. Pairs(s) = 1..n
  BY DEF Pairs
<1> HIDE DEF f, n, b
<1>5. 0 \in Ns
  <2>1. 0 % b = 0
    BY <1>3
  <2> QED BY <1>2, <2>1
<1>6. ASSUME NEW i \in Nat, i \in Ns
      PROVE  i + 1 \in Ns
  <2> SUFFICES ASSUME i + 1 <= n
               PROVE  f[i + 1] \in Nat /\ (f[i + 1] % b) = 0
    OBVIOUS
  <2>1. i \in 0..(n - 1) /\ i + 1 \in Pairs(s) /\ i <= n
    BY <1>1, <1>4
  <2>2. f[i] \in Nat /\ (f[i] % b) = 0
    BY <1>6, <2>1
  <2> DEFINE x == Pair(s, i + 1)
  <2>3. x \in Nat /\ (x % b) = 0
    BY <2>1, PairIs DEF b
  <2>4. f[i + 1] = f[i] + x
    BY <1>2, <2>1
  <2> HIDE DEF x
  <2> DEFINE q == x \div b
             y == f[i]
  <2>5. q \in Int /\ x = q * b
    BY <1>3, <2>3, Divides
  <2>6. y \in Int
    BY <2>2
  <2> HIDE DEF q, y
  <2>7. ((y + q * b) % b) = (y % b)
    BY <1>3, <2>5, <2>6, SameRemainder
  <2> USE DEF y
  <2> QED BY <2>2, <2>3, <2>4, <2>5, <2>7
<1>7. n \in Ns
  <2> HIDE DEF Ns
  <2>1. Nat \subseteq Ns
    BY <1>5, <1>6, SetInduction
  <2> QED BY <1>1, <2>1
<1>8. f[n] \in Nat /\ (f[n] % b) = 0
  BY <1>1, <1>7
<1> QED BY <1>8 DEF Meaning, f, n, b

\* The meaning rests on the pairs alone.
LEMMA SamePairs ==
  ASSUME NEW s \in Seq(Token), NEW r \in Seq(Token), Len(r) \div 2 <= Len(s) \div 2,
         \A k \in 1..(2 * (Len(r) \div 2)) : s[k] = r[k]
  PROVE  \A i \in 0..(Len(r) \div 2) : Sums(s)[i] = Sums(r)[i]
<1> DEFINE f == Sums(s)
           g == Sums(r)
           m == Len(s) \div 2
           n == Len(r) \div 2
           Ns == {i \in Nat : i <= n => f[i] = g[i]}
<1>1. n \in Nat /\ Len(s) \in Nat /\ m \in Nat /\ Len(r) \in Nat /\ n <= m
  BY Places
<1>2. /\ f[0] = 0 /\ \A i \in 0..(m - 1) : f[i + 1] = f[i] + Pair(s, i + 1)
      /\ g[0] = 0 /\ \A i \in 0..(n - 1) : g[i + 1] = g[i] + Pair(r, i + 1)
  BY <1>1, SumsStep
<1>3. \A k \in 1..(2 * n) : s[k] = r[k]
  OBVIOUS
<1> HIDE DEF f, g, m, n
<1>4. 0 \in Ns
  BY <1>2
<1>5. ASSUME NEW i \in Nat, i \in Ns
      PROVE  i + 1 \in Ns
  <2> SUFFICES ASSUME i + 1 <= n
               PROVE  f[i + 1] = g[i + 1]
    OBVIOUS
  <2>1. i \in 0..(n - 1) /\ i \in 0..(m - 1) /\ i <= n
    BY <1>1
  <2>2. 2 * (i + 1) - 1 \in 1..(2 * n) /\ 2 * (i + 1) \in 1..(2 * n)
    BY <1>1
  <2>3. Pair(s, i + 1) = Pair(r, i + 1)
    <3>1. s[2 * (i + 1) - 1] = r[2 * (i + 1) - 1] /\ s[2 * (i + 1)] = r[2 * (i + 1)]
      BY <1>3, <2>2
    <3> QED BY <3>1 DEF Pair
  <2> QED BY <1>2, <1>5, <2>1, <2>3
<1>6. \A i \in 0..n : f[i] = g[i]
  <2> HIDE DEF Ns
  <2>1. Nat \subseteq Ns
    BY <1>4, <1>5, SetInduction
  <2> QED BY <1>1, <2>1 DEF Ns
<1> QED BY <1>6 DEF f, g, n

\* One token more, where a number is expected: no new pair.
LEMMA OneNumberMore ==
  ASSUME NEW s \in Seq(Token), (Len(s) % 2) = 0, NEW t \in Token
  PROVE  /\ Append(s, t) \in Seq(Token) /\ Len(Append(s, t)) \in Nat
         /\ (Len(Append(s, t)) % 2) = 1
         /\ Len(Append(s, t)) \div 2 = Len(s) \div 2
         /\ Append(s, t)[Len(Append(s, t))] = t
         /\ \A i \in 1..Len(s) : Append(s, t)[i] = s[i]
         /\ PairsRead(s) => PairsRead(Append(s, t))
         /\ Meaning(Append(s, t)) = Meaning(s)
<1> DEFINE r == Append(s, t)
           m == Len(s) \div 2
<1>1. /\ r \in Seq(Token) /\ Len(r) = Len(s) + 1 /\ Len(s) \in Nat
      /\ r[Len(r)] = t /\ \A i \in 1..Len(s) : r[i] = s[i]
  BY AppendProperties, LenProperties
<1>2. m \in Nat /\ Len(s) = 2 * m
  BY Places
<1> HIDE DEF r
<1>3. (Len(r) % 2) = 1 /\ Len(r) \div 2 = m
  <2> HIDE DEF m
  <2>1. Len(r) = 2 * m + 1
    BY <1>1, <1>2
  <2> QED BY <1>2, <2>1
<1>4. \A i \in Pairs(s) : 2*i - 1 \in 1..Len(s) /\ 2*i \in 1..Len(s)
  BY Places
<1>5. PairsRead(s) => PairsRead(r)
  <2> SUFFICES ASSUME PairsRead(s) PROVE PairsRead(r)
    OBVIOUS
  <2>1. Pairs(r) = Pairs(s)
    BY <1>3 DEF Pairs
  <2>2. \A i \in Pairs(s) : r[2*i - 1] = s[2*i - 1] /\ r[2*i] = s[2*i]
    BY <1>1, <1>4
  <2> QED BY <2>1, <2>2 DEF PairsRead
<1>6. Meaning(r) = Meaning(s)
  <2>1. \A k \in 1..(2 * (Len(s) \div 2)) : r[k] = s[k]
    BY <1>1, <1>2
  <2>2. Len(s) \div 2 <= Len(r) \div 2
    BY <1>2, <1>3
  <2>3. \A i \in 0..(Len(s) \div 2) : Sums(r)[i] = Sums(s)[i]
    BY <1>1, <2>1, <2>2, SamePairs
  <2> QED BY <1>2, <1>3, <2>3 DEF Meaning
<1>7. Len(r) \in Nat
  BY <1>1
<1> QED BY <1>1, <1>3, <1>5, <1>6, <1>7 DEF r

\* The unit of the last pair.
LastUnit(s) == IF Len(s) \div 2 = 0 THEN 0 ELSE s[2 * (Len(s) \div 2)].unit

\* As the text is in order, no pair has a smaller unit than the last.
LEMMA LastIsSmallest ==
  ASSUME NEW s \in Seq(Token), PairsRead(s)
  PROVE  /\ LastUnit(s) \in 0..Len(Length)
         /\ \A i \in Pairs(s) : s[2*i].unit \in Units /\ s[2*i].unit <= LastUnit(s)
<1> DEFINE m == Len(s) \div 2
<1>1. m \in Nat /\ Pairs(s) = 1..m
  BY Places
<1>2. \A i \in Pairs(s) : s[2*i].unit \in Units
  <2> SUFFICES ASSUME NEW i \in Pairs(s) PROVE s[2*i].unit \in Units
    OBVIOUS
  <2>1. s[2*i] \in Token /\ "unit" \in DOMAIN s[2*i]
    BY Places DEF PairsRead
  <2> QED BY <2>1, Tokens
<1>3. Units = 1..Len(Length) /\ Len(Length) \in Nat
  BY UnitsAre
<1>4. ASSUME NEW i \in Pairs(s)
      PROVE  s[2*i].unit <= LastUnit(s)
  <2>1. m \in Pairs(s) /\ m # 0 /\ i \in Nat /\ i <= m
    BY <1>1, <1>4
  <2>2. LastUnit(s) = s[2*m].unit
    BY <2>1 DEF LastUnit
  <2>3. s[2*i].unit \in Nat /\ s[2*m].unit \in Nat
    BY <1>2, <1>3, <1>4, <2>1
  <2>4. i < m => s[2*i].unit < s[2*m].unit
    BY <1>4, <2>1 DEF PairsRead
  <2> HIDE DEF m
  <2>5. CASE i < m
    BY <2>2, <2>3, <2>4, <2>5
  <2>6. CASE i = m
    BY <2>2, <2>3, <2>6
  <2> QED BY <1>1, <2>1, <2>5, <2>6
<1>5. LastUnit(s) \in 0..Len(Length)
  <2>1. CASE m = 0
    BY <1>3, <2>1 DEF LastUnit
  <2>2. CASE m # 0
    <3>1. m \in Pairs(s)
      BY <1>1, <2>2
    <3> QED BY <1>2, <1>3, <2>2, <3>1 DEF LastUnit
  <2> QED BY <2>1, <2>2
<1> QED BY <1>2, <1>4, <1>5

\* One token more, after a number: one pair more, which is the last.
LEMMA OneUnitMore ==
  ASSUME NEW s \in Seq(Token), (Len(s) % 2) = 1, NEW t \in Token
  PROVE  /\ Append(s, t) \in Seq(Token) /\ Len(Append(s, t)) \in Nat
         /\ (Len(Append(s, t)) % 2) = 0
         /\ LET r == Append(s, t)
                p == Len(s) \div 2 + 1
            IN  /\ Pairs(r) = Pairs(s) \cup {p} /\ p \notin Pairs(s)
                /\ LastUnit(r) = t.unit
                /\ \A i \in Pairs(s) : r[2*i - 1] = s[2*i - 1] /\ r[2*i] = s[2*i] /\ i < p
                /\ r[2*p - 1] = s[Len(s)] /\ r[2*p] = t
                /\ Meaning(r) = Meaning(s) + s[Len(s)].value * Length[t.unit]
<1> DEFINE r == Append(s, t)
           m == Len(s) \div 2
           p == m + 1
<1>1. /\ r \in Seq(Token) /\ Len(r) = Len(s) + 1 /\ Len(s) \in Nat
      /\ r[Len(r)] = t /\ \A i \in 1..Len(s) : r[i] = s[i]
  BY AppendProperties, LenProperties
<1>2. m \in Nat /\ Len(s) = 2 * m + 1 /\ Pairs(s) = 1..m
  BY Places
<1>3. \A i \in Pairs(s) : 2*i - 1 \in 1..Len(s) /\ 2*i \in 1..Len(s)
  BY Places
<1> HIDE DEF r, m
<1>4. Len(r) = 2 * p /\ p \in Nat
  BY <1>1, <1>2
<1>5. (Len(r) % 2) = 0 /\ Len(r) \div 2 = p
  <2> HIDE DEF p
  <2> QED BY <1>4
<1>6. Pairs(r) = Pairs(s) \cup {p} /\ p \notin Pairs(s)
  <2>1. Pairs(r) = 1..p
    BY <1>5 DEF Pairs
  <2> QED BY <1>2, <2>1
<1>7. \A i \in Pairs(s) : r[2*i - 1] = s[2*i - 1] /\ r[2*i] = s[2*i] /\ i < p
  BY <1>1, <1>2, <1>3
<1>8. r[2*p - 1] = s[Len(s)] /\ r[2*p] = t
  <2>1. 2 * p - 1 = Len(s) /\ Len(s) \in 1..Len(s)
    BY <1>2
  <2>2. r[2*p - 1] = s[Len(s)]
    BY <1>1, <2>1
  <2>3. r[2*p] = t
    BY <1>1, <1>4
  <2> QED BY <2>2, <2>3
<1>9. LastUnit(r) = t.unit
  <2>1. p # 0
    BY <1>2
  <2> QED BY <1>5, <1>8, <2>1 DEF LastUnit
<1>10. Meaning(r) = Meaning(s) + s[Len(s)].value * Length[t.unit]
  <2>1. \A k \in 1..(2 * m) : r[k] = s[k]
    BY <1>1, <1>2
  <2>2. m <= Len(r) \div 2
    BY <1>2, <1>5
  <2>3. \A i \in 0..m : Sums(r)[i] = Sums(s)[i]
    BY <1>1, <2>1, <2>2, SamePairs DEF m
  <2>4. Sums(r)[m + 1] = Sums(r)[m] + Pair(r, m + 1)
    <3>1. Len(r) \in Nat
      BY <1>4
    <3>2. m \in 0..((Len(r) \div 2) - 1)
      BY <1>2, <1>5
    <3> QED BY <3>1, <3>2, SumsStep
  <2>5. Pair(r, m + 1) = s[Len(s)].value * Length[t.unit]
    BY <1>8 DEF Pair
  <2>6. Sums(r)[m] = Meaning(s)
    BY <1>2, <2>3 DEF Meaning, m
  <2>7. Meaning(r) = Sums(r)[m + 1]
    BY <1>5 DEF Meaning
  <2> QED BY <2>4, <2>5, <2>6, <2>7
<1>11. Len(r) \in Nat
  BY <1>4
<1> QED BY <1>1, <1>5, <1>6, <1>7, <1>8, <1>9, <1>10, <1>11 DEF r, m

-----------------------------------------------------------------------------
(***************************************************************************)
(* The inductive invariant: what has been read so far, and what the        *)
(* variables say of it.                                                    *)
(***************************************************************************)
DurationTypeOK ==
  /\ input \in Seq(Token)
  /\ expects \in {"number", "unit"}
  /\ total \in Int
  /\ lastUnit \in 0..Len(Length)
  /\ outcome \in {"parsing", "ok", "error"}

\* Until an error, the text is well-formed as far as it goes, and total is
\* the wrapped sum of its pairs.
Follows ==
  outcome # "error" =>
    /\ PairsRead(input)
    /\ expects = IF Len(input) % 2 = 0 THEN "number" ELSE "unit"
    /\ expects = "unit" =>
         input[Len(input)] \in Numbers /\ input[Len(input)].digits <= MaxDigits
    /\ lastUnit = LastUnit(input)
    /\ total = Wrap(Meaning(input))

Accepted == outcome = "ok" => expects = "number" /\ total > 0

Refused == outcome = "error" => ~(WellFormed(input) /\ Wrap(Meaning(input)) > 0)

IInv == DurationTypeOK /\ Follows /\ Accepted /\ Refused

\* Nothing has been read, and it means nothing.
LEMMA DurationInit == Init => IInv
<1> SUFFICES ASSUME Init PROVE IInv
  OBVIOUS
<1>1. /\ input = << >> /\ expects = "number" /\ total = 0 /\ lastUnit = 0
      /\ outcome = "parsing"
  BY DEF Init
<1>2. DurationTypeOK
  BY <1>1, UnitsAre DEF DurationTypeOK
<1>3. Len(input) = 0 /\ Len(input) % 2 = 0 /\ Len(input) \div 2 = 0
  BY <1>1
<1>4. PairsRead(input) /\ LastUnit(input) = 0
  BY <1>3 DEF PairsRead, Pairs, LastUnit
<1>5. Wrap(Meaning(input)) = 0
  <2>1. Sums(input)[0] = 0
    BY <1>3, SumsStep
  <2>2. Meaning(input) = 0
    BY <1>3, <2>1 DEF Meaning
  <2>3. Wrap(0) = 0
    BY Halves, NoWrap
  <2> QED BY <2>2, <2>3
<1>6. Follows
  BY <1>1, <1>3, <1>4, <1>5 DEF Follows
<1> QED BY <1>1, <1>2, <1>6 DEF IInv, Accepted, Refused

\* What is true of a step that reads where a number is expected.
LEMMA NumberPlace ==
  ASSUME IInv, expects = "number", outcome = "parsing"
  PROVE  /\ input \in Seq(Token) /\ Len(input) % 2 = 0 /\ PairsRead(input)
         /\ lastUnit = LastUnit(input) /\ total = Wrap(Meaning(input))
  BY DEF IInv, DurationTypeOK, Follows

\* And where a unit is.
LEMMA UnitPlace ==
  ASSUME IInv, expects = "unit", outcome = "parsing"
  PROVE  /\ input \in Seq(Token) /\ Len(input) % 2 = 1 /\ PairsRead(input)
         /\ input[Len(input)] \in Numbers /\ input[Len(input)].digits <= MaxDigits
         /\ lastUnit = LastUnit(input) /\ total = Wrap(Meaning(input))
<1>1. input \in Seq(Token) /\ PairsRead(input)
      /\ input[Len(input)] \in Numbers /\ input[Len(input)].digits <= MaxDigits
      /\ lastUnit = LastUnit(input) /\ total = Wrap(Meaning(input))
  BY DEF IInv, DurationTypeOK, Follows
<1>2. Len(input) % 2 # 0
  BY DEF IInv, Follows
<1>3. (Len(input) % 2) \in 0..1
  BY <1>1, Places
<1> QED BY <1>1, <1>2, <1>3

\* A token read where a number is expected and none is left unread.
LEMMA NumberStep ==
  ASSUME IInv, NEW t \in Numbers, ReadNumber(t)
  PROVE  IInv'
<1>1. /\ expects = "number" /\ outcome = "parsing" /\ input' = Append(input, t)
      /\ t.digits <= MaxDigits /\ expects' = "unit"
      /\ total' = total /\ lastUnit' = lastUnit /\ outcome' = outcome
  BY DEF ReadNumber, Reads
<1>2. /\ input \in Seq(Token) /\ Len(input) % 2 = 0 /\ PairsRead(input)
      /\ lastUnit = LastUnit(input) /\ total = Wrap(Meaning(input))
  BY <1>1, NumberPlace
<1>3. t \in Token
  BY DEF Token
<1>4. /\ input' \in Seq(Token) /\ (Len(input') % 2) = 1
      /\ Len(input') \div 2 = Len(input) \div 2
      /\ input'[Len(input')] = t
      /\ \A i \in 1..Len(input) : input'[i] = input[i]
      /\ PairsRead(input') /\ Meaning(input') = Meaning(input)
  BY <1>1, <1>2, <1>3, OneNumberMore
<1>5. LastUnit(input') = LastUnit(input)
  <2> DEFINE m == Len(input) \div 2
  <2>1. m \in Nat /\ (m # 0 => m \in Pairs(input))
    BY <1>2, Places
  <2>2. m # 0 => 2 * m \in 1..Len(input)
    BY <1>2, <2>1, Places
  <2> QED BY <1>4, <2>2 DEF LastUnit
<1>6. DurationTypeOK'
  BY <1>1, <1>4 DEF IInv, DurationTypeOK
<1>7. Follows'
  BY <1>1, <1>2, <1>4, <1>5 DEF Follows
<1>8. Accepted' /\ Refused'
  BY <1>1 DEF Accepted, Refused
<1> QED BY <1>6, <1>7, <1>8 DEF IInv

\* A token that is no number, or too long a number: the text is not
\* well-formed, whatever it was going to be.
LEMMA NumberErrorStep ==
  ASSUME IInv, NEW t \in Token, NumberTooLong(t) \/ NoNumber(t)
  PROVE  IInv'
<1>1. /\ expects = "number" /\ outcome = "parsing" /\ input' = Append(input, t)
      /\ outcome' = "error" /\ expects' = expects /\ total' = total /\ lastUnit' = lastUnit
  BY DEF NumberTooLong, NoNumber, Reads, Rejects
<1>2. input \in Seq(Token) /\ Len(input) % 2 = 0
  BY <1>1, NumberPlace
<1>3. input' \in Seq(Token) /\ (Len(input') % 2) = 1
  BY <1>1, <1>2, OneNumberMore
<1>4. DurationTypeOK'
  BY <1>1, <1>3 DEF IInv, DurationTypeOK
<1>5. ~WellFormed(input')
  BY <1>3 DEF WellFormed
<1> QED BY <1>1, <1>4, <1>5 DEF IInv, Follows, Accepted, Refused

\* A unit in its order: one pair more, and its length is added, wrapped.
LEMMA UnitStep ==
  ASSUME IInv, NEW u \in Units, ReadUnit(u)
  PROVE  IInv'
<1> DEFINE t == [unit |-> u]
           n == input[Len(input)]
<1>1. /\ expects = "unit" /\ outcome = "parsing" /\ input' = Append(input, t)
      /\ u > lastUnit /\ lastUnit' = u /\ expects' = "number" /\ outcome' = outcome
      /\ total' = Wrap(total + Wrap(n.value * Length[u]))
  BY DEF ReadUnit, Reads, Amount
<1>2. /\ input \in Seq(Token) /\ Len(input) % 2 = 1 /\ PairsRead(input)
      /\ n \in Numbers /\ n.digits <= MaxDigits
      /\ lastUnit = LastUnit(input) /\ total = Wrap(Meaning(input))
  BY <1>1, UnitPlace
<1>3. t \in Token /\ "unit" \in DOMAIN t /\ t.unit = u
  BY Tokens
<1> DEFINE p == Len(input) \div 2 + 1
<1>4. /\ input' \in Seq(Token) /\ (Len(input') % 2) = 0
      /\ Pairs(input') = Pairs(input) \cup {p} /\ p \notin Pairs(input)
      /\ LastUnit(input') = u
      /\ \A i \in Pairs(input) : /\ input'[2*i - 1] = input[2*i - 1]
                                 /\ input'[2*i] = input[2*i] /\ i < p
      /\ input'[2*p - 1] = n /\ input'[2*p] = t
      /\ Meaning(input') = Meaning(input) + n.value * Length[u]
  <2>1. /\ Append(input, t) \in Seq(Token) /\ (Len(Append(input, t)) % 2) = 0
        /\ LET r == Append(input, t)
           IN  /\ Pairs(r) = Pairs(input) \cup {p} /\ p \notin Pairs(input)
               /\ LastUnit(r) = t.unit
               /\ \A i \in Pairs(input) : r[2*i - 1] = input[2*i - 1] /\ r[2*i] = input[2*i] /\ i < p
               /\ r[2*p - 1] = input[Len(input)] /\ r[2*p] = t
               /\ Meaning(r) = Meaning(input) + input[Len(input)].value * Length[t.unit]
    <3> HIDE DEF t
    <3> QED BY <1>2, <1>3, OneUnitMore
  <2> HIDE DEF t, p
  <2> QED BY <1>1, <1>3, <2>1
<1>5. Units = 1..Len(Length) /\ Len(Length) \in Nat /\ Length[u] \in Nat \ {0}
  BY UnitsAre
<1>6. /\ \A i \in Pairs(input) : input[2*i].unit \in Units /\ input[2*i].unit < u
      /\ \A i \in Pairs(input) : i \in Nat /\ i < p
      /\ p \in Nat
  <2>1. \A i \in Pairs(input) : input[2*i].unit \in Units /\ input[2*i].unit <= lastUnit
    BY <1>2, LastIsSmallest
  <2>2. lastUnit \in Nat
    BY <1>5 DEF IInv, DurationTypeOK
  <2>3. \A i \in Pairs(input) : i \in Nat
    BY <1>2, Places
  <2>4. p \in Nat
    BY <1>2, Places
  <2> HIDE DEF p, t
  <2> QED BY <1>1, <1>4, <1>5, <2>1, <2>2, <2>3, <2>4
<1> HIDE DEF t, n, p
<1>7. PairsRead(input')
  <2>1. ASSUME NEW i \in Pairs(input')
        PROVE  /\ input'[2*i - 1] \in Numbers /\ input'[2*i - 1].digits <= MaxDigits
               /\ "unit" \in DOMAIN input'[2*i]
    <3>1. CASE i = p
      BY <1>2, <1>3, <1>4, <3>1
    <3>2. CASE i \in Pairs(input)
      BY <1>2, <1>4, <3>2 DEF PairsRead
    <3> QED BY <1>4, <3>1, <3>2
  <2>2. ASSUME NEW i \in Pairs(input'), NEW j \in Pairs(input'), i < j
        PROVE  input'[2*i].unit < input'[2*j].unit
    <3>1. CASE i \in Pairs(input) /\ j \in Pairs(input)
      BY <1>2, <1>4, <2>2, <3>1 DEF PairsRead
    <3>2. CASE i \in Pairs(input) /\ j = p
      BY <1>3, <1>4, <1>6, <3>2
    <3>3. CASE i = p
      <4>1. j \in Nat /\ j <= p
        BY <1>4, <1>6
      <4> QED BY <1>6, <2>2, <3>3, <4>1
    <3> QED BY <1>4, <3>1, <3>2, <3>3
  <2> QED BY <2>1, <2>2 DEF PairsRead
<1>8. total' = Wrap(Meaning(input'))
  <2>1. n.value * Length[u] \in Int
    BY <1>2, <1>5, Tokens
  <2>2. Meaning(input) \in Int
    BY <1>2, MeaningIs
  <2> DEFINE x == n.value * Length[u]
             y == Meaning(input)
  <2> HIDE DEF x, y
  <2>3. Wrap(Wrap(y) + Wrap(x)) = Wrap(y + x)
    BY <2>1, <2>2, WrapSums DEF x, y
  <2> QED BY <1>1, <1>2, <1>4, <2>3 DEF x, y
<1>9. total' \in Int
  <2>1. Meaning(input') \in Int
    BY <1>4, <1>7, MeaningIs
  <2> QED BY <1>8, <2>1, WrapTakes
<1>10. DurationTypeOK'
  BY <1>1, <1>4, <1>5, <1>9 DEF IInv, DurationTypeOK
<1>11. Follows'
  BY <1>1, <1>4, <1>7, <1>8 DEF Follows
<1>12. Accepted' /\ Refused'
  BY <1>1 DEF Accepted, Refused
<1> QED BY <1>10, <1>11, <1>12 DEF IInv

\* A unit that comes again or too late, or none: the last pair is not one, or
\* not in order.
LEMMA UnitErrorStep ==
  ASSUME IInv, NEW t \in Token, expects = "unit", Reads(t), Rejects,
         "unit" \in DOMAIN t => t.unit <= lastUnit
  PROVE  IInv'
<1>1. /\ outcome = "parsing" /\ input' = Append(input, t)
      /\ outcome' = "error" /\ expects' = expects /\ total' = total /\ lastUnit' = lastUnit
  BY DEF Reads, Rejects
<1>2. /\ input \in Seq(Token) /\ Len(input) % 2 = 1 /\ PairsRead(input)
      /\ lastUnit = LastUnit(input)
  BY <1>1, UnitPlace
<1> DEFINE m == Len(input) \div 2
           p == m + 1
<1>3. /\ input' \in Seq(Token)
      /\ Pairs(input') = Pairs(input) \cup {p}
      /\ \A i \in Pairs(input) : input'[2*i] = input[2*i] /\ i < p
      /\ input'[2*p] = t
  <2>1. /\ Append(input, t) \in Seq(Token) /\ (Len(Append(input, t)) % 2) = 0
        /\ LET r == Append(input, t)
           IN  /\ Pairs(r) = Pairs(input) \cup {p} /\ p \notin Pairs(input)
               /\ LastUnit(r) = t.unit
               /\ \A i \in Pairs(input) : r[2*i - 1] = input[2*i - 1] /\ r[2*i] = input[2*i] /\ i < p
               /\ r[2*p - 1] = input[Len(input)] /\ r[2*p] = t
               /\ Meaning(r) = Meaning(input) + input[Len(input)].value * Length[t.unit]
    BY <1>2, OneUnitMore
  <2> HIDE DEF p
  <2> QED BY <1>1, <2>1
<1>4. ~PairsRead(input')
  <2> SUFFICES ASSUME PairsRead(input') PROVE FALSE
    OBVIOUS
  <2>1. p \in Pairs(input') /\ "unit" \in DOMAIN t
    BY <1>3 DEF PairsRead
  <2>2. t.unit \in Nat \ {0}
    BY <2>1, Tokens, UnitsAre
  <2>3. t.unit <= LastUnit(input)
    BY <1>2, <2>1
  <2>4. m \in Nat /\ (m # 0 => m \in Pairs(input))
    BY <1>2, Places
  <2>5. m # 0
    BY <2>2, <2>3 DEF LastUnit
  <2>6. LastUnit(input) = input'[2*m].unit
    BY <1>3, <2>4, <2>5 DEF LastUnit
  <2>7. input'[2*m].unit < input'[2*p].unit
    BY <1>3, <2>1, <2>4, <2>5 DEF PairsRead
  <2>8. LastUnit(input) \in Nat
    BY <1>2, LastIsSmallest, UnitsAre
  <2> QED BY <1>3, <2>2, <2>3, <2>6, <2>7, <2>8
<1>5. DurationTypeOK'
  BY <1>1, <1>3 DEF IInv, DurationTypeOK
<1>6. ~WellFormed(input')
  BY <1>4 DEF WellFormed
<1> QED BY <1>1, <1>5, <1>6 DEF IInv, Follows, Accepted, Refused

\* The end of the text: it is refused after a number without a unit, or if
\* the sum is not positive.
LEMMA EndStep ==
  ASSUME IInv, End
  PROVE  IInv'
<1>1. /\ outcome = "parsing" /\ input' = input /\ expects' = expects
      /\ total' = total /\ lastUnit' = lastUnit
      /\ outcome' = IF expects = "number" /\ total > 0 THEN "ok" ELSE "error"
  BY DEF End
<1>2. DurationTypeOK'
  BY <1>1 DEF IInv, DurationTypeOK
<1>3. /\ PairsRead(input)
      /\ expects = IF Len(input) % 2 = 0 THEN "number" ELSE "unit"
      /\ expects = "unit" =>
           input[Len(input)] \in Numbers /\ input[Len(input)].digits <= MaxDigits
      /\ lastUnit = LastUnit(input) /\ total = Wrap(Meaning(input))
  BY <1>1 DEF IInv, Follows
<1>4. Follows'
  BY <1>1, <1>3 DEF Follows
<1>5. Accepted'
  BY <1>1 DEF Accepted
<1>6. Refused'
  BY <1>1, <1>3 DEF Refused, WellFormed
<1> QED BY <1>2, <1>4, <1>5, <1>6 DEF IInv

\* Nothing changes.
LEMMA DurationSame == IInv /\ UNCHANGED vars => IInv'
BY DEF IInv, DurationTypeOK, Follows, Accepted, Refused, vars

\* Every step of Parse keeps the invariant.
LEMMA DurationStep == IInv /\ [Next]_vars => IInv'
<1> SUFFICES ASSUME IInv, [Next]_vars PROVE IInv'
  OBVIOUS
<1>1. CASE \E t \in Numbers : ReadNumber(t) \/ NumberTooLong(t)
  <2>1. PICK t \in Numbers : ReadNumber(t) \/ NumberTooLong(t)
    BY <1>1
  <2>2. t \in Token
    BY DEF Token
  <2> QED BY <2>1, <2>2, NumberStep, NumberErrorStep
<1>2. ASSUME NEW u \in Units, ReadUnit(u)
      PROVE  IInv'
  BY <1>2, UnitStep
<1>3. ASSUME NEW u \in Units, UnitOutOfOrder(u)
      PROVE  IInv'
  <2> DEFINE t == [unit |-> u]
  <2>1. t \in Token /\ t.unit = u
    BY Tokens
  <2>2. expects = "unit" /\ Reads(t) /\ Rejects /\ t.unit <= lastUnit
    BY <1>3, <2>1 DEF UnitOutOfOrder
  <2> HIDE DEF t
  <2> QED BY <2>1, <2>2, UnitErrorStep
<1>4. ASSUME NEW u \in Units, NoNumber([unit |-> u])
      PROVE  IInv'
  BY <1>4, Tokens, NumberErrorStep
<1>5. CASE NoNumber(Other)
  BY <1>5, Tokens, NumberErrorStep
<1>6. CASE UnknownUnit
  <2>1. expects = "unit" /\ Reads(Other) /\ Rejects
    BY <1>6 DEF UnknownUnit
  <2>2. Other \in Token /\ "unit" \notin DOMAIN Other
    BY Tokens
  <2> QED BY <2>1, <2>2, UnitErrorStep
<1>7. CASE End
  BY <1>7, EndStep
<1>8. CASE UNCHANGED vars
  BY <1>8, DurationSame
<1> QED BY <1>1, <1>2, <1>3, <1>4, <1>5, <1>6, <1>7, <1>8 DEF Next

\* The invariant holds of every state of every run of Parse.
THEOREM DurationInvariant == Spec => []IInv
BY DurationInit, DurationStep, PTL DEF Spec

-----------------------------------------------------------------------------
(***************************************************************************)
(* What Parse accepts, and what it returns.                                *)
(***************************************************************************)

\* Parse accepts exactly the well-formed texts whose sum, wrapped to a signed
\* word, is positive, and it returns that wrapped sum.
AcceptsWrapped ==
  /\ outcome = "ok" => WellFormed(input) /\ total = Wrap(Meaning(input)) /\ total > 0
  /\ outcome = "error" => ~(WellFormed(input) /\ Wrap(Meaning(input)) > 0)

\* What Parse accepts and returns for any text, sums that overflow included:
\* there the code departs from the text, and no further.
THEOREM AlwaysAcceptsWrapped == Spec => []AcceptsWrapped
<1>1. IInv => AcceptsWrapped
  <2> SUFFICES ASSUME IInv PROVE AcceptsWrapped
    OBVIOUS
  <2>1. ASSUME outcome = "ok"
        PROVE  WellFormed(input) /\ total = Wrap(Meaning(input)) /\ total > 0
    <3>1. expects = "number" /\ total > 0
      BY <2>1 DEF IInv, Accepted
    <3>2. /\ PairsRead(input) /\ total = Wrap(Meaning(input))
          /\ expects = IF Len(input) % 2 = 0 THEN "number" ELSE "unit"
      BY <2>1 DEF IInv, Follows
    <3>3. Len(input) % 2 = 0
      BY <3>1, <3>2
    <3> QED BY <3>1, <3>2, <3>3 DEF WellFormed
  <2> QED BY <2>1 DEF AcceptsWrapped, IInv, Refused
<1> QED BY <1>1, DurationInvariant, PTL

\* A text that means no more than a signed word can say.
Fits == WellFormed(input) => Meaning(input) < Half

\* Where the sum does not overflow, Parse accepts exactly the well-formed texts
\* of positive meaning, and returns what they mean.
THEOREM FitsAcceptsExactly == Spec => [](Fits => AcceptsExactly /\ OverflowRejected)
<1>1. IInv /\ AcceptsWrapped => (Fits => AcceptsExactly /\ OverflowRejected)
  <2> SUFFICES ASSUME IInv, AcceptsWrapped, Fits PROVE AcceptsExactly /\ OverflowRejected
    OBVIOUS
  <2>1. WellFormed(input) => Wrap(Meaning(input)) = Meaning(input)
    <3> SUFFICES ASSUME WellFormed(input) PROVE Wrap(Meaning(input)) = Meaning(input)
      OBVIOUS
    <3>1. input \in Seq(Token) /\ PairsRead(input)
      BY DEF IInv, DurationTypeOK, WellFormed
    <3>2. Meaning(input) \in Nat /\ Meaning(input) < Half
      BY <3>1, MeaningIs DEF Fits
    <3> QED BY <3>2, Halves, NoWrap
  <2> QED BY <2>1 DEF AcceptsWrapped, AcceptsExactly, OverflowRejected
<1> QED BY <1>1, DurationInvariant, AlwaysAcceptsWrapped, PTL

\* And only there: a duration Parse returns is the one the text means exactly
\* when the sum fits.
THEOREM ExactWhereFits == Spec => [](outcome = "ok" => (total = Meaning(input) <=> Fits))
<1>1. IInv /\ AcceptsWrapped => (outcome = "ok" => (total = Meaning(input) <=> Fits))
  <2> SUFFICES ASSUME IInv, AcceptsWrapped, outcome = "ok"
               PROVE  total = Meaning(input) <=> Fits
    OBVIOUS
  <2>1. /\ input \in Seq(Token) /\ PairsRead(input) /\ WellFormed(input)
        /\ total = Wrap(Meaning(input))
    BY DEF IInv, DurationTypeOK, AcceptsWrapped, WellFormed
  <2>2. Meaning(input) \in Nat
    BY <2>1, MeaningIs
  <2>3. Wrap(Meaning(input)) < Half
    BY <2>2, WrapTakes
  <2>4. Meaning(input) < Half => Wrap(Meaning(input)) = Meaning(input)
    BY <2>2, Halves, NoWrap
  <2> QED BY <2>1, <2>3, <2>4 DEF Fits
<1> QED BY <1>1, DurationInvariant, AlwaysAcceptsWrapped, PTL

-----------------------------------------------------------------------------
(***************************************************************************)
(* What Format prints.                                                     *)
(***************************************************************************)

\* What the first units print is the duration, less what they leave.
LEMMA PrintedIs ==
  ASSUME NEW d \in Int
  PROVE  \A u \in Units : /\ Rest(d)[u] \in Int
                          /\ Printed(Format(d))[u] = d - (Rest(d)[u] % Length[u])
                          /\ (Rest(d)[u] % Length[Len(Length)]) = (d % Length[Len(Length)])
<1> DEFINE r == Rest(d)
           f == Printed(Format(d))
           n == Len(Length)
           b == Length[n]
           At(u) == r[u] \in Int /\ f[u] = d - (r[u] % Length[u]) /\ (r[u] % b) = (d % b)
           Ns == {i \in Nat : i + 1 <= n => At(i + 1)}
<1>1. /\ n \in Nat \ {0} /\ Units = 1..n
      /\ \A u \in Units : Length[u] \in Nat \ {0} /\ Length[u] % b = 0
      /\ b \in Nat \ {0}
  BY UnitsAre
<1>2. r[1] = d /\ \A u \in 1..(n - 1) : r[u + 1] = (r[u] % Length[u])
  BY RestStep
<1>3. f[0] = 0 /\ \A u \in 0..(n - 1) : f[u + 1] = f[u] + (r[u + 1] \div Length[u + 1]) * Length[u + 1]
  <2> DEFINE p == Format(d)
  <2>1. \A u \in Units : p[u] = r[u] \div Length[u]
    BY DEF Format
  <2>2. \A u \in 0..(n - 1) : u + 1 \in Units
    BY <1>1
  <2>3. f[0] = 0 /\ \A u \in 0..(n - 1) : f[u + 1] = f[u] + p[u + 1] * Length[u + 1]
    BY PrintedStep
  <2> HIDE DEF p, f, r, n
  <2> QED BY <2>1, <2>2, <2>3
<1> HIDE DEF r, f, n, b
<1>4. \A u \in Units : r[u] \in Int =>
        /\ (r[u] \div Length[u]) * Length[u] = r[u] - (r[u] % Length[u])
        /\ (r[u] % Length[u]) \in Int
        /\ (r[u] \div Length[u]) * Length[u] \in Int
  <2> SUFFICES ASSUME NEW u \in Units, r[u] \in Int
               PROVE  /\ (r[u] \div Length[u]) * Length[u] = r[u] - (r[u] % Length[u])
                      /\ (r[u] % Length[u]) \in Int
                      /\ (r[u] \div Length[u]) * Length[u] \in Int
    OBVIOUS
  <2> DEFINE q == r[u] \div Length[u]
             y == r[u] % Length[u]
             l == Length[u]
  <2>1. l \in Nat \ {0}
    BY <1>1
  <2>2. q \in Int /\ y \in 0..(l - 1) /\ r[u] = q * l + y
    BY <2>1, Divides
  <2>3. q * l \in Int
    BY <2>1, <2>2
  <2> HIDE DEF q, y
  <2>4. q * l = r[u] - y /\ y \in Int
    BY <2>1, <2>2, <2>3
  <2> QED BY <2>3, <2>4 DEF q, y
<1>5. 0 \in Ns
  <2>1. 1 \in Units /\ 0 \in 0..(n - 1)
    BY <1>1
  <2>2. f[0 + 1] = f[0] + (r[0 + 1] \div Length[0 + 1]) * Length[0 + 1]
    BY <1>3, <2>1
  <2>3. f[1] = 0 + (r[1] \div Length[1]) * Length[1]
    BY <1>3, <2>2
  <2>4. /\ (r[1] \div Length[1]) * Length[1] = r[1] - (r[1] % Length[1])
        /\ (r[1] % Length[1]) \in Int
    BY <1>2, <1>4, <2>1
  <2>5. f[1] = d - (r[1] % Length[1])
    BY <1>2, <2>3, <2>4
  <2>6. At(1)
    BY <1>2, <2>5
  <2> QED BY <2>6
<1>6. ASSUME NEW i \in Nat, i \in Ns
      PROVE  i + 1 \in Ns
  <2> DEFINE u == i + 1
  <2> SUFFICES ASSUME u + 1 <= n
               PROVE  At(u + 1)
    OBVIOUS
  <2>1. u \in Units /\ u \in 0..(n - 1) /\ u \in 1..(n - 1) /\ u + 1 \in Units
    BY <1>1
  <2>2. At(u)
    BY <1>1, <1>6
  <2> HIDE DEF u
  <2>3. r[u + 1] = (r[u] % Length[u]) /\ r[u + 1] \in Int
    BY <1>2, <1>4, <2>1, <2>2
  <2>4. f[u + 1] = f[u] + (r[u + 1] \div Length[u + 1]) * Length[u + 1]
    BY <1>3, <2>1
  <2> DEFINE x == (r[u + 1] \div Length[u + 1]) * Length[u + 1]
             y == r[u + 1] % Length[u + 1]
  <2>5. x = r[u + 1] - y /\ y \in Int
    BY <1>4, <2>1, <2>3
  <2>6. f[u + 1] = f[u] + x
    BY <2>4
  <2> HIDE DEF x, y
  <2>7. f[u + 1] = d - y
    BY <2>2, <2>3, <2>5, <2>6
  <2>8. (r[u + 1] % b) = (d % b)
    <3> DEFINE l == Length[u]
               q == r[u] \div l
               k == l \div b
    <3>1. l \in Nat \ {0} /\ (l % b) = 0
      BY <1>1, <2>1
    <3>2. q \in Int /\ r[u] = q * l + r[u + 1]
      BY <2>2, <2>3, <3>1, Divides
    <3> HIDE DEF l
    <3>3. k \in Int /\ l = k * b
      <4>1. k \in Int /\ l = k * b + (l % b)
        BY <1>1, <3>1, Divides
      <4> HIDE DEF k
      <4>2. k * b \in Int
        BY <1>1, <4>1
      <4> QED BY <3>1, <4>1, <4>2
    <3> HIDE DEF q, k
    <3> DEFINE m == q * k
    <3>4. m \in Int /\ q * (k * b) = m * b
      BY <1>1, <3>2, <3>3
    <3> HIDE DEF m
    <3>5. m * b \in Int
      BY <1>1, <3>4
    <3>6. r[u] = r[u + 1] + m * b
      BY <2>3, <3>2, <3>3, <3>4, <3>5
    <3>7. ((r[u + 1] + m * b) % b) = (r[u + 1] % b)
      BY <1>1, <2>3, <3>4, SameRemainder
    <3> QED BY <2>2, <3>6, <3>7
  <2> QED BY <2>3, <2>7, <2>8 DEF y
<1>7. ASSUME NEW u \in Units
      PROVE  At(u)
  <2>1. u - 1 \in Nat /\ (u - 1) + 1 = u /\ u <= n
    BY <1>1
  <2> HIDE DEF At
  <2>2. Nat \subseteq Ns
    <3> HIDE DEF Ns
    <3> QED BY <1>5, <1>6, SetInduction
  <2> QED BY <2>1, <2>2
<1> QED BY <1>7 DEF r, f, n, b

\* Format prints all of a duration but what is below the smallest unit.
LEMMA FormatReadsBack ==
  ASSUME NEW d \in Int
  PROVE  ReadBack(Format(d)) = d - (d % Length[Len(Length)])
<1>1. Len(Length) \in Units
  BY UnitsAre
<1> QED BY <1>1, PrintedIs DEF ReadBack

\* A duration that Parse has returned is printed as a text of that duration; if
\* its sum has wrapped, less what is below the smallest unit.
THEOREM AlwaysRoundTrip == Spec => []RoundTrip
<1>1. IInv /\ AcceptsWrapped => RoundTrip
  <2> SUFFICES ASSUME IInv, AcceptsWrapped, outcome = "ok"
               PROVE  /\ ReadBack(Format(total)) = total - (total % Length[Len(Length)])
                      /\ total = Meaning(input) => ReadBack(Format(total)) = total
    BY DEF RoundTrip
  <2>1. input \in Seq(Token) /\ PairsRead(input) /\ total \in Int
    BY DEF IInv, DurationTypeOK, AcceptsWrapped, WellFormed
  <2>2. ReadBack(Format(total)) = total - (total % Length[Len(Length)])
    BY <2>1, FormatReadsBack
  <2>3. (Meaning(input) % Length[Len(Length)]) = 0
    BY <2>1, MeaningIs
  <2>4. total = Meaning(input) => (total % Length[Len(Length)]) = 0
    BY <2>3
  <2>5. total - 0 = total
    BY <2>1
  <2>6. total = Meaning(input) => ReadBack(Format(total)) = total
    BY <2>2, <2>4, <2>5
  <2> QED BY <2>2, <2>6
<1> QED BY <1>1, DurationInvariant, AlwaysAcceptsWrapped, PTL
=============================================================================
