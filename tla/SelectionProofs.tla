--------------------------- MODULE SelectionProofs ---------------------------
(***************************************************************************)
(* What Keep returns, for every sequence and every selection: its elements *)
(* are the selected ones, none is left out, none comes twice where the     *)
(* sequence has none twice, and the order is kept.  Keep is a recursive    *)
(* function of a position; the proofs are inductions over positions.       *)
(***************************************************************************)
EXTENDS Selection, SequenceTheorems, WellFoundedInduction, TLAPS

\* Induction over the positions of a sequence, with the property as a set.
LEMMA SetInduction ==
  ASSUME NEW S, 0 \in S, \A n \in Nat : n \in S => n + 1 \in S
  PROVE  Nat \subseteq S
<1> SUFFICES ASSUME Nat \ S # {} PROVE FALSE
  OBVIOUS
<1> DEFINE R == OpToRel(<, Nat)
<1>1. \E x \in Nat \ S : \A y \in Nat \ S : ~ (<<y, x>> \in R)
  <2>1. IsWellFoundedOn(R, Nat)
    BY NatLessThanWellFounded
  <2> HIDE DEF R
  <2> QED BY <2>1, WFMin
<1>2. PICK x \in Nat \ S : \A y \in Nat \ S : ~ (<<y, x>> \in R)
  BY <1>1
<1>3. \A y \in Nat \ S : ~(y < x)
  BY <1>2 DEF OpToRel
<1>4. x # 0 /\ x - 1 \in Nat /\ x - 1 \in S /\ x = (x - 1) + 1
  BY <1>3
<1> QED BY <1>4

\* The recursive function of Keep obeys its own equations.
LEMMA KeptIs ==
  ASSUME NEW A, NEW s \in Seq(A), NEW S
  PROVE  Kept(s, S) = [i \in 0..Len(s) |->
           IF i = 0 THEN << >>
           ELSE IF s[i] \in S THEN Append(Kept(s, S)[i - 1], s[i])
           ELSE Kept(s, S)[i - 1]]
<1> DEFINE Is(f, n) == f = [i \in 0..n |->
             IF i = 0 THEN << >>
             ELSE IF s[i] \in S THEN Append(f[i - 1], s[i])
             ELSE f[i - 1]]
           Ns == {n \in Nat : \E f : Is(f, n)}
<1>1. 0 \in Ns
  <2>1. Is([i \in 0..0 |-> << >>], 0)
    OBVIOUS
  <2> QED BY <2>1
<1>2. ASSUME NEW n \in Nat, n \in Ns
      PROVE  n + 1 \in Ns
  <2>1. PICK f : Is(f, n)
    BY <1>2
  <2> DEFINE g == [i \in 0..(n + 1) |->
               IF i = n + 1 THEN (IF s[i] \in S THEN Append(f[n], s[i]) ELSE f[n])
               ELSE f[i]]
  <2>2. \A i \in 0..(n + 1) :
          g[i] = IF i = 0 THEN << >>
                 ELSE IF s[i] \in S THEN Append(g[i - 1], s[i])
                 ELSE g[i - 1]
    <3> SUFFICES ASSUME NEW i \in 0..(n + 1)
                 PROVE g[i] = IF i = 0 THEN << >>
                              ELSE IF s[i] \in S THEN Append(g[i - 1], s[i])
                              ELSE g[i - 1]
      OBVIOUS
    <3>1. CASE i = n + 1
      BY <3>1
    <3>2. CASE i # n + 1
      <4>1. i \in 0..n /\ g[i] = f[i] /\ (i # 0 => i - 1 \in 0..n /\ g[i - 1] = f[i - 1])
        BY <3>2
      <4> HIDE DEF g
      <4> QED BY <2>1, <4>1
    <3> QED BY <3>1, <3>2
  <2>3. g = [i \in 0..(n + 1) |-> g[i]]
    OBVIOUS
  <2> HIDE DEF g
  <2>4. Is(g, n + 1)
    BY <2>2, <2>3
  <2> QED BY <2>4
<1>3. Len(s) \in Nat
  BY LenProperties
<1>4. \E f : Is(f, Len(s))
  <2> HIDE DEF Ns, Is
  <2>1. Nat \subseteq Ns
    BY <1>1, <1>2, SetInduction
  <2> QED BY <1>3, <2>1 DEF Ns
<1>5. Kept(s, S) = CHOOSE f : Is(f, Len(s))
  BY DEF Kept
<1> HIDE DEF Is
<1>6. Is(Kept(s, S), Len(s))
  BY <1>4, <1>5
<1> QED BY <1>6 DEF Is

\* The first value of the recursion, and each value from the one before.
LEMMA KeptStep ==
  ASSUME NEW A, NEW s \in Seq(A), NEW S
  PROVE  /\ Kept(s, S)[0] = << >>
         /\ \A i \in 0..(Len(s) - 1) :
              Kept(s, S)[i + 1] = IF s[i + 1] \in S THEN Append(Kept(s, S)[i], s[i + 1])
                                  ELSE Kept(s, S)[i]
<1> DEFINE f == Kept(s, S)
<1>1. Len(s) \in Nat
  BY LenProperties
<1>2. f = [i \in 0..Len(s) |->
            IF i = 0 THEN << >>
            ELSE IF s[i] \in S THEN Append(f[i - 1], s[i])
            ELSE f[i - 1]]
  BY KeptIs
<1> HIDE DEF f
<1>3. f[0] = << >>
  BY <1>1, <1>2
<1>4. ASSUME NEW i \in 0..(Len(s) - 1)
      PROVE  f[i + 1] = IF s[i + 1] \in S THEN Append(f[i], s[i + 1]) ELSE f[i]
  <2>1. i + 1 \in 0..Len(s) /\ i + 1 # 0 /\ (i + 1) - 1 = i
    BY <1>1
  <2> QED BY <1>2, <2>1
<1> QED BY <1>3, <1>4 DEF f

\* f has the elements of s up to the i-th that are in S, and no other; and it
\* repeats one only if s does.
Selects(f, s, S, i) ==
  /\ \A a \in DOMAIN f : \E j \in 1..i : s[j] \in S /\ f[a] = s[j]
  /\ \A j \in 1..i : s[j] \in S => \E a \in DOMAIN f : f[a] = s[j]
  /\ (\A j, k \in 1..i : s[j] = s[k] => j = k)
       => \A a, b \in DOMAIN f : f[a] = f[b] => a = b

\* One more position: the element is kept or passed over.
LEMMA SelectsNext ==
  ASSUME NEW A, NEW s \in Seq(A), NEW S, NEW f \in Seq(A),
         NEW i \in 0..(Len(s) - 1), Selects(f, s, S, i),
         NEW g, g = IF s[i + 1] \in S THEN Append(f, s[i + 1]) ELSE f
  PROVE  g \in Seq(A) /\ Selects(g, s, S, i + 1)
<1>1. Len(s) \in Nat /\ i \in Nat /\ i + 1 \in 1..Len(s) /\ s[i + 1] \in A
  BY LenProperties, ElementOfSeq
<1>2. \A j \in 1..(i + 1) : j \in 1..i \/ j = i + 1
  BY <1>1
<1>3. CASE s[i + 1] \notin S
  <2>1. g = f
    BY <1>3
  <2>2. \A j \in 1..i : j \in 1..(i + 1)
    BY <1>1
  <2> QED BY <1>2, <1>3, <2>1, <2>2 DEF Selects
<1>4. CASE s[i + 1] \in S
  <2> DEFINE x == s[i + 1]
             last == Len(f) + 1
  <2>1. /\ g \in Seq(A) /\ Len(f) \in Nat /\ DOMAIN f = 1..Len(f) /\ DOMAIN g = 1..last
        /\ g[last] = x /\ \A a \in 1..Len(f) : g[a] = f[a]
    BY <1>1, <1>4, AppendProperties, LenProperties
  <2>2. \A a \in DOMAIN g : a \in DOMAIN f \/ a = last
    BY <2>1
  <2>3. \A a \in DOMAIN f : a \in DOMAIN g /\ g[a] = f[a]
    BY <2>1
  <2>4. last \in DOMAIN g
    BY <2>1
  <2>5. \A j \in 1..i : j \in 1..(i + 1)
    BY <1>1
  <2>6. i + 1 \in 1..(i + 1)
    BY <1>1
  <2> HIDE DEF last
  <2>7. \A a \in DOMAIN g : \E j \in 1..(i + 1) : s[j] \in S /\ g[a] = s[j]
    BY <1>4, <2>1, <2>2, <2>3, <2>5, <2>6 DEF Selects
  <2>8. \A j \in 1..(i + 1) : s[j] \in S => \E a \in DOMAIN g : g[a] = s[j]
    BY <1>2, <2>1, <2>3, <2>4 DEF Selects
  <2>9. ASSUME \A j, k \in 1..(i + 1) : s[j] = s[k] => j = k,
               NEW a \in DOMAIN g, NEW b \in DOMAIN g, g[a] = g[b]
        PROVE  a = b
    <3>1. \A c \in DOMAIN f : f[c] # x
      <4>1. \A j \in 1..i : s[j] # x
        BY <1>1, <2>5, <2>6, <2>9
      <4> QED BY <4>1 DEF Selects
    <3>2. \A c, d \in DOMAIN f : f[c] = f[d] => c = d
      BY <2>5, <2>9 DEF Selects
    <3> HIDE DEF x
    <3> QED BY <2>1, <2>2, <2>3, <2>9, <3>1, <3>2
  <2> QED BY <2>1, <2>7, <2>8, <2>9 DEF Selects
<1> QED BY <1>3, <1>4

\* Keep(s, S) has just the elements of s that are in S, and repeats one only
\* if s does.
LEMMA KeepSelects ==
  ASSUME NEW A, NEW s \in Seq(A), NEW S
  PROVE  Keep(s, S) \in Seq(A) /\ Selects(Keep(s, S), s, S, Len(s))
<1> DEFINE f == Kept(s, S)
           Good(i) == f[i] \in Seq(A) /\ Selects(f[i], s, S, i)
           Ns == {i \in Nat : i <= Len(s) => Good(i)}
<1>1. Len(s) \in Nat
  BY LenProperties
<1>2. 0 \in Ns
  <2>1. f[0] = << >>
    BY KeptStep
  <2>2. f[0] \in Seq(A) /\ DOMAIN f[0] = {} /\ 1..0 = {}
    BY <2>1, EmptySeq
  <2> HIDE DEF f
  <2> QED BY <2>2 DEF Selects
<1>3. ASSUME NEW i \in Nat, i \in Ns
      PROVE  i + 1 \in Ns
  <2>1. SUFFICES ASSUME i + 1 <= Len(s) PROVE Good(i + 1)
    OBVIOUS
  <2>2. i \in 0..(Len(s) - 1) /\ i <= Len(s)
    BY <1>1, <2>1
  <2>3. Good(i)
    BY <1>3, <2>2
  <2>4. f[i + 1] = IF s[i + 1] \in S THEN Append(f[i], s[i + 1]) ELSE f[i]
    BY <2>2, KeptStep
  <2> HIDE DEF f
  <2> QED BY <2>2, <2>3, <2>4, SelectsNext
<1> HIDE DEF Good
<1>4. Nat \subseteq Ns
  <2> HIDE DEF Ns
  <2> QED BY <1>2, <1>3, SetInduction
<1>5. Good(Len(s))
  BY <1>1, <1>4
<1> QED BY <1>5 DEF Good, Keep

\* Nothing is kept of a sequence without an element in S.
LEMMA KeepNone ==
  ASSUME NEW A, NEW s \in Seq(A), NEW S, \A i \in 1..Len(s) : s[i] \notin S
  PROVE  Keep(s, S) = << >>
<1>1. Keep(s, S) \in Seq(A) /\ DOMAIN Keep(s, S) = {}
  BY KeepSelects DEF Selects
<1> QED BY <1>1, EmptySeq, LenProperties

\* One element is kept of a sequence that repeats none and has one in S.
LEMMA KeepOne ==
  ASSUME NEW A, NEW s \in Seq(A), NEW S,
         \A i, j \in 1..Len(s) : s[i] = s[j] => i = j,
         NEW k \in 1..Len(s), s[k] \in S,
         \A i \in 1..Len(s) : s[i] \in S => i = k
  PROVE  Keep(s, S) = << s[k] >>
<1> DEFINE f == Keep(s, S)
<1>1. f \in Seq(A) /\ Selects(f, s, S, Len(s))
  BY KeepSelects
<1> HIDE DEF f
<1>2. /\ Len(f) \in Nat /\ DOMAIN f = 1..Len(f)
  BY <1>1, LenProperties
<1>3. \A a \in DOMAIN f : f[a] = s[k]
  BY <1>1 DEF Selects
<1>4. \A a, b \in DOMAIN f : a = b
  BY <1>1, <1>3 DEF Selects
<1>5. \E a \in DOMAIN f : TRUE
  BY <1>1 DEF Selects
<1>6. Len(f) = 1
  <2>1. 1 \in DOMAIN f /\ Len(f) \in DOMAIN f
    BY <1>2, <1>5
  <2> QED BY <1>4, <2>1
<1>7. s[k] \in A
  BY ElementOfSeq
<1>8. f[1] = s[k] /\ << s[k] >> \in Seq(A) /\ Len(<< s[k] >>) = 1 /\ << s[k] >>[1] = s[k]
  BY <1>2, <1>3, <1>6, <1>7
<1>9. \A i \in 1..Len(f) : f[i] = << s[k] >>[i]
  BY <1>6, <1>8
<1>10. f = << s[k] >>
  BY <1>1, <1>6, <1>8, <1>9, SeqEqual
<1> QED BY <1>10 DEF f

\* The beginning of a sequence.
LEMMA BeginIs ==
  ASSUME NEW S, NEW q \in Seq(S), NEW m \in 0..Len(q)
  PROVE  /\ SubSeq(q, 1, m) \in Seq(S) /\ Len(SubSeq(q, 1, m)) = m
         /\ \A i \in 1..m : SubSeq(q, 1, m)[i] = q[i]
         /\ \A i \in 0..m : SubSeq(SubSeq(q, 1, m), 1, i) = SubSeq(q, 1, i)
<1>1. Len(q) \in Nat /\ \A i \in 1..Len(q) : q[i] \in S
  BY LenProperties, ElementOfSeq
<1>2. ASSUME NEW r, NEW i \in Nat, \A j \in 1..i : r[j] \in S
      PROVE  /\ SubSeq(r, 1, i) \in Seq(S) /\ Len(SubSeq(r, 1, i)) = i
             /\ \A j \in 1..i : SubSeq(r, 1, i)[j] = r[j]
  <2>1. /\ SubSeq(r, 1, i) \in Seq(S)
        /\ Len(SubSeq(r, 1, i)) = IF 1 <= i THEN i - 1 + 1 ELSE 0
        /\ \A j \in 1..(i - 1 + 1) : SubSeq(r, 1, i)[j] = r[1 + j - 1]
    BY <1>2, SubSeqProperties
  <2> QED BY <2>1
<1>3. /\ SubSeq(q, 1, m) \in Seq(S) /\ Len(SubSeq(q, 1, m)) = m
      /\ \A i \in 1..m : SubSeq(q, 1, m)[i] = q[i]
  BY <1>1, <1>2
<1>4. ASSUME NEW i \in 0..m
      PROVE  SubSeq(SubSeq(q, 1, m), 1, i) = SubSeq(q, 1, i)
  <2> DEFINE r == SubSeq(q, 1, m)
  <2>1. \A j \in 1..i : r[j] = q[j] /\ q[j] \in S
    BY <1>1, <1>3
  <2> HIDE DEF r
  <2>2. /\ SubSeq(r, 1, i) \in Seq(S) /\ Len(SubSeq(r, 1, i)) = i
        /\ \A j \in 1..i : SubSeq(r, 1, i)[j] = r[j]
        /\ SubSeq(q, 1, i) \in Seq(S) /\ Len(SubSeq(q, 1, i)) = i
        /\ \A j \in 1..i : SubSeq(q, 1, i)[j] = q[j]
    BY <1>2, <2>1
  <2>3. SubSeq(r, 1, i) = SubSeq(q, 1, i)
    BY <2>1, <2>2, SeqEqual
  <2> QED BY <2>3 DEF r
<1> QED BY <1>3, <1>4

\* Even and odd places.
LEMMA EvenOdd ==
  ASSUME NEW m \in Nat
  PROVE  /\ m \div 2 \in Nat
         /\ m % 2 = 0 => (m + 1) % 2 = 1 /\ (m + 1) \div 2 = m \div 2
         /\ m % 2 # 0 => (m + 1) % 2 = 0 /\ (m + 1) \div 2 = m \div 2 + 1 /\ 2 * (m \div 2 + 1) = m + 1
<1>1. m \div 2 \in Nat
  OBVIOUS
<1>2. m % 2 = 0 => (m + 1) % 2 = 1 /\ (m + 1) \div 2 = m \div 2
  OBVIOUS
<1>3. m % 2 # 0 => (m + 1) % 2 = 0 /\ (m + 1) \div 2 = m \div 2 + 1 /\ 2 * (m \div 2 + 1) = m + 1
  OBVIOUS
<1> QED BY <1>1, <1>2, <1>3
=============================================================================
