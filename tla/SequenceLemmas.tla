--------------------------- MODULE SequenceLemmas ---------------------------
(***************************************************************************)
(* What the community modules' InsertAt and RemoveAt do to the elements of *)
(* a list: rules are lists of conditions, and sites have lists of rules;   *)
(* which of these edits commute.                                           *)
(* And induction and recursion over numbers, for what a loop does that     *)
(* goes through a list.                                                    *)
(***************************************************************************)
EXTENDS SequencesExt, SequenceTheorems, WellFoundedInduction, TLAPS

\* The element comes to its place, and those from there on move up.
LEMMA InsertedAt ==
  ASSUME NEW S, NEW s \in Seq(S), NEW e \in S, NEW i \in 1..Len(s) + 1
  PROVE  /\ InsertAt(s, i, e) \in Seq(S)
         /\ Len(InsertAt(s, i, e)) = Len(s) + 1
         /\ \A j \in 1..Len(s) + 1 :
              InsertAt(s, i, e)[j] = IF j < i THEN s[j] ELSE IF j = i THEN e ELSE s[j - 1]
<1> DEFINE a == SubSeq(s, 1, i - 1)
           b == SubSeq(s, i, Len(s))
           c == a \o <<e>>
<1>1. a \in Seq(S) /\ Len(a) = i - 1 /\ \A j \in 1..i - 1 : a[j] = s[j]
  BY SubSeqProperties
<1>2. b \in Seq(S) /\ Len(b) = Len(s) - i + 1 /\ \A j \in 1..Len(s) - i + 1 : b[j] = s[i + j - 1]
  BY SubSeqProperties
<1>3. InsertAt(s, i, e) = c \o b
  BY DEF InsertAt
<1> HIDE DEF a, b
<1>4. c \in Seq(S) /\ Len(c) = i /\ \A j \in 1..i : c[j] = IF j < i THEN s[j] ELSE e
  <2>1. <<e>> \in Seq(S) /\ Len(<<e>>) = 1 /\ <<e>>[1] = e
    OBVIOUS
  <2> QED  BY <1>1, <2>1, ConcatProperties
<1> HIDE DEF c
<1>5. /\ c \o b \in Seq(S) /\ Len(c \o b) = Len(s) + 1
      /\ \A j \in 1..Len(s) + 1 : (c \o b)[j] = IF j <= i THEN c[j] ELSE b[j - i]
  BY <1>2, <1>4, ConcatProperties
<1>6. ASSUME NEW j \in 1..Len(s) + 1
      PROVE  InsertAt(s, i, e)[j] = IF j < i THEN s[j] ELSE IF j = i THEN e ELSE s[j - 1]
  <2>1. CASE j <= i
    BY <2>1, <1>3, <1>4, <1>5
  <2>2. CASE j > i
    <3>1. b[j - i] = s[j - 1]
      BY <2>2, <1>2
    <3> QED  BY <2>2, <3>1, <1>3, <1>5
  <2> QED  BY <2>1, <2>2
<1> QED  BY <1>3, <1>5, <1>6

\* The element goes, and those behind it move down.
LEMMA RemovedAt ==
  ASSUME NEW S, NEW s \in Seq(S), NEW i \in 1..Len(s)
  PROVE  /\ RemoveAt(s, i) \in Seq(S)
         /\ Len(RemoveAt(s, i)) = Len(s) - 1
         /\ \A j \in 1..Len(s) - 1 : RemoveAt(s, i)[j] = IF j < i THEN s[j] ELSE s[j + 1]
<1> DEFINE a == SubSeq(s, 1, i - 1)
           b == SubSeq(s, i + 1, Len(s))
<1>1. a \in Seq(S) /\ Len(a) = i - 1 /\ \A j \in 1..i - 1 : a[j] = s[j]
  BY SubSeqProperties
<1>2. b \in Seq(S) /\ Len(b) = Len(s) - i /\ \A j \in 1..Len(s) - i : b[j] = s[i + j]
  BY SubSeqProperties
<1>3. RemoveAt(s, i) = a \o b
  BY DEF RemoveAt
<1> HIDE DEF a, b
<1>4. /\ a \o b \in Seq(S) /\ Len(a \o b) = Len(s) - 1
      /\ \A j \in 1..Len(s) - 1 : (a \o b)[j] = IF j <= i - 1 THEN a[j] ELSE b[j - (i - 1)]
  <2>1. Len(a) + Len(b) = Len(s) - 1
    BY <1>1, <1>2
  <2>2. /\ a \o b \in Seq(S) /\ Len(a \o b) = Len(a) + Len(b)
        /\ \A j \in 1..Len(a) + Len(b) :
             (a \o b)[j] = IF j <= Len(a) THEN a[j] ELSE b[j - Len(a)]
    BY <1>1, <1>2, ConcatProperties
  <2> QED  BY <1>1, <2>1, <2>2
<1>5. ASSUME NEW j \in 1..Len(s) - 1
      PROVE  RemoveAt(s, i)[j] = IF j < i THEN s[j] ELSE s[j + 1]
  <2>1. CASE j < i
    BY <2>1, <1>1, <1>3, <1>4
  <2>2. CASE j >= i
    <3>1. b[j - (i - 1)] = s[j + 1]
      BY <2>2, <1>2
    <3> QED  BY <2>2, <3>1, <1>3, <1>4
  <2> QED  BY <2>1, <2>2
<1> QED  BY <1>3, <1>4, <1>5
-----------------------------------------------------------------------------
(* Loops *)

\* What holds of 0 and passes from each number below m to the next holds up to m.
LEMMA Counting ==
  ASSUME NEW m \in Nat, NEW S, 0 \in S, \A n \in 0..m - 1 : n \in S => n + 1 \in S
  PROVE  0..m \subseteq S
<1> DEFINE T == (0..m) \ S
<1>1. SUFFICES ASSUME T # {} PROVE FALSE
  OBVIOUS
<1> DEFINE R == {ss \in Nat \X Nat : ss[1] < ss[2]}
<1>2. PICK n \in T : \A k \in T : ~(<<k, n>> \in R)
  <2>1. T \subseteq Nat
    OBVIOUS
  <2>2. IsWellFoundedOn(R, Nat)
    BY NatLessThanWellFounded DEF OpToRel
  <2> HIDE DEF T, R
  <2> QED  BY <1>1, <2>1, <2>2, WFMin
<1>3. ASSUME NEW k \in T PROVE ~(k < n)
  <2>1. k \in Nat /\ n \in Nat
    OBVIOUS
  <2>2. <<k, n>> \notin R
    BY <1>2
  <2> QED  BY <2>1, <2>2
<1>4. n \in 0..m /\ n # 0 /\ n - 1 \notin T
  BY <1>3
<1> QED  BY <1>4

\* The function f is computed from base by a step for each number below m.
Computes(f, m, X, base, step) ==
  /\ f \in [0..m -> X] /\ f[0] = base
  /\ \A n \in 0..m - 1 : f[n + 1] = step[n][f[n]]

\* There is a function for every recursion.
LEMMA Recursion ==
  ASSUME NEW m \in Nat, NEW X, NEW base \in X, NEW step \in [0..m - 1 -> [X -> X]]
  PROVE  \E f : Computes(f, m, X, base, step)
<1> DEFINE Runs(n, f) == /\ f \in [0..n -> X] /\ f[0] = base
                         /\ \A k \in 0..n - 1 : f[k + 1] = step[k][f[k]]
           S == {n \in 0..m : \E f : Runs(n, f)}
<1>1. 0 \in S
  <2> DEFINE g == [k \in 0..0 |-> base]
  <2>1. g \in [0..0 -> X] /\ g[0] = base
    OBVIOUS
  <2> HIDE DEF g
  <2>2. Runs(0, g)
    BY <2>1
  <2> QED  BY <2>2
<1>2. ASSUME NEW n \in 0..m - 1, n \in S PROVE n + 1 \in S
  <2>1. PICK f : Runs(n, f)
    BY <1>2
  <2> DEFINE g == [k \in 0..n + 1 |-> IF k = n + 1 THEN step[n][f[n]] ELSE f[k]]
  <2>2. step[n] \in [X -> X] /\ f[n] \in X
    BY <2>1
  <2>3. g \in [0..n + 1 -> X]
    <3>1. step[n][f[n]] \in X
      BY <2>2
    <3> QED  BY <2>1, <3>1
  <2>4. g[0] = base /\ \A k \in 0..n : g[k + 1] = step[k][g[k]]
    BY <2>1
  <2> HIDE DEF g
  <2>5. Runs(n + 1, g)
    BY <2>3, <2>4
  <2> QED  BY <2>5
<1>3. m \in S
  <2> HIDE DEF S
  <2>1. 0..m \subseteq S
    BY <1>1, <1>2, Counting
  <2> QED  BY <2>1
<1> QED  BY <1>3 DEF Computes

-----------------------------------------------------------------------------
(* Two edits of a list *)

\* Append, element by element.
LEMMA Appended ==
  ASSUME NEW S, NEW s \in Seq(S), NEW e \in S
  PROVE  /\ Append(s, e) \in Seq(S)
         /\ Len(Append(s, e)) = Len(s) + 1
         /\ \A j \in 1..Len(s) + 1 : Append(s, e)[j] = IF j = Len(s) + 1 THEN e ELSE s[j]
BY AppendProperties

\* The list r is s, of length n, without its i-th element, or with e before it.
Without(r, s, n, i, S) ==
  /\ r \in Seq(S) /\ Len(r) = n - 1
  /\ \A j \in 1..n - 1 : r[j] = IF j < i THEN s[j] ELSE s[j + 1]

With(r, s, n, i, e, S) ==
  /\ r \in Seq(S) /\ Len(r) = n + 1
  /\ \A j \in 1..n + 1 : r[j] = IF j < i THEN s[j] ELSE IF j = i THEN e ELSE s[j - 1]

\* RemoveAt gives the list without its element.
LEMMA RemovedFrom ==
  ASSUME NEW S, NEW s \in Seq(S), NEW n, n = Len(s), NEW i \in 1..n
  PROVE  Without(RemoveAt(s, i), s, n, i, S)
<1>1. ASSUME NEW t \in Seq(S), NEW k \in 1..Len(t)
      PROVE  Without(RemoveAt(t, k), t, Len(t), k, S)
  BY RemovedAt DEF Without
<1> QED  BY <1>1

\* InsertAt gives the list with the new element.
LEMMA InsertedInto ==
  ASSUME NEW S, NEW s \in Seq(S), NEW e \in S, NEW n, n = Len(s), NEW i \in 1..n + 1
  PROVE  With(InsertAt(s, i, e), s, n, i, e, S)
<1>1. ASSUME NEW t \in Seq(S), NEW k \in 1..Len(t) + 1
      PROVE  With(InsertAt(t, k, e), t, Len(t), k, e, S)
  BY InsertedAt DEF With
<1> QED  BY <1>1

\* An append and a removal further up commute.
LEMMA RemovedBefore ==
  ASSUME NEW S, NEW s \in Seq(S), NEW e \in S, NEW i \in 1..Len(s)
  PROVE  RemoveAt(Append(s, e), i) = Append(RemoveAt(s, i), e)
<1> DEFINE n == Len(s)
           r == RemoveAt(s, i)
<1>1. n \in Nat /\ i \in 1..n
  OBVIOUS
<1>2. r \in Seq(S) /\ Len(r) = n - 1 /\ \A j \in 1..n - 1 : r[j] = IF j < i THEN s[j] ELSE s[j + 1]
  BY RemovedAt
<1>3. RemoveAt(Append(s, e), i) = Append(r, e)
  <2> DEFINE a == Append(s, e)
             b == Append(r, e)
             c == RemoveAt(a, i)
  <2>1. a \in Seq(S) /\ Len(a) = n + 1 /\ \A j \in 1..n + 1 : a[j] = IF j = n + 1 THEN e ELSE s[j]
    BY Appended
  <2>2. b \in Seq(S) /\ Len(b) = n /\ \A j \in 1..n : b[j] = IF j = n THEN e ELSE r[j]
    <3> HIDE DEF r
    <3> QED  BY <1>2, Appended
  <2> HIDE DEF a, b, n, r
  <2>3. c \in Seq(S) /\ Len(c) = n /\ \A j \in 1..n : c[j] = IF j < i THEN a[j] ELSE a[j + 1]
    <3>1. i \in 1..Len(a) /\ Len(a) - 1 = n
      BY <1>1, <2>1
    <3>2. c \in Seq(S) /\ Len(c) = Len(a) - 1
          /\ \A j \in 1..Len(a) - 1 : c[j] = IF j < i THEN a[j] ELSE a[j + 1]
      BY <2>1, <3>1, RemovedAt
    <3> HIDE DEF c
    <3> QED  BY <3>1, <3>2
  <2> HIDE DEF c
  <2>4. \A j \in 1..n : c[j] = b[j]
    <3> SUFFICES ASSUME NEW j \in 1..n PROVE c[j] = b[j]
      OBVIOUS
    <3>1. j \in 1..n + 1 /\ j + 1 \in 1..n + 1 /\ (j # n => j \in 1..n - 1)
      BY <1>1
    <3>2. c[j] = IF j < i THEN s[j] ELSE IF j + 1 = n + 1 THEN e ELSE s[j + 1]
      BY <1>1, <2>1, <2>3, <3>1
    <3>3. b[j] = IF j = n THEN e ELSE IF j < i THEN s[j] ELSE s[j + 1]
      BY <1>2, <2>2, <3>1
    <3> QED  BY <1>1, <3>2, <3>3
  <2>5. c = b
    BY <2>2, <2>3, <2>4, SeqEqual
  <2> QED  BY <2>5 DEF a, b, c
<1> QED  BY <1>3

\* So do a change of the last element and a removal further up.
LEMMA RemovedBelow ==
  ASSUME NEW S, NEW s \in Seq(S), NEW e \in S,
         NEW n, n = Len(s), NEW i \in 1..n - 1
  PROVE  RemoveAt([s EXCEPT ![n] = e], i) = [RemoveAt(s, i) EXCEPT ![n - 1] = e]
<1> DEFINE r == RemoveAt(s, i)
           a == [s EXCEPT ![n] = e]
           b == [r EXCEPT ![n - 1] = e]
           c == RemoveAt(a, i)
<1>1. n \in Nat /\ n \in 1..n /\ i \in 1..n /\ n - 1 \in 1..n - 1 /\ n \in 1..Len(s)
  OBVIOUS
<1>2. r \in Seq(S) /\ Len(r) = n - 1 /\ \A j \in 1..n - 1 : r[j] = IF j < i THEN s[j] ELSE s[j + 1]
  <2>1. Without(r, s, n, i, S)
    BY <1>1, RemovedFrom
  <2> QED  BY <2>1 DEF Without
<1>3. a \in Seq(S) /\ Len(a) = n /\ \A j \in 1..n : a[j] = IF j = n THEN e ELSE s[j]
  BY <1>1, ExceptSeq
<1> HIDE DEF r, a
<1>4. b \in Seq(S) /\ Len(b) = n - 1 /\ \A j \in 1..n - 1 : b[j] = IF j = n - 1 THEN e ELSE r[j]
  <2>1. n - 1 \in 1..Len(r)
    BY <1>1, <1>2
  <2> QED  BY <1>2, <2>1, ExceptSeq
<1>5. c \in Seq(S) /\ Len(c) = n - 1 /\ \A j \in 1..n - 1 : c[j] = IF j < i THEN a[j] ELSE a[j + 1]
  <2>1. Without(c, a, n, i, S)
    BY <1>1, <1>3, RemovedFrom
  <2> QED  BY <2>1 DEF Without
<1> HIDE DEF b, c
<1>6. ASSUME NEW j \in 1..n - 1 PROVE c[j] = b[j]
  <2>1. j \in 1..n /\ j + 1 \in 1..n /\ j # n
    OBVIOUS
  <2>2. c[j] = IF j < i THEN s[j] ELSE IF j + 1 = n THEN e ELSE s[j + 1]
    BY <1>3, <1>5, <2>1
  <2>3. b[j] = IF j + 1 = n THEN e ELSE IF j < i THEN s[j] ELSE s[j + 1]
    BY <1>2, <1>4
  <2>4. j + 1 = n => ~(j < i)
    OBVIOUS
  <2> QED  BY <2>2, <2>3, <2>4
<1>7. c = b
  BY <1>4, <1>5, <1>6, SeqEqual
<1> QED  BY <1>7 DEF a, b, c, r

\* A removal takes an append back.
LEMMA RemovedLast ==
  ASSUME NEW S, NEW s \in Seq(S), NEW e \in S
  PROVE  RemoveAt(Append(s, e), Len(s) + 1) = s
<1> DEFINE n == Len(s)
           a == Append(s, e)
           c == RemoveAt(a, n + 1)
<1>1. a \in Seq(S) /\ Len(a) = n + 1 /\ (\A j \in 1..n + 1 : a[j] = IF j = n + 1 THEN e ELSE s[j])
      /\ n \in Nat
  BY Appended
<1> HIDE DEF a, n
<1>2. c \in Seq(S) /\ Len(c) = n /\ \A j \in 1..n : c[j] = IF j < n + 1 THEN a[j] ELSE a[j + 1]
  <2>1. n + 1 \in 1..Len(a) /\ Len(a) - 1 = n
    BY <1>1
  <2>2. c \in Seq(S) /\ Len(c) = Len(a) - 1
        /\ \A j \in 1..Len(a) - 1 : c[j] = IF j < n + 1 THEN a[j] ELSE a[j + 1]
    BY <1>1, <2>1, RemovedAt
  <2> HIDE DEF c
  <2> QED  BY <2>1, <2>2
<1> HIDE DEF c
<1>3. \A j \in 1..n : c[j] = s[j]
  BY <1>1, <1>2
<1>4. c = s
  BY <1>2, <1>3, SeqEqual DEF n
<1> QED  BY <1>4 DEF a, c, n

\* An append and an insertion further up commute.
LEMMA InsertedBefore ==
  ASSUME NEW S, NEW s \in Seq(S), NEW e \in S, NEW x \in S, NEW i \in 1..Len(s)
  PROVE  InsertAt(Append(s, e), i + 1, x) = Append(InsertAt(s, i + 1, x), e)
<1> DEFINE n == Len(s)
           r == InsertAt(s, i + 1, x)
           k == i + 1
<1>1. n \in Nat /\ i \in 1..n /\ k \in 1..n + 1 /\ k = i + 1
  OBVIOUS
<1>2. r \in Seq(S) /\ Len(r) = n + 1
      /\ \A j \in 1..n + 1 : r[j] = IF j < k THEN s[j] ELSE IF j = k THEN x ELSE s[j - 1]
  BY <1>1, InsertedAt
<1>3. InsertAt(Append(s, e), k, x) = Append(r, e)
  <2> DEFINE a == Append(s, e)
             b == Append(r, e)
             c == InsertAt(a, k, x)
  <2>1. a \in Seq(S) /\ Len(a) = n + 1 /\ \A j \in 1..n + 1 : a[j] = IF j = n + 1 THEN e ELSE s[j]
    BY Appended
  <2>2. b \in Seq(S) /\ Len(b) = n + 2 /\ \A j \in 1..n + 2 : b[j] = IF j = n + 2 THEN e ELSE r[j]
    <3> HIDE DEF r, n
    <3>1. Len(r) + 1 = n + 2
      BY <1>1, <1>2
    <3> QED  BY <1>2, <3>1, Appended
  <2> HIDE DEF a, b, n, r
  <2>3. c \in Seq(S) /\ Len(c) = n + 2
        /\ \A j \in 1..n + 2 : c[j] = IF j < k THEN a[j] ELSE IF j = k THEN x ELSE a[j - 1]
    <3>1. k \in 1..Len(a) + 1 /\ Len(a) + 1 = n + 2
      BY <1>1, <2>1
    <3>2. With(c, a, Len(a), k, x, S)
      BY <2>1, <3>1, InsertedInto
    <3>3. c \in Seq(S) /\ Len(c) = Len(a) + 1
          /\ \A j \in 1..Len(a) + 1 : c[j] = IF j < k THEN a[j] ELSE IF j = k THEN x ELSE a[j - 1]
      BY <3>2 DEF With
    <3> HIDE DEF c
    <3> QED  BY <3>1, <3>3
  <2> HIDE DEF c, k
  <2>4. \A j \in 1..n + 2 : c[j] = b[j]
    <3> SUFFICES ASSUME NEW j \in 1..n + 2 PROVE c[j] = b[j]
      OBVIOUS
    <3>1. (j # n + 2 => j \in 1..n + 1) /\ (j # 1 => j - 1 \in 1..n + 1)
      BY <1>1
    <3>2. c[j] = IF j < k THEN s[j] ELSE IF j = k THEN x ELSE IF j - 1 = n + 1 THEN e ELSE s[j - 1]
      BY <1>1, <2>1, <2>3, <3>1
    <3>3. b[j] = IF j = n + 2 THEN e ELSE IF j < k THEN s[j] ELSE IF j = k THEN x ELSE s[j - 1]
      BY <1>2, <2>2, <3>1
    <3> QED  BY <1>1, <3>2, <3>3
  <2>5. c = b
    BY <2>2, <2>3, <2>4, SeqEqual
  <2> QED  BY <2>5 DEF a, b, c
<1> QED  BY <1>3

\* So do a change of the last element and an insertion further up.
LEMMA InsertedBelow ==
  ASSUME NEW S, NEW s \in Seq(S), NEW e \in S, NEW x \in S,
         NEW n, n = Len(s), NEW k \in 1..n
  PROVE  InsertAt([s EXCEPT ![n] = e], k, x) = [InsertAt(s, k, x) EXCEPT ![n + 1] = e]
<1> DEFINE r == InsertAt(s, k, x)
           a == [s EXCEPT ![n] = e]
           b == [r EXCEPT ![n + 1] = e]
           c == InsertAt(a, k, x)
<1>1. n \in Nat /\ n \in 1..Len(s) /\ k \in 1..n + 1 /\ k \in 1..n /\ n + 1 \in 1..n + 1
  OBVIOUS
<1>2. r \in Seq(S) /\ Len(r) = n + 1
      /\ \A j \in 1..n + 1 : r[j] = IF j < k THEN s[j] ELSE IF j = k THEN x ELSE s[j - 1]
  <2>1. With(r, s, n, k, x, S)
    BY <1>1, InsertedInto
  <2> QED  BY <2>1 DEF With
<1>3. a \in Seq(S) /\ Len(a) = n /\ \A j \in 1..n : a[j] = IF j = n THEN e ELSE s[j]
  BY <1>1, ExceptSeq
<1> HIDE DEF r, a
<1>4. b \in Seq(S) /\ Len(b) = n + 1 /\ \A j \in 1..n + 1 : b[j] = IF j = n + 1 THEN e ELSE r[j]
  <2>1. n + 1 \in 1..Len(r)
    BY <1>1, <1>2
  <2> QED  BY <1>2, <2>1, ExceptSeq
<1>5. c \in Seq(S) /\ Len(c) = n + 1
      /\ \A j \in 1..n + 1 : c[j] = IF j < k THEN a[j] ELSE IF j = k THEN x ELSE a[j - 1]
  <2>1. With(c, a, n, k, x, S)
    BY <1>1, <1>3, InsertedInto
  <2> QED  BY <2>1 DEF With
<1> HIDE DEF b, c
<1>6. ASSUME NEW j \in 1..n + 1 PROVE c[j] = b[j]
  <2>1. (j # n + 1 => j \in 1..n) /\ (j # 1 => j - 1 \in 1..n) /\ k \in Nat
        /\ (j < k => j \in 1..n /\ j # n) /\ (~(j < k) /\ j # k => j - 1 \in 1..n)
        /\ (j = n + 1 => ~(j < k) /\ j # k) /\ (j - 1 = n <=> j = n + 1)
    BY <1>1
  <2>2. c[j] = IF j < k THEN s[j] ELSE IF j = k THEN x ELSE IF j = n + 1 THEN e ELSE s[j - 1]
    BY <1>3, <1>5, <2>1
  <2>3. b[j] = IF j = n + 1 THEN e ELSE IF j < k THEN s[j] ELSE IF j = k THEN x ELSE s[j - 1]
    BY <1>2, <1>4
  <2> QED  BY <2>1, <2>2, <2>3
<1>7. c = b
  BY <1>4, <1>5, <1>6, SeqEqual
<1> QED  BY <1>7 DEF a, b, c, r

\* An insertion behind the last element is an append.
LEMMA InsertedLast ==
  ASSUME NEW S, NEW s \in Seq(S), NEW x \in S
  PROVE  InsertAt(s, Len(s) + 1, x) = Append(s, x)
<1> DEFINE n == Len(s)
           a == Append(s, x)
           c == InsertAt(s, n + 1, x)
<1>1. a \in Seq(S) /\ Len(a) = n + 1 /\ (\A j \in 1..n + 1 : a[j] = IF j = n + 1 THEN x ELSE s[j])
      /\ n \in Nat
  BY Appended
<1>2. c \in Seq(S) /\ Len(c) = n + 1
      /\ \A j \in 1..n + 1 : c[j] = IF j < n + 1 THEN s[j] ELSE IF j = n + 1 THEN x ELSE s[j - 1]
  <2>1. n + 1 \in 1..Len(s) + 1
    BY <1>1
  <2> QED  BY <2>1, InsertedAt
<1> HIDE DEF a, c, n
<1>3. \A j \in 1..n + 1 : c[j] = a[j]
  BY <1>1, <1>2
<1>4. c = a
  BY <1>1, <1>2, <1>3, SeqEqual
<1> QED  BY <1>4 DEF a, c, n

\* An append and a change further up commute.
LEMMA ReplacedBefore ==
  ASSUME NEW S, NEW s \in Seq(S), NEW e \in S, NEW x \in S, NEW i \in 1..Len(s)
  PROVE  [Append(s, e) EXCEPT ![i] = x] = Append([s EXCEPT ![i] = x], e)
<1> DEFINE n == Len(s)
           r == [s EXCEPT ![i] = x]
<1>1. n \in Nat /\ i \in 1..n
  OBVIOUS
<1>2. r \in Seq(S) /\ Len(r) = n /\ \A j \in 1..n : r[j] = IF j = i THEN x ELSE s[j]
  BY ExceptSeq
<1>3. [Append(s, e) EXCEPT ![i] = x] = Append(r, e)
  <2> DEFINE a == Append(s, e)
             b == Append(r, e)
             c == [a EXCEPT ![i] = x]
  <2>1. a \in Seq(S) /\ Len(a) = n + 1 /\ \A j \in 1..n + 1 : a[j] = IF j = n + 1 THEN e ELSE s[j]
    BY Appended
  <2>2. b \in Seq(S) /\ Len(b) = n + 1 /\ \A j \in 1..n + 1 : b[j] = IF j = n + 1 THEN e ELSE r[j]
    <3> HIDE DEF r
    <3> QED  BY <1>2, Appended
  <2> HIDE DEF a, b, n, r
  <2>3. c \in Seq(S) /\ Len(c) = n + 1 /\ \A j \in 1..n + 1 : c[j] = IF j = i THEN x ELSE a[j]
    <3>1. i \in 1..Len(a)
      BY <1>1, <2>1
    <3> QED  BY <2>1, <3>1, ExceptSeq
  <2> HIDE DEF c
  <2>4. \A j \in 1..n + 1 : c[j] = b[j]
    BY <1>1, <1>2, <2>1, <2>2, <2>3
  <2>5. c = b
    BY <2>2, <2>3, <2>4, SeqEqual
  <2> QED  BY <2>5 DEF a, b, c
<1> QED  BY <1>3

\* So do a change of the last element and one further up.
LEMMA ReplacedBelow ==
  ASSUME NEW S, NEW s \in Seq(S), NEW e \in S, NEW x \in S,
         NEW n, n = Len(s), NEW i \in 1..n - 1
  PROVE  [[s EXCEPT ![n] = e] EXCEPT ![i] = x] = [[s EXCEPT ![i] = x] EXCEPT ![n] = e]
<1>1. DOMAIN s = 1..n /\ i # n /\ i \in 1..n /\ n \in 1..n
  OBVIOUS
<1> QED  BY <1>1

\* Of two changes of an element the second stays.
LEMMA ReplacedTwice ==
  ASSUME NEW S, NEW s \in Seq(S), NEW e, NEW x, NEW i \in 1..Len(s)
  PROVE  [[s EXCEPT ![i] = e] EXCEPT ![i] = x] = [s EXCEPT ![i] = x]
OBVIOUS

\* Taking the last element off and appending another changes it.
LEMMA LastReplaced ==
  ASSUME NEW S, NEW s \in Seq(S), NEW e \in S, s # <<>>
  PROVE  Append(RemoveAt(s, Len(s)), e) = [s EXCEPT ![Len(s)] = e]
<1> DEFINE n == Len(s)
           r == RemoveAt(s, n)
           a == Append(r, e)
           c == [s EXCEPT ![n] = e]
<1>1. n \in Nat /\ n \in 1..n /\ n > 0
  OBVIOUS
<1>2. r \in Seq(S) /\ Len(r) = n - 1 /\ \A j \in 1..n - 1 : r[j] = IF j < n THEN s[j] ELSE s[j + 1]
  BY <1>1, RemovedAt
<1>3. c \in Seq(S) /\ Len(c) = n /\ \A j \in 1..n : c[j] = IF j = n THEN e ELSE s[j]
  BY <1>1, ExceptSeq
<1> HIDE DEF r, c, n
<1>4. a \in Seq(S) /\ Len(a) = n /\ \A j \in 1..n : a[j] = IF j = n THEN e ELSE r[j]
  BY <1>1, <1>2, Appended
<1> HIDE DEF a
<1>5. \A j \in 1..n : a[j] = c[j]
  BY <1>1, <1>2, <1>3, <1>4
<1>6. a = c
  BY <1>3, <1>4, <1>5, SeqEqual
<1> QED  BY <1>6 DEF a, c, r, n
=============================================================================
