---------------------------- MODULE SequenceLemmas -----------------------------
(***************************************************************************)
(* What the proofs need to know of recursive functions, and of FlattenSeq, *)
(* which concatenates the sequences of a sequence.                         *)
(***************************************************************************)
EXTENDS SequencesExt, SequenceTheorems, WellFoundedInduction, TLAPS

(* Induction over the natural numbers, for a set of them.                    *)
LEMMA NatLeast ==
  ASSUME NEW T, T \subseteq Nat, T # {}
  PROVE  \E n \in T : \A m \in T : n <= m
<1> DEFINE R == OpToRel(<, Nat)
<1>1. IsWellFoundedOn(R, Nat)
  BY NatLessThanWellFounded
<1>2. PICK n \in T : \A m \in T : ~(<<m, n>> \in R)
  <2> HIDE DEF R
  <2> QED
    BY <1>1, WFMin
<1>3. \A m \in T : ~(m < n)
  BY <1>2 DEF OpToRel
<1>4. \A m \in T : m \in Int
  OBVIOUS
<1>5. n \in Int /\ \A m \in T : n <= m
  BY <1>3, <1>4
<1> QED
  BY <1>5

LEMMA SetInduction ==
  ASSUME NEW T, 0 \in T, \A n \in Nat : n \in T => n + 1 \in T
  PROVE  \A n \in Nat : n \in T
<1> SUFFICES ASSUME Nat \ T # {} PROVE FALSE
  OBVIOUS
<1>1. PICK n \in Nat \ T : \A m \in Nat \ T : n <= m
  BY NatLeast
<1>2. n # 0 /\ n \in Nat
  BY <1>1
<1>3. n - 1 \in Nat /\ n - 1 \in T
  BY <1>1, <1>2
<1>4. (n - 1) + 1 \in T
  BY <1>3
<1> QED
  BY <1>1, <1>2, <1>4

\* A function may be defined by what it is at 0 and how it goes on from n - 1.
Steps(S, len) == [1 .. len -> [S -> S]]

Recurs(c, S, base, len, step) ==
  /\ c \in [0 .. len -> S]
  /\ \A i \in 0 .. len : c[i] = IF i = 0 THEN base ELSE step[i][c[i - 1]]

LEMMA RecursiveFunction ==
  ASSUME NEW S, NEW base \in S, NEW len \in Nat, NEW step \in Steps(S, len)
  PROVE  \E c : Recurs(c, S, base, len, step)
<1> USE DEF Steps, Recurs
<1> DEFINE Upto(n) == \E c \in [0 .. n -> S] :
                        \A i \in 0 .. n : c[i] = IF i = 0 THEN base ELSE step[i][c[i - 1]]
           T == {n \in Nat : n <= len => Upto(n)}
<1>1. 0 \in T
  <2> DEFINE c == [i \in 0 .. 0 |-> base]
  <2>1. c \in [0 .. 0 -> S] /\ \A i \in 0 .. 0 : i = 0 /\ c[i] = base
    OBVIOUS
  <2>2. Upto(0)
    BY <2>1
  <2> QED
    BY <2>2
<1>2. ASSUME NEW n \in Nat, n \in T
      PROVE  n + 1 \in T
  <2> SUFFICES ASSUME n + 1 <= len PROVE Upto(n + 1)
    OBVIOUS
  <2>1. PICK c \in [0 .. n -> S] :
          \A i \in 0 .. n : c[i] = IF i = 0 THEN base ELSE step[i][c[i - 1]]
    BY <1>2
  <2> DEFINE d == [i \in 0 .. n + 1 |-> IF i = n + 1 THEN step[n + 1][c[n]] ELSE c[i]]
  <2>2. n \in 0 .. n /\ n + 1 \in 1 .. len /\ n + 1 \in 0 .. n + 1 /\ n + 1 # 0 /\ (n + 1) - 1 = n
        /\ n # n + 1 /\ n \in 0 .. n + 1
    OBVIOUS
  <2>3. step[n + 1][c[n]] \in S
    BY <2>1, <2>2
  <2>4. \A i \in 0 .. n + 1 : i = n + 1 \/ (i \in 0 .. n /\ i # n + 1)
    OBVIOUS
  <2>5. d \in [0 .. n + 1 -> S]
    BY <2>1, <2>3, <2>4
  <2>6. ASSUME NEW i \in 0 .. n + 1
        PROVE  d[i] = IF i = 0 THEN base ELSE step[i][d[i - 1]]
    <3>1. CASE i = n + 1
      <4>1. d[i] = step[n + 1][c[n]] /\ d[i - 1] = c[n]
        BY <2>2, <3>1
      <4> QED
        BY <2>2, <3>1, <4>1
    <3>2. CASE i \in 0 .. n /\ i # n + 1
      <4>1. d[i] = c[i]
        BY <3>2
      <4>2. i # 0 => i - 1 \in 0 .. n + 1 /\ i - 1 # n + 1
        BY <3>2
      <4>3. i # 0 => d[i - 1] = c[i - 1]
        BY <4>2
      <4> QED
        BY <2>1, <3>2, <4>1, <4>3
    <3> QED
      BY <2>4, <3>1, <3>2
  <2> HIDE DEF d
  <2> QED
    BY <2>5, <2>6
<1> HIDE DEF T
<1>3. len \in T
  BY <1>1, <1>2, SetInduction
<1> QED
  BY <1>3 DEF T

-----------------------------------------------------------------------------
(* FlattenSeq by its recursive function.  Flat[i] are the first i sequences. *)
IsFlat(F, seqs) ==
  /\ F[0] = <<>>
  /\ \A i \in 1 .. Len(seqs) : F[i] = F[i - 1] \o seqs[i]

LEMMA FlattenDef ==
  ASSUME NEW S, NEW seqs \in Seq(Seq(S))
  PROVE  \E F \in [0 .. Len(seqs) -> Seq(S)] :
           IsFlat(F, seqs) /\ FlattenSeq(seqs) = F[Len(seqs)]
<1> DEFINE Q == Seq(S)
           n == Len(seqs)
           step == [i \in 1 .. n |-> [x \in Q |-> x \o seqs[i]]]
           P == CHOOSE g : g = [i \in 1 .. n |-> IF i = 1 THEN seqs[i] ELSE g[i - 1] \o seqs[i]]
<1>1. n \in Nat /\ \A i \in 1 .. n : seqs[i] \in Q
  BY ElementOfSeq
<1>2. <<>> \in Q /\ \A x, y \in Q : x \o y \in Q
  BY ConcatProperties
<1>3. \A x \in Q : <<>> \o x = x
  BY ConcatEmptySeq
<1>4. FlattenSeq(seqs) = IF n = 0 THEN seqs ELSE P[n]
  BY DEF FlattenSeq
<1>5. n = 0 => seqs = <<>>
  BY EmptySeq
<1> HIDE DEF Q
<1>6. step \in Steps(Q, n)
  BY <1>1, <1>2 DEF Steps
<1>7. \A i \in 1 .. n : \A x \in Q : step[i][x] = x \o seqs[i]
  OBVIOUS
<1> HIDE DEF step, n
<1>8. PICK c : Recurs(c, Q, <<>>, n, step)
  BY <1>1, <1>2, <1>6, RecursiveFunction
<1>9. \A i \in 1 .. n : i \in 0 .. n /\ i - 1 \in 0 .. n /\ i # 0 /\ (i # 1 => i - 1 \in 1 .. n)
  BY <1>1
<1>10. 0 \in 0 .. n /\ c \in [0 .. n -> Q] /\ c[0] = <<>>
       /\ \A i \in 1 .. n : c[i] = c[i - 1] \o seqs[i]
  <2>1. 0 \in 0 .. n
    BY <1>1
  <2>2. c \in [0 .. n -> Q]
        /\ \A i \in 0 .. n : c[i] = IF i = 0 THEN <<>> ELSE step[i][c[i - 1]]
    BY <1>8 DEF Recurs
  <2> QED
    BY <1>7, <1>9, <2>1, <2>2
<1>11. P = [i \in 1 .. n |-> IF i = 1 THEN seqs[i] ELSE P[i - 1] \o seqs[i]]
  <2> DEFINE d == [i \in 1 .. n |-> c[i]]
  <2>1. ASSUME NEW i \in 1 .. n
        PROVE  c[i] = IF i = 1 THEN seqs[i] ELSE d[i - 1] \o seqs[i]
    <3>1. CASE i = 1
      <4>1. i - 1 = 0
        BY <3>1
      <4>2. c[i] = <<>> \o seqs[i]
        BY <1>10, <4>1
      <4> QED
        BY <1>1, <1>3, <3>1, <4>2
    <3>2. CASE i # 1
      BY <1>9, <1>10, <3>2
    <3> QED
      BY <3>1, <3>2
  <2>2. d = [i \in 1 .. n |-> IF i = 1 THEN seqs[i] ELSE d[i - 1] \o seqs[i]]
    BY <2>1
  <2> HIDE DEF d
  <2> QED
    BY <2>2
<1> HIDE DEF P
<1>12. \A i \in 1 .. n : P[i] = IF i = 1 THEN seqs[i] ELSE P[i - 1] \o seqs[i]
  BY <1>11
<1>13. \A i \in Nat : i \in 1 .. n => P[i] \in Q
  <2> DEFINE T == {i \in Nat : i \in 1 .. n => P[i] \in Q}
  <2>1. 0 \in T
    OBVIOUS
  <2>2. ASSUME NEW i \in Nat, i \in T
        PROVE  i + 1 \in T
    <3> SUFFICES ASSUME i + 1 \in 1 .. n PROVE P[i + 1] \in Q
      OBVIOUS
    <3>1. CASE i = 0
      BY <1>1, <1>12, <3>1
    <3>2. CASE i # 0
      <4>1. i \in 1 .. n /\ (i + 1) - 1 = i /\ i + 1 # 1
        BY <1>1, <3>2
      <4>2. P[i] \in Q
        BY <2>2, <4>1
      <4> QED
        BY <1>1, <1>2, <1>12, <4>1, <4>2
    <3> QED
      BY <3>1, <3>2
  <2> HIDE DEF T
  <2>3. \A i \in Nat : i \in T
    BY <2>1, <2>2, SetInduction
  <2> QED
    BY <2>3 DEF T
<1> DEFINE F == [i \in 0 .. n |-> IF i = 0 THEN <<>> ELSE P[i]]
<1>14. F \in [0 .. n -> Q]
  <2>1. ASSUME NEW i \in 0 .. n
        PROVE  (IF i = 0 THEN <<>> ELSE P[i]) \in Q
    <3>1. i # 0 => i \in Nat /\ i \in 1 .. n
      BY <1>1
    <3> QED
      BY <1>2, <1>13, <3>1
  <2> QED
    BY <2>1
<1>15. F[0] = <<>>
  BY <1>1
<1>16. ASSUME NEW i \in 1 .. n
       PROVE  F[i] = F[i - 1] \o seqs[i]
  <2>1. F[i] = P[i]
    BY <1>9
  <2>2. CASE i = 1
    <3>1. F[i - 1] = <<>>
      BY <1>15, <2>2
    <3> QED
      BY <1>1, <1>3, <1>12, <2>1, <2>2, <3>1
  <2>3. CASE i # 1
    <3>1. i - 1 \in 0 .. n /\ i - 1 # 0
      BY <1>1, <2>3
    <3>2. F[i - 1] = P[i - 1]
      BY <3>1
    <3> QED
      BY <1>12, <2>1, <2>3, <3>2
  <2> QED
    BY <2>2, <2>3
<1>17. FlattenSeq(seqs) = F[n]
  BY <1>1, <1>4, <1>5
<1> HIDE DEF F
<1> QED
  BY <1>14, <1>15, <1>16, <1>17 DEF IsFlat, Q, n

LEMMA FlattenType ==
  ASSUME NEW S, NEW seqs \in Seq(Seq(S))
  PROVE  FlattenSeq(seqs) \in Seq(S)
<1>1. PICK F \in [0 .. Len(seqs) -> Seq(S)] : FlattenSeq(seqs) = F[Len(seqs)]
  BY FlattenDef
<1>2. Len(seqs) \in 0 .. Len(seqs)
  OBVIOUS
<1> QED
  BY <1>1, <1>2

LEMMA FlattenConcat ==
  ASSUME NEW S, NEW a \in Seq(Seq(S)), NEW b \in Seq(Seq(S))
  PROVE  FlattenSeq(a \o b) = FlattenSeq(a) \o FlattenSeq(b)
<1> DEFINE Q == Seq(S)
           ab == a \o b
           m == Len(a)
           n == Len(b)
<1>0. \A x, y, z \in Q : (x \o y) \o z = x \o (y \o z)
  BY ConcatAssociative
<1>1. \A x \in Q : x \o <<>> = x
  BY ConcatEmptySeq
<1>2. /\ m \in Nat /\ n \in Nat /\ ab \in Seq(Q) /\ Len(ab) = m + n
      /\ \A i \in 1 .. m + n : ab[i] = IF i <= m THEN a[i] ELSE b[i - m]
  <2> HIDE DEF Q
  <2>1. a \in Seq(Q) /\ b \in Seq(Q)
    BY DEF Q
  <2> QED
    BY <2>1, ConcatProperties
<1>3. PICK A \in [0 .. m -> Q] : IsFlat(A, a) /\ FlattenSeq(a) = A[m]
  BY FlattenDef
<1>4. PICK B \in [0 .. n -> Q] : IsFlat(B, b) /\ FlattenSeq(b) = B[n]
  BY FlattenDef
<1>5. PICK AB \in [0 .. Len(ab) -> Q] : IsFlat(AB, ab) /\ FlattenSeq(ab) = AB[Len(ab)]
  BY <1>2, FlattenDef
<1>6. /\ A[0] = <<>> /\ \A i \in 1 .. m : A[i] = A[i - 1] \o a[i]
      /\ B[0] = <<>> /\ \A i \in 1 .. n : B[i] = B[i - 1] \o b[i]
      /\ AB[0] = <<>> /\ \A i \in 1 .. m + n : AB[i] = AB[i - 1] \o ab[i]
  BY <1>2, <1>3, <1>4, <1>5 DEF IsFlat
<1>7. \A i \in 1 .. n : b[i] \in Q
  BY ElementOfSeq
<1> HIDE DEF Q, ab, m, n
<1>8. \A i \in Nat : i <= m => AB[i] = A[i]
  <2> DEFINE T == {i \in Nat : i <= m => AB[i] = A[i]}
  <2>1. 0 \in T
    BY <1>6
  <2>2. ASSUME NEW i \in Nat, i \in T
        PROVE  i + 1 \in T
    <3> SUFFICES ASSUME i + 1 <= m PROVE AB[i + 1] = A[i + 1]
      OBVIOUS
    <3>1. i + 1 \in 1 .. m /\ i + 1 \in 1 .. m + n /\ (i + 1) - 1 = i /\ i <= m
      BY <1>2
    <3>2. AB[i + 1] = AB[i] \o ab[i + 1] /\ A[i + 1] = A[i] \o a[i + 1]
      BY <1>6, <3>1
    <3>3. ab[i + 1] = a[i + 1]
      BY <1>2, <3>1
    <3> QED
      BY <2>2, <3>1, <3>2, <3>3
  <2> HIDE DEF T
  <2>3. \A i \in Nat : i \in T
    BY <2>1, <2>2, SetInduction
  <2> QED
    BY <2>3 DEF T
<1>9. A[m] \in Q
  <2>1. m \in 0 .. m
    BY <1>2
  <2> QED
    BY <1>3, <2>1
<1>10. \A i \in Nat : i <= n => AB[m + i] = A[m] \o B[i]
  <2> DEFINE Good(i) == i <= n => AB[m + i] = A[m] \o B[i]
             T == {i \in Nat : Good(i)}
  <2>1. Good(0)
    <3>1. AB[m + 0] = A[m]
      BY <1>2, <1>8
    <3> QED
      BY <1>1, <1>6, <1>9, <3>1
  <2>2. ASSUME NEW i \in Nat, Good(i)
        PROVE  Good(i + 1)
    <3> SUFFICES ASSUME i + 1 <= n PROVE AB[m + (i + 1)] = A[m] \o B[i + 1]
      OBVIOUS
    <3>1. /\ i + 1 \in 1 .. n /\ (m + (i + 1)) \in 1 .. m + n /\ (i + 1) - 1 = i /\ i <= n
          /\ (m + (i + 1)) - 1 = m + i /\ (m + (i + 1)) - m = i + 1 /\ ~(m + (i + 1) <= m)
          /\ i \in 0 .. n
      BY <1>2
    <3>2. AB[m + (i + 1)] = AB[m + i] \o ab[m + (i + 1)]
      BY <1>6, <3>1
    <3>3. B[i + 1] = B[i] \o b[i + 1]
      BY <1>6, <3>1
    <3>4. ab[m + (i + 1)] = b[i + 1]
      BY <1>2, <3>1
    <3>5. B[i] \in Q /\ b[i + 1] \in Q
      BY <1>4, <1>7, <3>1
    <3>6. (A[m] \o B[i]) \o b[i + 1] = A[m] \o (B[i] \o b[i + 1])
      BY <1>0, <1>9, <3>5
    <3>7. AB[m + i] = A[m] \o B[i]
      BY <2>2, <3>1
    <3> QED
      BY <3>2, <3>3, <3>4, <3>6, <3>7
  <2> HIDE DEF Good
  <2>3. 0 \in T /\ \A i \in Nat : i \in T => i + 1 \in T
    BY <2>1, <2>2
  <2> HIDE DEF T
  <2>4. \A i \in Nat : i \in T
    BY <2>3, SetInduction
  <2> QED
    BY <2>4 DEF T, Good
<1>11. AB[m + n] = A[m] \o B[n]
  <2>1. n \in Nat /\ n <= n
    BY <1>2
  <2> QED
    BY <1>10, <2>1
<1>12. FlattenSeq(ab) = AB[m + n]
  BY <1>2, <1>5
<1> QED
  BY <1>3, <1>4, <1>11, <1>12 DEF ab

LEMMA FlattenNothing ==
  ASSUME NEW seqs \in Seq({<<>>})
  PROVE  FlattenSeq(seqs) = <<>>
<1> DEFINE n == Len(seqs)
<1>1. n \in Nat /\ \A i \in 1 .. n : seqs[i] = <<>>
  <2> DEFINE E == {<<>>}
  <2>1. n \in Nat /\ \A i \in 1 .. n : seqs[i] \in E
    <3> HIDE DEF E
    <3> QED
      BY ElementOfSeq DEF E
  <2> QED
    BY <2>1
<1>2. seqs \in Seq(Seq({}))
  <2> DEFINE E == {<<>>}
             N == Seq({})
  <2>0. seqs \in [1 .. n -> E]
    <3> HIDE DEF E
    <3>1. seqs \in Seq(E)
      BY DEF E
    <3> QED
      BY <3>1
  <2>2. \A e \in E : e \in N
    OBVIOUS
  <2> HIDE DEF E, N, n
  <2>1. seqs \in [1 .. n -> N]
    BY <2>0, <2>2
  <2> USE DEF N, n
  <2> QED
    BY <1>1, <2>1
<1>3. PICK F \in [0 .. n -> Seq({})] : IsFlat(F, seqs) /\ FlattenSeq(seqs) = F[n]
  BY <1>2, FlattenDef
<1>4. n \in 0 .. n
  BY <1>1
<1>5. F[n] = <<>>
  BY <1>3, <1>4
<1> QED
  BY <1>3, <1>5

LEMMA FlattenOne ==
  ASSUME NEW S, NEW s \in Seq(S)
  PROVE  FlattenSeq(<<s>>) = s
<1> DEFINE Q == Seq(S)
<1>1. <<s>> \in Seq(Q) /\ Len(<<s>>) = 1 /\ <<s>>[1] = s
  <2> HIDE DEF Q
  <2>1. s \in Q
    BY DEF Q
  <2> QED
    BY <2>1
<1>2. <<>> \o s = s
  BY ConcatEmptySeq
<1>3. PICK F \in [0 .. Len(<<s>>) -> Q] : IsFlat(F, <<s>>) /\ FlattenSeq(<<s>>) = F[Len(<<s>>)]
  BY <1>1, FlattenDef
<1>4. 1 \in 1 .. 1 /\ 1 - 1 = 0
  OBVIOUS
<1>5. F[0] = <<>> /\ \A i \in 1 .. 1 : F[i] = F[i - 1] \o <<s>>[i]
  BY <1>1, <1>3 DEF IsFlat
<1>6. FlattenSeq(<<s>>) = F[1]
  BY <1>1, <1>3
<1> QED
  BY <1>1, <1>2, <1>4, <1>5, <1>6

-----------------------------------------------------------------------------
(* A function from the elements of a sequence to sequences, and what it      *)
(* gives for all of them, one after the other.                               *)
Maps(S, Q)   == [S -> Q]
Mapped(f, s) == [i \in DOMAIN s |-> f[s[i]]]

LEMMA MappedType ==
  ASSUME NEW S, NEW Q, NEW f \in Maps(S, Q), NEW s \in Seq(S)
  PROVE  /\ Mapped(f, s) \in Seq(Q) /\ Len(Mapped(f, s)) = Len(s)
         /\ \A i \in 1 .. Len(s) : Mapped(f, s)[i] = f[s[i]]
<1> DEFINE n == Len(s)
<1>1. n \in Nat /\ DOMAIN s = 1 .. n /\ \A i \in 1 .. n : s[i] \in S
  BY ElementOfSeq
<1> HIDE DEF n
<1>2. Mapped(f, s) \in [1 .. n -> Q] /\ \A i \in 1 .. n : Mapped(f, s)[i] = f[s[i]]
  BY <1>1 DEF Mapped, Maps
<1>3. Mapped(f, s) \in Seq(Q) /\ Len(Mapped(f, s)) = n
  BY <1>1, <1>2
<1> QED
  BY <1>2, <1>3 DEF n

LEMMA MappedConcat ==
  ASSUME NEW S, NEW Q, NEW f \in Maps(S, Q), NEW a \in Seq(S), NEW b \in Seq(S)
  PROVE  Mapped(f, a \o b) = Mapped(f, a) \o Mapped(f, b)
<1> DEFINE ab == a \o b
           m == Len(a)
           n == Len(b)
           fa == Mapped(f, a)
           fb == Mapped(f, b)
           fab == Mapped(f, ab)
           both == fa \o fb
<1> DEFINE Good(s, t) == t \in Seq(Q) /\ Len(t) = Len(s) /\ \A i \in 1 .. Len(s) : t[i] = f[s[i]]
<1>1. /\ m \in Nat /\ n \in Nat /\ ab \in Seq(S) /\ Len(ab) = m + n
      /\ \A i \in 1 .. m + n : ab[i] = IF i <= m THEN a[i] ELSE b[i - m]
  BY ConcatProperties
<1> HIDE DEF ab
<1>2. \A s \in Seq(S) : Good(s, Mapped(f, s))
  BY MappedType
<1> HIDE DEF Good
<1>3. Good(a, fa) /\ Good(b, fb) /\ Good(ab, fab)
  BY <1>1, <1>2
<1>4. /\ fa \in Seq(Q) /\ Len(fa) = m /\ \A i \in 1 .. m : fa[i] = f[a[i]]
      /\ fb \in Seq(Q) /\ Len(fb) = n /\ \A i \in 1 .. n : fb[i] = f[b[i]]
      /\ fab \in Seq(Q) /\ Len(fab) = m + n /\ \A i \in 1 .. m + n : fab[i] = f[ab[i]]
  <2> HIDE DEF fa, fb, fab
  <2> QED
    BY <1>1, <1>3 DEF Good
<1> HIDE DEF fa, fb, fab, m, n
<1>5. /\ both \in Seq(Q) /\ Len(both) = m + n
      /\ \A i \in 1 .. m + n : both[i] = IF i <= m THEN fa[i] ELSE fb[i - m]
  BY <1>4, ConcatProperties
<1> HIDE DEF both
<1>6. ASSUME NEW i \in 1 .. m + n
      PROVE  fab[i] = both[i]
  <2>1. CASE i <= m
    <3>1. i \in 1 .. m /\ ab[i] = a[i] /\ both[i] = fa[i]
      BY <1>1, <1>5, <2>1
    <3> QED
      BY <1>4, <3>1
  <2>2. CASE ~(i <= m)
    <3>1. i - m \in 1 .. n /\ ab[i] = b[i - m] /\ both[i] = fb[i - m]
      BY <1>1, <1>5, <2>2
    <3> QED
      BY <1>4, <3>1
  <2> QED
    BY <2>1, <2>2
<1>7. fab = both
  BY <1>4, <1>5, <1>6, SeqEqual
<1> QED
  BY <1>7 DEF both, fab, ab, fa, fb

LEMMA FlattenMappedType ==
  ASSUME NEW S, NEW T, NEW f \in Maps(S, Seq(T)), NEW s \in Seq(S)
  PROVE  FlattenSeq(Mapped(f, s)) \in Seq(T)
BY MappedType, FlattenType

LEMMA FlattenMappedConcat ==
  ASSUME NEW S, NEW T, NEW f \in Maps(S, Seq(T)), NEW a \in Seq(S), NEW b \in Seq(S)
  PROVE  FlattenSeq(Mapped(f, a \o b))
           = FlattenSeq(Mapped(f, a)) \o FlattenSeq(Mapped(f, b))
<1>1. Mapped(f, a) \in Seq(Seq(T)) /\ Mapped(f, b) \in Seq(Seq(T))
  BY MappedType
<1>2. Mapped(f, a \o b) = Mapped(f, a) \o Mapped(f, b)
  BY MappedConcat
<1> QED
  BY <1>1, <1>2, FlattenConcat

LEMMA FlattenMappedNothing ==
  ASSUME NEW S, NEW T, NEW f \in Maps(S, Seq(T)), NEW s \in Seq(S),
         \A i \in 1 .. Len(s) : f[s[i]] = <<>>
  PROVE  FlattenSeq(Mapped(f, s)) = <<>>
<1> DEFINE E == {<<>>}
           n == Len(s)
<1>1. n \in Nat /\ DOMAIN s = 1 .. n
  OBVIOUS
<1>2. Mapped(f, s) \in [1 .. n -> E]
  BY <1>1 DEF Mapped, Maps
<1> HIDE DEF E, n
<1>3. Mapped(f, s) \in Seq(E)
  BY <1>1, <1>2
<1> QED
  BY <1>3, FlattenNothing DEF E

LEMMA FlattenMappedOne ==
  ASSUME NEW S, NEW T, NEW f \in Maps(S, Seq(T)), NEW x \in S
  PROVE  FlattenSeq(Mapped(f, <<x>>)) = f[x]
<1> DEFINE y == f[x]
<1>1. Mapped(f, <<x>>) = <<y>>
  BY DEF Mapped
<1>2. y \in Seq(T)
  BY DEF Maps
<1> HIDE DEF y
<1>3. FlattenSeq(<<y>>) = y
  BY <1>2, FlattenOne
<1> QED
  BY <1>1, <1>3 DEF y

(* A sequence is its first element and the rest.                             *)
LEMMA FirstAndRest ==
  ASSUME NEW S, NEW x \in S, NEW s \in Seq(S)
  PROVE  /\ <<x>> \o s # <<>>
         /\ Head(<<x>> \o s) = x
         /\ Tail(<<x>> \o s) = s
<1> DEFINE first == <<x>>
           xs == first \o s
           n == Len(s)
<1>1. first \in Seq(S) /\ Len(first) = 1 /\ first[1] = x
  OBVIOUS
<1> HIDE DEF first
<1>2. n \in Nat /\ xs \in Seq(S) /\ Len(xs) = 1 + n
      /\ \A i \in 1 .. 1 + n : xs[i] = IF i <= 1 THEN first[i] ELSE s[i - 1]
  <2>1. /\ xs \in Seq(S) /\ Len(xs) = Len(first) + n
        /\ \A i \in 1 .. Len(first) + n :
             xs[i] = IF i <= Len(first) THEN first[i] ELSE s[i - Len(first)]
    BY <1>1, ConcatProperties
  <2> HIDE DEF xs
  <2> QED
    BY <1>1, <2>1
<1> HIDE DEF xs
<1>3. xs # <<>>
  BY <1>2, EmptySeq
<1>4. Head(xs) = xs[1] /\ Tail(xs) \in Seq(S) /\ Len(Tail(xs)) = n
      /\ \A i \in 1 .. n : Tail(xs)[i] = xs[i + 1]
  BY <1>2, <1>3, HeadTailProperties
<1>5. Head(xs) = x
  BY <1>1, <1>2, <1>4
<1>6. ASSUME NEW i \in 1 .. n
      PROVE  Tail(xs)[i] = s[i]
  <2>1. i + 1 \in 1 .. 1 + n /\ ~(i + 1 <= 1) /\ (i + 1) - 1 = i
    BY <1>2
  <2> QED
    BY <1>2, <1>4, <2>1
<1>7. Tail(xs) = s
  <2> DEFINE t == Tail(xs)
  <2>1. t \in Seq(S) /\ Len(t) = Len(s) /\ \A i \in 1 .. Len(s) : t[i] = s[i]
    BY <1>4, <1>6
  <2> HIDE DEF t
  <2>2. t = s
    BY <2>1, SeqEqual
  <2> QED
    BY <2>2 DEF t
<1> QED
  BY <1>3, <1>5, <1>7 DEF xs, first

LEMMA HeadAndTail ==
  ASSUME NEW S, NEW s \in Seq(S), s # <<>>
  PROVE  s = <<Head(s)>> \o Tail(s)
<1> DEFINE x == Head(s)
           t == Tail(s)
           xs == <<x>> \o t
<1>1. x \in S /\ t \in Seq(S) /\ s[1] = x /\ Len(s) \in Nat \ {0} /\ Len(t) = Len(s) - 1
      /\ \A i \in 1 .. Len(s) - 1 : t[i] = s[i + 1]
  BY HeadTailProperties, EmptySeq
<1> HIDE DEF x, t
<1>2. xs # <<>> /\ Head(xs) = x /\ Tail(xs) = t /\ xs \in Seq(S)
  <2>1. <<x>> \in Seq(S)
    BY <1>1
  <2> QED
    BY <1>1, <2>1, FirstAndRest, ConcatProperties
<1> HIDE DEF xs
<1>3. xs[1] = x /\ Len(xs) \in Nat \ {0} /\ Len(t) = Len(xs) - 1
      /\ \A i \in 1 .. Len(xs) - 1 : t[i] = xs[i + 1]
  BY <1>2, HeadTailProperties, EmptySeq
<1>4. Len(s) = Len(xs)
  BY <1>1, <1>3
<1>5. ASSUME NEW i \in 1 .. Len(s)
      PROVE  s[i] = xs[i]
  <2>1. CASE i = 1
    BY <1>1, <1>3, <2>1
  <2>2. CASE i # 1
    <3>1. i - 1 \in 1 .. Len(s) - 1 /\ (i - 1) + 1 = i
      BY <1>1, <2>2
    <3> QED
      BY <1>1, <1>3, <1>4, <3>1
  <2> QED
    BY <2>1, <2>2
<1>6. s = xs
  BY <1>2, <1>4, <1>5, SeqEqual
<1> QED
  BY <1>6 DEF xs, x, t
=============================================================================
