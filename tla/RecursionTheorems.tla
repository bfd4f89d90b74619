-------------------------- MODULE RecursionTheorems --------------------------
(***************************************************************************)
(* Induction and recursion in a form that provers of first-order logic can *)
(* use: a property of numbers is the set of the numbers that have it, and  *)
(* the step of a recursion is a function. The models join sequences and    *)
(* list positions; the last two sections say what they get.                *)
(***************************************************************************)
EXTENDS Integers, Sequences, SequencesExt, SequenceTheorems, WellFoundedInduction, TLAPS

-----------------------------------------------------------------------------
(***************************************************************************)
(* Induction.                                                              *)
(***************************************************************************)

\* Every set of natural numbers that is not empty has a least element.
LEMMA LeastElement ==
  ASSUME NEW T \in SUBSET Nat, T # {}
  PROVE  \E m \in T : \A k \in T : m <= k
<1>1. PICK R : R = {p \in Nat \X Nat : p[1] < p[2]}
  OBVIOUS
<1>2. OpToRel(<, Nat) = R
  BY <1>1, Zenon DEF OpToRel
<1>3. IsWellFoundedOn(R, Nat)
  BY <1>2, NatLessThanWellFounded, Zenon
<1>4. PICK m \in T : \A k \in T : << k, m >> \notin R
  BY <1>3, WFMin
<1>5. \A j, k \in Nat : k < j => << k, j >> \in R
  BY <1>1
<1>6. \A k \in T : k \in Nat
  OBVIOUS
<1>7. \A k \in T : ~ (k < m)
  BY <1>4, <1>5, <1>6
<1>8. \A k \in T : m <= k
  BY <1>6, <1>7
<1>9. QED
  BY <1>8

\* A set that contains 0 and with each number the next one contains them all.
LEMMA InductionOnNat ==
  ASSUME NEW S, 0 \in S, \A n \in Nat : n \in S => n + 1 \in S
  PROVE  \A n \in Nat : n \in S
<1> DEFINE T == Nat \ S
<1>1. SUFFICES ASSUME T # {} PROVE FALSE
  OBVIOUS
<1>2. PICK m \in T : \A k \in T : m <= k
  BY <1>1, LeastElement
<1>3. m # 0 /\ m - 1 \in Nat
  BY <1>2
<1>4. m - 1 \in S
  BY <1>2, <1>3
<1>5. QED
  BY <1>2, <1>3, <1>4

\* The same for the numbers up to n.
LEMMA InductionOnInterval ==
  ASSUME NEW n \in Nat, NEW S, 0 \in S, \A k \in 1 .. n : k - 1 \in S => k \in S
  PROVE  \A k \in 0 .. n : k \in S
<1> DEFINE T == {k \in Nat : k \in 0 .. n => k \in S}
<1>1. 0 \in T
  OBVIOUS
<1>2. ASSUME NEW k \in Nat, k \in T
      PROVE  k + 1 \in T
  <2>1. CASE k + 1 \in 0 .. n
    <3>1. k \in 0 .. n /\ k + 1 \in 1 .. n /\ (k + 1) - 1 = k
      BY <2>1
    <3>2. k \in S
      BY <1>2, <3>1
    <3>3. QED
      BY <3>1, <3>2
  <2>2. QED
    BY <2>1
<1>3. \A k \in Nat : k \in T
  <2> HIDE DEF T
  <2>1. QED
    BY <1>1, <1>2, InductionOnNat
<1>4. QED
  BY <1>3

\* A set that has the empty sequence and with each sequence those with one
\* element more has them all.
LEMMA InductionOnSeq ==
  ASSUME NEW E, NEW S, << >> \in S,
         \A s \in Seq(E), e \in E : s \in S => Append(s, e) \in S
  PROVE  \A s \in Seq(E) : s \in S
<1> DEFINE T == {k \in Nat : \A s \in Seq(E) : Len(s) = k => s \in S}
<1>1. 0 \in T
  <2>1. \A s \in Seq(E) : Len(s) = 0 => s = << >>
    BY EmptySeq
  <2>2. QED
    BY <2>1
<1>2. ASSUME NEW k \in Nat, k \in T
      PROVE  k + 1 \in T
  <2>1. ASSUME NEW s \in Seq(E), Len(s) = k + 1
        PROVE  s \in S
    <3>1. s # << >>
      <4>1. k + 1 # 0 /\ Len(<< >>) = 0
        OBVIOUS
      <4>2. QED
        BY <2>1, <4>1, Zenon
    <3>2. PICK r \in Seq(E), e \in E : s = Append(r, e)
      BY <3>1, SequenceEmptyOrAppend
    <3>3. Len(r) = k
      <4>1. Len(s) = Len(r) + 1 /\ Len(r) \in Nat
        BY <3>2, AppendProperties, LenProperties
      <4>2. QED
        BY <2>1, <4>1
    <3>4. QED
      BY <1>2, <3>2, <3>3
  <2>2. QED
    BY <2>1
<1>3. \A k \in Nat : k \in T
  <2> HIDE DEF T
  <2>1. QED
    BY <1>1, <1>2, InductionOnNat
<1>4. QED
  BY <1>3, LenProperties

-----------------------------------------------------------------------------
(***************************************************************************)
(* Recursion.                                                              *)
(***************************************************************************)

\* The steps of a recursion through values in T, each a function of the value
\* before it.
StepsIn(T) == [Nat -> [T -> T]]

\* The values of a recursion up to its n-th step.
Follows(f, base, step, n) ==
  f[0] = base /\ \A k \in 1 .. n : f[k] = step[k][f[k - 1]]

\* Every step can be followed from every start, as far as one likes.
LEMMA StepsOnInterval ==
  ASSUME NEW T, NEW base \in T, NEW step \in StepsIn(T), NEW n \in Nat
  PROVE  \E f : f \in [0 .. n -> T] /\ Follows(f, base, step, n)
<1> DEFINE S == {m \in Nat : \E f : f \in [0 .. m -> T] /\ Follows(f, base, step, m)}
<1>1. 0 \in S
  <2> DEFINE f == [k \in 0 .. 0 |-> base]
  <2>1. f \in [0 .. 0 -> T] /\ Follows(f, base, step, 0)
    BY DEF Follows
  <2>2. QED
    BY <2>1
<1>2. ASSUME NEW m \in Nat, m \in S
      PROVE  m + 1 \in S
  <2>1. PICK f \in [0 .. m -> T] : Follows(f, base, step, m)
    BY <1>2
  <2> DEFINE g == [k \in 0 .. m + 1 |-> IF k = m + 1 THEN step[m + 1][f[m]] ELSE f[k]]
  <2>2. f[m] \in T /\ step[m + 1] \in [T -> T]
    BY DEF StepsIn
  <2>3. g \in [0 .. m + 1 -> T]
    BY <2>2
  <2>4. g[0] = base
    BY <2>1 DEF Follows
  <2>5. ASSUME NEW k \in 1 .. m + 1
        PROVE  g[k] = step[k][g[k - 1]]
    <3>1. k - 1 \in 0 .. m + 1 /\ k - 1 # m + 1 /\ g[k - 1] = f[k - 1]
      OBVIOUS
    <3>2. CASE k = m + 1
      BY <3>1, <3>2
    <3>3. CASE k # m + 1
      <4>1. k \in 1 .. m /\ g[k] = f[k]
        BY <3>3
      <4>2. QED
        BY <2>1, <3>1, <4>1 DEF Follows
    <3>4. QED
      BY <3>2, <3>3
  <2>6. Follows(g, base, step, m + 1)
    <3> HIDE DEF g
    <3>1. QED
      BY <2>4, <2>5 DEF Follows
  <2>7. QED
    <3> HIDE DEF g
    <3>1. QED
      BY <2>3, <2>6
<1>3. n \in S
  <2> HIDE DEF S
  <2>1. QED
    BY <1>1, <1>2, InductionOnNat
<1>4. QED
  BY <1>3

-----------------------------------------------------------------------------
(***************************************************************************)
(* Sequences of sequences, joined.                                         *)
(***************************************************************************)

\* Two sequences joined: a name under which the provers leave them closed.
Join(s, t) == s \o t

\* Joining keeps to the elements, and the empty sequence adds nothing.
LEMMA JoinProperties ==
  ASSUME NEW S, NEW s \in Seq(S), NEW t \in Seq(S)
  PROVE  Join(s, t) \in Seq(S) /\ Join(<< >>, t) = t
BY DEF Join

\* The sequences joined so far.
Joins(f, seqs) ==
  /\ f[0] = << >>
  /\ \A k \in 1 .. Len(seqs) : f[k] = Join(f[k - 1], seqs[k])

\* Every sequence of sequences can be joined step by step.
LEMMA JoinsExist ==
  ASSUME NEW S, NEW seqs \in Seq(Seq(S))
  PROVE  \E f : f \in [0 .. Len(seqs) -> Seq(S)] /\ Joins(f, seqs)
<1> DEFINE n == Len(seqs)
           step == [k \in Nat |-> [v \in Seq(S) |-> IF k \in 1 .. n THEN Join(v, seqs[k]) ELSE v]]
<1>1. n \in Nat /\ \A k \in 1 .. n : seqs[k] \in Seq(S)
  OBVIOUS
<1>2. step \in StepsIn(Seq(S)) /\ << >> \in Seq(S)
  BY <1>1, JoinProperties DEF StepsIn
<1>3. \A k \in 1 .. n, v \in Seq(S) : step[k][v] = Join(v, seqs[k])
  BY <1>1
<1> HIDE DEF n, step
<1>4. PICK f \in [0 .. n -> Seq(S)] : Follows(f, << >>, step, n)
  BY <1>1, <1>2, StepsOnInterval
<1>5. ASSUME NEW k \in 1 .. n
      PROVE  f[k] = Join(f[k - 1], seqs[k])
  <2>1. k - 1 \in 0 .. n
    BY <1>1
  <2>2. f[k] = step[k][f[k - 1]] /\ f[k - 1] \in Seq(S)
    BY <1>4, <2>1 DEF Follows
  <2>3. QED
    BY <1>3, <2>2
<1>6. f[0] = << >>
  BY <1>4 DEF Follows
<1>7. QED
  BY <1>5, <1>6 DEF Joins, n

\* FlattenSeq joins all of them.
LEMMA FlattenJoins ==
  ASSUME NEW S, NEW seqs \in Seq(Seq(S)),
         NEW f \in [0 .. Len(seqs) -> Seq(S)], Joins(f, seqs)
  PROVE  FlattenSeq(seqs) = f[Len(seqs)]
<1> DEFINE n == Len(seqs)
           Flatten(g) == g = [i \in 1 .. n |-> IF i = 1 THEN seqs[i] ELSE Join(g[i - 1], seqs[i])]
           flatten == CHOOSE g : Flatten(g)
           g0 == [i \in 1 .. n |-> f[i]]
<1>1. n \in Nat /\ \A k \in 1 .. n : seqs[k] \in Seq(S)
  OBVIOUS
<1>2. CASE n = 0
  <2>1. seqs = << >>
    BY <1>2
  <2>2. QED
    BY <1>2, <2>1 DEF FlattenSeq, Joins
<1>3. CASE n # 0
  <2>1. f[1] = seqs[1]
    <3>1. f[1] = Join(f[0], seqs[1]) /\ f[0] = << >> /\ seqs[1] \in Seq(S)
      BY <1>1, <1>3 DEF Joins
    <3>2. QED
      BY <3>1, JoinProperties
  <2>2. \A i \in 2 .. n : f[i] = Join(f[i - 1], seqs[i])
    BY <1>1 DEF Joins
  <2>3. Flatten(g0)
    <3>1. \A i \in 1 .. n : g0[i] = IF i = 1 THEN seqs[i] ELSE Join(g0[i - 1], seqs[i])
      BY <1>1, <2>1, <2>2
    <3>2. QED
      BY <3>1
  <2>4. Flatten(flatten)
    <3> HIDE DEF Flatten
    <3>1. QED
      BY <2>3
  <2>5. \A i \in 1 .. n : flatten[i] = IF i = 1 THEN seqs[i] ELSE Join(flatten[i - 1], seqs[i])
    <3> HIDE DEF flatten
    <3>1. QED
      BY <2>4
  <2>6. FlattenSeq(seqs) = flatten[n]
    BY <1>3 DEF FlattenSeq, Join
  <2> HIDE DEF flatten
  <2> DEFINE A == {k \in 0 .. n : k # 0 => flatten[k] = f[k]}
  <2>7. 0 \in A
    BY <1>1
  <2>8. \A k \in 1 .. n : k - 1 \in A => k \in A
    BY <1>1, <2>1, <2>2, <2>5
  <2>9. \A k \in 0 .. n : k \in A
    <3> HIDE DEF A
    <3>1. QED
      BY <1>1, <2>7, <2>8, InductionOnInterval
  <2>10. QED
    BY <1>1, <1>3, <2>6, <2>9
<1>4. QED
  BY <1>2, <1>3

\* What FlattenSeq makes of none, and of one more.
LEMMA FlattenProperties ==
  ASSUME NEW S, NEW seqs \in Seq(Seq(S)), NEW last \in Seq(S)
  PROVE  /\ FlattenSeq(seqs) \in Seq(S)
         /\ seqs = << >> => FlattenSeq(seqs) = << >>
         /\ FlattenSeq(Append(seqs, last)) = FlattenSeq(seqs) \o last
<1> DEFINE n == Len(seqs)
           more == Append(seqs, last)
<1>1. n \in Nat /\ more \in Seq(Seq(S)) /\ Len(more) = n + 1
  BY AppendProperties
<1>2. more[n + 1] = last /\ \A k \in 1 .. n : more[k] = seqs[k]
  BY AppendProperties
<1> HIDE DEF more
<1>3. PICK f \in [0 .. n -> Seq(S)] : Joins(f, seqs)
  BY JoinsExist
<1>4. PICK g \in [0 .. n + 1 -> Seq(S)] : Joins(g, more)
  BY <1>1, JoinsExist
<1>5. FlattenSeq(seqs) = f[n]
  BY <1>3, FlattenJoins
<1>6. FlattenSeq(more) = g[n + 1]
  BY <1>1, <1>4, FlattenJoins
<1>7. g[0] = f[0] /\ g[n + 1] = Join(g[n], last)
  <2>1. n + 1 \in 1 .. Len(more) /\ (n + 1) - 1 = n
    BY <1>1
  <2>2. g[n + 1] = Join(g[n], more[n + 1])
    BY <1>4, <2>1 DEF Joins
  <2>3. QED
    BY <1>2, <1>3, <1>4, <2>2 DEF Joins
<1>8. \A k \in 1 .. n : /\ f[k] = Join(f[k - 1], seqs[k])
                        /\ g[k] = Join(g[k - 1], seqs[k])
  BY <1>1, <1>2, <1>3, <1>4 DEF Joins
<1> DEFINE A == {k \in 0 .. n : f[k] = g[k]}
<1>9. 0 \in A
  BY <1>1, <1>7
<1>10. \A k \in 1 .. n : k - 1 \in A => k \in A
  BY <1>1, <1>8
<1>11. \A k \in 0 .. n : k \in A
  <2> HIDE DEF A
  <2>1. QED
    BY <1>1, <1>9, <1>10, InductionOnInterval
<1>12. seqs = << >> => f[n] = << >>
  BY <1>3 DEF Joins
<1>13. f[n] = g[n] /\ f[n] \in Seq(S)
  BY <1>1, <1>11
<1>14. FlattenSeq(more) = Join(FlattenSeq(seqs), last)
  BY <1>5, <1>6, <1>7, <1>13
<1>15. FlattenSeq(more) = FlattenSeq(seqs) \o last
  BY <1>14, Zenon DEF Join
<1>16. QED
  BY <1>5, <1>12, <1>13, <1>15, Zenon DEF more

-----------------------------------------------------------------------------
(***************************************************************************)
(* The elements of a set of positions, in order.                           *)
(***************************************************************************)
OneIfIn(i, s) == IF i \in s THEN << i >> ELSE << >>
Listed(n, s) == FlattenSeq([i \in 1 .. n |-> OneIfIn(i, s)])

\* Going on to one position more.
LEMMA ListedMore ==
  ASSUME NEW n \in Nat, NEW s, NEW E, s \cap (1 .. n + 1) \subseteq E
  PROVE  /\ Listed(n, s) \in Seq(E)
         /\ Listed(0, s) = << >>
         /\ n + 1 \in s => Listed(n + 1, s) = Append(Listed(n, s), n + 1)
         /\ n + 1 \notin s => Listed(n + 1, s) = Listed(n, s)
<1> DEFINE seqs == [i \in 1 .. n |-> OneIfIn(i, s)]
           last == OneIfIn(n + 1, s)
<1>1. \A i \in 1 .. n + 1 : OneIfIn(i, s) \in Seq(E)
  BY DEF OneIfIn
<1>2. seqs \in Seq(Seq(E)) /\ last \in Seq(E) /\ Len(seqs) = n
  <2>1. \A i \in 1 .. n : i \in 1 .. n + 1
    OBVIOUS
  <2>2. n + 1 \in 1 .. n + 1
    OBVIOUS
  <2>3. QED
    BY <1>1, <2>1, <2>2
<1>3. Append(seqs, last) = [i \in 1 .. n + 1 |-> OneIfIn(i, s)]
  <2> DEFINE more == [i \in 1 .. n + 1 |-> OneIfIn(i, s)]
  <2>1. more \in Seq(Seq(E)) /\ Len(more) = n + 1
    BY <1>1
  <2>2. /\ Append(seqs, last) \in Seq(Seq(E))
        /\ Len(Append(seqs, last)) = n + 1
        /\ \A i \in 1 .. n : Append(seqs, last)[i] = seqs[i]
        /\ Append(seqs, last)[n + 1] = last
    <3> HIDE DEF seqs, last
    <3>1. QED
      BY <1>2, AppendProperties
  <2>3. \A i \in 1 .. n + 1 : i = n + 1 \/ i \in 1 .. n
    OBVIOUS
  <2>4. \A i \in 1 .. n + 1 : Append(seqs, last)[i] = more[i]
    <3>1. \A i \in 1 .. n : seqs[i] = more[i]
      OBVIOUS
    <3>2. last = more[n + 1]
      OBVIOUS
    <3> HIDE DEF seqs, last, more
    <3>3. QED
      BY <2>2, <2>3, <3>1, <3>2
  <2>5. QED
    <3> HIDE DEF seqs, last, more
    <3>1. Append(seqs, last) = more
      BY <2>1, <2>2, <2>4, SeqEqual
    <3>2. QED
      BY <3>1 DEF more
<1>4. /\ FlattenSeq(seqs) \in Seq(E)
      /\ FlattenSeq(Append(seqs, last)) = FlattenSeq(seqs) \o last
  <2> HIDE DEF seqs, last
  <2>1. QED
    BY <1>2, FlattenProperties
<1>5. Listed(n, s) = FlattenSeq(seqs) /\ Listed(n + 1, s) = Listed(n, s) \o last
  BY <1>3, <1>4, Zenon DEF Listed
<1>6. Listed(0, s) = << >>
  <2> DEFINE none == [i \in 1 .. 0 |-> OneIfIn(i, s)]
  <2>1. none = << >> /\ none \in Seq(Seq(E)) /\ << >> \in Seq(E)
    OBVIOUS
  <2>2. FlattenSeq(none) = << >>
    <3> HIDE DEF none
    <3>1. QED
      BY <2>1, FlattenProperties
  <2>3. QED
    BY <2>2, Zenon DEF Listed
<1>7. PICK list \in Seq(E) : list = Listed(n, s)
  BY <1>4, <1>5
<1>8. n + 1 \in s => n + 1 \in E /\ last = << n + 1 >>
  BY DEF OneIfIn
<1>9. n + 1 \notin s => last = << >>
  BY DEF OneIfIn
<1> HIDE DEF last
<1>10. n + 1 \in s => list \o last = Append(list, n + 1)
  <2>1. ASSUME NEW e \in E
        PROVE  list \o << e >> = Append(list, e)
    <3>1. list \o << e >> \in Seq(E) /\ Append(list, e) \in Seq(E)
      OBVIOUS
    <3>2. /\ Len(list \o << e >>) = Len(Append(list, e))
          /\ \A i \in 1 .. Len(list \o << e >>) : (list \o << e >>)[i] = Append(list, e)[i]
      OBVIOUS
    <3>3. QED
      BY <3>1, <3>2, SeqEqual
  <2>2. QED
    BY <1>8, <2>1
<1>11. n + 1 \notin s => list \o last = list
  BY <1>9
<1>12. QED
  BY <1>5, <1>6, <1>7, <1>10, <1>11

\* A list has elements of the set only, and only those up to n.
LEMMA ListedElements ==
  ASSUME NEW n \in Nat, NEW s
  PROVE  Listed(n, s) \in Seq(s \cap (1 .. n))
<1> DEFINE T == {k \in Nat : Listed(k, s) \in Seq(s \cap (1 .. k))}
<1>1. 0 \in T
  <2>1. Listed(0, s) = << >> /\ << >> \in Seq(s \cap (1 .. 0))
    BY ListedMore, EmptySeq
  <2>2. Listed(0, s) \in Seq(s \cap (1 .. 0))
    BY <2>1, Zenon
  <2>3. 0 \in Nat
    OBVIOUS
  <2>4. QED
    BY <2>2, <2>3, Zenon
<1>2. ASSUME NEW k \in Nat, k \in T
      PROVE  k + 1 \in T
  <2>1. Listed(k, s) \in Seq(s \cap (1 .. k + 1))
    <3>1. s \cap (1 .. k) \subseteq s \cap (1 .. k + 1)
      OBVIOUS
    <3>2. QED
      BY <1>2, <3>1
  <2>2. PICK list \in Seq(s \cap (1 .. k + 1)) : list = Listed(k, s)
    BY <2>1
  <2>3. CASE k + 1 \in s
    <3>1. Listed(k + 1, s) = Append(list, k + 1) /\ k + 1 \in s \cap (1 .. k + 1)
      BY <2>2, <2>3, ListedMore
    <3>2. QED
      BY <3>1
  <2>4. CASE k + 1 \notin s
    BY <2>2, <2>4, ListedMore
  <2>5. QED
    BY <2>3, <2>4
<1>3. \A k \in Nat : k \in T
  <2> HIDE DEF T
  <2>1. QED
    BY <1>1, <1>2, InductionOnNat
<1>4. QED
  BY <1>3

\* Only the positions up to n count.
LEMMA ListedSame ==
  ASSUME NEW n \in Nat, NEW s, NEW r, \A i \in 1 .. n : i \in s <=> i \in r
  PROVE  Listed(n, s) = Listed(n, r)
<1>1. \A i \in 1 .. n : OneIfIn(i, s) = OneIfIn(i, r)
  BY DEF OneIfIn
<1>2. [i \in 1 .. n |-> OneIfIn(i, s)] = [i \in 1 .. n |-> OneIfIn(i, r)]
  BY <1>1
<1>3. QED
  BY <1>2, Zenon DEF Listed

\* Positions that are not in the set add nothing.
LEMMA ListedBeyond ==
  ASSUME NEW m \in Nat, NEW n \in Nat, m <= n, NEW s, \A i \in m + 1 .. n : i \notin s
  PROVE  Listed(n, s) = Listed(m, s)
<1> DEFINE T == {k \in Nat : m + k <= n => Listed(m + k, s) = Listed(m, s)}
<1>1. 0 \in T
  OBVIOUS
<1>2. ASSUME NEW k \in Nat, k \in T
      PROVE  k + 1 \in T
  <2>1. ASSUME m + (k + 1) <= n
        PROVE  Listed(m + (k + 1), s) = Listed(m, s)
    <3>1. PICK j \in Nat : j = m + k
      OBVIOUS
    <3>2. j + 1 \in m + 1 .. n /\ m + (k + 1) = j + 1 /\ m + k <= n
      BY <2>1, <3>1
    <3>3. Listed(j + 1, s) = Listed(j, s)
      BY <3>2, ListedMore
    <3>4. QED
      BY <1>2, <3>1, <3>2, <3>3
  <2>2. QED
    BY <2>1
<1>3. \A k \in Nat : k \in T
  <2> HIDE DEF T
  <2>1. QED
    BY <1>1, <1>2, InductionOnNat
<1>4. n - m \in Nat /\ m + (n - m) = n
  OBVIOUS
<1>5. QED
  BY <1>3, <1>4

\* A position behind all of the set comes last.
LEMMA ListedInsert ==
  ASSUME NEW n \in Nat, NEW s, NEW j \in 1 .. n, \A i \in s : i \in 1 .. n /\ i < j
  PROVE  Listed(n, s \cup {j}) = Append(Listed(n, s), j)
<1>1. PICK h \in Nat : j = h + 1
  <2>1. j - 1 \in Nat /\ j = (j - 1) + 1
    OBVIOUS
  <2>2. QED
    BY <2>1
<1>2. h <= n /\ h + 1 <= n /\ h + 1 \in Nat
  BY <1>1
<1>3. \A i \in (h + 1) + 1 .. n : i \notin s \cup {j}
  BY <1>1
<1>4. \A i \in h + 1 .. n : i \notin s
  BY <1>1
<1>5. Listed(n, s) = Listed(h, s)
  BY <1>2, <1>4, ListedBeyond
<1>6. PICK r : r = s \cup {j}
  OBVIOUS
<1>7. Listed(n, r) = Listed(h + 1, r)
  BY <1>2, <1>3, <1>6, ListedBeyond
<1>8. Listed(h + 1, r) = Append(Listed(h, r), h + 1)
  BY <1>1, <1>6, ListedMore
<1>9. Listed(h, r) = Listed(h, s)
  <2>1. \A i \in 1 .. h : i \in r <=> i \in s
    BY <1>1, <1>6
  <2>2. QED
    BY <2>1, ListedSame
<1>10. QED
  BY <1>1, <1>5, <1>6, <1>7, <1>8, <1>9
=============================================================================
