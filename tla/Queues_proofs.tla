----------------------------- MODULE Queues_proofs -----------------------------
(***************************************************************************)
(* Lemmas about queues.                                                    *)
(***************************************************************************)
EXTENDS Queues, WellFoundedInduction, FiniteSetTheorems, FunctionTheorems, TLAPS

(* What joining the end of a queue does to it.                             *)
LEMMA AppendQueue ==
    ASSUME NEW S, NEW q \in Seq(S), NEW e \in S
    PROVE  /\ Append(q, e) \in Seq(S)
           /\ \A x : In(Append(q, e), x) <=> In(q, x) \/ x = e
           /\ Distinct(q) /\ ~In(q, e) => Distinct(Append(q, e))
           /\ \A a, b : NotBefore(q, a, b) /\ (e # b \/ ~In(q, a)) => NotBefore(Append(q, e), a, b)
           /\ Append(q, e) # <<>>
           /\ q # <<>> => Append(q, e)[1] = q[1]
           /\ q = <<>> => Append(q, e)[1] = e
<1> DEFINE r == Append(q, e)
<1>1. /\ r \in Seq(S) /\ Len(r) = Len(q) + 1 /\ Len(q) \in Nat
      /\ DOMAIN r = 1 .. Len(q) + 1 /\ DOMAIN q = 1 .. Len(q)
      /\ \A i \in 1 .. Len(q) : r[i] = q[i]
      /\ r[Len(q) + 1] = e
      /\ r # <<>>
  OBVIOUS
<1> HIDE DEF r
<1>2. \A x : In(r, x) <=> In(q, x) \/ x = e
  <2> TAKE x
  <2>1. In(r, x) => In(q, x) \/ x = e
    BY <1>1 DEF In
  <2>2. In(q, x) => In(r, x)
    BY <1>1 DEF In
  <2>3. x = e => In(r, x)
    <3>1. Len(q) + 1 \in DOMAIN r
      BY <1>1
    <3>. QED
      BY <1>1, <3>1 DEF In
  <2>. QED
    BY <2>1, <2>2, <2>3
<1>3. Distinct(q) /\ ~In(q, e) => Distinct(r)
  BY <1>1 DEF In, Distinct
<1>4. \A a, b : NotBefore(q, a, b) /\ (e # b \/ ~In(q, a)) => NotBefore(r, a, b)
  <2> SUFFICES ASSUME NEW a, NEW b, NotBefore(q, a, b), e # b \/ ~In(q, a),
                      NEW i \in DOMAIN r, NEW j \in DOMAIN r, r[i] = a, r[j] = b
               PROVE  j <= i
    BY DEF NotBefore
  <2>1. CASE i = Len(q) + 1
    BY <1>1, <2>1
  <2>2. CASE i # Len(q) + 1 /\ j = Len(q) + 1
    BY <1>1, <2>2 DEF In
  <2>3. CASE i # Len(q) + 1 /\ j # Len(q) + 1
    BY <1>1, <2>3 DEF NotBefore
  <2>. QED
    BY <2>1, <2>2, <2>3
<1>5. (q # <<>> => r[1] = q[1]) /\ (q = <<>> => r[1] = e)
  BY <1>1
<1>. QED
  BY <1>1, <1>2, <1>3, <1>4, <1>5 DEF r

(* What leaving the front of a queue does to it.                           *)
LEMMA TailQueue ==
    ASSUME NEW S, NEW q \in Seq(S), q # <<>>
    PROVE  /\ Tail(q) \in Seq(S)
           /\ Head(q) = q[1] /\ 1 \in DOMAIN q /\ q[1] \in S /\ In(q, q[1])
           /\ SubSeq(q, 2, Len(q)) = Tail(q)
           /\ Distinct(q) => /\ Distinct(Tail(q))
                             /\ \A x : In(Tail(q), x) <=> In(q, x) /\ x # q[1]
           /\ \A a, b : NotBefore(q, a, b) => NotBefore(Tail(q), a, b)
           /\ \A x : In(Tail(q), x) <=> \E i \in 2 .. Len(q) : q[i] = x
           /\ Distinct(q) => \A x : NotBefore(q, x, q[1])
<1> DEFINE r == Tail(q)
<1>1. /\ r \in Seq(S) /\ Len(r) = Len(q) - 1 /\ Len(q) \in Nat /\ Len(q) > 0
      /\ DOMAIN r = 1 .. Len(q) - 1 /\ DOMAIN q = 1 .. Len(q)
      /\ \A i \in 1 .. Len(q) - 1 : r[i] = q[i + 1]
      /\ Head(q) = q[1] /\ q[1] \in S
  OBVIOUS
<1>2. SubSeq(q, 2, Len(q)) = r
  OBVIOUS
<1> HIDE DEF r
<1>3. \A x : In(r, x) <=> \E i \in 2 .. Len(q) : q[i] = x
  <2> TAKE x
  <2>1. In(r, x) => \E i \in 2 .. Len(q) : q[i] = x
    BY <1>1 DEF In
  <2>2. ASSUME NEW i \in 2 .. Len(q), q[i] = x PROVE In(r, x)
    <3>1. i - 1 \in DOMAIN r /\ r[i - 1] = q[i]
      BY <1>1
    <3>. QED
      BY <2>2, <3>1 DEF In
  <2>. QED
    BY <2>1, <2>2
<1>4. ASSUME Distinct(q)
      PROVE  Distinct(r) /\ \A x : In(r, x) <=> In(q, x) /\ x # q[1]
  <2>1. Distinct(r)
    <3> SUFFICES ASSUME NEW i \in 1 .. Len(q) - 1, NEW j \in 1 .. Len(q) - 1, r[i] = r[j]
                 PROVE  i = j
      BY <1>1 DEF Distinct
    <3>1. i + 1 \in DOMAIN q /\ j + 1 \in DOMAIN q /\ q[i + 1] = q[j + 1]
      BY <1>1
    <3>2. i + 1 = j + 1
      BY <1>4, <3>1 DEF Distinct
    <3>. QED
      BY <1>1, <3>2
  <2>2. \A x : In(r, x) <=> In(q, x) /\ x # q[1]
    <3> TAKE x
    <3>1. In(r, x) => In(q, x) /\ x # q[1]
      <4>1. ASSUME NEW i \in 2 .. Len(q), q[i] = x PROVE In(q, x) /\ x # q[1]
        <5>1. i \in DOMAIN q /\ 1 \in DOMAIN q /\ i # 1
          BY <1>1
        <5>. QED
          BY <1>4, <4>1, <5>1 DEF Distinct, In
      <4>. QED
        BY <1>3, <4>1
    <3>2. ASSUME NEW i \in DOMAIN q, q[i] = x, x # q[1] PROVE In(r, x)
      <4>1. i \in 2 .. Len(q)
        BY <1>1, <3>2
      <4>. QED
        BY <1>3, <3>2, <4>1
    <3>. QED
      BY <3>1, <3>2 DEF In
  <2>. QED
    BY <2>1, <2>2
<1>5. \A a, b : NotBefore(q, a, b) => NotBefore(r, a, b)
  <2> SUFFICES ASSUME NEW a, NEW b, NotBefore(q, a, b),
                      NEW i \in DOMAIN r, NEW j \in DOMAIN r, r[i] = a, r[j] = b
               PROVE  j <= i
    BY DEF NotBefore
  <2>1. i + 1 \in DOMAIN q /\ j + 1 \in DOMAIN q /\ q[i + 1] = a /\ q[j + 1] = b
    BY <1>1
  <2>2. j + 1 <= i + 1
    BY <2>1 DEF NotBefore
  <2>. QED
    BY <1>1, <2>2
<1>6. ASSUME Distinct(q), NEW x PROVE NotBefore(q, x, q[1])
  BY <1>1, <1>6 DEF NotBefore, Distinct
<1>7. 1 \in DOMAIN q /\ In(q, q[1])
  BY <1>1 DEF In
<1>. QED
  BY <1>1, <1>2, <1>3, <1>4, <1>5, <1>6, <1>7 DEF r

(* Sets with a one-to-one correspondence have as many elements.            *)
LEMMA AsMany ==
  ASSUME NEW S, NEW T, IsFiniteSet(S), NEW f \in [T -> S],
         \A x, y \in T : f[x] = f[y] => x = y,
         \A z \in S : \E x \in T : f[x] = z
  PROVE  Cardinality(T) = Cardinality(S)
<1>1. f \in Bijection(T, S)
  BY DEF Bijection, Injection, Surjection, IsInjective
<1>2. ExistsBijection(S, T)
  BY <1>1, Fun_ExistsBijSymmetric DEF ExistsBijection
<1>. QED
  BY <1>2, FS_Bijection

(* A queue without repetitions over a finite set is no longer than the set *)
(* (server.js:304, 319: the list of plants being watered).                 *)
LEMMA NoLonger ==
  ASSUME NEW S, IsFiniteSet(S), NEW q \in Seq(S), Distinct(q)
  PROVE  Len(q) <= Cardinality(S)
<1> DEFINE D == 1 .. Len(q)
           R == {q[i] : i \in D}
<1>1. Len(q) \in Nat /\ DOMAIN q = D /\ R \subseteq S
  OBVIOUS
<1>2. IsFiniteSet(R) /\ Cardinality(R) <= Cardinality(S)
  BY <1>1, FS_Subset
<1>3. q \in [D -> R]
  <2>1. q = [i \in D |-> q[i]] /\ \A i \in D : q[i] \in R
    BY <1>1
  <2> HIDE DEF D, R
  <2>. QED
    BY <2>1
<1>4. Cardinality(D) = Cardinality(R)
  <2>1. \A x, y \in D : q[x] = q[y] => x = y
    BY <1>1 DEF Distinct
  <2>2. \A z \in R : \E x \in D : q[x] = z
    OBVIOUS
  <2> HIDE DEF D, R
  <2>. QED
    BY <1>2, <1>3, <2>1, <2>2, AsMany
<1>5. Cardinality(D) = Len(q)
  <2>1. Cardinality(1 .. Len(q)) = IF 1 > Len(q) THEN 0 ELSE Len(q) - 1 + 1
    BY <1>1, FS_Interval
  <2>. QED
    BY <1>1, <2>1
<1>. QED
  BY <1>2, <1>4, <1>5

(***************************************************************************)
(* Induction.  The induction theorems of the library take a predicate as   *)
(* their parameter; with a set in its place the principle is first-order.  *)
(***************************************************************************)
LEMMA LessThanWellFounded == IsWellFoundedOn({ss \in Nat \X Nat : ss[1] < ss[2]}, Nat)
BY NatLessThanWellFounded, Zenon DEF OpToRel

(* A set of numbers has a least one.                                       *)
LEMMA LeastElement ==
    ASSUME NEW T, T \subseteq Nat, T # {}
    PROVE  \E x \in T : \A y \in T : x <= y
<1> DEFINE R == {ss \in Nat \X Nat : ss[1] < ss[2]}
<1>1. PICK x \in T : \A y \in T : ~ (<<y, x>> \in R)
  <2>1. IsWellFoundedOn(R, Nat)
    BY LessThanWellFounded
  <2> HIDE DEF R
  <2>. QED
    BY <2>1, WFMin
<1>2. \A y \in T : ~ (y < x)
  <2> SUFFICES ASSUME NEW y \in T, y < x PROVE FALSE
    OBVIOUS
  <2>1. <<y, x>> \in Nat \X Nat /\ <<y, x>>[1] < <<y, x>>[2]
    OBVIOUS
  <2>2. <<y, x>> \in R
    BY <2>1
  <2>. QED
    BY <1>1, <2>2
<1>3. \A y \in T : x <= y
  BY <1>2
<1>. QED
  BY <1>3

(* Induction on a set of numbers.                                          *)
LEMMA SetInduction ==
    ASSUME NEW T, T \subseteq Nat, 0 \in T, \A n \in T : n + 1 \in T
    PROVE  \A n \in Nat : n \in T
<1> SUFFICES ASSUME Nat \ T # {} PROVE FALSE
  OBVIOUS
<1>1. PICK x \in Nat \ T : \A y \in Nat \ T : x <= y
  BY LeastElement
<1>2. x - 1 \in Nat /\ x - 1 < x
  BY <1>1
<1>3. x - 1 \in T
  BY <1>1, <1>2
<1>. QED
  BY <1>1, <1>2, <1>3

(***************************************************************************)
(* Only.                                                                   *)
(***************************************************************************)
(* What is kept of each prefix of q.                                       *)
Keeps(q, S, n, g) ==
    g = [i \in 0 .. n |->
           IF i = 0 THEN <<>>
           ELSE IF q[i] \in S THEN Append(g[i - 1], q[i]) ELSE g[i - 1]]

(* The recursive function of Only exists.                                  *)
LEMMA KeepsExists ==
    ASSUME NEW U, NEW q \in Seq(U), NEW S
    PROVE  \E g : Keeps(q, S, Len(q), g)
<1> DEFINE T == {n \in Nat : \E g : Keeps(q, S, n, g)}
<1>1. 0 \in T
  <2>1. Keeps(q, S, 0, [i \in 0 .. 0 |-> <<>>])
    BY DEF Keeps
  <2>. QED
    BY <2>1
<1>2. ASSUME NEW n \in T PROVE n + 1 \in T
  <2>1. PICK g : Keeps(q, S, n, g)
    OBVIOUS
  <2> DEFINE h == [i \in 0 .. n + 1 |->
                     IF i <= n THEN g[i]
                     ELSE IF q[n + 1] \in S THEN Append(g[n], q[n + 1]) ELSE g[n]]
  <2>2. \A i \in 0 .. n : g[i] = IF i = 0 THEN <<>>
                                 ELSE IF q[i] \in S THEN Append(g[i - 1], q[i]) ELSE g[i - 1]
    BY <2>1 DEF Keeps
  <2>3. \A i \in 0 .. n + 1 : h[i] = IF i = 0 THEN <<>>
                                     ELSE IF q[i] \in S THEN Append(h[i - 1], q[i]) ELSE h[i - 1]
    <3> SUFFICES ASSUME NEW i \in 0 .. n + 1
                 PROVE  h[i] = IF i = 0 THEN <<>>
                               ELSE IF q[i] \in S THEN Append(h[i - 1], q[i]) ELSE h[i - 1]
      OBVIOUS
    <3>1. CASE i = 0
      BY <2>2, <3>1
    <3>2. CASE i \in 1 .. n
      <4>1. h[i] = g[i] /\ h[i - 1] = g[i - 1]
        BY <3>2
      <4>. QED
        BY <2>2, <3>2, <4>1
    <3>3. CASE i = n + 1
      <4>1. h[i - 1] = g[n] /\ i # 0
        BY <3>3
      <4>. QED
        BY <3>3, <4>1
    <3>. QED
      BY <3>1, <3>2, <3>3
  <2>4. h = [i \in 0 .. n + 1 |-> h[i]]
    OBVIOUS
  <2> HIDE DEF h
  <2>5. Keeps(q, S, n + 1, h)
    BY <2>3, <2>4 DEF Keeps
  <2>. QED
    BY <2>5
<1> HIDE DEF T
<1>3. Len(q) \in T
  <2>1. T \subseteq Nat
    BY DEF T
  <2>2. \A n \in Nat : n \in T
    BY <1>1, <1>2, <2>1, SetInduction
  <2>. QED
    BY <2>2
<1>. QED
  BY <1>3 DEF T

(* The recursive definition of Only, as a fact about a function.           *)
Kept(q, S, g) ==
    /\ g[0] = <<>>
    /\ \A i \in 1 .. Len(q) : g[i] = IF q[i] \in S THEN Append(g[i - 1], q[i]) ELSE g[i - 1]

(* Its values on the prefixes.                                             *)
LEMMA KeptPrefixes ==
    ASSUME NEW U, NEW q \in Seq(U), NEW S
    PROVE  \E g : Only(q, S) = g[Len(q)] /\ Kept(q, S, g)
<1> DEFINE g == CHOOSE h : Keeps(q, S, Len(q), h)
<1>1. Keeps(q, S, Len(q), g)
  BY KeepsExists
<1>2. Only(q, S) = g[Len(q)]
  BY DEF Only, Keeps
<1> HIDE DEF g
<1>3. \A i \in 0 .. Len(q) : g[i] = IF i = 0 THEN <<>>
                                  ELSE IF q[i] \in S THEN Append(g[i - 1], q[i]) ELSE g[i - 1]
  BY <1>1 DEF Keeps
<1>4. g[0] = <<>>
  BY <1>3
<1>5. ASSUME NEW i \in 1 .. Len(q)
      PROVE  g[i] = IF q[i] \in S THEN Append(g[i - 1], q[i]) ELSE g[i - 1]
  <2>1. i \in 0 .. Len(q) /\ i # 0
    OBVIOUS
  <2>. QED
    BY <1>3, <2>1
<1>. QED
  BY <1>2, <1>4, <1>5 DEF Kept

(* What is kept of a prefix is a sequence over the elements kept.          *)
LEMMA KeptType ==
    ASSUME NEW U, NEW q \in Seq(U), NEW S, NEW g, Kept(q, S, g)
    PROVE  \A n \in 0 .. Len(q) : g[n] \in Seq(U \cap S)
<1> DEFINE T == {n \in Nat : n <= Len(q) => g[n] \in Seq(U \cap S)}
<1>1. 0 \in T
  <2>1. g[0] = <<>>
    BY DEF Kept
  <2>2. <<>> \in Seq(U \cap S)
    OBVIOUS
  <2>. QED
    BY <2>1, <2>2
<1>2. ASSUME NEW n \in T PROVE n + 1 \in T
  <2> SUFFICES ASSUME n + 1 <= Len(q) PROVE g[n + 1] \in Seq(U \cap S)
    OBVIOUS
  <2>1. n + 1 \in 1 .. Len(q) /\ n + 1 - 1 = n /\ g[n] \in Seq(U \cap S) /\ q[n + 1] \in U
    OBVIOUS
  <2>2. g[n + 1] = IF q[n + 1] \in S THEN Append(g[n], q[n + 1]) ELSE g[n]
    BY <2>1 DEF Kept
  <2>. QED
    BY <2>1, <2>2
<1> HIDE DEF T
<1>3. \A n \in Nat : n \in T
  <2>1. T \subseteq Nat
    BY DEF T
  <2>. QED
    BY <1>1, <1>2, <2>1, SetInduction
<1>. QED
  BY <1>3 DEF T

(* What Only keeps is of the elements, and in the set.                     *)
LEMMA OnlyType ==
    ASSUME NEW U, NEW q \in Seq(U), NEW S
    PROVE  Only(q, S) \in Seq(U \cap S)
<1>1. PICK g : Only(q, S) = g[Len(q)] /\ Kept(q, S, g)
  BY KeptPrefixes
<1>2. Len(q) \in 0 .. Len(q)
  OBVIOUS
<1>. QED
  BY <1>1, <1>2, KeptType

(* What is kept is what is in q and in S, as often as it is in q.          *)
LEMMA OnlyKeeps ==
    ASSUME NEW U, NEW q \in Seq(U), NEW S
    PROVE  /\ \A x : In(Only(q, S), x) <=> In(q, x) /\ x \in S
           /\ Distinct(q) => Distinct(Only(q, S))
<1>1. PICK g : Only(q, S) = g[Len(q)] /\ Kept(q, S, g)
  BY KeptPrefixes
<1>2. \A n \in 0 .. Len(q) : g[n] \in Seq(U \cap S)
  BY <1>1, KeptType
<1> DEFINE Good(n) == /\ \A x : In(g[n], x) <=> x \in S /\ \E i \in 1 .. n : q[i] = x
                      /\ Distinct(q) => Distinct(g[n])
           T == {n \in Nat : n <= Len(q) => Good(n)}
<1>3. 0 \in T
  <2>1. g[0] = <<>>
    BY <1>1 DEF Kept
  <2>2. Good(0)
    BY <2>1 DEF In, Distinct
  <2>. QED
    BY <2>2
<1>4. ASSUME NEW n \in T PROVE n + 1 \in T
  <2> SUFFICES ASSUME n + 1 <= Len(q) PROVE Good(n + 1)
    OBVIOUS
  <2>0. n \in 0 .. Len(q) /\ n + 1 \in 1 .. Len(q) /\ n + 1 - 1 = n /\ q[n + 1] \in U /\ Good(n)
    OBVIOUS
  <2> DEFINE e == q[n + 1]
             s == g[n]
  <2>1. g[n + 1] = IF e \in S THEN Append(s, e) ELSE s
    BY <1>1, <2>0 DEF Kept
  <2>2. s \in Seq(U \cap S)
    BY <1>2, <2>0
  <2>3. (\A x : In(s, x) <=> x \in S /\ \E i \in 1 .. n : q[i] = x)
        /\ (Distinct(q) => Distinct(s))
    BY <2>0
  <2>4. \A x : (\E i \in 1 .. n + 1 : q[i] = x) <=> (x = e \/ \E i \in 1 .. n : q[i] = x)
    <3> TAKE x
    <3>1. \A i \in 1 .. n + 1 : i = n + 1 \/ i \in 1 .. n
      BY <2>0
    <3>2. n + 1 \in 1 .. n + 1 /\ \A i \in 1 .. n : i \in 1 .. n + 1
      BY <2>0
    <3>. QED
      BY <3>1, <3>2
  <2>5. Distinct(q) => \A i \in 1 .. n : q[i] # e
    BY <2>0 DEF Distinct
  <2>6. CASE e \in S
    <3>1. /\ \A x : In(Append(s, e), x) <=> In(s, x) \/ x = e
          /\ Distinct(s) /\ ~In(s, e) => Distinct(Append(s, e))
      BY <2>2, <2>0, <2>6, AppendQueue
    <3>2. g[n + 1] = Append(s, e)
      BY <2>1, <2>6
    <3> HIDE DEF s, e
    <3>3. \A x : In(g[n + 1], x) <=> x \in S /\ \E i \in 1 .. n + 1 : q[i] = x
      BY <2>3, <2>4, <2>6, <3>1, <3>2
    <3>4. Distinct(q) => Distinct(g[n + 1])
      BY <2>3, <2>5, <3>1, <3>2
    <3>. QED
      BY <3>3, <3>4
  <2>7. CASE e \notin S
    BY <2>1, <2>3, <2>4, <2>7
  <2>. QED
    BY <2>6, <2>7
<1> HIDE DEF T
<1>5. \A n \in Nat : n \in T
  <2>1. T \subseteq Nat
    BY DEF T
  <2>. QED
    BY <1>3, <1>4, <2>1, SetInduction
<1>6. Good(Len(q))
  <2>1. Len(q) \in T /\ Len(q) <= Len(q)
    BY <1>5
  <2> HIDE DEF Good
  <2>. QED
    BY <2>1 DEF T
<1>. QED
  BY <1>1, <1>6 DEF In

(* What joins the end of q joins the end of what is kept, if it is in S.   *)
LEMMA OnlyAppend ==
    ASSUME NEW U, NEW q \in Seq(U), NEW e \in U, NEW S
    PROVE  Only(Append(q, e), S) = IF e \in S THEN Append(Only(q, S), e) ELSE Only(q, S)
<1> DEFINE r == Append(q, e)
<1>1. /\ r \in Seq(U) /\ Len(r) = Len(q) + 1 /\ Len(q) \in Nat
      /\ \A i \in 1 .. Len(q) : r[i] = q[i]
      /\ r[Len(q) + 1] = e
  OBVIOUS
<1> HIDE DEF r
<1>2. PICK g : Only(q, S) = g[Len(q)] /\ Kept(q, S, g)
  BY KeptPrefixes
<1>3. PICK h : Only(r, S) = h[Len(r)] /\ Kept(r, S, h)
  BY <1>1, KeptPrefixes
<1> DEFINE T == {n \in Nat : n <= Len(q) => g[n] = h[n]}
<1>4. 0 \in T
  BY <1>2, <1>3 DEF Kept
<1>5. ASSUME NEW n \in T PROVE n + 1 \in T
  <2> SUFFICES ASSUME n + 1 <= Len(q) PROVE g[n + 1] = h[n + 1]
    OBVIOUS
  <2>1. n + 1 \in 1 .. Len(q) /\ n + 1 \in 1 .. Len(r) /\ n + 1 - 1 = n /\ g[n] = h[n]
        /\ r[n + 1] = q[n + 1]
    BY <1>1
  <2>2. g[n + 1] = IF q[n + 1] \in S THEN Append(g[n], q[n + 1]) ELSE g[n]
    BY <1>2, <2>1 DEF Kept
  <2>3. h[n + 1] = IF r[n + 1] \in S THEN Append(h[n], r[n + 1]) ELSE h[n]
    BY <1>3, <2>1 DEF Kept
  <2>. QED
    BY <2>1, <2>2, <2>3
<1> HIDE DEF T
<1>6. \A n \in Nat : n \in T
  <2>1. T \subseteq Nat
    BY DEF T
  <2>. QED
    BY <1>4, <1>5, <2>1, SetInduction
<1>7. g[Len(q)] = h[Len(q)]
  BY <1>1, <1>6 DEF T
<1>8. h[Len(q) + 1] = IF e \in S THEN Append(h[Len(q)], e) ELSE h[Len(q)]
  <2>1. Len(q) + 1 \in 1 .. Len(r) /\ Len(q) + 1 - 1 = Len(q)
    BY <1>1
  <2>. QED
    BY <1>1, <1>3, <2>1 DEF Kept
<1>. QED
  BY <1>1, <1>2, <1>3, <1>7, <1>8 DEF r

(* An element at the end of a sequence that another one precedes.          *)
LEMMA AppendToConc ==
    ASSUME NEW U
    PROVE  \A s \in Seq(U), x, y \in U : Append(<<x>> \o s, y) = <<x>> \o Append(s, y)
  OBVIOUS

(* What leaves the front of q leaves the front of what is kept, if it is   *)
(* in S.                                                                   *)
LEMMA OnlyTail ==
    ASSUME NEW U, NEW q \in Seq(U), NEW S, q # <<>>
    PROVE  /\ Head(q) \in S => /\ Only(q, S) # <<>> /\ Head(Only(q, S)) = Head(q)
                               /\ Only(Tail(q), S) = Tail(Only(q, S))
           /\ Head(q) \notin S => Only(Tail(q), S) = Only(q, S)
<1> DEFINE r == Tail(q)
<1>1. /\ r \in Seq(U) /\ Len(q) = Len(r) + 1 /\ Len(r) \in Nat
      /\ \A i \in 1 .. Len(r) : r[i] = q[i + 1]
      /\ Head(q) = q[1] /\ q[1] \in U
  OBVIOUS
<1> HIDE DEF r
<1>2. PICK g : Only(q, S) = g[Len(q)] /\ Kept(q, S, g)
  BY KeptPrefixes
<1>3. PICK h : Only(r, S) = h[Len(r)] /\ Kept(r, S, h)
  BY <1>1, KeptPrefixes
<1>4. \A n \in 0 .. Len(r) : h[n] \in Seq(U \cap S)
  BY <1>1, <1>3, KeptType
<1> DEFINE T == {n \in Nat : n <= Len(r) =>
                    g[n + 1] = IF q[1] \in S THEN <<q[1]>> \o h[n] ELSE h[n]}
<1>5. 0 \in T
  <2>1. g[1] = IF q[1] \in S THEN Append(<<>>, q[1]) ELSE <<>>
    <3>1. 1 \in 1 .. Len(q) /\ 1 - 1 = 0
      BY <1>1
    <3>. QED
      BY <1>2, <3>1 DEF Kept
  <2>2. h[0] = <<>>
    BY <1>3 DEF Kept
  <2>3. Append(<<>>, q[1]) = <<q[1]>> \o <<>>
    BY <1>1
  <2>4. g[0 + 1] = g[1]
    OBVIOUS
  <2>5. g[0 + 1] = IF q[1] \in S THEN <<q[1]>> \o h[0] ELSE h[0]
    BY <2>1, <2>2, <2>3, <2>4
  <2>. QED
    BY <2>5
<1>6. ASSUME NEW n \in T PROVE n + 1 \in T
  <2> SUFFICES ASSUME n + 1 <= Len(r)
               PROVE  g[n + 1 + 1] = IF q[1] \in S THEN <<q[1]>> \o h[n + 1] ELSE h[n + 1]
    OBVIOUS
  <2>1. /\ n + 2 \in 1 .. Len(q) /\ n + 2 - 1 = n + 1 /\ n + 1 \in 1 .. Len(r) /\ n + 1 - 1 = n
        /\ n + 1 + 1 = n + 2 /\ r[n + 1] = q[n + 2] /\ n \in 0 .. Len(r)
        /\ g[n + 1] = IF q[1] \in S THEN <<q[1]>> \o h[n] ELSE h[n]
    BY <1>1
  <2>2. g[n + 2] = IF q[n + 2] \in S THEN Append(g[n + 1], q[n + 2]) ELSE g[n + 1]
    BY <1>2, <2>1 DEF Kept
  <2>3. h[n + 1] = IF q[n + 2] \in S THEN Append(h[n], q[n + 2]) ELSE h[n]
    BY <1>3, <2>1 DEF Kept
  <2>4. h[n] \in Seq(U \cap S) /\ q[n + 2] \in U
    BY <1>4, <2>1
  <2>5. q[n + 2] \in S /\ q[1] \in S =>
          Append(<<q[1]>> \o h[n], q[n + 2]) = <<q[1]>> \o Append(h[n], q[n + 2])
    <3> SUFFICES ASSUME q[n + 2] \in S, q[1] \in S
                 PROVE  Append(<<q[1]>> \o h[n], q[n + 2]) = <<q[1]>> \o Append(h[n], q[n + 2])
      OBVIOUS
    <3>1. q[1] \in U \cap S /\ q[n + 2] \in U \cap S
      BY <1>1, <2>4
    <3> DEFINE V == U \cap S
    <3>2. \A s \in Seq(V), x, y \in V : Append(<<x>> \o s, y) = <<x>> \o Append(s, y)
      <4> HIDE DEF V
      <4>. QED
        BY AppendToConc, SMTT(30)
    <3>3. h[n] \in Seq(U \cap S)
      BY <2>4
    <3>. QED
      BY <3>1, <3>2, <3>3
  <2> HIDE DEF r
  <2>6. CASE q[1] \in S
    <3>1. g[n + 1] = <<q[1]>> \o h[n]
      BY <2>1, <2>6
    <3>. QED
      BY <2>1, <2>2, <2>3, <2>5, <2>6, <3>1
  <2>7. CASE q[1] \notin S
    BY <2>1, <2>2, <2>3, <2>7
  <2>. QED
    BY <2>6, <2>7
<1> HIDE DEF T
<1>7. \A n \in Nat : n \in T
  <2>1. T \subseteq Nat
    BY DEF T
  <2>. QED
    BY <1>5, <1>6, <2>1, SetInduction
<1>8. Only(q, S) = IF q[1] \in S THEN <<q[1]>> \o Only(r, S) ELSE Only(r, S)
  BY <1>1, <1>2, <1>3, <1>7 DEF T
<1>9. Only(r, S) \in Seq(U \cap S)
  BY <1>1, OnlyType
<1>10. ASSUME q[1] \in S
       PROVE  Only(q, S) # <<>> /\ Head(Only(q, S)) = q[1] /\ Tail(Only(q, S)) = Only(r, S)
  <2> DEFINE s == Only(r, S)
  <2>1. s \in Seq(U \cap S) /\ Only(q, S) = <<q[1]>> \o s
    BY <1>8, <1>9, <1>10
  <2> HIDE DEF s
  <2>2. <<q[1]>> \o s # <<>> /\ Head(<<q[1]>> \o s) = q[1] /\ Tail(<<q[1]>> \o s) = s
    BY <1>1, <1>10, <2>1
  <2>. QED
    BY <2>1, <2>2 DEF s
<1>. QED
  BY <1>1, <1>8, <1>10 DEF r

(* Nothing is kept of nothing.                                             *)
LEMMA OnlyEmpty == ASSUME NEW S PROVE Only(<<>>, S) = <<>>
<1>1. PICK g : Only(<<>>, S) = g[Len(<<>>)] /\ Kept(<<>>, S, g)
  <2>1. <<>> \in Seq({})
    OBVIOUS
  <2>. QED
    BY <2>1, KeptPrefixes
<1>. QED
  BY <1>1 DEF Kept

(***************************************************************************)
(* A sequence through a function.                                          *)
(***************************************************************************)
Through(r, f) == [i \in DOMAIN r |-> f[r[i]]]

(* Through a function, from both ends.                                     *)
LEMMA ThroughAppend ==
    ASSUME NEW U, NEW V, NEW f \in [U -> V], NEW r \in Seq(U), NEW e \in U,
           NEW s, s = Append(r, e)
    PROVE  Through(s, f) = Append(Through(r, f), f[e])
<1> DEFINE t == Through(r, f)
<1>1. t \in Seq(V) /\ Len(t) = Len(r) /\ DOMAIN t = 1 .. Len(r) /\ Len(r) \in Nat
      /\ \A i \in 1 .. Len(r) : t[i] = f[r[i]]
  BY DEF Through
<1>2. s \in Seq(U) /\ Len(s) = Len(r) + 1 /\ DOMAIN s = 1 .. Len(r) + 1
      /\ s[Len(r) + 1] = e /\ \A i \in 1 .. Len(r) : s[i] = r[i]
  OBVIOUS
<1>3. Through(s, f) = [i \in 1 .. Len(r) + 1 |-> f[s[i]]]
  BY <1>2 DEF Through
<1> HIDE DEF t
<1>4. Append(t, f[e]) = [i \in 1 .. Len(r) + 1 |-> IF i = Len(r) + 1 THEN f[e] ELSE t[i]]
  BY <1>1
<1>5. \A i \in 1 .. Len(r) + 1 : f[s[i]] = IF i = Len(r) + 1 THEN f[e] ELSE t[i]
  BY <1>1, <1>2
<1>6. Through(s, f) = Append(t, f[e])
  BY <1>3, <1>4, <1>5
<1>. QED
  BY <1>6 DEF t

(* A queue seen through a function loses the image of its first element.   *)
LEMMA ThroughTail ==
    ASSUME NEW U, NEW V, NEW f \in [U -> V], NEW r \in Seq(U), r # <<>>
    PROVE  /\ Through(r, f) # <<>> /\ Head(Through(r, f)) = f[Head(r)]
           /\ Through(Tail(r), f) = Tail(Through(r, f))
<1> DEFINE t == Through(r, f)
           s == Tail(r)
<1>1. t \in Seq(V) /\ Len(t) = Len(r) /\ DOMAIN t = 1 .. Len(r) /\ Len(r) \in Nat /\ Len(r) > 0
      /\ \A i \in 1 .. Len(r) : t[i] = f[r[i]]
  BY DEF Through
<1>2. s \in Seq(U) /\ Len(s) = Len(r) - 1 /\ DOMAIN s = 1 .. Len(r) - 1
      /\ \A i \in 1 .. Len(r) - 1 : s[i] = r[i + 1]
  OBVIOUS
<1> HIDE DEF s
<1>3. Through(s, f) = [i \in 1 .. Len(r) - 1 |-> f[s[i]]]
  BY <1>2 DEF Through
<1> HIDE DEF t
<1>4. Tail(t) = [i \in 1 .. Len(r) - 1 |-> t[i + 1]]
  <2> DEFINE u == Tail(t)
  <2>1. t # <<>>
    BY <1>1
  <2>2. u \in Seq(V) /\ Len(u) = Len(r) - 1 /\ \A i \in 1 .. Len(r) - 1 : u[i] = t[i + 1]
    BY <1>1, <2>1
  <2> HIDE DEF u
  <2>3. u = [i \in 1 .. Len(u) |-> u[i]]
    BY <2>2
  <2>. QED
    BY <2>2, <2>3 DEF u
<1>5. \A i \in 1 .. Len(r) - 1 : f[s[i]] = t[i + 1]
  BY <1>1, <1>2
<1>6. Through(s, f) = Tail(t)
  BY <1>3, <1>4, <1>5
<1>7. t # <<>> /\ Head(t) = f[Head(r)]
  BY <1>1
<1>. QED
  BY <1>6, <1>7 DEF s, t

=============================================================================
