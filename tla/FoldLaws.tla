------------------------------ MODULE FoldLaws ------------------------------
(***************************************************************************)
(* Laws of FoldLeft (SequencesExt) for an operator Op.                     *)
(*                                                                         *)
(* An operator cannot be given to a lemma as a parameter, but it can be    *)
(* given to a module: a module of proofs says                              *)
(*     F == INSTANCE FoldLaws WITH Op <- ApplyOp                           *)
(* and cites F!FoldAppend of its own fold.  The first argument of Op is a  *)
(* parameter p that is the same throughout a fold.                         *)
(***************************************************************************)
EXTENDS Integers, Sequences, TLAPS

CONSTANT Op(_, _, _)

Greatest(D) == CHOOSE x \in D : \A y \in D : x >= y

(* What FoldLeft(Op, b, s) is by its definition. *)
Fold(p, b, s) ==
    LET iter[D \in SUBSET DOMAIN s] ==
            IF D = {} THEN b
            ELSE LET x == Greatest(D) IN Op(p, iter[D \ {x}], s[x])
    IN  iter[DOMAIN s]

-----------------------------------------------------------------------------
(* A set of naturals with 0 and every successor has them all.  Each lemma  *)
(* whose proof is an induction has this among its assumptions, and a       *)
(* module that cites one proves it once from WellFoundedInduction: were it *)
(* proved here, every instance of this module would carry the theorems of  *)
(* that module along.                                                      *)
Induction == \A S : 0 \in S /\ (\A n \in Nat : n \in S => n + 1 \in S) => Nat \subseteq S

LEMMA SetInduction ==
    ASSUME Induction, NEW S, 0 \in S, \A n \in Nat : n \in S => n + 1 \in S
    PROVE  Nat \subseteq S
  BY DEF Induction

(* g maps each place of s up to n to the result of the fold there.         *)
Follows(p, g, s, n) == \A k \in 1 .. n : g[k] = Op(p, g[k - 1], s[k])

(* Two functions that agree at 0 and follow one recurrence up to n agree.  *)
LEMMA RecurrenceUnique ==
    ASSUME Induction, NEW p, NEW n \in Nat, NEW s, NEW g, NEW h,
           g[0] = h[0], Follows(p, g, s, n), Follows(p, h, s, n)
    PROVE  g[n] = h[n]
<1> DEFINE S == {k \in Nat : k <= n => g[k] = h[k]}
<1>1. 0 \in S
  OBVIOUS
<1>2. ASSUME NEW k \in Nat, k \in S PROVE k + 1 \in S
  <2> SUFFICES ASSUME k + 1 <= n PROVE g[k + 1] = h[k + 1]
    OBVIOUS
  <2>1. g[k] = h[k] /\ k + 1 \in 1 .. n /\ (k + 1) - 1 = k
    BY <1>2
  <2>2. g[k + 1] = Op(p, g[k], s[k + 1]) /\ h[k + 1] = Op(p, h[k], s[k + 1])
    BY <2>1 DEF Follows
  <2> QED
    BY <2>1, <2>2
<1>3. Nat \subseteq S
  BY <1>1, <1>2, SetInduction
<1> QED
  BY <1>3

-----------------------------------------------------------------------------
LEMMA GreatestIs ==
    ASSUME NEW D, NEW x \in D, \A y \in D : x >= y, D \subseteq Int
    PROVE  Greatest(D) = x
<1>1. \A z \in D : (\A y \in D : z >= y) => z = x
  OBVIOUS
<1> QED
  BY <1>1 DEF Greatest

(* The body of the recursive function that Fold chooses. *)
Iterates(p, it, b, s, n) ==
    it = [D \in SUBSET (1 .. n) |->
            IF D = {} THEN b ELSE Op(p, it[D \ {Greatest(D)}], s[Greatest(D)])]

(* There is such a function, for every n. *)
LEMMA IterExists ==
    ASSUME Induction, NEW p, NEW b, NEW s, NEW n \in Nat
    PROVE  \E it : Iterates(p, it, b, s, n)
<1> DEFINE S == {k \in Nat : \E it : Iterates(p, it, b, s, k)}
<1>1. 0 \in S
  <2> DEFINE it == [D \in SUBSET (1 .. 0) |-> b]
             G(f, D) == IF D = {} THEN b ELSE Op(p, f[D \ {Greatest(D)}], s[Greatest(D)])
  <2>1. \A D \in SUBSET (1 .. 0) : G(it, D) = b
    <3>1. \A D \in SUBSET (1 .. 0) : D = {}
      OBVIOUS
    <3> QED
      BY <3>1
  <2> HIDE DEF G
  <2>2. it = [D \in SUBSET (1 .. 0) |-> G(it, D)]
    BY <2>1
  <2>3. Iterates(p, it, b, s, 0)
    BY <2>2 DEF Iterates, G
  <2> QED
    BY <2>3
<1>2. ASSUME NEW k \in Nat, k \in S PROVE k + 1 \in S
  <2>1. PICK g : Iterates(p, g, b, s, k)
    BY <1>2
  <2> DEFINE G(it, D) == IF D = {} THEN b ELSE Op(p, it[D \ {Greatest(D)}], s[Greatest(D)])
             h == [D \in SUBSET (1 .. k + 1) |->
                     IF k + 1 \in D THEN Op(p, g[D \ {k + 1}], s[k + 1]) ELSE g[D]]
  <2>2. ASSUME NEW D \in SUBSET (1 .. k + 1) PROVE h[D] = G(h, D)
    <3>1. CASE k + 1 \in D
      <4>1. Greatest(D) = k + 1
        <5>1. D \subseteq Int /\ k + 1 \in D /\ \A y \in D : k + 1 >= y
          BY <3>1
        <5> QED
          BY <5>1, GreatestIs
      <4>2. D \ {k + 1} \in SUBSET (1 .. k + 1) /\ k + 1 \notin D \ {k + 1} /\ D # {}
        BY <3>1
      <4>3. h[D \ {k + 1}] = g[D \ {k + 1}]
        BY <4>2
      <4> QED
        BY <3>1, <4>1, <4>2, <4>3
    <3>2. CASE k + 1 \notin D
      <4>1. D \in SUBSET (1 .. k)
        BY <3>2
      <4>2. h[D] = g[D] /\ g[D] = G(g, D)
        BY <2>1, <3>2, <4>1 DEF Iterates
      <4>3. CASE D = {}
        BY <4>2, <4>3
      <4>4. CASE D # {}
        <5> DEFINE E == D \ {Greatest(D)}
        <5>1. E \in SUBSET (1 .. k + 1) /\ k + 1 \notin E
          BY <3>2
        <5>2. h[E] = g[E]
          BY <5>1
        <5> QED
          BY <4>2, <4>4, <5>2
      <4> QED
        BY <4>3, <4>4
    <3> QED
      BY <3>1, <3>2
  <2>3. h = [D \in SUBSET (1 .. k + 1) |-> G(h, D)]
    <3> DEFINE hh == [D \in SUBSET (1 .. k + 1) |-> G(h, D)]
    <3>1. \A D \in SUBSET (1 .. k + 1) : h[D] = hh[D]
      BY <2>2
    <3>2. h = [D \in SUBSET (1 .. k + 1) |-> h[D]]
      OBVIOUS
    <3> QED
      BY <3>1, <3>2
  <2>4. Iterates(p, h, b, s, k + 1)
    <3> HIDE DEF h
    <3> QED
      BY <2>3 DEF Iterates
  <2> QED
    BY <2>4
<1>3. Nat \subseteq S
  BY <1>1, <1>2, SetInduction
<1> QED
  BY <1>3

(* The results of the fold up to each place of s, from b on.               *)
Results(p, g, b, s) == g[0] = b /\ Follows(p, g, s, Len(s))

LEMMA FoldResults ==
    ASSUME Induction, NEW p, NEW E, NEW s \in Seq(E), NEW b
    PROVE  \E g : Results(p, g, b, s) /\ Fold(p, b, s) = g[Len(s)]
<1> DEFINE n == Len(s)
           iter == CHOOSE it : Iterates(p, it, b, s, n)
           g == [k \in 0 .. n |-> iter[1 .. k]]
<1>1. n \in Nat /\ DOMAIN s = 1 .. n
  OBVIOUS
<1>2. Fold(p, b, s) = iter[1 .. n]
  BY <1>1 DEF Fold, Iterates
<1>3. Iterates(p, iter, b, s, n)
  <2>1. \E it : Iterates(p, it, b, s, n)
    BY <1>1, IterExists
  <2> QED
    BY <2>1
<1> HIDE DEF iter
<1>4. iter[{}] = b
  BY <1>3 DEF Iterates
<1>5. ASSUME NEW k \in 1 .. n PROVE iter[1 .. k] = Op(p, iter[1 .. (k - 1)], s[k])
  <2>1. Greatest(1 .. k) = k
    <3>1. 1 .. k \subseteq Int /\ k \in 1 .. k /\ \A y \in 1 .. k : k >= y
      BY <1>1
    <3> QED
      BY <3>1, GreatestIs
  <2>2. (1 .. k) \ {k} = 1 .. (k - 1)
    <3>1. k \in Int
      BY <1>1
    <3> QED
      BY <3>1
  <2>3. 1 .. k # {} /\ 1 .. k \in SUBSET (1 .. n)
    <3>1. k \in Int /\ n \in Int /\ 1 <= k /\ k <= n
      BY <1>1
    <3> HIDE DEF n
    <3>2. k \in 1 .. k
      BY <3>1
    <3>3. \A j \in 1 .. k : j \in 1 .. n
      BY <3>1
    <3> QED
      BY <3>2, <3>3
  <2> QED
    BY <1>3, <2>1, <2>2, <2>3 DEF Iterates
<1>6. 1 .. 0 = {}
  OBVIOUS
<1>7. g[0] = b
  BY <1>1, <1>4, <1>6
<1>8. \A k \in 1 .. n : g[k] = Op(p, g[k - 1], s[k])
  <2> SUFFICES ASSUME NEW k \in 1 .. n PROVE g[k] = Op(p, g[k - 1], s[k])
    OBVIOUS
  <2>1. k \in 0 .. n /\ k - 1 \in 0 .. n
    BY <1>1
  <2> QED
    BY <1>5, <2>1
<1>9. Results(p, g, b, s)
  BY <1>7, <1>8 DEF Results, Follows
<1>10. Fold(p, b, s) = g[Len(s)]
  BY <1>1, <1>2
<1> HIDE DEF g
<1> QED
  BY <1>9, <1>10

-----------------------------------------------------------------------------
(* The laws. *)

(* An empty sequence leaves b. *)
LEMMA FoldEmpty == ASSUME Induction, NEW p, NEW b PROVE Fold(p, b, <<>>) = b
<1>1. <<>> \in Seq({}) /\ Len(<<>>) = 0
  OBVIOUS
<1>2. PICK g : Results(p, g, b, <<>>) /\ Fold(p, b, <<>>) = g[Len(<<>>)]
  BY <1>1, FoldResults
<1> QED
  BY <1>1, <1>2 DEF Results

(* The last element is applied last. *)
LEMMA FoldAppend ==
    ASSUME Induction, NEW p, NEW E, NEW s \in Seq(E), NEW e \in E, NEW b
    PROVE  Fold(p, b, Append(s, e)) = Op(p, Fold(p, b, s), e)
<1> DEFINE n == Len(s)
           t == Append(s, e)
<1>1. n \in Nat /\ t \in Seq(E) /\ Len(t) = n + 1 /\ t[n + 1] = e /\ \A k \in 1 .. n : t[k] = s[k]
  OBVIOUS
<1>2. PICK g : Results(p, g, b, s) /\ Fold(p, b, s) = g[n]
  BY FoldResults
<1>3. PICK h : Results(p, h, b, t) /\ Fold(p, b, t) = h[n + 1]
  BY <1>1, FoldResults
<1>4. g[0] = h[0] /\ Follows(p, g, s, n) /\ Follows(p, h, s, n)
  BY <1>1, <1>2, <1>3 DEF Results, Follows
<1>5. g[n] = h[n]
  BY <1>1, <1>4, RecurrenceUnique
<1>6. h[n + 1] = Op(p, h[n], e)
  BY <1>1, <1>3 DEF Results, Follows
<1> QED
  BY <1>2, <1>3, <1>5, <1>6

(* A single element is applied once. *)
LEMMA FoldSingle == ASSUME Induction, NEW p, NEW b, NEW e PROVE Fold(p, b, <<e>>) = Op(p, b, e)
<1>1. <<e>> \in Seq({e}) /\ Len(<<e>>) = 1 /\ <<e>>[1] = e
  OBVIOUS
<1>2. PICK g : Results(p, g, b, <<e>>) /\ Fold(p, b, <<e>>) = g[Len(<<e>>)]
  BY <1>1, FoldResults
<1>3. g[0] = b /\ g[1] = Op(p, g[0], e)
  <2>1. \A k \in 1 .. 1 : g[k] = Op(p, g[k - 1], <<e>>[k])
    BY <1>1, <1>2 DEF Results, Follows
  <2>2. 1 \in 1 .. 1 /\ 1 - 1 = 0
    OBVIOUS
  <2>3. g[1] = Op(p, g[1 - 1], <<e>>[1])
    BY <2>1, <2>2
  <2> QED
    BY <1>1, <1>2, <2>2, <2>3 DEF Results
<1> QED
  BY <1>1, <1>2, <1>3

(* The first element is applied first. *)
LEMMA FoldHead ==
    ASSUME Induction, NEW p, NEW E, NEW s \in Seq(E), s # <<>>, NEW b
    PROVE  Fold(p, b, s) = Fold(p, Op(p, b, Head(s)), Tail(s))
<1> DEFINE n == Len(s) - 1
           t == Tail(s)
<1>1. n \in Nat /\ Len(s) = n + 1 /\ t \in Seq(E) /\ Len(t) = n /\ s[1] = Head(s)
      /\ \A k \in 1 .. n : t[k] = s[k + 1]
  OBVIOUS
<1>2. PICK g : Results(p, g, b, s) /\ Fold(p, b, s) = g[n + 1]
  BY <1>1, FoldResults
<1>3. PICK h : Results(p, h, Op(p, b, Head(s)), t) /\ Fold(p, Op(p, b, Head(s)), t) = h[n]
  BY <1>1, FoldResults
<1> DEFINE f == [k \in 0 .. n |-> g[k + 1]]
<1>4. f[0] = h[0]
  <2>1. g[1] = Op(p, g[0], s[1]) /\ g[0] = b
    BY <1>1, <1>2 DEF Results, Follows
  <2> QED
    BY <1>1, <1>3, <2>1 DEF Results
<1>5. Follows(p, f, t, n)
  <2> SUFFICES ASSUME NEW k \in 1 .. n PROVE f[k] = Op(p, f[k - 1], t[k])
    BY DEF Follows
  <2>1. k + 1 \in 1 .. Len(s) /\ (k + 1) - 1 = k /\ (k - 1) + 1 = k /\ k \in 0 .. n /\ k - 1 \in 0 .. n
    BY <1>1
  <2>2. g[k + 1] = Op(p, g[k], s[k + 1])
    BY <1>2, <2>1 DEF Results, Follows
  <2>3. f[k] = g[k + 1] /\ f[k - 1] = g[k]
    BY <2>1
  <2> QED
    BY <1>1, <2>2, <2>3
<1>6. Follows(p, h, t, n)
  BY <1>1, <1>3 DEF Results
<1>7. f[n] = h[n]
  <2>1. n \in Nat
    BY <1>1
  <2> HIDE DEF f, n, t
  <2> QED
    BY <2>1, <1>4, <1>5, <1>6, RecurrenceUnique
<1>8. f[n] = g[n + 1]
  BY <1>1
<1> QED
  BY <1>2, <1>3, <1>7, <1>8

(* What a fold makes of two sequences, one after the other.                *)
LEMMA FoldConcat ==
    ASSUME Induction, NEW p, NEW E, NEW s \in Seq(E), NEW t \in Seq(E), NEW b
    PROVE  Fold(p, b, s \o t) = Fold(p, Fold(p, b, s), t)
<1> DEFINE n == Len(s)
           m == Len(t)
           u == s \o t
<1>1. /\ n \in Nat /\ m \in Nat /\ u \in Seq(E) /\ Len(u) = n + m
      /\ \A k \in 1 .. n : u[k] = s[k]
      /\ \A k \in 1 .. m : u[k + n] = t[k]
  OBVIOUS
<1>2. PICK g : Results(p, g, b, s) /\ Fold(p, b, s) = g[n]
  BY FoldResults
<1>3. PICK h : Results(p, h, b, u) /\ Fold(p, b, u) = h[n + m]
  BY <1>1, FoldResults
<1>4. PICK f : Results(p, f, Fold(p, b, s), t) /\ Fold(p, Fold(p, b, s), t) = f[m]
  BY FoldResults
<1> DEFINE e == [k \in 0 .. m |-> h[k + n]]
<1> HIDE DEF u
<1>5. g[n] = h[n]
  <2>1. g[0] = h[0] /\ Follows(p, g, s, n) /\ Follows(p, h, s, n)
    BY <1>1, <1>2, <1>3 DEF Results, Follows
  <2> QED
    BY <1>1, <2>1, RecurrenceUnique
<1> HIDE DEF n, m
<1>6. f[0] = e[0]
  BY <1>1, <1>2, <1>4, <1>5 DEF Results
<1>7. Follows(p, f, t, m)
  BY <1>4 DEF Results, m
<1>8. Follows(p, e, t, m)
  <2> SUFFICES ASSUME NEW k \in 1 .. m PROVE e[k] = Op(p, e[k - 1], t[k])
    BY DEF Follows
  <2>1. k + n \in 1 .. n + m /\ (k + n) - 1 = (k - 1) + n /\ k \in 0 .. m /\ k - 1 \in 0 .. m
    BY <1>1
  <2>2. h[k + n] = Op(p, h[(k + n) - 1], u[k + n])
    BY <1>1, <1>3, <2>1 DEF Results, Follows
  <2>3. e[k] = h[k + n] /\ e[k - 1] = h[(k + n) - 1]
    BY <2>1
  <2> QED
    BY <1>1, <2>2, <2>3
<1>9. f[m] = e[m]
  <2> HIDE DEF e
  <2> QED
    BY <1>1, <1>6, <1>7, <1>8, RecurrenceUnique
<1>10. e[m] = h[n + m]
  BY <1>1
<1> QED
  BY <1>3, <1>4, <1>9, <1>10 DEF u

(* A set that holds b and that Op does not leave holds the result. *)
Closed(p, T, E) == \A x \in T, e \in E : Op(p, x, e) \in T

LEMMA FoldStaysIn ==
    ASSUME Induction, NEW p, NEW E, NEW s \in Seq(E), NEW T, NEW b \in T, Closed(p, T, E)
    PROVE  Fold(p, b, s) \in T
<1> DEFINE n == Len(s)
<1>1. PICK g : Results(p, g, b, s) /\ Fold(p, b, s) = g[n]
  BY FoldResults
<1> DEFINE S == {k \in Nat : k <= n => g[k] \in T}
<1>2. n \in Nat
  OBVIOUS
<1>3. 0 \in S
  BY <1>1 DEF Results
<1>4. ASSUME NEW k \in Nat, k \in S PROVE k + 1 \in S
  <2> SUFFICES ASSUME k + 1 <= n PROVE g[k + 1] \in T
    OBVIOUS
  <2>1. g[k] \in T /\ k + 1 \in 1 .. n /\ (k + 1) - 1 = k
    BY <1>4
  <2>2. s[k + 1] \in E
    BY <2>1
  <2>3. g[k + 1] = Op(p, g[k], s[k + 1])
    BY <1>1, <2>1 DEF Results, Follows
  <2> QED
    BY <2>1, <2>2, <2>3 DEF Closed
<1>5. Nat \subseteq S
  BY <1>3, <1>4, SetInduction
<1> QED
  BY <1>1, <1>2, <1>5

(* The results of a fold are in a set R; a part T of R that holds b, and   *)
(* that Op leaves only by leaving R, holds the last one.  With T the       *)
(* elements of R for which a predicate holds, this is the induction over   *)
(* a fold for a predicate.                                                 *)
Within(p, b, s, E, R) ==
    /\ b \in R
    /\ \A T \in SUBSET R :
          /\ b \in T
          /\ \A x \in T, e \in E : Op(p, x, e) \in R => Op(p, x, e) \in T
          => Fold(p, b, s) \in T

LEMMA FoldWithin ==
    ASSUME Induction, NEW p, NEW E, NEW s \in Seq(E), NEW b
    PROVE  \E R : Within(p, b, s, E, R)
<1> DEFINE n == Len(s)
<1>1. PICK g : Results(p, g, b, s) /\ Fold(p, b, s) = g[n]
  BY FoldResults
<1> DEFINE R == {g[k] : k \in 0 .. n}
<1>2. n \in Nat
  OBVIOUS
<1>3. b \in R
  BY <1>1, <1>2 DEF Results
<1>4. ASSUME NEW T \in SUBSET R, b \in T,
             \A x \in T, e \in E : Op(p, x, e) \in R => Op(p, x, e) \in T
      PROVE  Fold(p, b, s) \in T
  <2> DEFINE S == {k \in Nat : k <= n => g[k] \in T}
  <2>1. 0 \in S
    BY <1>1, <1>4 DEF Results
  <2>2. ASSUME NEW k \in Nat, k \in S PROVE k + 1 \in S
    <3> SUFFICES ASSUME k + 1 <= n PROVE g[k + 1] \in T
      OBVIOUS
    <3>1. g[k] \in T /\ k + 1 \in 1 .. n /\ k + 1 \in 0 .. n /\ (k + 1) - 1 = k
      BY <2>2
    <3>2. s[k + 1] \in E /\ g[k + 1] \in R
      BY <3>1
    <3>3. g[k + 1] = Op(p, g[k], s[k + 1])
      BY <1>1, <3>1 DEF Results, Follows
    <3> HIDE DEF R
    <3> QED
      BY <1>4, <3>1, <3>2, <3>3
  <2>3. Nat \subseteq S
    BY <2>1, <2>2, SetInduction
  <2> QED
    BY <1>1, <1>2, <2>3
<1> HIDE DEF R
<1> QED
  BY <1>3, <1>4 DEF Within
=============================================================================
