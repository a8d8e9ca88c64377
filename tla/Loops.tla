-------------------------------- MODULE Loops ---------------------------------
(***************************************************************************)
(* Loops and recursive functions whose steps are Op: the values a fold     *)
(* takes, one after the other, and that a function that calls itself on    *)
(* smaller arguments only exists.  Op is a constant of the module, which a *)
(* proof instantiates with the step of the loop it is about; p is what a   *)
(* loop does not change.                                                   *)
(*                                                                         *)
(* Both are proved by induction: a set of numbers that is not empty has a  *)
(* least one.                                                              *)
(***************************************************************************)
EXTENDS Integers, Sequences, Folds, WellFoundedInduction

CONSTANT Op(_, _, _)

Below == {p \in Nat \X Nat : p[1] < p[2]}

(* No sequence of numbers descends forever. *)
LEMMA BelowIsWellFounded == IsWellFoundedOn(Below, Nat)
<1>1. OpToRel(<, Nat) = Below
  BY DEF OpToRel, Below
<1> QED BY <1>1, NatLessThanWellFounded

(* A set of numbers has a least one. *)
LEMMA LeastNat ==
  ASSUME NEW T, T \subseteq Nat, T # {}
  PROVE \E x \in T : \A y \in T : x <= y
<1>1. PICK x \in T : \A y \in T : ~ (<<y, x>> \in Below)
  BY BelowIsWellFounded, WFMin
<1>2. ASSUME NEW y \in T PROVE x <= y
  <2>1. <<y,x>> \in Nat \X Nat /\ x \in Nat /\ y \in Nat OBVIOUS
  <2>2. ~(<<y,x>>[1] < <<y,x>>[2]) BY <1>1, <2>1 DEF Below
  <2> QED BY <2>1, <2>2
<1> QED BY <1>2

(* A set of numbers that has 0 and with each number the next has all.      *)
LEMMA Induction ==
  ASSUME NEW T, 0 \in T, \A n \in Nat : n \in T => n + 1 \in T
  PROVE Nat \subseteq T
<1> SUFFICES ASSUME Nat \ T # {} PROVE FALSE OBVIOUS
<1>1. PICK x \in Nat \ T : \A y \in Nat \ T : x <= y BY LeastNat
<1>2. x-1 \in Nat /\ x-1 \in T BY <1>1
<1> QED BY <1>1, <1>2

-----------------------------------------------------------------------------
(* A fold over a sequence goes through the sets of its indices, from the   *)
(* largest index down: FoldLeft of the step Op, and the Max it uses.  They *)
(* are written out, since every instance of this module has a copy of all  *)
(* that it extends.                                                        *)
Max(S) == CHOOSE x \in S : \A y \in S : x >= y
Fold(p, b, s) ==
  MapThenFoldSet(LAMBDA c, v : Op(p, v, c), b, LAMBDA i : s[i], LAMBDA S : Max(S), DOMAIN s)
LoopOf(p, b, s, g) ==
  g = [q \in SUBSET DOMAIN s |-> IF q = {} THEN b ELSE Op(p, g[q \ {Max(q)}], s[Max(q)])]

(* The fold is the value of such a function, if there is one. *)
LEMMA FoldIsLoop ==
  ASSUME NEW p, NEW b, NEW s, NEW g, LoopOf(p, b, s, g)
  PROVE \E f : LoopOf(p,b,s,f) /\ Fold(p, b, s) = f[DOMAIN s]
<1> DEFINE it == CHOOSE iter : iter = [q \in SUBSET DOMAIN s |-> IF q = {} THEN b ELSE Op(p, iter[q \ {Max(q)}], s[Max(q)])]
<1>1. LoopOf(p,b,s,it)
  BY DEF LoopOf
<1>2. Fold(p, b, s) = it[DOMAIN s]
  BY DEF Fold, MapThenFoldSet
<1> QED BY <1>1, <1>2

(* Some index is the largest. *)
LEMMA MaxIs ==
  ASSUME NEW n \in Nat, NEW q \in SUBSET (1 .. n), q # {}
  PROVE Max(q) \in q /\ \A y \in q : y <= Max(q)
<1> DEFINE B == {k \in Nat : \A y \in q : y <= k}
<1>1. PICK k \in B : \A j \in B : k <= j
  <2>1. n \in B
    OBVIOUS
  <2> QED BY <2>1, LeastNat
<1>2. k \in q
  <2> SUFFICES ASSUME k \notin q PROVE FALSE
    OBVIOUS
  <2>0. PICK y : y \in q
    OBVIOUS
  <2>1. y \in 1 .. n
    BY <2>0
  <2>2. k \in Nat /\ k >= 1
    BY <1>1, <2>0, <2>1
  <2>3. \A z \in q : z \in Nat /\ z <= k /\ z # k
    BY <1>1
  <2>4. k - 1 \in B
    BY <2>2, <2>3
  <2> QED BY <1>1, <2>2, <2>4
<1> QED BY <1>1, <1>2 DEF Max

(* There is one. *)
LEMMA LoopExists ==
  ASSUME NEW p, NEW b, NEW s, NEW N \in Nat, DOMAIN s = 1 .. N
  PROVE \E g : LoopOf(p, b, s, g)
<1> DEFINE Solves(g, n) ==
             g = [q \in SUBSET (1 .. n) |-> IF q = {} THEN b ELSE Op(p, g[q \ {Max(q)}], s[Max(q)])]
           T == {n \in Nat : \E g : Solves(g, n)}
<1>1. 0 \in T
  <2> DEFINE g == [q \in SUBSET (1 .. 0) |-> b]
  <2>1. \A q \in SUBSET (1 .. 0) : q = {}
    OBVIOUS
  <2>2. Solves(g, 0)
    BY <2>1
  <2> QED BY <2>2
<1>2. ASSUME NEW n \in Nat, n \in T PROVE n + 1 \in T
  <2>1. PICK g : Solves(g, n)
    BY <1>2
  <2> DEFINE h == [q \in SUBSET (1 .. n + 1) |->
                     IF n + 1 \in q THEN Op(p, g[q \ {n + 1}], s[n + 1]) ELSE g[q]]
  <2>2. ASSUME NEW q \in SUBSET (1 .. n + 1)
        PROVE h[q] = IF q = {} THEN b ELSE Op(p, h[q \ {Max(q)}], s[Max(q)])
    <3>1. CASE q = {}
      <4>1. q \in SUBSET (1 .. n) /\ n + 1 \notin q
        BY <3>1
      <4>2. g[q] = b
        BY <2>1, <3>1, <4>1
      <4> QED BY <3>1, <4>1, <4>2
    <3>2. CASE n + 1 \in q
      <4>1. Max(q) = n + 1
        <5>1. n + 1 \in Nat /\ q # {}
          BY <3>2
        <5>2. Max(q) \in q /\ \A y \in q : y <= Max(q)
          BY <5>1, MaxIs
        <5>3. Max(q) \in 1 .. n + 1
          BY <5>2
        <5> QED BY <3>2, <5>2, <5>3
      <4>2. q \ {n + 1} \in SUBSET (1 .. n + 1) /\ n + 1 \notin q \ {n + 1}
        OBVIOUS
      <4>3. h[q \ {n + 1}] = g[q \ {n + 1}]
        BY <4>2
      <4>4. h[q] = Op(p, g[q \ {n + 1}], s[n + 1])
        BY <3>2
      <4> HIDE DEF h
      <4> QED BY <3>2, <4>1, <4>3, <4>4
    <3>3. CASE q # {} /\ n + 1 \notin q
      <4>1. q \in SUBSET (1 .. n)
        BY <3>3
      <4>2. Max(q) \in 1 .. n
        BY <4>1, <3>3, MaxIs
      <4>3. \A m : /\ q \ {m} \in SUBSET (1 .. n) /\ n + 1 \notin q \ {m}
                   /\ q \ {m} \in SUBSET (1 .. n + 1)
        <5> HIDE DEF h, Solves
        <5>1. n + 1 \notin 1 .. n /\ 1 .. n \subseteq 1 .. n + 1
          OBVIOUS
        <5> QED BY <4>1, <5>1
      <4>4. h[q \ {Max(q)}] = g[q \ {Max(q)}] /\ h[q] = g[q]
        BY <3>3, <4>3
      <4>5. g[q] = Op(p, g[q \ {Max(q)}], s[Max(q)])
        BY <2>1, <3>3, <4>1
      <4> HIDE DEF h
      <4> QED BY <3>3, <4>4, <4>5
    <3> QED BY <3>1, <3>2, <3>3
  <2>3. Solves(h, n + 1)
    <3>1. h = [q \in SUBSET (1 .. n + 1) |-> h[q]]
      OBVIOUS
    <3> HIDE DEF h
    <3> QED BY <2>2, <3>1
  <2> HIDE DEF Solves, h
  <2> QED BY <2>3
<1>3. Nat \subseteq T
  <2> HIDE DEF T
  <2> QED BY <1>1, <1>2, Induction
<1>4. PICK g : Solves(g, N)
  <2> HIDE DEF Solves
  <2> QED BY <1>3
<1> QED BY <1>4 DEF LoopOf

(* The values of the loop, of which the last is the fold.                  *)
Run(p, b, s, N, g) ==
  /\ DOMAIN g = 0 .. N /\ g[0] = b
  /\ \A i \in 1 .. N : g[i] = Op(p, g[i - 1], s[i])
  /\ Fold(p, b, s) = g[N]

(* A fold runs through its sequence: it has such values.                   *)
THEOREM FoldSteps ==
  ASSUME NEW p, NEW b, NEW s, NEW N \in Nat, DOMAIN s = 1 .. N
  PROVE \E g : Run(p, b, s, N, g)
<1>1. PICK f : LoopOf(p, b, s, f) /\ Fold(p, b, s) = f[DOMAIN s]
  BY LoopExists, FoldIsLoop
<1> DEFINE g == [i \in 0 .. N |-> f[1 .. i]]
<1>2. g[0] = b
  <2>1. {} \in SUBSET DOMAIN s /\ 1 .. 0 = {}
    OBVIOUS
  <2> QED BY <1>1, <2>1 DEF LoopOf
<1>3. ASSUME NEW i \in 1 .. N PROVE g[i] = Op(p, g[i - 1], s[i])
  <2>0. 1 .. i \in SUBSET DOMAIN s
    OBVIOUS
  <2>1. 1 .. i # {} /\ i \in 1 .. i /\ i \in Nat
    OBVIOUS
  <2>2. Max(1 .. i) = i
    <3>1. Max(1 .. i) \in 1 .. i /\ \A y \in 1 .. i : y <= Max(1 .. i)
      BY <2>1, MaxIs
    <3> QED BY <2>1, <3>1
  <2>3. (1 .. i) \ {i} = 1 .. i - 1
    OBVIOUS
  <2>4. f[1 .. i] = Op(p, f[(1 .. i) \ {Max(1 .. i)}], s[Max(1 .. i)])
    BY <1>1, <2>0, <2>1 DEF LoopOf
  <2>5. g[i] = f[1 .. i] /\ g[i - 1] = f[1 .. i - 1]
    OBVIOUS
  <2> HIDE DEF g
  <2> QED BY <2>5, <2>2, <2>3, <2>4
<1>4. Fold(p, b, s) = g[N]
  BY <1>1
<1> HIDE DEF g
<1>5. DOMAIN g = 0 .. N
  BY DEF g
<1> QED BY <1>2, <1>3, <1>4, <1>5 DEF Run

(* Alike as far as N. *)
AlikeTo(s, t, N) == \A i \in 1 .. N : s[i] = t[i]

(* The values are determined. *)
LEMMA RunsAgree ==
  ASSUME NEW p, NEW b, NEW s, NEW N \in Nat, NEW t, NEW M \in Nat, N <= M,
         NEW g, Run(p, b, s, N, g), NEW h, Run(p, b, t, M, h), AlikeTo(s, t, N)
  PROVE  \A i \in 0 .. N : g[i] = h[i]
<1> DEFINE B == {n \in Nat : n <= N => g[n] = h[n]}
<1>1. 0 \in B
  BY DEF Run
<1>2. ASSUME NEW n \in Nat, n \in B PROVE n + 1 \in B
  <2> SUFFICES ASSUME n + 1 <= N PROVE g[n + 1] = h[n + 1]
    OBVIOUS
  <2> DEFINE j == n + 1
  <2>1. j \in 1 .. N /\ j \in 1 .. M /\ j - 1 = n /\ g[n] = h[n]
    BY <1>2
  <2> HIDE DEF j
  <2>2. g[j] = Op(p, g[j - 1], s[j]) /\ h[j] = Op(p, h[j - 1], t[j]) /\ s[j] = t[j]
    BY <2>1 DEF Run, AlikeTo
  <2> QED BY <2>1, <2>2 DEF j
<1>3. Nat \subseteq B
  <2> HIDE DEF B
  <2> QED BY <1>1, <1>2, Induction
<1> QED BY <1>3

(* What comes after is folded from there on. *)
THEOREM FoldConcat ==
  ASSUME NEW p, NEW b, NEW T, NEW s \in Seq(T), NEW t \in Seq(T)
  PROVE  Fold(p, b, s \o t) = Fold(p, Fold(p, b, s), t)
<1> DEFINE N == Len(s)
           M == Len(t)
           st == s \o t
<1>1. /\ N \in Nat /\ M \in Nat /\ N + M \in Nat /\ N <= N + M
      /\ DOMAIN s = 1 .. N /\ DOMAIN t = 1 .. M
  OBVIOUS
<1>2. /\ DOMAIN st = 1 .. N + M
      /\ \A i \in 1 .. N : s[i] = st[i]
      /\ \A i \in 1 .. M : t[i] = st[N + i]
  OBVIOUS
<1> HIDE DEF N, M, st
<1>3. PICK g : Run(p, b, st, N + M, g)
  BY <1>1, <1>2, FoldSteps
<1>4. PICK h : Run(p, b, s, N, h)
  BY <1>1, FoldSteps
<1>5. g[N] = Fold(p, b, s)
  <2>1. \A i \in 0 .. N : h[i] = g[i]
    <3> DEFINE K == N + M
    <3>1. K \in Nat /\ N <= K /\ AlikeTo(s, st, N) /\ Run(p, b, st, K, g)
      BY <1>1, <1>2, <1>3 DEF AlikeTo
    <3> HIDE DEF K
    <3> QED BY <1>1, <1>4, <3>1, RunsAgree
  <2>2. N \in 0 .. N
    BY <1>1
  <2> QED BY <1>4, <2>1, <2>2 DEF Run
<1>6. PICK k : Run(p, Fold(p, b, s), t, M, k)
  BY <1>1, FoldSteps
<1> DEFINE B == {n \in Nat : n <= M => k[n] = g[N + n]}
<1>7. 0 \in B
  <2>1. k[0] = g[N] /\ N + 0 = N
    BY <1>1, <1>5, <1>6 DEF Run
  <2> QED BY <2>1
<1>8. ASSUME NEW n \in Nat, n \in B PROVE n + 1 \in B
  <2> SUFFICES ASSUME n + 1 <= M PROVE k[n + 1] = g[N + (n + 1)]
    OBVIOUS
  <2> DEFINE j == n + 1
             l == N + j
  <2>1. j \in 1 .. M /\ l \in 1 .. N + M /\ j - 1 = n /\ l - 1 = N + n /\ k[n] = g[N + n]
    BY <1>1, <1>8
  <2>2. t[j] = st[l]
    BY <1>2, <2>1
  <2> HIDE DEF j, l
  <2>3. k[j] = Op(p, k[j - 1], t[j]) /\ g[l] = Op(p, g[l - 1], st[l])
    BY <1>3, <1>6, <2>1 DEF Run
  <2> QED BY <2>1, <2>2, <2>3 DEF j, l
<1>9. Nat \subseteq B
  <2> HIDE DEF B
  <2> QED BY <1>7, <1>8, Induction
<1>10. k[M] = g[N + M]
  BY <1>1, <1>9
<1> QED BY <1>3, <1>6, <1>10 DEF Run, st

(* One element is one step. *)
LEMMA FoldOne ==
  ASSUME NEW p, NEW b, NEW x
  PROVE  Fold(p, b, <<x>>) = Op(p, b, x)
<1> DEFINE s == <<x>>
<1>1. DOMAIN s = 1 .. 1 /\ s[1] = x
  OBVIOUS
<1> HIDE DEF s
<1>2. PICK g : Run(p, b, s, 1, g)
  BY <1>1, FoldSteps
<1>3. g[1] = Op(p, g[1 - 1], s[1]) /\ g[0] = b
  BY <1>2 DEF Run
<1> QED BY <1>1, <1>2, <1>3 DEF Run, s

(* And none is none. *)
LEMMA FoldNone ==
  ASSUME NEW p, NEW b
  PROVE  Fold(p, b, <<>>) = b
<1>1. DOMAIN <<>> = 1 .. 0
  OBVIOUS
<1>2. PICK g : Run(p, b, <<>>, 0, g)
  BY <1>1, FoldSteps
<1> QED BY <1>2 DEF Run

-----------------------------------------------------------------------------
(* A function whose value at d is computed by Op from its other values.    *)
RecOf(p, D, f) == f = [d \in D |-> Op(p, f, d)]

(* There is one, if Op looks at values at smaller arguments only.          *)
THEOREM RecursionExists ==
  ASSUME NEW p, NEW D, NEW m \in [D -> Nat],
         \A d \in D : \A f, g : (\A e \in D : m[e] < m[d] => f[e] = g[e]) => Op(p, f, d) = Op(p, g, d)
  PROVE \E f : RecOf(p, D, f)
<1> DEFINE Low(n) == {d \in D : m[d] < n}
           Solves(f, n) == f = [d \in Low(n) |-> Op(p, f, d)]
           T == {n \in Nat : \E f : Solves(f, n)}
<1>0. \A d \in D : m[d] \in Nat
  OBVIOUS
<1>1. ASSUME NEW k \in Nat, NEW n \in Nat, k <= n, NEW f, Solves(f, n), NEW g, Solves(g, k)
      PROVE \A d \in Low(k) : f[d] = g[d]
  <2> DEFINE B == {j \in Nat : \E d \in Low(k) : m[d] = j /\ f[d] # g[d]}
  <2> SUFFICES ASSUME B # {} PROVE FALSE
    <3>1. ASSUME NEW d \in Low(k), f[d] # g[d] PROVE m[d] \in B
      BY <1>0, <3>1
    <3> HIDE DEF B
    <3> QED BY <3>1
  <2>1. PICK j \in B : \A i \in B : j <= i
    <3>1. B \subseteq Nat
      OBVIOUS
    <3> HIDE DEF B
    <3> QED BY <3>1, LeastNat
  <2>2. PICK d \in Low(k) : m[d] = j /\ f[d] # g[d]
    BY <2>1
  <2>3. ASSUME NEW e \in D, m[e] < m[d] PROVE f[e] = g[e]
    <3>1. m[e] \in Nat /\ m[d] \in Nat /\ m[e] < k
      BY <1>0, <2>2, <2>3
    <3>2. m[e] \notin B
      BY <2>1, <2>2, <2>3, <3>1
    <3> QED BY <3>1, <3>2
  <2>4. d \in Low(n) /\ d \in D
    BY <1>0, <1>1, <2>2
  <2>5. f[d] = Op(p, f, d) /\ g[d] = Op(p, g, d)
    BY <1>1, <2>2, <2>4
  <2>6. Op(p, f, d) = Op(p, g, d)
    BY <2>3, <2>4
  <2> QED BY <2>2, <2>5, <2>6
<1>2. 0 \in T
  <2> DEFINE f == [d \in {} |-> d]
  <2>1. Low(0) = {}
    BY <1>0
  <2>2. Solves(f, 0)
    BY <2>1
  <2> HIDE DEF Solves
  <2> QED BY <2>2
<1>3. ASSUME NEW n \in Nat, n \in T PROVE n + 1 \in T
  <2>1. PICK f : Solves(f, n)
    BY <1>3
  <2> DEFINE h == [d \in Low(n + 1) |-> Op(p, f, d)]
  <2>2. ASSUME NEW e \in Low(n) PROVE h[e] = f[e]
    <3>1. e \in Low(n + 1) /\ f[e] = Op(p, f, e)
      BY <1>0, <2>1
    <3> QED BY <3>1
  <2>3. ASSUME NEW d \in Low(n + 1) PROVE Op(p, f, d) = Op(p, h, d)
    <3>1. ASSUME NEW e \in D, m[e] < m[d] PROVE f[e] = h[e]
      <4>1. e \in Low(n)
        BY <1>0, <3>1
      <4> HIDE DEF h, Low
      <4> QED BY <2>2, <4>1
    <3>2. d \in D
      OBVIOUS
    <3> HIDE DEF h, Low
    <3> QED BY <3>1, <3>2
  <2>4. Solves(h, n + 1)
    <3>1. h = [d \in Low(n + 1) |-> Op(p, f, d)]
      OBVIOUS
    <3> HIDE DEF h, Low
    <3> QED BY <2>3, <3>1
  <2> HIDE DEF Solves, h
  <2> QED BY <2>4
<1>4. \A n \in Nat : \E f : Solves(f, n)
  <2>1. Nat \subseteq T
    <3> HIDE DEF T
    <3> QED BY <1>2, <1>3, Induction
  <2> HIDE DEF Solves
  <2> QED BY <2>1
<1> DEFINE f(n) == CHOOSE f : Solves(f, n)
           F == [d \in D |-> f(m[d] + 1)[d]]
<1>5. \A n \in Nat : Solves(f(n), n)
  <2> HIDE DEF Solves
  <2> QED BY <1>4
<1> HIDE DEF f
<1>6. ASSUME NEW d \in D PROVE F[d] = Op(p, F, d)
  <2> DEFINE n == m[d] + 1
  <2>0. n \in Nat /\ m[d] \in Nat /\ m[d] < n
    BY <1>0
  <2>1. ASSUME NEW e \in D, m[e] < m[d] PROVE F[e] = f(n)[e]
    <3>1. m[e] + 1 \in Nat /\ m[e] + 1 <= n /\ m[e] < m[e] + 1
      BY <1>0, <2>1
    <3>2. e \in Low(m[e] + 1)
      BY <3>1
    <3>3. Solves(f(n), n) /\ Solves(f(m[e] + 1), m[e] + 1)
      BY <1>5, <2>0, <3>1
    <3>4. f(n)[e] = f(m[e] + 1)[e]
      <4> HIDE DEF Solves, Low, n
      <4> QED BY <1>1, <2>0, <3>1, <3>2, <3>3
    <3> QED BY <3>4
  <2>2. d \in Low(n)
    BY <2>0
  <2>3. F[d] = f(n)[d]
    OBVIOUS
  <2>4. f(n)[d] = Op(p, f(n), d)
    <3>1. Solves(f(n), n)
      BY <1>5, <2>0
    <3> HIDE DEF n, Low, F
    <3> QED BY <2>2, <3>1
  <2> HIDE DEF F, n
  <2>5. Op(p, f(n), d) = Op(p, F, d)
    BY <2>1
  <2> QED BY <2>3, <2>4, <2>5
<1>7. RecOf(p, D, F)
  <2>1. F = [d \in D |-> F[d]]
    OBVIOUS
  <2> HIDE DEF F
  <2> QED BY <1>6, <2>1 DEF RecOf
<1> HIDE DEF F
<1> QED BY <1>7
===============================================================================
