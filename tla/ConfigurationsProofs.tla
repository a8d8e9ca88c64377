------------------------ MODULE ConfigurationsProofs ------------------------
(***************************************************************************)
(* Proofs about Configurations: what the operations do to one list, that   *)
(* repositories keep their shape, that a configured logger answers what    *)
(* its repository says and what was copied into it, and that no level      *)
(* writes to a stream that could not be opened.                            *)
(***************************************************************************)
EXTENDS Configurations, FiniteSetTheorems, TLAPS

-----------------------------------------------------------------------------
(* SetToSeq lists every element of a finite set, and once. *)
LEMMA SetToSeqFacts ==
  ASSUME NEW S, IsFiniteSet(S)
  PROVE  /\ Cardinality(S) \in Nat
         /\ SetToSeq(S) \in [1 .. Cardinality(S) -> S]
         /\ \A i, j \in 1 .. Cardinality(S) : SetToSeq(S)[i] = SetToSeq(S)[j] => i = j
         /\ \A x \in S : \E i \in 1 .. Cardinality(S) : SetToSeq(S)[i] = x
<1> DEFINE n == Cardinality(S)
           s == SetToSeq(S)
<1>1. n \in Nat /\ ExistsBijection(1 .. n, S)
  BY FS_CountingElements, FS_NatBijection, FS_CardinalityType
<1>2. PICK f : f \in Bijection(1 .. n, S)
  BY <1>1 DEF ExistsBijection
<1>3. f \in [1 .. n -> S] /\ IsInjective(f)
  BY <1>2 DEF Bijection, Injection, IsInjective
<1>4. s \in [1 .. n -> S] /\ IsInjective(s)
  BY <1>3 DEF SetToSeq
<1>5. s \in Injection(1 .. n, S) /\ \A i, j \in 1 .. n : s[i] = s[j] => i = j
  BY <1>4 DEF Injection, IsInjective
<1>6. Cardinality(1 .. n) = n
  BY <1>1, FS_Interval
<1>7. s \in Surjection(1 .. n, S)
  BY <1>5, <1>6, FS_Injection
<1>8. \A x \in S : \E i \in 1 .. n : s[i] = x
  BY <1>7 DEF Surjection
<1> QED BY <1>1, <1>4, <1>5, <1>8

(* A function on 1 .. n is a sequence. *)
LEMMA FunctionIsSequence ==
  ASSUME NEW E, NEW n \in Nat, NEW f \in [1 .. n -> E]
  PROVE  f \in Seq(E) /\ Len(f) = n /\ DOMAIN f = 1 .. n
  OBVIOUS

(* What concatenation does. *)
LEMMA Concatenation ==
  ASSUME NEW E, NEW s \in Seq(E), NEW r \in Seq(E), NEW u, u = s \o r
  PROVE  /\ u \in Seq(E) /\ Len(u) = Len(s) + Len(r) /\ DOMAIN u = 1 .. Len(u)
         /\ \A i \in 1 .. Len(s) : u[i] = s[i]
         /\ \A i \in 1 .. Len(r) : u[Len(s) + i] = r[i]
  OBVIOUS

(* What a list of configurations is made of. *)
LEMMA ListFacts ==
  ASSUME NEW t \in Types, NEW list, IsList(list, t)
  PROVE  /\ DOMAIN list = 1 .. Len(list) /\ Len(list) \in Nat
         /\ list = <<>> <=> Len(list) = 0
         /\ \A i \in DOMAIN list : /\ list[i].level \in Level
                                  /\ list[i].value \in Values[t]
<1> DEFINE E == [level : Level, value : Values[t]]
<1>1. list \in Seq(E)
  BY DEF IsList
<1> HIDE DEF E
<1>2. /\ DOMAIN list = 1 .. Len(list) /\ Len(list) \in Nat
      /\ list = <<>> <=> Len(list) = 0
      /\ \A i \in DOMAIN list : list[i] \in E
  BY <1>1
<1> QED BY <1>2 DEF E

(* Entries are added behind the others, one for each level in S. *)
LEMMA AppendedFacts ==
  ASSUME NEW t \in Types, NEW list, IsList(list, t), NEW S \in SUBSET Level,
         S \cap LevelsOf(list) = {}, NEW val, \A l \in S : val[l] \in Values[t],
         NEW new, new = Appended(list, S, val)
  PROVE  /\ IsList(new, t) /\ LevelsOf(new) = LevelsOf(list) \cup S
         /\ Len(list) > 0 => Len(new) > 0 /\ new[1] = list[1]
<1> DEFINE n == Cardinality(S)
           s == SetToSeq(S)
           tail == [i \in 1 .. n |-> Entry(s[i], val[s[i]])]
           E == [level : Level, value : Values[t]]
<1>1. IsFiniteSet(S)
  <2>1. IsFiniteSet(Level) BY ConfigurationsAssumption, FS_AddElement DEF Level
  <2> QED BY <2>1, FS_Subset
<1>2. /\ n \in Nat /\ s \in [1 .. n -> S]
      /\ \A i, j \in 1 .. n : s[i] = s[j] => i = j
      /\ \A x \in S : \E i \in 1 .. n : s[i] = x
  BY <1>1, SetToSeqFacts
<1>3. tail \in [1 .. n -> E]
  BY <1>2 DEF Entry
<1> HIDE DEF tail, s, n, E
<1>4. tail \in Seq(E) /\ Len(tail) = n
  BY <1>2, <1>3, FunctionIsSequence
<1>5. list \in Seq(E) /\ DOMAIN list = 1 .. Len(list) /\ Len(list) \in Nat
  BY DEF IsList, E
<1>6. new = list \o tail
  BY DEF Appended, tail, n, s
<1>7. /\ new \in Seq(E) /\ Len(new) = Len(list) + n /\ DOMAIN new = 1 .. Len(new)
      /\ \A i \in 1 .. Len(list) : new[i] = list[i]
      /\ \A i \in 1 .. n : new[Len(list) + i] = tail[i]
  <2>1. list \in Seq(E) /\ tail \in Seq(E)
    BY <1>4, <1>5
  <2>2. new \in Seq(E)
    BY <2>1, <1>6, Concatenation
  <2>3. Len(new) = Len(list) + Len(tail)
    BY <2>1, <1>6, Concatenation
  <2>4. \A i \in 1 .. Len(list) : new[i] = list[i]
    BY <2>1, <1>6, Concatenation
  <2>5. \A i \in 1 .. Len(tail) : new[Len(list) + i] = tail[i]
    BY <2>1, <1>6, Concatenation
  <2> QED BY <1>4, <2>2, <2>3, <2>4, <2>5
<1>8. \A i \in 1 .. n : tail[i].level = s[i]
  BY DEF tail, Entry
<1>9. \A i \in Len(list) + 1 .. Len(new) : /\ i - Len(list) \in 1 .. n
                                           /\ new[i].level = s[i - Len(list)]
  <2> TAKE i \in Len(list) + 1 .. Len(new)
  <2>1. i - Len(list) \in 1 .. n /\ i = Len(list) + (i - Len(list))
    BY <1>2, <1>5, <1>7
  <2> QED BY <2>1, <1>7, <1>8
<1>10. \A i \in Len(list) + 1 .. Len(new) : new[i].level \in S
  BY <1>9, <1>2
<1>11. \A i \in 1 .. Len(list) : new[i].level \in LevelsOf(list)
  BY <1>7, <1>5 DEF LevelsOf
<1>12. \A i, j \in DOMAIN new : new[i].level = new[j].level => i = j
  <2> SUFFICES ASSUME NEW i \in 1 .. Len(new), NEW j \in 1 .. Len(new),
                      new[i].level = new[j].level
               PROVE  i = j
    BY <1>7
  <2>1. CASE i \in 1 .. Len(list) /\ j \in 1 .. Len(list)
    BY <2>1, <1>7, <1>5 DEF IsList
  <2>2. CASE i \in Len(list) + 1 .. Len(new) /\ j \in Len(list) + 1 .. Len(new)
    <3>1. i - Len(list) = j - Len(list)
      BY <2>2, <1>9, <1>2
    <3> QED BY <3>1, <1>5, <1>7
  <2>3. CASE \/ i \in 1 .. Len(list) /\ j \in Len(list) + 1 .. Len(new)
             \/ j \in 1 .. Len(list) /\ i \in Len(list) + 1 .. Len(new)
    BY <2>3, <1>10, <1>11
  <2> QED BY <2>1, <2>2, <2>3, <1>5, <1>7
<1>13. LevelsOf(new) = LevelsOf(list) \cup S
  <2>1. LevelsOf(new) \subseteq LevelsOf(list) \cup S
    <3> SUFFICES ASSUME NEW i \in 1 .. Len(new) PROVE new[i].level \in LevelsOf(list) \cup S
      BY <1>7 DEF LevelsOf
    <3>1. i \in 1 .. Len(list) \/ i \in Len(list) + 1 .. Len(new)
      BY <1>5, <1>7
    <3> QED BY <3>1, <1>10, <1>11
  <2>2. LevelsOf(list) \subseteq LevelsOf(new)
    <3>1. \A i \in DOMAIN list : i \in DOMAIN new /\ new[i] = list[i]
      BY <1>2, <1>5, <1>7
    <3> QED BY <3>1 DEF LevelsOf
  <2>3. ASSUME NEW x \in S PROVE x \in LevelsOf(new)
    <3>1. PICK i \in 1 .. n : s[i] = x BY <1>2
    <3>2. Len(list) + i \in 1 .. Len(new) BY <1>2, <1>5, <1>7
    <3>3. new[Len(list) + i].level = x BY <3>1, <1>7, <1>8
    <3> QED BY <3>2, <3>3, <1>7 DEF LevelsOf
  <2> QED BY <2>1, <2>2, <2>3
<1>14. IsList(new, t)
  BY <1>7, <1>12 DEF IsList, E
<1>15. ASSUME Len(list) > 0 PROVE Len(new) > 0 /\ new[1] = list[1]
  <2>1. 1 \in 1 .. Len(list) /\ Len(new) >= 1
    BY <1>2, <1>5, <1>7, <1>15
  <2> QED BY <2>1, <1>7
<1> QED BY <1>13, <1>14, <1>15

-----------------------------------------------------------------------------
(* One value is set: its level is added, at the end, where it is missing. *)
LEMMA UnsafeSetFacts ==
  ASSUME NEW t \in Types, NEW list, IsList(list, t), NEW l \in Level,
         NEW v \in Values[t]
  PROVE  /\ IsList(unsafeSet(list, l, v), t)
         /\ LevelsOf(unsafeSet(list, l, v)) = LevelsOf(list) \cup {l}
         /\ unsafeSet(list, l, v) # <<>>
         /\ IF list = <<>> THEN unsafeSet(list, l, v)[1].level = l
                           ELSE unsafeSet(list, l, v)[1].level = list[1].level
<1> DEFINE E == [level : Level, value : Values[t]]
           new == unsafeSet(list, l, v)
<1>1. /\ list \in Seq(E) /\ DOMAIN list = 1 .. Len(list) /\ Len(list) \in Nat
      /\ \A i, j \in 1 .. Len(list) : list[i].level = list[j].level => i = j
  BY DEF IsList
<1>2. Entry(l, v) \in E /\ Entry(l, v).level = l
  BY DEF Entry
<1> HIDE DEF E
<1>3. CASE l \in LevelsOf(list)
  <2>1. new = [i \in DOMAIN list |-> IF list[i].level = l THEN Entry(l, v) ELSE list[i]]
    BY <1>3 DEF unsafeSet
  <2>2. \A i \in 1 .. Len(list) : list[i] \in E
    BY <1>1
  <2>3. new \in [1 .. Len(list) -> E] /\ \A i \in 1 .. Len(list) : new[i].level = list[i].level
    BY <1>1, <1>2, <2>1, <2>2
  <2> HIDE DEF new
  <2>4. new \in Seq(E) /\ Len(new) = Len(list) /\ DOMAIN new = 1 .. Len(list)
    BY <1>1, <2>3, FunctionIsSequence
  <2>5. IsList(new, t)
    BY <1>1, <2>3, <2>4 DEF IsList, E
  <2>6. LevelsOf(new) = LevelsOf(list) \cup {l}
    BY <1>1, <1>3, <2>3, <2>4 DEF LevelsOf
  <2>7. list # <<>> /\ Len(list) > 0
    BY <1>1, <1>3 DEF LevelsOf
  <2>8. new # <<>> /\ new[1].level = list[1].level
    BY <1>1, <2>3, <2>4, <2>7
  <2> QED BY <2>5, <2>6, <2>7, <2>8 DEF new
<1>4. CASE l \notin LevelsOf(list)
  <2>1. new = Append(list, Entry(l, v))
    BY <1>4 DEF unsafeSet
  <2> HIDE DEF new
  <2>2. new \in Seq(E) /\ Len(new) = Len(list) + 1 /\ DOMAIN new = 1 .. Len(list) + 1
    BY <1>1, <1>2, <2>1
  <2>3. \A i \in 1 .. Len(list) : new[i] = list[i]
    BY <1>1, <1>2, <2>1
  <2>4. new[Len(list) + 1].level = l
    BY <1>1, <1>2, <2>1
  <2>5. \A i \in 1 .. Len(list) : list[i].level # l
    BY <1>1, <1>4 DEF LevelsOf
  <2>6. IsList(new, t)
    BY <1>1, <2>2, <2>3, <2>4, <2>5 DEF IsList, E
  <2>7. LevelsOf(new) = LevelsOf(list) \cup {l}
    <3>1. \A i \in DOMAIN new : i \in DOMAIN list \/ i = Len(list) + 1
      BY <1>1, <2>2
    <3>2. \A i \in DOMAIN list : i \in DOMAIN new
      BY <1>1, <2>2
    <3>3. Len(list) + 1 \in DOMAIN new
      BY <1>1, <2>2
    <3> QED BY <1>1, <2>3, <2>4, <3>1, <3>2, <3>3 DEF LevelsOf
  <2>8. new # <<>>
    BY <1>1, <2>2
  <2>9. list = <<>> => new[1].level = l
    BY <1>1, <2>4
  <2>10. list # <<>> => new[1].level = list[1].level
    BY <1>1, <2>3
  <2> QED BY <2>6, <2>7, <2>8, <2>9, <2>10 DEF new
<1> QED BY <1>3, <1>4

(* One value is set for every level but Global. *)
LEMMA UnsafeSetGloballyFacts ==
  ASSUME NEW t \in Types, NEW list, IsList(list, t), NEW v \in Values[t]
  PROVE  /\ IsList(unsafeSetGlobally(list, v), t)
         /\ LevelsOf(unsafeSetGlobally(list, v)) = LevelsOf(list) \cup Explicit
         /\ list # <<>> => /\ unsafeSetGlobally(list, v) # <<>>
                           /\ unsafeSetGlobally(list, v)[1].level = list[1].level
<1> DEFINE E == [level : Level, value : Values[t]]
           present == [i \in DOMAIN list |->
                         IF list[i].level \in Explicit THEN Entry(list[i].level, v)
                                                       ELSE list[i]]
           missing == Explicit \ LevelsOf(list)
           val == [l \in Explicit |-> v]
           new == unsafeSetGlobally(list, v)
<1>1. /\ list \in Seq(E) /\ DOMAIN list = 1 .. Len(list) /\ Len(list) \in Nat
      /\ \A i, j \in 1 .. Len(list) : list[i].level = list[j].level => i = j
  BY DEF IsList
<1> HIDE DEF E
<1>2. \A i \in 1 .. Len(list) : list[i] \in E
  BY <1>1
<1>3. present \in [1 .. Len(list) -> E] /\ \A i \in 1 .. Len(list) : present[i].level = list[i].level
  <2>1. \A i \in 1 .. Len(list) : list[i].level \in Level
    BY <1>2 DEF E
  <2>2. \A i \in 1 .. Len(list) :
           Entry(list[i].level, v) \in E /\ Entry(list[i].level, v).level = list[i].level
    BY <2>1 DEF Entry, E
  <2> QED BY <1>1, <1>2, <2>2
<1>4. new = Appended(present, missing, val)
  BY DEF unsafeSetGlobally
<1>5. missing \in SUBSET Level /\ \A l \in missing : val[l] \in Values[t]
  BY DEF Level
<1> HIDE DEF present
<1>6. present \in Seq(E) /\ Len(present) = Len(list) /\ DOMAIN present = 1 .. Len(list)
  BY <1>1, <1>3, FunctionIsSequence
<1>7. IsList(present, t)
  BY <1>1, <1>3, <1>6 DEF IsList, E
<1>8. LevelsOf(present) = LevelsOf(list)
  BY <1>1, <1>3, <1>6 DEF LevelsOf
<1>9. missing \cap LevelsOf(present) = {}
  BY <1>8
<1> HIDE DEF missing, val, new
<1>10. /\ IsList(new, t) /\ LevelsOf(new) = LevelsOf(present) \cup missing
       /\ Len(present) > 0 => Len(new) > 0 /\ new[1] = present[1]
  <2>1. IsList(new, t)
    BY <1>4, <1>5, <1>7, <1>9, AppendedFacts
  <2>2. LevelsOf(new) = LevelsOf(present) \cup missing
    BY <1>4, <1>5, <1>7, <1>9, AppendedFacts
  <2>3. Len(present) > 0 => Len(new) > 0 /\ new[1] = present[1]
    BY <1>4, <1>5, <1>7, <1>9, AppendedFacts
  <2> QED BY <2>1, <2>2, <2>3
<1>11. LevelsOf(new) = LevelsOf(list) \cup Explicit
  BY <1>8, <1>10 DEF missing
<1>12. ASSUME list # <<>> PROVE new # <<>> /\ new[1].level = list[1].level
  <2>1. 1 \in 1 .. Len(list) /\ Len(present) > 0
    BY <1>1, <1>6, <1>12
  <2> QED BY <2>1, <1>3, <1>10, ListFacts
<1> QED BY <1>10, <1>11, <1>12 DEF new

(* One value is set; for Global, then for every level. *)
LEMMA SetFacts ==
  ASSUME NEW t \in Types, NEW list, IsList(list, t), NEW l \in Level,
         NEW v \in Values[t]
  PROVE  /\ IsList(set(list, l, v), t)
         /\ LevelsOf(set(list, l, v)) = IF l = Global THEN Level
                                                     ELSE LevelsOf(list) \cup {l}
         /\ set(list, l, v) # <<>>
         /\ IF list = <<>> THEN set(list, l, v)[1].level = l
                           ELSE set(list, l, v)[1].level = list[1].level
<1> DEFINE one == unsafeSet(list, l, v)
<1>1. /\ IsList(one, t) /\ LevelsOf(one) = LevelsOf(list) \cup {l} /\ one # <<>>
      /\ IF list = <<>> THEN one[1].level = l ELSE one[1].level = list[1].level
  BY UnsafeSetFacts
<1>2. CASE l # Global
  BY <1>1, <1>2 DEF set
<1>3. CASE l = Global
  <2>1. set(list, l, v) = unsafeSetGlobally(one, v)
    BY <1>3 DEF set
  <2> HIDE DEF one
  <2>2. /\ IsList(set(list, l, v), t)
        /\ LevelsOf(set(list, l, v)) = LevelsOf(one) \cup Explicit
        /\ set(list, l, v) # <<>> /\ set(list, l, v)[1].level = one[1].level
    BY <2>1, <1>1, UnsafeSetGloballyFacts
  <2>3. LevelsOf(list) \subseteq Level
    BY ListFacts DEF LevelsOf
  <2>4. LevelsOf(set(list, l, v)) = Level
    BY <1>1, <1>3, <2>2, <2>3 DEF Level
  <2> QED BY <1>1, <1>3, <2>2, <2>4
<1> QED BY <1>2, <1>3

(* Where Global has a value every level has one. *)
Full(list) == Global \in LevelsOf(list) => LevelsOf(list) = Level

(* The first entry is Global's. *)
Led(list) == Len(list) > 0 => Leads(list)

(* set keeps a list's shape; the first entry stays what it was. *)
LEMMA SetKeeps ==
  ASSUME NEW t \in Types, NEW list, IsList(list, t), Full(list), NEW l \in Level,
         NEW v \in Values[t], NEW new, new = set(list, l, v)
  PROVE  /\ IsList(new, t) /\ Full(new) /\ Len(new) > 0
         /\ Led(list) /\ (Len(list) = 0 => l = Global) => Led(new)
<1>1. /\ IsList(new, t) /\ new # <<>>
      /\ LevelsOf(new) = IF l = Global THEN Level ELSE LevelsOf(list) \cup {l}
      /\ IF list = <<>> THEN new[1].level = l ELSE new[1].level = list[1].level
  BY SetFacts
<1>2. Len(new) > 0 /\ Len(list) \in Nat /\ (list = <<>> <=> Len(list) = 0)
  BY <1>1, ListFacts
<1>3. Full(new)
  <2>1. CASE l = Global
    BY <2>1, <1>1 DEF Full
  <2>2. CASE l # Global /\ Global \in LevelsOf(list)
    BY <2>2, <1>1 DEF Full
  <2>3. CASE l # Global /\ Global \notin LevelsOf(list)
    BY <2>3, <1>1 DEF Full
  <2> QED BY <2>1, <2>2, <2>3
<1>4. ASSUME Led(list), Len(list) = 0 => l = Global
      PROVE  Led(new)
  BY <1>1, <1>2, <1>4 DEF Led, Leads
<1> QED BY <1>1, <1>2, <1>3, <1>4

(* setGlobally, for a type. *)
LEMMA UnsafeSetGloballyKeeps ==
  ASSUME NEW t \in Types, NEW list, IsList(list, t), Full(list), NEW v \in Values[t],
         NEW new, new = unsafeSetGlobally(list, v)
  PROVE  IsList(new, t) /\ Full(new)
<1>1. IsList(new, t) /\ LevelsOf(new) = LevelsOf(list) \cup Explicit
  BY UnsafeSetGloballyFacts
<1> QED BY <1>1, ConfigurationsAssumption DEF Full, Level

(* The defaults begin with Global and set every level. *)
LEMMA SetToDefaultKeeps ==
  ASSUME NEW t \in Types, NEW list, IsList(list, t), Full(list),
         NEW new, new = setToDefault(list, t)
  PROVE  /\ IsList(new, t) /\ Full(new) /\ Len(new) > 0
         /\ Led(list) => Led(new)
<1> DEFINE all == set(list, Global, Factory[t][Global])
           E == [level : Level, value : Values[t]]
<1>1. Factory[t] \in [Level -> Values[t]] /\ Global \in Level
  BY ConfigurationsAssumption DEF Level
<1>2. IsList(all, t) /\ Full(all) /\ Len(all) > 0 /\ (Led(list) => Led(all))
  BY <1>1, SetKeeps
<1> HIDE DEF all
<1>3. /\ DOMAIN all = 1 .. Len(all) /\ Len(all) \in Nat
      /\ \A i \in DOMAIN all : all[i].level \in Level
  BY <1>2, ListFacts
<1>4. new = [i \in DOMAIN all |-> Entry(all[i].level, Factory[t][all[i].level])]
  BY DEF setToDefault, all
<1>5. \A i \in DOMAIN all : /\ Entry(all[i].level, Factory[t][all[i].level]) \in E
                            /\ Entry(all[i].level, Factory[t][all[i].level]).level = all[i].level
  BY <1>1, <1>3 DEF Entry
<1> HIDE DEF E
<1>6. new \in [1 .. Len(all) -> E] /\ \A i \in 1 .. Len(all) : new[i].level = all[i].level
  BY <1>3, <1>4, <1>5
<1>7. new \in Seq(E) /\ Len(new) = Len(all) /\ DOMAIN new = 1 .. Len(all)
  BY <1>3, <1>6, FunctionIsSequence
<1>8. IsList(new, t)
  BY <1>2, <1>3, <1>6, <1>7 DEF IsList, E
<1>9. LevelsOf(new) = LevelsOf(all)
  BY <1>3, <1>6, <1>7 DEF LevelsOf
<1>10. Len(new) > 0 /\ new[1].level = all[1].level
  BY <1>2, <1>3, <1>6, <1>7
<1> QED BY <1>2, <1>7, <1>8, <1>9, <1>10 DEF Full, Led, Leads

(* setRemainingToDefault leaves no level behind. *)
LEMMA SetRemainingToDefaultKeeps ==
  ASSUME NEW t \in Types, NEW list, IsList(list, t), Full(list),
         NEW new, new = setRemainingToDefault(list, t)
  PROVE  IsList(new, t) /\ Full(new)
<1> DEFINE r == Remaining[t]
           all == IF Global \in DOMAIN r \ LevelsOf(list)
                    THEN set(list, Global, r[Global]) ELSE list
           missing == DOMAIN r \ LevelsOf(all)
<1>1. DOMAIN r \in SUBSET Level /\ \A l \in DOMAIN r : r[l] \in Values[t]
  BY ConfigurationsAssumption
<1>2. IsList(all, t) /\ (Global \in DOMAIN r \/ Global \in LevelsOf(list) => LevelsOf(all) = Level)
                   /\ (Global \notin DOMAIN r => all = list)
  <2>1. CASE Global \in DOMAIN r \ LevelsOf(list)
    <3>1. Global \in Level /\ r[Global] \in Values[t]
      BY <1>1, <2>1
    <3>2. IsList(all, t) /\ LevelsOf(all) = Level
      BY <2>1, <3>1, SetFacts
    <3> QED BY <2>1, <3>2
  <2>2. CASE Global \notin DOMAIN r \ LevelsOf(list)
    BY <2>2 DEF Full
  <2> QED BY <2>1, <2>2
<1>3. new = Appended(all, missing, r)
  BY DEF setRemainingToDefault
<1> HIDE DEF all
<1>4. missing \in SUBSET Level /\ missing \cap LevelsOf(all) = {}
      /\ \A l \in missing : r[l] \in Values[t]
  BY <1>1
<1> HIDE DEF missing, r
<1>5. IsList(new, t) /\ LevelsOf(new) = LevelsOf(all) \cup missing
  BY <1>2, <1>3, <1>4, AppendedFacts
<1>6. Full(new)
  BY <1>1, <1>2, <1>5 DEF Full, missing
<1> QED BY <1>5, <1>6

-----------------------------------------------------------------------------
(* The inductive invariant of the repositories: their lists are full and   *)
(* led by Global; a registered logger's are empty only until the first     *)
(* entries of the defaults are copied into them.                           *)
Sound(r) == DOMAIN r = Types /\ \A t \in Types : IsList(r[t], t) /\ Full(r[t])

Shape ==
  /\ Sound(conf) /\ Sound(defaults) /\ Sound(repo)
  /\ \A t \in Types : Len(defaults[t]) > 0 /\ Led(defaults[t]) /\ Led(repo[t])

Stages ==
  /\ pc = "replay" => /\ job.from \in {"conf", "defaults"}
                      /\ job.into \in {"conf", "defaults", "logger"}
                      /\ job.into = "logger" \/ job.also => registered
  /\ registered => \A t \in Types :
       \/ Len(repo[t]) > 0
       \/ pc = "replay" /\ job.into = "logger" /\ job.from = "defaults" /\ at = 1

Scalars ==
  /\ registered \in BOOLEAN
  /\ DOMAIN typed = Types
  /\ \A t \in Types : typed[t] \in [Level -> Values[t] \cup {None}]
  /\ files \in [Level -> Files \cup {None, Null}]
  /\ streams \in [Files -> Files \cup {None, Null}]
  /\ writable \in SUBSET Files
  /\ pc \in {"idle", "replay", "build", "files"}
  /\ at \in Nat \ {0} /\ calls \in Nat
  /\ job \in [from : {"none", "conf", "defaults"},
              into : {"none", "conf", "defaults", "logger"}, also : BOOLEAN]

IInv == Scalars /\ Shape /\ Stages

(* An empty list. *)
LEMMA EmptyList ==
  ASSUME NEW t \in Types
  PROVE  IsList(<<>>, t) /\ Full(<<>>) /\ Led(<<>>) /\ Len(<<>>) = 0
  BY DEF IsList, Full, Led, LevelsOf

(* Empty maps. *)
LEMMA EmptyMaps ==
  /\ DOMAIN Unset = Types /\ \A t \in Types : Unset[t] \in [Level -> Values[t] \cup {None}]
  /\ NoFiles \in [Level -> Files \cup {None, Null}]
  /\ NoJob \in [from : {"none", "conf", "defaults"},
               into : {"none", "conf", "defaults", "logger"}, also : BOOLEAN]
  BY DEF Unset, NoFiles, NoJob

(* The program starts with empty repositories and the defaults. *)
LEMMA Initially == Init => IInv
<1> SUFFICES ASSUME Init PROVE IInv
  OBVIOUS
<1>1. \A t \in Types : /\ IsList(setToDefault(<<>>, t), t) /\ Full(setToDefault(<<>>, t))
                       /\ Len(setToDefault(<<>>, t)) > 0 /\ Led(setToDefault(<<>>, t))
  BY EmptyList, SetToDefaultKeeps
<1>2. Shape
  BY <1>1, EmptyList DEF Init, Shape, Sound, Empty
<1>3. Stages
  BY DEF Init, Stages
<1>4. Scalars
  <2>1. typed = Unset /\ files = NoFiles /\ job = NoJob
    BY DEF Init
  <2>2. streams \in [Files -> Files \cup {None, Null}]
    BY DEF Init
  <2>3. /\ DOMAIN typed = Types /\ \A t \in Types : typed[t] \in [Level -> Values[t] \cup {None}]
        /\ files \in [Level -> Files \cup {None, Null}]
        /\ job \in [from : {"none", "conf", "defaults"},
                   into : {"none", "conf", "defaults", "logger"}, also : BOOLEAN]
    BY <2>1, EmptyMaps
  <2>4. /\ registered \in BOOLEAN /\ writable \in SUBSET Files
        /\ pc \in {"idle", "replay", "build", "files"}
    BY Zenon DEF Init
  <2>5. at = 1 /\ calls = 0
    BY DEF Init
  <2>6. at \in Nat \ {0} /\ calls \in Nat
    BY <2>5
  <2> QED BY <2>2, <2>3, <2>4, <2>6 DEF Scalars
<1> QED BY <1>2, <1>3, <1>4 DEF IInv

(* Copying an entry keeps a repository's shape. *)
LEMMA ReplayedKeeps ==
  ASSUME IInv, NEW t \in Types, NEW list, IsList(list, t), Full(list),
         NEW new, new = Replayed(list, t)
  PROVE  /\ IsList(new, t) /\ Full(new)
         /\ Len(list) > 0 /\ Led(list) => Len(new) > 0 /\ Led(new)
         /\ Led(list) /\ source = defaults /\ at = 1 => Len(new) > 0 /\ Led(new)
<1>1. Len(list) \in Nat /\ IsList(source[t], t) /\ at \in Nat \ {0}
  BY ListFacts DEF IInv, Shape, Sound, Scalars, source
<1>2. CASE ~Has(source[t])
  <2>1. new = list
    BY <1>2 DEF Replayed
  <2>2. ~(source = defaults /\ at = 1)
    BY <1>1, <1>2, ListFacts DEF IInv, Shape, Has
  <2> QED BY <1>1, <2>1, <2>2
<1>3. CASE Has(source[t])
  <2>1. at \in DOMAIN source[t]
    BY <1>1, <1>3, ListFacts DEF Has
  <2> DEFINE l == source[t][at].level
             v == source[t][at].value
  <2>2. l \in Level /\ v \in Values[t] /\ new = set(list, l, v)
    BY <1>1, <1>3, <2>1, ListFacts DEF Replayed
  <2>3. source = defaults /\ at = 1 => l = Global
    BY <2>1 DEF IInv, Shape, Led, Leads
  <2> HIDE DEF l, v
  <2>4. /\ IsList(new, t) /\ Full(new) /\ Len(new) > 0
        /\ Led(list) /\ (Len(list) = 0 => l = Global) => Led(new)
    BY <2>2, SetKeeps
  <2> QED BY <1>1, <2>3, <2>4
<1> QED BY <1>2, <1>3

(* Every step keeps the shape of the repositories. *)
LEMMA ShapeStep ==
  ASSUME IInv, [Next]_vars
  PROVE  Shape'
<1> DEFINE Kept(r) == \A t \in Types : IsList(r[t], t) /\ Full(r[t])
<1>1. /\ DOMAIN conf = Types /\ DOMAIN defaults = Types /\ DOMAIN repo = Types
      /\ Kept(conf) /\ Kept(defaults) /\ Kept(repo)
      /\ \A t \in Types : Len(defaults[t]) > 0 /\ Led(defaults[t]) /\ Led(repo[t])
  BY DEF IInv, Shape, Sound
<1>2. ASSUME NEW new, DOMAIN new = Types, Kept(new), Edit(new)
      PROVE  Shape'
  BY <1>1, <1>2 DEF Edit, Shape, Sound
<1>3. CASE Set
  <2>1. PICK u \in Types, l \in Level : \E v \in Values[u] :
           Edit([conf EXCEPT ![u] = set(conf[u], l, v)])
    BY <1>3, Zenon DEF Set
  <2> PICK v \in Values[u] : Edit([conf EXCEPT ![u] = set(conf[u], l, v)])
    BY <2>1
  <2>2. IsList(set(conf[u], l, v), u) /\ Full(set(conf[u], l, v))
    BY <1>1, SetKeeps
  <2> QED BY <1>1, <1>2, <2>1, <2>2
<1>4. CASE SetGlobally
  <2>1. PICK u \in Types : \E v \in Values[u] :
           Edit([conf EXCEPT ![u] = unsafeSetGlobally(conf[u], v)])
    BY <1>4, Zenon DEF SetGlobally
  <2> PICK v \in Values[u] : Edit([conf EXCEPT ![u] = unsafeSetGlobally(conf[u], v)])
    BY <2>1
  <2>2. IsList(unsafeSetGlobally(conf[u], v), u) /\ Full(unsafeSetGlobally(conf[u], v))
    BY <1>1, UnsafeSetGloballyKeeps
  <2> QED BY <1>1, <1>2, <2>1, <2>2
<1>5. CASE SetToDefault
  <2>1. \A t \in Types : IsList(setToDefault(conf[t], t), t) /\ Full(setToDefault(conf[t], t))
    BY <1>1, SetToDefaultKeeps
  <2> QED BY <1>2, <1>5, <2>1 DEF SetToDefault
<1>6. CASE SetRemainingToDefault
  <2>1. \A t \in Types : /\ IsList(setRemainingToDefault(conf[t], t), t)
                         /\ Full(setRemainingToDefault(conf[t], t))
    BY <1>1, SetRemainingToDefaultKeeps
  <2> QED BY <1>2, <1>6, <2>1 DEF SetRemainingToDefault
<1>7. CASE Clear
  BY <1>2, <1>7, EmptyList DEF Clear, Empty
<1>8. CASE Reconfigure
  <2>1. PICK u \in Types, l \in Level : \E v \in Values[u] :
           repo' = [repo EXCEPT ![u] = set(repo[u], l, v)]
    BY <1>8, Zenon DEF Reconfigure
  <2> PICK v \in Values[u] : repo' = [repo EXCEPT ![u] = set(repo[u], l, v)]
    BY <2>1
  <2>2. Len(repo[u]) > 0
    BY <1>8 DEF IInv, Stages, Reconfigure, Call
  <2>3. LET new == set(repo[u], l, v)
        IN  IsList(new, u) /\ Full(new) /\ Led(new)
    BY <1>1, <2>2, SetKeeps
  <2> QED BY <1>1, <1>8, <2>1, <2>3 DEF Reconfigure, Shape, Sound
<1>9. CASE UnregisterLogger
  BY <1>1, <1>9, EmptyList DEF UnregisterLogger, Shape, Sound, Empty
<1>10. CASE Replay
  <2>1. ASSUME NEW r, Kept(r)
        PROVE  \A t \in Types : IsList(Replayed(r[t], t), t) /\ Full(Replayed(r[t], t))
    BY <2>1, ReplayedKeeps
  <2>2. CASE job.into = "conf"
    BY <1>1, <1>10, <2>1, <2>2 DEF Replay, Shape, Sound
  <2>3. CASE job.into = "defaults"
    <3>1. \A t \in Types : Len(Replayed(defaults[t], t)) > 0 /\ Led(Replayed(defaults[t], t))
      BY <1>1, ReplayedKeeps
    <3> QED BY <1>1, <1>10, <2>1, <2>3, <3>1 DEF Replay, Shape, Sound
  <2>4. CASE job.into = "logger"
    <3>1. registered /\ pc = "replay"
      BY <1>10, <2>4 DEF Replay, IInv, Stages
    <3>2. \A t \in Types : \/ Len(repo[t]) > 0
                           \/ source = defaults /\ at = 1
      BY <3>1 DEF IInv, Stages, source
    <3>3. \A t \in Types : Led(Replayed(repo[t], t))
      BY <1>1, <3>2, ReplayedKeeps
    <3> QED BY <1>1, <1>10, <2>1, <2>4, <3>3 DEF Replay, Shape, Sound
  <2> QED BY <1>10, <2>2, <2>3, <2>4 DEF Replay, IInv, Stages
<1>11. CASE UNCHANGED <<conf, defaults, repo>>
  BY <1>1, <1>11 DEF Shape, Sound
<1>12. CASE \/ SetFromBase \/ SetDefaultConfigurations \/ GetLogger \/ ReconfigureLogger
            \/ EndReplay \/ Build \/ EndBuild \/ insertFile \/ EndFiles \/ Disk
            \/ UNCHANGED vars
  BY <1>11, <1>12 DEF SetFromBase, SetDefaultConfigurations, GetLogger, ReconfigureLogger,
       EndReplay, Build, EndBuild, insertFile, EndFiles, Disk, vars
<1> QED BY <1>3, <1>4, <1>5, <1>6, <1>7, <1>8, <1>9, <1>10, <1>12 DEF Next

(* A map of values stays one. *)
LEMMA MapFacts ==
  ASSUME NEW V, NEW map \in [Level -> V \cup {None}], NEW l \in Level, NEW v \in V
  PROVE  /\ setValue(map, l, v) \in [Level -> V \cup {None}]
         /\ Inserted(map, l, v) \in [Level -> V \cup {None}]
  BY DEF setValue, Inserted, Level

(* Every step keeps the types of the other variables. *)
LEMMA ScalarsStep ==
  ASSUME IInv, [Next]_vars
  PROVE  Scalars'
<1>1. /\ Scalars /\ Sound(repo)
  BY DEF IInv, Shape
<1>2. ASSUME NEW new, Edit(new) PROVE Scalars'
  BY <1>1, <1>2, EmptyMaps DEF Edit, Call, Scalars
<1>3. CASE Set \/ SetGlobally \/ SetToDefault \/ SetRemainingToDefault \/ Clear
  BY <1>2, <1>3, Zenon DEF Set, SetGlobally, SetToDefault, SetRemainingToDefault, Clear
<1>4. CASE SetFromBase
  BY <1>1, <1>4 DEF SetFromBase, Start, Goto, Call, Scalars
<1>5. CASE SetDefaultConfigurations
  BY <1>1, <1>5 DEF SetDefaultConfigurations, Start, Goto, Call, Scalars
<1>6. CASE GetLogger
  BY <1>1, <1>6 DEF GetLogger, Start, Goto, Call, Scalars
<1>7. CASE ReconfigureLogger
  BY <1>1, <1>7 DEF ReconfigureLogger, Start, Goto, Call, Scalars
<1>8. CASE UnregisterLogger
  <2>1. /\ registered' = FALSE /\ typed' = Unset /\ files' = NoFiles /\ job' = NoJob
        /\ calls' = calls + 1 /\ UNCHANGED <<streams, writable, pc, at>>
    BY <1>8 DEF UnregisterLogger, Call
  <2>2. /\ DOMAIN typed' = Types /\ \A t \in Types : typed'[t] \in [Level -> Values[t] \cup {None}]
        /\ files' \in [Level -> Files \cup {None, Null}]
        /\ job' \in [from : {"none", "conf", "defaults"},
                    into : {"none", "conf", "defaults", "logger"}, also : BOOLEAN]
    BY <2>1, EmptyMaps
  <2>3. registered' \in BOOLEAN
    BY <2>1
  <2> QED BY <1>1, <2>1, <2>2, <2>3 DEF Scalars
<1>9. CASE Reconfigure
  BY <1>1, <1>9, EmptyMaps DEF Reconfigure, Goto, Call, Discarded, Scalars
<1>10. CASE Replay
  BY <1>1, <1>10 DEF Replay, Scalars
<1>11. CASE EndReplay
  <2>1. CASE job.into = "logger"
    BY <1>1, <1>11, <2>1, EmptyMaps DEF EndReplay, Goto, Discarded, Scalars
  <2>2. CASE job.into # "logger"
    <3>1. job' = (IF job.also THEN [job EXCEPT !.into = "logger", !.also = FALSE] ELSE NoJob)
      BY <1>11, <2>2 DEF EndReplay
    <3>2. job' \in [from : {"none", "conf", "defaults"},
                  into : {"none", "conf", "defaults", "logger"}, also : BOOLEAN]
      BY <1>1, <3>1, EmptyMaps DEF Scalars
    <3> QED BY <1>1, <1>11, <2>2, <3>2 DEF EndReplay, Goto, Scalars
  <2> QED BY <2>1, <2>2
<1>12. CASE Build
  <2>1. \A t \in Types : typed'[t] \in [Level -> Values[t] \cup {None}]
    <3> TAKE t \in Types
    <3>1. CASE t # "Filename" /\ Has(repo[t])
      <4>1. IsList(repo[t], t) /\ at \in DOMAIN repo[t]
        BY <1>1, <3>1, ListFacts DEF Sound, Scalars, Has
      <4>2. TypedLevel(t, repo[t][at].level) \in Level /\ repo[t][at].value \in Values[t]
        BY <4>1, ListFacts DEF TypedLevel, Level
      <4>3. typed'[t] = setValue(typed[t], TypedLevel(t, repo[t][at].level), repo[t][at].value)
        BY <1>12, <3>1 DEF Build
      <4>4. typed[t] \in [Level -> Values[t] \cup {None}]
        BY <1>1 DEF Scalars
      <4> DEFINE l == TypedLevel(t, repo[t][at].level)
                 v == repo[t][at].value
                 V == Values[t]
      <4>5. l \in Level /\ v \in V /\ typed[t] \in [Level -> V \cup {None}]
        BY <4>2, <4>4
      <4>6. typed'[t] = setValue(typed[t], l, v)
        BY <4>3
      <4> HIDE DEF l, v, V
      <4>7. setValue(typed[t], l, v) \in [Level -> V \cup {None}]
        BY <4>5, MapFacts
      <4> QED BY <4>6, <4>7 DEF V
    <3>2. CASE ~(t # "Filename" /\ Has(repo[t]))
      BY <1>1, <1>12, <3>2 DEF Build, Scalars
    <3> QED BY <3>1, <3>2
  <2>2. DOMAIN typed' = Types
    BY <1>12 DEF Build
  <2> QED BY <1>1, <1>12, <2>1, <2>2 DEF Build, Scalars
<1>13. CASE EndBuild
  BY <1>1, <1>13 DEF EndBuild, Goto, Scalars
<1>14. CASE EndFiles
  BY <1>1, <1>14 DEF EndFiles, Goto, Scalars
<1>15. CASE Disk
  BY <1>1, <1>15 DEF Disk, Scalars
<1>16. CASE UNCHANGED vars
  BY <1>1, <1>16 DEF vars, Scalars
<1>17. CASE insertFile
  <2>1. "Filename" \in Types /\ "ToFile" \in Types /\ Files = Values["Filename"]
        /\ "false" \in Values["ToFile"]
    BY ConfigurationsAssumption DEF Types, Files
  <2> DEFINE f == repo["Filename"][at].value
             l == IF typed["Filename"] = NoFiles THEN Global ELSE repo["Filename"][at].level
             opened == IF f \in writable THEN f ELSE Null
             fs == IF streams[f] = None THEN opened ELSE streams[f]
  <2>2. IsList(repo["Filename"], "Filename") /\ at \in DOMAIN repo["Filename"]
    BY <1>1, <1>17, <2>1, ListFacts DEF Sound, Scalars, insertFile, Has
  <2>3. f \in Files /\ l \in Level
    BY <2>1, <2>2, ListFacts DEF Level
  <2>4. fs \in Files \cup {Null}
    BY <1>1, <2>3 DEF Scalars
  <2>5. /\ files' = Inserted(files, l, fs)
        /\ streams' = IF streams[f] = None THEN [streams EXCEPT ![f] = files'[l]] ELSE streams
        /\ typed' = [typed EXCEPT
             !["Filename"] = Inserted(typed["Filename"], l, f),
             !["ToFile"] = IF ForcedOff(fs, f) THEN setValue(typed["ToFile"], l, "false")
                                              ELSE typed["ToFile"]]
        /\ UNCHANGED <<registered, writable, pc, job, calls>> /\ at' = at + 1
    BY <1>17 DEF insertFile
  <2> HIDE DEF f, l, opened, fs
  <2>6. files' \in [Level -> Files \cup {None, Null}]
    BY <1>1, <2>3, <2>4, <2>5 DEF Inserted, Scalars
  <2>7. streams' \in [Files -> Files \cup {None, Null}]
    BY <1>1, <2>3, <2>5, <2>6 DEF Scalars
  <2>8. DOMAIN typed' = Types /\ \A t \in Types : typed'[t] \in [Level -> Values[t] \cup {None}]
    <3>1. Inserted(typed["Filename"], l, f) \in [Level -> Values["Filename"] \cup {None}]
      BY <1>1, <2>1, <2>3, MapFacts DEF Scalars
    <3>2. setValue(typed["ToFile"], l, "false") \in [Level -> Values["ToFile"] \cup {None}]
      BY <1>1, <2>1, <2>3, MapFacts DEF Scalars
    <3> QED BY <1>1, <2>5, <3>1, <3>2 DEF Scalars
  <2> QED BY <1>1, <2>5, <2>6, <2>7, <2>8 DEF Scalars
<1> QED BY <1>3, <1>4, <1>5, <1>6, <1>7, <1>8, <1>9, <1>10, <1>11, <1>12, <1>13, <1>14,
           <1>15, <1>16, <1>17 DEF Next

(* Every step keeps what the stages of copying say of the logger's list. *)
LEMMA StagesStep ==
  ASSUME IInv, [Next]_vars
  PROVE  Stages'
<1>1. /\ Stages /\ Shape /\ registered \in BOOLEAN /\ job.also \in BOOLEAN
      /\ \A t \in Types : /\ IsList(repo[t], t) /\ Full(repo[t])
                           /\ Len(defaults[t]) > 0 /\ Led(repo[t])
  BY DEF IInv, Shape, Sound, Scalars
<1>2. pc # "replay" /\ registered => \A t \in Types : Len(repo[t]) > 0
  BY <1>1 DEF Stages
<1>3. CASE \/ Set \/ SetGlobally \/ SetToDefault \/ SetRemainingToDefault \/ Clear
  <2>1. PICK new : Edit(new)
    BY <1>3, Zenon DEF Set, SetGlobally, SetToDefault, SetRemainingToDefault, Clear
  <2>2. pc' = "idle" /\ pc = "idle" /\ UNCHANGED <<repo, registered>>
    BY <2>1 DEF Edit, Call
  <2> QED BY <1>2, <2>2 DEF Stages
<1>4. CASE SetFromBase
  <2>1. /\ pc = "idle" /\ pc' = "replay" /\ UNCHANGED <<repo, registered>>
        /\ job'.from = "defaults" /\ job'.into = "conf" /\ job'.also = FALSE
    BY <1>4 DEF SetFromBase, Start, Goto, Call
  <2> QED BY <1>2, <2>1 DEF Stages
<1>5. CASE SetDefaultConfigurations
  <2>1. /\ pc = "idle" /\ pc' = "replay" /\ UNCHANGED <<repo, registered>>
        /\ job'.from = "conf" /\ job'.into = "defaults" /\ (job'.also => registered)
    <3>1. PICK also \in BOOLEAN : Start("conf", "defaults", also /\ registered)
      BY <1>5 DEF SetDefaultConfigurations
    <3>2. job' = [from |-> "conf", into |-> "defaults", also |-> also /\ registered]
      BY <3>1 DEF Start
    <3>3. job'.also = (also /\ registered) /\ job'.from = "conf" /\ job'.into = "defaults"
      BY <3>2
    <3>4. job'.also => registered
      BY <3>3, Zenon
    <3> QED BY <1>5, <3>1, <3>3, <3>4 DEF SetDefaultConfigurations, Start, Goto, Call
  <2> QED BY <1>2, <2>1 DEF Stages
<1>6. CASE GetLogger
  <2>1. /\ pc' = "replay" /\ at' = 1 /\ registered'
        /\ job'.from = "defaults" /\ job'.into = "logger"
    BY <1>6 DEF GetLogger, Start, Goto, Call
  <2> QED BY <2>1 DEF Stages
<1>7. CASE ReconfigureLogger
  <2>1. /\ pc = "idle" /\ pc' = "replay" /\ registered /\ UNCHANGED <<repo, registered>>
        /\ job'.from = "conf" /\ job'.into = "logger"
    BY <1>7 DEF ReconfigureLogger, Start, Goto, Call
  <2> QED BY <1>2, <2>1 DEF Stages
<1>8. CASE UnregisterLogger
  <2>1. pc' # "replay" /\ ~registered'
    BY <1>8 DEF UnregisterLogger, Call
  <2> QED BY <2>1 DEF Stages
<1>9. CASE Reconfigure
  <2>1. pc = "idle" /\ pc' = "build" /\ registered
    BY <1>9 DEF Reconfigure, Call, Goto
  <2>2. PICK u \in Types, l \in Level : \E v \in Values[u] :
           repo' = [repo EXCEPT ![u] = set(repo[u], l, v)]
    BY <1>9, Zenon DEF Reconfigure
  <2>3. PICK v \in Values[u] : repo' = [repo EXCEPT ![u] = set(repo[u], l, v)]
    BY <2>2
  <2>4. Len(set(repo[u], l, v)) > 0
    BY <1>1, SetKeeps
  <2>5. \A t \in Types : Len(repo'[t]) > 0
    BY <1>2, <2>1, <2>3, <2>4 DEF IInv, Shape, Sound
  <2> QED BY <2>1, <2>5 DEF Stages
<1>10. CASE Replay
  <2>1. pc = "replay" /\ pc' = "replay" /\ UNCHANGED <<registered, job>>
    BY <1>10 DEF Replay
  <2>2. CASE job.into # "logger"
    <3>1. UNCHANGED repo
      BY <1>1, <1>10, <2>1, <2>2 DEF Replay, Stages
    <3>2. registered => \A t \in Types : Len(repo[t]) > 0
      BY <1>1, <2>2 DEF Stages
    <3> QED BY <1>1, <2>1, <3>1, <3>2 DEF Stages
  <2>3. CASE job.into = "logger"
    <3>1. /\ registered
          /\ \A t \in Types : \/ Len(repo[t]) > 0
                              \/ source = defaults /\ at = 1
      BY <1>1, <2>1, <2>3 DEF Stages, source
    <3>2. \A t \in Types : Len(Replayed(repo[t], t)) > 0
      BY <1>1, <3>1, ReplayedKeeps
    <3>3. \A t \in Types : Len(repo'[t]) > 0
      BY <1>10, <2>3, <3>2 DEF Replay
    <3> QED BY <1>1, <2>1, <3>1, <3>3 DEF Stages
  <2> QED BY <2>2, <2>3
<1>11. CASE EndReplay
  <2>1. /\ pc = "replay" /\ UNCHANGED <<repo, defaults, registered>>
        /\ ~\E t \in Types : Has(source[t])
    BY <1>11 DEF EndReplay
  <2>2. registered => \A t \in Types : Len(repo[t]) > 0
    <3>1. ASSUME job.from = "defaults", at = 1 PROVE FALSE
      <4>1. source = defaults
        BY <3>1 DEF source
      <4>2. "ToFile" \in Types /\ Len(defaults["ToFile"]) > 0
        BY <1>1 DEF Types
      <4>3. at <= Len(defaults["ToFile"])
        BY <3>1, <4>2, ListFacts DEF IInv, Shape, Sound
      <4> QED BY <2>1, <4>1, <4>2, <4>3 DEF Has
    <3> QED BY <1>1, <3>1 DEF Stages
  <2>3. CASE job.into = "logger"
    <3>1. pc' = "build"
      BY <1>11, <2>3 DEF EndReplay, Goto
    <3> QED BY <2>1, <2>2, <3>1 DEF Stages
  <2>4. CASE job.into # "logger" /\ ~job.also
    <3>1. pc' = "idle"
      BY <1>11, <2>4 DEF EndReplay, Goto
    <3> QED BY <2>1, <2>2, <3>1 DEF Stages
  <2>5. CASE job.into # "logger" /\ job.also
    <3>1. /\ pc' = "replay" /\ registered /\ job.from \in {"conf", "defaults"}
          /\ job' = [job EXCEPT !.into = "logger", !.also = FALSE]
      BY <1>1, <1>11, <2>1, <2>5 DEF EndReplay, Goto, Stages
    <3>2. job'.from = job.from /\ job'.into = "logger"
      BY <3>1 DEF IInv, Scalars
    <3> QED BY <2>1, <2>2, <3>1, <3>2 DEF Stages
  <2> QED BY <1>1, <2>3, <2>4, <2>5
<1>12. CASE Build \/ EndBuild \/ insertFile \/ EndFiles \/ Disk
  <2>1. pc # "replay" /\ pc' # "replay" /\ UNCHANGED <<repo, registered>>
    BY <1>12 DEF Build, EndBuild, insertFile, EndFiles, Disk, Goto
  <2> QED BY <1>2, <2>1 DEF Stages
<1>13. CASE UNCHANGED vars
  BY <1>1, <1>13 DEF vars, Stages
<1> QED BY <1>3, <1>4, <1>5, <1>6, <1>7, <1>8, <1>9, <1>10, <1>11, <1>12, <1>13 DEF Next

(* The invariant of the repositories. *)
LEMMA Invariance == Spec => []IInv
<1>1. IInv /\ [Next]_vars => IInv'
  BY ScalarsStep, ShapeStep, StagesStep DEF IInv
<1> QED BY Initially, <1>1, PTL DEF Spec

(* Types, and that repositories list a level once, for any levels, types   *)
(* and values.                                                             *)
THEOREM ConfigurationsTypeCorrect == Spec => []TypeOK
<1>1. IInv => TypeOK
  BY DEF IInv, Scalars, Shape, Sound, TypeOK, IsRepository
<1> QED BY Invariance, <1>1, PTL

(* The defaults and loggers' repositories begin with Level::Global, and no *)
(* repository has a value for Global and none for another level.           *)
THEOREM GlobalIsFirst == Spec => []GlobalLeads
<1>1. IInv => GlobalLeads
  <2> SUFFICES ASSUME IInv, NEW t \in Types
               PROVE  /\ defaults[t] # <<>> /\ Leads(defaults[t])
                      /\ repo[t] # <<>> => Leads(repo[t])
                      /\ \A r \in {conf, defaults, repo} :
                           Global \in LevelsOf(r[t]) => LevelsOf(r[t]) = Level
    BY DEF GlobalLeads
  <2>1. IsList(defaults[t], t) /\ IsList(repo[t], t)
    BY DEF IInv, Shape, Sound
  <2>2. Len(defaults[t]) > 0 /\ Led(defaults[t]) /\ Led(repo[t])
    BY DEF IInv, Shape
  <2>3. defaults[t] # <<>>
    BY <2>1, <2>2, ListFacts
  <2>4. repo[t] # <<>> => Len(repo[t]) > 0
    BY <2>1, ListFacts
  <2>5. \A r \in {conf, defaults, repo} : Global \in LevelsOf(r[t]) => LevelsOf(r[t]) = Level
    BY DEF IInv, Shape, Sound, Full
  <2> QED BY <2>2, <2>3, <2>4, <2>5 DEF Led
<1> QED BY Invariance, <1>1, PTL

-----------------------------------------------------------------------------
(* A map into which the entries before position n have been entered: since *)
(* the first is Global's, the map answers for it, and for every level that *)
(* has been seen or that is to fall back on it.                            *)
Entered(map, list, n) ==
  /\ n = 1 => map = NoFiles
  /\ n > 1 => map[Global] = list[1].value
  /\ \A j \in DOMAIN list : j < n => Lookup(map, list[j].level) = list[j].value
  /\ \A l \in Level \ {Global} :
       map[l] # None => \E j \in DOMAIN list : j < n /\ list[j].level = l

(* Whether the typed configurations answer what the repository says. *)
Agrees(t) == \A l \in Level : Lookup(typed[t], l) = ValueOf(repo[t], l)

BuildInv ==
  /\ pc = "build" => /\ registered /\ typed["Filename"] = NoFiles
                     /\ \A t \in OwnTypes : Entered(typed[t], repo[t], at)
  /\ pc = "files" => /\ registered
                     /\ Entered(typed["Filename"], repo["Filename"], at)
                     /\ \A t \in OwnTypes : Agrees(t)
  /\ registered /\ (pc = "idle" \/ (pc = "replay" /\ job.into # "logger")) =>
       \A t \in OwnTypes \cup {"Filename"} : Agrees(t)

(* setValue and insert() enter an entry: an entry with Global's value is   *)
(* dropped by the one, Global's is the first to be made by both.           *)
LEMMA EnteredNext ==
  ASSUME NEW t \in Types, NEW list, IsList(list, t), Len(list) > 0, Leads(list),
         NEW map \in [Level -> Values[t] \cup {None}],
         NEW n \in Nat \ {0}, n <= Len(list), Entered(map, list, n),
         NEW new, \/ new = setValue(map, list[n].level, list[n].value)
                  \/ new = Inserted(map, list[n].level, list[n].value)
  PROVE  Entered(new, list, n + 1)
<1> DEFINE l == list[n].level
           v == list[n].value
<1>1. /\ DOMAIN list = 1 .. Len(list) /\ Len(list) \in Nat
      /\ \A i \in DOMAIN list : list[i].level \in Level /\ list[i].value \in Values[t]
      /\ \A i, j \in DOMAIN list : list[i].level = list[j].level => i = j
      /\ list[1].level = Global /\ 1 \in DOMAIN list /\ n \in DOMAIN list
  BY ListFacts DEF IsList, Leads
<1>2. l \in Level /\ v \in Values[t] /\ v # None /\ list[1].value # None /\ Global \in Level
  BY <1>1, ConfigurationsAssumption
<1>3. CASE n = 1
  <2>1. map = NoFiles /\ l = Global
    BY <1>1, <1>3 DEF Entered
  <2>2. new = [NoFiles EXCEPT ![Global] = v]
    BY <2>1, <1>2 DEF setValue, Inserted, NoFiles
  <2>3. new[Global] = v /\ \A k \in Level \ {Global} : new[k] = None
    BY <2>2, <1>2 DEF NoFiles
  <2> QED BY <1>1, <1>2, <1>3, <2>3 DEF Entered, Lookup
<1>4. CASE n > 1
  <2>1. map[Global] = list[1].value /\ l # Global /\ map # NoFiles
    BY <1>1, <1>2, <1>4 DEF Entered, NoFiles
  <2>2. map[l] = None
    BY <1>1, <1>2, <2>1 DEF Entered
  <2> HIDE DEF l, v
  <2>3. CASE new = map /\ map[Global] = v
    <3>1. Lookup(new, l) = v
      BY <2>2, <2>3 DEF Lookup
    <3>2. \A j \in DOMAIN list : j < n + 1 => Lookup(new, list[j].level) = list[j].value
      <4> TAKE j \in DOMAIN list
      <4>1. j < n + 1 => j < n \/ j = n
        BY <1>1
      <4> QED BY <4>1, <3>1, <2>3 DEF Entered, l, v
    <3>3. \A k \in Level \ {Global} :
             new[k] # None => \E j \in DOMAIN list : j < n + 1 /\ list[j].level = k
      BY <1>1, <2>3 DEF Entered
    <3> QED BY <1>4, <2>1, <2>3, <3>2, <3>3 DEF Entered
  <2>4. CASE new = [map EXCEPT ![l] = v]
    <3>1. new[l] = v /\ \A k \in Level \ {l} : new[k] = map[k]
      BY <1>2, <2>4
    <3>2. \A j \in DOMAIN list : j < n + 1 => Lookup(new, list[j].level) = list[j].value
      <4> TAKE j \in DOMAIN list
      <4>1. CASE j < n
        <5>1. list[j].level # l /\ list[j].level \in Level
          BY <1>1, <4>1 DEF l
        <5>2. Lookup(new, list[j].level) = Lookup(map, list[j].level)
          BY <5>1, <3>1, <2>1, <1>2 DEF Lookup
        <5> QED BY <5>2, <4>1 DEF Entered
      <4>2. CASE j = n
        BY <4>2, <3>1, <1>2 DEF Lookup, l, v
      <4> QED BY <4>1, <4>2, <1>1
    <3>3. \A k \in Level \ {Global} :
             new[k] # None => \E j \in DOMAIN list : j < n + 1 /\ list[j].level = k
      <4> TAKE k \in Level \ {Global}
      <4>1. CASE k = l
        BY <4>1, <1>1 DEF l
      <4>2. CASE k # l
        BY <4>2, <3>1, <1>1 DEF Entered
      <4> QED BY <4>1, <4>2
    <3>4. new[Global] = list[1].value
      BY <3>1, <2>1, <1>2
    <3> QED BY <1>4, <3>2, <3>3, <3>4 DEF Entered
  <2>5. (new = map /\ map[Global] = v) \/ new = [map EXCEPT ![l] = v]
    BY <2>1, <2>2 DEF setValue, Inserted, NoFiles, l, v
  <2> QED BY <2>3, <2>4, <2>5
<1> QED BY <1>3, <1>4

(* Behind the end of a list nothing is left to enter ... *)
LEMMA EnteredPast ==
  ASSUME NEW t \in Types, NEW list, IsList(list, t), Len(list) > 0, NEW map,
         NEW n \in Nat \ {0}, ~(n <= Len(list)), Entered(map, list, n)
  PROVE  Entered(map, list, n + 1)
<1>1. DOMAIN list = 1 .. Len(list) /\ Len(list) \in Nat
  BY ListFacts
<1>2. \A j \in DOMAIN list : j < n /\ j < n + 1
  BY <1>1
<1> QED BY <1>1, <1>2 DEF Entered

(* ... and the map answers what the list says. *)
LEMMA EnteredAll ==
  ASSUME NEW t \in Types, NEW list, IsList(list, t), Full(list), Len(list) > 0,
         Leads(list), NEW map, NEW n \in Nat \ {0}, ~(n <= Len(list)),
         Entered(map, list, n), NEW l \in Level
  PROVE  Lookup(map, l) = ValueOf(list, l)
<1>1. DOMAIN list = 1 .. Len(list) /\ Len(list) \in Nat /\ 1 \in DOMAIN list
  BY ListFacts
<1>2. Global \in LevelsOf(list)
  BY <1>1 DEF Leads, LevelsOf
<1>3. l \in LevelsOf(list)
  BY <1>2 DEF Full
<1> DEFINE i == CHOOSE k \in DOMAIN list : list[k].level = l
<1>4. i \in DOMAIN list /\ list[i].level = l
  BY <1>3 DEF LevelsOf
<1>5. ValueOf(list, l) = list[i].value
  BY <1>3 DEF ValueOf
<1> HIDE DEF i
<1>6. i < n
  BY <1>1, <1>4
<1> QED BY <1>4, <1>5, <1>6 DEF Entered

(* insertFile's first entry is Global's: it enters every file for its own  *)
(* level.                                                                  *)
LEMMA FileLevel ==
  ASSUME IInv, BuildInv, insertFile
  PROVE  /\ IsList(repo["Filename"], "Filename") /\ at \in DOMAIN repo["Filename"]
         /\ at = 1 <=> repo["Filename"][at].level = Global
         /\ (IF typed["Filename"] = NoFiles THEN Global ELSE repo["Filename"][at].level)
              = repo["Filename"][at].level
<1> DEFINE list == repo["Filename"]
<1>1. /\ pc = "files" /\ at \in Nat \ {0} /\ at <= Len(list) /\ "Filename" \in Types
  BY DEF insertFile, Has, IInv, Scalars, Types
<1>2. registered /\ Entered(typed["Filename"], list, at)
  BY <1>1 DEF BuildInv
<1>3. IsList(list, "Filename") /\ Len(list) > 0 /\ Leads(list)
  BY <1>1, <1>2 DEF IInv, Shape, Sound, Stages, Led
<1> HIDE DEF list
<1>4. /\ DOMAIN list = 1 .. Len(list) /\ Len(list) \in Nat
      /\ list[1].value \in Values["Filename"]
      /\ \A i, j \in DOMAIN list : list[i].level = list[j].level => i = j
  <2>1. DOMAIN list = 1 .. Len(list) /\ Len(list) \in Nat
    BY <1>1, <1>3, ListFacts
  <2>2. 1 \in DOMAIN list
    BY <1>3, <2>1
  <2> QED BY <1>1, <1>3, <2>1, <2>2, ListFacts DEF IsList
<1>5. at \in DOMAIN list /\ 1 \in DOMAIN list /\ list[1].level = Global
  BY <1>1, <1>3, <1>4 DEF Leads
<1>6. CASE at = 1
  BY <1>3, <1>5, <1>6 DEF list
<1>7. CASE at > 1
  <2>1. typed["Filename"][Global] # None
    BY <1>1, <1>2, <1>4, <1>7, ConfigurationsAssumption DEF Entered
  <2>2. typed["Filename"] # NoFiles
    BY <2>1 DEF NoFiles, Level
  <2>3. list[at].level # Global
    BY <1>4, <1>5, <1>7
  <2> QED BY <1>3, <1>5, <1>7, <2>2, <2>3 DEF list
<1> QED BY <1>1, <1>6, <1>7

(* Every step keeps what the typed configurations say. *)
LEMMA BuildStep ==
  ASSUME IInv, BuildInv, [Next]_vars
  PROVE  BuildInv'
<1> DEFINE Own == OwnTypes \cup {"Filename"}
<1>1. /\ registered \in BOOLEAN /\ at \in Nat \ {0} /\ Own \subseteq Types
      /\ "Filename" \notin OwnTypes /\ "ToFile" \notin Own
      /\ \A t \in Types : /\ IsList(repo[t], t) /\ Full(repo[t]) /\ Led(repo[t])
                           /\ typed[t] \in [Level -> Values[t] \cup {None}]
  BY ConfigurationsAssumption DEF IInv, Scalars, Shape, Sound, Types
<1>2. registered /\ pc # "replay" =>
        \A t \in Types : Len(repo[t]) > 0 /\ Leads(repo[t])
  BY <1>1 DEF IInv, Stages, Led
<1>3. CASE \/ Set \/ SetGlobally \/ SetToDefault \/ SetRemainingToDefault \/ Clear \/ Disk
  <2>1. pc = "idle" /\ pc' = "idle" /\ UNCHANGED <<repo, typed, registered>>
    <3>1. CASE Disk
      BY <3>1 DEF Disk
    <3>2. CASE \E new : Edit(new)
      BY <3>2 DEF Edit, Call
    <3> QED BY <1>3, <3>1, <3>2, Zenon
          DEF Set, SetGlobally, SetToDefault, SetRemainingToDefault, Clear
  <2> QED BY <2>1 DEF BuildInv, Agrees
<1>4. CASE SetFromBase \/ SetDefaultConfigurations
  <2>1. /\ pc = "idle" /\ pc' = "replay" /\ UNCHANGED <<repo, typed, registered>>
    BY <1>4 DEF SetFromBase, SetDefaultConfigurations, Start, Call, Goto
  <2> QED BY <2>1 DEF BuildInv, Agrees
<1>5. CASE GetLogger \/ ReconfigureLogger
  <2>1. pc' = "replay" /\ job'.into = "logger"
    BY <1>5 DEF GetLogger, ReconfigureLogger, Start, Goto
  <2> QED BY <2>1 DEF BuildInv
<1>6. CASE UnregisterLogger
  <2>1. pc' = "idle" /\ ~registered'
    BY <1>6 DEF UnregisterLogger, Call
  <2> QED BY <2>1 DEF BuildInv
<1>7. ASSUME pc' = "build", at' = 1, registered', typed' = Unset
      PROVE  BuildInv'
  <2>1. \A t \in Own : typed'[t] = NoFiles
    BY <1>1, <1>7 DEF Unset, NoFiles
  <2>2. \A t \in Types : DOMAIN repo'[t] = 1 .. Len(repo'[t])
    <3>1. \A t \in Types : IsList(repo'[t], t)
      BY ShapeStep DEF Shape, Sound
    <3> QED BY <3>1, ListFacts
  <2>3. \A t \in OwnTypes : Entered(typed'[t], repo'[t], at')
    <3> TAKE t \in OwnTypes
    <3>1. typed'[t] = NoFiles /\ at' = 1 /\ \A j \in DOMAIN repo'[t] : ~(j < 1)
      BY <1>1, <1>7, <2>1, <2>2
    <3>2. \A l \in Level : NoFiles[l] = None
      BY DEF NoFiles
    <3> QED BY <3>1, <3>2 DEF Entered
  <2> QED BY <1>7, <2>1, <2>3 DEF BuildInv
<1>8. CASE Reconfigure
  BY <1>7, <1>8 DEF Reconfigure, Goto, Discarded
<1>9. CASE Replay
  <2>1. pc = "replay" /\ pc' = "replay" /\ UNCHANGED <<registered, typed, job>>
    BY <1>9 DEF Replay
  <2>2. job.into # "logger" => UNCHANGED repo
    BY <1>9, <2>1 DEF Replay, IInv, Stages
  <2> QED BY <2>1, <2>2 DEF BuildInv, Agrees
<1>10. CASE EndReplay
  <2>1. pc = "replay" /\ UNCHANGED <<repo, registered>>
    BY <1>10 DEF EndReplay
  <2>2. CASE job.into = "logger"
    <3>1. registered
      BY <2>1, <2>2 DEF IInv, Stages
    <3> QED BY <1>7, <1>10, <2>1, <2>2, <3>1 DEF EndReplay, Goto, Discarded
  <2>3. CASE job.into # "logger" /\ job.also
    <3>1. pc' = "replay" /\ job' = [job EXCEPT !.into = "logger", !.also = FALSE]
      BY <1>10, <2>3 DEF EndReplay, Goto
    <3>2. job'.into = "logger"
      BY <3>1 DEF IInv, Scalars
    <3> QED BY <3>1, <3>2 DEF BuildInv
  <2>4. CASE job.into # "logger" /\ ~job.also
    <3>1. pc' = "idle" /\ UNCHANGED typed
      BY <1>10, <2>4 DEF EndReplay, Goto
    <3> QED BY <2>1, <2>4, <3>1 DEF BuildInv, Agrees
  <2> QED BY <2>2, <2>3, <2>4
<1>11. CASE Build
  <2>1. pc = "build" /\ pc' = "build" /\ at' = at + 1 /\ UNCHANGED <<repo, registered>>
    BY <1>11 DEF Build
  <2>2. registered /\ typed["Filename"] = NoFiles /\ typed'["Filename"] = NoFiles
    BY <1>1, <1>11, <2>1 DEF Build, BuildInv
  <2>3. \A t \in OwnTypes : Entered(typed'[t], repo[t], at + 1)
    <3> TAKE t \in OwnTypes
    <3>1. /\ Entered(typed[t], repo[t], at) /\ t \in Types /\ t # "Filename"
          /\ Len(repo[t]) > 0 /\ Leads(repo[t])
      BY <1>1, <1>2, <2>1, <2>2 DEF BuildInv
    <3>2. CASE Has(repo[t])
      <4>1. typed'[t] = setValue(typed[t], repo[t][at].level, repo[t][at].value)
        BY <1>11, <3>1, <3>2, ConfigurationsAssumption DEF Build, TypedLevel
      <4>2. at <= Len(repo[t])
        BY <3>2 DEF Has
      <4> QED BY <1>1, <3>1, <4>1, <4>2, EnteredNext
    <3>3. CASE ~Has(repo[t])
      <4>1. typed'[t] = typed[t] /\ ~(at <= Len(repo[t]))
        BY <1>11, <3>1, <3>3 DEF Build, Has
      <4>2. Entered(typed[t], repo[t], at + 1)
        BY <1>1, <3>1, <4>1, EnteredPast
      <4> QED BY <4>1, <4>2
    <3> QED BY <3>2, <3>3
  <2> QED BY <2>1, <2>2, <2>3 DEF BuildInv
<1>12. CASE EndBuild
  <2>1. /\ pc = "build" /\ pc' = "files" /\ at' = 1 /\ UNCHANGED <<repo, registered, typed>>
        /\ \A t \in Types : ~(at <= Len(repo[t]))
    BY <1>12 DEF EndBuild, Goto, Has
  <2>2. registered /\ typed["Filename"] = NoFiles
    BY <2>1 DEF BuildInv
  <2>3. \A t \in OwnTypes : Agrees(t)
    <3> SUFFICES ASSUME NEW t \in OwnTypes, NEW l \in Level
                 PROVE  Lookup(typed[t], l) = ValueOf(repo[t], l)
      BY DEF Agrees
    <3>1. /\ Entered(typed[t], repo[t], at) /\ t \in Types
          /\ Len(repo[t]) > 0 /\ Leads(repo[t])
      BY <1>1, <1>2, <2>1, <2>2 DEF BuildInv
    <3> QED BY <1>1, <2>1, <3>1, EnteredAll
  <2>4. Entered(typed["Filename"], repo["Filename"], 1)
    <3>1. \A j \in DOMAIN repo["Filename"] : ~(j < 1)
      BY <1>1, ListFacts
    <3>2. \A l \in Level : NoFiles[l] = None
      BY DEF NoFiles
    <3> QED BY <2>2, <3>1, <3>2 DEF Entered
  <2> QED BY <2>1, <2>2, <2>3, <2>4 DEF BuildInv, Agrees
<1>13. CASE insertFile
  <2> DEFINE list == repo["Filename"]
             l == IF typed["Filename"] = NoFiles THEN Global ELSE list[at].level
  <2>1. /\ pc = "files" /\ pc' = "files" /\ at' = at + 1 /\ UNCHANGED <<repo, registered>>
        /\ at <= Len(list)
    BY <1>13 DEF insertFile, Has
  <2>2. /\ registered /\ Entered(typed["Filename"], list, at)
        /\ \A t \in OwnTypes : Agrees(t)
    BY <2>1 DEF BuildInv
  <2>3. IsList(list, "Filename") /\ Len(list) > 0 /\ Leads(list) /\ "Filename" \in Types
    BY <1>1, <1>2, <2>1, <2>2
  <2>4. typed'["Filename"] = Inserted(typed["Filename"], l, list[at].value)
        /\ \A t \in OwnTypes : typed'[t] = typed[t]
    <3>1. PICK toFile : typed' = [typed EXCEPT
                          !["Filename"] = Inserted(typed["Filename"], l, list[at].value),
                          !["ToFile"] = toFile]
      BY <1>13, Zenon DEF insertFile
    <3>2. DOMAIN typed = Types /\ "Filename" \in Types
      BY DEF IInv, Scalars, Types
    <3> HIDE DEF l, list
    <3>3. typed'["Filename"] = Inserted(typed["Filename"], l, list[at].value)
      BY <3>1, <3>2
    <3>4. \A t \in OwnTypes : typed'[t] = typed[t]
      BY <1>1, <3>1, <3>2
    <3> QED BY <3>3, <3>4
  <2>5. l = list[at].level
    BY <1>13, FileLevel
  <2> HIDE DEF l
  <2>6. typed'["Filename"] = Inserted(typed["Filename"], list[at].level, list[at].value)
    BY <2>4, <2>5
  <2>7. typed["Filename"] \in [Level -> Values["Filename"] \cup {None}]
    BY <1>1, <2>3
  <2> HIDE DEF list
  <2>8. Entered(typed'["Filename"], list, at + 1)
    BY <1>1, <2>1, <2>2, <2>3, <2>6, <2>7, EnteredNext
  <2> QED BY <2>1, <2>2, <2>4, <2>8 DEF BuildInv, Agrees, list
<1>14. CASE EndFiles
  <2>1. /\ pc = "files" /\ pc' = "idle" /\ UNCHANGED <<repo, registered, typed>>
        /\ ~(at <= Len(repo["Filename"]))
    BY <1>14 DEF EndFiles, Goto, Has
  <2>2. /\ registered /\ Entered(typed["Filename"], repo["Filename"], at)
        /\ \A t \in OwnTypes : Agrees(t)
    BY <2>1 DEF BuildInv
  <2>3. Agrees("Filename")
    <3> SUFFICES ASSUME NEW l \in Level
                 PROVE  Lookup(typed["Filename"], l) = ValueOf(repo["Filename"], l)
      BY DEF Agrees
    <3>1. /\ IsList(repo["Filename"], "Filename") /\ Full(repo["Filename"])
          /\ Len(repo["Filename"]) > 0 /\ Leads(repo["Filename"]) /\ "Filename" \in Types
      BY <1>1, <1>2, <2>1, <2>2
    <3> QED BY <1>1, <2>1, <2>2, <3>1, EnteredAll
  <2> QED BY <2>1, <2>2, <2>3 DEF BuildInv, Agrees
<1>15. CASE UNCHANGED vars
  BY <1>15 DEF vars, BuildInv, Agrees
<1> QED BY <1>3, <1>4, <1>5, <1>6, <1>8, <1>9, <1>10, <1>11, <1>12, <1>13, <1>14, <1>15 DEF Next

(* A configured logger answers for every level and type what its           *)
(* repository says, although values equal to Global's are not in its maps. *)
THEOREM LookupsAgree == Spec => []LookupAgrees
<1>1. Init => BuildInv
  BY DEF Init, BuildInv
<1>2. IInv /\ BuildInv /\ [Next]_vars => BuildInv'
  BY BuildStep
<1>3. BuildInv => LookupAgrees
  BY DEF BuildInv, Agrees, LookupAgrees
<1> QED BY Invariance, <1>1, <1>2, <1>3, PTL DEF Spec

-----------------------------------------------------------------------------
(* The value of a level is that of its entry. *)
LEMMA ValueOfEntry ==
  ASSUME NEW t \in Types, NEW list, IsList(list, t), NEW i \in DOMAIN list
  PROVE  ValueOf(list, list[i].level) = list[i].value
<1> DEFINE k == CHOOSE j \in DOMAIN list : list[j].level = list[i].level
<1>1. list[i].level \in LevelsOf(list)
  BY DEF LevelsOf
<1>2. k \in DOMAIN list /\ list[k].level = list[i].level
  OBVIOUS
<1>3. k = i
  BY <1>2 DEF IsList
<1>4. ValueOf(list, list[i].level) = list[k].value
  BY <1>1 DEF ValueOf
<1> HIDE DEF k
<1> QED BY <1>3, <1>4

(* unsafeSet changes the value of its level and of no other. *)
LEMMA UnsafeSetValue ==
  ASSUME NEW t \in Types, NEW list, IsList(list, t), NEW l \in Level,
         NEW v \in Values[t], NEW new, new = unsafeSet(list, l, v)
  PROVE  /\ ValueOf(new, l) = v
         /\ \A k \in LevelsOf(list) \ {l} : ValueOf(new, k) = ValueOf(list, k)
<1> DEFINE E == [level : Level, value : Values[t]]
<1>1. /\ list \in Seq(E) /\ DOMAIN list = 1 .. Len(list) /\ Len(list) \in Nat
      /\ IsList(new, t) /\ DOMAIN new = 1 .. Len(new) /\ Len(new) \in Nat
  BY UnsafeSetFacts, ListFacts DEF IsList
<1>2. Entry(l, v) \in E /\ Entry(l, v).level = l /\ Entry(l, v).value = v
  BY DEF Entry
<1> HIDE DEF E
<1>3. /\ \E i \in DOMAIN new : new[i] = Entry(l, v)
      /\ \A i \in DOMAIN list : list[i].level # l => i \in DOMAIN new /\ new[i] = list[i]
  <2>1. CASE l \in LevelsOf(list)
    <3>1. new = [i \in DOMAIN list |-> IF list[i].level = l THEN Entry(l, v) ELSE list[i]]
      BY <2>1 DEF unsafeSet
    <3>2. PICK i \in DOMAIN list : list[i].level = l
      BY <2>1 DEF LevelsOf
    <3>3. i \in DOMAIN new /\ new[i] = Entry(l, v)
      BY <3>1, <3>2
    <3> QED BY <3>1, <3>3
  <2>2. CASE l \notin LevelsOf(list)
    <3>1. new = Append(list, Entry(l, v))
      BY <2>2 DEF unsafeSet
    <3>2. /\ Len(list) + 1 \in DOMAIN new /\ new[Len(list) + 1] = Entry(l, v)
          /\ \A i \in DOMAIN list : i \in DOMAIN new /\ new[i] = list[i]
      BY <1>1, <1>2, <3>1
    <3> QED BY <3>2
  <2> QED BY <2>1, <2>2
<1>4. ValueOf(new, l) = v
  <2>1. PICK i \in DOMAIN new : new[i] = Entry(l, v)
    BY <1>3
  <2> QED BY <1>1, <1>2, <2>1, ValueOfEntry
<1>5. ASSUME NEW k \in LevelsOf(list) \ {l}
      PROVE  ValueOf(new, k) = ValueOf(list, k)
  <2>1. PICK i \in DOMAIN list : list[i].level = k
    BY DEF LevelsOf
  <2>2. i \in DOMAIN new /\ new[i] = list[i]
    BY <1>3, <2>1
  <2>3. ValueOf(list, k) = list[i].value
    BY <2>1, ValueOfEntry
  <2>4. ValueOf(new, k) = new[i].value
    BY <1>1, <2>1, <2>2, ValueOfEntry
  <2> QED BY <2>2, <2>3, <2>4
<1> QED BY <1>4, <1>5

(* unsafeSetGlobally leaves Global's value alone. *)
LEMMA UnsafeSetGloballyValue ==
  ASSUME NEW t \in Types, NEW list, IsList(list, t), Global \in LevelsOf(list),
         NEW v \in Values[t], NEW new, new = unsafeSetGlobally(list, v)
  PROVE  ValueOf(new, Global) = ValueOf(list, Global)
<1> DEFINE E == [level : Level, value : Values[t]]
           present == [i \in DOMAIN list |->
                         IF list[i].level \in Explicit THEN Entry(list[i].level, v)
                                                       ELSE list[i]]
           missing == Explicit \ LevelsOf(list)
           n == Cardinality(missing)
           s == SetToSeq(missing)
           val == [l \in Explicit |-> v]
           tail == [i \in 1 .. n |-> Entry(s[i], val[s[i]])]
<1>1. /\ list \in Seq(E) /\ DOMAIN list = 1 .. Len(list) /\ Len(list) \in Nat
      /\ \A i \in 1 .. Len(list) : list[i] \in E
  <2>1. list \in Seq(E)
    BY DEF IsList
  <2> HIDE DEF E
  <2> QED BY <2>1
<1>2. IsList(new, t) /\ DOMAIN new = 1 .. Len(new) /\ Len(new) \in Nat
  <2>1. IsList(new, t)
    BY UnsafeSetGloballyFacts
  <2> HIDE DEF E, present, missing, n, s, val, tail
  <2> QED BY <2>1, ListFacts
<1>3. PICK g \in DOMAIN list : list[g].level = Global
  BY DEF LevelsOf
<1>4. present \in [1 .. Len(list) -> E]
  <2>1. \A i \in 1 .. Len(list) : /\ list[i].level \in Level
                                  /\ Entry(list[i].level, v) \in E
    BY <1>1 DEF Entry
  <2> HIDE DEF E
  <2> QED BY <1>1, <2>1
<1>5. present[g] = list[g]
  BY <1>3, ConfigurationsAssumption
<1>6. n \in Nat /\ tail \in [1 .. n -> E]
  <2>1. IsFiniteSet(missing)
    BY ConfigurationsAssumption, FS_Subset
  <2>2. n \in Nat /\ s \in [1 .. n -> missing]
    BY <2>1, SetToSeqFacts
  <2>3. \A i \in 1 .. n : s[i] \in Explicit /\ val[s[i]] = v
    BY <2>2
  <2>4. \A l \in Explicit : Entry(l, v) \in E
    BY DEF Entry, Level
  <2> HIDE DEF E, n, s, val
  <2> QED BY <2>2, <2>3, <2>4
<1>7. new = present \o tail
  BY DEF unsafeSetGlobally, Appended
<1> HIDE DEF E, present, tail, n
<1>8. /\ present \in Seq(E) /\ Len(present) = Len(list) /\ tail \in Seq(E)
  BY <1>1, <1>4, <1>6, FunctionIsSequence
<1>9. /\ Len(new) = Len(present) + Len(tail) /\ Len(tail) \in Nat
      /\ \A i \in 1 .. Len(present) : new[i] = present[i]
  <2>1. present \in Seq(E) /\ tail \in Seq(E)
    BY <1>8
  <2>2. Len(new) = Len(present) + Len(tail)
    BY <1>7, <2>1, Concatenation
  <2>3. \A i \in 1 .. Len(present) : new[i] = present[i]
    BY <1>7, <2>1, Concatenation
  <2> QED BY <2>1, <2>2, <2>3
<1>10. g \in DOMAIN new /\ new[g] = list[g]
  BY <1>1, <1>2, <1>3, <1>5, <1>8, <1>9
<1>11. ValueOf(new, Global) = new[g].value
  BY <1>2, <1>3, <1>10, ValueOfEntry
<1>12. ValueOf(list, Global) = list[g].value
  BY <1>3, ValueOfEntry
<1> QED BY <1>10, <1>11, <1>12

(* set gives its level its value, and leaves the others alone where it is  *)
(* not Global's.                                                           *)
LEMMA SetValue ==
  ASSUME NEW t \in Types, NEW list, IsList(list, t), NEW l \in Level,
         NEW v \in Values[t], NEW new, new = set(list, l, v)
  PROVE  /\ ValueOf(new, l) = v
         /\ l # Global => \A k \in LevelsOf(list) \ {l} :
                             ValueOf(new, k) = ValueOf(list, k)
<1> DEFINE one == unsafeSet(list, l, v)
<1>1. IsList(one, t) /\ LevelsOf(one) = LevelsOf(list) \cup {l}
  BY UnsafeSetFacts
<1>2. /\ ValueOf(one, l) = v
      /\ \A k \in LevelsOf(list) \ {l} : ValueOf(one, k) = ValueOf(list, k)
  <2> HIDE DEF one
  <2>1. one = unsafeSet(list, l, v)
    BY DEF one
  <2> QED BY <2>1, UnsafeSetValue
<1>3. CASE l # Global
  BY <1>2, <1>3 DEF set
<1>4. CASE l = Global
  <2>1. new = unsafeSetGlobally(one, v)
    BY <1>4 DEF set
  <2> HIDE DEF one
  <2>2. ValueOf(new, Global) = ValueOf(one, Global)
    BY <1>1, <1>4, <2>1, UnsafeSetGloballyValue
  <2> QED BY <1>2, <1>4, <2>2
<1> QED BY <1>3, <1>4

-----------------------------------------------------------------------------
(* A list that answers what the entries of another before position n say. *)
Told(list, from, n) ==
  \A j \in DOMAIN from :
    j < n => /\ from[j].level \in LevelsOf(list)
             /\ ValueOf(list, from[j].level) = from[j].value

(* The lists that a copy answers for: Global is first or missing. *)
Copyable(from) == Leads(from) \/ Global \notin LevelsOf(from)

(* While and after the program's repository is copied into the logger's,   *)
(* the latter answers what has been replayed.                              *)
CopyInv ==
  job.into = "logger" /\ job.from = "conf" =>
    /\ registered
    /\ \A t \in Types : Copyable(conf[t]) =>
         Told(repo[t], conf[t], IF pc = "replay" THEN at ELSE Len(conf[t]) + 1)

(* Replaying an entry: a Global entry comes first, so it undoes nothing. *)
LEMMA ToldNext ==
  ASSUME NEW t \in Types, NEW list, IsList(list, t), NEW from, IsList(from, t),
         Copyable(from), NEW n \in Nat \ {0}, Told(list, from, n),
         NEW new, IF n <= Len(from) THEN new = set(list, from[n].level, from[n].value)
                                    ELSE new = list
  PROVE  Told(new, from, n + 1)
<1>1. /\ DOMAIN from = 1 .. Len(from) /\ Len(from) \in Nat
      /\ \A i \in DOMAIN from : from[i].level \in Level /\ from[i].value \in Values[t]
      /\ \A i, j \in DOMAIN from : from[i].level = from[j].level => i = j
  BY ListFacts DEF IsList
<1>2. CASE ~(n <= Len(from))
  <2>1. \A j \in DOMAIN from : j < n
    BY <1>1, <1>2
  <2> QED BY <1>2, <2>1 DEF Told
<1>3. CASE n <= Len(from)
  <2> DEFINE l == from[n].level
             v == from[n].value
  <2>1. n \in DOMAIN from /\ l \in Level /\ v \in Values[t] /\ new = set(list, l, v)
    BY <1>1, <1>3
  <2> SUFFICES ASSUME NEW j \in DOMAIN from, j < n + 1
               PROVE  /\ from[j].level \in LevelsOf(new)
                      /\ ValueOf(new, from[j].level) = from[j].value
    BY DEF Told
  <2> HIDE DEF l, v
  <2>2. LevelsOf(new) = IF l = Global THEN Level ELSE LevelsOf(list) \cup {l}
    BY <2>1, SetFacts
  <2>3. /\ ValueOf(new, l) = v
        /\ l # Global => \A k \in LevelsOf(list) \ {l} : ValueOf(new, k) = ValueOf(list, k)
    BY <2>1, SetValue
  <2>4. CASE j = n
    BY <2>1, <2>2, <2>3, <2>4 DEF l, v
  <2>5. CASE j < n
    <3>1. from[j].level # l
      BY <1>1, <2>1, <2>5 DEF l
    <3>2. l # Global
      <4>1. CASE Leads(from)
        <5>1. 1 \in DOMAIN from /\ n # 1
          BY <1>1, <2>1, <2>5
        <5> QED BY <1>1, <2>1, <4>1, <5>1 DEF Leads, l
      <4>2. CASE Global \notin LevelsOf(from)
        BY <2>1, <4>2 DEF LevelsOf, l
      <4> QED BY <4>1, <4>2 DEF Copyable
    <3>3. /\ from[j].level \in LevelsOf(list)
          /\ ValueOf(list, from[j].level) = from[j].value
      BY <2>5 DEF Told
    <3> QED BY <2>2, <2>3, <3>1, <3>2, <3>3
  <2> QED BY <1>1, <2>4, <2>5
<1> QED BY <1>2, <1>3

(* Every step keeps what the copy answers. *)
LEMMA CopyStep ==
  ASSUME IInv, CopyInv, [Next]_vars
  PROVE  CopyInv'
<1>1. /\ at \in Nat \ {0}
      /\ \A t \in Types : /\ IsList(repo[t], t) /\ IsList(conf[t], t)
                          /\ DOMAIN conf[t] = 1 .. Len(conf[t]) /\ Len(conf[t]) \in Nat
  BY ListFacts DEF IInv, Scalars, Shape, Sound
<1>2. CASE Set \/ SetGlobally \/ SetToDefault \/ SetRemainingToDefault \/ Clear
  <2>1. \E new : Edit(new)
    BY <1>2, Zenon DEF Set, SetGlobally, SetToDefault, SetRemainingToDefault, Clear
  <2> QED BY <2>1 DEF Edit, NoJob, CopyInv
<1>3. CASE SetFromBase \/ SetDefaultConfigurations \/ GetLogger
  <2>1. \/ job'.into # "logger"
        \/ job'.from # "conf"
    BY <1>3 DEF SetFromBase, SetDefaultConfigurations, GetLogger, Start
  <2> QED BY <2>1 DEF CopyInv
<1>4. ASSUME pc' = "replay", at' = 1, registered', conf' = conf
      PROVE  CopyInv'
  <2>1. \A t \in Types : Told(repo'[t], conf'[t], at')
    <3> SUFFICES ASSUME NEW t \in Types, NEW j \in DOMAIN conf[t] PROVE ~(j < 1)
      BY <1>4 DEF Told
    <3> QED BY <1>1
  <2> QED BY <1>4, <2>1 DEF CopyInv
<1>5. CASE ReconfigureLogger
  BY <1>4, <1>5 DEF ReconfigureLogger, Start, Goto
<1>6. CASE UnregisterLogger \/ Reconfigure
  BY <1>6 DEF UnregisterLogger, Reconfigure, NoJob, CopyInv
<1>7. CASE Replay
  <2>1. /\ pc = "replay" /\ pc' = "replay" /\ at' = at + 1
        /\ job' = job /\ registered' = registered
    BY <1>7 DEF Replay
  <2>2. CASE job.into = "logger" /\ job.from = "conf"
    <3>1. conf' = conf /\ repo' = [t \in Types |-> Replayed(repo[t], t)]
      BY <1>7, <2>2 DEF Replay
    <3>2. registered
      BY <2>2 DEF CopyInv
    <3>3. ASSUME NEW t \in Types, Copyable(conf[t])
          PROVE  Told(repo'[t], conf[t], at + 1)
      <4>1. IF at <= Len(conf[t])
              THEN repo'[t] = set(repo[t], conf[t][at].level, conf[t][at].value)
              ELSE repo'[t] = repo[t]
        BY <2>2, <3>1 DEF Replayed, Has, source
      <4>2. Told(repo[t], conf[t], at)
        BY <2>1, <2>2, <3>3 DEF CopyInv
      <4> QED BY <1>1, <3>3, <4>1, <4>2, ToldNext
    <3> QED BY <2>1, <3>1, <3>2, <3>3 DEF CopyInv
  <2>3. CASE ~(job.into = "logger" /\ job.from = "conf")
    BY <2>1, <2>3 DEF CopyInv
  <2> QED BY <2>2, <2>3
<1>8. CASE EndReplay
  <2>1. /\ pc = "replay" /\ UNCHANGED <<conf, repo, registered>>
        /\ \A t \in Types : ~(at <= Len(source[t]))
    BY <1>8 DEF EndReplay, Has
  <2>2. CASE job.into = "logger"
    <3>1. pc' = "build" /\ job' = job
      BY <1>8, <2>2 DEF EndReplay, Goto
    <3>2. CASE job.from = "conf"
      <4>1. ASSUME NEW t \in Types, Copyable(conf[t])
            PROVE  Told(repo[t], conf[t], Len(conf[t]) + 1)
        <5>1. Told(repo[t], conf[t], at)
          BY <2>1, <2>2, <3>2, <4>1 DEF CopyInv
        <5>2. \A j \in DOMAIN conf[t] : j < at
          BY <1>1, <2>1, <3>2 DEF source
        <5> QED BY <5>1, <5>2 DEF Told
      <4>2. registered
        BY <2>2, <3>2 DEF CopyInv
      <4> QED BY <2>1, <3>1, <4>1, <4>2 DEF CopyInv
    <3>3. CASE job.from # "conf"
      BY <3>1, <3>3 DEF CopyInv
    <3> QED BY <3>2, <3>3
  <2>3. CASE job.into # "logger" /\ job.also
    <3>1. pc' = "replay" /\ at' = 1
      BY <1>8, <2>3 DEF EndReplay, Goto
    <3>2. registered
      BY <2>1, <2>3 DEF IInv, Stages
    <3> QED BY <1>4, <2>1, <3>1, <3>2
  <2>4. CASE job.into # "logger" /\ ~job.also
    <3>1. job' = NoJob
      BY <1>8, <2>4 DEF EndReplay
    <3> QED BY <3>1 DEF CopyInv, NoJob
  <2> QED BY <2>2, <2>3, <2>4
<1>9. CASE Build \/ EndBuild \/ insertFile \/ EndFiles \/ Disk
  <2>1. pc # "replay" /\ pc' # "replay" /\ UNCHANGED <<conf, repo, registered, job>>
    BY <1>9 DEF Build, EndBuild, insertFile, EndFiles, Disk, Goto
  <2> QED BY <2>1 DEF CopyInv
<1>10. CASE UNCHANGED vars
  BY <1>10 DEF vars, CopyInv
<1> QED BY <1>2, <1>3, <1>5, <1>6, <1>7, <1>8, <1>9, <1>10 DEF Next

(* A logger configured with the program's repository answers what that     *)
(* says, for the types in which it has Global first or not at all          *)
(* (configure, setFromBase).                                               *)
THEOREM CopiesAreFaithful == Spec => []CopyFaithful
<1>1. Init => CopyInv
  BY DEF Init, CopyInv, NoJob
<1>2. IInv /\ CopyInv /\ [Next]_vars => CopyInv'
  BY CopyStep
<1>3. IInv /\ CopyInv /\ LookupAgrees => CopyFaithful
  <2> SUFFICES ASSUME IInv, CopyInv, LookupAgrees, pc = "idle",
                      job.into = "logger", job.from = "conf",
                      NEW t \in OwnTypes \cup {"Filename"}, NEW i \in DOMAIN conf[t],
                      Copyable(conf[t])
               PROVE  Lookup(typed[t], conf[t][i].level) = conf[t][i].value
    BY DEF CopyFaithful, Copyable
  <2>1. t \in Types
    BY DEF Types
  <2>2. /\ i \in 1 .. Len(conf[t]) /\ Len(conf[t]) \in Nat
        /\ conf[t][i].level \in Level
    BY <2>1, ListFacts DEF IInv, Shape, Sound
  <2>3. registered /\ Told(repo[t], conf[t], Len(conf[t]) + 1)
    BY <2>1 DEF CopyInv
  <2>4. ValueOf(repo[t], conf[t][i].level) = conf[t][i].value
    BY <2>2, <2>3 DEF Told
  <2>5. Lookup(typed[t], conf[t][i].level) = ValueOf(repo[t], conf[t][i].level)
    BY <2>2, <2>3 DEF LookupAgrees
  <2> QED BY <2>4, <2>5
<1> QED BY Invariance, LookupsAgree, <1>1, <1>2, <1>3, PTL DEF Spec

-----------------------------------------------------------------------------
(* The streams that have been entered for the entries before position n. *)
Opened(map, list, n) ==
  /\ \A j \in DOMAIN list : j < n => map[list[j].level] # None
  /\ \A l \in Level : map[l] # None => \E j \in DOMAIN list : j < n /\ list[j].level = l

(* Where Global's file is open and Global writes to it, the levels whose   *)
(* files are not open have been turned off, and no others.                 *)
Writes ==
  files[Global] # Null /\ ValueOf(repo["ToFile"], Global) # "false" =>
    /\ typed["ToFile"][Global] = ValueOf(repo["ToFile"], Global)
    /\ \A l \in Level : Lookup(typed["ToFile"], l) =
                          IF files[l] = Null THEN "false" ELSE ValueOf(repo["ToFile"], l)

WriteInv ==
  /\ pc = "build" => registered /\ files = NoFiles
                     /\ Entered(typed["ToFile"], repo["ToFile"], at)
  /\ pc = "files" => registered /\ Writes /\ Opened(files, repo["Filename"], at)
  /\ registered /\ (pc = "idle" \/ (pc = "replay" /\ job.into # "logger")) =>
       Writes /\ \A l \in Level : files[l] # None

(* insertFile keeps the promise: Global's file comes first, and a stream   *)
(* that is not open turns its level off.                                   *)
LEMMA InsertFileWrites ==
  ASSUME IInv, BuildInv, WriteInv, insertFile
  PROVE  Writes' /\ Opened(files', repo["Filename"], at + 1)
<1> DEFINE list == repo["Filename"]
           l == list[at].level
           f == list[at].value
           opened == IF f \in writable THEN f ELSE Null
           fs == IF streams[f] = None THEN opened ELSE streams[f]
           map == typed["ToFile"]
           own == ValueOf(repo["ToFile"], Global)
<1>1. /\ IsList(list, "Filename") /\ at \in DOMAIN list /\ (at = 1 <=> l = Global)
      /\ (IF typed["Filename"] = NoFiles THEN Global ELSE list[at].level) = l
  BY FileLevel
<1>2. /\ DOMAIN list = 1 .. Len(list) /\ Len(list) \in Nat
      /\ l \in Level /\ f \in Files /\ Global \in Level
      /\ \A i, j \in DOMAIN list : list[i].level = list[j].level => i = j
  <2>1. "Filename" \in Types /\ Global \in Level
    BY DEF Types, Level
  <2> HIDE DEF list
  <2> QED BY <1>1, <2>1, ListFacts DEF IsList, Files
<1>3. /\ Writes /\ Opened(files, list, at) /\ repo' = repo
      /\ files \in [Level -> Files \cup {None, Null}]
      /\ map \in [Level -> Values["ToFile"] \cup {None}]
  <2>1. Writes /\ Opened(files, list, at) /\ repo' = repo
    BY DEF insertFile, WriteInv
  <2>2. "ToFile" \in Types
    BY DEF Types
  <2> QED BY <2>1, <2>2 DEF IInv, Scalars
<1>4. /\ files' = Inserted(files, l, fs)
      /\ typed'["ToFile"] = IF ForcedOff(fs, f) THEN setValue(map, l, "false") ELSE map
  <2>1. PICK names : typed' = [typed EXCEPT !["Filename"] = names,
                 !["ToFile"] = IF ForcedOff(fs, f) THEN setValue(map, l, "false") ELSE map]
    BY <1>1, Zenon DEF insertFile
  <2>2. files' = Inserted(files, l, fs)
    BY <1>1, Zenon DEF insertFile
  <2>3. DOMAIN typed = Types /\ "ToFile" \in Types
    BY DEF IInv, Scalars, Types
  <2> HIDE DEF fs, f, l, map
  <2> QED BY <2>1, <2>2, <2>3
<1>5. fs # None /\ Null # None /\ "false" # None
  BY <1>2, ConfigurationsAssumption DEF Files, Types
<1> HIDE DEF list, l, f, opened, fs, map, own
<1>6. files[l] = None
  <2>1. ~\E j \in DOMAIN list : j < at /\ list[j].level = l
    <3> SUFFICES ASSUME NEW j \in DOMAIN list, j < at, list[j].level = l PROVE FALSE
      OBVIOUS
    <3>1. j = at
      BY <1>1, <1>2 DEF l
    <3> QED BY <1>1, <1>2, <3>1
  <2> QED BY <1>2, <1>3, <2>1 DEF Opened
<1>7. files' = [files EXCEPT ![l] = fs]
  BY <1>4, <1>6 DEF Inserted
<1>8. files'[l] = fs /\ \A k \in Level \ {l} : files'[k] = files[k]
  BY <1>2, <1>3, <1>7
<1>9. Opened(files', list, at + 1)
  <2>1. ASSUME NEW j \in DOMAIN list, j < at + 1 PROVE files'[list[j].level] # None
    <3>1. list[j].level \in Level
      <4>1. "Filename" \in Types
        BY DEF Types
      <4> QED BY <1>1, <4>1, ListFacts
    <3>2. CASE list[j].level = l
      BY <1>5, <1>8, <3>2
    <3>3. CASE list[j].level # l
      <4>1. j < at
        BY <1>1, <1>2, <2>1, <3>3 DEF l
      <4> QED BY <1>3, <1>8, <3>1, <3>3, <4>1 DEF Opened
    <3> QED BY <3>2, <3>3
  <2>2. ASSUME NEW k \in Level, files'[k] # None
        PROVE  \E j \in DOMAIN list : j < at + 1 /\ list[j].level = k
    <3>1. CASE k = l
      BY <1>1, <1>2, <3>1 DEF l
    <3>2. CASE k # l
      <4>1. PICK j \in DOMAIN list : j < at /\ list[j].level = k
        BY <1>3, <1>8, <2>2, <3>2 DEF Opened
      <4> QED BY <1>1, <1>2, <4>1
    <3> QED BY <3>1, <3>2
  <2> QED BY <2>1, <2>2 DEF Opened
<1>10. Writes'
  <2> SUFFICES ASSUME files'[Global] # Null, own # "false"
               PROVE  /\ typed'["ToFile"][Global] = own
                      /\ \A k \in Level : Lookup(typed'["ToFile"], k) =
                           IF files'[k] = Null THEN "false" ELSE ValueOf(repo["ToFile"], k)
    BY <1>3 DEF Writes, own
  <2>1. files[Global] # Null
    <3>1. CASE l = Global
      BY <1>5, <1>6, <3>1
    <3>2. CASE l # Global
      BY <1>2, <1>8, <3>2
    <3> QED BY <3>1, <3>2
  <2>2. /\ map[Global] = own
        /\ \A k \in Level : Lookup(map, k) =
             IF files[k] = Null THEN "false" ELSE ValueOf(repo["ToFile"], k)
    BY <1>3, <2>1 DEF Writes, own, map
  <2>3. CASE fs # Null
    <3>1. typed'["ToFile"] = map
      BY <1>4, <2>3 DEF ForcedOff
    <3>2. \A k \in Level : files'[k] = Null <=> files[k] = Null
      BY <1>5, <1>6, <1>8, <2>3
    <3> QED BY <2>2, <3>1, <3>2
  <2>4. CASE fs = Null
    <3>1. l # Global
      BY <1>8, <2>4
    <3>2. "ToFile" \in Types
      BY DEF Types
    <3>3. own # None
      <4>1. /\ IsList(repo["ToFile"], "ToFile") /\ Full(repo["ToFile"])
            /\ Len(repo["ToFile"]) > 0 /\ Leads(repo["ToFile"])
        <5>1. registered /\ pc = "files"
          BY DEF WriteInv, insertFile
        <5> QED BY <3>2, <5>1 DEF IInv, Shape, Sound, Stages, Led
      <4>2. 1 \in DOMAIN repo["ToFile"] /\ repo["ToFile"][1].level = Global
        BY <3>2, <4>1, ListFacts DEF Leads
      <4>3. own = repo["ToFile"][1].value
        BY <3>2, <4>1, <4>2, ValueOfEntry DEF own
      <4>4. repo["ToFile"][1].value \in Values["ToFile"]
        BY <3>2, <4>1, <4>2, ListFacts
      <4> QED BY <3>2, <4>3, <4>4, ConfigurationsAssumption
    <3>4. map # [k \in Level |-> None]
      BY <1>2, <2>2, <3>3
    <3>5. typed'["ToFile"] = [map EXCEPT ![l] = "false"]
      BY <1>4, <2>2, <2>4, <3>4 DEF ForcedOff, setValue
    <3>6. /\ typed'["ToFile"][l] = "false"
          /\ \A k \in Level \ {l} : typed'["ToFile"][k] = map[k]
      BY <1>2, <1>3, <3>5
    <3>7. \A k \in Level \ {l} : Lookup(typed'["ToFile"], k) = Lookup(map, k)
      BY <1>2, <3>1, <3>6 DEF Lookup
    <3>8. Lookup(typed'["ToFile"], l) = "false"
      BY <1>5, <3>6 DEF Lookup
    <3> QED BY <1>2, <1>8, <2>2, <2>4, <3>1, <3>6, <3>7, <3>8
  <2> QED BY <2>3, <2>4
<1> QED BY <1>9, <1>10 DEF list

(* Every step keeps the promise, too. *)
LEMMA WriteStep ==
  ASSUME IInv, BuildInv, WriteInv, [Next]_vars
  PROVE  WriteInv'
<1>1. /\ registered \in BOOLEAN /\ at \in Nat \ {0}
      /\ "ToFile" \in Types /\ "Filename" \in Types /\ Global \in Level
      /\ "ToFile" \notin SharedTypes /\ "ToFile" # "Filename"
      /\ \A t \in Types : /\ IsList(repo[t], t) /\ Full(repo[t])
                           /\ typed[t] \in [Level -> Values[t] \cup {None}]
  BY ConfigurationsAssumption DEF IInv, Scalars, Shape, Sound, Types, Level
<1>2. registered /\ pc # "replay" =>
        \A t \in Types : Len(repo[t]) > 0 /\ Leads(repo[t])
  BY DEF IInv, Shape, Stages, Led
<1>3. ASSUME UNCHANGED <<repo, typed, files, registered>>, pc = "idle" \/ pc = "replay",
             job.into # "logger" \/ pc = "idle" \/ ~registered,
             pc' \in {"idle", "replay"}
      PROVE  WriteInv'
  BY <1>3 DEF WriteInv, Writes
<1>4. CASE \/ Set \/ SetGlobally \/ SetToDefault \/ SetRemainingToDefault \/ Clear \/ Disk
  <2>1. CASE Disk
    BY <1>3, <2>1 DEF Disk
  <2>2. CASE \E new : Edit(new)
    BY <1>3, <2>2 DEF Edit, Call
  <2> QED BY <1>4, <2>1, <2>2, Zenon
        DEF Set, SetGlobally, SetToDefault, SetRemainingToDefault, Clear
<1>5. CASE SetFromBase \/ SetDefaultConfigurations
  BY <1>3, <1>5 DEF SetFromBase, SetDefaultConfigurations, Start, Call, Goto
<1>6. CASE GetLogger \/ ReconfigureLogger
  <2>1. pc' = "replay" /\ job'.into = "logger"
    BY <1>6 DEF GetLogger, ReconfigureLogger, Start, Goto
  <2> QED BY <2>1 DEF WriteInv
<1>7. CASE UnregisterLogger
  <2>1. pc' = "idle" /\ ~registered'
    BY <1>7 DEF UnregisterLogger, Call
  <2> QED BY <2>1 DEF WriteInv
<1>8. ASSUME pc' = "build", at' = 1, registered', typed' = Unset, files' = NoFiles
      PROVE  WriteInv'
  <2>1. typed'["ToFile"] = NoFiles
    BY <1>1, <1>8 DEF Unset, NoFiles
  <2>2. IsList(repo'["ToFile"], "ToFile")
    BY <1>1, ShapeStep DEF Shape, Sound
  <2>3. \A j \in DOMAIN repo'["ToFile"] : ~(j < 1)
    BY <1>1, <2>2, ListFacts
  <2>4. \A l \in Level : NoFiles[l] = None
    BY DEF NoFiles
  <2>5. Entered(typed'["ToFile"], repo'["ToFile"], at')
    BY <1>8, <2>1, <2>3, <2>4 DEF Entered
  <2> QED BY <1>8, <2>5 DEF WriteInv
<1>9. CASE Reconfigure
  BY <1>8, <1>9 DEF Reconfigure, Goto, Discarded
<1>10. CASE Replay
  <2>1. pc = "replay" /\ pc' = "replay" /\ UNCHANGED <<registered, typed, files, job>>
    BY <1>10 DEF Replay
  <2>2. CASE job.into = "logger"
    BY <2>1, <2>2 DEF WriteInv
  <2>3. CASE job.into # "logger"
    <3>1. UNCHANGED repo
      BY <1>10, <2>1, <2>3 DEF Replay, IInv, Stages
    <3> QED BY <1>3, <2>1, <2>3, <3>1
  <2> QED BY <2>2, <2>3
<1>11. CASE EndReplay
  <2>1. pc = "replay" /\ UNCHANGED <<repo, registered>>
    BY <1>11 DEF EndReplay
  <2>2. CASE job.into = "logger"
    <3>1. registered
      BY <2>1, <2>2 DEF IInv, Stages
    <3> QED BY <1>8, <1>11, <2>1, <2>2, <3>1 DEF EndReplay, Goto, Discarded
  <2>3. CASE job.into # "logger"
    <3>1. pc' \in {"idle", "replay"} /\ UNCHANGED <<typed, files>>
      BY <1>11, <2>3 DEF EndReplay, Goto
    <3> QED BY <1>3, <2>1, <2>3, <3>1
  <2> QED BY <2>2, <2>3
<1>12. CASE Build
  <2> DEFINE list == repo["ToFile"]
  <2>1. /\ pc = "build" /\ pc' = "build" /\ at' = at + 1
        /\ UNCHANGED <<repo, registered, files>>
    BY <1>12 DEF Build
  <2>2. registered /\ files = NoFiles /\ Entered(typed["ToFile"], list, at)
    BY <2>1 DEF WriteInv
  <2>3. IsList(list, "ToFile") /\ Len(list) > 0 /\ Leads(list)
    BY <1>1, <1>2, <2>1, <2>2
  <2>4. Entered(typed'["ToFile"], list, at + 1)
    <3>1. CASE Has(list)
      <4>1. typed'["ToFile"] = setValue(typed["ToFile"], list[at].level, list[at].value)
        BY <1>1, <1>12, <3>1 DEF Build, TypedLevel
      <4>2. at <= Len(list)
        BY <3>1 DEF Has
      <4> QED BY <1>1, <2>2, <2>3, <4>1, <4>2, EnteredNext
    <3>2. CASE ~Has(list)
      <4>1. typed'["ToFile"] = typed["ToFile"] /\ ~(at <= Len(list))
        BY <1>1, <1>12, <3>2 DEF Build, Has
      <4>2. Entered(typed["ToFile"], list, at + 1)
        BY <1>1, <2>2, <2>3, <4>1, EnteredPast
      <4> QED BY <4>1, <4>2
    <3> QED BY <3>1, <3>2
  <2> QED BY <2>1, <2>2, <2>4 DEF WriteInv
<1>13. CASE EndBuild
  <2> DEFINE list == repo["ToFile"]
  <2>1. /\ pc = "build" /\ pc' = "files" /\ at' = 1
        /\ UNCHANGED <<repo, registered, typed, files>> /\ ~(at <= Len(list))
    BY <1>1, <1>13 DEF EndBuild, Goto, Has
  <2>2. registered /\ files = NoFiles /\ Entered(typed["ToFile"], list, at)
    BY <2>1 DEF WriteInv
  <2>3. IsList(list, "ToFile") /\ Full(list) /\ Len(list) > 0 /\ Leads(list)
    BY <1>1, <1>2, <2>1, <2>2
  <2>4. \A l \in Level : Lookup(typed["ToFile"], l) = ValueOf(list, l)
    BY <1>1, <2>1, <2>2, <2>3, EnteredAll
  <2>5. typed["ToFile"][Global] = ValueOf(list, Global)
    BY <1>1, <2>4 DEF Lookup
  <2>6. \A l \in Level : files[l] = None
    BY <2>2 DEF NoFiles
  <2>7. Writes
    BY <2>4, <2>5, <2>6, ConfigurationsAssumption DEF Writes
  <2>8. Opened(files, repo["Filename"], 1)
    <3>1. \A j \in DOMAIN repo["Filename"] : ~(j < 1)
      BY <1>1, ListFacts
    <3> QED BY <2>6, <3>1 DEF Opened
  <2> QED BY <2>1, <2>2, <2>7, <2>8 DEF WriteInv, Writes
<1>14. CASE insertFile
  <2>1. /\ pc' = "files" /\ at' = at + 1 /\ UNCHANGED <<repo, registered>>
        /\ pc = "files"
    BY <1>14 DEF insertFile
  <2>2. Writes' /\ Opened(files', repo["Filename"], at + 1)
    BY <1>14, InsertFileWrites
  <2> QED BY <2>1, <2>2 DEF WriteInv
<1>15. CASE EndFiles
  <2> DEFINE list == repo["Filename"]
  <2>1. /\ pc = "files" /\ pc' = "idle" /\ UNCHANGED <<repo, registered, typed, files>>
        /\ ~(at <= Len(list))
    BY <1>15 DEF EndFiles, Goto, Has
  <2>2. registered /\ Writes /\ Opened(files, list, at)
    BY <2>1 DEF WriteInv
  <2>3. IsList(list, "Filename") /\ Full(list) /\ Len(list) > 0 /\ Leads(list)
    BY <1>1, <1>2, <2>1, <2>2
  <2>4. DOMAIN list = 1 .. Len(list) /\ Len(list) \in Nat
    BY <1>1, <2>3, ListFacts
  <2>5. ASSUME NEW l \in Level PROVE files[l] # None
    <3>1. LevelsOf(list) = Level
      <4>1. 1 \in DOMAIN list
        BY <2>3, <2>4
      <4> QED BY <2>3, <4>1 DEF Full, Leads, LevelsOf
    <3>2. PICK j \in DOMAIN list : list[j].level = l
      BY <3>1 DEF LevelsOf
    <3>3. j < at
      BY <1>1, <2>1, <2>4
    <3> QED BY <2>2, <3>2, <3>3 DEF Opened
  <2> QED BY <2>1, <2>2, <2>5 DEF WriteInv, Writes
<1>16. CASE UNCHANGED vars
  BY <1>16 DEF vars, WriteInv, Writes
<1> QED BY <1>4, <1>5, <1>6, <1>7, <1>9, <1>10, <1>11, <1>12, <1>13, <1>14, <1>15, <1>16
     DEF Next

(* Where Global's file is open and Global writes to it, a level writes to  *)
(* a file exactly if it is told to and its file is open: no level writes   *)
(* to a stream that could not be opened (build(), insertFile).             *)
THEOREM OnlyOpenFiles == Spec => []WritesWhereItCan
<1>1. Init => BuildInv /\ WriteInv
  BY DEF Init, BuildInv, WriteInv
<1>2. IInv /\ BuildInv /\ WriteInv /\ [Next]_vars => BuildInv' /\ WriteInv'
  BY BuildStep, WriteStep
<1>3. WriteInv => WritesWhereItCan
  BY DEF WriteInv, Writes, WritesWhereItCan, Lookup
<1> QED BY Invariance, <1>1, <1>2, <1>3, PTL DEF Spec
=============================================================================
