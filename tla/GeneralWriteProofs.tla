-------------------------- MODULE GeneralWriteProofs --------------------------
(***************************************************************************)
(* Proofs about the general write, for any commits, creations, marked      *)
(* bodies, tasks and stores, any number of updates and of faults.          *)
(***************************************************************************)
EXTENDS GeneralWrite, WellFoundedInduction, SequenceTheorems, FiniteSetTheorems, TLAPS

-----------------------------------------------------------------------------
(* Least and greatest elements, and what holds up to a bound.              *)

LEMMA LessIsWellFounded == IsWellFoundedOn({p \in Nat \X Nat : p[1] < p[2]}, Nat)
BY NatLessThanWellFounded, Zenon DEF OpToRel

LEMMA Least ==
  ASSUME NEW T, T \subseteq Nat, T # {}
  PROVE  \E n \in T : \A m \in T : n <= m
<1> DEFINE Less == {p \in Nat \X Nat : p[1] < p[2]}
<1>1. PICK x \in T : \A y \in T : <<y, x>> \notin Less
  BY WFMin, LessIsWellFounded, Zenon
<1>2. ASSUME NEW y \in T PROVE x <= y
  <2>1. x \in Nat /\ y \in Nat
    OBVIOUS
  <2>2. <<y, x>> \in Nat \X Nat => ~(y < x)
    BY <1>1
  <2> QED BY <2>1, <2>2
<1> QED BY <1>2

(* Induction up to a bound, from the least element that fails.             *)
LEMMA UpTo ==
  ASSUME NEW k \in Nat, NEW S, 0 \in S, \A n \in 0..k-1 : n \in S => n + 1 \in S
  PROVE  0..k \subseteq S
<1> SUFFICES ASSUME NEW j \in 0..k, j \notin S PROVE FALSE
  OBVIOUS
<1> DEFINE T == {n \in 0..k : n \notin S}
<1>0. T \subseteq Nat /\ T # {}
  OBVIOUS
<1>1. PICK n \in T : \A m \in T : n <= m
  <2> HIDE DEF T
  <2> QED BY <1>0, Least
<1>2. n - 1 \in 0..k-1 /\ n - 1 \notin T
  BY <1>1
<1> QED BY <1>1, <1>2

-----------------------------------------------------------------------------
(* The loop of _one_change_per_instance: f holds what it has merged after *)
(* each of the first k changes.                                            *)
FoldAt(changes, f, n) == IF n = 0 THEN <<>> ELSE Folded(f[n-1], changes[n])
FoldsUpTo(changes, f, k) == \A n \in 0..k : f[n] = FoldAt(changes, f, n)

(* The recursive function in Merged is defined: the loop can be run.       *)
LEMMA FoldsExist ==
  ASSUME NEW changes, NEW k \in Nat
  PROVE  \E f : FoldsUpTo(changes, f, k)
<1> DEFINE S == {n \in Nat : \E f : FoldsUpTo(changes, f, n)}
<1>1. 0 \in S
  <2>1. FoldsUpTo(changes, [i \in {0} |-> <<>>], 0)
    BY DEF FoldsUpTo, FoldAt
  <2> QED BY <2>1
<1>2. ASSUME NEW n \in 0..k-1, n \in S PROVE n + 1 \in S
  <2>1. PICK f : FoldsUpTo(changes, f, n)
    BY <1>2
  <2> DEFINE h == [i \in 0..(n+1) |-> IF i = n + 1 THEN Folded(f[n], changes[i]) ELSE f[i]]
  <2>2. \A i \in 0..n : h[i] = f[i]
    BY SMT
  <2>3. h[n+1] = Folded(f[n], changes[n+1])
    BY SMT
  <2> HIDE DEF h
  <2>4. ASSUME NEW i \in 0..(n+1) PROVE h[i] = FoldAt(changes, h, i)
    <3>1. CASE i = n + 1
      BY <3>1, <2>2, <2>3 DEF FoldAt
    <3>2. CASE i = 0
      BY <3>2, <2>1, <2>2 DEF FoldAt, FoldsUpTo
    <3>3. CASE i \in 1..n
      <4>1. h[i] = FoldAt(changes, f, i) /\ h[i-1] = f[i-1]
        BY <3>3, <2>1, <2>2 DEF FoldsUpTo
      <4> QED BY <4>1, <3>3 DEF FoldAt
    <3> QED BY <3>1, <3>2, <3>3
  <2>5. FoldsUpTo(changes, h, n+1)
    BY <2>4 DEF FoldsUpTo
  <2> QED BY <2>5
<1>3. 0..k \subseteq S
  BY <1>1, <1>2, UpTo
<1> QED BY <1>3

LEMMA MergedFolds ==
  ASSUME NEW changes, Len(changes) \in Nat
  PROVE  \E f : FoldsUpTo(changes, f, Len(changes)) /\ Merged(changes) = f[Len(changes)]
<1> DEFINE k == Len(changes)
           IsFold(f) == f = [n \in 0..k |-> IF n = 0 THEN <<>> ELSE Folded(f[n-1], changes[n])]
           F == CHOOSE f : IsFold(f)
<1>1. \E f : IsFold(f)
  <2>1. PICK g : FoldsUpTo(changes, g, k)
    BY FoldsExist
  <2> DEFINE h == [n \in 0..k |-> g[n]]
  <2>2. \A n \in 0..k : h[n] = IF n = 0 THEN <<>> ELSE Folded(h[n-1], changes[n])
    <3> TAKE n \in 0..k
    <3>1. h[n] = FoldAt(changes, g, n) /\ (n # 0 => g[n-1] = h[n-1])
      BY <2>1 DEF FoldsUpTo
    <3> QED BY <3>1 DEF FoldAt
  <2>3. h = [n \in 0..k |-> h[n]]
    OBVIOUS
  <2>4. IsFold(h)
    BY <2>2, <2>3, Zenon
  <2> QED BY <2>4
<1>2. IsFold(F)
  BY <1>1, Zenon
<1>3. Merged(changes) = F[k]
  BY Zenon DEF Merged
<1> HIDE DEF F
<1>4. FoldsUpTo(changes, F, k)
  BY <1>2 DEF FoldsUpTo, FoldAt
<1> QED BY <1>3, <1>4

LEMMA DataIs ==
  ASSUME NEW d
  PROVE  d \in Datas <=> /\ d = [p \in DOMAIN d |-> d[p]] /\ DOMAIN d \subseteq Props
                         /\ \A p \in DOMAIN d : d[p] \in Values
<1>1. ASSUME d \in Datas
      PROVE  /\ d = [p \in DOMAIN d |-> d[p]] /\ DOMAIN d \subseteq Props
             /\ \A p \in DOMAIN d : d[p] \in Values
  <2>1. PICK ps \in SUBSET Props : d \in [ps -> Values]
    BY <1>1 DEF Datas
  <2> QED BY <2>1
<1>2. ASSUME d = [p \in DOMAIN d |-> d[p]], DOMAIN d \subseteq Props,
             \A p \in DOMAIN d : d[p] \in Values
      PROVE  d \in Datas
  <2>1. d \in [DOMAIN d -> Values]
    BY <1>2
  <2> QED BY <2>1, <1>2 DEF Datas
<1> QED BY <1>1, <1>2

LEMMA DataEqual ==
  ASSUME NEW d \in Datas, NEW e \in Datas,
         \A p \in Props, v \in Values : (p \in DOMAIN d /\ d[p] = v) <=> (p \in DOMAIN e /\ e[p] = v)
  PROVE  d = e
<1>1. DOMAIN d = DOMAIN e /\ \A p \in DOMAIN d : d[p] = e[p]
  BY DataIs
<1> QED BY <1>1, DataIs

LEMMA OverIs ==
  ASSUME NEW later \in Datas, NEW earlier \in Datas
  PROVE  /\ Over(later, earlier) \in Datas
         /\ DOMAIN Over(later, earlier) = DOMAIN earlier \cup DOMAIN later
         /\ \A p \in DOMAIN later : Over(later, earlier)[p] = later[p]
         /\ \A p \in DOMAIN earlier \ DOMAIN later : Over(later, earlier)[p] = earlier[p]
<1> DEFINE o == Over(later, earlier)
<1>1. /\ DOMAIN o = DOMAIN earlier \cup DOMAIN later
      /\ \A p \in DOMAIN later : o[p] = later[p]
      /\ \A p \in DOMAIN earlier \ DOMAIN later : o[p] = earlier[p]
      /\ o = [p \in DOMAIN o |-> o[p]]
  BY DEF Over
<1>2. o \in Datas
  <2> HIDE DEF o
  <2> QED BY <1>1, DataIs
<1> QED BY <1>1, <1>2

LEMMA ChangeIs ==
  ASSUME NEW x \in Writes \cup {Shared}, NEW b \in BOOLEAN, NEW d \in Datas
  PROVE  /\ Change(x, b, d) \in Changes /\ Change(x, b, d).inst = x
         /\ Change(x, b, d).new = b /\ Change(x, b, d).data = d
BY DEF Change, Changes

LEMMA ChangeFields ==
  ASSUME NEW c \in Changes
  PROVE  /\ c.inst \in Writes \cup {Shared} /\ c.new \in BOOLEAN /\ c.data \in Datas
BY DEF Changes

LEMMA ChangeEqual ==
  ASSUME NEW c \in Changes, NEW e \in Changes, c.inst = e.inst, c.new = e.new, c.data = e.data
  PROVE  c = e
BY DEF Changes

(* What one step of the loop returns. *)
FoldsAt(merged, c, k, folded) ==
  /\ k \in DOMAIN merged /\ merged[k].inst = c.inst
  /\ ~(merged[k].new /\ c.new)
  /\ folded = [merged EXCEPT ![k] = Change(c.inst, merged[k].new \/ c.new, Over(c.data, merged[k].data))]

LEMMA FoldedIs ==
  ASSUME NEW merged \in Seq(Changes), NEW c \in Changes, Once(merged)
  PROVE  \/ /\ \A n \in DOMAIN merged : merged[n].inst # c.inst
            /\ Folded(merged, c) = Append(merged, c)
         \/ \E k \in DOMAIN merged : FoldsAt(merged, c, k, Folded(merged, c))
         \/ \E k \in DOMAIN merged : /\ merged[k].inst = c.inst /\ merged[k].new /\ c.new
                                    /\ Folded(merged, c) = IF merged[k] = c THEN merged ELSE Append(merged, c)
<1> DEFINE same == {n \in DOMAIN merged : merged[n].inst = c.inst}
           first == CHOOSE n \in same : \A m \in same : n <= m
<1>1. CASE same = {}
  BY <1>1 DEF Folded
<1>2. ASSUME NEW k \in same PROVE first = k
  <2>1. same = {k} /\ k \in Nat
    BY DEF Once
  <2> HIDE DEF same
  <2> QED BY <2>1
<1>3. CASE same # {}
  <2>1. PICK k \in same : first = k
    BY <1>2, <1>3
  <2>2. Folded(merged, c) = IF merged[first].new /\ c.new
       THEN IF merged[first] = c THEN merged ELSE Append(merged, c)
       ELSE [merged EXCEPT ![first] =
               Change(c.inst, merged[first].new \/ c.new, Over(c.data, merged[first].data))]
    BY <1>3, Zenon DEF Folded
  <2> QED BY <2>1, <2>2 DEF FoldsAt
<1> QED BY <1>1, <1>3

LEMMA Greatest ==
  ASSUME NEW k \in Nat, NEW T, T \subseteq 0..k, T # {}
  PROVE  \E n \in T : \A m \in T : m <= n
<1> DEFINE U == {n \in 0..k : k - n \in T}
<1>1. U \subseteq Nat /\ U # {}
  <2>1. PICK n \in T : TRUE
    OBVIOUS
  <2>2. k - n \in 0..k /\ k - (k - n) = n
    BY <2>1
  <2>3. k - n \in U
    BY <2>1, <2>2
  <2>4. U \subseteq Nat
    OBVIOUS
  <2> HIDE DEF U
  <2> QED BY <2>3, <2>4
<1>2. PICK u \in U : \A m \in U : u <= m
  <2> HIDE DEF U
  <2> QED BY <1>1, Least
<1>3. \A m \in T : m <= k - u
  <2> TAKE m \in T
  <2>1. k - m \in U
    OBVIOUS
  <2>2. m \in 0..k /\ u \in 0..k
    OBVIOUS
  <2>3. u <= k - m
    BY <1>2, <2>1
  <2> QED BY <2>2, <2>3
<1> QED BY <1>2, <1>3

LEMMA AppendIs ==
  ASSUME NEW s \in Seq(Changes), NEW c \in Changes
  PROVE  /\ Append(s, c) \in Seq(Changes) /\ Len(s) \in Nat /\ Len(Append(s, c)) = Len(s) + 1
         /\ DOMAIN s = 1..Len(s) /\ DOMAIN Append(s, c) = 1..Len(s) + 1
         /\ \A n \in 1..Len(s) : Append(s, c)[n] = s[n] /\ s[n] \in Changes
         /\ Append(s, c)[Len(s) + 1] = c
OBVIOUS

LEMMA SetLastAppend ==
  ASSUME NEW s \in Seq(Changes), NEW c \in Changes, NEW x, NEW p, NEW v
  PROVE  SetLast(Append(s, c), x, p, v) <=>
           IF c.inst = x /\ p \in DOMAIN c.data THEN c.data[p] = v ELSE SetLast(s, x, p, v)
<1> DEFINE t == Append(s, c)
           l == Len(s) + 1
<1>0. /\ Len(s) \in Nat /\ Len(t) = l /\ DOMAIN s = 1..Len(s) /\ DOMAIN t = 1..l
      /\ \A n \in 1..Len(s) : t[n] = s[n]
      /\ t[l] = c
  BY AppendIs
<1> HIDE DEF t
<1>1. CASE c.inst = x /\ p \in DOMAIN c.data
  BY <1>0, <1>1 DEF SetLast
<1>2. CASE ~(c.inst = x /\ p \in DOMAIN c.data)
  <2>1. ASSUME SetLast(t, x, p, v) PROVE SetLast(s, x, p, v)
    <3>1. PICK n \in 1..l : /\ t[n].inst = x /\ p \in DOMAIN t[n].data /\ t[n].data[p] = v
                           /\ \A m \in n + 1 .. l : t[m].inst = x => p \notin DOMAIN t[m].data
      BY <1>0, <2>1 DEF SetLast
    <3>2. n # l
      BY <1>0, <1>2, <3>1
    <3>3. \A m \in n + 1 .. Len(s) : m \in 1..Len(s) /\ m \in n + 1..l
      BY <1>0
    <3>4. n \in 1..Len(s)
      BY <1>0, <3>2
    <3> QED BY <1>0, <3>1, <3>3, <3>4 DEF SetLast
  <2>2. ASSUME SetLast(s, x, p, v) PROVE SetLast(t, x, p, v)
    <3>1. PICK n \in 1..Len(s) : /\ s[n].inst = x /\ p \in DOMAIN s[n].data /\ s[n].data[p] = v
                           /\ \A m \in n + 1 .. Len(s) : s[m].inst = x => p \notin DOMAIN s[m].data
      BY <1>0, <2>2 DEF SetLast
    <3>2. \A m \in n + 1 .. l : m = l \/ (m \in n + 1 .. Len(s) /\ m \in 1..Len(s))
      BY <1>0
    <3>3. \A m \in n + 1 .. l : t[m].inst = x => p \notin DOMAIN t[m].data
      BY <1>0, <1>2, <3>1, <3>2
    <3> QED BY <1>0, <3>1, <3>3 DEF SetLast
  <2> QED BY <1>2, <2>1, <2>2 DEF t
<1> QED BY <1>1, <1>2 DEF t

LEMMA MakesAppend ==
  ASSUME NEW s \in Seq(Changes), NEW c \in Changes, NEW x
  PROVE  Makes(Append(s, c), x) <=> Makes(s, x) \/ (c.inst = x /\ c.new)
<1>1. ToSet(Append(s, c)) = ToSet(s) \cup {c}
  BY AppendIs DEF ToSet
<1> QED BY <1>1, Zenon DEF Makes

(* What the fold makes one: two Creates of one instance are equal, and so  *)
(* is whatever else was given of it before the later one.                  *)
OneCreate(s) ==
  \A m, n \in DOMAIN s : \A k \in 1..n :
    /\ m < n /\ s[m].new /\ s[n].new
    /\ s[m].inst = s[n].inst /\ s[k].inst = s[n].inst
    => s[k] = s[n]

(* The two Creates of an instance are equal, and so is what they merge to. *)
LEMMA EqualCreates ==
  ASSUME NEW merged \in Seq(Changes), NEW given \in Seq(Changes), NEW c \in Changes,
         LastOfEach(merged, given), OneCreate(Append(given, c)),
         NEW k \in DOMAIN merged, merged[k].inst = c.inst, merged[k].new, c.new
  PROVE  merged[k] = c
<1>1. \A n \in DOMAIN given : given[n].inst = c.inst => given[n] = c
  <2>1. PICK m \in DOMAIN given : given[m].inst = c.inst /\ given[m].new
    BY DEF LastOfEach, Makes, ToSet
  <2> DEFINE t == Append(given, c)
             l == Len(given) + 1
  <2>2. /\ m \in DOMAIN t /\ l \in DOMAIN t /\ m < l /\ t[m] = given[m] /\ t[l] = c
        /\ \A n \in DOMAIN given : n \in 1..l /\ t[n] = given[n]
    BY AppendIs
  <2>3. OneCreate(t)
    OBVIOUS
  <2> HIDE DEF t, l
  <2>4. \A n \in 1..l : t[n].inst = t[l].inst => t[n] = t[l]
    BY <2>1, <2>2, <2>3 DEF OneCreate
  <2> QED BY <2>2, <2>4
<1>2. PICK n \in DOMAIN given : given[n].inst = c.inst /\ \A m \in DOMAIN given : given[m].inst = c.inst => m <= n
  <2> DEFINE T == {n \in DOMAIN given : given[n].inst = c.inst}
  <2>1. T # {}
    <3>1. PICK m \in DOMAIN given : given[m].inst = c.inst /\ given[m].new
      BY DEF LastOfEach, Makes, ToSet
    <3> QED BY <3>1
  <2>2. T \subseteq 0..Len(given) /\ Len(given) \in Nat
    OBVIOUS
  <2>3. PICK n \in T : \A m \in T : m <= n
    <3> HIDE DEF T
    <3> QED BY <2>1, <2>2, Greatest
  <2> QED BY <2>3
<1>3. \A p \in Props, v \in Values : SetLast(given, c.inst, p, v) <=> p \in DOMAIN c.data /\ c.data[p] = v
  <2> TAKE p \in Props, v \in Values
  <2>1. ASSUME SetLast(given, c.inst, p, v) PROVE p \in DOMAIN c.data /\ c.data[p] = v
    BY <1>1, <2>1 DEF SetLast
  <2>2. ASSUME p \in DOMAIN c.data, c.data[p] = v PROVE SetLast(given, c.inst, p, v)
    <3>1. \A m \in n + 1..Len(given) : m \in DOMAIN given /\ ~(m <= n)
      OBVIOUS
    <3>2. \A m \in n + 1..Len(given) : given[m].inst # c.inst
      BY <1>2, <3>1
    <3> QED BY <1>1, <1>2, <2>2, <3>2 DEF SetLast
  <2> QED BY <2>1, <2>2
<1>4. merged[k] \in Changes /\ merged[k] \in ToSet(merged)
  BY DEF ToSet
<1>5. \A p \in Props, v \in Values :
         (p \in DOMAIN merged[k].data /\ merged[k].data[p] = v) <=> (p \in DOMAIN c.data /\ c.data[p] = v)
  BY <1>3, <1>4, Zenon DEF LastOfEach
<1>6. merged[k].data = c.data
  <2>1. merged[k].data \in Datas /\ c.data \in Datas
    BY <1>4, ChangeFields
  <2> QED BY <1>5, <2>1, DataEqual, Zenon
<1>7. merged[k].new = c.new
  BY <1>4, ChangeFields
<1> QED BY <1>4, <1>6, <1>7, ChangeEqual, Zenon

(* A case of the step: what is at n of folded stands for the instance x.   *)
StandsFor(d, given) ==
  /\ d.new <=> Makes(given, d.inst)
  /\ \A p \in Props, v \in Values :
       (p \in DOMAIN d.data /\ d.data[p] = v) <=> SetLast(given, d.inst, p, v)

LEMMA StandsForIs ==
  ASSUME NEW sent, NEW given
  PROVE  LastOfEach(sent, given) <=>
           /\ Once(sent)
           /\ {d.inst : d \in ToSet(sent)} = {d.inst : d \in ToSet(given)}
           /\ \A n \in DOMAIN sent : StandsFor(sent[n], given)
<1>1. ToSet(sent) = {sent[n] : n \in DOMAIN sent}
  BY DEF ToSet
<1>2. (\A d \in ToSet(sent) : StandsFor(d, given)) <=> \A n \in DOMAIN sent : StandsFor(sent[n], given)
  BY <1>1, Zenon
<1> QED BY <1>2, Zenon DEF LastOfEach, StandsFor

LEMMA OthersStand ==
  ASSUME NEW given \in Seq(Changes), NEW c \in Changes, NEW d, d.inst # c.inst,
         StandsFor(d, given)
  PROVE  StandsFor(d, Append(given, c))
<1>1. Makes(given, d.inst) <=> Makes(Append(given, c), d.inst)
  BY MakesAppend, Zenon
<1>2. \A p, v : SetLast(Append(given, c), d.inst, p, v) <=> SetLast(given, d.inst, p, v)
  BY SetLastAppend, Zenon
<1> QED BY <1>1, <1>2, Zenon DEF StandsFor

LEMMA InstsOfAppend ==
  ASSUME NEW s \in Seq(Changes), NEW c \in Changes
  PROVE  {d.inst : d \in ToSet(Append(s, c))} = {d.inst : d \in ToSet(s)} \cup {c.inst}
<1>1. ToSet(Append(s, c)) = ToSet(s) \cup {c}
  BY AppendIs DEF ToSet
<1> QED BY <1>1, Zenon

LEMMA FoldedAppends ==
  ASSUME NEW merged \in Seq(Changes), NEW given \in Seq(Changes), NEW c \in Changes,
         LastOfEach(merged, given), \A n \in DOMAIN merged : merged[n].inst # c.inst
  PROVE  LastOfEach(Append(merged, c), Append(given, c))
<1> DEFINE f == Append(merged, c)
           g == Append(given, c)
           l == Len(merged) + 1
<1>1. /\ Len(merged) \in Nat /\ DOMAIN merged = 1..Len(merged) /\ DOMAIN f = 1..l /\ f[l] = c
      /\ \A n \in 1..Len(merged) : f[n] = merged[n]
  BY AppendIs
<1>2. \A n \in DOMAIN given : given[n].inst # c.inst
  <2> TAKE n \in DOMAIN given
  <2>1. given[n].inst \in {d.inst : d \in ToSet(given)}
    BY DEF ToSet
  <2>2. given[n].inst \in {d.inst : d \in ToSet(merged)}
    BY <2>1, Zenon DEF LastOfEach
  <2> QED BY <2>2 DEF ToSet
<1>3. Once(f)
  <2> HIDE DEF f
  <2>1. \A n \in 1..l : n = l \/ n \in 1..Len(merged)
    BY <1>1
  <2>2. Once(merged)
    BY DEF LastOfEach
  <2> QED BY <1>1, <2>1, <2>2 DEF Once
<1>4. {d.inst : d \in ToSet(f)} = {d.inst : d \in ToSet(g)}
  BY InstsOfAppend, Zenon DEF LastOfEach
<1>5. StandsFor(c, g)
  <2>1. Makes(g, c.inst) <=> c.new
    <3>1. ~Makes(given, c.inst)
      BY <1>2 DEF Makes, ToSet
    <3> QED BY <3>1, MakesAppend, Zenon
  <2>2. \A p, v : ~SetLast(given, c.inst, p, v)
    BY <1>2 DEF SetLast
  <2>3. \A p, v : SetLast(g, c.inst, p, v) <=> (p \in DOMAIN c.data /\ c.data[p] = v)
    BY <2>2, SetLastAppend, Zenon
  <2> QED BY <2>1, <2>3, Zenon DEF StandsFor
<1>6. ASSUME NEW n \in 1..l PROVE StandsFor(f[n], g)
  <2>1. CASE n = l
    BY <1>1, <1>5, <2>1
  <2>2. CASE n \in 1..Len(merged)
    BY <1>1, <2>2, OthersStand, StandsForIs, Zenon
  <2> QED BY <1>1, <2>1, <2>2
<1> QED BY <1>1, <1>3, <1>4, <1>6, StandsForIs, Zenon

LEMMA FoldedReplaces ==
  ASSUME NEW merged \in Seq(Changes), NEW given \in Seq(Changes), NEW c \in Changes,
         LastOfEach(merged, given), NEW k \in DOMAIN merged, NEW f, FoldsAt(merged, c, k, f)
  PROVE  f \in Seq(Changes) /\ LastOfEach(f, Append(given, c))
<1> DEFINE g == Append(given, c)
           new == merged[k].new \/ c.new
           data == Over(c.data, merged[k].data)
           d == Change(c.inst, new, data)
<1>0. merged[k] \in Changes
  OBVIOUS
<1>2. merged[k].inst = c.inst /\ f = [merged EXCEPT ![k] = d]
  BY Zenon DEF FoldsAt
<1>1. d \in Changes /\ d.inst = c.inst /\ (d.new <=> merged[k].new \/ c.new) /\ d.data = data
  <2>1. c.inst \in Writes \cup {Shared} /\ new \in BOOLEAN
    BY <1>0, ChangeFields, Zenon
  <2>2. data \in Datas
    BY <1>0, ChangeFields, OverIs, Zenon
  <2> HIDE DEF new, data
  <2>3. d \in Changes /\ d.inst = c.inst /\ d.new = new /\ d.data = data
    <3>1. PICK x \in Writes \cup {Shared}, b \in BOOLEAN, e \in Datas :
            x = c.inst /\ b = new /\ e = data
      BY <2>1, <2>2
    <3>2. /\ Change(x, b, e) \in Changes /\ Change(x, b, e).inst = x
          /\ Change(x, b, e).new = b /\ Change(x, b, e).data = e
      BY ChangeIs
    <3>3. d = Change(x, b, e)
      BY <3>1, Zenon
    <3> QED BY <3>1, <3>2, <3>3, Zenon
  <2> QED BY <2>3, Zenon DEF new
<1>10. /\ DOMAIN d.data = DOMAIN merged[k].data \cup DOMAIN c.data
       /\ \A p \in DOMAIN c.data : d.data[p] = c.data[p]
       /\ \A p \in DOMAIN merged[k].data \ DOMAIN c.data : d.data[p] = merged[k].data[p]
  <2>1. merged[k].data \in Datas /\ c.data \in Datas
    BY <1>0, ChangeFields, Zenon
  <2>2. /\ DOMAIN data = DOMAIN merged[k].data \cup DOMAIN c.data
        /\ \A p \in DOMAIN c.data : data[p] = c.data[p]
        /\ \A p \in DOMAIN merged[k].data \ DOMAIN c.data : data[p] = merged[k].data[p]
    BY <2>1, OverIs
  <2> HIDE DEF d, data
  <2> QED BY <1>1, <2>2, Zenon
<1> HIDE DEF d, new, data
<1>3. /\ f \in Seq(Changes) /\ DOMAIN f = DOMAIN merged /\ f[k] = d
      /\ \A n \in DOMAIN merged : n # k => f[n] = merged[n]
  BY <1>1, <1>2
<1>4. Once(merged)
  BY DEF LastOfEach
<1>5. Once(f)
  BY <1>1, <1>2, <1>3, <1>4 DEF Once
<1>6. {e.inst : e \in ToSet(f)} = {e.inst : e \in ToSet(g)}
  <2>1. \A n \in DOMAIN merged : f[n].inst = merged[n].inst
    BY <1>1, <1>2, <1>3
  <2>2. {e.inst : e \in ToSet(f)} = {e.inst : e \in ToSet(merged)}
    BY <1>3, <2>1 DEF ToSet
  <2>3. c.inst \in {e.inst : e \in ToSet(merged)}
    BY <1>2 DEF ToSet
  <2>4. {e.inst : e \in ToSet(merged)} = {e.inst : e \in ToSet(given)}
    BY DEF LastOfEach
  <2>5. {e.inst : e \in ToSet(g)} = {e.inst : e \in ToSet(given)} \cup {c.inst}
    BY InstsOfAppend
  <2> HIDE DEF g
  <2> QED BY <2>2, <2>3, <2>4, <2>5
<1>7. StandsFor(merged[k], given)
  BY StandsForIs, Zenon
<1>8. StandsFor(d, g)
  <2>1. d.new <=> Makes(g, d.inst)
    BY <1>1, <1>2, <1>7, MakesAppend, Zenon DEF StandsFor
  <2>2. ASSUME NEW p \in Props, NEW v \in Values
        PROVE  (p \in DOMAIN d.data /\ d.data[p] = v) <=> SetLast(g, d.inst, p, v)
    <3>1. SetLast(g, d.inst, p, v) <=>
            IF p \in DOMAIN c.data THEN c.data[p] = v ELSE SetLast(given, c.inst, p, v)
      BY <1>1, SetLastAppend, Zenon
    <3>2. SetLast(given, c.inst, p, v) <=> p \in DOMAIN merged[k].data /\ merged[k].data[p] = v
      BY <1>2, <1>7, Zenon DEF StandsFor
    <3>3. /\ DOMAIN d.data = DOMAIN merged[k].data \cup DOMAIN c.data
          /\ p \in DOMAIN c.data => d.data[p] = c.data[p]
          /\ p \in DOMAIN merged[k].data \ DOMAIN c.data => d.data[p] = merged[k].data[p]
      BY <1>10, Zenon
    <3> QED BY <3>1, <3>2, <3>3, Zenon
  <2> QED BY <2>1, <2>2, Zenon DEF StandsFor
<1>9. ASSUME NEW n \in DOMAIN f PROVE StandsFor(f[n], g)
  <2>1. CASE n = k
    BY <1>3, <1>8, <2>1, Zenon
  <2>2. CASE n # k
    <3>1. f[n] = merged[n] /\ merged[n].inst # c.inst
      BY <1>2, <1>3, <1>4, <2>2, Zenon DEF Once
    <3>2. StandsFor(merged[n], given)
      BY <1>3, StandsForIs, Zenon
    <3> QED BY <3>1, <3>2, OthersStand, Zenon
  <2> QED BY <2>1, <2>2
<1> QED BY <1>3, <1>5, <1>6, <1>9, StandsForIs, Zenon

LEMMA FoldedKeepsEqual ==
  ASSUME NEW merged \in Seq(Changes), NEW given \in Seq(Changes), NEW c \in Changes,
         LastOfEach(merged, given), NEW k \in DOMAIN merged, merged[k] = c, c.new
  PROVE  LastOfEach(merged, Append(given, c))
<1> DEFINE g == Append(given, c)
<1>1. {e.inst : e \in ToSet(merged)} = {e.inst : e \in ToSet(g)}
  <2>1. c.inst \in {e.inst : e \in ToSet(merged)}
    BY DEF ToSet
  <2>2. {e.inst : e \in ToSet(merged)} = {e.inst : e \in ToSet(given)}
    BY DEF LastOfEach
  <2>3. {e.inst : e \in ToSet(g)} = {e.inst : e \in ToSet(given)} \cup {c.inst}
    BY InstsOfAppend
  <2> HIDE DEF g
  <2> QED BY <2>1, <2>2, <2>3
<1>2. StandsFor(c, given)
  BY StandsForIs, Zenon
<1>3. StandsFor(c, g)
  <2>1. c.new <=> Makes(g, c.inst)
    BY MakesAppend, Zenon
  <2>2. \A p \in Props, v \in Values : (p \in DOMAIN c.data /\ c.data[p] = v) <=> SetLast(g, c.inst, p, v)
    BY <1>2, SetLastAppend, Zenon DEF StandsFor
  <2> QED BY <2>1, <2>2, Zenon DEF StandsFor
<1>4. Once(merged)
  BY DEF LastOfEach
<1>5. ASSUME NEW n \in DOMAIN merged PROVE StandsFor(merged[n], g)
  <2>1. CASE n = k
    BY <1>3, <2>1, Zenon
  <2>2. CASE n # k
    <3>1. merged[n].inst # c.inst
      BY <1>4, <2>2, Zenon DEF Once
    <3>2. StandsFor(merged[n], given)
      BY StandsForIs, Zenon
    <3> QED BY <3>1, <3>2, OthersStand, Zenon
  <2> QED BY <2>1, <2>2
<1> QED BY <1>1, <1>4, <1>5, StandsForIs, Zenon

(* Whatever was folded, a step keeps what instances there are where.       *)
LEMMA FoldedInsts ==
  ASSUME NEW merged \in Seq(Changes), NEW c \in Changes
  PROVE  /\ Folded(merged, c) \in Seq(Changes)
         /\ \A n \in DOMAIN merged : /\ n \in DOMAIN Folded(merged, c)
                                     /\ Folded(merged, c)[n].inst = merged[n].inst
<1> DEFINE same == {n \in DOMAIN merged : merged[n].inst = c.inst}
           first == CHOOSE n \in same : \A m \in same : n <= m
           added == Append(merged, c)
<1>1. /\ added \in Seq(Changes) /\ DOMAIN merged = 1..Len(merged) /\ DOMAIN added = 1..Len(merged) + 1
      /\ Len(merged) \in Nat /\ \A n \in DOMAIN merged : n \in DOMAIN added /\ added[n] = merged[n]
  BY AppendIs
<1>2. CASE same = {}
  <2>1. Folded(merged, c) = added
    BY <1>2 DEF Folded
  <2> HIDE DEF added
  <2> QED BY <1>1, <2>1
<1>3. CASE same # {}
  <2>1. first \in same
    <3>1. same \subseteq Nat
      BY <1>1
    <3> HIDE DEF same
    <3>2. \E n \in same : \A m \in same : n <= m
      BY <1>3, <3>1, Least
    <3> QED BY <3>2
  <2> DEFINE data == Over(c.data, merged[first].data)
             new == merged[first].new \/ c.new
             d == Change(c.inst, new, data)
             moved == [merged EXCEPT ![first] = d]
  <2>2. Folded(merged, c) = IF merged[first].new /\ c.new
                            THEN IF merged[first] = c THEN merged ELSE added ELSE moved
    BY <1>3, Zenon DEF Folded
  <2>3. first \in DOMAIN merged /\ merged[first].inst = c.inst /\ merged[first] \in Changes
    BY <2>1
  <2> HIDE DEF first, same
  <2>4. d \in Changes /\ d.inst = c.inst
    <3>1. c.inst \in Writes \cup {Shared} /\ new \in BOOLEAN
      BY <2>3, ChangeFields, Zenon
    <3>2. data \in Datas
      BY <2>3, ChangeFields, OverIs, Zenon
    <3> HIDE DEF new, data
    <3> QED BY <3>1, <3>2, ChangeIs
  <2> HIDE DEF d
  <2>5. /\ moved \in Seq(Changes) /\ DOMAIN moved = DOMAIN merged
        /\ \A n \in DOMAIN merged : moved[n].inst = merged[n].inst
    BY <2>3, <2>4
  <2> HIDE DEF moved, added
  <2> QED BY <1>1, <2>2, <2>5
<1> QED BY <1>2, <1>3

(* What the store refuses as two changes of one instance stays so.         *)
LEMMA FoldedOnce ==
  ASSUME NEW merged \in Seq(Changes), NEW c \in Changes, Once(Folded(merged, c))
  PROVE  Once(merged)
BY FoldedInsts DEF Once

LEMMA FoldedStep ==
  ASSUME NEW merged \in Seq(Changes), NEW given \in Seq(Changes), NEW c \in Changes,
         LastOfEach(merged, given), OneCreate(Append(given, c)) \/ Once(Folded(merged, c))
  PROVE  Folded(merged, c) \in Seq(Changes) /\ LastOfEach(Folded(merged, c), Append(given, c))
<1>1. Once(merged)
  BY DEF LastOfEach
<1>2. CASE /\ \A n \in DOMAIN merged : merged[n].inst # c.inst
           /\ Folded(merged, c) = Append(merged, c)
  <2>1. LastOfEach(Append(merged, c), Append(given, c))
    BY <1>2, FoldedAppends, Zenon
  <2>2. Append(merged, c) \in Seq(Changes)
    BY AppendIs
  <2> QED BY <1>2, <2>1, <2>2, Zenon
<1>3. CASE \E k \in DOMAIN merged : FoldsAt(merged, c, k, Folded(merged, c))
  BY <1>3, FoldedReplaces, Zenon
<1>4. CASE \E k \in DOMAIN merged :
             /\ merged[k].inst = c.inst /\ merged[k].new /\ c.new
             /\ Folded(merged, c) = IF merged[k] = c THEN merged ELSE Append(merged, c)
  <2>1. PICK k \in DOMAIN merged :
             /\ merged[k].inst = c.inst /\ merged[k].new /\ c.new
             /\ Folded(merged, c) = IF merged[k] = c THEN merged ELSE Append(merged, c)
    BY <1>4, Zenon
  <2>2. merged[k] = c
    <3>1. CASE OneCreate(Append(given, c))
      BY <2>1, <3>1, EqualCreates, Zenon
    <3>2. CASE Once(Folded(merged, c)) /\ merged[k] # c
      <4>1. Once(Append(merged, c))
        BY <2>1, <3>2, Zenon
      <4>2. /\ k \in DOMAIN Append(merged, c) /\ Len(merged) + 1 \in DOMAIN Append(merged, c)
            /\ Append(merged, c)[k] = merged[k] /\ Append(merged, c)[Len(merged) + 1] = c
            /\ k # Len(merged) + 1
        BY AppendIs
      <4> QED BY <2>1, <4>1, <4>2, Zenon DEF Once
    <3> QED BY <3>1, <3>2
  <2> QED BY <2>1, <2>2, FoldedKeepsEqual, Zenon
<1>5. \/ /\ \A n \in DOMAIN merged : merged[n].inst # c.inst
         /\ Folded(merged, c) = Append(merged, c)
      \/ \E k \in DOMAIN merged : FoldsAt(merged, c, k, Folded(merged, c))
      \/ \E k \in DOMAIN merged : /\ merged[k].inst = c.inst /\ merged[k].new /\ c.new
                                 /\ Folded(merged, c) = IF merged[k] = c THEN merged ELSE Append(merged, c)
  BY <1>1, FoldedIs
<1> QED BY <1>2, <1>3, <1>4, <1>5

(* The loop over any sequence of changes: by induction on its length.      *)
LEMMA MergedLastOfEach ==
  ASSUME NEW given \in Seq(Changes)
  PROVE  /\ Merged(given) \in Seq(Changes)
         /\ OneCreate(given) \/ Once(Merged(given)) => LastOfEach(Merged(given), given)
<1> DEFINE l == Len(given)
           upto(n) == SubSeq(given, 1, n)
<1>1. l \in Nat
  OBVIOUS
<1>2. PICK f : FoldsUpTo(given, f, l) /\ Merged(given) = f[l]
  BY <1>1, MergedFolds
<1> DEFINE Folds(n) == /\ f[n] \in Seq(Changes)
                       /\ OneCreate(upto(n)) \/ Once(f[n]) => LastOfEach(f[n], upto(n))
           S == {n \in Nat : Folds(n)}
<1>3. 0 \in S
  <2>1. f[0] = <<>>
    BY <1>1, <1>2 DEF FoldsUpTo, FoldAt
  <2>2. upto(0) = <<>>
    OBVIOUS
  <2>3. LastOfEach(<<>>, <<>>)
    BY DEF LastOfEach, Once, ToSet
  <2> HIDE DEF upto
  <2>4. f[0] \in Seq(Changes) /\ LastOfEach(f[0], upto(0))
    BY <2>1, <2>2, <2>3
  <2> QED BY <2>4
<1>4. ASSUME NEW n \in 0..l-1, n \in S PROVE n + 1 \in S
  <2>1. f[n+1] = Folded(f[n], given[n+1])
    BY <1>2 DEF FoldsUpTo, FoldAt
  <2>2. /\ upto(n) \in Seq(Changes) /\ given[n+1] \in Changes
        /\ upto(n+1) = Append(upto(n), given[n+1])
    OBVIOUS
  <2>3. OneCreate(upto(n+1)) => OneCreate(upto(n))
    <3> DEFINE t == upto(n+1)
               u == upto(n)
    <3>1. /\ DOMAIN t = 1..n+1 /\ DOMAIN u = 1..n /\ n \in Nat
          /\ \A i \in 1..n : t[i] = u[i]
      OBVIOUS
    <3> HIDE DEF t, u
    <3>2. OneCreate(t) => OneCreate(u)
      BY <3>1 DEF OneCreate
    <3> QED BY <3>2 DEF t, u
  <2>4. f[n] \in Seq(Changes) /\ (OneCreate(upto(n)) \/ Once(f[n]) => LastOfEach(f[n], upto(n)))
    <3>1. Folds(n)
      <4> HIDE DEF Folds
      <4> QED BY <1>4
    <3> HIDE DEF upto
    <3> QED BY <3>1, Zenon
  <2> HIDE DEF upto
  <2>5. f[n+1] \in Seq(Changes)
    BY <2>1, <2>2, <2>4, FoldedInsts
  <2>6. ASSUME OneCreate(upto(n+1)) \/ Once(f[n+1]) PROVE LastOfEach(f[n+1], upto(n+1))
    <3>1. OneCreate(upto(n)) \/ Once(f[n])
      BY <2>1, <2>2, <2>3, <2>4, <2>6, FoldedOnce, Zenon
    <3>2. LastOfEach(f[n], upto(n))
      BY <2>4, <3>1
    <3> QED BY <2>1, <2>2, <2>4, <2>6, <3>2, FoldedStep, Zenon
  <2>7. Folds(n + 1)
    BY <2>5, <2>6, Zenon
  <2>8. n + 1 \in Nat
    OBVIOUS
  <2> HIDE DEF Folds
  <2> QED BY <2>7, <2>8
<1>5. Folds(l)
  <2> HIDE DEF Folds
  <2>1. ASSUME NEW n \in 0..l-1, n \in S PROVE n + 1 \in S
    BY <1>4, <2>1
  <2> HIDE DEF S
  <2>2. 0..l \subseteq S
    BY <1>1, <1>3, <2>1, UpTo
  <2>3. l \in S
    BY <1>1, <2>2
  <2> QED BY <2>3 DEF S
<1>6. upto(l) = given
  OBVIOUS
<1> HIDE DEF upto
<1> QED BY <1>2, <1>5, <1>6, Zenon

-----------------------------------------------------------------------------
(* What a write adds in front of what is staged.                           *)

LEMMA FixedChanges ==
  ASSUME NEW w \in Writes, NEW p \in {"status", "result"},
         NEW x \in Writes \cup {Shared}
  PROVE  /\ EntryChanges(w) \in Seq(Changes) /\ ExitChanges(w) \in Seq(Changes)
         /\ ErrorChanges(w) \in Seq(Changes)
         /\ Change(x, FALSE, [q \in {p} |-> "set"]) \in Changes
         /\ Change(w, TRUE, [result |-> "new"]) \in Changes
         /\ Change(Shared, TRUE, <<>>) \in Changes
<1>1. /\ [status |-> "running"] \in Datas /\ [status |-> "done", end |-> "now"] \in Datas
      /\ [status |-> "failed", end |-> "now"] \in Datas /\ [q \in {p} |-> "set"] \in Datas
      /\ [result |-> "new"] \in Datas /\ <<>> \in Datas
  <2>1. [status |-> "running"] \in [{"status"} -> Values]
    BY DEF Values
  <2>2. [status |-> "done", end |-> "now"] \in [{"status", "end"} -> Values]
    BY DEF Values
  <2>3. [status |-> "failed", end |-> "now"] \in [{"status", "end"} -> Values]
    BY DEF Values
  <2>4. [q \in {p} |-> "set"] \in [{p} -> Values]
    BY DEF Values
  <2>5. [result |-> "new"] \in [{"result"} -> Values]
    BY DEF Values
  <2>6. <<>> \in [{} -> Values]
    OBVIOUS
  <2>7. /\ {"status"} \in SUBSET Props /\ {"status", "end"} \in SUBSET Props /\ {p} \in SUBSET Props
        /\ {"result"} \in SUBSET Props /\ {} \in SUBSET Props
    BY DEF Props
  <2>8. ASSUME NEW ps \in SUBSET Props, NEW d \in [ps -> Values] PROVE d \in Datas
    BY DEF Datas
  <2> QED BY <2>1, <2>2, <2>3, <2>4, <2>5, <2>6, <2>7, <2>8, Zenon
<1>2. TRUE \in BOOLEAN /\ FALSE \in BOOLEAN /\ w \in Writes \cup {Shared} /\ x \in Writes \cup {Shared}
      /\ Shared \in Writes \cup {Shared}
  OBVIOUS
<1>3. /\ Change(w, FALSE, [status |-> "running"]) \in Changes
      /\ Change(w, FALSE, [status |-> "done", end |-> "now"]) \in Changes
      /\ Change(w, FALSE, [status |-> "failed", end |-> "now"]) \in Changes
      /\ Change(x, FALSE, [q \in {p} |-> "set"]) \in Changes
      /\ Change(w, TRUE, [result |-> "new"]) \in Changes
      /\ Change(Shared, TRUE, <<>>) \in Changes
  BY <1>1, <1>2, ChangeIs, Zenon
<1>4. ASSUME NEW c \in Changes PROVE <<c>> \in Seq(Changes)
  OBVIOUS
<1> QED BY <1>3, <1>4, Zenon DEF EntryChanges, ExitChanges, ErrorChanges

LEMMA ConcatIs ==
  ASSUME NEW s \in Seq(Changes), NEW t \in Seq(Changes)
  PROVE  /\ s \o t \in Seq(Changes) /\ Len(s) \in Nat /\ Len(t) \in Nat
         /\ DOMAIN s = 1..Len(s) /\ DOMAIN t = 1..Len(t) /\ DOMAIN (s \o t) = 1..Len(s) + Len(t)
         /\ \A n \in 1..Len(s) : (s \o t)[n] = s[n]
         /\ \A n \in 1..Len(t) : (s \o t)[Len(s) + n] = t[n]
OBVIOUS

(* What a write adds in front of what is staged. *)
Own(w) ==
  IF w \in Creations
  THEN <<Change(w, TRUE, [result |-> "new"])>>
         \o (IF Held(w, Shared) THEN <<>> ELSE <<Change(Shared, TRUE, <<>>)>>)
  ELSE IF Overlap(w) THEN <<>> ELSE ExitChanges(w)

LEMMA OwnIs ==
  ASSUME NEW w \in Writes
  PROVE  /\ Own(w) \in Seq(Changes)
         /\ w \in Creations =>
              /\ 1 \in DOMAIN Own(w) /\ Own(w)[1] = Change(w, TRUE, [result |-> "new"])
              /\ \A n \in DOMAIN Own(w) : n = 1 \/ (n = 2 /\ Own(w)[n] = Change(Shared, TRUE, <<>>))
         /\ w \notin Creations =>
              /\ \A n \in DOMAIN Own(w) :
                   n = 1 /\ Own(w)[n] = Change(w, FALSE, [status |-> "done", end |-> "now"])
              /\ Overlap(w) <=> DOMAIN Own(w) = {}
<1> DEFINE c == Change(w, TRUE, [result |-> "new"])
           d == Change(Shared, TRUE, <<>>)
           e == Change(w, FALSE, [status |-> "done", end |-> "now"])
<1>1. c \in Changes /\ d \in Changes /\ <<e>> \in Seq(Changes)
  BY FixedChanges, Zenon DEF ExitChanges
<1>2. CASE w \in Creations
  <2>1. Own(w) = <<c>> \o (IF Held(w, Shared) THEN <<>> ELSE <<d>>)
    BY <1>2, Zenon DEF Own
  <2> HIDE DEF c, d
  <2>2. /\ <<c>> \in Seq(Changes) /\ <<d>> \in Seq(Changes) /\ <<>> \in Seq(Changes)
        /\ DOMAIN <<c>> = 1..1 /\ DOMAIN <<d>> = 1..1 /\ Len(<<c>>) = 1 /\ Len(<<d>>) = 1
        /\ <<c>>[1] = c /\ <<d>>[1] = d /\ Len(<<>>) = 0
    BY <1>1
  <2>3. /\ Own(w) \in Seq(Changes) /\ 1 \in DOMAIN Own(w) /\ Own(w)[1] = c
        /\ \A n \in DOMAIN Own(w) : n = 1 \/ (n = 2 /\ Own(w)[n] = d)
    <3>1. CASE Own(w) = <<c>> \o <<>>
      <4>1. /\ Own(w) \in Seq(Changes) /\ DOMAIN Own(w) = 1..1 /\ Own(w)[1] = c
        BY <2>2, <3>1, ConcatIs
      <4> QED BY <4>1
    <3>2. CASE Own(w) = <<c>> \o <<d>>
      <4>1. /\ Own(w) \in Seq(Changes) /\ DOMAIN Own(w) = 1..1+1
            /\ \A n \in 1..1 : Own(w)[n] = <<c>>[n]
            /\ \A n \in 1..1 : Own(w)[1 + n] = <<d>>[n]
        BY <2>2, <3>2, ConcatIs
      <4>2. Own(w)[1] = c /\ Own(w)[2] = d
        BY <2>2, <4>1
      <4> QED BY <4>1, <4>2
    <3> QED BY <2>1, <3>1, <3>2
  <2> QED BY <1>2, <2>3 DEF c, d
<1>3. CASE w \notin Creations
  <2>1. Own(w) = IF Overlap(w) THEN <<>> ELSE <<e>>
    BY <1>3, Zenon DEF Own, ExitChanges
  <2> HIDE DEF e
  <2>2. /\ Own(w) \in Seq(Changes)
        /\ \A n \in DOMAIN Own(w) : n = 1 /\ Own(w)[n] = e
        /\ Overlap(w) <=> DOMAIN Own(w) = {}
    <3>1. CASE Overlap(w)
      BY <1>1, <2>1, <3>1
    <3>2. CASE ~Overlap(w)
      BY <1>1, <2>1, <3>2
    <3> QED BY <3>1, <3>2
  <2> QED BY <1>3, <2>2 DEF e
<1> QED BY <1>2, <1>3

LEMMA GivenIs ==
  ASSUME NEW w \in Writes, staged[w] \in Seq(Changes)
  PROVE  Given(w) = Own(w) \o staged[w]
<1>1. CASE w \in Creations
  <2> DEFINE c == <<Change(w, TRUE, [result |-> "new"])>>
             d == IF Held(w, Shared) THEN <<>> ELSE <<Change(Shared, TRUE, <<>>)>>
  <2>1. c \in Seq(Changes) /\ d \in Seq(Changes)
    <3> DEFINE e == Change(w, TRUE, [result |-> "new"])
               f == Change(Shared, TRUE, <<>>)
    <3>1. e \in Changes /\ f \in Changes
      BY FixedChanges, Zenon
    <3> HIDE DEF e, f
    <3>2. <<e>> \in Seq(Changes) /\ (IF Held(w, Shared) THEN <<>> ELSE <<f>>) \in Seq(Changes)
      BY <3>1
    <3> QED BY <3>2 DEF e, f
  <2>2. Given(w) = c \o d \o staged[w]
    BY <1>1, Zenon DEF Given, CreateChanges
  <2>3. Own(w) = c \o d
    BY <1>1, Zenon DEF Own
  <2> QED BY <2>2, <2>3, Zenon
<1>2. CASE w \notin Creations /\ Overlap(w)
  BY <1>2 DEF Given, Own
<1>3. CASE w \notin Creations /\ ~Overlap(w)
  BY <1>3 DEF Given, Own
<1> QED BY <1>1, <1>2, <1>3

-----------------------------------------------------------------------------
(* The inductive invariant, and what each kind of step changes.            *)

Opened(w) == at[w] # "new"
Opens(w) == at'[w] # "new"

(* What the state names is open: a stack, the context variable and what it *)
(* is restored to name writes that were opened, a creation joins an opened *)
(* write of its own store, and a write is over when its outcome is known.  *)
Known ==
  /\ \A t \in Tasks : \A n \in DOMAIN stack[t] : Opened(stack[t][n])
  /\ \A t \in Tasks : pending[t] # None => Opened(pending[t])
  /\ \A w \in Writes : /\ saved[w] # None => Opened(saved[w])
                       /\ parent[w] # None => Opened(parent[w]) /\ SameStore(parent[w], w)
                       /\ outcome[w] = "joined" => parent[w] # None
                       /\ ~Opened(w) => parent[w] = None /\ staged[w] = <<>>
                       /\ at[w] = "over" <=> outcome[w] # "none"

(* What may be staged for v: a Create of the shared instance, always the   *)
(* same one, an update of the commit's own instance, and the Create of a   *)
(* creation that has joined.                                               *)
Stages(v, c) ==
  /\ c.inst = Shared /\ c.new => c = Change(Shared, TRUE, <<>>)
  /\ c.inst \in Commits => c.inst = v /\ \E p \in {"status", "result"} : c = Change(v, FALSE, [q \in {p} |-> "set"])
  /\ c.inst \in Creations /\ c.new => outcome[c.inst] = "joined" /\ SameStore(c.inst, v)
  /\ c.new => c.inst \in Creations \cup {Shared}

StagedOK == \A v \in Writes : \A n \in DOMAIN staged[v] : Stages(v, staged[v][n])

(* No Create of a creation is staged in two places.                        *)
StagedOnce ==
  \A u, v \in Writes : \A m \in DOMAIN staged[u], n \in DOMAIN staged[v] :
     staged[u][m].new /\ staged[v][n].new /\ staged[u][m].inst = staged[v][n].inst
       /\ staged[u][m].inst \in Creations => u = v /\ m = n

(* The writes form a tree by what they join: a Create is staged for a      *)
(* write nearer to the root than the creation.  Without the ranks a write  *)
(* that joins could be its own parent, or find its own Create staged.      *)
Ranks(rank) ==
  /\ \A w \in Writes : parent[w] # None => rank[parent[w]] < rank[w]
  /\ \A v \in Writes : \A x \in Creations : Makes(staged[v], x) => rank[v] < rank[x]
Ranked == \E rank \in [Writes -> Nat] : Ranks(rank)

(* A creation is in the log once, written by itself if and only if it      *)
(* joins nothing, and in the log of its own store.                         *)
Logged ==
  /\ \A n \in DOMAIN log : \A x \in Creations : Makes(log[n].changes, x) =>
        /\ log[n].write = x <=> parent[x] = None
        /\ SameStore(log[n].write, x)
        /\ Opened(x)
  /\ \A m, n \in DOMAIN log : \A x \in Creations :
        Makes(log[m].changes, x) /\ Makes(log[n].changes, x) => m = n

(* The inductive invariant of the general write.                           *)
Sound == WriteTypeOK /\ Known /\ StagedOK /\ StagedOnce /\ Ranked /\ Logged

LEMMA TopIs ==
  ASSUME WriteTypeOK, NEW t \in Tasks, stack[t] # <<>>
  PROVE  /\ Len(stack[t]) \in DOMAIN stack[t] /\ Top(t) \in Writes
         /\ Len(stack[t]) \in Nat /\ DOMAIN stack[t] = 1..Len(stack[t])
         /\ SubSeq(stack[t], 1, Len(stack[t]) - 1) \in Seq(Writes)
         /\ Len(SubSeq(stack[t], 1, Len(stack[t]) - 1)) = Len(stack[t]) - 1
         /\ \A n \in 1..Len(stack[t]) - 1 : SubSeq(stack[t], 1, Len(stack[t]) - 1)[n] = stack[t][n]
<1>1. stack[t] \in Seq(Writes)
  BY DEF WriteTypeOK
<1> QED BY <1>1 DEF Top

(* What each kind of step does to what is staged, to the log and the rest. *)
LEMMA StagedMoves ==
  ASSUME WriteTypeOK, WriteNext
  PROVE  \/ \A v \in Writes : staged'[v] = staged[v] \/ staged'[v] = <<>>
         \/ \E t \in Tasks, w \in Writes, x \in Writes \cup {Shared}, p \in {"status", "result"} : Update(t, w, x, p)
         \/ \E t \in Tasks, w \in Writes : Join(t, w)
<1> USE DEF WriteTypeOK
<1>1. ASSUME NEW t \in Tasks, NEW w \in Writes, OpenCommit(t, w) \/ OpenCreation(t, w) \/ OpenApart(t, w)
      PROVE  staged' = staged
  BY <1>1 DEF OpenCommit, OpenCreation, OpenApart
<1>2. ASSUME NEW t \in Tasks, NEW w \in Writes, NEW how, Leave(t, w, how)
      PROVE  \A v \in Writes : staged'[v] = staged[v] \/ staged'[v] = <<>>
  BY <1>2 DEF Leave
<1>3. ASSUME NEW t \in Tasks, NEW w \in Writes, Ongoing(t, w), ~Join(t, w)
      PROVE  \A v \in Writes : staged'[v] = staged[v] \/ staged'[v] = <<>>
  BY <1>3 DEF Ongoing, Enter, RefuseEntry, Fetch, ExitCommit, RefuseExit, WriteError, CreateAlone, RefuseCreation
<1>4. ASSUME NEW t \in Tasks, NEW u \in Tasks, Finish(t) \/ Spawn(t, u)
      PROVE  staged' = staged
  BY <1>4 DEF Finish, Spawn
<1> QED BY <1>1, <1>2, <1>3, <1>4, Zenon DEF WriteNext

Adds(w, part, changes) ==
  log' = Append(log, [write |-> w, part |-> part, changes |-> changes])

LEMMA LogMoves ==
  ASSUME WriteNext
  PROVE  \/ log' = log
         \/ \E w \in Writes : Adds(w, "entry", EntryChanges(w)) \/ Adds(w, "error", ErrorChanges(w))
         \/ \E w \in Writes : /\ at[w] = "exiting" /\ Adds(w, "exit", Merged(Given(w)))
                              /\ Acceptable(w, Merged(Given(w)))
                              /\ w \in Commits \/ (w \in Creations /\ parent[w] = None)
                              /\ at'[w] = "over" \/ ~WriteTypeOK
<1>1. ASSUME NEW t \in Tasks, NEW w \in Writes, OpenCommit(t, w) \/ OpenCreation(t, w) \/ OpenApart(t, w)
      PROVE  log' = log
  BY <1>1 DEF OpenCommit, OpenCreation, OpenApart
<1>2. ASSUME NEW t \in Tasks, NEW w \in Writes, NEW how, Leave(t, w, how)
      PROVE  log' = log
  BY <1>2 DEF Leave
<1>3. ASSUME NEW t \in Tasks, NEW w \in Writes,
             RefuseEntry(t, w) \/ Fetch(t, w) \/ RefuseExit(t, w) \/ Join(t, w)
      PROVE  log' = log
  BY <1>3 DEF RefuseEntry, Fetch, RefuseExit, Join, Refuse
<1>4. ASSUME NEW t \in Tasks, NEW w \in Writes, RefuseCreation(t, w)
      PROVE  log' = log
  BY <1>4 DEF RefuseCreation, Refuse
<1>5. ASSUME NEW t \in Tasks, NEW w \in Writes, Enter(t, w)
      PROVE  Adds(w, "entry", EntryChanges(w))
  BY <1>5, Zenon DEF Enter, Admit, Adds
<1>6. ASSUME NEW t \in Tasks, NEW w \in Writes, WriteError(t, w)
      PROVE  log' = log \/ Adds(w, "error", ErrorChanges(w))
  BY <1>6, Zenon DEF WriteError, Admit, Refuse, Adds
<1>7. ASSUME NEW t \in Tasks, NEW w \in Writes, ExitCommit(t, w) \/ CreateAlone(t, w)
      PROVE  /\ at[w] = "exiting" /\ Adds(w, "exit", Merged(Given(w)))
             /\ Acceptable(w, Merged(Given(w)))
             /\ w \in Commits \/ (w \in Creations /\ parent[w] = None)
             /\ at'[w] = "over" \/ ~WriteTypeOK
  <2>1. CASE ExitCommit(t, w)
    BY <2>1 DEF ExitCommit, Admit, Adds, Ends, WriteTypeOK
  <2>2. CASE CreateAlone(t, w)
    BY <2>2 DEF CreateAlone, Admit, Adds, Ends, WriteTypeOK
  <2> QED BY <1>7, <2>1, <2>2
<1>8. ASSUME NEW t \in Tasks, NEW u \in Tasks, Finish(t) \/ Spawn(t, u)
      PROVE  log' = log
  BY <1>8 DEF Finish, Spawn
<1>9. ASSUME NEW t \in Tasks, NEW w \in Writes, NEW x, NEW p, Update(t, w, x, p)
      PROVE  log' = log
  BY <1>9 DEF Update
<1> QED BY <1>1, <1>2, <1>3, <1>4, <1>5, <1>6, <1>7, <1>8, <1>9, Zenon DEF WriteNext, Ongoing

LEMMA EndsIs ==
  ASSUME WriteTypeOK, NEW t \in Tasks, NEW w \in Writes, NEW how, Ends(t, w, how)
  PROVE  /\ at'[w] = "over" /\ outcome'[w] = how
         /\ \A v \in Writes \ {w} : at'[v] = at[v] /\ outcome'[v] = outcome[v]
BY DEF Ends, WriteTypeOK

(* A write opens once and ends once, and what it joins is settled when it opens. *)
LEMMA StateMoves ==
  ASSUME WriteTypeOK, Known, WriteNext
  PROVE  /\ \A w \in Writes : Opened(w) => Opens(w) /\ parent'[w] = parent[w]
         /\ \A w \in Writes : outcome[w] # "none" => outcome'[w] = outcome[w]
         /\ \A w \in Writes : outcome'[w] = "joined" =>
               outcome[w] = "joined" \/ \E t \in Tasks : Join(t, w)
<1> DEFINE G(v) == /\ Opened(v) => Opens(v) /\ parent'[v] = parent[v]
                   /\ outcome[v] # "none" => outcome'[v] = outcome[v]
                   /\ outcome'[v] = "joined" => outcome[v] = "joined" \/ \E t \in Tasks : Join(t, v)
<1> USE DEF Opened, Opens
<1>1. ASSUME NEW t \in Tasks, NEW w \in Writes, OpenCommit(t, w) \/ OpenCreation(t, w) \/ OpenApart(t, w),
             NEW v \in Writes
      PROVE  G(v)
  BY <1>1 DEF OpenCommit, OpenCreation, OpenApart, Open, WriteTypeOK
<1>2. ASSUME NEW t \in Tasks, NEW w \in Writes, NEW how, Leave(t, w, how), NEW v \in Writes
      PROVE  G(v)
  <2>1. at[w] = "body" /\ outcome[w] = "none" /\ parent' = parent
    BY <1>2 DEF Leave, Known
  <2>2. CASE /\ at' = [at EXCEPT ![w] = "exiting"] \/ at' = [at EXCEPT ![w] = "failing"]
             /\ outcome' = outcome
    BY <2>1, <2>2 DEF WriteTypeOK
  <2>3. CASE Ends(t, w, "interrupted") \/ Ends(t, w, "failed") \/ Ends(t, w, "plain")
    BY <2>1, <2>3 DEF WriteTypeOK, Ends
  <2> QED BY <1>2, <2>2, <2>3 DEF Leave
<1>3. ASSUME NEW t \in Tasks, NEW w \in Writes, Ongoing(t, w), NEW v \in Writes
      PROVE  G(v)
  <2>1. parent' = parent /\ at[w] \notin {"new", "over"} /\ outcome[w] = "none"
    BY <1>3 DEF Ongoing, Enter, RefuseEntry, Fetch, ExitCommit, RefuseExit, WriteError, CreateAlone,
                RefuseCreation, Join, Known
  <2>2. CASE outcome' = outcome /\ \E a \in {"body", "fetching", "failing"} : at' = [at EXCEPT ![w] = a]
    BY <2>1, <2>2 DEF WriteTypeOK
  <2>3. CASE \E how \in {"refused", "committed", "failed"} : Ends(t, w, how)
    BY <2>1, <2>3 DEF WriteTypeOK, Ends
  <2>4. CASE Ends(t, w, "joined") /\ Join(t, w)
    BY <2>1, <2>4 DEF WriteTypeOK, Ends
  <2> QED BY <1>3, <2>2, <2>3, <2>4
          DEF Ongoing, Enter, RefuseEntry, Fetch, ExitCommit, RefuseExit, WriteError, CreateAlone,
              RefuseCreation, Join
<1>4. ASSUME NEW t \in Tasks, NEW u \in Tasks, Finish(t) \/ Spawn(t, u), NEW v \in Writes
      PROVE  G(v)
  BY <1>4 DEF Finish, Spawn
<1>5. ASSUME NEW t \in Tasks, NEW w \in Writes, NEW x, NEW p, Update(t, w, x, p), NEW v \in Writes
      PROVE  G(v)
  BY <1>5 DEF Update
<1>6. ASSUME NEW v \in Writes PROVE G(v)
  <2> HIDE DEF G
  <2> QED BY <1>1, <1>2, <1>3, <1>4, <1>5, Zenon DEF WriteNext
<1> QED BY <1>6

-----------------------------------------------------------------------------
(* What a write gives at its exit.                                         *)

LEMMA GivenElements ==
  ASSUME WriteTypeOK, NEW w \in Writes
  PROVE  /\ Given(w) \in Seq(Changes)
         /\ \A n \in DOMAIN Given(w) :
              \/ n \in DOMAIN Own(w) /\ Given(w)[n] = Own(w)[n]
              \/ \E m \in DOMAIN staged[w] : n = Len(Own(w)) + m /\ Given(w)[n] = staged[w][m]
         /\ \A m \in DOMAIN staged[w] :
              /\ Len(Own(w)) + m \in DOMAIN Given(w) /\ Given(w)[Len(Own(w)) + m] = staged[w][m]
         /\ \A n \in DOMAIN Own(w) : n \in DOMAIN Given(w) /\ Given(w)[n] = Own(w)[n]
<1> DEFINE s == Own(w)
           t == staged[w]
           g == Given(w)
<1>1. s \in Seq(Changes) /\ t \in Seq(Changes)
  BY OwnIs DEF WriteTypeOK
<1>2. g = s \o t
  BY <1>1, GivenIs
<1> HIDE DEF s, t, g
<1>3. /\ g \in Seq(Changes) /\ Len(s) \in Nat /\ Len(t) \in Nat
      /\ DOMAIN s = 1..Len(s) /\ DOMAIN t = 1..Len(t) /\ DOMAIN g = 1..Len(s) + Len(t)
      /\ \A n \in 1..Len(s) : g[n] = s[n]
      /\ \A n \in 1..Len(t) : g[Len(s) + n] = t[n]
  BY <1>1, <1>2, ConcatIs
<1>4. ASSUME NEW n \in DOMAIN g
      PROVE  \/ n \in DOMAIN s /\ g[n] = s[n]
             \/ \E m \in DOMAIN t : n = Len(s) + m /\ g[n] = t[m]
  <2>1. CASE n \in 1..Len(s)
    BY <1>3, <2>1
  <2>2. CASE n \notin 1..Len(s)
    <3>1. n - Len(s) \in 1..Len(t) /\ n = Len(s) + (n - Len(s))
      BY <1>3, <2>2
    <3> QED BY <1>3, <3>1
  <2> QED BY <2>1, <2>2
<1>5. \A m \in DOMAIN t : Len(s) + m \in DOMAIN g
  BY <1>3
<1> QED BY <1>3, <1>4, <1>5 DEF s, t, g

LEMMA ChangeParts ==
  ASSUME NEW x, NEW d
  PROVE  /\ Change(x, TRUE, d).inst = x /\ Change(x, TRUE, d).new
         /\ Change(x, FALSE, d).inst = x /\ ~Change(x, FALSE, d).new
BY Zenon DEF Change

(* What a write whose end is to come gives: its own changes, and what is staged. *)
OwnStage(w, n, c) ==
  \/ w \in Creations /\ n = 1 /\ c.inst = w /\ c.new
  \/ w \in Creations /\ n = 2 /\ c.inst = Shared /\ c = Change(Shared, TRUE, <<>>)
  \/ w \notin Creations /\ n = 1 /\ c.inst = w /\ ~c.new

LEMMA OwnStages ==
  ASSUME NEW w \in Writes, NEW n \in DOMAIN Own(w)
  PROVE  OwnStage(w, n, Own(w)[n])
<1> DEFINE c == Own(w)[n]
<1>1. CASE w \in Creations
  <2>1. CASE n = 1
    <3>1. c = Change(w, TRUE, [result |-> "new"])
      BY <1>1, <2>1, OwnIs
    <3>2. c.inst = w /\ c.new
      BY <3>1, ChangeParts, Zenon
    <3> QED BY <1>1, <2>1, <3>2, Zenon DEF OwnStage
  <2>2. CASE n = 2 /\ c = Change(Shared, TRUE, <<>>)
    <3>1. c.inst = Shared
      BY <2>2, ChangeParts, Zenon
    <3> QED BY <1>1, <2>2, <3>1, Zenon DEF OwnStage
  <2> QED BY <1>1, <2>1, <2>2, OwnIs
<1>2. CASE w \notin Creations
  <2>1. n = 1 /\ c = Change(w, FALSE, [status |-> "done", end |-> "now"])
    BY <1>2, OwnIs
  <2>2. c.inst = w /\ ~c.new
    BY <2>1, ChangeParts, Zenon
  <2> QED BY <1>2, <2>1, <2>2, Zenon DEF OwnStage
<1> QED BY <1>1, <1>2

LEMMA GivenOneCreate ==
  ASSUME Sound, NEW w \in Writes, outcome[w] = "none"
  PROVE  Given(w) \in Seq(Changes) /\ (Recreated(Given(w)) \/ OneCreate(Given(w)))
<1> DEFINE g == Given(w)
<1>1. g \in Seq(Changes)
  BY GivenElements DEF Sound
<1>2. ASSUME NEW n \in DOMAIN g, g[n].inst = Shared, g[n].new
      PROVE  g[n] = Change(Shared, TRUE, <<>>)
  <2>1. CASE n \in DOMAIN Own(w) /\ g[n] = Own(w)[n]
    <3>1. w # Shared
      BY WriteAssumption DEF WriteAssumption
    <3>2. OwnStage(w, n, g[n])
      BY <2>1, OwnStages
    <3> HIDE DEF g
    <3> QED BY <1>2, <3>1, <3>2, Zenon DEF OwnStage
  <2>2. CASE \E m \in DOMAIN staged[w] : g[n] = staged[w][m]
    <3>1. PICK m \in DOMAIN staged[w] : g[n] = staged[w][m]
      BY <2>2
    <3>2. Stages(w, staged[w][m])
      BY <3>1 DEF Sound, StagedOK
    <3> QED BY <1>2, <3>1, <3>2, Zenon DEF Stages
  <2> HIDE DEF g
  <2>3. \/ n \in DOMAIN Own(w) /\ g[n] = Own(w)[n]
        \/ \E m \in DOMAIN staged[w] : g[n] = staged[w][m]
    BY GivenElements DEF Sound, g
  <2> QED BY <2>1, <2>2, <2>3
<1>3. ASSUME NEW n \in DOMAIN g, g[n].new, g[n].inst # Shared
      PROVE  /\ g[n].inst \in Creations
             /\ \/ n = 1 /\ g[n].inst = w
                \/ \E k \in DOMAIN staged[w] : /\ n = Len(Own(w)) + k /\ g[n] = staged[w][k]
                                               /\ outcome[g[n].inst] = "joined"
  <2>1. CASE n \in DOMAIN Own(w) /\ g[n] = Own(w)[n]
    BY <1>3, <2>1, OwnStages, Zenon DEF OwnStage
  <2>2. CASE \E k \in DOMAIN staged[w] : n = Len(Own(w)) + k /\ g[n] = staged[w][k]
    <3>1. PICK k \in DOMAIN staged[w] : n = Len(Own(w)) + k /\ g[n] = staged[w][k]
      BY <2>2
    <3>2. Stages(w, staged[w][k])
      BY <3>1 DEF Sound, StagedOK
    <3> QED BY <1>3, <3>1, <3>2, Zenon DEF Stages
  <2> QED BY <2>1, <2>2, GivenElements DEF Sound
<1>4. ASSUME NEW m \in DOMAIN g, NEW n \in DOMAIN g, g[m].inst = g[n].inst, g[m].new, g[n].new, m # n
      PROVE  g[m].inst = Shared
  <2> SUFFICES ASSUME g[m].inst # Shared PROVE FALSE
    OBVIOUS
  <2>1. CASE g[m].inst = w
    <3>1. m = 1 /\ n = 1
      BY <1>3, <1>4, <2>1
    <3> QED BY <1>4, <3>1
  <2>2. CASE g[m].inst # w
    <3>1. PICK k \in DOMAIN staged[w] : m = Len(Own(w)) + k /\ g[m] = staged[w][k]
      BY <1>3, <1>4, <2>2
    <3>2. PICK l \in DOMAIN staged[w] : n = Len(Own(w)) + l /\ g[n] = staged[w][l]
      BY <1>3, <1>4, <2>2
    <3>3. k = l
      BY <1>3, <1>4, <3>1, <3>2 DEF Sound, StagedOnce
    <3> QED BY <1>4, <3>1, <3>2, <3>3
  <2> QED BY <2>1, <2>2
<1>5. ASSUME ~Recreated(g) PROVE OneCreate(g)
  <2> HIDE DEF g
  <2>1. DOMAIN g = 1..Len(g) /\ Len(g) \in Nat
    BY <1>1
  <2> SUFFICES ASSUME NEW m \in DOMAIN g, NEW n \in DOMAIN g, NEW k \in 1..n,
                      m < n, g[m].new, g[n].new, g[m].inst = g[n].inst, g[k].inst = g[n].inst
               PROVE  g[k] = g[n]
    BY DEF OneCreate
  <2>2. g[k].new /\ k \in DOMAIN g
    BY <1>5, <2>1 DEF Recreated
  <2>3. g[n].inst = Shared /\ g[k].inst = Shared
    <3>1. m # n
      BY <2>1
    <3> QED BY <1>4, <3>1, Zenon
  <2> QED BY <1>2, <2>2, <2>3, Zenon
<1> QED BY <1>1, <1>5

LEMMA MakesGiven ==
  ASSUME WriteTypeOK, NEW w \in Writes, NEW x \in Creations
  PROVE  Makes(Given(w), x) <=> (x = w \/ Makes(staged[w], x))
<1> DEFINE g == Given(w)
           s == staged[w]
<1>1. ASSUME Makes(g, x) PROVE x = w \/ Makes(s, x)
  <2>1. PICK n \in DOMAIN g : g[n].inst = x /\ g[n].new
    BY <1>1 DEF Makes, ToSet
  <2>2. CASE n \in DOMAIN Own(w) /\ g[n] = Own(w)[n]
    <3>1. x # Shared
      <4>1. x \in Writes
        BY DEF Writes
      <4> QED BY <4>1, WriteAssumption DEF WriteAssumption
    <3> QED BY <2>1, <2>2, <3>1, OwnStages, Zenon DEF OwnStage
  <2>3. CASE \E m \in DOMAIN s : g[n] = s[m]
    BY <2>1, <2>3 DEF Makes, ToSet
  <2> QED BY <2>2, <2>3, GivenElements
<1>2. ASSUME Makes(s, x) PROVE Makes(g, x)
  <2>1. PICK m \in DOMAIN s : s[m].inst = x /\ s[m].new
    BY <1>2 DEF Makes, ToSet
  <2>2. Len(Own(w)) + m \in DOMAIN g /\ g[Len(Own(w)) + m] = s[m]
    BY GivenElements
  <2> QED BY <2>1, <2>2 DEF Makes, ToSet
<1>3. ASSUME x = w PROVE Makes(g, x)
  <2>1. 1 \in DOMAIN g /\ g[1] = Own(w)[1] /\ 1 \in DOMAIN Own(w)
    BY <1>3, OwnIs, GivenElements
  <2>2. g[1].inst = w /\ g[1].new
    <3>1. OwnStage(w, 1, g[1])
      BY <2>1, OwnStages
    <3>2. 1 # 2 /\ w \in Creations
      BY <1>3
    <3> QED BY <3>1, <3>2, Zenon DEF OwnStage
  <2> QED BY <1>3, <2>1, <2>2 DEF Makes, ToSet
<1> QED BY <1>1, <1>2, <1>3

LEMMA MakesConcat ==
  ASSUME NEW s \in Seq(Changes), NEW t \in Seq(Changes), NEW x
  PROVE  Makes(s \o t, x) <=> Makes(s, x) \/ Makes(t, x)
<1> DEFINE u == s \o t
<1>1. /\ Len(s) \in Nat /\ Len(t) \in Nat
      /\ DOMAIN s = 1..Len(s) /\ DOMAIN t = 1..Len(t) /\ DOMAIN u = 1..Len(s) + Len(t)
      /\ \A n \in 1..Len(s) : u[n] = s[n]
      /\ \A n \in 1..Len(t) : u[Len(s) + n] = t[n]
  BY ConcatIs
<1> HIDE DEF u
<1>2. ToSet(u) = ToSet(s) \cup ToSet(t)
  <2>1. ASSUME NEW n \in DOMAIN u PROVE u[n] \in ToSet(s) \cup ToSet(t)
    <3>1. CASE n \in 1..Len(s)
      BY <1>1, <3>1 DEF ToSet
    <3>2. CASE n \notin 1..Len(s)
      <4>1. n - Len(s) \in 1..Len(t) /\ n = Len(s) + (n - Len(s))
        BY <1>1, <3>2
      <4> QED BY <1>1, <4>1 DEF ToSet
    <3> QED BY <3>1, <3>2
  <2>2. ToSet(s) \subseteq ToSet(u)
    BY <1>1 DEF ToSet
  <2>3. ASSUME NEW n \in DOMAIN t PROVE t[n] \in ToSet(u)
    <3>1. Len(s) + n \in DOMAIN u
      BY <1>1
    <3> QED BY <1>1, <3>1 DEF ToSet
  <2>4. ToSet(u) \subseteq ToSet(s) \cup ToSet(t)
    BY <2>1 DEF ToSet
  <2>5. ToSet(t) \subseteq ToSet(u)
    BY <2>3 DEF ToSet
  <2> QED BY <2>2, <2>4, <2>5
<1> QED BY <1>2, Zenon DEF Makes, u

(* What an exit sends makes what it was given, and is a sequence of changes. *)
LEMMA MergedMakes ==
  ASSUME Sound, NEW w \in Writes, Once(Merged(Given(w)))
  PROVE  /\ Merged(Given(w)) \in Seq(Changes) /\ LastOfEach(Merged(Given(w)), Given(w))
         /\ \A x \in Creations : Makes(Merged(Given(w)), x) <=> (x = w \/ Makes(staged[w], x))
<1> DEFINE g == Given(w)
           m == Merged(g)
<1>1. g \in Seq(Changes)
  BY GivenElements DEF Sound
<1>2. m \in Seq(Changes) /\ LastOfEach(m, g)
  BY <1>1, MergedLastOfEach
<1>3. ASSUME NEW x \in Creations PROVE Makes(m, x) <=> Makes(g, x)
  <2> HIDE DEF m, g
  <2>1. ASSUME Makes(m, x) PROVE Makes(g, x)
    BY <1>2, <2>1, Zenon DEF LastOfEach, Makes
  <2>2. ASSUME Makes(g, x) PROVE Makes(m, x)
    <3>1. x \in {c.inst : c \in ToSet(g)}
      BY <2>2 DEF Makes
    <3>2. PICK c \in ToSet(m) : c.inst = x
      BY <1>2, <3>1 DEF LastOfEach
    <3>3. c.new <=> Makes(g, c.inst)
      BY <1>2, <3>2, Zenon DEF LastOfEach
    <3> QED BY <2>2, <3>2, <3>3, Zenon DEF Makes
  <2> QED BY <2>1, <2>2
<1> QED BY <1>2, <1>3, MakesGiven DEF Sound

-----------------------------------------------------------------------------
(* Types.                                                                  *)

Entries == [write : Writes, part : Parts, changes : Seq(Changes)]

LEMMA LogType ==
  ASSUME Sound, WriteNext
  PROVE  log' \in Seq(Entries)
<1>1. log \in Seq(Entries)
  BY DEF Sound, WriteTypeOK, Entries
<1>2. ASSUME NEW w \in Writes, NEW part \in Parts, NEW changes \in Seq(Changes), Adds(w, part, changes)
      PROVE  log' \in Seq(Entries)
  <2>1. [write |-> w, part |-> part, changes |-> changes] \in Entries
    BY DEF Entries
  <2> QED BY <1>1, <1>2, <2>1 DEF Adds
<1>3. "entry" \in Parts /\ "exit" \in Parts /\ "error" \in Parts
  BY DEF Parts
<1>4. ASSUME NEW w \in Writes PROVE Merged(Given(w)) \in Seq(Changes)
  <2>1. Given(w) \in Seq(Changes)
    BY GivenElements DEF Sound
  <2> QED BY <2>1, MergedLastOfEach
<1>5. ASSUME NEW w \in Writes PROVE EntryChanges(w) \in Seq(Changes) /\ ErrorChanges(w) \in Seq(Changes)
  BY FixedChanges
<1> QED BY <1>1, <1>2, <1>3, <1>4, <1>5, LogMoves, Zenon

TypeButLog ==
  /\ at \in [Writes -> Ats]
  /\ parent \in [Writes -> Writes \cup {None}]
  /\ saved \in [Writes -> Writes \cup {None}]
  /\ staged \in [Writes -> Seq(Changes)]
  /\ outcome \in [Writes -> Outcomes]
  /\ stack \in [Tasks -> Seq(Writes)]
  /\ pending \in [Tasks -> Writes \cup {None}]
  /\ life \in [Tasks -> [on : {"new", "running", "over"}, of : Writes \cup {None},
                         base : Writes \cup {None}]]
  /\ faults \in Nat

LEMMA EndsType ==
  ASSUME TypeButLog, NEW t \in Tasks, NEW w \in Writes, NEW how \in Outcomes, Ends(t, w, how), stack[t] # <<>>
  PROVE  /\ at' \in [Writes -> Ats] /\ outcome' \in [Writes -> Outcomes]
         /\ stack' \in [Tasks -> Seq(Writes)]
<1>1. stack[t] \in Seq(Writes)
  BY DEF TypeButLog
<1>2. SubSeq(stack[t], 1, Len(stack[t]) - 1) \in Seq(Writes)
  BY <1>1
<1> QED BY <1>2 DEF TypeButLog, Ends, Ats

LEMMA PendType ==
  ASSUME TypeButLog, NEW t \in Tasks, NEW w \in Writes, Pend(t, w)
  PROVE  saved' \in [Writes -> Writes \cup {None}] /\ pending' \in [Tasks -> Writes \cup {None}]
<1>1. pending[t] \in Writes \cup {None} /\ (IF w \in Aparts THEN None ELSE w) \in Writes \cup {None}
  BY DEF TypeButLog
<1> QED BY <1>1 DEF TypeButLog, Pend

LEMMA RefuseType ==
  ASSUME TypeButLog, NEW w, NEW changes, Refuse(w, changes) \/ Fault \/ UNCHANGED faults
  PROVE  faults' \in Nat
BY DEF Refuse, Fault, TypeButLog

LEMMA RestStep ==
  ASSUME Sound, WriteNext
  PROVE  TypeButLog'
<1>0. TypeButLog
  BY DEF Sound, WriteTypeOK, TypeButLog
<1> USE <1>0
<1>n. <<>> \in Seq(Changes)
  OBVIOUS
<1>h. \A how \in {"none", "committed", "joined", "failed", "refused", "interrupted", "plain"} : how \in Outcomes
  BY DEF Outcomes
<1>o. ASSUME NEW t \in Tasks, NEW w \in Writes, OpenCommit(t, w) \/ OpenCreation(t, w) \/ OpenApart(t, w)
      PROVE  TypeButLog'
  <2>1. Append(stack[t], w) \in Seq(Writes)
    BY DEF TypeButLog
  <2>2. stack' \in [Tasks -> Seq(Writes)] /\ at' \in [Writes -> Ats]
    BY <1>o, <2>1 DEF TypeButLog, Open, OpenCommit, OpenCreation, OpenApart, Ats
  <2>3. parent' \in [Writes -> Writes \cup {None}]
    BY <1>o DEF TypeButLog, OpenCommit, OpenCreation, OpenApart, Joins
  <2>4. saved' \in [Writes -> Writes \cup {None}] /\ pending' \in [Tasks -> Writes \cup {None}]
    <3>1. Pend(t, w) \/ UNCHANGED <<saved, pending>>
      BY <1>o, Zenon DEF OpenCommit, OpenCreation, OpenApart
    <3> QED BY <3>1, PendType DEF TypeButLog
  <2>5. UNCHANGED <<staged, outcome, life, faults>>
    BY <1>o DEF OpenCommit, OpenCreation, OpenApart
  <2> QED BY <2>2, <2>3, <2>4, <2>5 DEF TypeButLog
<1>e. ASSUME NEW t \in Tasks, NEW w \in Writes, Enter(t, w)
      PROVE  TypeButLog'
  BY <1>e DEF TypeButLog, Enter, Ats
<1>f. ASSUME NEW t \in Tasks, NEW w \in Writes, Fetch(t, w)
      PROVE  TypeButLog'
  <2>1. /\ Pend(t, w) \/ UNCHANGED <<saved, pending>>
        /\ UNCHANGED faults \/ Fault
        /\ at' = [at EXCEPT ![w] = "body"] \/ at' = [at EXCEPT ![w] = "failing"]
        /\ UNCHANGED <<parent, staged, outcome, stack, life>>
    BY <1>f DEF Fetch
  <2> QED BY <2>1, PendType, RefuseType DEF TypeButLog, Ats
<1>r. ASSUME NEW t \in Tasks, NEW w \in Writes, RefuseEntry(t, w)
      PROVE  TypeButLog'
  <2>1. Ends(t, w, "refused") /\ stack[t] # <<>> /\ faults' \in Nat
    BY <1>r, RefuseType DEF RefuseEntry, Runs
  <2> QED BY <1>r, <1>h, <2>1, EndsType DEF RefuseEntry, TypeButLog
<1>x. ASSUME NEW t \in Tasks, NEW w \in Writes, ExitCommit(t, w) \/ WriteError(t, w)
      PROVE  TypeButLog'
  <2>1. /\ Ends(t, w, "committed") \/ Ends(t, w, "failed") 
        /\ stack[t] # <<>> /\ faults' \in Nat
    BY <1>x, RefuseType DEF ExitCommit, WriteError, Runs
  <2> QED BY <1>x, <1>h, <2>1, EndsType DEF ExitCommit, WriteError, TypeButLog
<1>y. ASSUME NEW t \in Tasks, NEW w \in Writes, RefuseExit(t, w)
      PROVE  TypeButLog'
  <2>1. faults' \in Nat
    BY <1>y, RefuseType DEF RefuseExit
  <2> QED BY <1>y, <1>n, <2>1 DEF RefuseExit, TypeButLog, Ats
<1>c. ASSUME NEW t \in Tasks, NEW w \in Writes, CreateAlone(t, w) \/ RefuseCreation(t, w)
      PROVE  TypeButLog'
  <2>1. /\ Ends(t, w, "committed") \/ Ends(t, w, "refused")
        /\ stack[t] # <<>> /\ faults' \in Nat
    BY <1>c, RefuseType DEF CreateAlone, RefuseCreation, Runs
  <2>2. staged' = [staged EXCEPT ![w] = <<>>]
    BY <1>c DEF CreateAlone, RefuseCreation
  <2> QED BY <1>c, <1>h, <1>n, <2>1, <2>2, EndsType DEF CreateAlone, RefuseCreation, TypeButLog
<1>j. ASSUME NEW t \in Tasks, NEW w \in Writes, Join(t, w)
      PROVE  TypeButLog'
  <2>1. Ends(t, w, "joined") /\ stack[t] # <<>>
    BY <1>j DEF Join, Runs
  <2>2. parent[w] \in Writes /\ staged[parent[w]] \in Seq(Changes)
    BY <1>j DEF Join, TypeButLog
  <2>3. Given(w) \in Seq(Changes)
    BY GivenElements DEF Sound
  <2>4. staged[parent[w]] \o Given(w) \in Seq(Changes)
    BY <2>2, <2>3
  <2>5. staged' = [staged EXCEPT ![parent[w]] = staged[parent[w]] \o Given(w), ![w] = <<>>]
    BY <1>j DEF Join
  <2>6. staged' \in [Writes -> Seq(Changes)]
    <3> DEFINE g == staged[parent[w]] \o Given(w)
    <3> HIDE DEF g
    <3>1. g \in Seq(Changes) /\ staged' = [staged EXCEPT ![parent[w]] = g, ![w] = <<>>]
      BY <2>4, <2>5 DEF g
    <3> QED BY <1>n, <3>1 DEF TypeButLog
  <2> QED BY <1>j, <1>h, <2>1, <2>6, EndsType DEF Join, TypeButLog
<1>l. ASSUME NEW t \in Tasks, NEW w \in Writes, NEW how, Leave(t, w, how)
      PROVE  TypeButLog'
  <2>1. /\ saved' \in [Writes -> Writes \cup {None}] /\ pending' \in [Tasks -> Writes \cup {None}]
        /\ UNCHANGED <<parent, life, faults>> /\ stack[t] # <<>>
    <3>1. saved[w] \in Writes \cup {None}
      BY DEF TypeButLog
    <3>2. /\ saved' = [saved EXCEPT ![w] = None] /\ pending' = [pending EXCEPT ![t] = saved[w]]
          /\ UNCHANGED <<parent, life, faults>> /\ stack[t] # <<>>
      BY <1>l DEF Leave, Restored, Runs
    <3> QED BY <3>1, <3>2 DEF TypeButLog
  <2>2. staged' \in [Writes -> Seq(Changes)]
    BY <1>l, <1>n DEF TypeButLog, Leave
  <2>3. \/ /\ at' = [at EXCEPT ![w] = "exiting"] \/ at' = [at EXCEPT ![w] = "failing"]
           /\ UNCHANGED <<outcome, stack>>
        \/ Ends(t, w, "interrupted") \/ Ends(t, w, "failed") \/ Ends(t, w, "plain")
    BY <1>l DEF Leave
  <2>4. at' \in [Writes -> Ats] /\ outcome' \in [Writes -> Outcomes] /\ stack' \in [Tasks -> Seq(Writes)]
    <3>1. CASE Ends(t, w, "interrupted") \/ Ends(t, w, "failed") \/ Ends(t, w, "plain")
      BY <1>h, <2>1, <3>1, EndsType
    <3> QED BY <2>3, <3>1 DEF TypeButLog, Ats
  <2> QED BY <2>1, <2>2, <2>4 DEF TypeButLog
<1>u. ASSUME NEW t \in Tasks, NEW w \in Writes, NEW x \in Writes \cup {Shared}, NEW p \in {"status", "result"}, Update(t, w, x, p)
      PROVE  TypeButLog'
  <2>1. Change(x, FALSE, [q \in {p} |-> "set"]) \in Changes
    BY FixedChanges
  <2> DEFINE c == Change(x, FALSE, [q \in {p} |-> "set"])
  <2>3. staged' = [staged EXCEPT ![w] = Append(@, c)]
    BY <1>u DEF Update
  <2> HIDE DEF c
  <2>2. Append(staged[w], c) \in Seq(Changes)
    <3>1. staged[w] \in Seq(Changes)
      BY DEF TypeButLog
    <3> QED BY <2>1, <3>1, AppendIs DEF c
  <2>4. staged' \in [Writes -> Seq(Changes)]
    BY <2>2, <2>3 DEF TypeButLog
  <2> QED BY <1>u, <2>4 DEF Update, TypeButLog
<1>s. ASSUME NEW t \in Tasks, NEW u \in Tasks, Spawn(t, u)
      PROVE  TypeButLog'
  <2>1. Top(t) \in Writes
    BY <1>s, TopIs DEF Spawn, Sound
  <2>2. [on |-> "running", of |-> Top(t), base |-> pending[t]]
           \in [on : {"new", "running", "over"}, of : Writes \cup {None}, base : Writes \cup {None}]
    BY <2>1 DEF TypeButLog
  <2> QED BY <1>s, <2>2 DEF Spawn, TypeButLog
<1>d. ASSUME NEW t \in Tasks, Finish(t)
      PROVE  TypeButLog'
  BY <1>d DEF Finish, TypeButLog
<1> QED BY <1>o, <1>e, <1>f, <1>r, <1>x, <1>y, <1>c, <1>j, <1>l, <1>u, <1>s, <1>d, Zenon DEF WriteNext, Ongoing

LEMMA WriteTypeStep ==
  ASSUME Sound, WriteNext
  PROVE  WriteTypeOK'
BY LogType, RestStep DEF WriteTypeOK, TypeButLog, Entries

-----------------------------------------------------------------------------
(* Which writes the state may name.                                        *)

(* The stacks grow by a write that opens and shrink at the top. *)
LEMMA StackMoves ==
  ASSUME WriteTypeOK, WriteNext
  PROVE  \/ stack' = stack
         \/ \E t \in Tasks, w \in Writes : stack' = [stack EXCEPT ![t] = Append(@, w)] /\ Opens(w)
         \/ \E t \in Tasks : stack[t] # <<>> /\ stack' = [stack EXCEPT ![t] = SubSeq(@, 1, Len(@) - 1)]
<1>1. ASSUME NEW t \in Tasks, NEW w \in Writes, OpenCommit(t, w) \/ OpenCreation(t, w) \/ OpenApart(t, w)
      PROVE  stack' = [stack EXCEPT ![t] = Append(@, w)] /\ Opens(w)
  BY <1>1 DEF OpenCommit, OpenCreation, OpenApart, Open, Opened, Opens, WriteTypeOK
<1>2. ASSUME NEW t \in Tasks, NEW w \in Writes, NEW how, Leave(t, w, how)
      PROVE  stack' = stack \/ (stack[t] # <<>> /\ stack' = [stack EXCEPT ![t] = SubSeq(@, 1, Len(@) - 1)])
  BY <1>2 DEF Leave, Ends, Runs
<1>3. ASSUME NEW t \in Tasks, NEW w \in Writes, Ongoing(t, w)
      PROVE  stack' = stack \/ (stack[t] # <<>> /\ stack' = [stack EXCEPT ![t] = SubSeq(@, 1, Len(@) - 1)])
  BY <1>3 DEF Ongoing, Enter, RefuseEntry, Fetch, ExitCommit, RefuseExit, WriteError, CreateAlone,
              RefuseCreation, Join, Ends, Runs
<1>4. ASSUME NEW t \in Tasks, NEW u \in Tasks, Finish(t) \/ Spawn(t, u)
      PROVE  stack' = stack
  BY <1>4 DEF Finish, Spawn
<1>5. ASSUME NEW t \in Tasks, NEW w \in Writes, NEW x, NEW p, Update(t, w, x, p)
      PROVE  stack' = stack
  BY <1>5 DEF Update
<1> QED BY <1>1, <1>2, <1>3, <1>4, <1>5, Zenon DEF WriteNext

LEMMA StackKnown ==
  ASSUME Sound, WriteNext
  PROVE  \A u \in Tasks : \A n \in DOMAIN stack'[u] : Opens(stack'[u][n])
<1>1. WriteTypeOK /\ Known
  BY DEF Sound
<1>2. \A w \in Writes : Opened(w) => Opens(w)
  BY <1>1, StateMoves
<1>3. \A u \in Tasks : stack[u] \in Seq(Writes) /\ \A n \in DOMAIN stack[u] : Opened(stack[u][n])
  BY <1>1 DEF WriteTypeOK, Known
<1>4. CASE stack' = stack
  BY <1>2, <1>3, <1>4
<1>5. ASSUME NEW t \in Tasks, NEW w \in Writes, Opens(w), stack' = [stack EXCEPT ![t] = Append(@, w)],
             NEW u \in Tasks, NEW n \in DOMAIN stack'[u]
      PROVE  Opens(stack'[u][n])
  <2>1. stack'[u] = IF u = t THEN Append(stack[t], w) ELSE stack[u]
    BY <1>1, <1>5 DEF WriteTypeOK
  <2>2. stack'[u][n] = w \/ (n \in DOMAIN stack[u] /\ stack'[u][n] = stack[u][n])
    BY <1>3, <1>5, <2>1
  <2> QED BY <1>2, <1>3, <1>5, <2>2
<1>6. ASSUME NEW t \in Tasks, stack[t] # <<>>, stack' = [stack EXCEPT ![t] = SubSeq(@, 1, Len(@) - 1)],
             NEW u \in Tasks, NEW n \in DOMAIN stack'[u]
      PROVE  Opens(stack'[u][n])
  <2>1. stack'[u] = IF u = t THEN SubSeq(stack[t], 1, Len(stack[t]) - 1) ELSE stack[u]
    BY <1>1, <1>6 DEF WriteTypeOK
  <2>2. n \in DOMAIN stack[u] /\ stack'[u][n] = stack[u][n]
    BY <1>1, <1>3, <1>6, <2>1, TopIs
  <2> QED BY <1>2, <1>3, <2>2
<1> QED BY <1>1, <1>4, <1>5, <1>6, StackMoves

(* Where pending, saved and parent get their values from. *)
LEMMA ContextMoves ==
  ASSUME WriteTypeOK, Known, WriteNext
  PROVE  /\ \A u \in Tasks : \/ pending'[u] = None \/ \E t \in Tasks : pending'[u] = pending[t]
                             \/ \E w \in Writes : pending'[u] = saved[w] \/ (pending'[u] = w /\ Opens(w))
         /\ \A v \in Writes : \/ saved'[v] = None \/ saved'[v] = saved[v]
                              \/ \E t \in Tasks : saved'[v] = pending[t]
         /\ \A v \in Writes : \/ parent'[v] = parent[v]
                              \/ Opens(v) /\ (parent'[v] # None => 
                                   SameStore(parent'[v], v) /\ \E t \in Tasks : parent'[v] = pending[t])
<1> DEFINE P(u) == \/ pending'[u] = None \/ \E t \in Tasks : pending'[u] = pending[t]
                   \/ \E w \in Writes : pending'[u] = saved[w] \/ (pending'[u] = w /\ Opens(w))
           S(v) == \/ saved'[v] = None \/ saved'[v] = saved[v]
                   \/ \E t \in Tasks : saved'[v] = pending[t]
           R(v) == \/ parent'[v] = parent[v]
                   \/ Opens(v) /\ (parent'[v] # None => 
                         SameStore(parent'[v], v) /\ \E t \in Tasks : parent'[v] = pending[t])
           All == (\A u \in Tasks : P(u)) /\ (\A v \in Writes : S(v) /\ R(v))
<1>p. ASSUME NEW t \in Tasks, NEW w \in Writes, Pend(t, w), Opens(w)
      PROVE  (\A u \in Tasks : P(u)) /\ (\A v \in Writes : S(v))
  BY <1>p DEF Pend, WriteTypeOK
<1>0. ASSUME UNCHANGED <<pending, saved>>
      PROVE  (\A u \in Tasks : P(u)) /\ (\A v \in Writes : S(v))
  BY <1>0
<1>q. ASSUME parent' = parent PROVE \A v \in Writes : R(v)
  BY <1>q
<1>1. ASSUME NEW t \in Tasks, NEW w \in Writes, OpenCommit(t, w) PROVE All
  <2>1. UNCHANGED <<pending, saved, parent>>
    BY <1>1 DEF OpenCommit
  <2> HIDE DEF P, S, R
  <2> QED BY <1>0, <1>q, <2>1
<1>2. ASSUME NEW t \in Tasks, NEW w \in Writes, OpenCreation(t, w) PROVE All
  <2>1. Pend(t, w) /\ parent' = [parent EXCEPT ![w] = Joins(t, w)] /\ Opens(w)
    BY <1>2 DEF OpenCreation, Opened, Opens, WriteTypeOK
  <2>2. ASSUME NEW v \in Writes PROVE R(v)
    BY <2>1 DEF Joins, WriteTypeOK
  <2> HIDE DEF P, S, R
  <2> QED BY <1>p, <2>1, <2>2
<1>3. ASSUME NEW t \in Tasks, NEW w \in Writes, OpenApart(t, w) PROVE All
  <2>1. Pend(t, w) /\ parent' = parent /\ Opens(w)
    BY <1>3 DEF OpenApart, Opened, Opens, WriteTypeOK
  <2> HIDE DEF P, S, R
  <2> QED BY <1>p, <1>q, <2>1
<1>4. ASSUME NEW t \in Tasks, NEW w \in Writes, NEW how, Leave(t, w, how) PROVE All
  <2>1. /\ saved' = [saved EXCEPT ![w] = None] /\ pending' = [pending EXCEPT ![t] = saved[w]]
        /\ parent' = parent
    BY <1>4 DEF Leave, Restored
  <2>2. ASSUME NEW u \in Tasks PROVE P(u)
    <3>1. pending'[u] = saved[w] \/ pending'[u] = pending[u]
      BY <2>1 DEF WriteTypeOK
    <3> QED BY <3>1
  <2>3. ASSUME NEW v \in Writes PROVE S(v)
    BY <2>1 DEF WriteTypeOK
  <2> HIDE DEF P, S, R
  <2> QED BY <1>q, <2>1, <2>2, <2>3
<1>5. ASSUME NEW t \in Tasks, NEW w \in Writes, Fetch(t, w) PROVE All
  <2>1. /\ parent' = parent /\ Opens(w)
        /\ Pend(t, w) \/ UNCHANGED <<pending, saved>>
    BY <1>5 DEF Fetch, Opened, Opens, WriteTypeOK
  <2> HIDE DEF P, S, R
  <2> QED BY <1>p, <1>0, <1>q, <2>1
<1>6. ASSUME NEW t \in Tasks, NEW w \in Writes, Ongoing(t, w), ~Fetch(t, w) PROVE All
  <2>1. UNCHANGED <<pending, saved, parent>>
    BY <1>6 DEF Ongoing, Enter, RefuseEntry, ExitCommit, RefuseExit, WriteError, CreateAlone,
              RefuseCreation, Join
  <2> HIDE DEF P, S, R
  <2> QED BY <1>0, <1>q, <2>1
<1>7. ASSUME NEW t \in Tasks, NEW u \in Tasks, Finish(t) \/ Spawn(t, u) PROVE All
  <2>1. UNCHANGED <<saved, parent>> /\ (pending' = pending \/ pending' = [pending EXCEPT ![u] = pending[t]])
    BY <1>7 DEF Finish, Spawn
  <2> QED BY <2>1 DEF WriteTypeOK
<1>8. ASSUME NEW t \in Tasks, NEW w \in Writes, NEW x, NEW p, Update(t, w, x, p) PROVE All
  <2>1. UNCHANGED <<pending, saved, parent>>
    BY <1>8 DEF Update
  <2> HIDE DEF P, S, R
  <2> QED BY <1>0, <1>q, <2>1
<1>9. All
  <2> HIDE DEF All
  <2> QED BY <1>1, <1>2, <1>3, <1>4, <1>5, <1>6, <1>7, <1>8, Zenon DEF WriteNext
<1> QED BY <1>9

LEMMA OverMoves ==
  ASSUME WriteTypeOK, Known, WriteNext, NEW v \in Writes
  PROVE  at'[v] = "over" <=> outcome'[v] # "none"
<1>0. at[v] = "over" <=> outcome[v] # "none"
  BY DEF Known
<1>1. ASSUME NEW t \in Tasks, NEW w \in Writes, NEW how, Ends(t, w, how), how # "none"
      PROVE  at'[v] = "over" <=> outcome'[v] # "none"
  BY <1>0, <1>1, EndsIs
<1>2. ASSUME NEW w \in Writes, NEW a, a # "over", at' = [at EXCEPT ![w] = a], outcome' = outcome, at[w] # "over"
      PROVE  at'[v] = "over" <=> outcome'[v] # "none"
  BY <1>0, <1>2 DEF WriteTypeOK
<1>3. ASSUME UNCHANGED <<at, outcome>>
      PROVE  at'[v] = "over" <=> outcome'[v] # "none"
  BY <1>0, <1>3
<1>4. \/ UNCHANGED <<at, outcome>>
      \/ \E t \in Tasks, w \in Writes, how \in Outcomes \ {"none"} : Ends(t, w, how)
      \/ \E w \in Writes, a \in Ats \ {"over"} : at' = [at EXCEPT ![w] = a] /\ outcome' = outcome /\ at[w] # "over"
  <2> DEFINE G == \/ UNCHANGED <<at, outcome>>
                  \/ \E t \in Tasks, w \in Writes, how \in Outcomes \ {"none"} : Ends(t, w, how)
                  \/ \E w \in Writes, a \in Ats \ {"over"} : at' = [at EXCEPT ![w] = a] /\ outcome' = outcome /\ at[w] # "over"
  <2>1. ASSUME NEW t \in Tasks, NEW w \in Writes, OpenCommit(t, w) \/ OpenCreation(t, w) \/ OpenApart(t, w)
        PROVE  G
    BY <2>1 DEF OpenCommit, OpenCreation, OpenApart, Open, Ats
  <2>2. ASSUME NEW t \in Tasks, NEW w \in Writes, NEW how, Leave(t, w, how)
        PROVE  G
    BY <2>2 DEF Leave, Ats, Outcomes
  <2>3. ASSUME NEW t \in Tasks, NEW w \in Writes, Enter(t, w) \/ Fetch(t, w) \/ RefuseExit(t, w)
        PROVE  G
    BY <2>3 DEF Enter, Fetch, RefuseExit, Ats
  <2>4. ASSUME NEW t \in Tasks, NEW w \in Writes,
               RefuseEntry(t, w) \/ ExitCommit(t, w) \/ WriteError(t, w) \/ CreateAlone(t, w) \/ RefuseCreation(t, w) \/ Join(t, w)
        PROVE  G
    BY <2>4 DEF RefuseEntry, ExitCommit, WriteError, CreateAlone, RefuseCreation, Join, Outcomes
  <2>5. ASSUME NEW t \in Tasks, NEW u \in Tasks, Finish(t) \/ Spawn(t, u)
        PROVE  G
    BY <2>5 DEF Finish, Spawn
  <2>6. ASSUME NEW t \in Tasks, NEW w \in Writes, NEW x, NEW p, Update(t, w, x, p)
        PROVE  G
    BY <2>6 DEF Update
  <2>7. G
    <3> HIDE DEF G
    <3> QED BY <2>1, <2>2, <2>3, <2>4, <2>5, <2>6, Zenon DEF WriteNext, Ongoing
  <2> QED BY <2>7
<1> QED BY <1>1, <1>2, <1>3, <1>4

(* What is staged for a write changes after it is opened. *)
LEMMA StagedOpened ==
  ASSUME Sound, WriteNext, NEW v \in Writes, ~Opened(v)
  PROVE  staged'[v] = <<>>
<1>1. staged[v] = <<>> /\ WriteTypeOK
  BY DEF Sound, Known
<1>2. ASSUME NEW t \in Tasks, NEW w \in Writes, NEW x \in Writes \cup {Shared}, NEW p \in {"status", "result"}, Update(t, w, x, p)
      PROVE  staged'[v] = <<>>
  <2>1. PICK n \in DOMAIN stack[t] : stack[t][n] = w
    BY <1>2 DEF Update, ToSet
  <2>2. v # w
    BY <2>1 DEF Sound, Known
  <2> QED BY <1>1, <1>2, <2>2 DEF Update, WriteTypeOK
<1>3. ASSUME NEW t \in Tasks, NEW w \in Writes, Join(t, w)
      PROVE  staged'[v] = <<>>
  <2>1. at[w] = "exiting" /\ Opened(parent[w])
    BY <1>3 DEF Join, Sound, Known
  <2>2. v # w /\ v # parent[w]
    BY <2>1 DEF Opened, Opens
  <2> QED BY <1>1, <1>3, <2>2 DEF Join, WriteTypeOK
<1> QED BY <1>1, <1>2, <1>3, StagedMoves

LEMMA KnownStep ==
  ASSUME Sound, WriteNext
  PROVE  Known'
<1>1. WriteTypeOK /\ Known /\ WriteTypeOK'
  BY WriteTypeStep DEF Sound
<1>2. /\ \A w \in Writes : Opened(w) => Opens(w) /\ parent'[w] = parent[w]
      /\ \A w \in Writes : outcome'[w] = "joined" =>
               outcome[w] = "joined" \/ \E t \in Tasks : Join(t, w)
  BY <1>1, StateMoves
<1>3. /\ \A t \in Tasks : pending[t] # None => pending[t] \in Writes /\ Opened(pending[t])
      /\ \A w \in Writes : saved[w] # None => saved[w] \in Writes /\ Opened(saved[w])
      /\ \A w \in Writes : parent[w] # None => parent[w] \in Writes /\ Opened(parent[w]) /\ SameStore(parent[w], w)
  BY <1>1 DEF WriteTypeOK, Known
<1>4. \A u \in Tasks : pending'[u] # None => Opens(pending'[u])
  BY <1>1, <1>2, <1>3, ContextMoves, Zenon
<1>5. \A v \in Writes : saved'[v] # None => Opens(saved'[v])
  BY <1>1, <1>2, <1>3, ContextMoves, Zenon
<1>6. \A v \in Writes : parent'[v] # None => Opens(parent'[v]) /\ SameStore(parent'[v], v)
  BY <1>1, <1>2, <1>3, ContextMoves, Zenon
<1>7. ASSUME NEW v \in Writes, outcome'[v] = "joined" PROVE parent'[v] # None
  <2>1. parent[v] # None /\ Opened(v)
    BY <1>1, <1>2, <1>7 DEF Known, Join, Opened, Opens
  <2> QED BY <1>2, <2>1
<1>8. ASSUME NEW v \in Writes, ~Opens(v) PROVE parent'[v] = None /\ staged'[v] = <<>>
  <2>1. ~Opened(v) /\ parent[v] = None
    BY <1>1, <1>2, <1>8, Zenon DEF Known
  <2>2. parent'[v] = parent[v]
    BY <1>1, <1>8, ContextMoves, Zenon
  <2> QED BY <2>1, <2>2, StagedOpened
<1>9. \A v \in Writes : at'[v] = "over" <=> outcome'[v] # "none"
  BY <1>1, OverMoves
<1> QED BY <1>4, <1>5, <1>6, <1>7, <1>8, <1>9, StackKnown, Zenon DEF Known, SameStore, Opened, Opens

-----------------------------------------------------------------------------
(* What is staged.                                                         *)

LEMMA WritesApart ==
  /\ Commits \subseteq Writes /\ Creations \subseteq Writes /\ Shared \notin Writes /\ None \notin Writes
  /\ \A x \in Creations : x \notin Commits /\ x # Shared
  /\ \A x \in Commits : x # Shared
BY WriteAssumption DEF WriteAssumption, Writes

LEMMA SameStores ==
  ASSUME NEW u, NEW v, NEW w
  PROVE  /\ SameStore(v, v) /\ (SameStore(u, v) => SameStore(v, u))
         /\ SameStore(u, v) /\ SameStore(v, w) => SameStore(u, w)
BY DEF SameStore

LEMMA JoinIs ==
  ASSUME Sound, WriteNext, NEW t \in Tasks, NEW w \in Writes, Join(t, w)
  PROVE  /\ w \in Creations /\ parent[w] \in Writes /\ parent[w] # w /\ SameStore(parent[w], w)
         /\ outcome[w] = "none" /\ outcome'[w] = "joined" /\ parent' = parent /\ log' = log
         /\ staged' = [staged EXCEPT ![parent[w]] = staged[parent[w]] \o Given(w), ![w] = <<>>]
         /\ staged'[parent[w]] = staged[parent[w]] \o Given(w) /\ staged'[w] = <<>>
         /\ \A v \in Writes : v # w /\ v # parent[w] => staged'[v] = staged[v]
<1>1. /\ w \in Creations /\ parent[w] \in Writes /\ outcome[w] = "none" /\ outcome'[w] = "joined"
      /\ parent' = parent /\ log' = log
      /\ staged' = [staged EXCEPT ![parent[w]] = staged[parent[w]] \o Given(w), ![w] = <<>>]
  BY EndsIs DEF Join, Sound, WriteTypeOK, Known
<1>2. parent[w] # w
  <2>1. PICK rank \in [Writes -> Nat] : Ranks(rank)
    BY DEF Sound, Ranked
  <2>2. rank[parent[w]] < rank[w]
    BY <1>1, <2>1, WritesApart DEF Ranks
  <2> QED BY <2>1, <2>2
<1>3. SameStore(parent[w], w)
  BY <1>1, WritesApart DEF Sound, Known
<1>4. staged \in [Writes -> Seq(Changes)]
  BY DEF Sound, WriteTypeOK
<1> DEFINE g == staged[parent[w]] \o Given(w)
<1>5. staged'[parent[w]] = g /\ staged'[w] = <<>> /\ \A v \in Writes : v # w /\ v # parent[w] => staged'[v] = staged[v]
  <2>1. staged' = [staged EXCEPT ![parent[w]] = g, ![w] = <<>>]
    BY <1>1
  <2> HIDE DEF g
  <2> QED BY <1>1, <1>2, <1>4, <2>1
<1> QED BY <1>1, <1>2, <1>3, <1>5

LEMMA UpdateIs ==
  ASSUME Sound, NEW t \in Tasks, NEW w \in Writes, NEW x \in Writes \cup {Shared}, NEW p \in {"status", "result"},
         Update(t, w, x, p)
  PROVE  /\ w \in Commits /\ (x \in {w, Shared} \/ x \in Creations) /\ Change(x, FALSE, [q \in {p} |-> "set"]) \in Changes
         /\ staged'[w] = Append(staged[w], Change(x, FALSE, [q \in {p} |-> "set"]))
         /\ \A v \in Writes : v # w => staged'[v] = staged[v]
         /\ parent' = parent /\ outcome' = outcome
<1>1. staged \in [Writes -> Seq(Changes)]
  BY DEF Sound, WriteTypeOK
<1> QED BY <1>1, FixedChanges DEF Update

LEMMA StagesStay ==
  ASSUME Sound, WriteNext, NEW v, NEW c, Stages(v, c)
  PROVE  Stages(v, c)'
<1>1. \A w \in Writes : outcome[w] # "none" => outcome'[w] = outcome[w]
  BY StateMoves DEF Sound
<1>2. c.inst \in Creations /\ outcome[c.inst] = "joined" => outcome'[c.inst] = "joined"
  BY <1>1, WritesApart
<1> QED BY <1>2, Zenon DEF Stages, SameStore

(* The elements of what a creation leaves with the write that it joins. *)
LEMMA JoinedElements ==
  ASSUME Sound, WriteNext, NEW t \in Tasks, NEW w \in Writes, Join(t, w),
         NEW n \in DOMAIN staged'[parent[w]]
  PROVE  LET p == parent[w]
             c == staged'[p][n] IN
         \/ n \in DOMAIN staged[p] /\ c = staged[p][n]
         \/ \E k \in DOMAIN Own(w) : n = Len(staged[p]) + k /\ c = Own(w)[k]
         \/ \E m \in DOMAIN staged[w] : n = Len(staged[p]) + Len(Own(w)) + m /\ c = staged[w][m]
<1> DEFINE p == parent[w]
           s == staged[p]
           g == Given(w)
           u == staged'[p]
<1>1. s \in Seq(Changes) /\ g \in Seq(Changes) /\ u = s \o g /\ Own(w) \in Seq(Changes) /\ staged[w] \in Seq(Changes)
  BY JoinIs, GivenElements, OwnIs DEF Sound, WriteTypeOK
<1>g. ASSUME NEW k \in DOMAIN g
      PROVE \/ k \in DOMAIN Own(w) /\ g[k] = Own(w)[k]
            \/ \E m \in DOMAIN staged[w] : k = Len(Own(w)) + m /\ g[k] = staged[w][m]
  BY GivenElements DEF Sound
<1>l. Len(Own(w)) \in Nat /\ DOMAIN staged[w] = 1..Len(staged[w]) /\ Len(staged[w]) \in Nat
  BY <1>1
<1>n. n \in DOMAIN u
  OBVIOUS
<1> HIDE DEF g, u, s
<1>2. /\ Len(s) \in Nat /\ Len(g) \in Nat
      /\ DOMAIN s = 1..Len(s) /\ DOMAIN g = 1..Len(g) /\ DOMAIN u = 1..Len(s) + Len(g)
      /\ \A i \in 1..Len(s) : u[i] = s[i]
      /\ \A i \in 1..Len(g) : u[Len(s) + i] = g[i]
  BY <1>1, ConcatIs
<1>3. CASE n \in 1..Len(s)
  BY <1>2, <1>3 DEF s, u
<1>4. CASE n \notin 1..Len(s)
  <2>1. PICK k \in 1..Len(g) : n = Len(s) + k
    <3>1. n - Len(s) \in 1..Len(g) /\ n = Len(s) + (n - Len(s))
      BY <1>2, <1>4, <1>n
    <3> QED BY <3>1
  <2>2. u[n] = g[k]
    BY <1>2, <2>1
  <2>3. CASE k \in DOMAIN Own(w) /\ g[k] = Own(w)[k]
    BY <2>1, <2>2, <2>3 DEF s, u
  <2>4. ASSUME NEW m \in DOMAIN staged[w], k = Len(Own(w)) + m, g[k] = staged[w][m]
        PROVE  n = Len(staged[p]) + Len(Own(w)) + m /\ staged'[p][n] = staged[w][m]
    <3>1. n = Len(s) + Len(Own(w)) + m
      BY <1>2, <1>l, <2>1, <2>4
    <3> QED BY <2>2, <2>4, <3>1 DEF s, u
  <2> QED BY <1>2, <1>g, <2>1, <2>3, <2>4
<1> QED BY <1>3, <1>4

LEMMA StagedOKStep ==
  ASSUME Sound, WriteNext
  PROVE  StagedOK'
<1>1. /\ \A v \in Writes : \A n \in DOMAIN staged[v] : Stages(v, staged[v][n])
      /\ WriteTypeOK /\ WriteTypeOK'
  BY WriteTypeStep DEF Sound, StagedOK
<1>s. \A v, c : Stages(v, c) => Stages(v, c)'
  BY StagesStay
<1> DEFINE Next(v, c) ==
      /\ c.inst = Shared /\ c.new => c = Change(Shared, TRUE, <<>>)
      /\ c.inst \in Commits => c.inst = v /\ \E p \in {"status", "result"} : c = Change(v, FALSE, [q \in {p} |-> "set"])
      /\ c.inst \in Creations /\ c.new => outcome'[c.inst] = "joined" /\ SameStore(c.inst, v)
      /\ c.new => c.inst \in Creations \cup {Shared}
<1>n. \A v, c : Stages(v, c) => Next(v, c)
  BY <1>s, Zenon DEF Stages, SameStore
<1> HIDE DEF Next
<1>2. ASSUME \A v \in Writes : staged'[v] = staged[v] \/ staged'[v] = <<>>, NEW v \in Writes, NEW n \in DOMAIN staged'[v]
      PROVE  Next(v, staged'[v][n])
  <2>1. n \in DOMAIN staged[v] /\ staged'[v] = staged[v]
    BY <1>2
  <2> QED BY <1>1, <1>n, <2>1
<1>3. ASSUME NEW t \in Tasks, NEW w \in Writes, NEW x \in Writes \cup {Shared}, NEW p \in {"status", "result"}, Update(t, w, x, p),
             NEW v \in Writes, NEW n \in DOMAIN staged'[v]
      PROVE  Next(v, staged'[v][n])
  <2> DEFINE c == Change(x, FALSE, [q \in {p} |-> "set"])
  <2>1. /\ w \in Commits /\ (x \in {w, Shared} \/ x \in Creations) /\ c \in Changes /\ staged'[w] = Append(staged[w], c)
        /\ \A u \in Writes : u # w => staged'[u] = staged[u]
        /\ staged[w] \in Seq(Changes)
    <3>1. staged[w] \in Seq(Changes)
      BY <1>1 DEF WriteTypeOK
    <3> QED BY <1>3, <3>1, UpdateIs, Zenon
  <2>2. c.inst = x /\ ~c.new
    BY ChangeParts, Zenon
  <2>3. Next(w, c)
    BY <2>1, <2>2, WritesApart, Zenon DEF Next
  <2> HIDE DEF c
  <2>4. (v = w /\ staged'[v][n] = c) \/ (n \in DOMAIN staged[v] /\ staged'[v][n] = staged[v][n])
    BY <2>1, AppendIs
  <2> QED BY <1>1, <1>n, <2>3, <2>4
<1>4. ASSUME NEW t \in Tasks, NEW w \in Writes, Join(t, w), NEW v \in Writes, NEW n \in DOMAIN staged'[v]
      PROVE  Next(v, staged'[v][n])
  <2>0. /\ w \in Creations /\ parent[w] \in Writes /\ SameStore(parent[w], w) /\ outcome'[w] = "joined"
        /\ staged'[w] = <<>> /\ \A u \in Writes : u # w /\ u # parent[w] => staged'[u] = staged[u]
    BY <1>4, JoinIs
  <2>1. CASE v # parent[w]
    <3>1. n \in DOMAIN staged[v] /\ staged'[v] = staged[v]
      BY <2>0, <2>1
    <3> QED BY <1>1, <1>n, <3>1
  <2>2. CASE v = parent[w]
    <3> DEFINE c == staged'[v][n]
    <3>1. ASSUME n \in DOMAIN staged[v], c = staged[v][n] PROVE Next(v, c)
      BY <1>1, <1>n, <3>1
    <3>2. ASSUME NEW k \in DOMAIN Own(w), c = Own(w)[k] PROVE Next(v, c)
      <4>1. OwnStage(w, k, c)
        BY <3>2, OwnStages
      <4> HIDE DEF c
      <4>2. SameStore(w, v)
        BY <2>0, <2>2, SameStores
      <4>3. CASE c.inst = w /\ c.new
        BY <2>0, <4>2, <4>3, WritesApart, Zenon DEF Next
      <4>4. CASE c.inst = Shared /\ c = Change(Shared, TRUE, <<>>)
        BY <4>4, WritesApart, Zenon DEF Next
      <4> QED BY <2>0, <4>1, <4>3, <4>4, Zenon DEF OwnStage
    <3>3. ASSUME NEW m \in DOMAIN staged[w], c = staged[w][m] PROVE Next(v, c)
      <4>1. Next(w, c)
        <5>1. Stages(w, staged[w][m])
          BY <1>1
        <5> QED BY <1>n, <3>3, <5>1, Zenon
      <4> HIDE DEF c
      <4>2. SameStore(c.inst, w) => SameStore(c.inst, v)
        BY <2>0, <2>2, SameStores
      <4>3. w \notin Commits
        BY <2>0, WritesApart
      <4>4. c.inst \notin Commits
        BY <2>0, <4>1, <4>3, WritesApart, Zenon DEF Next
      <4> QED BY <4>1, <4>2, <4>4, Zenon DEF Next
    <3> HIDE DEF c
    <3>4. \/ n \in DOMAIN staged[v] /\ c = staged[v][n]
          \/ \E k \in DOMAIN Own(w) : c = Own(w)[k]
          \/ \E m \in DOMAIN staged[w] : c = staged[w][m]
      BY <1>4, <2>2, JoinedElements DEF c
    <3>5. Next(v, c)
      BY <3>1, <3>2, <3>3, <3>4, Zenon
    <3> QED BY <3>5 DEF c
  <2> QED BY <2>1, <2>2
<1>5. \A v \in Writes : \A n \in DOMAIN staged'[v] : Next(v, staged'[v][n])
  BY <1>1, <1>2, <1>3, <1>4, StagedMoves
<1> QED BY <1>5, Zenon DEF StagedOK, Stages, Next, SameStore

-----------------------------------------------------------------------------
(* Each Create is staged in one place, and joined writes form a tree.      *)

(* Where a Create that is staged after a step was staged before it. *)
LEMMA StagedOnceStep ==
  ASSUME Sound, WriteNext
  PROVE  StagedOnce'
<1> DEFINE Create(c) == c.new /\ c.inst \in Creations
           Apart == \A u, v \in Writes : \A m \in DOMAIN staged'[u], n \in DOMAIN staged'[v] :
                      Create(staged'[u][m]) /\ Create(staged'[v][n]) /\ staged'[u][m].inst = staged'[v][n].inst
                         => u = v /\ m = n
<1>1. \A u, v \in Writes : \A m \in DOMAIN staged[u], n \in DOMAIN staged[v] :
        Create(staged[u][m]) /\ Create(staged[v][n]) /\ staged[u][m].inst = staged[v][n].inst => u = v /\ m = n
  BY Zenon DEF Sound, StagedOnce
<1>2. WriteTypeOK
  BY DEF Sound
<1> SUFFICES Apart
  BY Zenon DEF StagedOnce
<1> HIDE DEF Create
<1>3. CASE \A v \in Writes : staged'[v] = staged[v] \/ staged'[v] = <<>>
  <2>1. ASSUME NEW u \in Writes, NEW m \in DOMAIN staged'[u] PROVE m \in DOMAIN staged[u] /\ staged'[u][m] = staged[u][m]
    BY <1>3, <2>1
  <2> QED BY <1>1, <2>1
<1>4. ASSUME NEW t \in Tasks, NEW w \in Writes, NEW x \in Writes \cup {Shared}, NEW p \in {"status", "result"}, Update(t, w, x, p)
      PROVE  Apart
  <2> DEFINE c == Change(x, FALSE, [q \in {p} |-> "set"])
  <2>1. /\ c \in Changes /\ staged'[w] = Append(staged[w], c) /\ staged[w] \in Seq(Changes)
        /\ \A v \in Writes : v # w => staged'[v] = staged[v]
    <3>1. staged[w] \in Seq(Changes)
      BY <1>2 DEF WriteTypeOK
    <3> QED BY <1>4, <3>1, UpdateIs, Zenon
  <2>2. ~Create(c)
    BY ChangeParts, Zenon DEF Create
  <2> HIDE DEF c
  <2>3. ASSUME NEW u \in Writes, NEW m \in DOMAIN staged'[u], Create(staged'[u][m])
        PROVE  m \in DOMAIN staged[u] /\ staged'[u][m] = staged[u][m]
    <3>1. staged'[u][m] = c \/ (m \in DOMAIN staged[u] /\ staged'[u][m] = staged[u][m])
      <4>1. CASE u = w
        BY <2>1, <2>3, <4>1, AppendIs
      <4>2. CASE u # w
        BY <2>1, <2>3, <4>2
      <4> QED BY <4>1, <4>2
    <3> QED BY <2>2, <2>3, <3>1
  <2> QED BY <1>1, <2>3
<1>5. ASSUME NEW t \in Tasks, NEW w \in Writes, Join(t, w)
      PROVE  Apart
  <2> DEFINE p == parent[w]
             Old(u, m) == u # w /\ m \in DOMAIN staged[u] /\ staged'[u][m] = staged[u][m]
             Nested(u, m, k) == u = p /\ m = Len(staged[p]) + Len(Own(w)) + k /\ staged'[u][m] = staged[w][k]
             Self(u, m) == u = p /\ m = Len(staged[p]) + 1 /\ staged'[u][m].inst = w
  <2>0. /\ w \in Creations /\ p \in Writes /\ p # w /\ outcome[w] = "none" /\ staged'[w] = <<>>
        /\ \A v \in Writes : v # w /\ v # p => staged'[v] = staged[v]
    BY <1>5, JoinIs
  <2>l. Len(staged[p]) \in Nat /\ Len(Own(w)) \in Nat /\ DOMAIN staged[w] = 1..Len(staged[w]) /\ Len(staged[w]) \in Nat
    <3>1. staged[p] \in Seq(Changes) /\ staged[w] \in Seq(Changes) /\ Own(w) \in Seq(Changes)
      BY <1>2, <2>0, OwnIs DEF WriteTypeOK
    <3> QED BY <3>1
  <2>1. ASSUME NEW u \in Writes, NEW m \in DOMAIN staged'[u], Create(staged'[u][m])
        PROVE  Old(u, m) \/ Self(u, m) \/ \E k \in DOMAIN staged[w] : Nested(u, m, k)
    <3>0. u # w
      BY <2>0, <2>1
    <3>1. CASE u # p
      BY <2>0, <2>1, <3>0, <3>1
    <3>2. CASE u = p
      <4>1. ASSUME NEW k \in DOMAIN Own(w), m = Len(staged[p]) + k, staged'[p][m] = Own(w)[k]
            PROVE  Self(u, m)
        <5>1. OwnStage(w, k, staged'[u][m]) /\ Create(staged'[u][m])
          BY <2>1, <3>2, <4>1, OwnStages
        <5>2. k = 1 /\ staged'[u][m].inst = w
          BY <2>0, <5>1, WritesApart, Zenon DEF OwnStage, Create
        <5> QED BY <3>2, <4>1, <5>2
      <4> HIDE DEF Self
      <4> QED BY <1>5, <2>1, <3>0, <3>2, <4>1, JoinedElements
    <3> QED BY <3>1, <3>2
  <2>2. ASSUME NEW u \in Writes, NEW m \in DOMAIN staged[u], Create(staged[u][m]) PROVE staged[u][m].inst # w
    <3>1. Stages(u, staged[u][m])
      BY DEF Sound, StagedOK
    <3> QED BY <2>0, <2>2, <3>1, Zenon DEF Stages, Create
  <2>3. ASSUME NEW u \in Writes, NEW m \in DOMAIN staged'[u], Create(staged'[u][m]),
               NEW v \in Writes, NEW n \in DOMAIN staged'[v], Create(staged'[v][n]),
               staged'[u][m].inst = staged'[v][n].inst
        PROVE  u = v /\ m = n
    <3>1. CASE Self(u, m) /\ Self(v, n)
      BY <3>1
    <3>2. ASSUME Old(u, m) \/ \E k \in DOMAIN staged[w] : Nested(u, m, k) PROVE staged'[u][m].inst # w
      BY <2>2, <2>3, <3>2
    <3>3. ASSUME Old(v, n) \/ \E k \in DOMAIN staged[w] : Nested(v, n, k) PROVE staged'[v][n].inst # w
      BY <2>2, <2>3, <3>3
    <3>4. CASE Old(u, m) /\ Old(v, n)
      BY <1>1, <2>3, <3>4
    <3>5. ASSUME Old(u, m), NEW k \in DOMAIN staged[w], Nested(v, n, k) PROVE FALSE
      BY <1>1, <2>3, <3>5
    <3>6. ASSUME Old(v, n), NEW k \in DOMAIN staged[w], Nested(u, m, k) PROVE FALSE
      BY <1>1, <2>3, <3>6
    <3>7. ASSUME NEW k \in DOMAIN staged[w], Nested(u, m, k), NEW l \in DOMAIN staged[w], Nested(v, n, l)
          PROVE  u = v /\ m = n
      <4>1. k = l
        BY <1>1, <2>3, <3>7
      <4> QED BY <3>7, <4>1
    <3>8. Self(u, m) => staged'[u][m].inst = w
      OBVIOUS
    <3>9. Self(v, n) => staged'[v][n].inst = w
      OBVIOUS
    <3>10. Old(u, m) \/ Self(u, m) \/ \E k \in DOMAIN staged[w] : Nested(u, m, k)
      BY <2>1, <2>3
    <3>11. Old(v, n) \/ Self(v, n) \/ \E k \in DOMAIN staged[w] : Nested(v, n, k)
      BY <2>1, <2>3
    <3> HIDE DEF Old, Nested, Self
    <3> QED BY <2>3, <3>1, <3>2, <3>3, <3>4, <3>5, <3>6, <3>7, <3>8, <3>9, <3>10, <3>11, Zenon
  <2> HIDE DEF Create
  <2> QED BY <2>3
<1> HIDE DEF Apart
<1> QED BY <1>2, <1>3, <1>4, <1>5, StagedMoves

LEMMA ParentMoves ==
  ASSUME WriteNext
  PROVE  parent' = parent \/ \E t \in Tasks, w \in Writes : OpenCreation(t, w)
<1>1. ASSUME NEW t \in Tasks, NEW w \in Writes, OpenCommit(t, w) \/ OpenApart(t, w)
      PROVE  parent' = parent
  BY <1>1 DEF OpenCommit, OpenApart
<1>2. ASSUME NEW t \in Tasks, NEW w \in Writes, NEW how, Leave(t, w, how)
      PROVE  parent' = parent
  BY <1>2 DEF Leave
<1>3. ASSUME NEW t \in Tasks, NEW w \in Writes, Ongoing(t, w)
      PROVE  parent' = parent
  BY <1>3 DEF Ongoing, Enter, RefuseEntry, Fetch, ExitCommit, RefuseExit, WriteError, CreateAlone,
              RefuseCreation, Join
<1>4. ASSUME NEW t \in Tasks, NEW u \in Tasks, Finish(t) \/ Spawn(t, u)
      PROVE  parent' = parent
  BY <1>4 DEF Finish, Spawn
<1>5. ASSUME NEW t \in Tasks, NEW w \in Writes, NEW x, NEW p, Update(t, w, x, p)
      PROVE  parent' = parent
  BY <1>5 DEF Update
<1> QED BY <1>1, <1>2, <1>3, <1>4, <1>5, Zenon DEF WriteNext

LEMMA RankedStep ==
  ASSUME Sound, WriteNext
  PROVE  Ranked'
<1>0. WriteTypeOK /\ Known
  BY DEF Sound
<1>1. PICK rank \in [Writes -> Nat] : Ranks(rank)
  BY DEF Sound, Ranked
<1> DEFINE Parents(r) == \A w \in Writes : parent'[w] # None => r[parent'[w]] < r[w]
           Makers(r) == \A v \in Writes : \A x \in Creations : Makes(staged'[v], x) => r[v] < r[x]
<1>2. ASSUME NEW r \in [Writes -> Nat], Parents(r), Makers(r) PROVE Ranked'
  <2>1. Ranks(r)'
    BY <1>2 DEF Ranks, Makes
  <2> QED BY <2>1 DEF Ranked
<1>3. Makers(rank)
  <2>1. ASSUME \A v \in Writes : staged'[v] = staged[v] \/ staged'[v] = <<>> PROVE Makers(rank)
    <3>1. \A x : ~Makes(<<>>, x)
      BY DEF Makes, ToSet
    <3> QED BY <1>1, <2>1, <3>1 DEF Ranks
  <2>2. ASSUME NEW t \in Tasks, NEW w \in Writes, NEW x \in Writes \cup {Shared}, NEW p \in {"status", "result"}, Update(t, w, x, p)
        PROVE  Makers(rank)
    <3> DEFINE c == Change(x, FALSE, [q \in {p} |-> "set"])
    <3>1. /\ c \in Changes /\ staged'[w] = Append(staged[w], c)
          /\ \A v \in Writes : v # w => staged'[v] = staged[v]
      BY <2>2, UpdateIs, Zenon DEF Sound
    <3>2. ~c.new
      BY ChangeParts, Zenon
    <3>3. staged[w] \in Seq(Changes)
      BY <1>0 DEF WriteTypeOK
    <3> HIDE DEF c
    <3>4. \A y : Makes(staged'[w], y) <=> Makes(staged[w], y)
      <4>1. ASSUME NEW y PROVE Makes(Append(staged[w], c), y) <=> Makes(staged[w], y)
        <5>1. Makes(Append(staged[w], c), y) <=> Makes(staged[w], y) \/ (c.inst = y /\ c.new)
          BY <3>1, <3>3, MakesAppend
        <5> QED BY <3>2, <5>1, Zenon
      <4> QED BY <3>1, <4>1
    <3> QED BY <1>1, <3>1, <3>4 DEF Ranks
  <2>3. ASSUME NEW t \in Tasks, NEW w \in Writes, Join(t, w) PROVE Makers(rank)
    <3> DEFINE p == parent[w]
    <3>1. /\ p \in Writes /\ p # w /\ staged'[p] = staged[p] \o Given(w) /\ staged'[w] = <<>>
          /\ \A v \in Writes : v # w /\ v # p => staged'[v] = staged[v]
      BY <2>3, JoinIs
    <3>2. staged[p] \in Seq(Changes) /\ Given(w) \in Seq(Changes)
      BY <1>0, <3>1, GivenElements DEF WriteTypeOK
    <3>3. \A x \in Creations : Makes(staged'[p], x) => Makes(staged[p], x) \/ x = w \/ Makes(staged[w], x)
      BY <1>0, <3>1, <3>2, MakesConcat, MakesGiven
    <3>4. rank[p] < rank[w] /\ rank[p] \in Nat /\ rank[w] \in Nat
      BY <1>1, <3>1, WritesApart DEF Ranks
    <3>5. \A x \in Creations : Makes(staged'[p], x) => rank[p] < rank[x]
      <4>1. ASSUME NEW x \in Creations, Makes(staged[w], x) PROVE rank[p] < rank[x]
        <5>1. rank[w] < rank[x] /\ rank[x] \in Nat
          BY <1>1, <4>1, WritesApart DEF Ranks
        <5> QED BY <3>4, <5>1
      <4> QED BY <1>1, <3>1, <3>3, <3>4, <4>1 DEF Ranks
    <3>6. \A x : ~Makes(staged'[w], x)
      BY <3>1 DEF Makes, ToSet
    <3> QED BY <1>1, <3>1, <3>5, <3>6 DEF Ranks
  <2> HIDE DEF Makers
  <2> QED BY <1>0, <2>1, <2>2, <2>3, StagedMoves
<1>4. CASE parent' = parent
  <2>1. Parents(rank)
    BY <1>1, <1>4 DEF Ranks
  <2> HIDE DEF Parents, Makers
  <2> QED BY <1>2, <1>3, <2>1
<1>5. ASSUME NEW t \in Tasks, NEW w \in Writes, OpenCreation(t, w) PROVE Ranked'
  <2>1. /\ ~Opened(w) /\ w \in Creations /\ parent' = [parent EXCEPT ![w] = Joins(t, w)] /\ staged' = staged
    BY <1>5 DEF OpenCreation, Open, Opened
  <2>2. parent[w] = None /\ staged[w] = <<>>
    BY <1>0, <2>1 DEF Known
  <2>3. \A v \in Writes : parent[v] # w
    BY <1>0, <2>1, WritesApart DEF Known
  <2>4. \A v \in Writes : ~Makes(staged[v], w)
    <3>1. ASSUME NEW v \in Writes, Makes(staged[v], w) PROVE FALSE
      <4>1. PICK n \in DOMAIN staged[v] : staged[v][n].inst = w /\ staged[v][n].new
        BY <3>1 DEF Makes, ToSet
      <4>2. Stages(v, staged[v][n])
        BY DEF Sound, StagedOK
      <4>3. outcome[w] = "joined"
        BY <2>1, <4>1, <4>2, Zenon DEF Stages
      <4> QED BY <1>0, <2>2, <4>3 DEF Known
    <3> QED BY <3>1
  <2>5. /\ Joins(t, w) \in Writes \cup {None}
        /\ Joins(t, w) # None => Joins(t, w) # w
    BY <1>0, <2>1 DEF Joins, WriteTypeOK, Known
  <2> DEFINE p == Joins(t, w)
             r == [rank EXCEPT ![w] = IF p = None THEN 0 ELSE rank[p] + 1]
  <2>6. r \in [Writes -> Nat] /\ \A v \in Writes : v # w => r[v] = rank[v]
    <3>1. (IF p = None THEN 0 ELSE rank[p] + 1) \in Nat
      BY <2>5
    <3> QED BY <3>1
  <2>7. p # None => r[p] < r[w]
    <3>1. p # None => r[w] = rank[p] + 1 /\ r[p] = rank[p] /\ rank[p] \in Nat
      BY <2>5
    <3> QED BY <3>1
  <2>8. ASSUME NEW v \in Writes, parent'[v] # None PROVE r[parent'[v]] < r[v]
    <3> HIDE DEF r, p
    <3>1. CASE v = w
      BY <1>0, <2>1, <2>7, <2>8, <3>1 DEF WriteTypeOK, p
    <3>2. CASE v # w
      <4>1. parent'[v] = parent[v] /\ parent[v] \in Writes /\ parent[v] # w
        BY <1>0, <2>1, <2>3, <2>8, <3>2 DEF WriteTypeOK
      <4> QED BY <1>1, <2>6, <2>8, <3>2, <4>1 DEF Ranks
    <3> QED BY <3>1, <3>2
  <2>9. ASSUME NEW v \in Writes, NEW x \in Creations, Makes(staged'[v], x) PROVE r[v] < r[x]
    <3> HIDE DEF r, p
    <3>1. x # w /\ Makes(staged[v], x)
      BY <2>1, <2>4, <2>9
    <3>2. v # w
      BY <2>2, <3>1 DEF Makes, ToSet
    <3> QED BY <1>1, <2>6, <3>1, <3>2, WritesApart DEF Ranks
  <2> HIDE DEF r, p
  <2> QED BY <1>2, <2>6, <2>8, <2>9
<1> HIDE DEF Parents, Makers
<1> QED BY <1>4, <1>5, ParentMoves

-----------------------------------------------------------------------------
(* What the store admits, and the first theorems.                          *)

LEMMA EntryMakesNothing ==
  ASSUME NEW w
  PROVE  \A x : ~Makes(EntryChanges(w), x) /\ ~Makes(ErrorChanges(w), x)
<1>1. ASSUME NEW d, NEW x, Makes(<<Change(w, FALSE, d)>>, x) PROVE FALSE
  <2>1. PICK c \in ToSet(<<Change(w, FALSE, d)>>) : c.new
    BY <1>1, Zenon DEF Makes
  <2>2. c = Change(w, FALSE, d)
    <3> DEFINE e == Change(w, FALSE, d)
    <3> HIDE DEF e
    <3>1. ToSet(<<e>>) = {e}
      BY DEF ToSet
    <3> QED BY <2>1, <3>1 DEF e
  <2> QED BY <2>1, <2>2, ChangeParts, Zenon
<1> QED BY <1>1, Zenon DEF EntryChanges, ErrorChanges

(* A write that the store admits is the last of the log, the others stay. *)
LEMMA AddsIs ==
  ASSUME WriteTypeOK, NEW w, NEW part, NEW changes, Adds(w, part, changes)
  PROVE  /\ Len(log) + 1 \in DOMAIN log' /\ log'[Len(log) + 1].write = w
         /\ log'[Len(log) + 1].part = part /\ log'[Len(log) + 1].changes = changes
         /\ Len(log) + 1 \notin DOMAIN log
         /\ \A n \in DOMAIN log' : n = Len(log) + 1 \/ (n \in DOMAIN log /\ log'[n] = log[n])
         /\ \A n \in DOMAIN log : n \in DOMAIN log' /\ log'[n] = log[n]
<1> DEFINE e == [write |-> w, part |-> part, changes |-> changes]
<1>1. e.write = w /\ e.part = part /\ e.changes = changes
  OBVIOUS
<1>2. log' = Append(log, e)
  BY DEF Adds
<1>3. log \in Seq([write : Writes, part : Parts, changes : Seq(Changes)])
  BY DEF WriteTypeOK
<1> HIDE DEF e
<1> QED BY <1>1, <1>2, <1>3

LEMMA AdmittedMakes ==
  ASSUME Sound, NEW w \in Writes, at[w] = "exiting", Acceptable(w, Merged(Given(w))),
         w \in Commits \/ (w \in Creations /\ parent[w] = None),
         NEW x \in Creations, Makes(Merged(Given(w)), x)
  PROVE  /\ w = x <=> parent[x] = None
         /\ SameStore(w, x) /\ Opened(x)
         /\ \A n \in DOMAIN log : ~Makes(log[n].changes, x)
<1>0. WriteTypeOK /\ Known /\ StagedOK /\ Logged
  BY DEF Sound
<1>1. outcome[w] = "none"
  BY <1>0 DEF Known
<1>2. x = w \/ Makes(staged[w], x)
  <2>1. Once(Merged(Given(w)))
    BY Zenon DEF Acceptable
  <2> QED BY <2>1, MergedMakes
<1>3. (w = x <=> parent[x] = None) /\ SameStore(w, x) /\ Opened(x)
  <2>1. CASE x = w
    BY <2>1, SameStores, WritesApart DEF Opened
  <2>2. CASE Makes(staged[w], x)
    <3>1. PICK n \in DOMAIN staged[w] : staged[w][n].inst = x /\ staged[w][n].new
      BY <2>2 DEF Makes, ToSet
    <3>2. Stages(w, staged[w][n])
      BY <1>0 DEF StagedOK
    <3>3. outcome[x] = "joined" /\ SameStore(x, w)
      BY <3>1, <3>2, Zenon DEF Stages
    <3>4. parent[x] # None /\ at[x] = "over"
      BY <1>0, <3>3, WritesApart DEF Known
    <3>5. w # x
      BY <3>4
    <3> QED BY <3>3, <3>4, <3>5, SameStores DEF Opened
  <2> QED BY <1>2, <2>1, <2>2
<1>4. ASSUME NEW n \in DOMAIN log, Makes(log[n].changes, x) PROVE FALSE
  <2>1. SameStore(log[n].write, x)
    BY <1>0, <1>4 DEF Logged
  <2>2. SameStore(log[n].write, w)
    BY <1>3, <2>1, SameStores
  <2>3. Held(w, x)
    BY <1>4, <2>2, Zenon DEF Held
  <2>4. PICK c \in ToSet(Merged(Given(w))) : c.inst = x /\ c.new
    BY Zenon DEF Makes
  <2> QED BY <2>3, <2>4, Zenon DEF Acceptable
<1> QED BY <1>3, <1>4

LEMMA LoggedStep ==
  ASSUME Sound, WriteNext
  PROVE  Logged'
<1> DEFINE Fits(n) == \A x \in Creations : Makes(log'[n].changes, x) =>
                        /\ log'[n].write = x <=> parent'[x] = None
                        /\ SameStore(log'[n].write, x)
                        /\ Opens(x)
           Single == \A m, n \in DOMAIN log' : \A x \in Creations :
                        Makes(log'[m].changes, x) /\ Makes(log'[n].changes, x) => m = n
<1>0. WriteTypeOK /\ Known /\ Logged
  BY DEF Sound
<1>1. \A x \in Creations : Opened(x) => Opens(x) /\ parent'[x] = parent[x]
  BY <1>0, StateMoves, WritesApart
<1>2. ASSUME NEW n \in DOMAIN log, log'[n] = log[n] PROVE Fits(n)
  BY <1>0, <1>1, <1>2, Zenon DEF Logged
<1>3. SUFFICES (\A n \in DOMAIN log' : Fits(n)) /\ Single
  BY Zenon DEF Logged, Makes, SameStore, Opened, Opens
<1>4. CASE log' = log
  <2>1. Single
    BY <1>0, <1>4 DEF Logged
  <2> HIDE DEF Fits, Single
  <2> QED BY <1>2, <1>4, <2>1
<1>5. ASSUME NEW w, NEW part, NEW changes, Adds(w, part, changes),
             \A x \in Creations : Makes(changes, x) =>
                /\ w = x <=> parent[x] = None
                /\ SameStore(w, x) /\ Opened(x)
                /\ \A n \in DOMAIN log : ~Makes(log[n].changes, x)
      PROVE  (\A n \in DOMAIN log' : Fits(n)) /\ Single
  <2>1. ASSUME NEW n \in DOMAIN log', n \notin DOMAIN log
        PROVE  log'[n].write = w /\ log'[n].changes = changes /\ n = Len(log) + 1
    BY <1>0, <1>5, <2>1, AddsIs
  <2>2. ASSUME NEW n \in DOMAIN log', n \in DOMAIN log PROVE log'[n] = log[n]
    BY <1>0, <1>5, <2>2, AddsIs
  <2>3. ASSUME NEW n \in DOMAIN log' PROVE Fits(n)
    <3>1. CASE n \notin DOMAIN log
      BY <1>1, <1>5, <2>1, <3>1, Zenon
    <3> HIDE DEF Fits
    <3> QED BY <1>2, <2>2, <3>1
  <2>4. ASSUME NEW m \in DOMAIN log', NEW n \in DOMAIN log', NEW x \in Creations,
               Makes(log'[m].changes, x), Makes(log'[n].changes, x)
        PROVE  m = n
    <3>1. CASE m \in DOMAIN log /\ n \in DOMAIN log
      BY <1>0, <2>2, <2>4, <3>1 DEF Logged
    <3>2. CASE m \notin DOMAIN log /\ n \notin DOMAIN log
      BY <2>1, <3>2
    <3>3. CASE m \in DOMAIN log /\ n \notin DOMAIN log
      BY <1>5, <2>1, <2>2, <2>4, <3>3
    <3>4. CASE m \notin DOMAIN log /\ n \in DOMAIN log
      BY <1>5, <2>1, <2>2, <2>4, <3>4
    <3> QED BY <3>1, <3>2, <3>3, <3>4
  <2> HIDE DEF Fits
  <2> QED BY <2>3, <2>4
<1>6. ASSUME NEW w \in Writes, Adds(w, "entry", EntryChanges(w)) \/ Adds(w, "error", ErrorChanges(w))
      PROVE  (\A n \in DOMAIN log' : Fits(n)) /\ Single
  <2> HIDE DEF Fits, Single
  <2>1. \A x : ~Makes(EntryChanges(w), x) /\ ~Makes(ErrorChanges(w), x)
    BY EntryMakesNothing
  <2>2. CASE Adds(w, "entry", EntryChanges(w))
    BY <1>5, <2>1, <2>2, Zenon
  <2>3. CASE Adds(w, "error", ErrorChanges(w))
    BY <1>5, <2>1, <2>3, Zenon
  <2> QED BY <1>6, <2>2, <2>3
<1>7. ASSUME NEW w \in Writes, at[w] = "exiting", Adds(w, "exit", Merged(Given(w))),
             Acceptable(w, Merged(Given(w))), w \in Commits \/ (w \in Creations /\ parent[w] = None)
      PROVE  (\A n \in DOMAIN log' : Fits(n)) /\ Single
  <2> HIDE DEF Fits, Single
  <2>1. \A x \in Creations : Makes(Merged(Given(w)), x) =>
                /\ w = x <=> parent[x] = None
                /\ SameStore(w, x) /\ Opened(x)
                /\ \A n \in DOMAIN log : ~Makes(log[n].changes, x)
    BY <1>7, AdmittedMakes, Zenon
  <2> QED BY <1>5, <1>7, <2>1, Zenon
<1> HIDE DEF Fits, Single
<1> QED BY <1>4, <1>6, <1>7, LogMoves, Zenon

LEMMA SoundInit ==
  ASSUME WriteInit
  PROVE  Sound
<1>1. WriteTypeOK
  <2>1. None \in Writes \cup {None} /\ 0 \in Nat /\ MaxFaults \in Nat
    BY WriteAssumption DEF WriteAssumption
  <2>2. \A t \in Tasks : life[t] \in [on : {"new", "running", "over"}, of : Writes \cup {None}, base : Writes \cup {None}]
    BY DEF WriteInit, Unborn
  <2>3. life = [t \in Tasks |-> life[t]] /\ log \in Seq([write : Writes, part : Parts, changes : Seq(Changes)])
    BY DEF WriteInit
  <2> QED BY <2>1, <2>2, <2>3 DEF WriteInit, WriteTypeOK, Ats, Outcomes
<1>2. Known
  BY DEF WriteInit, Known, Opened
<1>3. StagedOK /\ StagedOnce
  BY DEF WriteInit, StagedOK, StagedOnce
<1>4. Ranked
  <2>1. \A v \in Writes : \A x : ~Makes(staged[v], x)
    BY DEF WriteInit, Makes, ToSet
  <2>2. [w \in Writes |-> 0] \in [Writes -> Nat]
    OBVIOUS
  <2>3. Ranks([w \in Writes |-> 0])
    BY <2>1, WritesApart DEF WriteInit, Ranks
  <2> QED BY <2>2, <2>3 DEF Ranked
<1>5. Logged
  BY DEF WriteInit, Logged
<1> QED BY <1>1, <1>2, <1>3, <1>4, <1>5 DEF Sound

LEMMA SoundStep ==
  ASSUME Sound, [WriteNext]_writeVars
  PROVE  Sound'
<1>1. CASE WriteNext
  BY <1>1, WriteTypeStep, KnownStep, StagedOKStep, StagedOnceStep, RankedStep, LoggedStep DEF Sound
<1>2. CASE UNCHANGED writeVars
  <2>1. WriteTypeOK'
    BY <1>2, Zenon DEF Sound, WriteTypeOK, writeVars
  <2>2. Known'
    BY <1>2 DEF Sound, Known, Opened, writeVars
  <2>3. StagedOK'
    BY <1>2 DEF Sound, StagedOK, Stages, writeVars
  <2>4. StagedOnce'
    BY <1>2 DEF Sound, StagedOnce, writeVars
  <2>5. Ranked'
    BY <1>2 DEF Sound, Ranked, Ranks, Makes, writeVars
  <2>6. Logged'
    BY <1>2 DEF Sound, Logged, Opened, Makes, writeVars
  <2> QED BY <2>1, <2>2, <2>3, <2>4, <2>5, <2>6 DEF Sound
<1> QED BY <1>1, <1>2

(* Through every nesting of bodies, tasks, refusals and faults the stacks, *)
(* the context variable and the staged changes stay consistent: what is    *)
(* named is open, each Create waits in one place, nothing joins in a       *)
(* circle, and the log holds each creation once.                           *)
THEOREM WriteSound == WriteSpec => []Sound
<1>1. WriteInit => Sound
  BY SoundInit
<1>2. Sound /\ [WriteNext]_writeVars => Sound'
  BY SoundStep
<1> QED BY <1>1, <1>2, PTL DEF WriteSpec

(* Every variable of the general write keeps its type, also what is merged *)
(* and handed to the store at an exit.                                     *)
THEOREM WriteType == WriteSpec => []WriteTypeOK
<1>1. Sound => WriteTypeOK
  BY DEF Sound
<1> QED BY <1>1, WriteSound, PTL

(* _one_change_per_instance, over everything that bodies and nested        *)
(* creations stage: whatever their number and order, an exit that can be   *)
(* admitted sends each instance once, with the value that was set last of  *)
(* each property, and a Create wherever there is one among its changes;    *)
(* only an instance that was changed and then created again is sent twice. *)
THEOREM ExitSendsLastOfEach == WriteSpec => []SendsLastOfEach
<1>1. ASSUME Sound PROVE SendsLastOfEach
  <2>1. ASSUME NEW w \in Writes, at[w] = "exiting"
        PROVE  IF Once(Merged(Given(w))) THEN LastOfEach(Merged(Given(w)), Given(w))
                                         ELSE Recreated(Given(w))
    <3>1. outcome[w] = "none"
      BY <1>1, <2>1 DEF Sound, Known
    <3>2. CASE Once(Merged(Given(w)))
      BY <1>1, <3>2, MergedMakes
    <3>3. ASSUME ~Once(Merged(Given(w))), ~Recreated(Given(w)) PROVE FALSE
      <4>1. Given(w) \in Seq(Changes) /\ OneCreate(Given(w))
        BY <1>1, <3>1, <3>3, GivenOneCreate
      <4>2. LastOfEach(Merged(Given(w)), Given(w))
        BY <4>1, MergedLastOfEach
      <4> QED BY <3>3, <4>2 DEF LastOfEach
    <3> QED BY <3>2, <3>3
  <2> QED BY <2>1 DEF SendsLastOfEach
<1> QED BY <1>1, WriteSound, PTL

(* A creation is written at most once, into its own store, and by its own  *)
(* commit exactly when it found no pending write at its entry: the parent  *)
(* of _become_pending decides, whatever the tasks do afterwards.           *)
THEOREM CreationAloneOrJoined == WriteSpec => []AloneOrJoined
<1>1. ASSUME Sound PROVE AloneOrJoined
  <2>1. ASSUME NEW w \in Creations, NEW n \in Made(w)
        PROVE  /\ Cardinality(Made(w)) = 1
               /\ log[n].write = w <=> parent[w] = None
               /\ SameStore(log[n].write, w)
    <3>1. n \in DOMAIN log /\ Makes(log[n].changes, w)
      BY <2>1 DEF Made
    <3>2. Made(w) = {n}
      BY <1>1, <2>1, <3>1 DEF Made, Sound, Logged
    <3> QED BY <1>1, <3>1, <3>2, FS_Singleton DEF Sound, Logged
  <2> QED BY <2>1 DEF AloneOrJoined
<1> QED BY <1>1, WriteSound, PTL

-----------------------------------------------------------------------------
(* The exit of a commit is sent whole or not at all.                       *)

(* The values that a property of x has in what is sent. *)
Sent(changes, x, p) == {c.data[p] : c \in {d \in ToSet(changes) : d.inst = x /\ p \in DOMAIN d.data}}

LEMMA SentIsSetLast ==
  ASSUME NEW sent \in Seq(Changes), NEW given, LastOfEach(sent, given), NEW x, NEW p \in Props
  PROVE  Sent(sent, x, p) = {v \in Values : SetLast(given, x, p, v)}
<1>1. ASSUME NEW c \in ToSet(sent)
      PROVE  /\ \A v \in Values : (p \in DOMAIN c.data /\ c.data[p] = v) <=> SetLast(given, c.inst, p, v)
             /\ p \in DOMAIN c.data => c.data[p] \in Values
  <2>1. c \in Changes
    BY DEF ToSet
  <2>2. c.data \in Datas
    BY <2>1, ChangeFields
  <2> QED BY <2>2, DataIs DEF LastOfEach
<1>2. ASSUME NEW c \in ToSet(sent), c.inst = x, p \in DOMAIN c.data
      PROVE  c.data[p] \in {v \in Values : SetLast(given, x, p, v)}
  BY <1>1, <1>2
<1>3. ASSUME NEW v \in Values, SetLast(given, x, p, v)
      PROVE  \E c \in ToSet(sent) : c.inst = x /\ p \in DOMAIN c.data /\ c.data[p] = v
  <2>1. x \in {c.inst : c \in ToSet(given)}
    BY <1>3 DEF SetLast, ToSet
  <2>2. PICK c \in ToSet(sent) : c.inst = x
    BY <2>1 DEF LastOfEach
  <2> QED BY <1>1, <1>3, <2>2
<1> QED BY <1>2, <1>3 DEF Sent

(* What is given about a commit's own instance. *)
ExitChange(w) == Change(w, FALSE, [status |-> "done", end |-> "now"])
BodyChange(w, p) == Change(w, FALSE, [q \in {p} |-> "set"])

LEMMA GivenOfCommit ==
  ASSUME Sound, NEW w \in Commits
  PROVE  LET g == Given(w) IN
         /\ \A n \in DOMAIN g : g[n].inst = w =>
              \/ n = 1 /\ g[n] = ExitChange(w) /\ ~Overlap(w)
              \/ g[n] = BodyChange(w, "result")
              \/ g[n] = BodyChange(w, "status") /\ Overlap(w)
         /\ Overlap(w) => \E n \in DOMAIN g : g[n] = BodyChange(w, "status")
         /\ ~Overlap(w) => 1 \in DOMAIN g /\ g[1] = ExitChange(w)
<1> DEFINE g == Given(w)
<1>1. w \in Writes /\ w \notin Creations /\ WriteTypeOK
  BY WritesApart DEF Sound
<1>2. ToSet(ExitChanges(w)) = {ExitChange(w)}
  <2> DEFINE e == Change(w, FALSE, [status |-> "done", end |-> "now"])
  <2>1. ExitChanges(w) = <<e>> /\ ExitChange(w) = e
    BY DEF ExitChanges, ExitChange
  <2> HIDE DEF e
  <2>2. ToSet(<<e>>) = {e}
    BY DEF ToSet
  <2> QED BY <2>1, <2>2
<1>3. /\ ExitChange(w).inst = w /\ DOMAIN ExitChange(w).data = {"status", "end"}
      /\ \A p : BodyChange(w, p).inst = w /\ DOMAIN BodyChange(w, p).data = {p}
  BY DEF ExitChange, BodyChange, Change
<1>4. Overlap(w) <=> \E c \in ToSet(staged[w]) : c.inst = w /\ DOMAIN c.data \cap {"status", "end"} # {}
  <2> HIDE DEF ExitChange
  <2> QED BY <1>2, <1>3 DEF Overlap
<1>5. ASSUME NEW m \in DOMAIN staged[w], staged[w][m].inst = w
      PROVE  staged[w][m] = BodyChange(w, "result") \/ (staged[w][m] = BodyChange(w, "status") /\ Overlap(w))
  <2>1. Stages(w, staged[w][m])
    BY <1>1 DEF Sound, StagedOK
  <2>2. \E p \in {"status", "result"} : staged[w][m] = BodyChange(w, p)
    BY <1>5, <2>1, Zenon DEF Stages, BodyChange
  <2>3. CASE staged[w][m] = BodyChange(w, "status")
    <3>1. staged[w][m] \in ToSet(staged[w]) /\ "status" \in DOMAIN staged[w][m].data
      BY <1>3, <2>3 DEF ToSet
    <3> QED BY <1>4, <1>5, <2>3, <3>1
  <2> QED BY <2>2, <2>3
<1>6. ASSUME NEW k \in DOMAIN Own(w) PROVE k = 1 /\ Own(w)[k] = ExitChange(w) /\ ~Overlap(w)
  BY <1>1, <1>6, OwnIs, Zenon DEF ExitChange
<1>7. ASSUME NEW n \in DOMAIN g, g[n].inst = w
      PROVE  \/ n = 1 /\ g[n] = ExitChange(w) /\ ~Overlap(w)
             \/ g[n] = BodyChange(w, "result")
             \/ g[n] = BodyChange(w, "status") /\ Overlap(w)
  <2>1. \/ n \in DOMAIN Own(w) /\ g[n] = Own(w)[n]
        \/ \E m \in DOMAIN staged[w] : g[n] = staged[w][m]
    BY <1>1, GivenElements
  <2> HIDE DEF g
  <2> QED BY <1>5, <1>6, <1>7, <2>1
<1>8. ASSUME Overlap(w) PROVE \E n \in DOMAIN g : g[n] = BodyChange(w, "status")
  <2>1. PICK m \in DOMAIN staged[w] : staged[w][m].inst = w /\ DOMAIN staged[w][m].data \cap {"status", "end"} # {}
    BY <1>4, <1>8 DEF ToSet
  <2>2. staged[w][m] = BodyChange(w, "status")
    BY <1>3, <1>5, <2>1
  <2>3. Len(Own(w)) + m \in DOMAIN g /\ g[Len(Own(w)) + m] = staged[w][m]
    BY <1>1, GivenElements
  <2> HIDE DEF g
  <2> QED BY <2>2, <2>3
<1>9. ASSUME ~Overlap(w) PROVE 1 \in DOMAIN g /\ g[1] = ExitChange(w)
  <2>1. PICK k \in DOMAIN Own(w) : TRUE
    BY <1>1, <1>9, OwnIs
  <2>2. 1 \in DOMAIN Own(w) /\ Own(w)[1] = ExitChange(w)
    BY <1>6, <2>1
  <2> QED BY <1>1, <2>2, GivenElements
<1> HIDE DEF g
<1>10. QED BY <1>7, <1>8, <1>9, Zenon DEF g

(* The statuses and the ends that an exit sends. *)
ExitData(changes, w) ==
  \/ Sent(changes, w, "status") = {"done"} /\ Sent(changes, w, "end") = {"now"}
  \/ Sent(changes, w, "status") = {"set"} /\ Sent(changes, w, "end") = {}

LEMMA ExitSends ==
  ASSUME Sound, NEW w \in Commits, at[w] = "exiting", Once(Merged(Given(w)))
  PROVE  ExitData(Merged(Given(w)), w)
<1> DEFINE g == Given(w)
           m == Merged(g)
<1>1. w \in Writes /\ outcome[w] = "none"
  BY WritesApart DEF Sound, Known
<1>2. m \in Seq(Changes) /\ LastOfEach(m, g) /\ g \in Seq(Changes)
  BY <1>1, MergedMakes, GivenElements DEF Sound
<1>3. /\ \A n \in DOMAIN g : g[n].inst = w =>
           \/ n = 1 /\ g[n] = ExitChange(w) /\ ~Overlap(w)
           \/ g[n] = BodyChange(w, "result")
           \/ g[n] = BodyChange(w, "status") /\ Overlap(w)
      /\ Overlap(w) => \E n \in DOMAIN g : g[n] = BodyChange(w, "status")
      /\ ~Overlap(w) => 1 \in DOMAIN g /\ g[1] = ExitChange(w)
  BY GivenOfCommit
<1> HIDE DEF m, g
<1>4. /\ Sent(m, w, "status") = {v \in Values : SetLast(g, w, "status", v)}
      /\ Sent(m, w, "end") = {v \in Values : SetLast(g, w, "end", v)}
  BY <1>2, SentIsSetLast DEF Props
<1>5. /\ ExitChange(w).inst = w /\ DOMAIN ExitChange(w).data = {"status", "end"}
      /\ ExitChange(w).data["status"] = "done" /\ ExitChange(w).data["end"] = "now"
      /\ \A p : BodyChange(w, p).inst = w /\ DOMAIN BodyChange(w, p).data = {p} /\ BodyChange(w, p).data[p] = "set"
  BY DEF ExitChange, BodyChange, Change
<1>6. Len(g) \in Nat /\ DOMAIN g = 1..Len(g)
  BY <1>2
<1>7. "done" \in Values /\ "now" \in Values /\ "set" \in Values
  BY DEF Values
<1>8. CASE ~Overlap(w)
  <2>1. ASSUME NEW n \in DOMAIN g, g[n].inst = w, n # 1 PROVE DOMAIN g[n].data = {"result"}
    BY <1>3, <1>5, <1>8, <2>1
  <2>2. ASSUME NEW p \in {"status", "end"}, NEW v
        PROVE  SetLast(g, w, p, v) <=> v = ExitChange(w).data[p]
    <3>1. 1 \in DOMAIN g /\ g[1] = ExitChange(w)
      BY <1>3, <1>8
    <3>2. \A n \in 2..Len(g) : g[n].inst = w => p \notin DOMAIN g[n].data
      BY <1>6, <2>1
    <3>3. ASSUME NEW n \in DOMAIN g, g[n].inst = w, p \in DOMAIN g[n].data PROVE n = 1
      BY <2>1, <3>3
    <3> QED BY <1>5, <1>6, <3>1, <3>2, <3>3 DEF SetLast
  <2>3. Sent(m, w, "status") = {"done"}
    BY <1>4, <1>5, <1>7, <2>2
  <2>4. Sent(m, w, "end") = {"now"}
    BY <1>4, <1>5, <1>7, <2>2
  <2> QED BY <2>3, <2>4 DEF ExitData, m, g
<1>9. CASE Overlap(w)
  <2>1. ASSUME NEW n \in DOMAIN g, g[n].inst = w
        PROVE  /\ "end" \notin DOMAIN g[n].data
               /\ "status" \in DOMAIN g[n].data => g[n].data["status"] = "set"
    BY <1>3, <1>5, <1>9, <2>1
  <2>2. \A v : ~SetLast(g, w, "end", v)
    BY <2>1 DEF SetLast
  <2>3. \A v : SetLast(g, w, "status", v) => v = "set"
    BY <2>1 DEF SetLast
  <2> DEFINE T == {n \in DOMAIN g : g[n].inst = w /\ "status" \in DOMAIN g[n].data}
  <2>4. T # {} /\ T \subseteq 0..Len(g)
    BY <1>3, <1>5, <1>6, <1>9
  <2>5. PICK n \in T : \A k \in T : k <= n
    <3> HIDE DEF T
    <3> QED BY <1>6, <2>4, Greatest
  <2>6. SetLast(g, w, "status", "set")
    <3>1. \A k \in n + 1 .. Len(g) : g[k].inst = w => "status" \notin DOMAIN g[k].data
      BY <1>6, <2>5
    <3> QED BY <2>1, <2>5, <3>1 DEF SetLast
  <2>7. Sent(m, w, "status") = {"set"}
    BY <1>4, <1>7, <2>3, <2>6
  <2>8. Sent(m, w, "end") = {}
    BY <1>4, <2>2
  <2> QED BY <2>7, <2>8 DEF ExitData, m, g
<1> QED BY <1>8, <1>9

WholeOrSkipped(e) == e.part = "exit" /\ e.write \in Commits => ExitData(e.changes, e.write)
ExitsWhole == \A n \in DOMAIN log : WholeOrSkipped(log[n])

LEMMA ExitsStep ==
  ASSUME Sound, ExitsWhole, [WriteNext]_writeVars
  PROVE  ExitsWhole'
<1>0. WriteTypeOK
  BY DEF Sound
<1>1. ASSUME NEW w, NEW part, NEW changes, Adds(w, part, changes),
             part = "exit" /\ w \in Commits => ExitData(changes, w)
      PROVE  ExitsWhole'
  <2>1. ASSUME NEW n \in DOMAIN log' PROVE WholeOrSkipped(log'[n])
    <3>1. CASE n = Len(log) + 1
      <4>1. log'[n].write = w /\ log'[n].part = part /\ log'[n].changes = changes
        BY <1>0, <1>1, <3>1, AddsIs
      <4> QED BY <1>1, <4>1, Zenon DEF WholeOrSkipped
    <3>2. CASE n \in DOMAIN log /\ log'[n] = log[n]
      BY <3>2 DEF ExitsWhole
    <3> QED BY <1>0, <1>1, <3>1, <3>2, AddsIs
  <2> QED BY <2>1, Zenon DEF ExitsWhole, WholeOrSkipped, ExitData, Sent
<1>2. CASE UNCHANGED log
  BY <1>2 DEF ExitsWhole, WholeOrSkipped, ExitData, Sent
<1>3. ASSUME NEW w \in Writes, Adds(w, "entry", EntryChanges(w)) \/ Adds(w, "error", ErrorChanges(w))
      PROVE  ExitsWhole'
  <2>1. CASE Adds(w, "entry", EntryChanges(w))
    BY <1>1, <2>1
  <2>2. CASE Adds(w, "error", ErrorChanges(w))
    BY <1>1, <2>2
  <2> QED BY <1>3, <2>1, <2>2
<1>4. ASSUME NEW w \in Writes, at[w] = "exiting", Adds(w, "exit", Merged(Given(w))),
             Acceptable(w, Merged(Given(w)))
      PROVE  ExitsWhole'
  <2>1. w \in Commits => ExitData(Merged(Given(w)), w)
    BY <1>4, ExitSends, Zenon DEF Acceptable
  <2> QED BY <1>1, <1>4, <2>1, Zenon
<1>5. CASE UNCHANGED writeVars
  BY <1>2, <1>5 DEF writeVars
<1> QED BY <1>2, <1>3, <1>4, <1>5, LogMoves, Zenon

(* An admitted exit of a commit carries its whole exit transition, or, when *)
(* the body set a property of it, nothing of it.                           *)
THEOREM ExitWholeOrSkippedAlways == WriteSpec => []ExitWholeOrSkipped
<1>1. WriteInit => ExitsWhole
  BY DEF WriteInit, ExitsWhole
<1>2. Sound /\ ExitsWhole /\ [WriteNext]_writeVars => ExitsWhole'
  BY ExitsStep
<1>3. ExitsWhole => ExitWholeOrSkipped
  <2>1. \A p \in {"status", "end"} : p \in Props
    BY DEF Props
  <2> QED BY <2>1 DEF ExitsWhole, WholeOrSkipped, ExitData, Sent, ExitWholeOrSkipped
<1> QED BY <1>1, <1>2, <1>3, WriteSound, PTL DEF WriteSpec

-----------------------------------------------------------------------------
(* Bodies that end after the tasks started in them: the frames of the stacks. *)

(* The values that the context variable may have above the n-th frame of a task. *)
Contexts(t, n) == {None, IF n = 0 THEN life[t].base ELSE stack[t][n]}
Depth(t) == IF stack[t] # <<>> /\ at[Top(t)] # "body" THEN Len(stack[t]) - 1 ELSE Len(stack[t])

(* The n-th context manager of a task: it is open, it is in its body when  *)
(* another one is open inside it, and what it restores and joins is the    *)
(* value that the context variable had outside it.                         *)
Frame(t, n) ==
  /\ at[stack[t][n]] \notin {"new", "over"}
  /\ n # Len(stack[t]) => at[stack[t][n]] = "body"
  /\ at[stack[t][n]] = "body" => saved[stack[t][n]] \in Contexts(t, n - 1)
  /\ parent[stack[t][n]] \in Contexts(t, n - 1)

(* A task: it inherits the write of the body it was started in, which goes *)
(* on as long as the task runs.                                            *)
Framed(t) ==
  /\ life[t].base \in {life[t].of, None}
  /\ life[t].on # "running" => stack[t] = <<>>
  /\ life[t].on = "running" /\ life[t].of # None => at[life[t].of] = "body"
  /\ \A n \in DOMAIN stack[t] : Frame(t, n)
  /\ pending[t] \in Contexts(t, Depth(t))
Frames == \A t \in Tasks : Framed(t)

(* Every open write is at one place of one stack.                          *)
Placed ==
  /\ \A t, u \in Tasks : \A m \in DOMAIN stack[t], n \in DOMAIN stack[u] :
        stack[t][m] = stack[u][n] => t = u /\ m = n
  /\ \A w \in Writes : at[w] \notin {"new", "over"} =>
        \E t \in Tasks : \E n \in DOMAIN stack[t] : stack[t][n] = w

(* The kinds of steps that a frame sees. *)
Pushes(t, w) ==
  /\ InCode(t) /\ at[w] = "new" /\ life' = life
  /\ stack' = [stack EXCEPT ![t] = Append(@, w)]
  /\ \/ at' = [at EXCEPT ![w] = "entering"] /\ UNCHANGED <<parent, saved, pending>>
     \/ /\ at' = [at EXCEPT ![w] = "body"] /\ Pend(t, w)
        /\ parent' = parent \/ parent' = [parent EXCEPT ![w] = Joins(t, w)]

Turns(t, w) ==
  /\ Runs(t, w) /\ at[w] # "body" /\ UNCHANGED <<stack, parent, life>>
  /\ \/ UNCHANGED <<saved, pending>> /\ \E a \in {"fetching", "failing"} : at' = [at EXCEPT ![w] = a]
     \/ at' = [at EXCEPT ![w] = "body"] /\ Pend(t, w)

Leaves(t, w) ==
  /\ Runs(t, w) /\ at[w] = "body" /\ ChildrenOver(w) /\ UNCHANGED <<parent, life>>
  /\ pending' = [pending EXCEPT ![t] = saved[w]]
  /\ saved' = [saved EXCEPT ![w] = None]
  /\ \/ (\E a \in {"exiting", "failing"} : at' = [at EXCEPT ![w] = a]) /\ stack' = stack
     \/ \E how : Ends(t, w, how)

Pops(t, w) ==
  /\ Runs(t, w) /\ at[w] # "body" /\ UNCHANGED <<parent, life, saved, pending>>
  /\ \E how : Ends(t, w, how)

LEMMA FrameMoves ==
  ASSUME WriteNext
  PROVE  \/ \E t \in Tasks, w \in Writes : Pushes(t, w) \/ Turns(t, w) \/ Leaves(t, w) \/ Pops(t, w)
         \/ \E t \in Tasks : Finish(t) \/ \E u \in Tasks : Spawn(t, u)
         \/ UNCHANGED <<at, stack, parent, saved, pending, life>>
<1>1. ASSUME NEW t \in Tasks, NEW w \in Writes, OpenCommit(t, w) \/ OpenCreation(t, w) \/ OpenApart(t, w)
      PROVE  Pushes(t, w)
  BY <1>1 DEF OpenCommit, OpenCreation, OpenApart, Open, Pushes
<1>2. ASSUME NEW t \in Tasks, NEW w \in Writes, NEW how, Leave(t, w, how)
      PROVE  Leaves(t, w)
  BY <1>2 DEF Leave, Leaves, Restored
<1>3. ASSUME NEW t \in Tasks, NEW w \in Writes, Enter(t, w) \/ Fetch(t, w) \/ RefuseExit(t, w)
      PROVE  Turns(t, w)
  BY <1>3 DEF Enter, Fetch, RefuseExit, Turns
<1>4. ASSUME NEW t \in Tasks, NEW w \in Writes,
             RefuseEntry(t, w) \/ ExitCommit(t, w) \/ WriteError(t, w) \/ CreateAlone(t, w)
               \/ RefuseCreation(t, w) \/ Join(t, w)
      PROVE  Pops(t, w)
  BY <1>4 DEF RefuseEntry, ExitCommit, WriteError, CreateAlone, RefuseCreation, Join, Pops
<1>5. ASSUME NEW t \in Tasks, NEW w \in Writes, NEW x, NEW p, Update(t, w, x, p)
      PROVE  UNCHANGED <<at, stack, parent, saved, pending, life>>
  BY <1>5 DEF Update
<1> QED BY <1>1, <1>2, <1>3, <1>4, <1>5, Zenon DEF WriteNext, Ongoing

(* The stacks after a push and after a pop. *)
LEMMA Pushed ==
  ASSUME WriteTypeOK, NEW t \in Tasks, NEW w \in Writes, stack' = [stack EXCEPT ![t] = Append(@, w)]
  PROVE  /\ \A u \in Tasks : u # t => stack'[u] = stack[u]
         /\ Len(stack'[t]) = Len(stack[t]) + 1 /\ Len(stack[t]) \in Nat /\ stack'[t] # <<>>
         /\ DOMAIN stack[t] = 1..Len(stack[t]) /\ DOMAIN stack'[t] = 1..Len(stack[t]) + 1
         /\ stack'[t][Len(stack[t]) + 1] = w
         /\ \A n \in 1..Len(stack[t]) : stack'[t][n] = stack[t][n] /\ stack[t][n] \in Writes
         /\ stack[t] = <<>> <=> Len(stack[t]) = 0
<1>1. stack[t] \in Seq(Writes) /\ stack'[t] = Append(stack[t], w) /\ \A u \in Tasks : u # t => stack'[u] = stack[u]
  BY DEF WriteTypeOK
<1> QED BY <1>1

LEMMA Popped ==
  ASSUME WriteTypeOK, NEW t \in Tasks, NEW w \in Writes, NEW how, Runs(t, w), Ends(t, w, how)
  PROVE  /\ \A u \in Tasks : u # t => stack'[u] = stack[u]
         /\ Len(stack'[t]) = Len(stack[t]) - 1 /\ Len(stack[t]) \in Nat \ {0}
         /\ DOMAIN stack[t] = 1..Len(stack[t]) /\ DOMAIN stack'[t] = 1..Len(stack[t]) - 1
         /\ \A n \in 1..Len(stack[t]) - 1 : stack'[t][n] = stack[t][n] /\ stack[t][n] \in Writes
         /\ stack[t][Len(stack[t])] = w
         /\ stack'[t] = <<>> <=> Len(stack[t]) = 1
<1>1. /\ stack[t] \in Seq(Writes) /\ stack[t] # <<>>
      /\ \A u \in Tasks : u # t => stack'[u] = stack[u]
      /\ stack'[t] = SubSeq(stack[t], 1, Len(stack[t]) - 1)
      /\ stack[t][Len(stack[t])] = w
  BY DEF WriteTypeOK, Ends, Runs, Top
<1> DEFINE s == SubSeq(stack[t], 1, Len(stack[t]) - 1)
<1>2. /\ s \in Seq(Writes) /\ Len(s) = Len(stack[t]) - 1 /\ Len(stack[t]) \in Nat
      /\ DOMAIN stack[t] = 1..Len(stack[t]) /\ Len(stack[t]) \in DOMAIN stack[t]
      /\ \A n \in 1..Len(stack[t]) - 1 : s[n] = stack[t][n]
  BY <1>1, TopIs
<1>3. stack'[t] = s
  BY <1>1, Zenon
<1>s. s \in Seq(Writes)
  BY <1>2
<1> HIDE DEF s
<1>4. DOMAIN s = 1..Len(s) /\ (s = <<>> <=> Len(s) = 0)
  BY <1>s
<1>5. \A n \in 1..Len(stack[t]) - 1 : stack[t][n] \in Writes
  BY <1>1, <1>2
<1>6. Len(stack[t]) # 0
  BY <1>2
<1>7. stack[t][Len(stack[t])] = w /\ \A u \in Tasks : u # t => stack'[u] = stack[u]
  BY <1>1
<1> QED BY <1>2, <1>3, <1>4, <1>5, <1>6, <1>7

LEMMA PlacedStep ==
  ASSUME Sound, Frames, Placed, WriteNext
  PROVE  Placed'
<1>0. WriteTypeOK
  BY DEF Sound
<1> DEFINE InOneFrame(s) == \A t, u \in Tasks : \A m \in DOMAIN s[t], n \in DOMAIN s[u] :
                         s[t][m] = s[u][n] => t = u /\ m = n
           InSome == \A w \in Writes : at'[w] \notin {"new", "over"} =>
                      \E t \in Tasks : \E n \in DOMAIN stack'[t] : stack'[t][n] = w
<1>1. InOneFrame(stack)
  BY DEF Placed
<1>s. SUFFICES InOneFrame(stack') /\ InSome
  BY DEF Placed
<1>2. ASSUME NEW t \in Tasks, NEW w \in Writes, Pushes(t, w) PROVE InOneFrame(stack') /\ InSome
  <2>1. stack' = [stack EXCEPT ![t] = Append(@, w)] /\ at[w] = "new"
    BY <1>2 DEF Pushes
  <2>2. \A u \in Tasks : \A n \in DOMAIN stack[u] : stack[u][n] # w
    BY <2>1 DEF Frames, Framed, Frame
  <2>3. ASSUME NEW u \in Tasks, NEW n \in DOMAIN stack'[u]
        PROVE  \/ n \in DOMAIN stack[u] /\ stack'[u][n] = stack[u][n]
               \/ u = t /\ n = Len(stack[t]) + 1 /\ stack'[u][n] = w
    BY <1>0, <2>1, Pushed
  <2>4. InOneFrame(stack')
    BY <1>1, <2>2, <2>3
  <2>5. ASSUME NEW v \in Writes, at'[v] \notin {"new", "over"}
        PROVE  \E u \in Tasks : \E n \in DOMAIN stack'[u] : stack'[u][n] = v
    <3>1. CASE v = w
      <4>1. Len(stack[t]) + 1 \in DOMAIN stack'[t] /\ stack'[t][Len(stack[t]) + 1] = w
        <5>1. /\ DOMAIN stack'[t] = 1..Len(stack[t]) + 1 /\ Len(stack[t]) \in Nat
              /\ stack'[t][Len(stack[t]) + 1] = w
          BY <1>0, <2>1, Pushed
        <5> QED BY <5>1
      <4> QED BY <3>1, <4>1
    <3>2. CASE v # w
      <4>1. at[v] \notin {"new", "over"}
        BY <1>0, <1>2, <2>5, <3>2 DEF Pushes, WriteTypeOK
      <4>2. PICK u \in Tasks : \E n \in DOMAIN stack[u] : stack[u][n] = v
        BY <4>1 DEF Placed
      <4>3. \A n \in DOMAIN stack[u] : n \in DOMAIN stack'[u] /\ stack'[u][n] = stack[u][n]
        BY <1>0, <2>1, Pushed
      <4> QED BY <4>2, <4>3
    <3> QED BY <3>1, <3>2
  <2> QED BY <2>4, <2>5
<1>3. ASSUME NEW t \in Tasks, NEW w \in Writes, NEW how, Runs(t, w), Ends(t, w, how) PROVE InOneFrame(stack') /\ InSome
  <2>3. ASSUME NEW u \in Tasks, NEW n \in DOMAIN stack'[u]
        PROVE  n \in DOMAIN stack[u] /\ stack'[u][n] = stack[u][n]
    BY <1>0, <1>3, Popped
  <2>4. InOneFrame(stack')
    BY <1>1, <2>3
  <2>5. ASSUME NEW v \in Writes, at'[v] \notin {"new", "over"}
        PROVE  \E u \in Tasks : \E n \in DOMAIN stack'[u] : stack'[u][n] = v
    <3>1. v # w /\ at[v] \notin {"new", "over"}
      BY <1>0, <1>3, <2>5, EndsIs
    <3>2. PICK u \in Tasks : \E n \in DOMAIN stack[u] : stack[u][n] = v
      BY <3>1 DEF Placed
    <3>3. PICK n \in DOMAIN stack[u] : stack[u][n] = v
      BY <3>2
    <3>4. n \in DOMAIN stack'[u] /\ stack'[u][n] = stack[u][n]
      BY <1>0, <1>3, <3>1, <3>3, Popped
    <3> QED BY <3>3, <3>4
  <2> QED BY <2>4, <2>5
<1>4. ASSUME stack' = stack, \A v \in Writes : at'[v] \notin {"new", "over"} => at[v] \notin {"new", "over"}
      PROVE  InOneFrame(stack') /\ InSome
  BY <1>1, <1>4 DEF Placed
<1>5. ASSUME NEW t \in Tasks, NEW w \in Writes, Runs(t, w), stack' = stack, NEW a, at' = [at EXCEPT ![w] = a]
      PROVE  InOneFrame(stack') /\ InSome
  <2>1. Len(stack[t]) \in DOMAIN stack[t] /\ stack[t][Len(stack[t])] = w
    BY <1>0, <1>5, TopIs DEF Runs, Top
  <2>2. at[w] \notin {"new", "over"}
    BY <2>1 DEF Frames, Framed, Frame
  <2> QED BY <1>0, <1>4, <1>5, <2>2 DEF WriteTypeOK
<1> HIDE DEF InOneFrame, InSome
<1>6. ASSUME NEW t \in Tasks, NEW w \in Writes, Turns(t, w) \/ Leaves(t, w) \/ Pops(t, w)
      PROVE  InOneFrame(stack') /\ InSome
  <2>1. Runs(t, w) /\ ((\E how : Ends(t, w, how)) \/ (stack' = stack /\ \E a : at' = [at EXCEPT ![w] = a]))
    BY <1>6, Zenon DEF Turns, Leaves, Pops
  <2> QED BY <1>3, <1>5, <2>1, Zenon
<1>7. ASSUME NEW t \in Tasks, NEW u \in Tasks, Finish(t) \/ Spawn(t, u)
      PROVE  InOneFrame(stack') /\ InSome
  BY <1>4, <1>7 DEF Finish, Spawn
<1> QED BY <1>2, <1>4, <1>6, <1>7, FrameMoves

-----------------------------------------------------------------------------
(* Frames in a step that opens a context manager.                          *)

Elsewhere(t, w) ==
  /\ \A v \in Writes : v # w => at'[v] = at[v] /\ saved'[v] = saved[v] /\ parent'[v] = parent[v]
  /\ \A u \in Tasks : u # t => pending'[u] = pending[u] /\ stack'[u] = stack[u]
  /\ life' = life

LEMMA KindsElsewhere ==
  ASSUME WriteTypeOK, NEW t \in Tasks, NEW w \in Writes,
         Pushes(t, w) \/ Turns(t, w) \/ Leaves(t, w) \/ Pops(t, w)
  PROVE  Elsewhere(t, w)
<1>1. CASE Pushes(t, w)
  BY <1>1 DEF Pushes, Pend, Elsewhere, WriteTypeOK
<1>2. CASE Turns(t, w)
  BY <1>2 DEF Turns, Pend, Elsewhere, WriteTypeOK
<1>3. CASE Leaves(t, w)
  BY <1>3 DEF Leaves, Ends, Elsewhere, WriteTypeOK
<1>4. CASE Pops(t, w)
  BY <1>4 DEF Pops, Ends, Elsewhere, WriteTypeOK
<1> QED BY <1>1, <1>2, <1>3, <1>4

LEMMA FramedSame ==
  ASSUME NEW u \in Tasks, Framed(u),
         stack'[u] = stack[u], pending'[u] = pending[u], life'[u] = life[u],
         stack[u] # <<>> => Len(stack[u]) \in DOMAIN stack[u],
         \A n \in DOMAIN stack[u] : LET v == stack[u][n] IN
            at'[v] = at[v] /\ saved'[v] = saved[v] /\ parent'[v] = parent[v],
         life[u].on = "running" /\ life[u].of # None => at'[life[u].of] = "body"
  PROVE  Framed(u)'
<1>1. stack[u] # <<>> => at'[Top(u)'] = at[Top(u)]
  BY DEF Top
<1>2. Depth(u)' = Depth(u)
  BY <1>1 DEF Depth, Top
<1>3. \A n : Contexts(u, n)' = Contexts(u, n)
  BY DEF Contexts
<1>4. ASSUME NEW n \in DOMAIN stack[u] PROVE Frame(u, n)'
  <2>1. Frame(u, n)
    BY DEF Framed
  <2> QED BY <1>3, <2>1 DEF Frame, Contexts
<1> QED BY <1>2, <1>4 DEF Framed, Contexts

(* The tasks in which a step does not run. *)
LEMMA FramedElsewhere ==
  ASSUME WriteTypeOK, Frames, Placed, NEW t \in Tasks, NEW w \in Writes, Elsewhere(t, w),
         NEW u \in Tasks, u # t, \A n \in DOMAIN stack[u] : stack[u][n] # w,
         life[u].on = "running" /\ life[u].of # None => life[u].of # w
  PROVE  Framed(u)'
<1>1. stack[u] \in Seq(Writes) /\ life[u].of \in Writes \cup {None}
  BY DEF WriteTypeOK
<1>2. \A n \in DOMAIN stack[u] : stack[u][n] \in Writes
  BY <1>1
<1>3. stack[u] # <<>> => Len(stack[u]) \in DOMAIN stack[u]
  BY <1>1
<1>4. Framed(u)
  BY DEF Frames
<1>5. life[u].on = "running" /\ life[u].of # None => at'[life[u].of] = "body"
  BY <1>1, <1>4 DEF Framed, Elsewhere
<1>6. \A n \in DOMAIN stack[u] : LET v == stack[u][n] IN
            at'[v] = at[v] /\ saved'[v] = saved[v] /\ parent'[v] = parent[v]
  BY <1>2 DEF Elsewhere
<1>7. stack'[u] = stack[u] /\ pending'[u] = pending[u] /\ life'[u] = life[u]
  BY DEF Elsewhere
<1> QED BY <1>3, <1>4, <1>5, <1>6, <1>7, FramedSame

(* The frame at the top, and where the open write is. *)
LEMMA TopFrame ==
  ASSUME WriteTypeOK, Frames, Placed, NEW t \in Tasks, NEW w \in Writes, Runs(t, w)
  PROVE  /\ Len(stack[t]) \in Nat \ {0} /\ DOMAIN stack[t] = 1..Len(stack[t])
         /\ stack[t][Len(stack[t])] = w /\ Frame(t, Len(stack[t]))
         /\ \A u \in Tasks : \A n \in DOMAIN stack[u] : stack[u][n] = w => u = t /\ n = Len(stack[t])
         /\ \A n \in 1..Len(stack[t]) - 1 : stack[t][n] \in Writes /\ stack[t][n] # w /\ at[stack[t][n]] = "body"
         /\ at[w] \notin {"new", "over"}
         /\ Depth(t) = IF at[w] = "body" THEN Len(stack[t]) ELSE Len(stack[t]) - 1
         /\ life[t].on = "running"
<1>1. /\ stack[t] # <<>> /\ Top(t) = w /\ Len(stack[t]) \in DOMAIN stack[t]
      /\ Len(stack[t]) \in Nat /\ DOMAIN stack[t] = 1..Len(stack[t])
  BY TopIs DEF Runs
<1>2. stack[t][Len(stack[t])] = w /\ Framed(t) /\ Len(stack[t]) # 0
  BY <1>1 DEF Top, Frames
<1>3. \A u \in Tasks : \A n \in DOMAIN stack[u] : stack[u][n] = w => u = t /\ n = Len(stack[t])
  BY <1>1, <1>2 DEF Placed
<1>4. \A n \in DOMAIN stack[t] : stack[t][n] \in Writes /\ Frame(t, n)
  <2>1. stack[t] \in Seq(Writes)
    BY DEF WriteTypeOK
  <2> QED BY <1>2, <2>1 DEF Framed
<1>5. \A n \in 1..Len(stack[t]) - 1 : n \in DOMAIN stack[t] /\ n # Len(stack[t])
  BY <1>1
<1>6. \A n \in 1..Len(stack[t]) - 1 : stack[t][n] \in Writes /\ stack[t][n] # w /\ at[stack[t][n]] = "body"
  BY <1>3, <1>4, <1>5 DEF Frame
<1>7. at[w] \notin {"new", "over"}
  BY <1>1, <1>2, <1>4 DEF Frame
<1>8. Depth(t) = IF at[w] = "body" THEN Len(stack[t]) ELSE Len(stack[t]) - 1
  BY <1>1 DEF Depth
<1>9. life[t].on = "running"
  BY <1>1, <1>2 DEF Framed
<1> QED BY <1>1, <1>2, <1>3, <1>4, <1>6, <1>7, <1>8, <1>9

LEMMA FramesPush ==
  ASSUME Sound, Frames, Placed, NEW t \in Tasks, NEW w \in Writes, Pushes(t, w)
  PROVE  Frames'
<1>0. WriteTypeOK /\ Elsewhere(t, w) /\ Framed(t)
  BY KindsElsewhere DEF Sound, Frames
<1>a. stack' = [stack EXCEPT ![t] = Append(@, w)]
  BY DEF Pushes
<1>l. /\ \A u \in Tasks : u # t => stack'[u] = stack[u]
      /\ Len(stack'[t]) = Len(stack[t]) + 1 /\ Len(stack[t]) \in Nat /\ stack'[t] # <<>>
      /\ DOMAIN stack[t] = 1..Len(stack[t]) /\ DOMAIN stack'[t] = 1..Len(stack[t]) + 1
      /\ stack'[t][Len(stack[t]) + 1] = w
      /\ \A n \in 1..Len(stack[t]) : stack'[t][n] = stack[t][n] /\ stack[t][n] \in Writes
      /\ stack[t] = <<>> <=> Len(stack[t]) = 0
  BY <1>0, <1>a, Pushed, Zenon
<1>k. PICK k : k = Len(stack[t])
  OBVIOUS
<1>1. /\ \A u \in Tasks : u # t => stack'[u] = stack[u]
      /\ Len(stack'[t]) = k + 1 /\ k \in Nat /\ stack'[t] # <<>>
      /\ DOMAIN stack[t] = 1..k /\ DOMAIN stack'[t] = 1..k + 1
      /\ stack'[t][k + 1] = w
      /\ \A n \in 1..k : stack'[t][n] = stack[t][n] /\ stack[t][n] \in Writes
      /\ stack[t] = <<>> <=> k = 0
  BY <1>k, <1>l
<1>2. /\ at[w] = "new" /\ parent[w] = None /\ InCode(t)
  BY DEF Pushes, Sound, Known, Opened
<1>3. \A u \in Tasks : \A n \in DOMAIN stack[u] : stack[u][n] # w
  BY <1>2 DEF Frames, Framed, Frame
<1>4. \A u \in Tasks : life[u].on = "running" /\ life[u].of # None => life[u].of # w
  BY <1>2 DEF Frames, Framed
<1>5. pending[t] \in Contexts(t, k)
  BY <1>0, <1>1, <1>2, <1>k DEF InCode, Depth, Framed
<1>6. \A n \in 0..k : Contexts(t, n)' = Contexts(t, n)
  BY <1>0, <1>1 DEF Contexts, Elsewhere
<1>7. ASSUME NEW n \in 1..k PROVE Frame(t, n)'
  <2>1. Frame(t, n) /\ stack'[t][n] = stack[t][n] /\ stack[t][n] \in Writes /\ stack[t][n] # w /\ n - 1 \in 0..k
    BY <1>0, <1>1, <1>3 DEF Framed
  <2>2. at[stack[t][n]] = "body"
    <3>1. CASE n = k
      BY <1>1, <1>2, <1>k, <3>1 DEF InCode, Top
    <3>2. CASE n # k
      BY <1>k, <2>1, <3>2 DEF Frame
    <3> QED BY <3>1, <3>2
  <2>3. /\ at'[stack[t][n]] = at[stack[t][n]] /\ saved'[stack[t][n]] = saved[stack[t][n]]
        /\ parent'[stack[t][n]] = parent[stack[t][n]]
    BY <1>0, <2>1 DEF Elsewhere
  <2>4. Contexts(t, n - 1)' = Contexts(t, n - 1)
    BY <1>6, <2>1
  <2> QED BY <2>1, <2>2, <2>3, <2>4 DEF Frame
<1>8. /\ at'[w] \in {"entering", "body"}
      /\ at'[w] = "body" => saved'[w] = pending[t] /\ pending'[t] \in {None, w}
      /\ at'[w] = "entering" => pending'[t] = pending[t]
      /\ parent'[w] \in {None, pending[t]}
  BY <1>0, <1>2 DEF Pushes, Pend, Joins, WriteTypeOK
<1>9. Frame(t, k + 1)'
  <2>1. (k + 1) - 1 = k /\ Contexts(t, k)' = Contexts(t, k)
    BY <1>1, <1>6
  <2>2. None \in Contexts(t, k)
    BY DEF Contexts
  <2>3. stack'[t][k + 1] = w /\ Len(stack'[t]) = k + 1
    BY <1>1
  <2>4. /\ at'[w] \notin {"new", "over"}
        /\ at'[w] = "body" => saved'[w] \in Contexts(t, k)
        /\ parent'[w] \in Contexts(t, k)
    BY <1>5, <1>8, <2>2
  <2>5. at'[stack'[t][k + 1]] = at'[w] /\ saved'[stack'[t][k + 1]] = saved'[w] /\ parent'[stack'[t][k + 1]] = parent'[w]
    BY <2>3
  <2> QED BY <2>1, <2>3, <2>4, <2>5, Zenon DEF Frame
<1>10. pending'[t] \in Contexts(t, Depth(t))'
  <2>1. Depth(t)' = IF at'[w] # "body" THEN k ELSE k + 1
    BY <1>1 DEF Depth, Top
  <2>2. CASE at'[w] = "body"
    BY <1>1, <1>8, <2>1, <2>2 DEF Contexts
  <2>3. CASE at'[w] = "entering"
    <3>1. Contexts(t, Depth(t))' = Contexts(t, k)
      BY <1>1, <1>6, <2>1, <2>3 DEF Contexts
    <3> QED BY <1>5, <1>8, <2>3, <3>1
  <2> QED BY <1>8, <2>2, <2>3
<1>11. life[t].on = "running" /\ life[t].of # None => at'[life[t].of] = "body"
  <2>1. life[t].of \in Writes \cup {None}
    BY <1>0 DEF WriteTypeOK
  <2> QED BY <1>0, <1>4, <2>1 DEF Framed, Elsewhere
<1>12. Framed(t)'
  <2>1. \A n \in DOMAIN stack'[t] : Frame(t, n)'
    <3>1. \A n \in 1..k + 1 : n \in 1..k \/ n = k + 1
      BY <1>1
    <3> QED BY <1>1, <1>7, <1>9, <3>1
  <2>2. life' = life /\ life[t].on = "running"
    BY <1>0, <1>2 DEF Elsewhere, InCode
  <2> QED BY <1>0, <1>10, <1>11, <2>1, <2>2 DEF Framed
<1>13. \A u \in Tasks : u # t => Framed(u)'
  BY <1>0, <1>3, <1>4, FramedElsewhere
<1> QED BY <1>12, <1>13 DEF Frames

-----------------------------------------------------------------------------
(* Frames in a step that ends one.                                         *)

(* The rest of a stack below its top, when only the top's write changes. *)
LEMMA FramesBelow ==
  ASSUME Sound, Frames, Placed, NEW t \in Tasks, NEW w \in Writes, Runs(t, w), Elsewhere(t, w),
         NEW k, k = Len(stack[t]), \A n \in 1..k - 1 : stack'[t][n] = stack[t][n]
  PROVE  /\ \A n \in 0..k - 1 : Contexts(t, n)' = Contexts(t, n)
         /\ \A n \in 1..k - 1 : Frame(t, n)' /\ at'[stack'[t][n]] = "body"
<1>1. /\ k \in Nat \ {0} /\ DOMAIN stack[t] = 1..k
      /\ \A n \in 1..k - 1 : stack[t][n] \in Writes /\ stack[t][n] # w /\ at[stack[t][n]] = "body"
  BY TopFrame DEF Sound
<1>2. \A n \in 0..k - 1 : Contexts(t, n)' = Contexts(t, n)
  BY <1>1 DEF Contexts, Elsewhere
<1>3. ASSUME NEW n \in 1..k - 1 PROVE Frame(t, n)' /\ at'[stack'[t][n]] = "body"
  <2>1. Frame(t, n) /\ stack'[t][n] = stack[t][n] /\ stack[t][n] \in Writes /\ stack[t][n] # w /\ n - 1 \in 0..k - 1
    BY <1>1 DEF Frames, Framed
  <2>2. at[stack[t][n]] = "body"
    BY <1>1
  <2>3. /\ at'[stack[t][n]] = at[stack[t][n]] /\ saved'[stack[t][n]] = saved[stack[t][n]]
        /\ parent'[stack[t][n]] = parent[stack[t][n]]
    BY <2>1 DEF Elsewhere
  <2>4. Contexts(t, n - 1)' = Contexts(t, n - 1)
    BY <1>2, <2>1
  <2> QED BY <2>1, <2>2, <2>3, <2>4 DEF Frame
<1> QED BY <1>2, <1>3

(* What a step of a task at its top leaves of the other tasks, and of its own life. *)
LEMMA FramesBeside ==
  ASSUME Sound, Frames, Placed, NEW t \in Tasks, NEW w \in Writes, Runs(t, w), Elsewhere(t, w),
         at[w] = "body" => ChildrenOver(w), ~MayOutlive
  PROVE  /\ \A u \in Tasks : u # t => Framed(u)'
         /\ life[t].on = "running" /\ life[t].of # None => at'[life[t].of] = "body"
<1>1. WriteTypeOK
  BY DEF Sound
<1>2. ASSUME NEW u \in Tasks, life[u].on = "running", life[u].of # None
      PROVE  life[u].of # w /\ life[u].of \in Writes /\ at[life[u].of] = "body"
  BY <1>1, <1>2 DEF Frames, Framed, ChildrenOver, WriteTypeOK
<1>3. \A u \in Tasks : u # t => \A n \in DOMAIN stack[u] : stack[u][n] # w
  BY <1>1, TopFrame
<1>4. \A u \in Tasks : u # t => Framed(u)'
  BY <1>1, <1>2, <1>3, FramedElsewhere
<1> QED BY <1>2, <1>4 DEF Elsewhere

LEMMA FramesTurn ==
  ASSUME Sound, Frames, Placed, ~MayOutlive, NEW t \in Tasks, NEW w \in Writes,
         Turns(t, w) \/ (Leaves(t, w) /\ stack' = stack)
  PROVE  Frames'
<1>0. WriteTypeOK /\ Elsewhere(t, w) /\ Framed(t) /\ Runs(t, w)
  BY KindsElsewhere DEF Sound, Frames, Turns, Leaves
<1>s. stack' = stack
  BY DEF Turns
<1>b. at[w] = "body" => ChildrenOver(w)
  BY DEF Turns, Leaves
<1>k. PICK k : k = Len(stack[t])
  OBVIOUS
<1>1. /\ k \in Nat \ {0} /\ DOMAIN stack[t] = 1..k /\ stack[t][k] = w /\ Frame(t, k)
      /\ at[w] \notin {"new", "over"}
      /\ Depth(t) = IF at[w] = "body" THEN k ELSE k - 1
      /\ life[t].on = "running"
  BY <1>0, <1>k, TopFrame
<1>2. /\ \A n \in 0..k - 1 : Contexts(t, n)' = Contexts(t, n)
      /\ \A n \in 1..k - 1 : Frame(t, n)'
  BY <1>0, <1>k, <1>s, FramesBelow
<1>3. /\ at'[w] \notin {"new", "over"} /\ parent'[w] = parent[w]
      /\ \/ at[w] # "body" /\ at'[w] # "body" /\ pending'[t] = pending[t]
         \/ at[w] # "body" /\ at'[w] = "body" /\ saved'[w] = pending[t] /\ pending'[t] \in {None, w}
         \/ at[w] = "body" /\ at'[w] # "body" /\ pending'[t] = saved[w]
  <2>1. CASE Turns(t, w)
    BY <1>0, <2>1 DEF Turns, Pend, WriteTypeOK
  <2>2. CASE Leaves(t, w) /\ stack' = stack
    <3>1. at' # [at EXCEPT ![w] = "over"]  \/ ~\E how : Ends(t, w, how)
      <4>1. ASSUME NEW how, Ends(t, w, how) PROVE FALSE
        BY <1>0, <1>1, <1>s, <1>k, <4>1, Popped
      <4> QED BY <4>1
    <3>2. ~\E how : Ends(t, w, how)
      BY <3>1 DEF Ends
    <3> QED BY <1>0, <2>2, <3>2 DEF Leaves, WriteTypeOK
  <2> QED BY <2>1, <2>2
<1>4. /\ at[w] = "body" => saved[w] \in Contexts(t, k - 1)
      /\ at[w] # "body" => pending[t] \in Contexts(t, k - 1)
      /\ parent[w] \in Contexts(t, k - 1)
  BY <1>0, <1>1 DEF Framed, Frame
<1>5. Frame(t, k)'
  <2>1. k - 1 \in 0..k - 1
    BY <1>1
  <2>2. Contexts(t, k - 1)' = Contexts(t, k - 1)
    BY <1>2, <2>1
  <2>3. stack'[t][k] = w /\ k = Len(stack'[t])
    BY <1>1, <1>s, <1>k
  <2>4. (at'[w] = "body" => saved'[w] \in Contexts(t, k - 1)) /\ parent'[w] \in Contexts(t, k - 1)
    BY <1>3, <1>4
  <2> QED BY <1>3, <2>2, <2>3, <2>4 DEF Frame
<1>6. pending'[t] \in Contexts(t, Depth(t))'
  <2>1. Depth(t)' = IF at'[w] # "body" THEN k - 1 ELSE k
    <3>1. stack'[t] # <<>> /\ stack'[t][Len(stack'[t])] = w /\ Len(stack'[t]) = k
      BY <1>0, <1>1, <1>k, <1>s DEF Runs
    <3> QED BY <3>1 DEF Depth, Top
  <2>2. CASE at'[w] = "body"
    BY <1>1, <1>3, <1>s, <2>1, <2>2 DEF Contexts
  <2>3. CASE at'[w] # "body"
    <3>1. Depth(t)' = k - 1 /\ k - 1 \in 0..k - 1
      BY <1>1, <2>1, <2>3
    <3>2. Contexts(t, Depth(t))' = Contexts(t, k - 1)
      BY <1>2, <3>1 DEF Contexts
    <3> QED BY <1>3, <1>4, <2>3, <3>2
  <2> QED BY <2>2, <2>3
<1>7. Framed(t)'
  <2>1. \A n \in DOMAIN stack'[t] : Frame(t, n)'
    <3>1. \A n \in 1..k : n \in 1..k - 1 \/ n = k
      BY <1>1
    <3> QED BY <1>1, <1>2, <1>5, <1>s, <3>1
  <2>2. life[t].on = "running" /\ life[t].of # None => at'[life[t].of] = "body"
    BY <1>0, <1>b, FramesBeside
  <2>3. life' = life /\ stack'[t] # <<>>
    BY <1>0, <1>s DEF Elsewhere, Runs
  <2> QED BY <1>0, <1>1, <1>6, <2>1, <2>2, <2>3 DEF Framed
<1>8. \A u \in Tasks : u # t => Framed(u)'
  BY <1>0, <1>b, FramesBeside
<1> QED BY <1>7, <1>8 DEF Frames

LEMMA FramesPop ==
  ASSUME Sound, Frames, Placed, ~MayOutlive, NEW t \in Tasks, NEW w \in Writes,
         Pops(t, w) \/ Leaves(t, w), NEW how, Ends(t, w, how)
  PROVE  Frames'
<1>0. WriteTypeOK /\ Elsewhere(t, w) /\ Framed(t) /\ Runs(t, w)
  BY KindsElsewhere DEF Sound, Frames, Pops, Leaves
<1>b. at[w] = "body" => ChildrenOver(w)
  BY DEF Pops, Leaves
<1>k. PICK k : k = Len(stack[t])
  OBVIOUS
<1>1. /\ k \in Nat \ {0} /\ DOMAIN stack[t] = 1..k /\ stack[t][k] = w /\ Frame(t, k)
      /\ Depth(t) = IF at[w] = "body" THEN k ELSE k - 1
      /\ life[t].on = "running"
  BY <1>0, <1>k, TopFrame
<1>p. /\ Len(stack'[t]) = Len(stack[t]) - 1
      /\ DOMAIN stack'[t] = 1..Len(stack[t]) - 1
      /\ \A n \in 1..Len(stack[t]) - 1 : stack'[t][n] = stack[t][n]
      /\ stack'[t] = <<>> <=> Len(stack[t]) = 1
  BY <1>0, Popped, Zenon
<1>q. /\ Len(stack'[t]) = k - 1
      /\ DOMAIN stack'[t] = 1..k - 1
      /\ \A n \in 1..k - 1 : stack'[t][n] = stack[t][n]
      /\ stack'[t] = <<>> <=> k = 1
  BY <1>p, <1>k
<1>2. /\ \A n \in 0..k - 1 : Contexts(t, n)' = Contexts(t, n)
      /\ \A n \in 1..k - 1 : Frame(t, n)' /\ at'[stack'[t][n]] = "body"
  BY <1>0, <1>k, <1>q, FramesBelow
<1>3. pending'[t] \in Contexts(t, k - 1)
  <2>1. at[w] = "body" => saved[w] \in Contexts(t, k - 1) /\ pending'[t] = saved[w]
    BY <1>0, <1>1 DEF Frame, Pops, Leaves, WriteTypeOK
  <2>2. at[w] # "body" => pending[t] \in Contexts(t, k - 1) /\ pending'[t] = pending[t]
    BY <1>0, <1>1 DEF Framed, Pops, Leaves
  <2> QED BY <2>1, <2>2
<1>4. pending'[t] \in Contexts(t, Depth(t))'
  <2>1. Depth(t)' = k - 1
    <3>1. stack'[t] # <<>> => at'[stack'[t][Len(stack'[t])]] = "body"
      <4>1. stack'[t] # <<>> => k - 1 \in 1..k - 1
        BY <1>1, <1>q
      <4> QED BY <1>2, <1>q, <4>1
    <3> QED BY <1>q, <3>1 DEF Depth, Top
  <2>2. k - 1 \in 0..k - 1
    BY <1>1
  <2>3. Contexts(t, Depth(t))' = Contexts(t, k - 1)
    BY <1>2, <2>1, <2>2 DEF Contexts
  <2> QED BY <1>3, <2>3
<1>5. Framed(t)'
  <2>1. \A n \in DOMAIN stack'[t] : Frame(t, n)'
    BY <1>2, <1>q
  <2>2. life[t].on = "running" /\ life[t].of # None => at'[life[t].of] = "body"
    BY <1>0, <1>b, FramesBeside
  <2>3. life' = life
    BY <1>0 DEF Elsewhere
  <2> QED BY <1>0, <1>1, <1>4, <2>1, <2>2, <2>3 DEF Framed
<1>6. \A u \in Tasks : u # t => Framed(u)'
  BY <1>0, <1>b, FramesBeside
<1> QED BY <1>5, <1>6 DEF Frames

LEMMA FramesTasks ==
  ASSUME Sound, Frames, NEW t \in Tasks, Finish(t) \/ \E u \in Tasks : Spawn(t, u)
  PROVE  Frames'
<1>0. WriteTypeOK
  BY DEF Sound
<1>1. UNCHANGED <<at, stack, parent, saved>>
  BY DEF Finish, Spawn
<1>2. ASSUME NEW v \in Tasks, life'[v] = life[v], pending'[v] = pending[v] PROVE Framed(v)'
  BY <1>1, <1>2 DEF Frames, Framed, Frame, Contexts, Depth, Top
<1>3. CASE Finish(t)
  <2>1. /\ stack[t] = <<>> /\ life'[t].on = "over" /\ life'[t].base = life[t].base /\ life'[t].of = life[t].of
        /\ \A v \in Tasks : v # t => life'[v] = life[v]
        /\ pending' = pending
    BY <1>0, <1>3 DEF Finish, WriteTypeOK
  <2>2. Framed(t)'
    BY <1>1, <2>1 DEF Frames, Framed, Frame, Contexts, Depth, Top
  <2> QED BY <1>2, <2>1, <2>2 DEF Frames
<1>4. ASSUME NEW u \in Tasks, Spawn(t, u) PROVE Frames'
  <2>1. /\ InCode(t) /\ stack[t] # <<>> /\ life[u].on = "new"
        /\ life'[u] = [on |-> "running", of |-> Top(t), base |-> pending[t]] /\ pending'[u] = pending[t]
        /\ \A v \in Tasks : v # u => life'[v] = life[v] /\ pending'[v] = pending[v]
    BY <1>0, <1>4 DEF Spawn, WriteTypeOK
  <2>2. pending[t] \in {None, Top(t)} /\ at[Top(t)] = "body"
    <3>1. Len(stack[t]) # 0 /\ Depth(t) = Len(stack[t]) /\ at[Top(t)] = "body"
      BY <1>0, <2>1, TopIs DEF InCode, Depth
    <3> QED BY <3>1 DEF Frames, Framed, Contexts, Top
  <2>3. stack[u] = <<>>
    BY <2>1 DEF Frames, Framed
  <2>4. Framed(u)'
    BY <1>1, <2>1, <2>2, <2>3 DEF Framed, Frame, Contexts, Depth
  <2> QED BY <1>2, <2>1, <2>4 DEF Frames
<1> QED BY <1>3, <1>4

-----------------------------------------------------------------------------
(* While a write is open, the body of the write that it joins goes on.     *)

LEMMA FramesStep ==
  ASSUME Sound, Frames, Placed, ~MayOutlive, WriteNext
  PROVE  Frames'
<1>1. ASSUME NEW t \in Tasks, NEW w \in Writes, Leaves(t, w) PROVE Frames'
  <2>1. CASE stack' = stack
    BY <1>1, <2>1, FramesTurn
  <2>2. CASE \E how : Ends(t, w, how)
    BY <1>1, <2>2, FramesPop
  <2> QED BY <1>1, <2>1, <2>2 DEF Leaves
<1>2. ASSUME NEW t \in Tasks, NEW w \in Writes, Pops(t, w) PROVE Frames'
  BY <1>2, FramesPop DEF Pops
<1>3. CASE UNCHANGED <<at, stack, parent, saved, pending, life>>
  BY <1>3 DEF Frames, Framed, Frame, Contexts, Depth, Top
<1>4. ASSUME NEW t \in Tasks, NEW w \in Writes, Pushes(t, w) PROVE Frames'
  BY <1>4, FramesPush
<1>5. ASSUME NEW t \in Tasks, NEW w \in Writes, Turns(t, w) PROVE Frames'
  BY <1>5, FramesTurn
<1>6. ASSUME NEW t \in Tasks, Finish(t) \/ \E u \in Tasks : Spawn(t, u) PROVE Frames'
  BY <1>6, FramesTasks
<1> QED BY <1>1, <1>2, <1>3, <1>4, <1>5, <1>6, FrameMoves, Zenon

(* What is joined has been entered, and only creations join. *)
Entered ==
  \A w \in Writes : /\ parent[w] # None => at[parent[w]] \notin {"new", "entering", "fetching"}
                    /\ outcome[w] = "joined" => w \in Creations

LEMMA AtMoves ==
  ASSUME Sound, WriteNext, NEW v \in Writes, at[v] \notin {"new", "entering", "fetching"}
  PROVE  at'[v] \notin {"new", "entering", "fetching"}
<1>0. WriteTypeOK
  BY DEF Sound
<1>1. ASSUME NEW t \in Tasks, NEW w \in Writes, Pushes(t, w)
      PROVE  at'[v] \notin {"new", "entering", "fetching"}
  BY <1>0, <1>1 DEF Pushes, WriteTypeOK
<1>2. ASSUME NEW t \in Tasks, NEW w \in Writes, Enter(t, w)
      PROVE  at'[v] \notin {"new", "entering", "fetching"}
  BY <1>0, <1>2 DEF Enter, WriteTypeOK
<1>3. ASSUME NEW t \in Tasks, NEW w \in Writes, Fetch(t, w) \/ RefuseExit(t, w)
      PROVE  at'[v] \notin {"new", "entering", "fetching"}
  BY <1>0, <1>3 DEF Fetch, RefuseExit, WriteTypeOK
<1>4. ASSUME NEW t \in Tasks, NEW w \in Writes, Leaves(t, w) \/ Pops(t, w)
      PROVE  at'[v] \notin {"new", "entering", "fetching"}
  BY <1>0, <1>4 DEF Leaves, Pops, Ends, WriteTypeOK
<1>5. ASSUME UNCHANGED at
      PROVE  at'[v] \notin {"new", "entering", "fetching"}
  BY <1>5
<1>6. ASSUME NEW t \in Tasks, NEW w \in Writes, OpenCommit(t, w) \/ OpenCreation(t, w) \/ OpenApart(t, w)
      PROVE  Pushes(t, w)
  BY <1>6 DEF OpenCommit, OpenCreation, OpenApart, Open, Pushes
<1>7. ASSUME NEW t \in Tasks, NEW w \in Writes, NEW how, Leave(t, w, how)
      PROVE  Leaves(t, w)
  BY <1>7 DEF Leave, Leaves, Restored
<1>8. ASSUME NEW t \in Tasks, NEW w \in Writes,
             RefuseEntry(t, w) \/ ExitCommit(t, w) \/ WriteError(t, w) \/ CreateAlone(t, w)
               \/ RefuseCreation(t, w) \/ Join(t, w)
      PROVE  Pops(t, w)
  BY <1>8 DEF RefuseEntry, ExitCommit, WriteError, CreateAlone, RefuseCreation, Join, Pops
<1>9. ASSUME NEW t \in Tasks, NEW w \in Writes, NEW x, NEW p, Update(t, w, x, p)
      PROVE  UNCHANGED at
  BY <1>9 DEF Update
<1>10. ASSUME NEW t \in Tasks, NEW u \in Tasks, Finish(t) \/ Spawn(t, u)
       PROVE  UNCHANGED at
  BY <1>10 DEF Finish, Spawn
<1> QED BY <1>1, <1>2, <1>3, <1>4, <1>5, <1>6, <1>7, <1>8, <1>9, <1>10, Zenon DEF WriteNext, Ongoing

LEMMA EnteredStep ==
  ASSUME Sound, Frames, Entered, WriteNext
  PROVE  Entered'
<1>0. WriteTypeOK /\ Known
  BY DEF Sound
<1>1. ASSUME NEW w \in Writes, outcome'[w] = "joined" PROVE w \in Creations
  <2>1. outcome[w] = "joined" \/ \E t \in Tasks : Join(t, w)
    BY <1>0, <1>1, StateMoves
  <2> QED BY <2>1 DEF Entered, Join
<1>2. ASSUME NEW w \in Writes, parent'[w] # None, parent'[w] = parent[w]
      PROVE  at'[parent'[w]] \notin {"new", "entering", "fetching"}
  <2>1. parent[w] \in Writes /\ at[parent[w]] \notin {"new", "entering", "fetching"}
    BY <1>0, <1>2 DEF WriteTypeOK, Entered
  <2> QED BY <1>2, <2>1, AtMoves
<1>3. ASSUME NEW t \in Tasks, NEW v \in Writes, OpenCreation(t, v), NEW w \in Writes, parent'[w] # None
      PROVE  at'[parent'[w]] \notin {"new", "entering", "fetching"}
  <2>1. parent'[w] = IF w = v THEN Joins(t, v) ELSE parent[w]
    BY <1>0, <1>3 DEF OpenCreation, WriteTypeOK
  <2>2. CASE w # v
    BY <1>2, <1>3, <2>1, <2>2
  <2>3. CASE w = v
    <3>1. pending[t] # None /\ parent'[w] = pending[t] /\ InCode(t)
      BY <1>3, <2>1, <2>3 DEF Joins, OpenCreation, Open
    <3>2. pending[t] \in Contexts(t, Len(stack[t]))
      <4>1. Depth(t) = Len(stack[t])
        BY <3>1 DEF InCode, Depth
      <4> QED BY <4>1 DEF Frames, Framed
    <3>3. at[pending[t]] = "body"
      <4>1. CASE stack[t] = <<>>
        <5>1. pending[t] = life[t].base
          BY <3>1, <3>2, <4>1 DEF Contexts
        <5> QED BY <3>1, <5>1 DEF Frames, Framed, InCode
      <4>2. CASE stack[t] # <<>>
        <5>1. Len(stack[t]) # 0
          BY <1>0, <4>2, TopIs
        <5>2. pending[t] = Top(t)
          BY <3>1, <3>2, <5>1 DEF Contexts, Top
        <5> QED BY <3>1, <4>2, <5>2 DEF InCode
      <4> QED BY <4>1, <4>2
    <3>4. pending[t] \in Writes
      BY <1>0, <3>1 DEF WriteTypeOK
    <3> QED BY <3>1, <3>3, <3>4, AtMoves
  <2> QED BY <2>2, <2>3
<1>4. ASSUME NEW w \in Writes, parent'[w] # None
      PROVE  at'[parent'[w]] \notin {"new", "entering", "fetching"}
  BY <1>2, <1>3, <1>4, ParentMoves
<1> QED BY <1>1, <1>4 DEF Entered

(* While a write is open, the body of the write that it joins goes on. *)
LEMMA ParentInBody ==
  ASSUME Sound, Frames, Placed, NEW w \in Writes, at[w] \notin {"new", "over"}, parent[w] # None
  PROVE  at[parent[w]] = "body"
<1>0. WriteTypeOK
  BY DEF Sound
<1>t. PICK t \in Tasks : \E n \in DOMAIN stack[t] : stack[t][n] = w
  BY DEF Placed
<1>1. PICK n \in DOMAIN stack[t] : stack[t][n] = w
  BY <1>t
<1>2. Framed(t) /\ Frame(t, n) /\ stack[t] \in Seq(Writes)
  BY <1>0 DEF Frames, Framed, WriteTypeOK
<1>3. parent[w] = IF n - 1 = 0 THEN life[t].base ELSE stack[t][n - 1]
  BY <1>1, <1>2 DEF Frame, Contexts
<1>4. CASE n = 1
  <2>1. life[t].on = "running"
    BY <1>1, <1>2 DEF Framed
  <2>2. parent[w] = life[t].of
    BY <1>2, <1>3, <1>4 DEF Framed
  <2> QED BY <1>2, <2>1, <2>2 DEF Framed
<1>5. CASE n # 1
  <2>1. n - 1 \in DOMAIN stack[t] /\ n - 1 # Len(stack[t]) /\ n - 1 # 0
    BY <1>2, <1>5
  <2>2. Frame(t, n - 1)
    BY <1>2, <2>1 DEF Framed
  <2> QED BY <1>3, <2>1, <2>2 DEF Frame
<1> QED BY <1>4, <1>5

(* The inductive invariant where every body ends after its tasks.          *)
Nested == Sound /\ Frames /\ Placed /\ Entered

LEMMA NestedInit ==
  ASSUME WriteInit
  PROVE  Nested
<1>1. Frames
  BY DEF WriteInit, Unborn, Frames, Framed, Contexts, Depth
<1>2. Placed /\ Entered
  BY DEF WriteInit, Placed, Entered
<1> QED BY <1>1, <1>2, SoundInit DEF Nested

LEMMA NestedStep ==
  ASSUME Nested, ~MayOutlive, [WriteNext]_writeVars
  PROVE  Nested'
<1>1. CASE WriteNext
  BY <1>1, SoundStep, FramesStep, PlacedStep, EnteredStep DEF Nested
<1>2. CASE UNCHANGED writeVars
  <2>1. Sound'
    BY <1>2, SoundStep DEF Nested
  <2>2. Frames'
    BY <1>2 DEF Nested, Frames, Framed, Frame, Contexts, Depth, Top, writeVars
  <2>3. Placed' /\ Entered'
    BY <1>2 DEF Nested, Placed, Entered, writeVars
  <2> QED BY <2>1, <2>2, <2>3 DEF Nested
<1> QED BY <1>1, <1>2

-----------------------------------------------------------------------------
(* What is joined is written with the write that it joins.                 *)

(* The write v has a Create of x staged that it may still send. *)
Sends(v, x) == at[v] # "over" /\ Makes(staged[v], x)

(* A joined creation w and the write p that it joined: its Create waits    *)
(* with p while p is open and is nowhere in the log, moves on with p when  *)
(* p joins, is in the exit of p when p commits, and is gone otherwise.     *)
JoinsTo(w, p) ==
  /\ at[p] \in {"body", "exiting"} => Sends(p, w)
  /\ outcome[p] = "none" => Made(w) = {} /\ \A v \in Writes : Sends(v, w) => v = p
  /\ outcome[p] = "joined" => Made(w) = Made(p) /\ \A v \in Writes : Sends(v, w) <=> Sends(v, p)
  /\ outcome[p] = "committed" => \E n \in Made(w) : log[n].write = p /\ log[n].part = "exit"
  /\ outcome[p] \notin {"none", "joined"} => \A v \in Writes : ~Sends(v, w)
  /\ outcome[p] \notin {"none", "joined", "committed"} => Made(w) = {}

(* What is staged is in no log, and each joined creation follows its write. *)
Joined ==
  /\ \A w \in Creations : outcome[w] = "none" => Made(w) = {}
  /\ \A w \in Creations, v \in Writes : Sends(v, w) => Made(w) = {}
  /\ \A w \in Creations, p \in Writes : outcome[w] = "joined" /\ parent[w] = p => JoinsTo(w, p)

(* The kinds of steps that what is joined sees. *)
KeepsLog ==
  /\ \A x \in Creations : Made(x)' = Made(x)
  /\ \A n \in DOMAIN log : n \in DOMAIN log' /\ log'[n] = log[n]

Quiet ==
  /\ outcome' = outcome /\ KeepsLog
  /\ \A v \in Writes, x \in Creations : Sends(v, x)' <=> Sends(v, x)
  /\ \A x \in Writes : outcome[x] = "joined" => parent'[x] = parent[x]
  /\ \A x, p \in Writes : parent[x] = p /\ at'[p] \in {"body", "exiting"} => at[p] \in {"body", "exiting"}

Alone(w) ==
  /\ \A v \in Writes : v # w => at'[v] = at[v] /\ outcome'[v] = outcome[v]
  /\ \A v \in Writes, x \in Creations : Sends(v, x)' <=> v # w /\ Sends(v, x)
  /\ parent' = parent

Drops(w) ==
  /\ outcome[w] = "none" /\ outcome'[w] \notin {"joined", "committed"} /\ at'[w] \notin {"body", "exiting"}
  /\ KeepsLog /\ Alone(w)

Sending(w) ==
  /\ at[w] = "exiting" /\ outcome[w] = "none" /\ outcome'[w] = "committed" /\ at'[w] = "over"
  /\ Adds(w, "exit", Merged(Given(w))) /\ Once(Merged(Given(w))) /\ Alone(w)

LEMMA MadeMoves ==
  ASSUME WriteTypeOK, NEW w, NEW part, NEW changes, Adds(w, part, changes), NEW x
  PROVE  Made(x)' = Made(x) \cup (IF Makes(changes, x) THEN {Len(log) + 1} ELSE {})
<1> DEFINE k == Len(log) + 1
           l == log'
<1>1. /\ k \in DOMAIN l /\ l[k].changes = changes /\ k \notin DOMAIN log
      /\ \A n \in DOMAIN l : n = k \/ (n \in DOMAIN log /\ l[n] = log[n])
      /\ \A n \in DOMAIN log : n \in DOMAIN l /\ l[n] = log[n]
  BY AddsIs
<1>2. Made(x)' = {n \in DOMAIN l : Makes(l[n].changes, x)}
  BY DEF Made, Makes
<1> HIDE DEF k, l
<1>3. ASSUME NEW n \in DOMAIN l, Makes(l[n].changes, x)
      PROVE  n \in Made(x) \/ (n = k /\ Makes(changes, x))
  BY <1>1, <1>3 DEF Made
<1>4. ASSUME NEW n \in Made(x) PROVE n \in DOMAIN l /\ Makes(l[n].changes, x)
  BY <1>1, <1>4 DEF Made
<1>5. Makes(changes, x) => k \in DOMAIN l /\ Makes(l[k].changes, x)
  BY <1>1
<1> QED BY <1>2, <1>3, <1>4, <1>5 DEF k

LEMMA LogKept ==
  ASSUME WriteTypeOK, NEW w, log' = log \/ Adds(w, "entry", EntryChanges(w)) \/ Adds(w, "error", ErrorChanges(w))
  PROVE  KeepsLog
<1>1. CASE log' = log
  BY <1>1 DEF KeepsLog, Made, Makes
<1>2. ASSUME NEW part, NEW changes, Adds(w, part, changes), \A x : ~Makes(changes, x)
      PROVE  KeepsLog
  <2>1. \A x : Made(x)' = Made(x)
    BY <1>2, MadeMoves
  <2>2. \A n \in DOMAIN log : n \in DOMAIN log' /\ log'[n] = log[n]
    BY <1>2, AddsIs
  <2> QED BY <2>1, <2>2 DEF KeepsLog
<1> QED BY <1>1, <1>2, EntryMakesNothing

LEMMA SendsMoves ==
  ASSUME NEW v, NEW x
  PROVE  /\ Sends(v, x)' <=> at'[v] # "over" /\ Makes(staged'[v], x)
         /\ (at'[v] # "over" <=> at[v] # "over") /\ staged'[v] = staged[v] => (Sends(v, x)' <=> Sends(v, x))
         /\ at'[v] = "over" \/ staged'[v] = <<>> => ~Sends(v, x)'
<1>1. ~Makes(<<>>, x)
  BY DEF Makes, ToSet
<1> QED BY <1>1 DEF Sends, Makes

LEMMA QuietKinds ==
  ASSUME Nested, NEW t \in Tasks, NEW w \in Writes,
         \/ OpenCommit(t, w) \/ OpenCreation(t, w) \/ OpenApart(t, w) \/ Enter(t, w) \/ Fetch(t, w)
         \/ (Leave(t, w, "clean") /\ at' = [at EXCEPT ![w] = "exiting"] /\ UNCHANGED <<staged, outcome>>)
  PROVE  Quiet
<1>0. WriteTypeOK /\ Known
  BY DEF Nested, Sound
<1>1. /\ outcome' = outcome /\ staged' = staged
      /\ \A v \in Writes : v # w => at'[v] = at[v] /\ parent'[v] = parent[v]
      /\ parent' = parent \/ at[w] = "new"
      /\ at[w] # "over" /\ at'[w] # "over"
      /\ at[w] \in {"new", "entering", "fetching", "body"}
  <2>1. CASE OpenCommit(t, w)
    BY <1>0, <2>1 DEF OpenCommit, Open, WriteTypeOK
  <2>2. CASE OpenCreation(t, w)
    BY <1>0, <2>2 DEF OpenCreation, Open, WriteTypeOK
  <2>3. CASE OpenApart(t, w)
    BY <1>0, <2>3 DEF OpenApart, Open, WriteTypeOK
  <2>4. CASE Enter(t, w)
    BY <1>0, <2>4 DEF Enter, WriteTypeOK
  <2>5. CASE Fetch(t, w)
    BY <1>0, <2>5 DEF Fetch, WriteTypeOK
  <2>6. CASE Leave(t, w, "clean") /\ at' = [at EXCEPT ![w] = "exiting"] /\ UNCHANGED <<staged, outcome>>
    BY <1>0, <2>6 DEF Leave, WriteTypeOK
  <2> QED BY <2>1, <2>2, <2>3, <2>4, <2>5, <2>6
<1>2. log' = log \/ Adds(w, "entry", EntryChanges(w))
  BY DEF OpenCommit, OpenCreation, OpenApart, Enter, Fetch, Leave, Admit, Adds
<1>3. KeepsLog
  BY <1>0, <1>2, LogKept
<1>4. \A v \in Writes, x \in Creations : Sends(v, x)' <=> Sends(v, x)
  <2>1. ASSUME NEW v \in Writes PROVE (at'[v] # "over" <=> at[v] # "over") /\ staged'[v] = staged[v]
    BY <1>1
  <2> QED BY <2>1, SendsMoves
<1>5. ASSUME NEW x \in Writes, outcome[x] = "joined" PROVE parent'[x] = parent[x]
  BY <1>0, <1>1, <1>5 DEF Known
<1>6. ASSUME NEW x \in Writes, NEW p \in Writes, parent[x] = p, at'[p] \in {"body", "exiting"}
      PROVE  at[p] \in {"body", "exiting"}
  <2>1. at[p] \notin {"new", "entering", "fetching"}
    BY <1>6, WritesApart DEF Nested, Entered
  <2> QED BY <1>1, <1>6, <2>1
<1> QED BY <1>1, <1>3, <1>4, <1>5, <1>6 DEF Quiet

LEMMA UpdateMakes ==
  ASSUME Sound, NEW t \in Tasks, NEW w \in Writes, NEW x \in Writes \cup {Shared}, NEW p \in {"status", "result"},
         Update(t, w, x, p), NEW v \in Writes, NEW y
  PROVE  Makes(staged'[v], y) <=> Makes(staged[v], y)
<1> DEFINE c == Change(x, FALSE, [q \in {p} |-> "set"])
<1>1. /\ c \in Changes /\ staged'[w] = Append(staged[w], c)
      /\ \A u \in Writes : u # w => staged'[u] = staged[u]
  BY UpdateIs, Zenon
<1>2. ~c.new
  BY ChangeParts, Zenon
<1>3. staged[w] \in Seq(Changes)
  BY DEF Sound, WriteTypeOK
<1> HIDE DEF c
<1>4. Makes(Append(staged[w], c), y) <=> Makes(staged[w], y) \/ (c.inst = y /\ c.new)
  BY <1>1, <1>3, MakesAppend
<1>5. Makes(Append(staged[w], c), y) <=> Makes(staged[w], y)
  BY <1>2, <1>4, Zenon
<1> QED BY <1>1, <1>5

LEMMA StillKinds ==
  ASSUME Nested, NEW t \in Tasks,
         \/ Finish(t) \/ (\E u \in Tasks : Spawn(t, u))
         \/ \E w \in Writes, x \in Writes \cup {Shared}, p \in {"status", "result"} : Update(t, w, x, p)
  PROVE  Quiet
<1>0. WriteTypeOK /\ Sound
  BY DEF Nested, Sound
<1>1. UNCHANGED <<at, outcome, parent, log>>
  BY DEF Finish, Spawn, Update
<1>2. KeepsLog
  BY <1>0, <1>1, LogKept
<1>3. ASSUME NEW v \in Writes, NEW x \in Creations PROVE Makes(staged'[v], x) <=> Makes(staged[v], x)
  <2>1. CASE staged' = staged
    BY <2>1
  <2>2. ASSUME NEW w \in Writes, NEW y \in Writes \cup {Shared}, NEW p \in {"status", "result"},
               Update(t, w, y, p)
        PROVE  Makes(staged'[v], x) <=> Makes(staged[v], x)
    BY <1>0, <2>2, UpdateMakes
  <2> QED BY <2>1, <2>2 DEF Finish, Spawn
<1>4. \A v \in Writes, x \in Creations : Sends(v, x)' <=> Sends(v, x)
  BY <1>1, <1>3, SendsMoves, Zenon DEF Sends
<1> QED BY <1>1, <1>2, <1>4 DEF Quiet

LEMMA AloneIs ==
  ASSUME WriteTypeOK, NEW w \in Writes, parent' = parent,
         \A v \in Writes : v # w => at'[v] = at[v] /\ outcome'[v] = outcome[v] /\ staged'[v] = staged[v],
         at'[w] = "over" \/ staged'[w] = <<>>
  PROVE  Alone(w)
<1>1. ASSUME NEW v \in Writes, NEW x \in Creations PROVE Sends(v, x)' <=> v # w /\ Sends(v, x)
  <2>1. CASE v = w
    BY <2>1, SendsMoves
  <2>2. CASE v # w
    BY <2>2, SendsMoves
  <2> QED BY <2>1, <2>2
<1> QED BY <1>1 DEF Alone

LEMMA DropKinds ==
  ASSUME Nested, NEW t \in Tasks, NEW w \in Writes,
         \/ RefuseEntry(t, w) \/ RefuseExit(t, w) \/ WriteError(t, w) \/ RefuseCreation(t, w)
         \/ \E how : Leave(t, w, how) /\ at' # [at EXCEPT ![w] = "exiting"]
  PROVE  Drops(w)
<1>0. WriteTypeOK /\ Known
  BY DEF Nested, Sound
<1>1. /\ outcome[w] = "none" /\ outcome'[w] \notin {"joined", "committed"} /\ at'[w] \notin {"body", "exiting"}
      /\ \A v \in Writes : v # w => at'[v] = at[v] /\ outcome'[v] = outcome[v] /\ staged'[v] = staged[v]
      /\ at'[w] = "over" \/ staged'[w] = <<>>
      /\ parent' = parent
  <2>1. CASE RefuseEntry(t, w)
    BY <1>0, <2>1, EndsIs DEF RefuseEntry, Known
  <2>2. CASE RefuseExit(t, w)
    BY <1>0, <2>2 DEF RefuseExit, Known, WriteTypeOK
  <2>3. CASE WriteError(t, w)
    BY <1>0, <2>3, EndsIs DEF WriteError, Known
  <2>4. CASE RefuseCreation(t, w)
    <3>1. Ends(t, w, "refused") /\ at[w] = "exiting" /\ staged' = [staged EXCEPT ![w] = <<>>] /\ parent' = parent
      BY <2>4 DEF RefuseCreation
    <3> QED BY <1>0, <3>1, EndsIs DEF Known, WriteTypeOK
  <2>5. ASSUME NEW how, Leave(t, w, how), at' # [at EXCEPT ![w] = "exiting"]
        PROVE /\ outcome[w] = "none" /\ outcome'[w] \notin {"joined", "committed"} /\ at'[w] \notin {"body", "exiting"}
              /\ \A v \in Writes : v # w => at'[v] = at[v] /\ outcome'[v] = outcome[v] /\ staged'[v] = staged[v]
              /\ at'[w] = "over" \/ staged'[w] = <<>>
              /\ parent' = parent
    <3>0. at[w] = "body" /\ parent' = parent /\ outcome[w] = "none"
      BY <1>0, <2>5 DEF Leave, Known
    <3>1. CASE /\ at' = [at EXCEPT ![w] = "failing"] /\ outcome' = outcome
               /\ staged' = [staged EXCEPT ![w] = <<>>]
      BY <1>0, <3>0, <3>1 DEF WriteTypeOK
    <3>2. CASE /\ Ends(t, w, "interrupted") \/ Ends(t, w, "failed") \/ Ends(t, w, "plain")
               /\ staged' = staged \/ staged' = [staged EXCEPT ![w] = <<>>]
      BY <1>0, <3>0, <3>2, EndsIs DEF WriteTypeOK
    <3> QED BY <2>5, <3>1, <3>2 DEF Leave
  <2> QED BY <2>1, <2>2, <2>3, <2>4, <2>5
<1>2. log' = log \/ Adds(w, "error", ErrorChanges(w))
  <2>1. CASE WriteError(t, w)
    BY <2>1, Zenon DEF WriteError, Admit, Refuse, Adds
  <2>2. CASE RefuseCreation(t, w)
    BY <2>2, Zenon DEF RefuseCreation, Refuse
  <2> QED BY <2>1, <2>2 DEF RefuseEntry, RefuseExit, Leave, Refuse
<1>3. KeepsLog
  BY <1>0, <1>2, LogKept
<1>4. Alone(w)
  BY <1>0, <1>1, AloneIs
<1> QED BY <1>1, <1>3, <1>4 DEF Drops

LEMMA SendingKinds ==
  ASSUME Nested, NEW t \in Tasks, NEW w \in Writes, ExitCommit(t, w) \/ CreateAlone(t, w)
  PROVE  Sending(w)
<1>0. WriteTypeOK /\ Known
  BY DEF Nested, Sound
<1>1. /\ Ends(t, w, "committed") /\ at[w] = "exiting" /\ parent' = parent
      /\ Adds(w, "exit", Merged(Given(w))) /\ Once(Merged(Given(w)))
      /\ staged' = staged \/ staged' = [staged EXCEPT ![w] = <<>>]
  <2>1. CASE ExitCommit(t, w)
    BY <2>1, Zenon DEF ExitCommit, Admit, Acceptable, Adds
  <2>2. CASE CreateAlone(t, w)
    BY <2>2, Zenon DEF CreateAlone, Admit, Acceptable, Adds
  <2> QED BY <2>1, <2>2
<1>2. /\ at'[w] = "over" /\ outcome'[w] = "committed" /\ outcome[w] = "none"
      /\ \A v \in Writes : v # w => at'[v] = at[v] /\ outcome'[v] = outcome[v] /\ staged'[v] = staged[v]
  BY <1>0, <1>1, EndsIs DEF Known, WriteTypeOK
<1>3. Alone(w)
  BY <1>0, <1>1, <1>2, AloneIs
<1> QED BY <1>1, <1>2, <1>3 DEF Sending

LEMMA JoinKinds ==
  ASSUME Nested, WriteNext
  PROVE  \/ Quiet
         \/ \E w \in Writes : Drops(w) \/ Sending(w)
         \/ \E t \in Tasks, w \in Writes : Join(t, w)
<1>1. ASSUME NEW t \in Tasks, NEW w \in Writes, NEW how \in {"clean", "error", "interrupt"}, Leave(t, w, how)
      PROVE  Quiet \/ Drops(w)
  <2>1. CASE at' = [at EXCEPT ![w] = "exiting"]
    <3>1. Leave(t, w, "clean") /\ UNCHANGED <<staged, outcome>>
      <4>1. at[w] = "body" /\ at \in [Writes -> Ats]
        BY <1>1 DEF Leave, Nested, Sound, WriteTypeOK
      <4>2. at'[w] = "exiting"
        BY <2>1, <4>1
      <4>3. at' # [at EXCEPT ![w] = "failing"] /\ at' # [at EXCEPT ![w] = "over"]
        BY <4>1, <4>2
      <4> QED BY <1>1, <4>3 DEF Leave, Ends
    <3> QED BY <2>1, <3>1, QuietKinds
  <2>2. CASE at' # [at EXCEPT ![w] = "exiting"]
    BY <1>1, <2>2, DropKinds
  <2> QED BY <2>1, <2>2
<1> QED BY <1>1, QuietKinds, StillKinds, DropKinds, SendingKinds, Zenon DEF WriteNext, Ongoing

-----------------------------------------------------------------------------
(* Steps that drop what is staged, and steps that send it.                 *)

LEMMA JoinedQuiet ==
  ASSUME Nested, Joined, Quiet
  PROVE  Joined'
<1>1. \A w \in Creations : Made(w)' = Made(w)
  BY DEF Quiet, KeepsLog
<1>2. /\ \A w \in Creations : outcome'[w] = "none" => Made(w)' = {}
      /\ \A w \in Creations, v \in Writes : Sends(v, w)' => Made(w)' = {}
  BY <1>1 DEF Quiet, Joined
<1>3. ASSUME NEW w \in Creations, NEW p \in Writes, outcome'[w] = "joined", parent'[w] = p
      PROVE  JoinsTo(w, p)'
  <2>1. outcome[w] = "joined" /\ parent[w] = p /\ JoinsTo(w, p) /\ w \in Writes
    BY <1>3, WritesApart DEF Quiet, Joined
  <2>2. at'[p] \in {"body", "exiting"} => at[p] \in {"body", "exiting"}
    BY <2>1 DEF Quiet
  <2>3. \A v \in Writes : Sends(v, w)' <=> Sends(v, w)
    BY DEF Quiet
  <2>4. outcome'[p] = "joined" => p \in Creations /\ \A v \in Writes : Sends(v, p)' <=> Sends(v, p)
    BY DEF Quiet, Nested, Entered
  <2>5. \A n \in Made(w) : log'[n] = log[n]
    BY DEF Quiet, KeepsLog, Made
  <2>6. outcome'[p] = outcome[p] /\ Made(w)' = Made(w) /\ (outcome'[p] = "joined" => Made(p)' = Made(p))
    BY <1>1, <2>4 DEF Quiet
  <2> HIDE DEF Sends, Made
  <2> QED BY <2>1, <2>2, <2>3, <2>4, <2>5, <2>6 DEF JoinsTo
<1> QED BY <1>2, <1>3 DEF Joined

LEMMA JoinedDrops ==
  ASSUME Nested, Joined, NEW u \in Writes, Drops(u)
  PROVE  Joined'
<1>1. \A w \in Creations : Made(w)' = Made(w)
  BY DEF Drops, KeepsLog
<1>o. \A v \in Writes : /\ outcome'[v] = outcome[v] \/ (v = u /\ outcome[v] = "none" /\ outcome'[v] \notin {"joined", "committed"})
                        /\ v # u => at'[v] = at[v]
                        /\ \A x \in Creations : Sends(v, x)' <=> v # u /\ Sends(v, x)
  BY DEF Drops, Alone
<1>2. /\ \A w \in Creations : outcome'[w] = "none" => Made(w)' = {}
      /\ \A w \in Creations, v \in Writes : Sends(v, w)' => Made(w)' = {}
  BY <1>1, <1>o, WritesApart DEF Joined
<1>3. ASSUME NEW w \in Creations, NEW p \in Writes, outcome'[w] = "joined", parent'[w] = p
      PROVE  JoinsTo(w, p)'
  <2>1. outcome[w] = "joined" /\ parent[w] = p /\ JoinsTo(w, p) /\ w \in Writes
    BY <1>o, <1>3, WritesApart DEF Drops, Alone, Joined
  <2>2. \A n \in Made(w) : log'[n] = log[n]
    BY DEF Drops, KeepsLog, Made
  <2>3. Made(w)' = Made(w)
    BY <1>1
  <2>4. CASE p = u
    <3>1. /\ outcome[p] = "none" /\ outcome'[p] \notin {"joined", "committed"} /\ at'[p] \notin {"body", "exiting"}
      BY <2>4 DEF Drops
    <3>2. Made(w) = {} /\ \A v \in Writes : ~Sends(v, w)'
      BY <1>o, <2>1, <2>4, <3>1 DEF JoinsTo
    <3> HIDE DEF Sends, Made
    <3> QED BY <2>3, <3>1, <3>2 DEF JoinsTo
  <2>5. CASE p # u
    <3>1. outcome'[p] = outcome[p] /\ at'[p] = at[p]
      BY <1>o, <2>5
    <3>2. outcome'[p] = "joined" => p \in Creations
      BY <3>1 DEF Nested, Entered
    <3>3. outcome'[p] = "joined" => Made(p)' = Made(p) /\ \A v \in Writes : Sends(v, p)' <=> v # u /\ Sends(v, p)
      BY <1>1, <1>o, <3>2
    <3>4. \A v \in Writes : Sends(v, w)' <=> v # u /\ Sends(v, w)
      BY <1>o
    <3> HIDE DEF Sends, Made
    <3> QED BY <2>1, <2>2, <2>3, <2>5, <3>1, <3>3, <3>4 DEF JoinsTo
  <2> QED BY <2>4, <2>5
<1> QED BY <1>2, <1>3 DEF Joined

(* The creations that an exit makes: the write's own, and those it sends. *)
LEMMA SendingMakes ==
  ASSUME Nested, NEW u \in Writes, Sending(u), NEW x \in Creations
  PROVE  /\ Made(x)' = Made(x) \cup (IF x = u \/ Sends(u, x) THEN {Len(log) + 1} ELSE {})
         /\ Sends(u, x) => outcome[x] = "joined"
         /\ \A v \in Writes : Sends(u, x) /\ Sends(v, x) => u = v
         /\ \A v \in Writes : Sends(v, x) => outcome[x] = "joined"
<1>0. Sound /\ WriteTypeOK
  BY DEF Nested, Sound
<1>1. /\ Adds(u, "exit", Merged(Given(u))) /\ outcome[u] = "none" /\ at[u] # "over"
      /\ Once(Merged(Given(u)))
  BY DEF Sending
<1>2. Makes(Merged(Given(u)), x) <=> x = u \/ Sends(u, x)
  BY <1>0, <1>1, MergedMakes DEF Sends
<1>3. Made(x)' = Made(x) \cup (IF x = u \/ Sends(u, x) THEN {Len(log) + 1} ELSE {})
  BY <1>0, <1>1, <1>2, MadeMoves
<1>4. ASSUME NEW v \in Writes, Sends(v, x) PROVE outcome[x] = "joined"
  <2>1. PICK n \in DOMAIN staged[v] : staged[v][n].inst = x /\ staged[v][n].new
    BY <1>4 DEF Sends, Makes, ToSet
  <2>2. Stages(v, staged[v][n])
    BY <1>0 DEF Sound, StagedOK
  <2> QED BY <2>1, <2>2, Zenon DEF Stages
<1>5. ASSUME NEW v \in Writes, Sends(u, x), Sends(v, x) PROVE u = v
  <2>1. PICK n \in DOMAIN staged[v] : staged[v][n].inst = x /\ staged[v][n].new
    BY <1>5 DEF Sends, Makes, ToSet
  <2>2. PICK m \in DOMAIN staged[u] : staged[u][m].inst = x /\ staged[u][m].new
    BY <1>5 DEF Sends, Makes, ToSet
  <2> QED BY <1>0, <2>1, <2>2, Zenon DEF Sound, StagedOnce
<1> QED BY <1>3, <1>4, <1>5

LEMMA JoinedSending ==
  ASSUME Nested, Joined, NEW u \in Writes, Sending(u)
  PROVE  Joined'
<1>o. /\ \A v \in Writes : /\ v # u => outcome'[v] = outcome[v] /\ at'[v] = at[v]
                           /\ \A x \in Creations : Sends(v, x)' <=> v # u /\ Sends(v, x)
      /\ at[u] = "exiting" /\ at'[u] = "over" /\ outcome[u] = "none" /\ outcome'[u] = "committed"
      /\ parent' = parent
  BY DEF Sending, Alone
<1> DEFINE k == Len(log) + 1
<1>e. /\ k \notin DOMAIN log /\ log'[k].write = u /\ log'[k].part = "exit"
      /\ \A n \in DOMAIN log : log'[n] = log[n]
  BY AddsIs DEF Sending, Nested, Sound
<1>m. \A x \in Creations :
        /\ Made(x)' = Made(x) \cup (IF x = u \/ Sends(u, x) THEN {k} ELSE {})
        /\ \A v \in Writes : Sends(u, x) /\ Sends(v, x) => u = v
        /\ \A v \in Writes : Sends(v, x) => outcome[x] = "joined"
  BY SendingMakes
<1> HIDE DEF k, Sends, Made
<1>1. ASSUME NEW w \in Creations, outcome'[w] = "none" PROVE Made(w)' = {}
  <2>1. w # u /\ w \in Writes /\ outcome[w] = "none" /\ Made(w) = {}
    BY <1>o, <1>1, WritesApart DEF Joined
  <2>2. ~Sends(u, w)
    BY <1>m, <2>1
  <2> QED BY <1>m, <2>1, <2>2
<1>2. ASSUME NEW w \in Creations, NEW v \in Writes, Sends(v, w)' PROVE Made(w)' = {}
  <2>1. v # u /\ Sends(v, w) /\ Made(w) = {}
    BY <1>o, <1>2 DEF Joined
  <2>2. ~Sends(u, w) /\ w # u
    BY <1>m, <1>o, <2>1
  <2> QED BY <1>m, <2>1, <2>2
<1>3. ASSUME NEW w \in Creations, NEW p \in Writes, outcome'[w] = "joined", parent'[w] = p
      PROVE  JoinsTo(w, p)'
  <2>1. outcome[w] = "joined" /\ parent[w] = p /\ JoinsTo(w, p) /\ w # u
    BY <1>o, <1>3, WritesApart DEF Joined
  <2>2. CASE p = u
    <3>1. Sends(p, w) /\ \A v \in Writes : Sends(v, w) => v = p
      BY <1>o, <2>1, <2>2 DEF JoinsTo
    <3>2. k \in Made(w)' /\ \A v \in Writes : ~Sends(v, w)'
      BY <1>m, <1>o, <2>2, <3>1
    <3> QED BY <1>e, <1>o, <2>2, <3>2 DEF JoinsTo
  <2>3. CASE p # u
    <3>1. outcome'[p] = outcome[p] /\ at'[p] = at[p]
      BY <1>o, <2>3
    <3>2. \A v \in Writes : Sends(v, w)' <=> v # u /\ Sends(v, w)
      BY <1>o
    <3>3. CASE outcome[p] = "none"
      <4>1. ~Sends(u, w) /\ Made(w)' = {}
        BY <1>m, <2>1, <2>3, <3>3 DEF JoinsTo
      <4> QED BY <2>1, <2>3, <3>1, <3>2, <3>3, <4>1 DEF JoinsTo
    <3>4. CASE outcome[p] = "joined"
      <4>1. p \in Creations /\ at[p] = "over"
        BY <3>4 DEF Nested, Entered, Sound, Known
      <4>2. Made(w) = Made(p) /\ \A v \in Writes : Sends(v, w) <=> Sends(v, p)
        BY <2>1, <3>4 DEF JoinsTo
      <4>3. Made(w)' = Made(p)'
        BY <1>m, <2>1, <2>3, <4>1, <4>2
      <4>4. \A v \in Writes : Sends(v, p)' <=> v # u /\ Sends(v, p)
        BY <1>o, <4>1
      <4> QED BY <2>3, <3>1, <3>2, <3>4, <4>1, <4>2, <4>3, <4>4 DEF JoinsTo
    <3>5. CASE outcome[p] \notin {"none", "joined"}
      <4>1. \A v \in Writes : ~Sends(v, w)
        BY <2>1, <3>5 DEF JoinsTo
      <4>2. Made(w)' = Made(w)
        BY <1>m, <2>1, <4>1
      <4>3. at[p] = "over"
        BY <3>5 DEF Nested, Sound, Known
      <4>4. \A n \in Made(w) : log'[n] = log[n]
        BY <1>e DEF Made
      <4> QED BY <2>1, <3>1, <3>2, <3>5, <4>1, <4>2, <4>3, <4>4 DEF JoinsTo
    <3> QED BY <3>3, <3>4, <3>5
  <2> QED BY <2>2, <2>3
<1> QED BY <1>1, <1>2, <1>3 DEF Joined

-----------------------------------------------------------------------------
(* Steps in which a creation joins.                                        *)

LEMMA JoinMoves ==
  ASSUME Nested, WriteNext, NEW t \in Tasks, NEW u \in Writes, Join(t, u)
  PROVE  /\ u \in Creations /\ parent[u] \in Writes /\ parent[u] # u /\ at[parent[u]] = "body"
         /\ at[u] = "exiting" /\ at'[u] = "over" /\ outcome[u] = "none" /\ outcome'[u] = "joined"
         /\ parent' = parent /\ log' = log
         /\ \A v \in Writes : v # u => at'[v] = at[v] /\ outcome'[v] = outcome[v]
         /\ \A x \in Creations :
              /\ ~Sends(u, x)'
              /\ Sends(parent[u], x)' <=> Sends(parent[u], x) \/ x = u \/ Sends(u, x)
              /\ \A v \in Writes : v # u /\ v # parent[u] => (Sends(v, x)' <=> Sends(v, x))
         /\ \A v \in Writes : ~Sends(v, u)
<1>0. Sound /\ WriteTypeOK
  BY DEF Nested, Sound
<1>1. /\ u \in Creations /\ parent[u] \in Writes /\ parent[u] # u
      /\ outcome[u] = "none" /\ outcome'[u] = "joined" /\ parent' = parent /\ log' = log
      /\ staged'[parent[u]] = staged[parent[u]] \o Given(u) /\ staged'[u] = <<>>
      /\ \A v \in Writes : v # u /\ v # parent[u] => staged'[v] = staged[v]
  BY <1>0, JoinIs
<1>2. /\ at[u] = "exiting" /\ parent[u] # None /\ at'[u] = "over"
      /\ \A v \in Writes : v # u => at'[v] = at[v] /\ outcome'[v] = outcome[v]
  BY <1>0, EndsIs DEF Join
<1>3. at[parent[u]] = "body"
  BY <1>2, ParentInBody DEF Nested
<1>4. ASSUME NEW x \in Creations
      PROVE  /\ ~Sends(u, x)'
             /\ Sends(parent[u], x)' <=> Sends(parent[u], x) \/ x = u \/ Sends(u, x)
             /\ \A v \in Writes : v # u /\ v # parent[u] => (Sends(v, x)' <=> Sends(v, x))
  <2>1. PICK p \in Writes : p = parent[u]
    BY <1>1
  <2>2. staged[p] \in Seq(Changes) /\ Given(u) \in Seq(Changes)
    BY <1>0, GivenElements DEF WriteTypeOK
  <2>3. Makes(staged'[p], x) <=> Makes(staged[p], x) \/ x = u \/ Makes(staged[u], x)
    <3>1. staged'[p] = staged[p] \o Given(u)
      BY <1>1, <2>1
    <3>2. Makes(staged[p] \o Given(u), x) <=> Makes(staged[p], x) \/ Makes(Given(u), x)
      BY <2>2, MakesConcat
    <3>3. Makes(Given(u), x) <=> x = u \/ Makes(staged[u], x)
      BY <1>0, <1>1, MakesGiven
    <3> QED BY <3>1, <3>2, <3>3, Zenon
  <2>4. Sends(p, x)' <=> Makes(staged'[p], x)
    BY <1>1, <1>2, <1>3, <2>1, SendsMoves
  <2>5. Sends(parent[u], x)' <=> Sends(p, x)'
    BY <1>1, <2>1
  <2>6. Sends(parent[u], x) <=> Makes(staged[p], x)
    BY <1>3, <2>1 DEF Sends
  <2>7. Sends(u, x) <=> Makes(staged[u], x)
    BY <1>2 DEF Sends
  <2>8. ~Sends(u, x)'
    BY <1>2, SendsMoves
  <2>9. \A v \in Writes : v # u /\ v # parent[u] => (Sends(v, x)' <=> Sends(v, x))
    BY <1>1, <1>2, SendsMoves
  <2> QED BY <2>3, <2>4, <2>5, <2>6, <2>7, <2>8, <2>9
<1>5. ASSUME NEW v \in Writes, Sends(v, u) PROVE FALSE
  <2>1. PICK n \in DOMAIN staged[v] : staged[v][n].inst = u /\ staged[v][n].new
    BY <1>5 DEF Sends, Makes, ToSet
  <2>2. Stages(v, staged[v][n])
    BY <1>0 DEF Sound, StagedOK
  <2>3. outcome[u] = "joined"
    BY <1>1, <2>1, <2>2, Zenon DEF Stages
  <2> QED BY <1>1, <2>3
<1> QED BY <1>1, <1>2, <1>3, <1>4, <1>5

LEMMA JoinedJoin ==
  ASSUME Nested, Joined, WriteNext, NEW t \in Tasks, NEW u \in Writes, Join(t, u)
  PROVE  Joined'
<1>1. PICK q \in Writes : q = parent[u]
  BY JoinMoves
<1>2. /\ u \in Creations /\ q # u /\ at[q] = "body" /\ at'[q] = "body" /\ outcome[q] = "none" /\ outcome'[q] = "none"
      /\ at[u] = "exiting" /\ at'[u] = "over" /\ outcome[u] = "none" /\ outcome'[u] = "joined"
      /\ parent' = parent /\ log' = log
      /\ \A v \in Writes : v # u => at'[v] = at[v] /\ outcome'[v] = outcome[v]
      /\ \A v \in Writes : ~Sends(v, u)
  BY <1>1, JoinMoves DEF Nested, Sound, Known
<1>3. \A x \in Creations :
        /\ ~Sends(u, x)'
        /\ Sends(q, x)' <=> Sends(q, x) \/ x = u \/ Sends(u, x)
        /\ \A v \in Writes : v # u /\ v # q => (Sends(v, x)' <=> Sends(v, x))
  <2>1. \A x \in Creations : Sends(parent[u], x)' <=> Sends(q, x)'
    BY <1>1, <1>2
  <2>2. \A x \in Creations :
        /\ ~Sends(u, x)'
        /\ Sends(parent[u], x)' <=> Sends(parent[u], x) \/ x = u \/ Sends(u, x)
        /\ \A v \in Writes : v # u /\ v # parent[u] => (Sends(v, x)' <=> Sends(v, x))
    BY JoinMoves
  <2> HIDE DEF Sends
  <2> QED BY <1>1, <2>1, <2>2
<1>4. \A x : Made(x)' = Made(x)
  BY <1>2 DEF Made, Makes
<1>5. Made(u) = {}
  BY <1>2 DEF Joined
<1>6. ASSUME NEW x \in Creations, outcome'[x] = "none" PROVE Made(x)' = {}
  <2>1. outcome[x] = "none"
    BY <1>2, <1>6, WritesApart
  <2> QED BY <1>4, <2>1 DEF Joined
<1>7. ASSUME NEW x \in Creations, NEW v \in Writes, Sends(v, x)' PROVE Made(x)' = {}
  <2>1. Sends(v, x) \/ x = u \/ Sends(u, x)
    BY <1>3, <1>7
  <2> QED BY <1>4, <1>5, <2>1 DEF Joined
<1> HIDE DEF Sends, Made
<1>8. ASSUME NEW x \in Creations, NEW p \in Writes, outcome'[x] = "joined", parent'[x] = p
      PROVE  JoinsTo(x, p)'
  <2>1. CASE x = u
    <3>1. p = q
      BY <1>1, <1>2, <1>8, <2>1
    <3>2. Sends(p, x)' /\ \A v \in Writes : Sends(v, x)' => v = p
      BY <1>2, <1>3, <2>1, <3>1
    <3>3. Made(x)' = {}
      BY <1>4, <1>5, <2>1
    <3> QED BY <1>2, <3>1, <3>2, <3>3 DEF JoinsTo
  <2>2. CASE x # u
    <3>0. outcome[x] = "joined" /\ parent[x] = p /\ JoinsTo(x, p)
      BY <1>2, <1>8, <2>2, WritesApart DEF Joined
    <3>1. CASE p = u
      <4>1. Sends(u, x) /\ Made(x) = {} /\ \A v \in Writes : Sends(v, x) => v = u
        BY <1>2, <3>0, <3>1 DEF JoinsTo
      <4>2. \A v \in Writes : Sends(v, x)' <=> v = q
        BY <1>2, <1>3, <4>1
      <4>3. \A v \in Writes : Sends(v, u)' <=> v = q
        BY <1>2, <1>3
      <4>4. Made(x)' = Made(u)'
        BY <1>4, <1>5, <4>1
      <4> QED BY <1>2, <3>1, <4>2, <4>3, <4>4 DEF JoinsTo
    <3>2. CASE p # u
      <4>0. outcome'[p] = outcome[p] /\ at'[p] = at[p]
        BY <1>2, <3>2
      <4>1. CASE outcome[p] = "none"
        <5>1. \A v \in Writes : Sends(v, x) => v = p
          BY <3>0, <4>1 DEF JoinsTo
        <5>2. ~Sends(u, x)
          BY <3>2, <5>1
        <5>3. \A v \in Writes : Sends(v, x)' <=> Sends(v, x)
          BY <1>3, <2>2, <5>2
        <5> QED BY <1>4, <3>0, <4>0, <4>1, <5>1, <5>3 DEF JoinsTo
      <4>2. CASE outcome[p] = "joined"
        <5>1. p \in Creations /\ at[p] = "over"
          BY <4>2 DEF Nested, Entered, Sound, Known
        <5>2. \A v \in Writes : Sends(v, x) <=> Sends(v, p)
          BY <3>0, <4>2 DEF JoinsTo
        <5>3. \A v \in Writes : Sends(v, x)' <=> Sends(v, p)'
          BY <1>3, <2>2, <3>2, <5>1, <5>2
        <5> QED BY <1>4, <3>0, <4>0, <4>2, <5>1, <5>3 DEF JoinsTo
      <4>3. CASE outcome[p] \notin {"none", "joined"}
        <5>1. \A v \in Writes : ~Sends(v, x)
          BY <3>0, <4>3 DEF JoinsTo
        <5>2. \A v \in Writes : ~Sends(v, x)'
          BY <1>3, <2>2, <5>1
        <5>3. at[p] = "over"
          BY <4>3 DEF Nested, Sound, Known
        <5> QED BY <1>2, <1>4, <3>0, <4>0, <4>3, <5>2, <5>3 DEF JoinsTo
      <4> QED BY <4>1, <4>2, <4>3
    <3> QED BY <3>1, <3>2
  <2> QED BY <2>1, <2>2
<1> QED BY <1>6, <1>7, <1>8 DEF Joined

LEMMA JoinedStep ==
  ASSUME Nested, Joined, [WriteNext]_writeVars
  PROVE  Joined'
<1>1. CASE UNCHANGED writeVars
  BY <1>1 DEF Joined, JoinsTo, Sends, Made, Makes, writeVars
<1>2. CASE WriteNext
  BY <1>2, JoinKinds, JoinedQuiet, JoinedDrops, JoinedSending, JoinedJoin
<1> QED BY <1>1, <1>2

LEMMA JoinedInit ==
  ASSUME WriteInit
  PROVE  Joined
<1>1. \A x : Made(x) = {}
  BY DEF WriteInit, Made
<1>2. \A x : \A v \in Writes : ~Sends(v, x)
  BY DEF WriteInit, Sends, Makes, ToSet
<1>3. \A w \in Creations : outcome[w] = "none"
  BY DEF WriteInit, Writes
<1> QED BY <1>1, <1>2, <1>3 DEF Joined

(* Where bodies end after the tasks started in them, a creation that       *)
(* joined a write is admitted in the exit of that write or with the write  *)
(* that it joined in turn, and never when that write fails, is refused or  *)
(* is interrupted.                                                         *)
THEOREM CreationJoinedTogether ==
  ASSUME ~MayOutlive
  PROVE  WriteSpec => []JoinedTogether
<1>1. WriteInit => Nested /\ Joined
  BY NestedInit, JoinedInit
<1>2. Nested /\ Joined /\ [WriteNext]_writeVars => (Nested /\ Joined)'
  BY NestedStep, JoinedStep
<1>3. Nested /\ Joined => JoinedTogether
  <2>1. ASSUME Nested, Joined, NEW w \in Creations, outcome[w] = "joined"
        PROVE  LET p == parent[w] IN
               CASE outcome[p] = "committed" -> \E n \in Made(w) : log[n].write = p /\ log[n].part = "exit"
                 [] outcome[p] = "joined"    -> Made(w) = Made(p)
                 [] OTHER                    -> Made(w) = {}
    <3>1. parent[w] \in Writes
      BY <2>1, WritesApart DEF Nested, Sound, Known, WriteTypeOK
    <3>2. JoinsTo(w, parent[w])
      BY <2>1, <3>1 DEF Joined
    <3> QED BY <3>2 DEF JoinsTo
  <2> QED BY <2>1 DEF JoinedTogether
<1> QED BY <1>1, <1>2, <1>3, PTL DEF WriteSpec
===============================================================================
