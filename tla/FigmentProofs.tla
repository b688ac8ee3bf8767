---------------------------- MODULE FigmentProofs ----------------------------
(***************************************************************************)
(* Proofs about the figment contenders, for any list of files, any floor   *)
(* and any width of their pools: the parts they upload are parts that S3   *)
(* takes, an archive that exists leads from its directory to every file,   *)
(* and an error has a cause outside the program.                           *)
(*                                                                         *)
(* Most of it is about the plans. Joined sequences come first: FlattenSeq  *)
(* is a recursive function, of which lemmas by induction (over sets of     *)
(* numbers) say where the elements of its arguments end up. Then sorting   *)
(* by rank, what a reader finds in a directory, and that an archive is     *)
(* readable when it is the entries in some order that lists every file     *)
(* once, with the directory computed for that order (Lists1, ReadsBack).   *)
(* What is left for each planner is that its parts, joined, are those      *)
(* entries, however it cut them.                                           *)
(*                                                                         *)
(* The executions then only have to lose and to swap nothing: EngineInv    *)
(* says of every part at S3 which bytes it has, whoever uploaded it and    *)
(* whenever; ChainInv says of every segment which object its chain of      *)
(* links has built so far, and that its CRCs are known once it has passed  *)
(* its gate. In the plan of the chain the header of a big rides at the end *)
(* of the segment before it: a segment hands it over (HandOver), and only  *)
(* the segments together are the entries.                                  *)
(***************************************************************************)
EXTENDS FigmentEngine, ChainAssembly, Sums, SequenceTheorems
-----------------------------------------------------------------------------
(* Sequences joined *)

(* The provers do not find their way through terms that regroup themselves. *)
Regroup(a, b, c) == (a \o b) \o c = a \o (b \o c)

LEMMA RegroupAny ==
  ASSUME NEW T, NEW a \in Seq(T), NEW b \in Seq(T), NEW c \in Seq(T)
  PROVE  Regroup(a, b, c)
  BY ConcatAssociative DEF Regroup

JoinStep(s, g, i) == IF i = 1 THEN s[i] ELSE g[i - 1] \o s[i]
Joins(s, n) == CHOOSE g : g = [i \in 1 .. n |-> JoinStep(s, g, i)]

LEMMA FlattenIs ==
  ASSUME NEW s
  PROVE  FlattenSeq(s) = IF Len(s) = 0 THEN s ELSE Joins(s, Len(s))[Len(s)]
  BY DEF FlattenSeq, Joins, JoinStep

LEMMA JoinsExist ==
  ASSUME NEW s, NEW m \in Nat
  PROVE  Joins(s, m) = [i \in 1 .. m |-> JoinStep(s, Joins(s, m), i)]
<1> DEFINE T == {n \in Nat : \E g : g = [i \in 1 .. n |-> JoinStep(s, g, i)]}
<1>1. 0 \in T
  <2> DEFINE g0 == [i \in 1 .. 0 |-> 0]
  <2>1. g0 = [i \in 1 .. 0 |-> JoinStep(s, g0, i)]
    OBVIOUS
  <2> QED
    BY <2>1
<1>2. ASSUME NEW n \in Nat, n \in T PROVE n + 1 \in T
  <2>1. PICK g : g = [i \in 1 .. n |-> JoinStep(s, g, i)]
    BY <1>2
  <2> DEFINE h == [i \in 1 .. n + 1 |-> JoinStep(s, g, i)]
  <2>2. \A i \in 1 .. n : h[i] = g[i]
    BY <2>1
  <2>3. ASSUME NEW i \in 1 .. n + 1 PROVE JoinStep(s, g, i) = JoinStep(s, h, i)
    <3>1. CASE i = 1
      BY <3>1 DEF JoinStep
    <3>2. CASE i # 1
      <4>1. i - 1 \in 1 .. n
        BY <3>2
      <4>2. g[i - 1] = h[i - 1]
        BY <2>2, <4>1
      <4> QED
        BY <3>2, <4>2 DEF JoinStep
    <3> QED
      BY <3>1, <3>2
  <2>4. h = [i \in 1 .. n + 1 |-> JoinStep(s, h, i)]
    BY <2>3
  <2> HIDE DEF h
  <2>5. \E k : k = [i \in 1 .. n + 1 |-> JoinStep(s, k, i)]
    BY <2>4
  <2> QED
    BY <2>5
<1>3. m \in T
  <2>1. Nat \subseteq T
    BY <1>1, <1>2, SetInduction
  <2> QED
    BY <2>1
<1>4. \E g : g = [i \in 1 .. m |-> JoinStep(s, g, i)]
  BY <1>3
<1> QED
  BY <1>4 DEF Joins

LEMMA JoinsAt ==
  ASSUME NEW s, NEW m \in Nat, NEW i \in 1 .. m
  PROVE  Joins(s, m)[i] = JoinStep(s, Joins(s, m), i)
<1>1. Joins(s, m) = [k \in 1 .. m |-> JoinStep(s, Joins(s, m), k)]
  BY JoinsExist
<1> QED
  BY <1>1

(* The first parts of a list are joined alike, whatever follows. *)
LEMMA JoinsSame ==
  ASSUME NEW s, NEW t, NEW n \in Nat, NEW m \in Nat, n <= m, \A i \in 1 .. n : s[i] = t[i]
  PROVE  \A i \in 1 .. n : Joins(s, n)[i] = Joins(t, m)[i]
<1> DEFINE T == {k \in Nat : k + 1 \in 1 .. n => Joins(s, n)[k + 1] = Joins(t, m)[k + 1]}
<1>1. 0 \in T
  <2>1. ASSUME 1 \in 1 .. n PROVE Joins(s, n)[1] = Joins(t, m)[1]
    <3>1. 1 \in 1 .. m
      BY <2>1
    <3>2. Joins(s, n)[1] = JoinStep(s, Joins(s, n), 1)
      BY <2>1, JoinsAt
    <3>3. Joins(t, m)[1] = JoinStep(t, Joins(t, m), 1)
      BY <3>1, JoinsAt
    <3> QED
      BY <2>1, <3>2, <3>3 DEF JoinStep
  <2> QED
    BY <2>1
<1>2. ASSUME NEW k \in Nat, k \in T PROVE k + 1 \in T
  <2>1. ASSUME k + 2 \in 1 .. n PROVE Joins(s, n)[k + 2] = Joins(t, m)[k + 2]
    <3>1. k + 2 \in 1 .. m /\ k + 1 \in 1 .. n
      BY <2>1
    <3>2. Joins(s, n)[k + 2] = JoinStep(s, Joins(s, n), k + 2)
      BY <2>1, JoinsAt
    <3>3. Joins(t, m)[k + 2] = JoinStep(t, Joins(t, m), k + 2)
      BY <3>1, JoinsAt
    <3>4. Joins(s, n)[k + 1] = Joins(t, m)[k + 1]
      BY <1>2, <3>1
    <3>5. (k + 2) - 1 = k + 1 /\ k + 2 # 1 /\ s[k + 2] = t[k + 2]
      BY <2>1
    <3> QED
      BY <3>2, <3>3, <3>4, <3>5 DEF JoinStep
  <2>2. k + 1 \in Nat /\ (k + 1) + 1 = k + 2
    OBVIOUS
  <2> HIDE DEF JoinStep
  <2> QED
    BY <2>1, <2>2
<1>3. Nat \subseteq T
  BY <1>1, <1>2, SetInduction
<1>4. ASSUME NEW i \in 1 .. n PROVE Joins(s, n)[i] = Joins(t, m)[i]
  <2>1. i - 1 \in T /\ (i - 1) + 1 = i
    BY <1>3
  <2> QED
    BY <2>1
<1> QED
  BY <1>4

LEMMA FlattenEmpty == FlattenSeq(<<>>) = <<>>
  BY FlattenIs

LEMMA FlattenOne ==
  ASSUME NEW x
  PROVE  FlattenSeq(<<x>>) = x
<1> DEFINE t == <<x>>
<1>1. Len(t) = 1 /\ t[1] = x
  OBVIOUS
<1> HIDE DEF t
<1>2. FlattenSeq(t) = Joins(t, 1)[1]
  <2>1. FlattenSeq(t) = IF Len(t) = 0 THEN t ELSE Joins(t, Len(t))[Len(t)]
    BY FlattenIs
  <2> QED
    BY <1>1, <2>1
<1>3. Joins(t, 1)[1] = JoinStep(t, Joins(t, 1), 1)
  BY JoinsAt
<1>4. FlattenSeq(t) = x
  BY <1>1, <1>2, <1>3 DEF JoinStep
<1> QED
  BY <1>4 DEF t

LEMMA FlattenAppend ==
  ASSUME NEW T, NEW s \in Seq(Seq(T)), NEW x \in Seq(T)
  PROVE  FlattenSeq(Append(s, x)) = FlattenSeq(s) \o x
<1>1. CASE s = <<>>
  <2>1. Append(s, x) = <<x>>
    BY <1>1
  <2>2. FlattenSeq(s) \o x = x
    BY <1>1, FlattenEmpty, ConcatEmptySeq
  <2> QED
    BY <2>1, <2>2, FlattenOne
<1>2. CASE s # <<>>
  <2> DEFINE t == Append(s, x)
             m == Len(s)
  <2>1. m \in Nat \ {0} /\ Len(t) = m + 1 /\ t[m + 1] = x /\ \A i \in 1 .. m : s[i] = t[i]
    BY <1>2, AppendProperties, EmptySeq
  <2> HIDE DEF t, m
  <2>2. FlattenSeq(s) = Joins(s, m)[m] /\ FlattenSeq(t) = Joins(t, m + 1)[m + 1]
    BY <2>1, FlattenIs DEF m
  <2>3. Joins(t, m + 1)[m + 1] = JoinStep(t, Joins(t, m + 1), m + 1)
    BY <2>1, JoinsAt
  <2>4. JoinStep(t, Joins(t, m + 1), m + 1) = Joins(t, m + 1)[m] \o x
    BY <2>1 DEF JoinStep
  <2>5. \A i \in 1 .. m : Joins(s, m)[i] = Joins(t, m + 1)[i]
    BY <2>1, JoinsSame
  <2>6. m \in 1 .. m
    BY <2>1
  <2> QED
    BY <2>2, <2>3, <2>4, <2>5, <2>6 DEF t
<1> QED
  BY <1>1, <1>2

LEMMA FlattenType ==
  ASSUME NEW T, NEW s \in Seq(Seq(T))
  PROVE  FlattenSeq(s) \in Seq(T)
<1> DEFINE N == {n \in Nat : \A q \in Seq(Seq(T)) : Len(q) = n => FlattenSeq(q) \in Seq(T)}
<1>1. 0 \in N
  <2>1. \A q \in Seq(Seq(T)) : Len(q) = 0 => q = <<>>
    BY EmptySeq
  <2>2. <<>> \in Seq(T)
    BY EmptySeq
  <2> QED
    BY <2>1, <2>2, FlattenEmpty
<1>2. ASSUME NEW n \in Nat, n \in N PROVE n + 1 \in N
  <2>1. ASSUME NEW q \in Seq(Seq(T)), Len(q) = n + 1 PROVE FlattenSeq(q) \in Seq(T)
    <3>1. q # <<>>
      BY <2>1, EmptySeq
    <3>2. PICK p \in Seq(Seq(T)), x \in Seq(T) : q = Append(p, x)
      BY <3>1, SequenceEmptyOrAppend
    <3>3. Len(p) = n
      BY <2>1, <3>2, AppendProperties, LenProperties
    <3>4. FlattenSeq(p) \in Seq(T)
      BY <1>2, <3>3
    <3>5. FlattenSeq(q) = FlattenSeq(p) \o x
      BY <3>2, FlattenAppend
    <3> QED
      BY <3>4, <3>5, ConcatProperties
  <2> QED
    BY <2>1
<1>3. Nat \subseteq N
  BY <1>1, <1>2, SetInduction
<1>4. Len(s) \in N
  BY <1>3, LenProperties
<1> QED
  BY <1>4

LEMMA FlattenConcat ==
  ASSUME NEW T, NEW s \in Seq(Seq(T)), NEW t \in Seq(Seq(T))
  PROVE  FlattenSeq(s \o t) = FlattenSeq(s) \o FlattenSeq(t)
<1> DEFINE N == {n \in Nat : \A q \in Seq(Seq(T)) : Len(q) = n => FlattenSeq(s \o q) = FlattenSeq(s) \o FlattenSeq(q)}
<1>1. 0 \in N
  <2>1. \A q \in Seq(Seq(T)) : Len(q) = 0 => q = <<>>
    BY EmptySeq
  <2>2. FlattenSeq(s \o <<>>) = FlattenSeq(s) \o FlattenSeq(<<>>)
    <3>1. s \o <<>> = s
      BY ConcatEmptySeq
    <3>2. FlattenSeq(s) \o <<>> = FlattenSeq(s)
      BY FlattenType, ConcatEmptySeq
    <3> QED
      BY <3>1, <3>2, FlattenEmpty
  <2> QED
    BY <2>1, <2>2
<1>2. ASSUME NEW n \in Nat, n \in N PROVE n + 1 \in N
  <2>1. ASSUME NEW q \in Seq(Seq(T)), Len(q) = n + 1
        PROVE  FlattenSeq(s \o q) = FlattenSeq(s) \o FlattenSeq(q)
    <3>1. q # <<>>
      BY <2>1, EmptySeq
    <3>2. PICK p \in Seq(Seq(T)), x \in Seq(T) : q = Append(p, x)
      BY <3>1, SequenceEmptyOrAppend
    <3>3. Len(p) = n
      BY <2>1, <3>2, AppendProperties, LenProperties
    <3>4. FlattenSeq(s \o p) = FlattenSeq(s) \o FlattenSeq(p)
      BY <1>2, <3>3
    <3>5. FlattenSeq(q) = FlattenSeq(p) \o x
      BY <3>2, FlattenAppend
    <3>6. s \o q = Append(s \o p, x) /\ s \o p \in Seq(Seq(T))
      <4>1. q = p \o <<x>> /\ <<x>> \in Seq(Seq(T))
        BY <3>2, AppendIsConcat
      <4>2. s \o p \in Seq(Seq(T))
        BY ConcatProperties
      <4>3. Append(s \o p, x) = (s \o p) \o <<x>>
        BY <4>2, AppendIsConcat
      <4>4. (s \o p) \o <<x>> = s \o (p \o <<x>>)
        <5> DEFINE u == <<x>>
        <5>1. u \in Seq(Seq(T))
          BY <4>1
        <5> HIDE DEF u
        <5>2. Regroup(s, p, u)
          BY <5>1, RegroupAny
        <5>3. (s \o p) \o u = s \o (p \o u)
          BY <5>2 DEF Regroup
        <5> QED
          BY <5>3 DEF u
      <4> QED
        BY <4>1, <4>2, <4>3, <4>4
    <3>7. FlattenSeq(s \o q) = FlattenSeq(s \o p) \o x
      BY <3>6, FlattenAppend
    <3>8. (FlattenSeq(s) \o FlattenSeq(p)) \o x = FlattenSeq(s) \o (FlattenSeq(p) \o x)
      <4> DEFINE a == FlattenSeq(s)
                 b == FlattenSeq(p)
      <4>1. a \in Seq(T) /\ b \in Seq(T)
        BY FlattenType
      <4> HIDE DEF a, b
      <4>2. Regroup(a, b, x)
        BY <4>1, RegroupAny
      <4> QED
        BY <4>2 DEF a, b, Regroup
    <3> QED
      BY <3>4, <3>5, <3>7, <3>8
  <2> QED
    BY <2>1
<1>3. Nat \subseteq N
  BY <1>1, <1>2, SetInduction
<1>4. Len(t) \in N
  BY <1>3, LenProperties
<1> QED
  BY <1>4

(* Where the k-th part starts in what is joined. *)
Before(s, k) == FlattenSeq(SubSeq(s, 1, k - 1))
Starts(s, k) == Len(Before(s, k))

LEMMA BeforeStep ==
  ASSUME NEW T, NEW s \in Seq(Seq(T)), NEW k \in 1 .. Len(s)
  PROVE  /\ Before(s, k) \in Seq(T) /\ Before(s, k + 1) = Before(s, k) \o s[k]
         /\ Starts(s, k) \in Nat /\ Starts(s, k + 1) = Starts(s, k) + Len(s[k])
<1>0. Len(s) \in Nat /\ s[k] \in Seq(T) /\ \A i \in 1 .. Len(s) : s[i] \in Seq(T)
  BY LenProperties, ElementOfSeq
<1>1. SubSeq(s, 1, k - 1) \in Seq(Seq(T))
  <2>1. \A i \in 1 .. k - 1 : s[i] \in Seq(T)
    BY <1>0
  <2> QED
    BY <1>0, <2>1, SubSeqProperties
<1>2. SubSeq(s, 1, k) = Append(SubSeq(s, 1, k - 1), s[k])
  <2>1. 1 \in 1 .. Len(s) /\ k \in 1 .. Len(s)
    BY <1>0
  <2>2. SubSeq(s, 1, k) = SubSeq(s, 1, k - 1) \o <<s[k]>>
    BY <1>0, <2>1, SubSeqRecursiveSecond
  <2> QED
    BY <1>0, <1>1, <2>2, AppendIsConcat
<1>3. FlattenSeq(SubSeq(s, 1, k)) = FlattenSeq(SubSeq(s, 1, k - 1)) \o s[k]
  BY <1>0, <1>1, <1>2, FlattenAppend
<1>4. FlattenSeq(SubSeq(s, 1, k - 1)) \in Seq(T)
  BY <1>1, FlattenType
<1>5. (k + 1) - 1 = k
  OBVIOUS
<1>6. Before(s, k) \in Seq(T) /\ Before(s, k + 1) = Before(s, k) \o s[k]
  BY <1>3, <1>4, <1>5 DEF Before
<1>7. Len(Before(s, k)) \in Nat /\ Len(Before(s, k + 1)) = Len(Before(s, k)) + Len(s[k])
  <2> DEFINE a == Before(s, k)
  <2> HIDE DEF a
  <2>1. a \in Seq(T) /\ Before(s, k + 1) = a \o s[k]
    BY <1>6 DEF a
  <2>2. Len(a) \in Nat /\ Len(a \o s[k]) = Len(a) + Len(s[k])
    BY <1>0, <2>1, ConcatProperties, LenProperties
  <2> QED
    BY <2>1, <2>2 DEF a
<1> QED
  BY <1>6, <1>7 DEF Starts

LEMMA BeforeEnds ==
  ASSUME NEW T, NEW s \in Seq(Seq(T))
  PROVE  /\ Before(s, 1) = <<>> /\ Starts(s, 1) = 0
         /\ Before(s, Len(s) + 1) = FlattenSeq(s) /\ Starts(s, Len(s) + 1) = Len(FlattenSeq(s))
<1>1. SubSeq(s, 1, 0) = <<>>
  BY SubSeqEmpty
<1>2. SubSeq(s, 1, Len(s)) = s
  BY SubSeqFull
<1>3. 1 - 1 = 0 /\ (Len(s) + 1) - 1 = Len(s) /\ Len(<<>>) = 0
  BY LenProperties
<1> QED
  BY <1>1, <1>2, <1>3, FlattenEmpty DEF Before, Starts

LEMMA BeforeType ==
  ASSUME NEW T, NEW s \in Seq(Seq(T)), NEW k \in 1 .. Len(s) + 1
  PROVE  Before(s, k) \in Seq(T) /\ Starts(s, k) \in Nat
<1>1. CASE k = Len(s) + 1
  BY <1>1, BeforeEnds, FlattenType, LenProperties
<1>2. CASE k # Len(s) + 1
  <2>1. k \in 1 .. Len(s)
    BY <1>2, LenProperties
  <2> QED
    BY <2>1, BeforeStep
<1> QED
  BY <1>1, <1>2

(* What is joined from the k-th part on. *)
LEMMA StartsGrow ==
  ASSUME NEW T, NEW s \in Seq(Seq(T)), NEW k \in 1 .. Len(s) + 1
  PROVE  /\ Starts(s, k) <= Len(FlattenSeq(s))
         /\ \E t \in Seq(T) : FlattenSeq(s) = Before(s, k) \o t
<1>0. Len(s) \in Nat /\ \A i \in 1 .. Len(s) : s[i] \in Seq(T)
  BY LenProperties, ElementOfSeq
<1> DEFINE f == SubSeq(s, 1, k - 1)
           t == SubSeq(s, k, Len(s))
<1>1. f \in Seq(Seq(T)) /\ t \in Seq(Seq(T))
  <2>1. \A i \in 1 .. k - 1 : s[i] \in Seq(T)
    BY <1>0
  <2>2. \A i \in k .. Len(s) : s[i] \in Seq(T)
    BY <1>0
  <2>3. f \in Seq(Seq(T))
    BY <1>0, <2>1, SubSeqProperties
  <2>4. t \in Seq(Seq(T))
    BY <1>0, <2>2, SubSeqProperties
  <2> QED
    BY <2>3, <2>4
<1>2. f \o t = s
  <2>1. 1 \in 1 .. Len(s) + 1 /\ k - 1 \in 1 - 1 .. Len(s) /\ Len(s) \in k - 1 .. Len(s)
    BY <1>0
  <2>2. SubSeq(s, 1, k - 1) \o SubSeq(s, (k - 1) + 1, Len(s)) = SubSeq(s, 1, Len(s))
    BY <2>1, ConcatAdjacentSubSeq
  <2>3. (k - 1) + 1 = k
    OBVIOUS
  <2> QED
    BY <2>2, <2>3, SubSeqFull
<1> HIDE DEF t, f
<1>3. FlattenSeq(s) = FlattenSeq(f) \o FlattenSeq(t)
  BY <1>1, <1>2, FlattenConcat
<1>4. FlattenSeq(f) \in Seq(T) /\ FlattenSeq(t) \in Seq(T) /\ FlattenSeq(f) = Before(s, k)
  BY <1>1, FlattenType DEF Before, f
<1>5. Len(FlattenSeq(s)) = Starts(s, k) + Len(FlattenSeq(t)) /\ Starts(s, k) \in Nat /\ Len(FlattenSeq(t)) \in Nat
  BY <1>3, <1>4, ConcatProperties, LenProperties DEF Starts
<1>6. FlattenSeq(s) = Before(s, k) \o FlattenSeq(t) /\ FlattenSeq(t) \in Seq(T)
  BY <1>3, <1>4
<1>7. Starts(s, k) <= Len(FlattenSeq(s))
  BY <1>5
<1> QED
  BY <1>6, <1>7

LEMMA FlattenAt ==
  ASSUME NEW T, NEW s \in Seq(Seq(T)), NEW k \in 1 .. Len(s)
  PROVE  /\ Starts(s, k) \in Nat /\ Starts(s, k) + Len(s[k]) <= Len(FlattenSeq(s))
         /\ \A j \in 1 .. Len(s[k]) : FlattenSeq(s)[Starts(s, k) + j] = s[k][j]
<1>1. /\ Before(s, k) \in Seq(T) /\ Before(s, k + 1) = Before(s, k) \o s[k] /\ s[k] \in Seq(T)
      /\ Starts(s, k) \in Nat /\ Starts(s, k + 1) = Starts(s, k) + Len(s[k])
  BY BeforeStep, ElementOfSeq
<1>2. k + 1 \in 1 .. Len(s) + 1
  BY LenProperties
<1>3. PICK t \in Seq(T) : FlattenSeq(s) = Before(s, k + 1) \o t
  BY <1>2, StartsGrow
<1>4. Starts(s, k + 1) <= Len(FlattenSeq(s))
  BY <1>2, StartsGrow
<1>5. ASSUME NEW j \in 1 .. Len(s[k]) PROVE FlattenSeq(s)[Starts(s, k) + j] = s[k][j]
  <2> DEFINE p == Starts(s, k) + j
             b == Before(s, k)
             c == Before(s, k + 1)
  <2>1. p \in 1 .. Len(c) /\ Len(c) = Len(b) + Len(s[k]) /\ p > Len(b) /\ Len(b) = Starts(s, k) /\ Len(s[k]) \in Nat
    BY <1>1, LenProperties DEF Starts
  <2>2. c \in Seq(T)
    BY <1>1, ConcatProperties
  <2>3. (c \o t)[p] = c[p]
    BY <2>1, <2>2, ConcatProperties, LenProperties
  <2>4. c[p] = s[k][p - Len(b)]
    <3>a. \A x, y, z, q \in Nat : q \in 1 .. x /\ x = y + z /\ q > y => q \in 1 .. y + z /\ ~(q <= y)
      OBVIOUS
    <3>b. Len(c) \in Nat /\ Len(b) \in Nat /\ p \in Nat
      BY <2>1
    <3>1. p \in 1 .. Len(b) + Len(s[k]) /\ ~(p <= Len(b))
      BY <2>1, <3>a, <3>b
    <3>2. (b \o s[k])[p] = s[k][p - Len(b)]
      BY <3>1, <1>1, ConcatProperties
    <3> QED
      BY <3>2, <1>1
  <2>5. p - Len(b) = j
    BY <2>1, <1>1
  <2> QED
    BY <1>3, <2>3, <2>4, <2>5
<1> QED
  BY <1>1, <1>4, <1>5

LEMMA StartsOrdered ==
  ASSUME NEW T, NEW s \in Seq(Seq(T)), NEW k \in 1 .. Len(s), NEW l \in 1 .. Len(s), k < l
  PROVE  Starts(s, k) + Len(s[k]) <= Starts(s, l)
<1> DEFINE N == {n \in Nat : k + 1 + n \in 1 .. Len(s) => Starts(s, k + 1) <= Starts(s, k + 1 + n)}
<1>0. Len(s) \in Nat /\ \A i \in 1 .. Len(s) : s[i] \in Seq(T) /\ Len(s[i]) \in Nat
  BY LenProperties, ElementOfSeq
<1>1. 0 \in N
  <2>1. ASSUME k + 1 \in 1 .. Len(s) PROVE Starts(s, k + 1) \in Nat
    BY <2>1, BeforeStep
  <2> QED
    BY <2>1
<1>2. ASSUME NEW n \in Nat, n \in N PROVE n + 1 \in N
  <2>1. ASSUME k + 1 + (n + 1) \in 1 .. Len(s) PROVE Starts(s, k + 1) <= Starts(s, k + 1 + (n + 1))
    <3> DEFINE i == k + 1 + n
    <3>1. i \in 1 .. Len(s) /\ i + 1 = k + 1 + (n + 1) /\ k + 1 \in 1 .. Len(s)
      BY <1>0, <2>1
    <3>2. Starts(s, i) \in Nat /\ Starts(s, i + 1) = Starts(s, i) + Len(s[i]) /\ Len(s[i]) \in Nat
      BY <1>0, <3>1, BeforeStep
    <3>3. Starts(s, k + 1) <= Starts(s, i) /\ Starts(s, k + 1) \in Nat
      BY <1>2, <3>1, BeforeStep
    <3>4. Starts(s, i + 1) = Starts(s, k + 1 + (n + 1))
      BY <3>1
    <3>5. Starts(s, k + 1) <= Starts(s, i + 1)
      <4> HIDE DEF i
      <4>1. Starts(s, i) <= Starts(s, i + 1) /\ Starts(s, i + 1) \in Nat
        BY <3>2
      <4> QED
        BY <3>2, <3>3, <4>1
    <3> QED
      BY <3>4, <3>5
  <2> QED
    BY <2>1
<1>3. Nat \subseteq N
  BY <1>1, <1>2, SetInduction
<1>4. l - (k + 1) \in N /\ k + 1 + (l - (k + 1)) = l
  <2>1. l - (k + 1) \in Nat /\ k + 1 + (l - (k + 1)) = l
    BY <1>0
  <2> HIDE DEF N
  <2> QED
    BY <1>3, <2>1
<1>5. Starts(s, k + 1) = Starts(s, k) + Len(s[k])
  BY BeforeStep
<1> QED
  BY <1>4, <1>5

(* Every place of what is joined is one of a part. *)
LEMMA FlattenFind ==
  ASSUME NEW T, NEW s \in Seq(Seq(T)), NEW p \in 1 .. Len(FlattenSeq(s))
  PROVE  \E k \in 1 .. Len(s) : \E j \in 1 .. Len(s[k]) : p = Starts(s, k) + j
<1>0. Len(s) \in Nat
  BY LenProperties
<1> DEFINE N == {n \in Nat : n + 1 \in 1 .. Len(s) + 1 /\ p > Starts(s, n + 1)}
           M == {n \in Nat : n + 1 \in 1 .. Len(s) + 1 /\ p <= Starts(s, n + 1)}
<1>1. Len(s) \in M /\ 0 \in N
  BY <1>0, BeforeEnds, LenProperties, FlattenType
<1>2. PICK m \in M : \A n \in M : m <= n
  <2>1. M \subseteq Nat /\ M # {}
    BY <1>1
  <2> HIDE DEF M
  <2> QED
    BY <2>1, Least
<1>3. m # 0
  <2>1. Starts(s, 1) = 0
    BY BeforeEnds
  <2> QED
    BY <2>1
<1>4. m \in 1 .. Len(s) /\ (m - 1) + 1 = m /\ m - 1 \in Nat
  BY <1>0, <1>3
<1>5. ~(p <= Starts(s, m))
  <2>1. m - 1 \notin M
    <3>1. ~(m <= m - 1)
      BY <1>4
    <3> HIDE DEF M
    <3> QED
      BY <1>2, <3>1
  <2>2. m \in 1 .. Len(s) + 1
    BY <1>0, <1>4
  <2> QED
    BY <2>1, <2>2, <1>4
<1>6. Starts(s, m) \in Nat /\ Starts(s, m + 1) = Starts(s, m) + Len(s[m]) /\ p <= Starts(s, m + 1)
  BY <1>4, BeforeStep
<1>7. p - Starts(s, m) \in 1 .. Len(s[m]) /\ p = Starts(s, m) + (p - Starts(s, m))
  <2>1. Len(s[m]) \in Nat
    BY <1>4, ElementOfSeq, LenProperties
  <2>2. Len(FlattenSeq(s)) \in Nat
    BY FlattenType, LenProperties
  <2> QED
    BY <1>5, <1>6, <2>1, <2>2
<1> QED
  BY <1>4, <1>7
-----------------------------------------------------------------------------
(* Sequences mapped *)

LEMMA FunctionSeq ==
  ASSUME NEW S, NEW n \in Nat, NEW f \in [1 .. n -> S]
  PROVE  f \in Seq(S) /\ Len(f) = n /\ DOMAIN f = 1 .. n
  OBVIOUS

(* Induction over the sequences of a set, for a set in the place of a formula. *)
LEMMA SeqInduction ==
  ASSUME NEW T, NEW P, <<>> \in P, \A s \in Seq(T) : \A x \in T : s \in P => Append(s, x) \in P
  PROVE  Seq(T) \subseteq P
<1> DEFINE N == {n \in Nat : \A s \in Seq(T) : Len(s) = n => s \in P}
<1>1. 0 \in N
  BY EmptySeq
<1>2. ASSUME NEW n \in Nat, n \in N PROVE n + 1 \in N
  <2>1. ASSUME NEW s \in Seq(T), Len(s) = n + 1 PROVE s \in P
    <3>1. s # <<>>
      BY <2>1, EmptySeq
    <3>2. PICK q \in Seq(T), x \in T : s = Append(q, x)
      BY <3>1, SequenceEmptyOrAppend
    <3>3. Len(q) = n
      BY <2>1, <3>2, AppendProperties, LenProperties
    <3> QED
      BY <1>2, <3>2, <3>3
  <2> QED
    BY <2>1
<1>3. Nat \subseteq N
  BY <1>1, <1>2, SetInduction
<1> QED
  BY <1>3, LenProperties

(* A function, for the provers to see what its domain and its range are. *)
Maps(F, T, U) == F \in [T -> U]

(* F at every element, and what that gives when it is joined. *)
Each(F, s) == [n \in DOMAIN s |-> F[s[n]]]
EachJoined(F, s) == FlattenSeq(Each(F, s))

LEMMA EachType ==
  ASSUME NEW T, NEW U, NEW F, Maps(F, T, U), NEW s \in Seq(T)
  PROVE  Each(F, s) \in Seq(U) /\ Len(Each(F, s)) = Len(s) /\ \A n \in 1 .. Len(s) : Each(F, s)[n] = F[s[n]]
<1>1. Len(s) \in Nat /\ DOMAIN s = 1 .. Len(s) /\ \A n \in 1 .. Len(s) : s[n] \in T
  BY LenProperties, ElementOfSeq
<1>2. Each(F, s) \in [1 .. Len(s) -> U]
  BY <1>1 DEF Each, Maps
<1>3. Each(F, s) \in Seq(U) /\ Len(Each(F, s)) = Len(s)
  BY <1>1, <1>2, FunctionSeq
<1> QED
  BY <1>1, <1>3 DEF Each

LEMMA EachConcat ==
  ASSUME NEW T, NEW U, NEW F, Maps(F, T, U), NEW s \in Seq(T), NEW t \in Seq(T)
  PROVE  Each(F, s \o t) = Each(F, s) \o Each(F, t)
<1>1. /\ s \o t \in Seq(T) /\ Len(s \o t) = Len(s) + Len(t)
      /\ \A i \in 1 .. Len(s) + Len(t) : (s \o t)[i] = IF i <= Len(s) THEN s[i] ELSE t[i - Len(s)]
  BY ConcatProperties
<1>2. Len(s) \in Nat /\ Len(t) \in Nat
  BY LenProperties
<1> DEFINE a == Each(F, s)
           b == Each(F, t)
           c == Each(F, s \o t)
<1>3. a \in Seq(U) /\ Len(a) = Len(s) /\ \A n \in 1 .. Len(s) : a[n] = F[s[n]]
  BY EachType
<1>4. b \in Seq(U) /\ Len(b) = Len(t) /\ \A n \in 1 .. Len(t) : b[n] = F[t[n]]
  BY EachType
<1>5. c \in Seq(U) /\ Len(c) = Len(s \o t) /\ \A n \in 1 .. Len(s \o t) : c[n] = F[(s \o t)[n]]
  <2> DEFINE r == s \o t
  <2>1. r \in Seq(T)
    BY <1>1
  <2> HIDE DEF r
  <2>2. Each(F, r) \in Seq(U) /\ Len(Each(F, r)) = Len(r) /\ \A n \in 1 .. Len(r) : Each(F, r)[n] = F[r[n]]
    BY <2>1, EachType
  <2> QED
    BY <2>2 DEF r
<1> HIDE DEF a, b, c
<1>6. /\ a \o b \in Seq(U) /\ Len(a \o b) = Len(a) + Len(b)
      /\ \A i \in 1 .. Len(a) + Len(b) : (a \o b)[i] = IF i <= Len(a) THEN a[i] ELSE b[i - Len(a)]
  <2>1. a \in Seq(U) /\ b \in Seq(U)
    BY <1>3, <1>4
  <2> QED
    BY <2>1, ConcatProperties
<1>7. ASSUME NEW i \in 1 .. Len(c) PROVE c[i] = (a \o b)[i]
  <2>0. i \in 1 .. Len(s) + Len(t) /\ i \in 1 .. Len(a) + Len(b) /\ c[i] = F[(s \o t)[i]]
    BY <1>1, <1>3, <1>4, <1>5
  <2>1. CASE i <= Len(s)
    BY <1>1, <1>2, <1>3, <1>6, <2>0, <2>1
  <2>2. CASE ~(i <= Len(s))
    <3>1. i - Len(s) \in 1 .. Len(t)
      BY <1>2, <2>0, <2>2
    <3>2. (a \o b)[i] = b[i - Len(s)]
      BY <1>3, <1>6, <2>0, <2>2
    <3>3. (s \o t)[i] = t[i - Len(s)]
      BY <1>1, <2>0, <2>2
    <3> QED
      BY <1>4, <2>0, <3>1, <3>2, <3>3
  <2> QED
    BY <2>1, <2>2
<1>8. c = a \o b
  BY <1>1, <1>3, <1>4, <1>5, <1>6, <1>7, SeqEqual
<1> QED
  BY <1>8 DEF a, b, c

LEMMA EachEmpty == ASSUME NEW F PROVE Each(F, <<>>) = <<>> /\ EachJoined(F, <<>>) = <<>>
<1>1. Each(F, <<>>) = <<>>
  BY DEF Each
<1> QED
  BY <1>1, FlattenEmpty DEF EachJoined

LEMMA EachOne ==
  ASSUME NEW T, NEW F, NEW x \in T
  PROVE  Each(F, <<x>>) = <<F[x]>> /\ EachJoined(F, <<x>>) = F[x]
<1>1. Each(F, <<x>>) = <<F[x]>>
  BY DEF Each
<1> QED
  BY <1>1, FlattenOne DEF EachJoined

LEMMA JoinedType ==
  ASSUME NEW T, NEW U, NEW F, Maps(F, T, Seq(U)), NEW s \in Seq(T)
  PROVE  EachJoined(F, s) \in Seq(U)
<1>1. Each(F, s) \in Seq(Seq(U))
  BY EachType
<1> QED
  BY <1>1, FlattenType DEF EachJoined

LEMMA JoinedConcat ==
  ASSUME NEW T, NEW U, NEW F, Maps(F, T, Seq(U)), NEW s \in Seq(T), NEW t \in Seq(T)
  PROVE  EachJoined(F, s \o t) = EachJoined(F, s) \o EachJoined(F, t)
<1>1. Each(F, s \o t) = Each(F, s) \o Each(F, t)
  BY EachConcat
<1>2. Each(F, s) \in Seq(Seq(U)) /\ Each(F, t) \in Seq(Seq(U))
  BY EachType
<1>3. FlattenSeq(Each(F, s) \o Each(F, t)) = FlattenSeq(Each(F, s)) \o FlattenSeq(Each(F, t))
  BY <1>2, FlattenConcat
<1> QED
  BY <1>1, <1>3 DEF EachJoined

LEMMA JoinedAppend ==
  ASSUME NEW T, NEW U, NEW F, Maps(F, T, Seq(U)), NEW s \in Seq(T), NEW x \in T
  PROVE  EachJoined(F, Append(s, x)) = EachJoined(F, s) \o F[x]
<1>1. Append(s, x) = s \o <<x>> /\ <<x>> \in Seq(T)
  BY AppendIsConcat
<1>2. EachJoined(F, s \o <<x>>) = EachJoined(F, s) \o EachJoined(F, <<x>>)
  <2> DEFINE t == <<x>>
  <2>1. t \in Seq(T)
    BY <1>1
  <2> HIDE DEF t
  <2>2. EachJoined(F, s \o t) = EachJoined(F, s) \o EachJoined(F, t)
    BY <2>1, JoinedConcat
  <2> QED
    BY <2>2 DEF t
<1>3. EachJoined(F, <<x>>) = F[x]
  BY EachOne
<1> QED
  BY <1>1, <1>2, <1>3

(* To join and then map is to map the parts and then join. *)
LEMMA JoinedFlatten ==
  ASSUME NEW T, NEW U, NEW F, Maps(F, T, Seq(U)), NEW q \in Seq(Seq(T))
  PROVE  EachJoined(F, FlattenSeq(q)) = FlattenSeq([k \in DOMAIN q |-> EachJoined(F, q[k])])
<1> DEFINE G == [s \in Seq(T) |-> EachJoined(F, s)]
           P == {r \in Seq(Seq(T)) : EachJoined(F, FlattenSeq(r)) = EachJoined(G, r)}
<1>1. Maps(G, Seq(T), Seq(U))
  BY JoinedType DEF Maps
<1>a. \A s \in Seq(T) : G[s] = EachJoined(F, s)
  OBVIOUS
<1> HIDE DEF G
<1>2. <<>> \in P
  <2>1. EachJoined(F, FlattenSeq(<<>>)) = <<>>
    BY FlattenEmpty, EachEmpty
  <2>2. EachJoined(G, <<>>) = <<>>
    BY EachEmpty
  <2>3. <<>> \in Seq(Seq(T))
    BY EmptySeq
  <2> QED
    BY <2>1, <2>2, <2>3
<1>3. ASSUME NEW r \in Seq(Seq(T)), NEW x \in Seq(T), r \in P PROVE Append(r, x) \in P
  <2>1. FlattenSeq(Append(r, x)) = FlattenSeq(r) \o x
    BY FlattenAppend
  <2>2. FlattenSeq(r) \in Seq(T)
    BY FlattenType
  <2>3. EachJoined(F, FlattenSeq(r) \o x) = EachJoined(F, FlattenSeq(r)) \o EachJoined(F, x)
    BY <2>2, JoinedConcat
  <2>4. EachJoined(G, Append(r, x)) = EachJoined(G, r) \o G[x]
    BY <1>1, JoinedAppend
  <2>5. Append(r, x) \in Seq(Seq(T))
    BY AppendProperties
  <2> QED
    BY <1>3, <1>a, <2>1, <2>3, <2>4, <2>5
<1>4. Seq(Seq(T)) \subseteq P
  <2> HIDE DEF P
  <2> QED
    BY <1>2, <1>3, SeqInduction
<1>5. EachJoined(F, FlattenSeq(q)) = EachJoined(G, q)
  BY <1>4
<1>6. Each(G, q) = [k \in DOMAIN q |-> EachJoined(F, q[k])]
  <2>1. DOMAIN q = 1 .. Len(q) /\ \A k \in 1 .. Len(q) : q[k] \in Seq(T)
    BY LenProperties, ElementOfSeq
  <2> QED
    BY <1>a, <2>1 DEF Each
<1> QED
  BY <1>5, <1>6 DEF EachJoined
-----------------------------------------------------------------------------
(* Lengths *)

LEMMA StartSum ==
  ASSUME NEW T, NEW s \in Seq(Seq(T)), NEW k \in 1 .. Len(s) + 1, NEW f, \A i \in 1 .. Len(s) : f[i] = Len(s[i])
  PROVE  Starts(s, k) = SumFunctionOnSet(f, 1 .. k - 1)
<1>0. Len(s) \in Nat /\ \A i \in 1 .. Len(s) : s[i] \in Seq(T) /\ Len(s[i]) \in Nat
  BY LenProperties, ElementOfSeq
<1> DEFINE N == {n \in Nat : n \in 0 .. Len(s) => Starts(s, n + 1) = SumFunctionOnSet(f, 1 .. n)}
<1>1. 0 \in N
  <2>1. Starts(s, 1) = 0
    BY BeforeEnds
  <2>2. SumFunctionOnSet(f, {}) = 0
    BY SumType, FS_EmptySet
  <2>3. 1 .. 0 = {}
    OBVIOUS
  <2> QED
    BY <2>1, <2>2, <2>3
<1>2. ASSUME NEW n \in Nat, n \in N PROVE n + 1 \in N
  <2>1. ASSUME n + 1 \in 0 .. Len(s) PROVE Starts(s, n + 2) = SumFunctionOnSet(f, 1 .. n + 1)
    <3>1. n \in 0 .. Len(s) /\ n + 1 \in 1 .. Len(s)
      BY <1>0, <2>1
    <3>2. Starts(s, (n + 1) + 1) = Starts(s, n + 1) + Len(s[n + 1])
      BY <3>1, BeforeStep
    <3>3. ASSUME NEW i \in 1 .. n PROVE f[i] \in Int /\ f[i] = f[i]
      <4>1. i \in 1 .. Len(s)
        BY <1>0, <3>1
      <4>2. f[i] = Len(s[i])
        BY <4>1
      <4> QED
        BY <1>0, <4>1, <4>2
    <3>4. f[n + 1] = Len(s[n + 1]) /\ f[n + 1] \in Int
      BY <1>0, <3>1
    <3>5. SumFunctionOnSet(f, 1 .. n + 1) = SumFunctionOnSet(f, 1 .. n) + f[n + 1]
      BY <3>3, <3>4, SumNext
    <3>6. (n + 1) + 1 = n + 2
      OBVIOUS
    <3> QED
      BY <1>2, <3>1, <3>2, <3>4, <3>5, <3>6
  <2>2. (n + 1) + 1 = n + 2
    OBVIOUS
  <2> QED
    BY <2>1, <2>2
<1>3. Nat \subseteq N
  <2> HIDE DEF N
  <2> QED
    BY <1>1, <1>2, SetInduction
<1>4. k - 1 \in N /\ k - 1 \in 0 .. Len(s) /\ (k - 1) + 1 = k
  BY <1>0, <1>3
<1> QED
  BY <1>4

LEMMA FlattenSum ==
  ASSUME NEW T, NEW s \in Seq(Seq(T)), NEW f, \A i \in 1 .. Len(s) : f[i] = Len(s[i])
  PROVE  Len(FlattenSeq(s)) = SumFunctionOnSet(f, 1 .. Len(s))
<1>1. Len(s) \in Nat /\ Len(s) + 1 \in 1 .. Len(s) + 1 /\ (Len(s) + 1) - 1 = Len(s)
  BY LenProperties
<1>2. Starts(s, Len(s) + 1) = SumFunctionOnSet(f, 1 .. (Len(s) + 1) - 1)
  BY <1>1, StartSum
<1>3. Starts(s, Len(s) + 1) = Len(FlattenSeq(s))
  BY BeforeEnds
<1> QED
  BY <1>1, <1>2, <1>3

(* What is joined from sequences without a common element has none twice. *)
NoneTwice(s) ==
  \A k, l \in 1 .. Len(s) : \A i \in 1 .. Len(s[k]) : \A j \in 1 .. Len(s[l]) :
     s[k][i] = s[l][j] => k = l /\ i = j
HoldsAll(s, S) ==
  /\ \A x \in S : \E k \in 1 .. Len(s) : \E i \in 1 .. Len(s[k]) : s[k][i] = x
  /\ \A k \in 1 .. Len(s) : \A i \in 1 .. Len(s[k]) : s[k][i] \in S

LEMMA FlattenBijection ==
  ASSUME NEW T, NEW s \in Seq(Seq(T)), NEW S, NoneTwice(s), HoldsAll(s, S)
  PROVE  /\ FlattenSeq(s) \in Seq(S)
         /\ \A p, q \in 1 .. Len(FlattenSeq(s)) : FlattenSeq(s)[p] = FlattenSeq(s)[q] => p = q
         /\ \A x \in S : \E p \in 1 .. Len(FlattenSeq(s)) : FlattenSeq(s)[p] = x
<1> DEFINE F == FlattenSeq(s)
<1>1. F \in Seq(T) /\ Len(F) \in Nat
  BY FlattenType, LenProperties
<1>2. ASSUME NEW p \in 1 .. Len(F)
      PROVE  \E k \in 1 .. Len(s) : \E j \in 1 .. Len(s[k]) : p = Starts(s, k) + j /\ F[p] = s[k][j]
  <2>1. PICK k \in 1 .. Len(s) : \E j \in 1 .. Len(s[k]) : p = Starts(s, k) + j
    BY FlattenFind
  <2>2. PICK j \in 1 .. Len(s[k]) : p = Starts(s, k) + j
    BY <2>1
  <2>3. \A i \in 1 .. Len(s[k]) : F[Starts(s, k) + i] = s[k][i]
    BY FlattenAt
  <2> QED
    BY <2>2, <2>3
<1>3. ASSUME NEW k \in 1 .. Len(s), NEW j \in 1 .. Len(s[k])
      PROVE  \E p \in 1 .. Len(F) : F[p] = s[k][j]
  <2>1. Len(s[k]) \in Nat
    BY ElementOfSeq, LenProperties
  <2>2. /\ Starts(s, k) \in Nat /\ Starts(s, k) + Len(s[k]) <= Len(F)
        /\ F[Starts(s, k) + j] = s[k][j]
    BY FlattenAt
  <2>3. Starts(s, k) + j \in 1 .. Len(F)
    BY <1>1, <2>1, <2>2
  <2> QED
    BY <2>2, <2>3
<1> HIDE DEF F
<1>4. ASSUME NEW p \in 1 .. Len(F), NEW q \in 1 .. Len(F), F[p] = F[q] PROVE p = q
  <2>1. PICK k \in 1 .. Len(s) : \E i \in 1 .. Len(s[k]) : p = Starts(s, k) + i /\ F[p] = s[k][i]
    BY <1>2
  <2>2. PICK i \in 1 .. Len(s[k]) : p = Starts(s, k) + i /\ F[p] = s[k][i]
    BY <2>1
  <2>3. PICK l \in 1 .. Len(s) : \E j \in 1 .. Len(s[l]) : q = Starts(s, l) + j /\ F[q] = s[l][j]
    BY <1>2
  <2>4. PICK j \in 1 .. Len(s[l]) : q = Starts(s, l) + j /\ F[q] = s[l][j]
    BY <2>3
  <2>5. k = l /\ i = j
    BY <1>4, <2>2, <2>4 DEF NoneTwice
  <2> QED
    BY <2>2, <2>4, <2>5
<1>5. ASSUME NEW x \in S PROVE \E p \in 1 .. Len(F) : F[p] = x
  <2>1. PICK k \in 1 .. Len(s) : \E i \in 1 .. Len(s[k]) : s[k][i] = x
    BY DEF HoldsAll
  <2>2. PICK i \in 1 .. Len(s[k]) : s[k][i] = x
    BY <2>1
  <2> QED
    BY <1>3, <2>2
<1>6. F \in [1 .. Len(F) -> S]
  <2>1. F \in [1 .. Len(F) -> T]
    BY <1>1, LenProperties
  <2>2. ASSUME NEW p \in 1 .. Len(F) PROVE F[p] \in S
    <3>1. PICK k \in 1 .. Len(s) : \E j \in 1 .. Len(s[k]) : p = Starts(s, k) + j /\ F[p] = s[k][j]
      BY <1>2
    <3> QED
      BY <3>1 DEF HoldsAll
  <2> QED
    BY <2>1, <2>2
<1>7. F \in Seq(S)
  BY <1>1, <1>6, FunctionSeq
<1> QED
  BY <1>4, <1>5, <1>7 DEF F
-----------------------------------------------------------------------------
(* Sorting *)

StrictOrder(R, S) ==
  /\ \A x \in S : <<x, x>> \notin R
  /\ \A x, y, z \in S : <<x, y>> \in R /\ <<y, z>> \in R => <<x, z>> \in R
  /\ \A x, y \in S : x = y \/ <<x, y>> \in R \/ <<y, x>> \in R

Below(R, S, x) == {y \in S : <<y, x>> \in R}
Rank(R, S, x) == Cardinality(Below(R, S, x))

LEMMA InOrderIs ==
  ASSUME NEW S, NEW R
  PROVE  InOrder(S, R) = [n \in 1 .. Cardinality(S) |-> CHOOSE x \in S : Rank(R, S, x) = n - 1]
  BY DEF InOrder, Rank, Below

LEMMA RankGrows ==
  ASSUME NEW S, IsFiniteSet(S), NEW R, StrictOrder(R, S), NEW x \in S, NEW y \in S, <<x, y>> \in R
  PROVE  Rank(R, S, x) \in Nat /\ Rank(R, S, y) \in Nat /\ Rank(R, S, x) < Rank(R, S, y)
<1> DEFINE X == Below(R, S, x)
           Y == Below(R, S, y)
<1>1. X \subseteq S /\ Y \subseteq S
  BY DEF Below
<1>2. X \subseteq Y
  BY DEF Below, StrictOrder
<1>3. x \in Y /\ x \notin X
  BY DEF Below, StrictOrder
<1> HIDE DEF X, Y
<1>4. IsFiniteSet(Y)
  BY <1>1, FS_Subset
<1>5. IsFiniteSet(X) /\ Cardinality(X) <= Cardinality(Y) /\ (Cardinality(Y) = Cardinality(X) => Y = X)
  BY <1>2, <1>4, FS_Subset
<1>6. Cardinality(X) \in Nat /\ Cardinality(Y) \in Nat
  BY <1>4, <1>5, FS_CardinalityType
<1>7. Cardinality(X) # Cardinality(Y)
  BY <1>3, <1>5
<1> QED
  BY <1>5, <1>6, <1>7 DEF Rank, X, Y

LEMMA RankBijection ==
  ASSUME NEW S, IsFiniteSet(S), NEW R, StrictOrder(R, S)
  PROVE  /\ Cardinality(S) \in Nat
         /\ \A x \in S : Rank(R, S, x) \in 0 .. Cardinality(S) - 1
         /\ \A x, y \in S : Rank(R, S, x) = Rank(R, S, y) => x = y
         /\ \A n \in 0 .. Cardinality(S) - 1 : \E x \in S : Rank(R, S, x) = n
<1> DEFINE f == [x \in S |-> Rank(R, S, x)]
           T == 0 .. Cardinality(S) - 1
<1>1. Cardinality(S) \in Nat
  BY FS_CardinalityType
<1>2. ASSUME NEW x \in S PROVE f[x] \in T
  <2> DEFINE X == Below(R, S, x)
  <2>1. X \subseteq S /\ x \notin X
    BY DEF Below, StrictOrder
  <2> HIDE DEF X
  <2>2. IsFiniteSet(X) /\ Cardinality(X) <= Cardinality(S) /\ (Cardinality(S) = Cardinality(X) => S = X)
    BY <2>1, FS_Subset
  <2>3. Cardinality(X) \in Nat /\ Cardinality(X) # Cardinality(S)
    BY <2>1, <2>2, FS_CardinalityType
  <2>4. f[x] = Cardinality(X)
    BY DEF Rank, X
  <2> HIDE DEF f
  <2> QED
    BY <1>1, <2>2, <2>3, <2>4
<1>3. ASSUME NEW x \in S, NEW y \in S, Rank(R, S, x) = Rank(R, S, y) PROVE x = y
  <2>1. CASE <<x, y>> \in R
    BY <1>3, <2>1, RankGrows
  <2>2. CASE <<y, x>> \in R
    BY <1>3, <2>2, RankGrows
  <2> QED
    BY <2>1, <2>2 DEF StrictOrder
<1>4. f \in Injection(S, T)
  <2>1. f \in [S -> T]
    BY <1>2
  <2>2. \A x, y \in S : f[x] = f[y] => x = y
    BY <1>3
  <2> HIDE DEF f, T
  <2>3. IsInjective(f)
    BY <2>1, <2>2 DEF IsInjective
  <2> QED
    BY <2>1, <2>3 DEF Injection
<1>5. IsFiniteSet(T) /\ Cardinality(T) = Cardinality(S)
  <2> DEFINE c == Cardinality(S)
  <2>1. c \in Nat
    BY <1>1
  <2> HIDE DEF c
  <2>2. /\ IsFiniteSet(0 .. c - 1)
        /\ Cardinality(0 .. c - 1) = IF 0 > c - 1 THEN 0 ELSE (c - 1) - 0 + 1
    BY <2>1, FS_Interval
  <2> QED
    BY <2>1, <2>2 DEF c
<1>6. f \in Surjection(S, T)
  <2> HIDE DEF f, T
  <2> QED
    BY <1>4, <1>5, FS_Injection
<1>7. ASSUME NEW n \in T PROVE \E x \in S : Rank(R, S, x) = n
  BY <1>6 DEF Surjection
<1> QED
  BY <1>1, <1>2, <1>3, <1>7

LEMMA Ordered ==
  ASSUME NEW S, IsFiniteSet(S), NEW R, StrictOrder(R, S)
  PROVE  /\ InOrder(S, R) \in Seq(S) /\ Len(InOrder(S, R)) = Cardinality(S)
         /\ \A m, n \in 1 .. Len(InOrder(S, R)) : InOrder(S, R)[m] = InOrder(S, R)[n] => m = n
         /\ \A x \in S : \E n \in 1 .. Len(InOrder(S, R)) : InOrder(S, R)[n] = x
         /\ \A n \in 1 .. Len(InOrder(S, R)) : Rank(R, S, InOrder(S, R)[n]) = n - 1
<1> DEFINE f == InOrder(S, R)
           C == Cardinality(S)
<1>1. /\ C \in Nat
      /\ \A x \in S : Rank(R, S, x) \in 0 .. C - 1
      /\ \A x, y \in S : Rank(R, S, x) = Rank(R, S, y) => x = y
      /\ \A n \in 0 .. C - 1 : \E x \in S : Rank(R, S, x) = n
  BY RankBijection
<1>2. f = [n \in 1 .. C |-> CHOOSE x \in S : Rank(R, S, x) = n - 1]
  BY InOrderIs
<1> HIDE DEF f, C
<1>3. ASSUME NEW n \in 1 .. C PROVE f[n] \in S /\ Rank(R, S, f[n]) = n - 1
  <2>1. n - 1 \in 0 .. C - 1
    BY <1>1
  <2>2. f[n] = CHOOSE x \in S : Rank(R, S, x) = n - 1
    BY <1>2
  <2>3. \E x \in S : Rank(R, S, x) = n - 1
    BY <1>1, <2>1
  <2> QED
    BY <2>2, <2>3
<1>4. f \in Seq(S) /\ Len(f) = C
  <2>1. f \in [1 .. C -> S]
    BY <1>2, <1>3
  <2> QED
    BY <1>1, <2>1, FunctionSeq
<1>5. ASSUME NEW m \in 1 .. C, NEW n \in 1 .. C, f[m] = f[n] PROVE m = n
  <2>1. m - 1 = n - 1
    BY <1>3, <1>5
  <2> QED
    BY <1>1, <2>1
<1>6. ASSUME NEW x \in S PROVE \E n \in 1 .. C : f[n] = x
  <2>1. Rank(R, S, x) \in 0 .. C - 1
    BY <1>1
  <2> DEFINE n == Rank(R, S, x) + 1
  <2>2. n \in 1 .. C /\ n - 1 = Rank(R, S, x)
    BY <1>1, <2>1
  <2> HIDE DEF n
  <2>3. f[n] \in S /\ Rank(R, S, f[n]) = Rank(R, S, x)
    BY <1>3, <2>2
  <2>4. f[n] = x
    BY <1>1, <2>3
  <2> QED
    BY <2>2, <2>4
<1> QED
  BY <1>3, <1>4, <1>5, <1>6 DEF f, C

LEMMA AscendingOrdered ==
  ASSUME NEW S, S \subseteq Nat, IsFiniteSet(S)
  PROVE  /\ Ascending(S) \in Seq(S) /\ Len(Ascending(S)) = Cardinality(S)
         /\ \A m, n \in 1 .. Len(Ascending(S)) : Ascending(S)[m] = Ascending(S)[n] => m = n
         /\ \A x \in S : \E n \in 1 .. Len(Ascending(S)) : Ascending(S)[n] = x
<1> DEFINE R == {p \in S \X S : p[1] < p[2]}
<1>1. \A x, y \in S : <<x, y>> \in R <=> x < y
  OBVIOUS
<1> HIDE DEF R
<1>2. StrictOrder(R, S)
  BY <1>1 DEF StrictOrder
<1>3. Ascending(S) = InOrder(S, R)
  BY DEF Ascending, R
<1> QED
  BY <1>2, <1>3, Ordered

LEMMA AscendingUpTo ==
  ASSUME NEW n \in Nat
  PROVE  Ascending(1 .. n) = [i \in 1 .. n |-> i]
<1> DEFINE S == 1 .. n
           R == {p \in S \X S : p[1] < p[2]}
           f == InOrder(S, R)
<1>1. \A x, y \in S : <<x, y>> \in R <=> x < y
  OBVIOUS
<1>2. IsFiniteSet(S) /\ Cardinality(S) = n
  BY FS_Interval
<1>3. ASSUME NEW i \in S PROVE Below(R, S, i) = 1 .. i - 1
  BY <1>1 DEF Below
<1>4. ASSUME NEW i \in S PROVE Rank(R, S, i) = i - 1
  <2>1. Cardinality(1 .. i - 1) = i - 1
    BY FS_Interval
  <2> QED
    BY <1>3, <2>1 DEF Rank
<1>5. S \subseteq Nat
  OBVIOUS
<1>6. f = Ascending(S)
  BY DEF Ascending
<1> HIDE DEF R, S, f
<1>7. StrictOrder(R, S)
  BY <1>1, <1>5 DEF StrictOrder
<1>8. f \in Seq(S) /\ Len(f) = n /\ \A i \in 1 .. n : Rank(R, S, f[i]) = i - 1
  BY <1>2, <1>7, Ordered DEF f
<1>9. ASSUME NEW i \in 1 .. n PROVE f[i] = i
  <2>1. f[i] \in S
    BY <1>8, ElementOfSeq
  <2>2. Rank(R, S, f[i]) = f[i] - 1 /\ Rank(R, S, f[i]) = i - 1
    BY <1>4, <1>8, <2>1
  <2>3. f[i] \in 1 .. n
    BY <2>1 DEF S
  <2> QED
    BY <2>2, <2>3
<1>10. f = [i \in 1 .. n |-> i]
  <2>1. DOMAIN f = 1 .. n /\ f \in [1 .. n -> S]
    BY <1>8, LenProperties
  <2> QED
    BY <1>9, <2>1
<1> QED
  BY <1>6, <1>10 DEF S
-----------------------------------------------------------------------------
(* The directory, read back *)

FileByte == {"header", "body"} \X Nat \X Nat
ZipByte ==
  ({"record", "end64", "end"} \X Nat \X Nat \X Nat)
    \cup ({"extra"} \X Nat \X Nat) \cup ({"locator"} \X Nat)
AnyByte == FileByte \cup ZipByte

(* A record as the reader finds it, with or without an extra field. *)
ReadsAs(r, id, size, offset) ==
  /\ r \in Seq(AnyByte) /\ r[1][1] = "record" /\ r[1][2] = id /\ r[1][3] = AsU32(size)
  /\ \/ Len(r) = 1 /\ offset <= Limit /\ r[1][4] = offset
     \/ Len(r) = 2 /\ offset > Limit /\ r[1][4] = Limit /\ r[2][1] = "extra" /\ r[2][3] = offset

(* What the reader makes of it. *)
Seen(id, size, offset) ==
  [id |-> id, size |-> AsU32(size), offset |-> IF offset = Limit THEN NoOffset ELSE offset]

LEMMA AsU32Is ==
  ASSUME NEW v \in Nat
  PROVE  AsU32(v) \in Nat /\ (v <= Limit => AsU32(v) = v)
  BY LimitAssumption DEF AsU32

LEMMA RecordIs ==
  ASSUME NEW id \in Nat, NEW size \in Nat, NEW offset \in Nat
  PROVE  ReadsAs(Record(id, size, offset), id, size, offset)
<1> DEFINE z == AsU32(size)
<1>0. Limit \in Nat /\ z \in Nat
  BY LimitAssumption, AsU32Is
<1>1. CASE offset > Limit
  <2> DEFINE a == <<"record", id, z, Limit>>
             c == <<"extra", id, offset>>
  <2>3. Record(id, size, offset) = <<a, c>>
    BY <1>1 DEF Record
  <2> HIDE DEF z
  <2>1. a \in AnyByte /\ c \in AnyByte
    BY <1>0 DEF AnyByte, ZipByte
  <2>2. /\ a[1] = "record" /\ a[2] = id /\ a[3] = z /\ a[4] = Limit
        /\ c[1] = "extra" /\ c[3] = offset
    OBVIOUS
  <2> HIDE DEF a, c
  <2>4. <<a, c>> \in Seq(AnyByte) /\ Len(<<a, c>>) = 2
    BY <2>1
  <2> QED
    BY <1>1, <2>2, <2>3, <2>4 DEF ReadsAs, z
<1>2. CASE ~(offset > Limit)
  <2> DEFINE a == <<"record", id, z, offset>>
  <2>3. Record(id, size, offset) = <<a>>
    BY <1>2 DEF Record
  <2> HIDE DEF z
  <2>1. a \in AnyByte
    BY <1>0 DEF AnyByte, ZipByte
  <2>2. a[1] = "record" /\ a[2] = id /\ a[3] = z /\ a[4] = offset
    OBVIOUS
  <2> HIDE DEF a
  <2>4. <<a>> \in Seq(AnyByte) /\ Len(<<a>>) = 1
    BY <2>1
  <2>5. offset <= Limit
    BY <1>0, <1>2
  <2> QED
    BY <2>2, <2>3, <2>4, <2>5 DEF ReadsAs, z
<1> QED
  BY <1>1, <1>2

(* A value of the last record, or of the ZIP64 end record where it is marked. *)
LastSays(last, end64, field, mark, value) ==
  (IF last[field] = mark THEN end64[field] ELSE last[field]) = value

AreTheEnd(e, count, offset, size) ==
  /\ e \in Seq(AnyByte) /\ Len(e) = 3 /\ e[2][2] = offset + size
  /\ LastSays(e[3], e[1], 2, CountLimit, count)
  /\ LastSays(e[3], e[1], 3, Limit, size)
  /\ LastSays(e[3], e[1], 4, Limit, offset)

LEMMA OrMarkIs ==
  ASSUME NEW v \in Nat, NEW mark \in Nat
  PROVE  /\ OrMark(v, mark) \in Nat
         /\ \A w : w = v => (IF OrMark(v, mark) = mark THEN w ELSE OrMark(v, mark)) = v
  BY DEF OrMark

LEMMA EndRecordsAre ==
  ASSUME NEW count \in Nat, NEW offset \in Nat, NEW size \in Nat
  PROVE  AreTheEnd(EndRecords(count, offset, size), count, offset, size)
<1> DEFINE i == OrMark(count, CountLimit)
           j == OrMark(size, Limit)
           k == OrMark(offset, Limit)
           a == <<"end64", count, size, offset>>
           c == <<"locator", offset + size>>
           d == <<"end", i, j, k>>
<1>0. CountLimit \in Nat /\ Limit \in Nat
  BY LimitAssumption
<1>1. i \in Nat /\ j \in Nat /\ k \in Nat
  BY <1>0, OrMarkIs
<1>2. /\ (IF i = CountLimit THEN count ELSE i) = count
      /\ (IF j = Limit THEN size ELSE j) = size
      /\ (IF k = Limit THEN offset ELSE k) = offset
  BY <1>0, OrMarkIs
<1>3. EndRecords(count, offset, size) = <<a, c, d>>
  BY DEF EndRecords
<1> HIDE DEF i, j, k
<1>4. a \in AnyByte /\ c \in AnyByte /\ d \in AnyByte
  BY <1>1 DEF AnyByte, ZipByte
<1>5. /\ a[2] = count /\ a[3] = size /\ a[4] = offset /\ c[2] = offset + size
      /\ d[2] = i /\ d[3] = j /\ d[4] = k
  OBVIOUS
<1> HIDE DEF a, c, d
<1>6. <<a, c, d>> \in Seq(AnyByte) /\ Len(<<a, c, d>>) = 3
  BY <1>4
<1>7. /\ LastSays(d, a, 2, CountLimit, count)
      /\ LastSays(d, a, 3, Limit, size)
      /\ LastSays(d, a, 4, Limit, offset)
  BY <1>2, <1>5 DEF LastSays
<1> QED
  BY <1>3, <1>5, <1>6, <1>7 DEF AreTheEnd

(* A directory behind some data, as it is read. *)
DirectoryIs(data, order, sizes, offsets) ==
  LET c == CentralDirectory(order, sizes, offsets, Len(data))
      b == data \o c
  IN
  /\ c \in Seq(AnyByte) /\ b \in Seq(AnyByte) /\ CountOf(b) = Len(order)
  /\ EntriesOf(b) = {Seen(order[n], sizes[n], offsets[n]) : n \in 1 .. Len(order)}

LEMMA DirectoryReads ==
  ASSUME NEW order \in Seq(Nat), NEW data \in Seq(AnyByte),
         NEW sizes \in Seq(Nat), Len(sizes) = Len(order),
         NEW offsets \in Seq(Nat), Len(offsets) = Len(order)
  PROVE  DirectoryIs(data, order, sizes, offsets)
<1> DEFINE rec == [n \in DOMAIN order |-> Record(order[n], sizes[n], offsets[n])]
           R == FlattenSeq(rec)
           D == Len(data)
           N == Len(order)
           E == EndRecords(N, D, Len(R))
           b == data \o (R \o E)
<1>1. /\ N \in Nat /\ D \in Nat /\ DOMAIN order = 1 .. N
      /\ \A n \in 1 .. N : order[n] \in Nat /\ sizes[n] \in Nat /\ offsets[n] \in Nat
  BY LenProperties, ElementOfSeq
<1>2. /\ rec \in Seq(Seq(AnyByte)) /\ Len(rec) = N
      /\ \A n \in 1 .. N : rec[n] = Record(order[n], sizes[n], offsets[n])
  <2>1. \A n \in 1 .. N : Record(order[n], sizes[n], offsets[n]) \in Seq(AnyByte)
    BY <1>1, RecordIs DEF ReadsAs
  <2>2. rec \in [1 .. N -> Seq(AnyByte)]
    BY <1>1, <2>1
  <2>3. \A n \in 1 .. N : rec[n] = Record(order[n], sizes[n], offsets[n])
    BY <1>1
  <2> HIDE DEF rec, N
  <2> QED
    BY <1>1, <2>2, <2>3, FunctionSeq
<1>3. CentralDirectory(order, sizes, offsets, D) = R \o E
  BY DEF CentralDirectory
<1> HIDE DEF rec
<1>4. R \in Seq(AnyByte) /\ Len(R) \in Nat
  BY <1>2, FlattenType, LenProperties
<1> HIDE DEF R, D, N
<1> DEFINE L == Len(R)
<1>a. L \in Nat
  BY <1>4
<1> HIDE DEF L
<1>b. E = EndRecords(N, D, L)
  BY DEF L
<1> HIDE DEF E
<1>5. /\ E \in Seq(AnyByte) /\ Len(E) = 3
      /\ E[2][2] = D + L
      /\ LastSays(E[3], E[1], 2, CountLimit, N)
      /\ LastSays(E[3], E[1], 3, Limit, L)
      /\ LastSays(E[3], E[1], 4, Limit, D)
  <2>1. N \in Nat /\ D \in Nat
    BY <1>1
  <2>2. AreTheEnd(E, N, D, L)
    BY <2>1, <1>a, <1>b, EndRecordsAre
  <2> QED
    BY <2>2 DEF AreTheEnd
<1> DEFINE C == R \o E
<1>f. R \in Seq(AnyByte) /\ E \in Seq(AnyByte)
  BY <1>4, <1>5
<1>c. /\ C \in Seq(AnyByte) /\ Len(C) = Len(R) + Len(E)
      /\ \A i \in 1 .. Len(R) + Len(E) : C[i] = IF i <= Len(R) THEN R[i] ELSE E[i - Len(R)]
  BY <1>f, ConcatProperties
<1> HIDE DEF C
<1>6. /\ C \in Seq(AnyByte) /\ Len(C) = L + 3
      /\ \A i \in 1 .. L + 3 : C[i] = IF i <= L THEN R[i] ELSE E[i - L]
  BY <1>5, <1>c DEF L
<1>d. b = data \o C
  BY DEF b, C
<1> HIDE DEF b
<1>g. C \in Seq(AnyByte)
  BY <1>6
<1>e. /\ data \o C \in Seq(AnyByte) /\ Len(data \o C) = Len(data) + Len(C)
      /\ \A i \in 1 .. Len(data) + Len(C) : (data \o C)[i] = IF i <= Len(data) THEN data[i] ELSE C[i - Len(data)]
  BY <1>g, ConcatProperties
<1>7. /\ b \in Seq(AnyByte) /\ Len(b) = D + Len(C)
      /\ \A i \in 1 .. D + Len(C) : b[i] = IF i <= D THEN data[i] ELSE C[i - D]
  BY <1>d, <1>e DEF D
<1>8. b[D + L + 1] = E[1] /\ b[D + L + 2] = E[2] /\ b[D + L + 3] = E[3] /\ Len(b) = D + L + 3
  <2>1. /\ \A i \in 1 .. 3 : L + i \in 1 .. L + 3 /\ ~(L + i <= L) /\ (L + i) - L = i
        /\ 1 \in 1 .. 3 /\ 2 \in 1 .. 3 /\ 3 \in 1 .. 3
    BY <1>a
  <2>2. \A i \in 1 .. 3 : C[L + i] = E[i]
    BY <1>6, <2>1
  <2>3. /\ \A i \in 1 .. 3 : D + L + i \in 1 .. D + (L + 3) /\ ~(D + L + i <= D) /\ (D + L + i) - D = L + i
        /\ D + (L + 3) = D + L + 3
    BY <1>1, <1>a
  <2>4. \A i \in 1 .. 3 : b[D + L + i] = E[i]
    BY <1>6, <1>7, <2>2, <2>3
  <2> QED
    BY <1>6, <1>7, <2>1, <2>3, <2>4
<1>9. ASSUME NEW field, NEW mark, NEW value, LastSays(E[3], E[1], field, mark, value)
      PROVE  EndValue(b, field, mark) = value
  <2>1. Len(b) - 1 = D + L + 2 /\ Len(b) = D + L + 3
    BY <1>1, <1>a, <1>8
  <2>2. b[Len(b) - 1] = E[2] /\ b[Len(b)] = E[3]
    BY <1>8, <2>1
  <2>3. b[Len(b) - 1][2] + 1 = D + L + 1
    BY <1>5, <2>2
  <2>4. b[b[Len(b) - 1][2] + 1] = E[1]
    BY <1>8, <2>3
  <2> QED
    BY <1>9, <2>2, <2>4 DEF EndValue, LastSays
<1>10. CountOf(b) = N
  BY <1>5, <1>9 DEF CountOf
<1>k. EndValue(b, 4, Limit) = D /\ EndValue(b, 3, Limit) = L
  BY <1>5, <1>9
<1>11. DirectoryOf(b) = R
  <2> DEFINE r == SubSeq(b, D + 1, D + L)
  <2>1. L \in Nat
    BY <1>a
  <2>2. DirectoryOf(b) = r
    BY <1>k DEF DirectoryOf
  <2>3. \A i \in D + 1 .. D + L : b[i] \in AnyByte
    <3>1. \A i \in D + 1 .. D + L : i \in 1 .. Len(b)
      BY <1>1, <1>8, <2>1
    <3> QED
      BY <1>7, <3>1, ElementOfSeq
  <2>4. r \in Seq(AnyByte) /\ Len(r) = L /\ \A i \in 1 .. L : r[i] = b[D + i]
    <3>1. /\ r \in Seq(AnyByte)
          /\ Len(r) = IF D + 1 <= D + L THEN (D + L) - (D + 1) + 1 ELSE 0
          /\ \A i \in 1 .. (D + L) - (D + 1) + 1 : r[i] = b[(D + 1) + i - 1]
      <4>1. D + 1 \in Int /\ D + L \in Int
        BY <1>1, <2>1
      <4> QED
        BY <2>3, <4>1, SubSeqProperties
    <3>2. (D + L) - (D + 1) + 1 = L /\ \A i \in 1 .. L : (D + 1) + i - 1 = D + i
      BY <1>1, <2>1
    <3> QED
      BY <1>1, <2>1, <3>1, <3>2
  <2> HIDE DEF r
  <2>5. ASSUME NEW i \in 1 .. L PROVE b[D + i] = R[i]
    <3>1. D + i \in 1 .. D + Len(C) /\ ~(D + i <= D) /\ (D + i) - D = i /\ i \in 1 .. L + 3
      BY <1>1, <1>6, <2>1
    <3> QED
      BY <1>6, <1>7, <3>1
  <2>6. r = R
    BY <1>4, <2>4, <2>5, SeqEqual DEF L
  <2> QED
    BY <2>2, <2>6
<1> DEFINE records == {n \in DOMAIN R : R[n][1] = "record"}
           Extra(n) == n < Len(R) /\ R[n + 1][1] = "extra"
           Offset(n) == IF R[n][4] # Limit THEN R[n][4]
                        ELSE IF Extra(n) THEN R[n + 1][3] ELSE NoOffset
           At(n) == [id |-> R[n][2], size |-> R[n][3], offset |-> Offset(n)]
           Ent(k) == Seen(order[k], sizes[k], offsets[k])
<1>l. Limit \in Nat
  BY LimitAssumption
<1>12. EntriesOf(b) = {At(n) : n \in records}
  BY <1>11 DEF EntriesOf
<1>r. ASSUME NEW k \in 1 .. N PROVE ReadsAs(rec[k], order[k], sizes[k], offsets[k])
  <2>1. /\ order[k] \in Nat /\ sizes[k] \in Nat /\ offsets[k] \in Nat
        /\ rec[k] = Record(order[k], sizes[k], offsets[k])
    BY <1>1, <1>2
  <2>2. ReadsAs(Record(order[k], sizes[k], offsets[k]), order[k], sizes[k], offsets[k])
    BY <2>1, RecordIs
  <2> QED
    BY <2>1, <2>2
<1>13. ASSUME NEW k \in 1 .. N
       PROVE  /\ Starts(rec, k) + 1 \in records /\ At(Starts(rec, k) + 1) = Ent(k)
              /\ \A j \in 1 .. Len(rec[k]) : Starts(rec, k) + j \in records => j = 1
  <2> DEFINE p == Starts(rec, k)
             r == rec[k]
  <2>1. /\ r \in Seq(AnyByte) /\ r[1][1] = "record" /\ r[1][2] = order[k] /\ r[1][3] = AsU32(sizes[k])
        /\ \/ Len(r) = 1 /\ offsets[k] <= Limit /\ r[1][4] = offsets[k]
           \/ /\ Len(r) = 2 /\ offsets[k] > Limit /\ r[1][4] = Limit
              /\ r[2][1] = "extra" /\ r[2][3] = offsets[k]
    BY <1>r DEF ReadsAs
  <2>2. p \in Nat /\ p + Len(r) <= Len(R) /\ \A j \in 1 .. Len(r) : R[p + j] = r[j]
    BY <1>2, FlattenAt DEF R
  <2>3. DOMAIN R = 1 .. Len(R)
    BY <1>4, LenProperties
  <2>4. k # N => R[p + Len(r) + 1][1] = "record"
    <3>1. ASSUME k # N PROVE R[p + Len(r) + 1][1] = "record"
      <4>1. k + 1 \in 1 .. N /\ k \in 1 .. N
        BY <1>1, <3>1
      <4>2. Starts(rec, k + 1) = p + Len(r)
        BY <1>2, BeforeStep
      <4>4. (Len(rec[k + 1]) = 1 \/ Len(rec[k + 1]) = 2) /\ rec[k + 1][1][1] = "record"
        BY <1>r, <4>1 DEF ReadsAs
      <4>5. 1 \in 1 .. Len(rec[k + 1])
        BY <4>4
      <4>6. R[Starts(rec, k + 1) + 1] = rec[k + 1][1]
        <5>1. k + 1 \in 1 .. Len(rec) /\ rec \in Seq(Seq(AnyByte))
          BY <1>2, <4>1
        <5> DEFINE i == k + 1
        <5> HIDE DEF i, rec
        <5>2. \A j \in 1 .. Len(rec[i]) : FlattenSeq(rec)[Starts(rec, i) + j] = rec[i][j]
          BY <5>1, FlattenAt DEF i
        <5> QED
          BY <4>5, <5>2 DEF i, R
      <4> QED
        BY <4>2, <4>4, <4>6
    <3> QED
      BY <3>1
  <2>5. k = N => p + Len(r) = Len(R)
    <3>1. ASSUME k = N PROVE p + Len(r) = Len(R)
      <4>1. Starts(rec, k + 1) = p + Len(r)
        BY <1>2, BeforeStep
      <4>2. Starts(rec, Len(rec) + 1) = Len(R)
        BY <1>2, BeforeEnds DEF R
      <4>3. Len(rec) + 1 = k + 1
        BY <1>2, <3>1
      <4> QED
        BY <4>1, <4>2, <4>3
    <3> QED
      BY <3>1
  <2> HIDE DEF p, r
  <2>6. R[p + 1] = r[1]
    <3>0. Len(r) = 1 \/ Len(r) = 2
      BY <2>1
    <3>1. \A l : l = 1 \/ l = 2 => 1 \in 1 .. l
      OBVIOUS
    <3>2. 1 \in 1 .. Len(r)
      BY <3>0, <3>1
    <3> QED
      BY <2>2, <3>2
  <2>7. p + 1 \in records
    BY <1>4, <2>1, <2>2, <2>3, <2>6
  <2>s. R[p + 1][2] = order[k] /\ R[p + 1][3] = AsU32(sizes[k])
    BY <2>1, <2>6
  <2>8. At(p + 1) = Ent(k)
    <3>0. (p + 1) + 1 = p + 2
      BY <2>2
    <3>1. CASE Len(r) = 2
      <4>1. R[p + 2] = r[2]
        BY <2>2, <3>1
      <4>2. Extra(p + 1)
        <5>1. p + 1 < Len(R)
          BY <1>4, <2>2, <3>1
        <5>2. R[(p + 1) + 1][1] = "extra"
          BY <2>1, <3>0, <3>1, <4>1
        <5> QED
          BY <5>1, <5>2
      <4>3. /\ R[(p + 1) + 1][3] = offsets[k] /\ R[p + 1][4] = Limit /\ offsets[k] > Limit
        BY <2>1, <2>6, <3>0, <3>1, <4>1
      <4>4. Offset(p + 1) = offsets[k]
        <5> HIDE DEF Extra
        <5> QED
          BY <4>2, <4>3
      <4>5. offsets[k] # Limit
        BY <1>1, <1>l, <4>3
      <4> HIDE DEF Offset
      <4> QED
        BY <2>s, <4>4, <4>5 DEF Seen
    <3>2. CASE Len(r) = 1
      <4>1. ~Extra(p + 1)
        <5>1. CASE k = N
          BY <1>4, <2>2, <2>5, <3>2, <5>1
        <5>2. CASE k # N
          <6>1. R[(p + 1) + 1][1] = "record"
            BY <2>4, <3>2, <5>2
          <6> QED
            BY <6>1
        <5> QED
          BY <5>1, <5>2
      <4>3. R[p + 1][4] = offsets[k]
        BY <2>1, <2>6, <3>2
      <4>4. Offset(p + 1) = IF offsets[k] = Limit THEN NoOffset ELSE offsets[k]
        <5> HIDE DEF Extra
        <5> QED
          BY <4>1, <4>3
      <4> HIDE DEF Offset
      <4> QED
        BY <2>s, <4>4 DEF Seen
    <3> QED
      BY <2>1, <3>1, <3>2
  <2>9. ASSUME NEW j \in 1 .. Len(r), p + j \in records PROVE j = 1
    <3>1. R[p + j] = r[j] /\ R[p + j][1] = "record"
      BY <2>2, <2>9
    <3>2. CASE j = 2
      <4>1. Len(r) = 2
        <5>1. ASSUME Len(r) = 1 PROVE FALSE
          <6>1. 2 \in 1 .. 1
            BY <3>2, <5>1
          <6> QED
            BY <6>1
        <5>2. Len(r) = 1 \/ Len(r) = 2
          BY <2>1
        <5> QED
          BY <5>1, <5>2
      <4>2. "extra" = "record"
        BY <2>1, <3>1, <3>2, <4>1
      <4> QED
        BY <4>2
    <3>3. j = 1 \/ j = 2
      <4>1. Len(r) = 1 \/ Len(r) = 2
        BY <2>1
      <4>2. CASE Len(r) = 1
        <5>1. j \in 1 .. 1
          BY <4>2
        <5> QED
          BY <5>1
      <4>3. CASE Len(r) = 2
        <5>1. j \in 1 .. 2
          BY <4>3
        <5> QED
          BY <5>1
      <4> QED
        BY <4>1, <4>2, <4>3
    <3> QED
      BY <3>2, <3>3
  <2> QED
    BY <2>7, <2>8, <2>9 DEF p, r
<1>14. ASSUME NEW n \in records PROVE \E k \in 1 .. N : n = Starts(rec, k) + 1
  <2>1. n \in 1 .. Len(R)
    BY <1>4, LenProperties
  <2>2. PICK k \in 1 .. N : \E j \in 1 .. Len(rec[k]) : n = Starts(rec, k) + j
    BY <1>2, <2>1, FlattenFind DEF R
  <2>3. PICK j \in 1 .. Len(rec[k]) : n = Starts(rec, k) + j
    BY <2>2
  <2>4. Starts(rec, k) + j \in records
    BY <2>3
  <2> HIDE DEF records
  <2>5. j = 1
    BY <1>13, <2>4
  <2> QED
    BY <2>3, <2>5
<1>15. {At(n) : n \in records} = {Ent(k) : k \in 1 .. N}
  <2>1. ASSUME NEW n \in records PROVE \E k \in 1 .. N : At(n) = Ent(k)
    <3>1. PICK k \in 1 .. N : n = Starts(rec, k) + 1
      BY <1>14
    <3>2. At(Starts(rec, k) + 1) = Ent(k)
      BY <1>13
    <3> HIDE DEF At, Ent, records
    <3> QED
      BY <3>1, <3>2
  <2>2. ASSUME NEW k \in 1 .. N PROVE \E n \in records : At(n) = Ent(k)
    <3> HIDE DEF At, Ent, records
    <3> QED
      BY <1>13
  <2> HIDE DEF At, Ent, records
  <2> QED
    BY <2>1, <2>2
<1> QED
  BY <1>3, <1>6, <1>7, <1>10, <1>12, <1>15 DEF b, C, N, D, DirectoryIs
-----------------------------------------------------------------------------
(* Files, slices and entries *)

SliceSet == {s \in [of : {"header", "body"}, id : Nat, from : Nat, to : Nat] : s.from <= s.to}
BytesOf == [s \in SliceSet |-> Bytes(s)]
EntryOf == [i \in Ids |-> Entry(i)]

LEMMA FilesFacts ==
  ASSUME files \in Lists
  PROVE  /\ Floor \in Nat \ {0} /\ Len(files) \in Nat /\ Ids = 1 .. Len(files)
         /\ \A i \in Ids : /\ i \in Nat /\ files[i].size \in Nat
                           /\ files[i].header \in Nat \ {0} /\ files[i].header < Floor
<1> DEFINE E == [size : Nat, header : 1 .. Floor - 1]
<1>1. files \in Seq(E) /\ Floor \in Nat \ {0}
  BY FilesAssumption
<1>2. \A e \in E : e.size \in Nat /\ e.header \in 1 .. Floor - 1
  OBVIOUS
<1> HIDE DEF E
<1>3. Len(files) \in Nat /\ DOMAIN files = 1 .. Len(files) /\ \A i \in 1 .. Len(files) : files[i] \in E
  BY <1>1, LenProperties, ElementOfSeq
<1>4. ASSUME NEW i \in 1 .. Len(files)
      PROVE  files[i].size \in Nat /\ files[i].header \in 1 .. Floor - 1
  BY <1>2, <1>3
<1> QED
  BY <1>1, <1>3, <1>4 DEF Ids

LEMMA BytesType ==
  ASSUME NEW s \in SliceSet
  PROVE  Bytes(s) \in Seq(AnyByte) /\ Len(Bytes(s)) = SliceLen(s) /\ SliceLen(s) \in Nat
<1>1. s.of \in {"header", "body"} /\ s.id \in Nat /\ s.from \in Nat /\ s.to \in Nat /\ s.from <= s.to
  BY DEF SliceSet
<1>2. SliceLen(s) \in Nat
  BY <1>1 DEF SliceLen
<1>3. ASSUME NEW i \in 1 .. SliceLen(s) PROVE <<s.of, s.id, s.from + i>> \in AnyByte
  <2>1. s.from + i \in Nat
    BY <1>1, <1>2
  <2> QED
    BY <1>1, <2>1 DEF AnyByte, FileByte
<1> HIDE DEF SliceLen
<1>4. Bytes(s) \in [1 .. SliceLen(s) -> AnyByte]
  BY <1>3 DEF Bytes
<1> QED
  BY <1>2, <1>4, FunctionSeq

LEMMA BytesMaps == Maps(BytesOf, SliceSet, Seq(AnyByte)) /\ \A s \in SliceSet : BytesOf[s] = Bytes(s)
  BY BytesType DEF BytesOf, Maps

LEMMA BodySliceIn ==
  ASSUME files \in Lists, NEW id \in Ids, NEW a \in Nat, NEW b \in Nat, a <= b
  PROVE  BodySlice(id, a, b) \in SliceSet /\ SliceLen(BodySlice(id, a, b)) = b - a
  BY FilesFacts DEF BodySlice, SliceSet, SliceLen

LEMMA HeaderIn ==
  ASSUME files \in Lists, NEW id \in Ids
  PROVE  Header(id) \in SliceSet /\ SliceLen(Header(id)) = files[id].header
  BY FilesFacts DEF Header, SliceSet, SliceLen

LEMMA BodyIn ==
  ASSUME files \in Lists, NEW id \in Ids
  PROVE  Body(id) \in SliceSet /\ SliceLen(Body(id)) = files[id].size
<1>1. files[id].size \in Nat /\ 0 \in Nat /\ 0 <= files[id].size
  BY FilesFacts
<1>2. files[id].size - 0 = files[id].size
  BY <1>1
<1> QED
  BY <1>1, <1>2, BodySliceIn DEF Body

(* A body cut in two. *)
LEMMA BodyCut ==
  ASSUME files \in Lists, NEW id \in Ids, NEW n \in Nat, n <= files[id].size
  PROVE  Bytes(BodySlice(id, 0, n)) \o Bytes(BodySlice(id, n, files[id].size)) = Bytes(Body(id))
<1> DEFINE size == files[id].size
           a == Bytes(BodySlice(id, 0, n))
           b == Bytes(BodySlice(id, n, size))
           c == Bytes(Body(id))
<1>1. size \in Nat /\ n \in Nat /\ n <= size
  BY FilesFacts
<1>2. /\ a \in Seq(AnyByte) /\ Len(a) = n /\ b \in Seq(AnyByte) /\ Len(b) = size - n
      /\ c \in Seq(AnyByte) /\ Len(c) = size
  <2>1. /\ BodySlice(id, 0, n) \in SliceSet /\ SliceLen(BodySlice(id, 0, n)) = n - 0
        /\ BodySlice(id, n, size) \in SliceSet /\ SliceLen(BodySlice(id, n, size)) = size - n
        /\ Body(id) \in SliceSet /\ SliceLen(Body(id)) = size
    <3>1. 0 \in Nat /\ 0 <= n
      OBVIOUS
    <3> HIDE DEF size
    <3> QED
      BY <1>1, <3>1, BodySliceIn, BodyIn DEF size
  <2> HIDE DEF size
  <2>2. /\ Bytes(BodySlice(id, 0, n)) \in Seq(AnyByte) /\ Len(Bytes(BodySlice(id, 0, n))) = n - 0
        /\ Bytes(BodySlice(id, n, size)) \in Seq(AnyByte) /\ Len(Bytes(BodySlice(id, n, size))) = size - n
        /\ Bytes(Body(id)) \in Seq(AnyByte) /\ Len(Bytes(Body(id))) = size
    BY <2>1, BytesType
  <2> QED
    BY <1>1, <2>2
<1>3. ASSUME NEW i \in 1 .. n PROVE a[i] = <<"body", id, i>>
  BY <1>1 DEF Bytes, BodySlice, SliceLen
<1>4. ASSUME NEW i \in 1 .. size - n PROVE b[i] = <<"body", id, n + i>>
  BY <1>1 DEF Bytes, BodySlice, SliceLen
<1>5. ASSUME NEW i \in 1 .. size PROVE c[i] = <<"body", id, i>>
  BY <1>1 DEF Bytes, Body, BodySlice, SliceLen
<1> HIDE DEF a, b, c, size
<1>6. /\ a \o b \in Seq(AnyByte) /\ Len(a \o b) = Len(a) + Len(b)
      /\ \A i \in 1 .. Len(a) + Len(b) : (a \o b)[i] = IF i <= Len(a) THEN a[i] ELSE b[i - Len(a)]
  BY <1>2, ConcatProperties
<1>7. n + (size - n) = size
  BY <1>1
<1>8. ASSUME NEW i \in 1 .. Len(c) PROVE c[i] = (a \o b)[i]
  <2>1. i \in 1 .. size
    BY <1>2
  <2>2. (a \o b)[i] = IF i <= n THEN a[i] ELSE b[i - n]
    <3>1. Len(a) = n
      BY <1>2
    <3>2. i \in 1 .. Len(a) + Len(b)
      <4>1. Len(a) + Len(b) = size
        BY <1>2, <1>7
      <4> QED
        BY <2>1, <4>1
    <3>3. (a \o b)[i] = IF i <= Len(a) THEN a[i] ELSE b[i - Len(a)]
      BY <1>6, <3>2
    <3> QED
      BY <3>1, <3>3
  <2>3. CASE i <= n
    <3>1. i \in 1 .. n
      BY <1>1, <2>1, <2>3
    <3> QED
      BY <1>3, <1>5, <2>1, <2>2, <2>3, <3>1
  <2>4. CASE ~(i <= n)
    <3>1. i - n \in 1 .. size - n /\ n + (i - n) = i
      BY <1>1, <2>1, <2>4
    <3>2. b[i - n] = <<"body", id, i>>
      BY <1>4, <3>1
    <3> QED
      BY <1>5, <2>1, <2>2, <2>4, <3>2
  <2> QED
    BY <2>3, <2>4
<1>9. Len(c) = Len(a \o b)
  BY <1>2, <1>6, <1>7
<1>10. c = a \o b
  BY <1>2, <1>6, <1>8, <1>9, SeqEqual
<1> QED
  BY <1>10 DEF a, b, c, size

LEMMA EntryType ==
  ASSUME files \in Lists, NEW id \in Ids
  PROVE  Entry(id) \in Seq(AnyByte) /\ Len(Entry(id)) = EntryLen(id) /\ EntryLen(id) \in Nat
<1> DEFINE a == Bytes(Header(id))
           b == Bytes(Body(id))
<1>1. a \in Seq(AnyByte) /\ Len(a) = files[id].header
  BY HeaderIn, BytesType
<1>2. b \in Seq(AnyByte) /\ Len(b) = files[id].size
  BY BodyIn, BytesType
<1>3. Entry(id) = a \o b
  BY DEF Entry
<1> HIDE DEF a, b
<1>4. a \o b \in Seq(AnyByte) /\ Len(a \o b) = Len(a) + Len(b)
  BY <1>1, <1>2, ConcatProperties
<1>5. files[id].header \in Nat /\ files[id].size \in Nat
  BY FilesFacts
<1> QED
  BY <1>1, <1>2, <1>3, <1>4, <1>5 DEF EntryLen

LEMMA EntryMaps ==
  ASSUME files \in Lists
  PROVE  Maps(EntryOf, Ids, Seq(AnyByte)) /\ \A i \in Ids : EntryOf[i] = Entry(i)
  BY EntryType DEF EntryOf, Maps

(* A header followed by its body is an entry. *)
LEMMA WholeBytes ==
  ASSUME files \in Lists, NEW id \in Ids
  PROVE  /\ <<Header(id), Body(id)>> \in Seq(SliceSet)
         /\ EachJoined(BytesOf, <<Header(id), Body(id)>>) = Entry(id)
<1> DEFINE h == Header(id)
           c == Body(id)
<1>1. Maps(BytesOf, SliceSet, Seq(AnyByte)) /\ \A s \in SliceSet : BytesOf[s] = Bytes(s)
  BY BytesMaps
<1>2. h \in SliceSet /\ c \in SliceSet
  BY HeaderIn, BodyIn
<1>3. Entry(id) = BytesOf[h] \o BytesOf[c]
  BY <1>1, <1>2 DEF Entry
<1> HIDE DEF h, c
<1> DEFINE u == <<h>>
<1>4. u \in Seq(SliceSet) /\ <<h, c>> = Append(u, c) /\ <<h, c>> \in Seq(SliceSet)
  BY <1>2
<1>5. EachJoined(BytesOf, u) = BytesOf[h]
  BY <1>2, EachOne
<1> HIDE DEF u
<1>6. EachJoined(BytesOf, Append(u, c)) = EachJoined(BytesOf, u) \o BytesOf[c]
  BY <1>1, <1>2, <1>4, JoinedAppend
<1> QED
  BY <1>3, <1>4, <1>5, <1>6 DEF h, c

(* Headers followed by their bodies are entries. *)
LEMMA WholesBytes ==
  ASSUME files \in Lists, NEW b \in Seq(Ids), NEW w, w = [i \in DOMAIN b |-> <<Header(b[i]), Body(b[i])>>]
  PROVE  /\ FlattenSeq(w) \in Seq(SliceSet)
         /\ EachJoined(BytesOf, FlattenSeq(w)) = EachJoined(EntryOf, b)
<1>1. Maps(BytesOf, SliceSet, Seq(AnyByte)) /\ \A s \in SliceSet : BytesOf[s] = Bytes(s)
  BY BytesMaps
<1>2. Maps(EntryOf, Ids, Seq(AnyByte)) /\ \A i \in Ids : EntryOf[i] = Entry(i)
  BY EntryMaps
<1>3. DOMAIN b = 1 .. Len(b) /\ Len(b) \in Nat /\ \A i \in 1 .. Len(b) : b[i] \in Ids
  BY LenProperties, ElementOfSeq
<1>4. ASSUME NEW id \in Ids
      PROVE  /\ <<Header(id), Body(id)>> \in Seq(SliceSet)
             /\ EachJoined(BytesOf, <<Header(id), Body(id)>>) = Entry(id)
  BY WholeBytes
<1>5. w \in Seq(Seq(SliceSet)) /\ DOMAIN w = 1 .. Len(b)
  <2>1. w \in [1 .. Len(b) -> Seq(SliceSet)]
    BY <1>3, <1>4
  <2> QED
    BY <1>3, <2>1, FunctionSeq
<1>6. EachJoined(BytesOf, FlattenSeq(w)) = FlattenSeq([k \in DOMAIN w |-> EachJoined(BytesOf, w[k])])
  <2>1. w \in Seq(Seq(SliceSet)) /\ Maps(BytesOf, SliceSet, Seq(AnyByte))
    BY <1>1, <1>5
  <2> QED
    BY <2>1, JoinedFlatten
<1>7. [k \in DOMAIN w |-> EachJoined(BytesOf, w[k])] = Each(EntryOf, b)
  <2>1. ASSUME NEW k \in 1 .. Len(b) PROVE EachJoined(BytesOf, w[k]) = EntryOf[b[k]]
    <3>1. w[k] = <<Header(b[k]), Body(b[k])>> /\ b[k] \in Ids
      BY <1>3
    <3>2. EachJoined(BytesOf, <<Header(b[k]), Body(b[k])>>) = Entry(b[k])
      BY <1>4, <3>1
    <3> QED
      BY <1>2, <3>1, <3>2
  <2> QED
    BY <1>3, <1>5, <2>1 DEF Each
<1>8. FlattenSeq(w) \in Seq(SliceSet)
  BY <1>5, FlattenType
<1> QED
  BY <1>6, <1>7, <1>8 DEF EachJoined
-----------------------------------------------------------------------------
(* Counting *)

LEMMA CountUpTo ==
  ASSUME NEW n \in Nat
  PROVE  IsFiniteSet(1 .. n) /\ Cardinality(1 .. n) = n
  BY FS_Interval

LEMMA CountDistinct ==
  ASSUME NEW n \in Nat, NEW s, \A i, j \in 1 .. n : s[i] = s[j] => i = j,
         NEW S, S = {s[k] : k \in 1 .. n}
  PROVE  Cardinality(S) = n
<1> DEFINE f == [k \in 1 .. n |-> s[k]]
           D == 1 .. n
<1>1. f \in [D -> S] /\ \A x \in S : \E k \in D : f[k] = x
  OBVIOUS
<1>2. \A i, j \in D : f[i] = f[j] => i = j
  OBVIOUS
<1>3. IsFiniteSet(D) /\ Cardinality(D) = n
  BY CountUpTo
<1> HIDE DEF f, D
<1>4. f \in Bijection(D, S)
  BY <1>1, <1>2 DEF Bijection, Injection, Surjection, IsInjective
<1>5. ExistsBijection(D, S)
  BY <1>4 DEF ExistsBijection
<1> QED
  BY <1>3, <1>5, FS_Bijection
-----------------------------------------------------------------------------
(* An order that has every file once, its entries, and its directory *)

Lists1(order) ==
  /\ order \in Seq(Ids)
  /\ \A m, n \in 1 .. Len(order) : order[m] = order[n] => m = n
  /\ \A i \in Ids : \E n \in 1 .. Len(order) : order[n] = i

Data(order) == EachJoined(EntryOf, order)

LEMMA DataType ==
  ASSUME files \in Lists, NEW order \in Seq(Ids)
  PROVE  /\ Data(order) \in Seq(AnyByte) /\ Len(Data(order)) \in Nat
         /\ Each(EntryOf, order) \in Seq(Seq(AnyByte)) /\ Len(Each(EntryOf, order)) = Len(order)
         /\ \A n \in 1 .. Len(order) : Each(EntryOf, order)[n] = Entry(order[n])
<1>1. Maps(EntryOf, Ids, Seq(AnyByte)) /\ \A i \in Ids : EntryOf[i] = Entry(i)
  BY EntryMaps
<1>2. Data(order) \in Seq(AnyByte)
  BY <1>1, JoinedType DEF Data
<1>3. /\ Each(EntryOf, order) \in Seq(Seq(AnyByte)) /\ Len(Each(EntryOf, order)) = Len(order)
      /\ \A n \in 1 .. Len(order) : Each(EntryOf, order)[n] = EntryOf[order[n]]
  BY <1>1, EachType
<1>4. \A n \in 1 .. Len(order) : order[n] \in Ids
  BY ElementOfSeq
<1> QED
  BY <1>1, <1>2, <1>3, <1>4, LenProperties

LEMMA BytesBeforeIs ==
  ASSUME files \in Lists, NEW order \in Seq(Ids), NEW n \in 1 .. Len(order) + 1
  PROVE  BytesBefore(order, n) = Starts(Each(EntryOf, order), n)
<1> DEFINE e == Each(EntryOf, order)
           f == [m \in DOMAIN order |-> EntryLen(order[m])]
<1>1. /\ e \in Seq(Seq(AnyByte)) /\ Len(e) = Len(order)
      /\ \A m \in 1 .. Len(order) : e[m] = Entry(order[m])
  BY DataType
<1>2. DOMAIN order = 1 .. Len(order) /\ \A m \in 1 .. Len(order) : order[m] \in Ids
  BY LenProperties, ElementOfSeq
<1>3. BytesBefore(order, n) = SumFunctionOnSet(f, 1 .. n - 1)
  BY DEF BytesBefore
<1>4. ASSUME NEW m \in 1 .. Len(order) PROVE f[m] = Len(e[m])
  <2>1. order[m] \in Ids /\ f[m] = EntryLen(order[m])
    BY <1>2
  <2>2. Len(Entry(order[m])) = EntryLen(order[m])
    BY <2>1, EntryType
  <2> QED
    BY <1>1, <2>1, <2>2
<1> HIDE DEF e, f
<1>5. \A m \in 1 .. Len(e) : f[m] = Len(e[m])
  BY <1>1, <1>4
<1>6. n \in 1 .. Len(e) + 1
  BY <1>1
<1>7. Starts(e, n) = SumFunctionOnSet(f, 1 .. n - 1)
  BY <1>1, <1>5, <1>6, StartSum
<1> QED
  BY <1>3, <1>7 DEF e

LEMMA DirectoryOffsetIs ==
  ASSUME files \in Lists, NEW order \in Seq(Ids)
  PROVE  DirectoryOffset(order) = Len(Data(order)) /\ DirectoryOffset(order) \in Nat
<1>1. Len(order) \in Nat /\ Len(order) + 1 \in 1 .. Len(order) + 1
  BY LenProperties
<1>2. BytesBefore(order, Len(order) + 1) = Starts(Each(EntryOf, order), Len(order) + 1)
  BY <1>1, BytesBeforeIs
<1>3. Each(EntryOf, order) \in Seq(Seq(AnyByte)) /\ Len(Each(EntryOf, order)) = Len(order)
  BY DataType
<1>4. Starts(Each(EntryOf, order), Len(Each(EntryOf, order)) + 1) = Len(FlattenSeq(Each(EntryOf, order)))
  BY <1>3, BeforeEnds
<1>5. Len(Data(order)) \in Nat
  BY DataType
<1> QED
  BY <1>2, <1>3, <1>4, <1>5 DEF DirectoryOffset, Data, EachJoined

LEMMA OffsetsType ==
  ASSUME files \in Lists, NEW order \in Seq(Ids)
  PROVE  /\ Offsets(order) \in Seq(Nat) /\ Len(Offsets(order)) = Len(order)
         /\ \A n \in 1 .. Len(order) : Offsets(order)[n] = Starts(Each(EntryOf, order), n)
<1>1. DOMAIN order = 1 .. Len(order) /\ Len(order) \in Nat
  BY LenProperties
<1>2. ASSUME NEW n \in 1 .. Len(order)
      PROVE  BytesBefore(order, n) = Starts(Each(EntryOf, order), n) /\ BytesBefore(order, n) \in Nat
  <2>1. n \in 1 .. Len(order) + 1
    BY <1>1
  <2>2. BytesBefore(order, n) = Starts(Each(EntryOf, order), n)
    BY <2>1, BytesBeforeIs
  <2>3. Each(EntryOf, order) \in Seq(Seq(AnyByte)) /\ Len(Each(EntryOf, order)) = Len(order)
    BY DataType
  <2>4. n \in 1 .. Len(Each(EntryOf, order)) + 1
    BY <2>1, <2>3
  <2>5. Starts(Each(EntryOf, order), n) \in Nat
    BY <2>3, <2>4, BeforeType
  <2> QED
    BY <2>2, <2>5
<1>3. Offsets(order) \in [1 .. Len(order) -> Nat]
  BY <1>1, <1>2 DEF Offsets
<1>4. \A n \in 1 .. Len(order) : Offsets(order)[n] = BytesBefore(order, n)
  BY <1>1 DEF Offsets
<1> QED
  BY <1>1, <1>2, <1>3, <1>4, FunctionSeq

(* The number of files is the length of an order that has each once. *)
LEMMA OrderLength ==
  ASSUME files \in Lists, NEW order, Lists1(order)
  PROVE  Len(order) = Len(files) /\ Ids = {order[n] : n \in 1 .. Len(order)}
<1> DEFINE N == Len(order)
<1>1. N \in Nat /\ \A n \in 1 .. N : order[n] \in Ids
  BY LenProperties, ElementOfSeq DEF Lists1
<1>2. Ids = 1 .. Len(files) /\ Len(files) \in Nat /\ \A i \in Ids : i \in Nat
  BY FilesFacts
<1>3. Ids = {order[n] : n \in 1 .. N}
  <2>1. \A i \in Ids : \E n \in 1 .. N : order[n] = i
    BY DEF Lists1
  <2> HIDE DEF N
  <2> QED
    BY <1>1, <2>1
<1>4. Cardinality({order[k] : k \in 1 .. N}) = N
  <2>1. \A i, j \in 1 .. N : order[i] = order[j] => i = j
    BY DEF Lists1
  <2> HIDE DEF N
  <2> QED
    BY <1>1, <2>1, CountDistinct
<1>5. Cardinality(1 .. Len(files)) = Len(files)
  BY <1>2, CountUpTo
<1> QED
  BY <1>2, <1>3, <1>4, <1>5

(* The entries of the files in some order, and the directory that tells where *)
(* they start: what every plan comes to.                                      *)
DirectoryFor(order) ==
  CentralDirectory(order, Sizes(order), Offsets(order), DirectoryOffset(order))

LEMMA ArchiveReads ==
  ASSUME files \in Lists, NEW order, Lists1(order)
  PROVE  DirectoryFor(order) \in Seq(AnyByte) /\ Readable(Data(order) \o DirectoryFor(order))
<1> DEFINE D == Data(order)
           N == Len(order)
           O == Offsets(order)
           e == Each(EntryOf, order)
           Z == Sizes(order)
           C == CentralDirectory(order, Z, O, DirectoryOffset(order))
           a == D \o C
           Ent(k) == Seen(order[k], Z[k], O[k])
<1>0. /\ order \in Seq(Ids) /\ N \in Nat /\ \A n \in 1 .. N : order[n] \in Ids
      /\ \A m, n \in 1 .. N : order[m] = order[n] => m = n
  BY LenProperties, ElementOfSeq DEF Lists1
<1>1. DirectoryOffset(order) = Len(D)
  BY <1>0, DirectoryOffsetIs
<1>2. O \in Seq(Nat) /\ Len(O) = N /\ \A n \in 1 .. N : O[n] = Starts(e, n)
  BY <1>0, OffsetsType
<1>3. /\ D \in Seq(AnyByte) /\ Len(D) \in Nat /\ e \in Seq(Seq(AnyByte)) /\ Len(e) = N
      /\ \A n \in 1 .. N : e[n] = Entry(order[n])
  BY <1>0, DataType
<1>4. order \in Seq(Nat)
  <2>1. Ids \subseteq Nat
    BY FilesFacts
  <2> QED
    BY <1>0, <2>1, SeqMonotonic
<1>f. FlattenSeq(e) = D
  BY DEF Data, EachJoined
<1>s. Z \in Seq(Nat) /\ Len(Z) = N /\ \A n \in 1 .. N : Z[n] = files[order[n]].size /\ Z[n] \in Nat
  <2>1. \A n \in 1 .. N : files[order[n]].size \in Nat
    BY <1>0, FilesFacts
  <2>2. Z \in [1 .. N -> Nat] /\ \A n \in 1 .. N : Z[n] = files[order[n]].size
    BY <1>0, <2>1, LenProperties DEF Sizes
  <2> HIDE DEF Z, N
  <2> QED
    BY <1>0, <2>1, <2>2, FunctionSeq
<1> HIDE DEF O, e, D, Z
<1>5. /\ C \in Seq(AnyByte) /\ a \in Seq(AnyByte) /\ CountOf(a) = N
      /\ EntriesOf(a) = {Ent(n) : n \in 1 .. N}
  <2> DEFINE c == CentralDirectory(order, Z, O, Len(D))
  <2>1. /\ c \in Seq(AnyByte) /\ D \o c \in Seq(AnyByte) /\ CountOf(D \o c) = N
        /\ EntriesOf(D \o c) = {Seen(order[n], Z[n], O[n]) : n \in 1 .. N}
    <3>1. /\ order \in Seq(Nat) /\ D \in Seq(AnyByte)
          /\ O \in Seq(Nat) /\ Len(O) = Len(order) /\ Z \in Seq(Nat) /\ Len(Z) = Len(order)
      BY <1>2, <1>3, <1>4, <1>s
    <3>2. DirectoryIs(D, order, Z, O)
      BY <3>1, DirectoryReads
    <3> QED
      BY <3>2 DEF DirectoryIs
  <2>2. C = c
    BY <1>1
  <2> QED
    BY <2>1, <2>2
<1> DEFINE S == {Ent(n) : n \in 1 .. N}
<1>6. N = Len(files) /\ Ids = {order[n] : n \in 1 .. N}
  BY OrderLength
<1>7. Cardinality(S) = N
  <2> DEFINE s == [k \in 1 .. N |-> Ent(k)]
  <2>1. ASSUME NEW i \in 1 .. N, NEW j \in 1 .. N, s[i] = s[j] PROVE i = j
    <3>1. s[i].id = order[i] /\ s[j].id = order[j]
      BY DEF Seen
    <3> HIDE DEF s
    <3> QED
      BY <1>0, <2>1, <3>1
  <2>2. \A i, j \in 1 .. N : s[i] = s[j] => i = j
    BY <2>1
  <2>3. S = {s[k] : k \in 1 .. N}
    OBVIOUS
  <2>4. N \in Nat
    BY <1>0
  <2> HIDE DEF s, S, N, Ent
  <2> QED
    BY <2>2, <2>3, <2>4, CountDistinct
<1>8. {x.id : x \in S} = Ids
  <2>1. ASSUME NEW x \in S PROVE x.id \in Ids
    <3>1. PICK n \in 1 .. N : x = Ent(n)
      OBVIOUS
    <3>2. x.id = order[n]
      BY <3>1 DEF Seen
    <3> QED
      BY <1>0, <3>2
  <2>2. ASSUME NEW i \in Ids PROVE \E x \in S : x.id = i
    <3>1. PICK n \in 1 .. N : i = order[n]
      BY <1>6
    <3>2. Ent(n) \in S /\ Ent(n).id = i
      BY <3>1 DEF Seen
    <3> HIDE DEF S, Ent
    <3> QED
      BY <3>2
  <2> HIDE DEF S
  <2> QED
    BY <2>1, <2>2
<1> HIDE DEF C
<1>9. ASSUME NEW n \in 1 .. N
      PROVE  SubSeq(a, O[n] + 1, O[n] + EntryLen(order[n])) = Entry(order[n])
  <2> DEFINE l == EntryLen(order[n])
             o == O[n]
             t == Entry(order[n])
             r == SubSeq(a, o + 1, o + l)
  <2>1. order[n] \in Ids
    BY <1>0
  <2>2. t \in Seq(AnyByte) /\ Len(t) = l /\ l \in Nat
    BY <2>1, EntryType
  <2>3. e[n] = t /\ o = Starts(e, n)
    BY <1>2, <1>3
  <2>4. n \in 1 .. Len(e)
    BY <1>3
  <2>5. o \in Nat /\ o + l <= Len(D) /\ \A j \in 1 .. l : D[o + j] = t[j]
    <3>1. /\ Starts(e, n) \in Nat /\ Starts(e, n) + Len(e[n]) <= Len(FlattenSeq(e))
          /\ \A j \in 1 .. Len(e[n]) : FlattenSeq(e)[Starts(e, n) + j] = e[n][j]
      BY <1>3, <2>4, FlattenAt
    <3> HIDE DEF o, l, t
    <3> QED
      BY <1>f, <2>2, <2>3, <3>1
  <2> HIDE DEF l, o, t
  <2>6. /\ D \o C \in Seq(AnyByte) /\ Len(D \o C) = Len(D) + Len(C)
        /\ \A i \in 1 .. Len(D) + Len(C) : (D \o C)[i] = IF i <= Len(D) THEN D[i] ELSE C[i - Len(D)]
    <3>1. C \in Seq(AnyByte)
      BY <1>5
    <3> QED
      BY <1>3, <3>1, ConcatProperties
  <2>c. Len(C) \in Nat
    BY <1>5, LenProperties
  <2>7. ASSUME NEW j \in 1 .. l PROVE a[o + j] = t[j] /\ o + j \in 1 .. Len(a)
    <3>1. o + j \in 1 .. Len(D) + Len(C) /\ o + j <= Len(D)
      BY <1>3, <2>2, <2>5, <2>c
    <3> QED
      BY <2>5, <2>6, <3>1
  <2>8. \A i \in o + 1 .. o + l : a[i] \in AnyByte
    <3>1. ASSUME NEW i \in o + 1 .. o + l PROVE a[i] \in AnyByte
      <4>1. i - o \in 1 .. l /\ o + (i - o) = i
        BY <2>2, <2>5
      <4>2. i \in 1 .. Len(a)
        BY <2>7, <4>1
      <4> HIDE DEF a
      <4> QED
        BY <1>5, <4>2, ElementOfSeq
    <3> QED
      BY <3>1
  <2> HIDE DEF a
  <2>9. r \in Seq(AnyByte) /\ Len(r) = l /\ \A i \in 1 .. l : r[i] = a[o + i]
    <3>1. /\ r \in Seq(AnyByte)
          /\ Len(r) = IF o + 1 <= o + l THEN (o + l) - (o + 1) + 1 ELSE 0
          /\ \A i \in 1 .. (o + l) - (o + 1) + 1 : r[i] = a[(o + 1) + i - 1]
      <4>1. o + 1 \in Int /\ o + l \in Int
        BY <2>2, <2>5
      <4> QED
        BY <2>8, <4>1, SubSeqProperties
    <3>2. (o + l) - (o + 1) + 1 = l /\ \A i \in 1 .. l : (o + 1) + i - 1 = o + i
      BY <2>2, <2>5
    <3>3. l = 0 \/ o + 1 <= o + l
      BY <2>2, <2>5
    <3>4. l = 0 => ~(o + 1 <= o + l)
      BY <2>5
    <3> HIDE DEF r
    <3> QED
      BY <3>1, <3>2, <3>3, <3>4
  <2> HIDE DEF r
  <2>10. \A i \in 1 .. l : r[i] = t[i]
    BY <2>7, <2>9
  <2>11. r = t
    BY <2>2, <2>9, <2>10, SeqEqual
  <2> QED
    BY <2>11 DEF r, t, o, l
<1> DEFINE Start(x) == IF x.offset = NoOffset THEN Limit ELSE x.offset
<1>10. ASSUME NEW x \in S, files[x.id].size < Limit
       PROVE  SubSeq(a, Start(x) + 1, Start(x) + files[x.id].header + x.size) = Entry(x.id)
  <2>1. PICK n \in 1 .. N : x = Ent(n)
    OBVIOUS
  <2>2. /\ x.id = order[n] /\ x.size = AsU32(Z[n])
        /\ x.offset = IF O[n] = Limit THEN NoOffset ELSE O[n]
    BY <2>1 DEF Seen
  <2>3. O[n] \in Nat /\ Limit \in Nat /\ Z[n] \in Nat /\ Z[n] = files[order[n]].size
    BY <1>2, <1>s, ElementOfSeq, LimitAssumption
  <2>4. Start(x) = O[n]
    BY <2>2, <2>3 DEF NoOffset
  <2>5. x.size = files[order[n]].size
    <3>a. files[order[n]].size < Limit
      BY <1>10, <2>2
    <3>b. Z[n] \in Nat /\ Z[n] <= Limit
      BY <2>3, <3>a
    <3>1. AsU32(Z[n]) = Z[n]
      BY <3>b, AsU32Is
    <3> QED
      BY <2>2, <2>3, <3>1
  <2>6. files[order[n]].header \in Nat /\ files[order[n]].size \in Nat
    BY <1>0, FilesFacts
  <2>7. O[n] + files[order[n]].header + files[order[n]].size = O[n] + EntryLen(order[n])
    BY <2>3, <2>6 DEF EntryLen
  <2> HIDE DEF a, Start
  <2> QED
    BY <1>9, <2>2, <2>4, <2>5, <2>7
<1>11. Readable(a)
  <2>1. EntriesOf(a) = S /\ CountOf(a) = Len(files)
    BY <1>5, <1>6
  <2> HIDE DEF S, a
  <2> QED
    BY <1>6, <1>7, <1>8, <1>10, <2>1 DEF Readable
<1> QED
  BY <1>5, <1>11 DEF C, D, O, Z, DirectoryFor
-----------------------------------------------------------------------------
(* A sequence cut at some points *)

CutAt(c, m, len) ==
  /\ c[1] = 1 /\ c[m + 1] = len + 1
  /\ \A k \in 1 .. m + 1 : c[k] \in Nat
  /\ \A k \in 1 .. m : c[k] <= c[k + 1]

LEMMA CutsGrow ==
  ASSUME NEW m \in Nat, NEW len \in Nat, NEW c, CutAt(c, m, len), NEW k \in 1 .. m + 1, NEW l \in k .. m + 1
  PROVE  c[k] <= c[l]
<1> DEFINE N == {n \in Nat : k + n \in 1 .. m + 1 => c[k] <= c[k + n]}
<1>0. /\ \A i \in 1 .. m + 1 : c[i] \in Nat
      /\ \A i \in 1 .. m : c[i] <= c[i + 1]
  BY DEF CutAt
<1>1. 0 \in N
  <2>1. c[k] <= c[k]
    BY <1>0
  <2>2. k + 0 = k
    OBVIOUS
  <2> QED
    BY <2>1, <2>2
<1>2. ASSUME NEW n \in Nat, n \in N PROVE n + 1 \in N
  <2>1. ASSUME k + (n + 1) \in 1 .. m + 1 PROVE c[k] <= c[k + (n + 1)]
    <3>1. k + n \in 1 .. m /\ k + n \in 1 .. m + 1 /\ k + (n + 1) = (k + n) + 1
      BY <2>1
    <3>2. c[k] <= c[k + n]
      BY <1>2, <3>1
    <3>3. c[k + n] <= c[(k + n) + 1]
      BY <1>0, <3>1
    <3>4. c[k] \in Nat /\ c[k + n] \in Nat /\ c[k + (n + 1)] \in Nat
      BY <1>0, <2>1, <3>1
    <3> QED
      BY <3>1, <3>2, <3>3, <3>4
  <2> QED
    BY <2>1
<1>3. Nat \subseteq N
  <2> HIDE DEF N
  <2> QED
    BY <1>1, <1>2, SetInduction
<1>4. l - k \in N /\ k + (l - k) = l /\ l \in 1 .. m + 1
  BY <1>3
<1> QED
  BY <1>4

LEMMA Cuts ==
  ASSUME NEW m \in Nat, NEW len \in Nat, NEW c, CutAt(c, m, len)
  PROVE  /\ \A k, l \in 1 .. m : \A a \in Nat :
              c[k] <= a /\ a < c[k + 1] /\ c[l] <= a /\ a < c[l + 1] => k = l
         /\ \A a \in 1 .. len : \E k \in 1 .. m : c[k] <= a /\ a < c[k + 1]
<1>0. c[1] = 1 /\ c[m + 1] = len + 1 /\ \A i \in 1 .. m + 1 : c[i] \in Nat
  BY DEF CutAt
<1>1. ASSUME NEW k \in 1 .. m, NEW l \in 1 .. m, NEW a \in Nat, a < c[k + 1], c[l] <= a, k < l
      PROVE  FALSE
  <2>1. k + 1 \in 1 .. m + 1 /\ l \in (k + 1) .. m + 1
    BY <1>1
  <2>2. c[k + 1] <= c[l]
    BY <2>1, CutsGrow
  <2>3. c[k + 1] \in Nat /\ c[l] \in Nat
    BY <1>0, <2>1
  <2> QED
    BY <1>1, <2>2, <2>3
<1>2. ASSUME NEW k \in 1 .. m, NEW l \in 1 .. m, NEW a \in Nat,
             c[k] <= a /\ a < c[k + 1] /\ c[l] <= a /\ a < c[l + 1]
      PROVE  k = l
  <2>1. ~(k < l)
    BY <1>1, <1>2
  <2>2. ~(l < k)
    BY <1>1, <1>2
  <2> QED
    BY <2>1, <2>2
<1>3. ASSUME NEW a \in 1 .. len PROVE \E k \in 1 .. m : c[k] <= a /\ a < c[k + 1]
  <2> DEFINE T == {n \in 1 .. m + 1 : a < c[n]}
  <2>1. m + 1 \in T
    BY <1>0
  <2>2. PICK n \in T : \A k \in T : n <= k
    <3>1. T \subseteq Nat /\ T # {}
      BY <2>1
    <3> HIDE DEF T
    <3> QED
      BY <3>1, Least
  <2>3. n # 1
    BY <1>0
  <2>4. n - 1 \in 1 .. m /\ (n - 1) + 1 = n /\ n - 1 \notin T
    <3>1. n \in 1 .. m + 1
      OBVIOUS
    <3>2. n - 1 \in 1 .. m /\ (n - 1) + 1 = n /\ ~(n <= n - 1)
      BY <2>3, <3>1
    <3> QED
      BY <2>2, <3>2
  <2>5. ~(a < c[n - 1])
    BY <2>4
  <2>6. c[n - 1] \in Nat
    BY <1>0, <2>4
  <2> QED
    BY <2>4, <2>5, <2>6
<1> QED
  BY <1>2, <1>3
-----------------------------------------------------------------------------
(* The files in their orders *)

LEMMA SortStrict ==
  ASSUME files \in Lists, NEW S, S \subseteq Ids
  PROVE  IsFiniteSet(S) /\ StrictOrder(LargestFirst, S) /\ StrictOrder(SmallestFirst, S)
<1>1. /\ Ids = 1 .. Len(files) /\ Len(files) \in Nat
      /\ \A i \in Ids : i \in Nat /\ files[i].size \in Nat
  BY FilesFacts
<1>2. IsFiniteSet(S)
  <2>1. IsFiniteSet(Ids)
    BY <1>1, CountUpTo
  <2> QED
    BY <2>1, FS_Subset
<1> DEFINE z(i) == files[i].size
<1>3. \A x, y \in S : <<x, y>> \in LargestFirst <=> (z(x) > z(y) \/ (z(x) = z(y) /\ x < y))
  BY DEF LargestFirst
<1>4. \A x, y \in S : <<x, y>> \in SmallestFirst <=> (z(x) < z(y) \/ (z(x) = z(y) /\ x < y))
  BY DEF SmallestFirst
<1>5. \A x \in S : x \in Nat /\ z(x) \in Nat
  BY <1>1
<1> HIDE DEF z
<1>6. StrictOrder(LargestFirst, S)
  <2>1. \A x \in S : <<x, x>> \notin LargestFirst
    BY <1>3, <1>5
  <2>2. ASSUME NEW x \in S, NEW y \in S, NEW w \in S, <<x, y>> \in LargestFirst, <<y, w>> \in LargestFirst
        PROVE  <<x, w>> \in LargestFirst
    <3>1. z(x) > z(y) \/ (z(x) = z(y) /\ x < y)
      BY <1>3, <2>2
    <3>2. z(y) > z(w) \/ (z(y) = z(w) /\ y < w)
      BY <1>3, <2>2
    <3>3. z(x) > z(w) \/ (z(x) = z(w) /\ x < w)
      BY <1>5, <3>1, <3>2
    <3> QED
      BY <1>3, <3>3
  <2>3. ASSUME NEW x \in S, NEW y \in S PROVE x = y \/ <<x, y>> \in LargestFirst \/ <<y, x>> \in LargestFirst
    BY <1>3, <1>5
  <2> QED
    BY <2>1, <2>2, <2>3 DEF StrictOrder
<1>7. StrictOrder(SmallestFirst, S)
  <2>1. \A x \in S : <<x, x>> \notin SmallestFirst
    BY <1>4, <1>5
  <2>2. ASSUME NEW x \in S, NEW y \in S, NEW w \in S, <<x, y>> \in SmallestFirst, <<y, w>> \in SmallestFirst
        PROVE  <<x, w>> \in SmallestFirst
    <3>1. z(x) < z(y) \/ (z(x) = z(y) /\ x < y)
      BY <1>4, <2>2
    <3>2. z(y) < z(w) \/ (z(y) = z(w) /\ y < w)
      BY <1>4, <2>2
    <3>3. z(x) < z(w) \/ (z(x) = z(w) /\ x < w)
      BY <1>5, <3>1, <3>2
    <3> QED
      BY <1>4, <3>3
  <2>3. ASSUME NEW x \in S, NEW y \in S PROVE x = y \/ <<x, y>> \in SmallestFirst \/ <<y, x>> \in SmallestFirst
    BY <1>4, <1>5
  <2> QED
    BY <2>1, <2>2, <2>3 DEF StrictOrder
<1> QED
  BY <1>2, <1>6, <1>7

LEMMA BigsAre ==
  ASSUME files \in Lists
  PROVE  /\ Bigs \in Seq(Ids) /\ Len(Bigs) \in Nat
         /\ \A k \in 1 .. Len(Bigs) : Bigs[k] \in Ids /\ files[Bigs[k]].size >= Floor
         /\ \A k, l \in 1 .. Len(Bigs) : Bigs[k] = Bigs[l] => k = l
         /\ \A i \in Ids : files[i].size >= Floor => \E k \in 1 .. Len(Bigs) : Bigs[k] = i
<1> DEFINE S == {i \in Ids : files[i].size >= Floor}
<1>1. S \subseteq Ids
  OBVIOUS
<1>2. Bigs = InOrder(S, LargestFirst)
  BY DEF Bigs
<1>i. \A i \in S : i \in Ids /\ files[i].size >= Floor
  OBVIOUS
<1>j. \A i \in Ids : files[i].size >= Floor => i \in S
  OBVIOUS
<1> HIDE DEF S
<1>3. /\ Bigs \in Seq(S)
      /\ \A k, l \in 1 .. Len(Bigs) : Bigs[k] = Bigs[l] => k = l
      /\ \A x \in S : \E k \in 1 .. Len(Bigs) : Bigs[k] = x
  <2>1. IsFiniteSet(S) /\ StrictOrder(LargestFirst, S)
    BY <1>1, SortStrict
  <2> QED
    BY <1>2, <2>1, Ordered
<1>4. Bigs \in Seq(Ids) /\ Len(Bigs) \in Nat /\ \A k \in 1 .. Len(Bigs) : Bigs[k] \in S
  BY <1>1, <1>3, SeqMonotonic, LenProperties, ElementOfSeq
<1> QED
  BY <1>3, <1>4, <1>i, <1>j

LEMMA SmallsAre ==
  ASSUME files \in Lists
  PROVE  /\ Smalls \in Seq(Ids) /\ Len(Smalls) \in Nat
         /\ \A k \in 1 .. Len(Smalls) : Smalls[k] \in Ids /\ files[Smalls[k]].size < Floor
         /\ \A k, l \in 1 .. Len(Smalls) : Smalls[k] = Smalls[l] => k = l
         /\ \A i \in Ids : files[i].size < Floor => \E k \in 1 .. Len(Smalls) : Smalls[k] = i
<1> DEFINE S == {i \in Ids : files[i].size < Floor}
<1>1. S \subseteq Ids
  OBVIOUS
<1>2. Smalls = InOrder(S, SmallestFirst)
  BY DEF Smalls
<1>i. \A i \in S : i \in Ids /\ files[i].size < Floor
  OBVIOUS
<1>j. \A i \in Ids : files[i].size < Floor => i \in S
  OBVIOUS
<1> HIDE DEF S
<1>3. /\ Smalls \in Seq(S)
      /\ \A k, l \in 1 .. Len(Smalls) : Smalls[k] = Smalls[l] => k = l
      /\ \A x \in S : \E k \in 1 .. Len(Smalls) : Smalls[k] = x
  <2>1. IsFiniteSet(S) /\ StrictOrder(SmallestFirst, S)
    BY <1>1, SortStrict
  <2> QED
    BY <1>2, <2>1, Ordered
<1>4. Smalls \in Seq(Ids) /\ Len(Smalls) \in Nat /\ \A k \in 1 .. Len(Smalls) : Smalls[k] \in S
  BY <1>1, <1>3, SeqMonotonic, LenProperties, ElementOfSeq
<1> QED
  BY <1>3, <1>4, <1>i, <1>j
-----------------------------------------------------------------------------
(* The smalls before each big *)

LEMMA MinIn ==
  ASSUME NEW S, S \subseteq Nat, S # {}
  PROVE  Min(S) \in S /\ \A x \in S : Min(S) <= x
<1>1. PICK m \in S : \A x \in S : m <= x
  BY Least
<1> QED
  BY <1>1 DEF Min

LEMMA PulledType ==
  ASSUME files \in Lists, NEW big, NEW s \in 1 .. Len(Smalls) + 1
  PROVE  Pulled(big, s) \in 0 .. Len(Smalls) + 1 - s
<1> DEFINE L == Len(Smalls)
           T == {j \in 0 .. L + 1 - s : EnoughPulled(big, s, j)}
<1>1. L \in Nat
  BY SmallsAre
<1>2. NoneLeft(s, L + 1 - s)
  <2>1. s + (L + 1 - s) > L
    BY <1>1
  <2> QED
    BY <2>1 DEF NoneLeft
<1>3. L + 1 - s \in 0 .. L + 1 - s
  BY <1>1
<1>4. L + 1 - s \in T
  BY <1>2, <1>3 DEF EnoughPulled
<1>5. T \subseteq Nat
  BY <1>1
<1>6. Min(T) \in T
  <2> HIDE DEF T
  <2> QED
    BY <1>4, <1>5, MinIn
<1> QED
  BY <1>6 DEF Pulled

NextFirst(g, k) == IF k = 1 THEN 1 ELSE g[k - 1] + Pulled(Bigs[k - 1], g[k - 1])

LEMMA FirstSmallIs ==
  ASSUME files \in Lists
  PROVE  FirstSmall = [k \in 1 .. Len(Bigs) + 1 |-> NextFirst(FirstSmall, k)]
<1> DEFINE T == {n \in Nat : \E g : g = [i \in 1 .. n |-> NextFirst(g, i)]}
<1>1. 0 \in T
  <2> DEFINE g0 == [i \in 1 .. 0 |-> 0]
  <2>1. g0 = [i \in 1 .. 0 |-> NextFirst(g0, i)]
    OBVIOUS
  <2> QED
    BY <2>1
<1>2. ASSUME NEW n \in Nat, n \in T PROVE n + 1 \in T
  <2>1. PICK g : g = [i \in 1 .. n |-> NextFirst(g, i)]
    BY <1>2
  <2> DEFINE h == [i \in 1 .. n + 1 |-> NextFirst(g, i)]
  <2>2. \A i \in 1 .. n : h[i] = g[i]
    BY <2>1
  <2>3. ASSUME NEW i \in 1 .. n + 1 PROVE NextFirst(g, i) = NextFirst(h, i)
    <3>1. CASE i = 1
      BY <3>1 DEF NextFirst
    <3>2. CASE i # 1
      <4>1. i - 1 \in 1 .. n
        BY <3>2
      <4>2. g[i - 1] = h[i - 1]
        BY <2>2, <4>1
      <4> QED
        BY <3>2, <4>2 DEF NextFirst
    <3> QED
      BY <3>1, <3>2
  <2>4. h = [i \in 1 .. n + 1 |-> NextFirst(h, i)]
    BY <2>3
  <2> HIDE DEF h
  <2>5. \E k : k = [i \in 1 .. n + 1 |-> NextFirst(k, i)]
    BY <2>4
  <2> QED
    BY <2>5
<1>3. Len(Bigs) + 1 \in T
  <2>1. Nat \subseteq T
    <3> HIDE DEF T
    <3> QED
      BY <1>1, <1>2, SetInduction
  <2>2. Len(Bigs) + 1 \in Nat
    BY BigsAre
  <2> QED
    BY <2>1, <2>2
<1>4. \E g : g = [i \in 1 .. Len(Bigs) + 1 |-> NextFirst(g, i)]
  BY <1>3
<1>5. FirstSmall = CHOOSE g : g = [i \in 1 .. Len(Bigs) + 1 |-> NextFirst(g, i)]
  BY DEF FirstSmall, NextFirst
<1> QED
  BY <1>4, <1>5

(* Where the smalls of each big start, and where those that are left do. *)
FirstOf(k) == IF k = Len(Bigs) + 2 THEN Len(Smalls) + 1 ELSE FirstSmall[k]
GroupOf(k) == SubSeq(Smalls, FirstOf(k), FirstOf(k + 1) - 1)

LEMMA FirstOfCuts ==
  ASSUME files \in Lists
  PROVE  /\ CutAt([k \in 1 .. Len(Bigs) + 2 |-> FirstOf(k)], Len(Bigs) + 1, Len(Smalls))
         /\ \A k \in 1 .. Len(Bigs) + 1 :
              /\ FirstOf(k) \in 1 .. Len(Smalls) + 1 /\ FirstOf(k) = FirstSmall[k]
              /\ FirstOf(k + 1) \in FirstOf(k) .. Len(Smalls) + 1
<1> DEFINE C == Len(Bigs)
           L == Len(Smalls)
           f == FirstSmall
<1>1. C \in Nat /\ L \in Nat
  BY BigsAre, SmallsAre
<1>2. \A k \in 1 .. C + 1 : f[k] = NextFirst(f, k)
  <2>1. f = [k \in 1 .. C + 1 |-> NextFirst(f, k)]
    BY FirstSmallIs
  <2> HIDE DEF f, C
  <2> QED
    BY <2>1
<1> HIDE DEF C, L, f
<1>3. ASSUME NEW k \in 1 .. C, f[k] \in 1 .. L + 1 PROVE f[k + 1] \in f[k] .. L + 1
  <2>1. k + 1 \in 1 .. C + 1 /\ k + 1 # 1 /\ (k + 1) - 1 = k
    BY <1>1
  <2>2. f[k + 1] = f[k] + Pulled(Bigs[k], f[k])
    BY <1>2, <2>1 DEF NextFirst
  <2>3. Pulled(Bigs[k], f[k]) \in 0 .. L + 1 - f[k]
    BY <1>3, PulledType DEF L
  <2> QED
    BY <1>1, <1>3, <2>2, <2>3
<1>4. ASSUME NEW k \in 1 .. C + 1 PROVE f[k] \in 1 .. L + 1
  <2> DEFINE N == {n \in Nat : n + 1 \in 1 .. C + 1 => f[n + 1] \in 1 .. L + 1}
  <2>1. 0 \in N
    <3>1. 1 \in 1 .. C + 1
      BY <1>1
    <3>2. f[1] = 1
      BY <1>2, <3>1 DEF NextFirst
    <3>3. f[0 + 1] \in 1 .. L + 1
      BY <1>1, <3>2
    <3> QED
      BY <3>3
  <2>2. ASSUME NEW n \in Nat, n \in N PROVE n + 1 \in N
    <3>1. ASSUME (n + 1) + 1 \in 1 .. C + 1 PROVE f[(n + 1) + 1] \in 1 .. L + 1
      <4>1. n + 1 \in 1 .. C /\ n + 1 \in 1 .. C + 1
        BY <1>1, <3>1
      <4>2. f[n + 1] \in 1 .. L + 1
        BY <2>2, <4>1
      <4>3. f[(n + 1) + 1] \in f[n + 1] .. L + 1
        BY <1>3, <4>1, <4>2
      <4> QED
        BY <1>1, <4>2, <4>3
    <3> QED
      BY <3>1
  <2>3. Nat \subseteq N
    <3> HIDE DEF N
    <3> QED
      BY <2>1, <2>2, SetInduction
  <2>4. k - 1 \in N /\ (k - 1) + 1 = k
    BY <2>3
  <2> QED
    BY <2>4
<1>5. \A k \in 1 .. C + 1 : FirstOf(k) = f[k]
  <2>1. \A k \in 1 .. C + 1 : k # C + 2
    BY <1>1
  <2> QED
    BY <2>1 DEF FirstOf, C, f
<1>6. FirstOf(C + 2) = L + 1
  BY DEF FirstOf, C, L
<1>7. ASSUME NEW k \in 1 .. C + 1
      PROVE  FirstOf(k) \in 1 .. L + 1 /\ FirstOf(k + 1) \in FirstOf(k) .. L + 1
  <2>1. FirstOf(k) \in 1 .. L + 1
    BY <1>4, <1>5
  <2>2. CASE k = C + 1
    <3>1. k + 1 = C + 2
      BY <1>1, <2>2
    <3> QED
      BY <1>1, <1>6, <2>1, <3>1
  <2>3. CASE k # C + 1
    <3>1. k \in 1 .. C /\ k + 1 \in 1 .. C + 1
      BY <1>1, <2>3
    <3> QED
      BY <1>3, <1>4, <1>5, <2>1, <3>1
  <2> QED
    BY <2>2, <2>3
<1> DEFINE c == [k \in 1 .. C + 2 |-> FirstOf(k)]
<1>8. CutAt(c, C + 1, L)
  <2>1. \A k \in 1 .. C + 2 : c[k] = FirstOf(k)
    OBVIOUS
  <2> HIDE DEF c
  <2>2. c[1] = 1
    <3>1. 1 \in 1 .. C + 1 /\ 1 \in 1 .. C + 2
      BY <1>1
    <3>2. f[1] = 1
      BY <1>2, <3>1 DEF NextFirst
    <3> QED
      BY <1>5, <2>1, <3>1, <3>2
  <2>3. c[(C + 1) + 1] = L + 1
    <3>1. (C + 1) + 1 = C + 2 /\ C + 2 \in 1 .. C + 2
      BY <1>1
    <3> QED
      BY <1>6, <2>1, <3>1
  <2>4. ASSUME NEW k \in 1 .. (C + 1) + 1 PROVE c[k] \in Nat
    <3>1. k \in 1 .. C + 2
      BY <1>1
    <3>2. CASE k = C + 2
      BY <1>1, <1>6, <2>1, <3>1, <3>2
    <3>3. CASE k # C + 2
      <4>1. k \in 1 .. C + 1
        BY <1>1, <3>1, <3>3
      <4>2. FirstOf(k) \in 1 .. L + 1
        BY <1>7, <4>1
      <4> QED
        BY <1>1, <2>1, <3>1, <4>2
    <3> QED
      BY <3>2, <3>3
  <2>5. ASSUME NEW k \in 1 .. C + 1 PROVE c[k] <= c[k + 1]
    <3>1. k \in 1 .. C + 2 /\ k + 1 \in 1 .. C + 2
      BY <1>1
    <3>2. FirstOf(k) \in 1 .. L + 1 /\ FirstOf(k + 1) \in FirstOf(k) .. L + 1
      BY <1>7
    <3> QED
      BY <1>1, <2>1, <3>1, <3>2
  <2> QED
    BY <2>2, <2>3, <2>4, <2>5 DEF CutAt
<1> QED
  BY <1>5, <1>7, <1>8 DEF c, C, L, f

LEMMA GroupType ==
  ASSUME files \in Lists, NEW k \in 1 .. Len(Bigs) + 1
  PROVE  /\ GroupOf(k) \in Seq(Ids) /\ Len(GroupOf(k)) = FirstOf(k + 1) - FirstOf(k)
         /\ \A i \in 1 .. Len(GroupOf(k)) :
              /\ GroupOf(k)[i] = Smalls[FirstOf(k) + i - 1] /\ FirstOf(k) + i - 1 \in 1 .. Len(Smalls)
              /\ FirstOf(k) <= FirstOf(k) + i - 1 /\ FirstOf(k) + i - 1 < FirstOf(k + 1)
<1> DEFINE L == Len(Smalls)
           a == FirstOf(k)
           b == FirstOf(k + 1)
           g == GroupOf(k)
<1>1. L \in Nat /\ a \in 1 .. L + 1 /\ b \in a .. L + 1
  BY SmallsAre, FirstOfCuts
<1>2. \A i \in 1 .. L : Smalls[i] \in Ids
  BY SmallsAre
<1>3. g = SubSeq(Smalls, a, b - 1)
  BY DEF GroupOf
<1> HIDE DEF L, a, b, g
<1>4. \A i \in a .. b - 1 : Smalls[i] \in Ids
  BY <1>1, <1>2
<1>5. /\ g \in Seq(Ids)
      /\ Len(g) = IF a <= b - 1 THEN (b - 1) - a + 1 ELSE 0
      /\ \A i \in 1 .. (b - 1) - a + 1 : g[i] = Smalls[a + i - 1]
  <2>1. a \in Int /\ b - 1 \in Int
    BY <1>1
  <2> QED
    BY <1>3, <1>4, <2>1, SubSeqProperties
<1>6. Len(g) = b - a
  BY <1>1, <1>5
<1>7. ASSUME NEW i \in 1 .. Len(g)
      PROVE  g[i] = Smalls[a + i - 1] /\ a + i - 1 \in 1 .. L /\ a <= a + i - 1 /\ a + i - 1 < b
  <2>1. i \in 1 .. (b - 1) - a + 1
    BY <1>1, <1>6
  <2> QED
    BY <1>1, <1>5, <1>6, <2>1
<1> QED
  BY <1>5, <1>6, <1>7 DEF L, a, b, g

LEMMA GroupsAre ==
  ASSUME files \in Lists
  PROVE  /\ \A k \in 1 .. Len(Bigs) : GroupOf(k) = Batch(k)
         /\ GroupOf(Len(Bigs) + 1) = Leftover
<1>1. Len(Bigs) \in Nat /\ Len(Smalls) \in Nat
  BY BigsAre, SmallsAre
<1>2. ASSUME NEW k \in 1 .. Len(Bigs) PROVE GroupOf(k) = Batch(k)
  <2>1. k \in 1 .. Len(Bigs) + 1 /\ k + 1 \in 1 .. Len(Bigs) + 1
    BY <1>1
  <2>2. FirstOf(k) = FirstSmall[k] /\ FirstOf(k + 1) = FirstSmall[k + 1]
    BY <2>1, FirstOfCuts
  <2> QED
    BY <2>2 DEF GroupOf, Batch
<1>3. GroupOf(Len(Bigs) + 1) = Leftover
  <2>1. Len(Bigs) + 1 \in 1 .. Len(Bigs) + 1 /\ (Len(Bigs) + 1) + 1 = Len(Bigs) + 2
    BY <1>1
  <2>2. FirstOf(Len(Bigs) + 1) = FirstSmall[Len(Bigs) + 1]
    BY <2>1, FirstOfCuts
  <2>3. FirstOf((Len(Bigs) + 1) + 1) - 1 = Len(Smalls)
    BY <1>1, <2>1 DEF FirstOf
  <2> QED
    BY <2>2, <2>3 DEF GroupOf, Leftover
<1> QED
  BY <1>2, <1>3
-----------------------------------------------------------------------------
(* The order of the archive *)

WithBigs == [k \in DOMAIN Bigs |-> Append(Batch(k), Bigs[k])]

LEMMA WithBigsType ==
  ASSUME files \in Lists
  PROVE  /\ WithBigs \in Seq(Seq(Ids)) /\ Len(WithBigs) = Len(Bigs) /\ DOMAIN WithBigs = 1 .. Len(Bigs)
         /\ Leftover \in Seq(Ids) /\ Order = FlattenSeq(WithBigs) \o Leftover
         /\ \A k \in 1 .. Len(Bigs) : Batch(k) \in Seq(Ids) /\ WithBigs[k] = Append(GroupOf(k), Bigs[k])
<1>1. DOMAIN Bigs = 1 .. Len(Bigs) /\ Len(Bigs) \in Nat /\ \A k \in 1 .. Len(Bigs) : Bigs[k] \in Ids
  BY BigsAre, LenProperties
<1>2. ASSUME NEW k \in 1 .. Len(Bigs)
      PROVE  GroupOf(k) = Batch(k) /\ Batch(k) \in Seq(Ids) /\ Append(Batch(k), Bigs[k]) \in Seq(Ids)
  <2>1. k \in 1 .. Len(Bigs) + 1
    BY <1>1
  <2>2. GroupOf(k) = Batch(k)
    BY GroupsAre
  <2>3. GroupOf(k) \in Seq(Ids)
    BY <2>1, GroupType
  <2>4. Append(GroupOf(k), Bigs[k]) \in Seq(Ids)
    BY <1>1, <2>3, AppendProperties
  <2> QED
    BY <2>2, <2>3, <2>4
<1>3. WithBigs \in [1 .. Len(Bigs) -> Seq(Ids)] /\ \A k \in 1 .. Len(Bigs) : WithBigs[k] = Append(GroupOf(k), Bigs[k])
  BY <1>1, <1>2 DEF WithBigs
<1>4. Leftover \in Seq(Ids)
  <2>1. Len(Bigs) + 1 \in 1 .. Len(Bigs) + 1
    BY <1>1
  <2>2. GroupOf(Len(Bigs) + 1) \in Seq(Ids)
    BY <2>1, GroupType
  <2> QED
    BY <2>2, GroupsAre
<1>5. Order = FlattenSeq(WithBigs) \o Leftover
  BY DEF Order, WithBigs
<1> QED
  BY <1>1, <1>2, <1>3, <1>4, <1>5, FunctionSeq

LEMMA OrderOnce ==
  ASSUME files \in Lists
  PROVE  Lists1(Order)
<1> DEFINE C == Len(Bigs)
           s == Append(WithBigs, Leftover)
           g(k) == Len(GroupOf(k))
           at(k, i) == FirstOf(k) + i - 1
<1>1. /\ C \in Nat /\ Len(Smalls) \in Nat
      /\ \A k \in 1 .. C + 1 : g(k) \in Nat
  <2>1. C \in Nat /\ Len(Smalls) \in Nat
    BY BigsAre, SmallsAre
  <2>2. ASSUME NEW k \in 1 .. C + 1 PROVE g(k) \in Nat
    <3>1. GroupOf(k) \in Seq(Ids)
      BY GroupType
    <3> QED
      BY <3>1, LenProperties
  <2> QED
    BY <2>1, <2>2
<1>2. /\ WithBigs \in Seq(Seq(Ids)) /\ Len(WithBigs) = C /\ Leftover \in Seq(Ids)
      /\ Order = FlattenSeq(WithBigs) \o Leftover
      /\ \A k \in 1 .. C : WithBigs[k] = Append(GroupOf(k), Bigs[k])
  BY WithBigsType
<1>3. /\ s \in Seq(Seq(Ids)) /\ Len(s) = C + 1
      /\ \A k \in 1 .. C : s[k] = Append(GroupOf(k), Bigs[k])
      /\ s[C + 1] = GroupOf(C + 1)
  <2>1. /\ s \in Seq(Seq(Ids)) /\ Len(s) = Len(WithBigs) + 1 /\ s[Len(WithBigs) + 1] = Leftover
        /\ \A k \in 1 .. Len(WithBigs) : s[k] = WithBigs[k]
    BY <1>2, AppendProperties
  <2>2. GroupOf(C + 1) = Leftover
    BY GroupsAre
  <2> HIDE DEF s, C
  <2> QED
    BY <1>2, <2>1, <2>2
<1>4. Order = FlattenSeq(s)
  BY <1>2, FlattenAppend
<1> HIDE DEF s, C
<1>5. ASSUME NEW k \in 1 .. C + 1, NEW i \in 1 .. Len(s[k])
      PROVE  \/ i \in 1 .. g(k) /\ s[k][i] = GroupOf(k)[i]
             \/ k \in 1 .. C /\ i = g(k) + 1 /\ s[k][i] = Bigs[k]
  <2>1. CASE k = C + 1
    BY <1>3, <2>1
  <2>2. CASE k # C + 1
    <3>1. k \in 1 .. C
      BY <1>1, <2>2
    <3>2. GroupOf(k) \in Seq(Ids) /\ Bigs[k] \in Ids
      BY <3>1, GroupType, BigsAre DEF C
    <3>3. /\ Len(s[k]) = g(k) + 1 /\ s[k][g(k) + 1] = Bigs[k]
          /\ \A j \in 1 .. g(k) : s[k][j] = GroupOf(k)[j]
      BY <1>3, <3>1, <3>2, AppendProperties
    <3> HIDE DEF g
    <3>4. i \in 1 .. g(k) \/ i = g(k) + 1
      BY <1>1, <3>3
    <3> QED
      BY <3>1, <3>3, <3>4
  <2> QED
    BY <2>1, <2>2
<1>6. ASSUME NEW k \in 1 .. C + 1, NEW i \in 1 .. g(k)
      PROVE  /\ GroupOf(k)[i] = Smalls[at(k, i)] /\ at(k, i) \in 1 .. Len(Smalls)
             /\ FirstOf(k) <= at(k, i) /\ at(k, i) < FirstOf(k + 1) /\ FirstOf(k) \in Nat
  <2>1. FirstOf(k) \in 1 .. Len(Smalls) + 1
    BY FirstOfCuts DEF C
  <2> QED
    BY <1>1, <2>1, GroupType DEF C
<1> HIDE DEF g, at
<1>7. /\ \A k, l \in 1 .. C + 1 : \A a \in Nat :
            FirstOf(k) <= a /\ a < FirstOf(k + 1) /\ FirstOf(l) <= a /\ a < FirstOf(l + 1) => k = l
      /\ \A a \in 1 .. Len(Smalls) : \E k \in 1 .. C + 1 : FirstOf(k) <= a /\ a < FirstOf(k + 1)
  <2> DEFINE c == [k \in 1 .. C + 2 |-> FirstOf(k)]
             m == C + 1
  <2>1. \A k \in 1 .. m : c[k] = FirstOf(k) /\ c[k + 1] = FirstOf(k + 1)
    BY <1>1
  <2>2. m \in Nat
    BY <1>1
  <2>3. CutAt(c, m, Len(Smalls))
    BY FirstOfCuts DEF C
  <2> HIDE DEF c, m
  <2>4. /\ \A k, l \in 1 .. m : \A a \in Nat :
            c[k] <= a /\ a < c[k + 1] /\ c[l] <= a /\ a < c[l + 1] => k = l
        /\ \A a \in 1 .. Len(Smalls) : \E k \in 1 .. m : c[k] <= a /\ a < c[k + 1]
    BY <1>1, <2>2, <2>3, Cuts
  <2>5. /\ \A k, l \in 1 .. m : \A a \in Nat :
            FirstOf(k) <= a /\ a < FirstOf(k + 1) /\ FirstOf(l) <= a /\ a < FirstOf(l + 1) => k = l
        /\ \A a \in 1 .. Len(Smalls) : \E k \in 1 .. m : FirstOf(k) <= a /\ a < FirstOf(k + 1)
    BY <2>1, <2>4
  <2> QED
    BY <2>5 DEF m
<1>8. /\ \A k \in 1 .. Len(Smalls) : Smalls[k] \in Ids /\ files[Smalls[k]].size < Floor
      /\ \A k, l \in 1 .. Len(Smalls) : Smalls[k] = Smalls[l] => k = l
      /\ \A i \in Ids : files[i].size < Floor => \E k \in 1 .. Len(Smalls) : Smalls[k] = i
  BY SmallsAre
<1>9. /\ \A k \in 1 .. C : Bigs[k] \in Ids /\ files[Bigs[k]].size >= Floor
      /\ \A k, l \in 1 .. C : Bigs[k] = Bigs[l] => k = l
      /\ \A i \in Ids : files[i].size >= Floor => \E k \in 1 .. C : Bigs[k] = i
  BY BigsAre DEF C
<1>10. \A i \in Ids : files[i].size \in Nat /\ Floor \in Nat
  BY FilesFacts
<1>11. ASSUME NEW k \in 1 .. C + 1, NEW l \in 1 .. C + 1, NEW i \in 1 .. g(k), NEW j \in 1 .. g(l),
              GroupOf(k)[i] = GroupOf(l)[j]
       PROVE  k = l /\ i = j
  <2>1. at(k, i) = at(l, j)
    <3>1. /\ at(k, i) \in 1 .. Len(Smalls) /\ at(l, j) \in 1 .. Len(Smalls)
          /\ Smalls[at(k, i)] = Smalls[at(l, j)]
      BY <1>6, <1>11
    <3> QED
      BY <1>8, <3>1
  <2>2. k = l
    <3>1. at(k, i) \in Nat
      BY <1>6
    <3>2. FirstOf(k) <= at(k, i) /\ at(k, i) < FirstOf(k + 1) /\ FirstOf(l) <= at(k, i) /\ at(k, i) < FirstOf(l + 1)
      BY <1>6, <2>1
    <3> QED
      BY <1>7, <3>1, <3>2
  <2>3. i = j
    <3>1. FirstOf(k) + i - 1 = FirstOf(k) + j - 1 /\ FirstOf(k) \in Nat
      BY <1>6, <2>1, <2>2 DEF at
    <3> QED
      BY <3>1
  <2> QED
    BY <2>2, <2>3
<1>12. ASSUME NEW k \in 1 .. C + 1, NEW i \in 1 .. g(k), NEW l \in 1 .. C
       PROVE  GroupOf(k)[i] # Bigs[l]
  <2>1. GroupOf(k)[i] \in Ids /\ files[GroupOf(k)[i]].size < Floor
    BY <1>6, <1>8
  <2>2. files[Bigs[l]].size >= Floor
    BY <1>9
  <2> QED
    BY <1>10, <2>1, <2>2
<1>13. ASSUME NEW k \in 1 .. C + 1, NEW l \in 1 .. C + 1, NEW i \in 1 .. Len(s[k]), NEW j \in 1 .. Len(s[l]),
              s[k][i] = s[l][j]
       PROVE  k = l /\ i = j
  <2>1. CASE i \in 1 .. g(k) /\ s[k][i] = GroupOf(k)[i]
    <3>1. CASE j \in 1 .. g(l) /\ s[l][j] = GroupOf(l)[j]
      <4>1. i \in 1 .. g(k) /\ j \in 1 .. g(l) /\ GroupOf(k)[i] = GroupOf(l)[j]
        BY <1>13, <2>1, <3>1
      <4> QED
        BY <1>11, <4>1
    <3>2. CASE l \in 1 .. C /\ j = g(l) + 1 /\ s[l][j] = Bigs[l]
      BY <1>12, <1>13, <2>1, <3>2
    <3> QED
      BY <1>5, <3>1, <3>2
  <2>2. CASE k \in 1 .. C /\ i = g(k) + 1 /\ s[k][i] = Bigs[k]
    <3>1. CASE j \in 1 .. g(l) /\ s[l][j] = GroupOf(l)[j]
      BY <1>12, <1>13, <2>2, <3>1
    <3>2. CASE l \in 1 .. C /\ j = g(l) + 1 /\ s[l][j] = Bigs[l]
      BY <1>9, <1>13, <2>2, <3>2
    <3> QED
      BY <1>5, <3>1, <3>2
  <2> QED
    BY <1>5, <2>1, <2>2
<1>14. ASSUME NEW x \in Ids PROVE \E k \in 1 .. C + 1 : \E i \in 1 .. Len(s[k]) : s[k][i] = x
  <2>1. CASE files[x].size < Floor
    <3>1. PICK a \in 1 .. Len(Smalls) : Smalls[a] = x
      BY <1>8, <2>1
    <3>2. PICK k \in 1 .. C + 1 : FirstOf(k) <= a /\ a < FirstOf(k + 1)
      BY <1>7
    <3>3. /\ FirstOf(k) \in 1 .. Len(Smalls) + 1 /\ FirstOf(k + 1) \in FirstOf(k) .. Len(Smalls) + 1
          /\ g(k) = FirstOf(k + 1) - FirstOf(k) /\ GroupOf(k) \in Seq(Ids)
      BY FirstOfCuts, GroupType DEF C, g
    <3> DEFINE i == a - FirstOf(k) + 1
    <3>4. i \in 1 .. g(k) /\ at(k, i) = a
      BY <1>1, <3>2, <3>3 DEF at
    <3> HIDE DEF i
    <3>5. GroupOf(k)[i] = x
      BY <1>6, <3>1, <3>4
    <3>6. i \in 1 .. Len(s[k]) /\ s[k][i] = GroupOf(k)[i]
      <4>1. CASE k = C + 1
        BY <1>3, <3>4, <4>1 DEF g
      <4>2. CASE k # C + 1
        <5>1. k \in 1 .. C
          BY <1>1, <4>2
        <5>2. Bigs[k] \in Ids
          BY <1>9, <5>1
        <5>3. Len(s[k]) = g(k) + 1 /\ \A j \in 1 .. g(k) : s[k][j] = GroupOf(k)[j]
          <6>1. GroupOf(k) \in Seq(Ids) /\ s[k] = Append(GroupOf(k), Bigs[k])
            BY <1>3, <3>3, <5>1
          <6> QED
            BY <5>2, <6>1, AppendProperties DEF g
        <5>4. i \in 1 .. g(k) + 1
          BY <1>1, <3>4
        <5> QED
          BY <3>4, <5>3, <5>4
      <4> QED
        BY <4>1, <4>2
    <3> QED
      BY <3>5, <3>6
  <2>2. CASE ~(files[x].size < Floor)
    <3>1. PICK k \in 1 .. C : Bigs[k] = x
      BY <1>9, <1>10, <2>2
    <3>2. k \in 1 .. C + 1
      BY <1>1
    <3>3. GroupOf(k) \in Seq(Ids) /\ Bigs[k] \in Ids
      BY <1>9, <3>2, GroupType DEF C
    <3>4. Len(s[k]) = g(k) + 1 /\ s[k][g(k) + 1] = Bigs[k]
      BY <1>3, <3>3, AppendProperties DEF g
    <3>5. g(k) + 1 \in 1 .. Len(s[k])
      BY <1>1, <3>2, <3>4
    <3> QED
      BY <3>1, <3>2, <3>4, <3>5
  <2> QED
    BY <2>1, <2>2
<1>15. ASSUME NEW k \in 1 .. C + 1, NEW i \in 1 .. Len(s[k]) PROVE s[k][i] \in Ids
  <2>1. CASE i \in 1 .. g(k) /\ s[k][i] = GroupOf(k)[i]
    BY <1>6, <1>8, <2>1
  <2>2. CASE k \in 1 .. C /\ s[k][i] = Bigs[k]
    BY <1>9, <2>2
  <2> QED
    BY <1>5, <2>1, <2>2
<1>16. /\ FlattenSeq(s) \in Seq(Ids)
       /\ \A p, q \in 1 .. Len(FlattenSeq(s)) : FlattenSeq(s)[p] = FlattenSeq(s)[q] => p = q
       /\ \A x \in Ids : \E p \in 1 .. Len(FlattenSeq(s)) : FlattenSeq(s)[p] = x
  <2>1. NoneTwice(s)
    BY <1>3, <1>13 DEF NoneTwice
  <2>2. HoldsAll(s, Ids)
    BY <1>3, <1>14, <1>15 DEF HoldsAll
  <2>3. s \in Seq(Seq(Ids))
    BY <1>3
  <2> QED
    BY <2>1, <2>2, <2>3, FlattenBijection
<1> QED
  BY <1>4, <1>16 DEF Lists1
-----------------------------------------------------------------------------
(* The parts of a big *)

(* g counts from 1 what f counts from a. *)
Shifted(f, g, a, n) == \A k \in 1 .. n : f[a + k - 1] \in Int /\ g[k] = f[a + k - 1]

LEMMA SumFrom ==
  ASSUME NEW n \in Nat, NEW a \in Nat, NEW f, NEW g, Shifted(f, g, a, n)
  PROVE  SumFunctionOnSet(f, a .. a + n - 1) = SumFunctionOnSet(g, 1 .. n)
<1> DEFINE F(j) == SumFunctionOnSet(f, a .. a + j - 1)
           G(j) == SumFunctionOnSet(g, 1 .. j)
           T == {j \in Nat : j <= n => F(j) = G(j)}
<1> USE DEF Shifted
<1>1. 0 \in T
  <2>1. a .. a + 0 - 1 = {} /\ 1 .. 0 = {}
    OBVIOUS
  <2>2. SumFunctionOnSet(f, {}) = 0 /\ SumFunctionOnSet(g, {}) = 0
    BY SumType, FS_EmptySet
  <2> QED
    BY <2>1, <2>2
<1>2. ASSUME NEW j \in Nat, j \in T, j + 1 <= n PROVE j + 1 \in T
  <2> DEFINE S == a .. a + j - 1
             y == a + j
  <2>1. a .. a + (j + 1) - 1 = S \cup {y} /\ y \notin S
    OBVIOUS
  <2>2. IsFiniteSet(S)
    BY FS_Interval
  <2>3. ASSUME NEW x \in S \cup {y} PROVE f[x] \in Int
    <3>1. x - a + 1 \in 1 .. n /\ a + (x - a + 1) - 1 = x
      BY <1>2
    <3> QED
      BY <3>1
  <2>4. j + 1 \in 1 .. n /\ a + (j + 1) - 1 = y
    BY <1>2
  <2>5. g[j + 1] = f[y] /\ f[y] \in Int
    BY <2>4
  <2>6. \A k \in 1 .. j : g[k] \in Int /\ g[k] = g[k]
    BY <1>2
  <2> HIDE DEF S, y
  <2>7. SumFunctionOnSet(f, S \cup {y}) = SumFunctionOnSet(f, S) + f[y]
    BY <2>1, <2>2, <2>3, SumAdd
  <2>8. G(j + 1) = G(j) + g[j + 1]
    BY <2>5, <2>6, SumNext
  <2>9. F(j) = G(j)
    BY <1>2
  <2>10. F(j + 1) = F(j) + f[y]
    BY <2>1, <2>7 DEF S
  <2> HIDE DEF F, G
  <2> QED
    BY <2>5, <2>8, <2>9, <2>10
<1>3. ASSUME NEW j \in Nat, j \in T PROVE j + 1 \in T
  <2>1. CASE j + 1 <= n
    BY <1>2, <1>3, <2>1
  <2>2. CASE ~(j + 1 <= n)
    BY <2>2
  <2> QED
    BY <2>1, <2>2
<1>4. Nat \subseteq T
  <2> HIDE DEF T
  <2> QED
    BY <1>1, <1>3, SetInduction
<1> QED
  BY <1>4

LEMMA TakenIs ==
  ASSUME files \in Lists, NEW k \in 1 .. Len(Bigs)
  PROVE  /\ Batch(k) \in Seq(Ids) /\ Data(Batch(k)) \in Seq(AnyByte)
         /\ Len(Data(Batch(k))) = Taken(FirstSmall[k], Len(Batch(k)))
         /\ Len(Data(Batch(k))) \in Nat
<1> DEFINE b == Batch(k)
           e == Each(EntryOf, b)
           f == [i \in DOMAIN Smalls |-> EntryLen(Smalls[i])]
           g == [i \in 1 .. Len(b) |-> EntryLen(b[i])]
           a == FirstSmall[k]
<1>1. k \in 1 .. Len(Bigs) + 1
  BY BigsAre
<1>2. b \in Seq(Ids) /\ Len(b) \in Nat /\ b = GroupOf(k)
  BY WithBigsType, GroupsAre, LenProperties
<1>3. a \in Nat /\ a = FirstOf(k)
  <2>1. FirstOf(k) \in 1 .. Len(Smalls) + 1 /\ FirstOf(k) = FirstSmall[k]
    BY <1>1, FirstOfCuts
  <2> QED
    BY <2>1
<1>4. \A i \in 1 .. Len(b) : b[i] = Smalls[a + i - 1] /\ a + i - 1 \in 1 .. Len(Smalls)
  BY <1>1, <1>2, <1>3, GroupType
<1>5. \A i \in 1 .. Len(Smalls) : f[i] = EntryLen(Smalls[i]) /\ EntryLen(Smalls[i]) \in Int
  <2>1. DOMAIN Smalls = 1 .. Len(Smalls) /\ \A i \in 1 .. Len(Smalls) : Smalls[i] \in Ids
    BY SmallsAre, LenProperties
  <2>2. \A i \in Ids : EntryLen(i) \in Nat
    BY EntryType
  <2> QED
    BY <2>1, <2>2
<1>6. \A i \in 1 .. Len(b) : g[i] = EntryLen(b[i])
  OBVIOUS
<1>7. Taken(a, Len(b)) = SumFunctionOnSet(f, a .. a + Len(b) - 1)
  BY DEF Taken
<1> HIDE DEF b, f, g, a
<1>8. SumFunctionOnSet(f, a .. a + Len(b) - 1) = SumFunctionOnSet(g, 1 .. Len(b))
  <2>1. \A i \in 1 .. Len(b) : f[a + i - 1] \in Int /\ g[i] = f[a + i - 1]
    BY <1>4, <1>5, <1>6
  <2>2. Len(b) \in Nat /\ a \in Nat
    BY <1>2, <1>3
  <2> DEFINE n == Len(b)
  <2>3. \A i \in 1 .. n : f[a + i - 1] \in Int /\ g[i] = f[a + i - 1]
    BY <2>1
  <2>4. n \in Nat
    BY <2>2
  <2> HIDE DEF n
  <2>5. Shifted(f, g, a, n)
    BY <2>3 DEF Shifted
  <2>6. SumFunctionOnSet(f, a .. a + n - 1) = SumFunctionOnSet(g, 1 .. n)
    BY <2>2, <2>4, <2>5, SumFrom
  <2> QED
    BY <2>6 DEF n
<1>9. e \in Seq(Seq(AnyByte)) /\ Len(e) = Len(b) /\ Data(b) \in Seq(AnyByte) /\ Len(Data(b)) \in Nat
      /\ \A i \in 1 .. Len(b) : e[i] = Entry(b[i])
  BY <1>2, DataType
<1>10. Len(FlattenSeq(e)) = SumFunctionOnSet(g, 1 .. Len(e))
  <2>1. ASSUME NEW i \in 1 .. Len(e) PROVE g[i] = Len(e[i])
    <3>1. i \in 1 .. Len(b)
      BY <1>9
    <3>2. b[i] \in Ids
      BY <1>2, <3>1, ElementOfSeq
    <3>3. Len(Entry(b[i])) = EntryLen(b[i])
      BY <3>2, EntryType
    <3> QED
      BY <1>6, <1>9, <3>1, <3>3
  <2> HIDE DEF e
  <2> QED
    BY <1>9, <2>1, FlattenSum
<1> QED
  BY <1>2, <1>7, <1>8, <1>9, <1>10 DEF Data, EachJoined, b, a

LEMMA MaxOfTwo ==
  ASSUME NEW a \in Int, NEW b \in Int
  PROVE  Max({a, b}) \in {a, b} /\ Max({a, b}) >= a /\ Max({a, b}) >= b
<1>1. \E x \in {a, b} : \A y \in {a, b} : x >= y
  BY a >= b \/ b >= a
<1> QED
  BY <1>1 DEF Max

LEMMA MinOfTwo ==
  ASSUME NEW a \in Int, NEW b \in Int
  PROVE  Min({a, b}) \in {a, b} /\ Min({a, b}) <= a /\ Min({a, b}) <= b
<1>1. \E x \in {a, b} : \A y \in {a, b} : x <= y
  BY a >= b \/ b >= a
<1> QED
  BY <1>1 DEF Min

(* A big lends no more than what leaves it at the floor. *)
LEMMA StolenType ==
  ASSUME files \in Lists, NEW k \in 1 .. Len(Bigs)
  PROVE  Stolen(Bigs[k], FirstSmall[k], Len(Batch(k))) \in 0 .. MaxSteal(Bigs[k])
<1> DEFINE big == Bigs[k]
           a == FirstSmall[k]
           j == Len(Batch(k))
           T == Taken(a, j)
           m == MaxSteal(big)
           G == Gap(big, a, j)
<1>1. big \in Ids /\ files[big].size >= Floor
  BY BigsAre
<1>2. files[big].size \in Nat /\ files[big].header \in Nat /\ Floor \in Nat
  BY <1>1, FilesFacts
<1>3. T \in Nat
  BY TakenIs
<1>4. m \in Nat
  BY <1>1, <1>2 DEF MaxSteal
<1>5. G \in Nat
  <2> DEFINE w == Floor - WithHeader(big, a, j)
  <2>1. w \in Int
    BY <1>2, <1>3 DEF WithHeader
  <2>2. G = Max({0, w})
    BY DEF Gap
  <2> HIDE DEF w, G
  <2>3. Max({0, w}) \in {0, w} /\ Max({0, w}) >= 0
    BY <2>1, MaxOfTwo
  <2> QED
    BY <2>1, <2>2, <2>3
<1>6. Stolen(big, a, j) = Min({G, m}) \/ Stolen(big, a, j) = 0
  BY DEF Stolen
<1> HIDE DEF G, m, big, a, j
<1>7. Min({G, m}) \in {G, m} /\ Min({G, m}) <= m
  <2>1. G \in Int /\ m \in Int
    BY <1>4, <1>5
  <2> QED
    BY <2>1, MinOfTwo
<1>8. Stolen(big, a, j) \in 0 .. m
  BY <1>4, <1>5, <1>6, <1>7
<1> QED
  BY <1>8 DEF m, big, a, j
-----------------------------------------------------------------------------
(* What a plan of figment-engine writes *)

PartSet == [kind : {"stream", "copy"}, slices : Seq(SliceSet)]
PartOf == [p \in PartSet |-> EachJoined(BytesOf, p.slices)]

LEMMA PartOfMaps ==
  /\ Maps(PartOf, PartSet, Seq(AnyByte))
  /\ \A p \in PartSet : PartOf[p] = EachJoined(BytesOf, p.slices)
<1>1. \A s \in Seq(SliceSet) : EachJoined(BytesOf, s) \in Seq(AnyByte)
  BY BytesMaps, JoinedType
<1>2. \A p \in PartSet : p.slices \in Seq(SliceSet)
  BY DEF PartSet
<1> QED
  BY <1>1, <1>2 DEF PartOf, Maps

LEMMA SliceBytesIs ==
  ASSUME NEW s \in Seq(SliceSet)
  PROVE  SliceBytes(s) = EachJoined(BytesOf, s) /\ EachJoined(BytesOf, s) \in Seq(AnyByte)
<1>1. EachJoined(BytesOf, s) \in Seq(AnyByte)
  BY BytesMaps, JoinedType
<1>2. \A i \in DOMAIN s : s[i] \in SliceSet
  BY ElementOfSeq, LenProperties
<1>3. [i \in DOMAIN s |-> Bytes(s[i])] = Each(BytesOf, s)
  BY <1>2, BytesMaps DEF Each
<1> QED
  BY <1>1, <1>3 DEF SliceBytes, EachJoined

LEMMA StreamPart ==
  ASSUME NEW s \in Seq(SliceSet)
  PROVE  Stream(s) \in PartSet /\ PartOf[Stream(s)] = EachJoined(BytesOf, s)
<1>1. Stream(s) \in PartSet /\ Stream(s).slices = s
  BY DEF Stream, PartSet
<1> QED
  BY <1>1, PartOfMaps

LEMMA CopyPart ==
  ASSUME NEW s \in SliceSet
  PROVE  Copy(s) \in PartSet /\ PartOf[Copy(s)] = Bytes(s)
<1>1. Copy(s) \in PartSet /\ Copy(s).slices = <<s>>
  BY DEF Copy, PartSet
<1>2. EachJoined(BytesOf, <<s>>) = BytesOf[s]
  BY EachOne
<1> QED
  BY <1>1, <1>2, PartOfMaps, BytesMaps

(* A prefix of no bytes is left out. *)
LEMMA PrefixBytes ==
  ASSUME files \in Lists, NEW id \in Ids, NEW n \in Nat, n <= files[id].size
  PROVE  /\ Prefix(id, n) \in Seq(SliceSet)
         /\ EachJoined(BytesOf, Prefix(id, n)) = Bytes(BodySlice(id, 0, n))
<1> DEFINE s == BodySlice(id, 0, n)
<1>1. s \in SliceSet /\ SliceLen(s) = n
  <2>1. s \in SliceSet /\ SliceLen(s) = n - 0
    BY BodySliceIn
  <2> QED
    BY <2>1
<1>2. CASE n > 0
  <2>1. Prefix(id, n) = <<s>>
    BY <1>2 DEF Prefix
  <2> HIDE DEF s
  <2>2. EachJoined(BytesOf, <<s>>) = BytesOf[s] /\ <<s>> \in Seq(SliceSet)
    BY <1>1, EachOne
  <2> QED
    BY <1>1, <2>1, <2>2, BytesMaps DEF s
<1>3. CASE ~(n > 0)
  <2>1. Prefix(id, n) = <<>>
    BY <1>3 DEF Prefix
  <2>2. Bytes(s) \in Seq(AnyByte) /\ Len(Bytes(s)) = 0
    BY <1>1, <1>3, BytesType
  <2> HIDE DEF s
  <2>3. Bytes(s) = <<>>
    BY <2>2, EmptySeq
  <2> QED
    BY <2>1, <2>3, EachEmpty DEF s
<1> QED
  BY <1>2, <1>3

Regroups(a, b, c, d) == ((a \o b) \o c) \o d = a \o (b \o (c \o d))

LEMMA Regrouping ==
  ASSUME NEW T, NEW a \in Seq(T), NEW b \in Seq(T), NEW c \in Seq(T), NEW d \in Seq(T)
  PROVE  Regroups(a, b, c, d)
<1> DEFINE ab == a \o b
           cd == c \o d
           x == (ab \o c) \o d
           y == a \o (b \o cd)
<1>1. ab \in Seq(T) /\ cd \in Seq(T)
  BY ConcatProperties
<1>2. x = ab \o cd
  <2> HIDE DEF ab
  <2>1. Regroup(ab, c, d)
    BY <1>1, RegroupAny
  <2> QED
    BY <2>1 DEF Regroup, cd, x
<1>3. ab \o cd = y
  <2> HIDE DEF cd, x
  <2>1. Regroup(a, b, cd)
    BY <1>1, RegroupAny
  <2> QED
    BY <2>1 DEF Regroup, ab, y
<1> QED
  BY <1>2, <1>3 DEF Regroups

LEMMA TwoParts ==
  ASSUME NEW x \in PartSet, NEW y \in PartSet
  PROVE  <<x, y>> \in Seq(PartSet) /\ EachJoined(PartOf, <<x, y>>) = PartOf[x] \o PartOf[y]
<1> DEFINE u == <<x>>
<1>1. u \in Seq(PartSet) /\ <<x, y>> = Append(u, y) /\ <<x, y>> \in Seq(PartSet)
  OBVIOUS
<1>2. EachJoined(PartOf, u) = PartOf[x]
  BY EachOne
<1> HIDE DEF u
<1>3. EachJoined(PartOf, Append(u, y)) = EachJoined(PartOf, u) \o PartOf[y]
  BY <1>1, PartOfMaps, JoinedAppend
<1> QED
  BY <1>1, <1>2, <1>3

LEMMA JoinedSlices ==
  ASSUME NEW s \in Seq(SliceSet), NEW t \in Seq(SliceSet)
  PROVE  s \o t \in Seq(SliceSet) /\ EachJoined(BytesOf, s \o t) = EachJoined(BytesOf, s) \o EachJoined(BytesOf, t)
<1>1. Maps(BytesOf, SliceSet, Seq(AnyByte))
  BY BytesMaps
<1> QED
  BY <1>1, JoinedConcat, ConcatProperties

(* The slices of a batch, of the header of a big and of a prefix of its body. *)
LEMMA BatchSlices ==
  ASSUME files \in Lists, NEW b \in Seq(Ids)
  PROVE  LET S == FlattenSeq([i \in DOMAIN b |-> Whole(b[i])]) IN
         S \in Seq(SliceSet) /\ EachJoined(BytesOf, S) = Data(b)
<1> DEFINE w == [i \in DOMAIN b |-> <<Header(b[i]), Body(b[i])>>]
<1>1. FlattenSeq(w) \in Seq(SliceSet) /\ EachJoined(BytesOf, FlattenSeq(w)) = EachJoined(EntryOf, b)
  BY WholesBytes
<1> QED
  BY <1>1 DEF Whole, Data

LEMMA FirstPartBytes ==
  ASSUME files \in Lists, NEW S \in Seq(SliceSet), NEW big \in Ids, NEW n \in Nat, n <= files[big].size
  PROVE  /\ S \o <<Header(big)>> \o Prefix(big, n) \in Seq(SliceSet)
         /\ EachJoined(BytesOf, S \o <<Header(big)>> \o Prefix(big, n))
              = (EachJoined(BytesOf, S) \o Bytes(Header(big))) \o Bytes(BodySlice(big, 0, n))
<1> DEFINE H == Header(big)
           h == <<H>>
           p == Prefix(big, n)
<1>1. p \in Seq(SliceSet) /\ EachJoined(BytesOf, p) = Bytes(BodySlice(big, 0, n))
  BY PrefixBytes
<1>2. H \in SliceSet
  BY HeaderIn
<1> HIDE DEF H, p
<1>3. h \in Seq(SliceSet)
  BY <1>2
<1>4. EachJoined(BytesOf, h) = Bytes(H)
  BY <1>2, EachOne, BytesMaps
<1> HIDE DEF h
<1> DEFINE sh == S \o h
<1>5. sh \in Seq(SliceSet) /\ EachJoined(BytesOf, sh) = EachJoined(BytesOf, S) \o EachJoined(BytesOf, h)
  BY <1>3, JoinedSlices
<1> HIDE DEF sh
<1>6. sh \o p \in Seq(SliceSet) /\ EachJoined(BytesOf, sh \o p) = EachJoined(BytesOf, sh) \o EachJoined(BytesOf, p)
  BY <1>1, <1>5, JoinedSlices
<1> QED
  BY <1>1, <1>4, <1>5, <1>6 DEF sh, h, H, p

(* An entry is its header, a prefix of the body, and the rest of it. *)
LEMMA EntryCut ==
  ASSUME files \in Lists, NEW big \in Ids, NEW n \in Nat, n <= files[big].size, NEW D \in Seq(AnyByte)
  PROVE  LET H == Bytes(Header(big))
             P == Bytes(BodySlice(big, 0, n))
             Q == Bytes(BodySlice(big, n, files[big].size))
         IN  /\ Len((D \o H) \o P) = Len(D) + files[big].header + n
             /\ Len(Q) = files[big].size - n
             /\ ((D \o H) \o P) \o Q = D \o Entry(big)
<1> DEFINE H == Bytes(Header(big))
           P == Bytes(BodySlice(big, 0, n))
           Q == Bytes(BodySlice(big, n, files[big].size))
           DH == D \o H
<1>1. files[big].size \in Nat /\ files[big].header \in Nat
  BY FilesFacts
<1>2. H \in Seq(AnyByte) /\ Len(H) = files[big].header
  BY HeaderIn, BytesType
<1>3. P \in Seq(AnyByte) /\ Len(P) = n
  <2>1. BodySlice(big, 0, n) \in SliceSet /\ SliceLen(BodySlice(big, 0, n)) = n - 0
    BY BodySliceIn
  <2>2. n - 0 = n
    OBVIOUS
  <2> QED
    BY <2>1, <2>2, BytesType
<1>4. Q \in Seq(AnyByte) /\ Len(Q) = files[big].size - n
  <2>1. BodySlice(big, n, files[big].size) \in SliceSet
        /\ SliceLen(BodySlice(big, n, files[big].size)) = files[big].size - n
    BY <1>1, BodySliceIn
  <2> QED
    BY <2>1, BytesType
<1>5. P \o Q = Bytes(Body(big))
  BY BodyCut
<1>6. Entry(big) = H \o (P \o Q)
  BY <1>5 DEF Entry
<1> HIDE DEF H, P, Q
<1>7. DH \in Seq(AnyByte) /\ Len(DH) = Len(D) + Len(H)
  BY <1>2, ConcatProperties
<1>8. (DH \o P) \o Q = D \o (H \o (P \o Q))
  <2>1. D \in Seq(AnyByte) /\ H \in Seq(AnyByte) /\ P \in Seq(AnyByte) /\ Q \in Seq(AnyByte)
    BY <1>2, <1>3, <1>4
  <2>2. Regroups(D, H, P, Q)
    BY <2>1, Regrouping
  <2> QED
    BY <2>2 DEF Regroups
<1> HIDE DEF DH
<1>9. Len(DH \o P) = Len(DH) + Len(P)
  BY <1>3, <1>7, ConcatProperties
<1>10. Len(D) \in Nat
  BY LenProperties
<1>11. Len(DH \o P) = Len(D) + files[big].header + n
  BY <1>2, <1>3, <1>7, <1>9
<1> QED
  BY <1>4, <1>6, <1>8, <1>11 DEF DH, H, P, Q

(* PartsOfBig: the smalls, the header and the body of the big; no part below the floor. *)
PartsOf(ps, bytes) ==
  /\ ps \in Seq(PartSet) /\ EachJoined(PartOf, ps) = bytes
  /\ \A n \in 1 .. Len(ps) : Len(PartOf[ps[n]]) >= Floor

LEMMA BigInTwo ==
  ASSUME files \in Lists, NEW S \in Seq(SliceSet), NEW D \in Seq(AnyByte), EachJoined(BytesOf, S) = D,
         NEW big \in Ids, NEW n \in Nat, n <= files[big].size - Floor,
         Len(D) + files[big].header + n >= Floor
  PROVE  PartsOf(<<Stream(S \o <<Header(big)>> \o Prefix(big, n)), Copy(BodySlice(big, n, files[big].size))>>,
                 D \o Entry(big))
<1> DEFINE u == S \o <<Header(big)>> \o Prefix(big, n)
           c == BodySlice(big, n, files[big].size)
           x == Stream(u)
           y == Copy(c)
           e == (D \o Bytes(Header(big))) \o Bytes(BodySlice(big, 0, n))
<1>1. n <= files[big].size /\ files[big].size \in Nat /\ Floor \in Nat
  BY FilesFacts
<1>2. u \in Seq(SliceSet) /\ EachJoined(BytesOf, u) = e
  BY <1>1, FirstPartBytes
<1>3. Len(e) = Len(D) + files[big].header + n /\ Len(Bytes(c)) = files[big].size - n /\ e \o Bytes(c) = D \o Entry(big)
  BY <1>1, EntryCut
<1>4. c \in SliceSet
  BY <1>1, BodySliceIn
<1> HIDE DEF u, c, e
<1>5. x \in PartSet /\ PartOf[x] = e
  BY <1>2, StreamPart
<1>6. y \in PartSet /\ PartOf[y] = Bytes(c)
  BY <1>4, CopyPart
<1> HIDE DEF x, y
<1>7. Len(PartOf[x]) >= Floor
  BY <1>3, <1>5
<1>8. Len(PartOf[y]) >= Floor
  <2>1. n <= files[big].size - Floor /\ n \in Nat
    BY <1>1
  <2>2. Len(PartOf[y]) = files[big].size - n
    BY <1>3, <1>6
  <2> QED
    BY <1>1, <2>1, <2>2
<1> DEFINE ps == <<x, y>>
<1>9. ps \in Seq(PartSet) /\ EachJoined(PartOf, ps) = PartOf[x] \o PartOf[y]
  BY <1>5, <1>6, TwoParts
<1>10. \A m \in 1 .. Len(ps) : Len(PartOf[ps[m]]) >= Floor
  BY <1>7, <1>8
<1> HIDE DEF ps
<1>11. PartsOf(ps, D \o Entry(big))
  BY <1>3, <1>5, <1>6, <1>9, <1>10 DEF PartsOf
<1> QED
  BY <1>11 DEF ps, x, y, u, c

LEMMA BigInOne ==
  ASSUME files \in Lists, NEW S \in Seq(SliceSet), NEW D \in Seq(AnyByte), EachJoined(BytesOf, S) = D,
         NEW big \in Ids, files[big].size >= Floor
  PROVE  PartsOf(<<Stream(S \o Whole(big))>>, D \o Entry(big))
<1> DEFINE v == Whole(big)
           u == S \o v
           x == Stream(u)
           e == Entry(big)
<1>1. v \in Seq(SliceSet) /\ EachJoined(BytesOf, v) = e
  BY WholeBytes DEF Whole
<1>2. files[big].size \in Nat /\ files[big].header \in Nat /\ Floor \in Nat /\ Len(D) \in Nat
  BY FilesFacts, LenProperties
<1>3. e \in Seq(AnyByte) /\ Len(e) = files[big].header + files[big].size
  BY EntryType DEF EntryLen
<1> HIDE DEF v, e
<1>4. u \in Seq(SliceSet) /\ EachJoined(BytesOf, u) = D \o e
  BY <1>1, JoinedSlices
<1>5. D \o e \in Seq(AnyByte) /\ Len(D \o e) = Len(D) + Len(e)
  BY <1>3, ConcatProperties
<1> HIDE DEF u
<1>6. x \in PartSet /\ PartOf[x] = D \o e
  BY <1>4, StreamPart
<1> HIDE DEF x
<1>7. Len(PartOf[x]) >= Floor
  BY <1>2, <1>3, <1>5, <1>6
<1> DEFINE ps == <<x>>
<1>8. ps \in Seq(PartSet) /\ EachJoined(PartOf, ps) = D \o e
  <2>1. EachJoined(PartOf, ps) = PartOf[x]
    BY <1>6, EachOne
  <2> QED
    BY <1>6, <2>1
<1>9. \A m \in 1 .. Len(ps) : Len(PartOf[ps[m]]) >= Floor
  BY <1>7
<1> HIDE DEF ps
<1>10. PartsOf(ps, D \o e)
  BY <1>8, <1>9 DEF PartsOf
<1> QED
  BY <1>10 DEF ps, x, u, v, e

LEMMA PartsOfBigFacts ==
  ASSUME files \in Lists, NEW k \in 1 .. Len(Bigs)
  PROVE  PartsOf(PartsOfBig(k), EachJoined(EntryOf, WithBigs[k]))
<1> DEFINE big == Bigs[k]
           b == Batch(k)
           f == FirstSmall[k]
           steal == Stolen(big, f, Len(b))
           S == FlattenSeq([i \in DOMAIN b |-> Whole(b[i])])
           D == Data(b)
<1>1. big \in Ids /\ files[big].size >= Floor
  BY BigsAre
<1>2. files[big].size \in Nat /\ Floor \in Nat /\ files[big].header \in Nat
  BY <1>1, FilesFacts
<1>3. steal \in Nat /\ steal <= files[big].size - Floor
  <2>1. steal \in 0 .. MaxSteal(big)
    BY StolenType
  <2> QED
    BY <1>2, <2>1 DEF MaxSteal
<1>4. b \in Seq(Ids) /\ D \in Seq(AnyByte) /\ Len(D) \in Nat /\ Len(D) = Taken(f, Len(b))
  BY TakenIs
<1>5. S \in Seq(SliceSet) /\ EachJoined(BytesOf, S) = D
  BY <1>4, BatchSlices
<1>6. EachJoined(EntryOf, WithBigs[k]) = D \o Entry(big)
  <2>1. WithBigs[k] = Append(b, big)
    BY WithBigsType, GroupsAre
  <2>2. Maps(EntryOf, Ids, Seq(AnyByte)) /\ EntryOf[big] = Entry(big)
    BY <1>1, EntryMaps
  <2> HIDE DEF b, big
  <2>3. EachJoined(EntryOf, Append(b, big)) = EachJoined(EntryOf, b) \o EntryOf[big]
    <3>1. Maps(EntryOf, Ids, Seq(AnyByte)) /\ b \in Seq(Ids) /\ big \in Ids
      BY <1>1, <1>4, <2>2
    <3> QED
      BY <3>1, JoinedAppend
  <2> QED
    BY <2>1, <2>2, <2>3 DEF Data
<1>7. WithHeader(big, f, Len(b)) = Len(D) + files[big].header
  BY <1>4 DEF WithHeader
<1>8. PartsOfBig(k) = IF WithHeader(big, f, Len(b)) + steal >= Floor
                      THEN <<Stream(S \o <<Header(big)>> \o Prefix(big, steal)),
                             Copy(BodySlice(big, steal, files[big].size))>>
                      ELSE <<Stream(S \o Whole(big))>>
  BY DEF PartsOfBig
<1> HIDE DEF big, b, f, steal, S, D
<1>9. CASE WithHeader(big, f, Len(b)) + steal >= Floor
  <2>1. Len(D) + files[big].header + steal >= Floor
    BY <1>2, <1>3, <1>4, <1>7, <1>9
  <2>2. PartsOf(<<Stream(S \o <<Header(big)>> \o Prefix(big, steal)), Copy(BodySlice(big, steal, files[big].size))>>,
                 D \o Entry(big))
    BY <1>1, <1>3, <1>4, <1>5, <2>1, BigInTwo
  <2> QED
    BY <1>6, <1>8, <1>9, <2>2
<1>10. CASE ~(WithHeader(big, f, Len(b)) + steal >= Floor)
  <2>1. PartsOf(<<Stream(S \o Whole(big))>>, D \o Entry(big))
    BY <1>1, <1>4, <1>5, BigInOne
  <2> QED
    BY <1>6, <1>8, <1>10, <2>1
<1> QED
  BY <1>9, <1>10 DEF big, b, f, steal, D
-----------------------------------------------------------------------------
(* The plans of figment-engine *)

LEMMA LastPartIs ==
  ASSUME files \in Lists
  PROVE  LastPart \in PartSet /\ PartOf[LastPart] = Data(Leftover)
<1>1. Leftover \in Seq(Ids)
  BY WithBigsType
<1> DEFINE b == Leftover
           S == FlattenSeq([i \in DOMAIN b |-> Whole(b[i])])
<1>2. S \in Seq(SliceSet) /\ EachJoined(BytesOf, S) = Data(b)
  BY <1>1, BatchSlices
<1>3. LastPart = Stream(S)
  BY DEF LastPart
<1> HIDE DEF S
<1> QED
  BY <1>2, <1>3, StreamPart

(* Parts that can be uploaded in any order and then completed. *)
LegalParts(ps) == \A n \in 1 .. Len(ps) - 1 : Len(PartOf[ps[n]]) >= Floor

LEMMA SinglePlanIs ==
  ASSUME files \in Lists
  PROVE  /\ SinglePlan.parts \in Seq(PartSet) /\ SinglePlan.parts # <<>>
         /\ LegalParts(SinglePlan.parts)
         /\ EachJoined(PartOf, SinglePlan.parts) = Data(Order)
<1> DEFINE q == [k \in DOMAIN Bigs |-> PartsOfBig(k)]
           M == FlattenSeq(q)
           F == FlattenSeq(WithBigs)
           C == Len(Bigs)
<1>1. DOMAIN Bigs = 1 .. C /\ C \in Nat
  BY BigsAre, LenProperties
<1>2. ASSUME NEW k \in 1 .. C
      PROVE  /\ q[k] \in Seq(PartSet) /\ EachJoined(PartOf, q[k]) = EachJoined(EntryOf, WithBigs[k])
             /\ \A n \in 1 .. Len(q[k]) : Len(PartOf[q[k][n]]) >= Floor
  <2>1. q[k] = PartsOfBig(k)
    BY <1>1
  <2>2. PartsOf(PartsOfBig(k), EachJoined(EntryOf, WithBigs[k]))
    BY PartsOfBigFacts
  <2> HIDE DEF q
  <2> QED
    BY <2>1, <2>2 DEF PartsOf
<1>3. q \in Seq(Seq(PartSet)) /\ Len(q) = C /\ DOMAIN q = 1 .. C
  <2>1. q \in [1 .. C -> Seq(PartSet)]
    BY <1>1, <1>2
  <2> HIDE DEF q
  <2> QED
    BY <1>1, <2>1, FunctionSeq
<1>4. SinglePlan.parts = Append(M, LastPart)
  BY DEF SinglePlan
<1>5. WithBigs \in Seq(Seq(Ids)) /\ DOMAIN WithBigs = 1 .. C /\ Leftover \in Seq(Ids) /\ Order = F \o Leftover
  BY WithBigsType
<1> HIDE DEF q, C
<1>6. M \in Seq(PartSet)
  BY <1>3, FlattenType
<1>7. EachJoined(PartOf, M) = FlattenSeq([k \in DOMAIN q |-> EachJoined(PartOf, q[k])])
  <2>1. Maps(PartOf, PartSet, Seq(AnyByte)) /\ q \in Seq(Seq(PartSet))
    BY <1>3, PartOfMaps
  <2> QED
    BY <2>1, JoinedFlatten
<1>8. [k \in DOMAIN q |-> EachJoined(PartOf, q[k])] = [k \in DOMAIN WithBigs |-> EachJoined(EntryOf, WithBigs[k])]
  BY <1>2, <1>3, <1>5
<1>9. Maps(EntryOf, Ids, Seq(AnyByte))
  BY EntryMaps
<1>10. EachJoined(EntryOf, F) = FlattenSeq([k \in DOMAIN WithBigs |-> EachJoined(EntryOf, WithBigs[k])])
  <2>1. Maps(EntryOf, Ids, Seq(AnyByte)) /\ WithBigs \in Seq(Seq(Ids))
    BY <1>5, <1>9
  <2> QED
    BY <2>1, JoinedFlatten
<1>11. F \in Seq(Ids)
  BY <1>5, FlattenType
<1>12. EachJoined(PartOf, M) = EachJoined(EntryOf, F)
  BY <1>7, <1>8, <1>10
<1>13. ASSUME NEW p \in 1 .. Len(M) PROVE Len(PartOf[M[p]]) >= Floor
  <2>1. PICK k \in 1 .. Len(q) : \E j \in 1 .. Len(q[k]) : p = Starts(q, k) + j
    BY <1>3, FlattenFind
  <2>2. PICK j \in 1 .. Len(q[k]) : p = Starts(q, k) + j
    BY <2>1
  <2>3. M[Starts(q, k) + j] = q[k][j]
    BY <1>3, FlattenAt
  <2> HIDE DEF M
  <2> QED
    BY <1>2, <1>3, <2>2, <2>3
<1> HIDE DEF M, F
<1>14. LastPart \in PartSet /\ PartOf[LastPart] = Data(Leftover)
  BY LastPartIs
<1> DEFINE ps == Append(M, LastPart)
<1>15. /\ ps \in Seq(PartSet) /\ Len(ps) = Len(M) + 1 /\ Len(M) \in Nat
       /\ \A n \in 1 .. Len(M) : ps[n] = M[n]
  BY <1>6, <1>14, AppendProperties, LenProperties
<1>16. EachJoined(PartOf, ps) = EachJoined(PartOf, M) \o PartOf[LastPart]
  <2>1. Maps(PartOf, PartSet, Seq(AnyByte)) /\ M \in Seq(PartSet) /\ LastPart \in PartSet
    BY <1>6, <1>14, PartOfMaps
  <2> QED
    BY <2>1, JoinedAppend
<1>17. EachJoined(EntryOf, F \o Leftover) = EachJoined(EntryOf, F) \o EachJoined(EntryOf, Leftover)
  <2>1. Leftover \in Seq(Ids)
    BY <1>5
  <2> QED
    BY <1>9, <1>11, <2>1, JoinedConcat
<1>18. EachJoined(PartOf, ps) = Data(Order)
  BY <1>5, <1>12, <1>14, <1>16, <1>17 DEF Data
<1> HIDE DEF ps
<1>19. LegalParts(ps)
  <2>1. Len(ps) - 1 = Len(M)
    BY <1>15
  <2> QED
    BY <1>13, <1>15, <2>1 DEF LegalParts
<1>20. ps # <<>>
  BY <1>15
<1> QED
  BY <1>4, <1>15, <1>18, <1>19, <1>20 DEF ps

LEMMA ListedOnce ==
  ASSUME files \in Lists
  PROVE  Lists1(Listed) /\ FlattenSeq([i \in Ids |-> SliceBytes(Whole(i))]) = Data(Listed)
<1>1. Len(files) \in Nat /\ Ids = 1 .. Len(files)
  BY FilesFacts
<1>2. Listed \in [1 .. Len(files) -> Ids] /\ \A i \in Ids : Listed[i] = i
  BY <1>1 DEF Listed
<1>3. Listed \in Seq(Ids) /\ Len(Listed) = Len(files) /\ DOMAIN Listed = Ids
  BY <1>1, <1>2, FunctionSeq
<1>4. Lists1(Listed)
  BY <1>1, <1>2, <1>3 DEF Lists1
<1>5. ASSUME NEW i \in Ids PROVE SliceBytes(Whole(i)) = EntryOf[i]
  <2>1. Whole(i) \in Seq(SliceSet) /\ EachJoined(BytesOf, Whole(i)) = Entry(i)
    BY WholeBytes DEF Whole
  <2> QED
    BY <2>1, SliceBytesIs, EntryMaps
<1>6. [i \in Ids |-> SliceBytes(Whole(i))] = Each(EntryOf, Listed)
  BY <1>2, <1>3, <1>5 DEF Each
<1> QED
  BY <1>4, <1>6 DEF Data, EachJoined
-----------------------------------------------------------------------------
(* The state of figment-engine *)

(* What the plan promises: parts that S3 takes and an archive that reads back. *)
EnginePlan ==
  /\ files \in Lists /\ Directory \in Seq(AnyByte)
  /\ Fast => /\ plan.parts \in Seq(PartSet) /\ plan.parts # <<>> /\ LegalParts(plan.parts)
             /\ Readable(EachJoined(PartOf, plan.parts) \o Directory)
  /\ ~Fast => plan.parts = <<>> /\ InMemory \in Seq(AnyByte) /\ Readable(InMemory)

Promised == IF Fast THEN EachJoined(PartOf, plan.parts) \o Directory ELSE InMemory

(* The two pools fill the upload in any order; all parts are there before it is  *)
(* completed.                                                                    *)
FastData ==
  /\ completed \in Seq(Numbers)
  /\ \A n \in DOMAIN uploaded : uploaded[n] = PartBytes(n)
FastAt(h) ==
  /\ h \in {"list", "heads", "create", "parts", "complete", "ok", "error"}
  /\ h = "complete" => DOMAIN uploaded = Numbers

(* The fallback uploads its chunks in order. *)
SlowData ==
  /\ Len(completed) \in Nat /\ completed = [i \in 1 .. Len(completed) |-> i]
  /\ uploaded = [i \in 1 .. Len(completed) |-> Chunk(i)]
  /\ Len(completed) <= Chunks
  /\ completed # <<>> => Len(InMemory) >= Floor
SlowAt(h) ==
  /\ h \in {"list", "relist", "get", "put", "create", "chunks", "complete", "ok", "error"}
  /\ h \in {"create", "chunks", "complete"} => Len(InMemory) >= Floor
  /\ h = "chunks" => Len(completed) < Chunks
  /\ h = "complete" => Len(completed) = Chunks
  /\ h \in {"list", "relist", "get", "put", "create"} => completed = <<>>

EngineInv ==
  /\ EnginePlan /\ TypeOK
  /\ archive \in {<<>>, Promised}
  /\ Fast => FastData /\ FastAt(handler)
  /\ ~Fast => SlowData /\ SlowAt(handler)

LEMMA PlanInit ==
  ASSUME Init
  PROVE  EnginePlan /\ (Fast \/ plan.parts = <<>>)
<1>1. files \in Lists
  BY DEF Init
<1>2. CASE Viable
  <2>1. plan = SinglePlan
    BY <1>2 DEF Init
  <2>2. /\ SinglePlan.parts \in Seq(PartSet) /\ SinglePlan.parts # <<>>
        /\ LegalParts(SinglePlan.parts)
        /\ EachJoined(PartOf, SinglePlan.parts) = Data(Order)
    BY <1>1, SinglePlanIs
  <2>3. /\ SinglePlan.order = Order /\ SinglePlan.offsets = Offsets(Order)
        /\ SinglePlan.directory = DirectoryOffset(Order)
    BY DEF SinglePlan
  <2>4. Directory = DirectoryFor(Order)
    BY <2>1, <2>3 DEF Directory, DirectoryFor
  <2>5. Lists1(Order)
    BY <1>1, OrderOnce
  <2>6. Directory \in Seq(AnyByte) /\ Readable(Data(Order) \o Directory)
    BY <1>1, <2>4, <2>5, ArchiveReads
  <2>7. Fast
    <3>1. DOMAIN plan.parts = 1 .. Len(plan.parts) /\ Len(plan.parts) \in Nat /\ Len(plan.parts) # 0
      BY <2>1, <2>2, LenProperties, EmptySeq
    <3>2. 1 \in DOMAIN plan.parts
      BY <3>1
    <3> QED
      BY <3>2 DEF Fast, Numbers
  <2> QED
    BY <1>1, <2>1, <2>2, <2>6, <2>7 DEF EnginePlan
<1>3. CASE ~Viable
  <2>1. plan = FallbackPlan
    BY <1>3 DEF Init
  <2>2. /\ plan.parts = <<>> /\ plan.order = Listed /\ plan.offsets = Offsets(Listed)
        /\ plan.directory = DirectoryOffset(Listed)
    BY <2>1 DEF FallbackPlan
  <2>3. Directory = DirectoryFor(Listed)
    BY <2>2 DEF Directory, DirectoryFor
  <2>4. Lists1(Listed) /\ FlattenSeq([i \in Ids |-> SliceBytes(Whole(i))]) = Data(Listed)
    BY <1>1, ListedOnce
  <2>5. Directory \in Seq(AnyByte) /\ Readable(Data(Listed) \o Directory)
    BY <1>1, <2>3, <2>4, ArchiveReads
  <2>6. ~Fast
    BY <2>2 DEF Fast, Numbers
  <2>7. InMemory = Data(Listed) \o Directory
    BY <2>4 DEF InMemory
  <2>8. Data(Listed) \in Seq(AnyByte)
    BY <1>1, <2>4, DataType DEF Lists1
  <2> DEFINE D == Data(Listed)
  <2>9. D \o Directory \in Seq(AnyByte)
    BY <2>5, <2>8, ConcatProperties
  <2> QED
    BY <1>1, <2>2, <2>5, <2>6, <2>7, <2>9 DEF EnginePlan
<1> QED
  BY <1>2, <1>3 DEF EnginePlan

(* A plan is made once. *)
LEMMA PlanStays ==
  ASSUME UNCHANGED <<files, plan>>
  PROVE  /\ (EnginePlan <=> EnginePlan') /\ (Fast <=> Fast') /\ Numbers' = Numbers
         /\ Promised' = Promised /\ InMemory' = InMemory /\ Chunks' = Chunks /\ plan.parts' = plan.parts
         /\ \A n : PartBytes(n)' = PartBytes(n) /\ Chunk(n)' = Chunk(n)
<1>1. files' = files /\ plan' = plan
  OBVIOUS
<1>2. Directory' = Directory /\ Numbers' = Numbers /\ (Fast <=> Fast')
  BY <1>1 DEF Directory, Sizes, Numbers, Fast
<1>3. InMemory' = InMemory
  BY <1>1, <1>2 DEF InMemory, SliceBytes, Whole, Header, Body, BodySlice, Ids
<1>4. ASSUME NEW b PROVE Readable(b)' <=> Readable(b)
  BY <1>1 DEF Readable, Ids, EntryLen, Entry, Header, Body, BodySlice
<1>5. \A n : PartBytes(n)' = PartBytes(n) /\ Chunk(n)' = Chunk(n)
  BY <1>1, <1>2, <1>3 DEF PartBytes, Chunk
<1>6. Promised' = Promised
  BY <1>1, <1>2, <1>3 DEF Promised
<1>7. EnginePlan <=> EnginePlan'
  BY <1>1, <1>2, <1>3, <1>4 DEF EnginePlan
<1> QED
  BY <1>1, <1>2, <1>3, <1>5, <1>6, <1>7 DEF Chunks
-----------------------------------------------------------------------------
(* What the completion joins *)

Starts1(s, t, m) == \A i \in 1 .. m : s[i] = t[i]

LEMMA SamePrefix ==
  ASSUME NEW S, NEW s \in Seq(S), NEW t \in Seq(S), NEW m \in Nat, m <= Len(s), m <= Len(t), Starts1(s, t, m)
  PROVE  SubSeq(s, 1, m) = SubSeq(t, 1, m)
<1> DEFINE x == SubSeq(s, 1, m)
           y == SubSeq(t, 1, m)
<1>1. \A i \in 1 .. m : s[i] \in S /\ t[i] \in S
  BY ElementOfSeq, LenProperties
<1>2. x \in Seq(S) /\ Len(x) = m /\ \A i \in 1 .. m : x[i] = s[i]
  BY <1>1
<1>3. y \in Seq(S) /\ Len(y) = m /\ \A i \in 1 .. m : y[i] = t[i]
  BY <1>1
<1> HIDE DEF x, y
<1>4. \A i \in 1 .. Len(x) : x[i] = y[i]
  BY <1>2, <1>3 DEF Starts1
<1>5. x = y
  BY <1>2, <1>3, <1>4, SeqEqual
<1> QED
  BY <1>5 DEF x, y

(* The directory goes behind the last part. *)
WithLast(s, d) == [i \in 1 .. Len(s) |-> s[i] \o IF i = Len(s) THEN d ELSE <<>>]

LEMMA FlattenLast ==
  ASSUME NEW T, NEW s \in Seq(Seq(T)), s # <<>>, NEW d \in Seq(T)
  PROVE  FlattenSeq(WithLast(s, d)) = FlattenSeq(s) \o d
<1> DEFINE n == Len(s)
           t == WithLast(s, d)
<1>1. n \in Nat /\ n # 0 /\ DOMAIN s = 1 .. n /\ n = Len(s)
  BY LenProperties, EmptySeq
<1>2. \A i \in 1 .. n : s[i] \in Seq(T)
  BY ElementOfSeq
<1>3. ASSUME NEW i \in 1 .. n PROVE t[i] \in Seq(T) /\ t[i] = IF i = n THEN s[i] \o d ELSE s[i]
  <2>1. s[i] \o d \in Seq(T) /\ s[i] \o <<>> = s[i]
    BY <1>2, ConcatProperties, ConcatEmptySeq
  <2> QED
    BY <1>2, <2>1 DEF WithLast
<1>4. t \in Seq(Seq(T)) /\ Len(t) = n
  <2>1. t = [i \in 1 .. n |-> t[i]]
    BY DEF WithLast
  <2> HIDE DEF t, n
  <2>2. t \in [1 .. n -> Seq(T)]
    BY <1>3, <2>1
  <2> QED
    BY <1>1, <2>2, FunctionSeq
<1> HIDE DEF n, t
<1>5. n \in 1 .. Len(s) /\ n \in 1 .. Len(t) /\ n - 1 \in Nat /\ n - 1 <= Len(s) /\ n - 1 <= Len(t)
  <2>1. n \in Nat /\ n # 0 /\ Len(s) = n /\ Len(t) = n
    BY <1>1, <1>4
  <2> QED
    BY <2>1
<1> DEFINE b == Before(s, n)
           z == s[n]
<1>6. Before(t, n) = b
  <2>1. Starts1(t, s, n - 1)
    <3>1. \A i \in 1 .. n - 1 : i \in 1 .. n /\ i # n
      <4>1. n \in Nat
        BY <1>1
      <4> QED
        BY <4>1
    <3> QED
      BY <1>3, <3>1 DEF Starts1
  <2>2. SubSeq(t, 1, n - 1) = SubSeq(s, 1, n - 1)
    BY <1>4, <1>5, <2>1, SamePrefix
  <2> QED
    BY <2>2 DEF Before
<1>7. b \in Seq(T) /\ Before(s, n + 1) = b \o s[n]
  BY <1>5, BeforeStep
<1>8. Before(t, n + 1) = Before(t, n) \o t[n]
  BY <1>4, <1>5, BeforeStep
<1>9. Before(s, Len(s) + 1) = FlattenSeq(s)
  BY BeforeEnds
<1>10. Before(t, Len(t) + 1) = FlattenSeq(t)
  BY <1>4, BeforeEnds
<1>11. z \in Seq(T) /\ t[n] = z \o d
  BY <1>1, <1>2, <1>3, <1>5
<1> HIDE DEF b, z
<1>12. FlattenSeq(t) = b \o (z \o d)
  BY <1>4, <1>6, <1>8, <1>10, <1>11
<1>13. FlattenSeq(s) = b \o z
  BY <1>1, <1>7, <1>9 DEF z
<1>14. Regroup(b, z, d)
  BY <1>7, <1>11, RegroupAny
<1> QED
  BY <1>12, <1>13, <1>14 DEF Regroup, t

(* Chunks of F out of L, the last one shorter: where the n-th ends. *)
LEMMA Products ==
  ASSUME NEW a \in Nat, NEW b \in Nat, NEW c \in Nat, b <= c
  PROVE  b * a \in Nat /\ c * a \in Nat /\ b * a <= c * a
<1>1. c - b \in Nat /\ c = b + (c - b)
  OBVIOUS
<1>2. c * a = b * a + (c - b) * a
  BY <1>1
<1>3. (c - b) * a \in Nat /\ b * a \in Nat
  BY <1>1
<1> QED
  BY <1>2, <1>3

LEMMA Ceiling ==
  ASSUME NEW L \in Nat, NEW F \in Nat \ {0}, NEW C, C = (L + F - 1) \div F
  PROVE  C \in Nat /\ L <= C * F /\ C * F < L + F
<1>1. L + F - 1 \in Nat
  OBVIOUS
<1>2. C \in Nat /\ C * F <= L + F - 1 /\ L + F - 1 < (C + 1) * F
  BY <1>1
<1>3. (C + 1) * F = C * F + F /\ C * F \in Nat
  BY <1>2
<1> QED
  BY <1>2, <1>3

EndOf(n, F, L) == Min({n * F, L})

LEMMA EndOfIs ==
  ASSUME NEW L \in Nat, NEW n, NEW F, n * F \in Nat
  PROVE  EndOf(n, F, L) \in {n * F, L} /\ EndOf(n, F, L) <= n * F /\ EndOf(n, F, L) <= L
<1> DEFINE p == n * F
<1>1. EndOf(n, F, L) = Min({p, L}) /\ p \in Int /\ L \in Int
  BY DEF EndOf
<1> HIDE DEF p
<1>2. Min({p, L}) \in {p, L} /\ Min({p, L}) <= p /\ Min({p, L}) <= L
  BY <1>1, MinOfTwo
<1>3. EndOf(n, F, L) \in {p, L} /\ EndOf(n, F, L) <= p /\ EndOf(n, F, L) <= L
  BY <1>1, <1>2
<1> QED
  BY <1>3 DEF p

LEMMA EndOfChunk ==
  ASSUME NEW L \in Nat \ {0}, NEW F \in Nat \ {0}, NEW C, C = (L + F - 1) \div F, NEW n \in 1 .. C
  PROVE  /\ C \in Nat
         /\ (n - 1) * F \in 0 .. L /\ EndOf(n - 1, F, L) = (n - 1) * F /\ (n - 1) * F < L
         /\ EndOf(n, F, L) \in (n - 1) * F .. L
         /\ n < C => EndOf(n, F, L) = EndOf(n - 1, F, L) + F
         /\ n = C => EndOf(n, F, L) = L
<1>1. C \in Nat /\ L <= C * F /\ C * F < L + F
  BY Ceiling
<1>2. n \in Nat /\ n - 1 \in Nat /\ n - 1 <= n /\ n <= C /\ n - 1 <= C - 1 /\ C - 1 \in Nat
  BY <1>1
<1>3. C * F = (C - 1) * F + F /\ n * F = (n - 1) * F + F
  BY <1>2
<1>4. (n - 1) * F \in Nat /\ (C - 1) * F \in Nat /\ (n - 1) * F <= (C - 1) * F
  BY <1>2, Products
<1>5. (n - 1) * F < L
  BY <1>1, <1>3, <1>4
<1>6. EndOf(n - 1, F, L) \in {(n - 1) * F, L} /\ EndOf(n - 1, F, L) <= (n - 1) * F
  BY <1>4, EndOfIs
<1>7. EndOf(n - 1, F, L) = (n - 1) * F
  BY <1>4, <1>5, <1>6
<1>8. n * F \in Nat
  BY <1>3, <1>4
<1>9. EndOf(n, F, L) \in {n * F, L} /\ EndOf(n, F, L) <= n * F /\ EndOf(n, F, L) <= L
  BY <1>8, EndOfIs
<1>10. EndOf(n, F, L) \in (n - 1) * F .. L
  BY <1>3, <1>4, <1>5, <1>8, <1>9
<1>11. ASSUME n < C PROVE EndOf(n, F, L) = EndOf(n - 1, F, L) + F
  <2>1. n <= C - 1
    BY <1>1, <1>2, <1>11
  <2>2. n * F <= (C - 1) * F
    BY <1>2, <2>1, Products
  <2>3. n * F < L
    BY <1>1, <1>3, <1>4, <1>8, <2>2
  <2> QED
    BY <1>3, <1>7, <1>8, <1>9, <2>3
<1>12. ASSUME n = C PROVE EndOf(n, F, L) = L
  BY <1>1, <1>8, <1>9, <1>12
<1> QED
  BY <1>1, <1>4, <1>5, <1>7, <1>10, <1>11, <1>12

LEMMA EndOfNext ==
  ASSUME NEW L \in Nat \ {0}, NEW F \in Nat \ {0}, NEW C, C = (L + F - 1) \div F, NEW n \in 1 .. C, n < C
  PROVE  EndOf(n, F, L) = EndOf(n - 1, F, L) + F
  BY EndOfChunk

(* Some bytes, cut into chunks. *)
ChunkAt(M, F, n) == SubSeq(M, (n - 1) * F + 1, EndOf(n, F, Len(M)))
ChunksIn(M, F, m) == [i \in 1 .. m |-> ChunkAt(M, F, i)]

LEMMA ChunkType ==
  ASSUME NEW T, NEW M \in Seq(T), M # <<>>, NEW F \in Nat \ {0}, NEW C, C = (Len(M) + F - 1) \div F,
         NEW n \in 1 .. C
  PROVE  /\ ChunkAt(M, F, n) \in Seq(T)
         /\ n < C => Len(ChunkAt(M, F, n)) = F
         /\ SubSeq(M, 1, EndOf(n - 1, F, Len(M))) \o ChunkAt(M, F, n) = SubSeq(M, 1, EndOf(n, F, Len(M)))
<1> DEFINE L == Len(M)
           a == (n - 1) * F
           e == EndOf(n, F, L)
           d == EndOf(n - 1, F, L)
<1>1. L \in Nat \ {0} /\ DOMAIN M = 1 .. L /\ L = Len(M) /\ C = (L + F - 1) \div F
  BY LenProperties, EmptySeq
<1>2. ChunkAt(M, F, n) = SubSeq(M, a + 1, e)
  BY DEF ChunkAt
<1> HIDE DEF L
<1>3. a \in 0 .. L /\ d = a /\ e \in a .. L
  BY <1>1, EndOfChunk
<1>4. n < C => e = d + F
  BY <1>1, EndOfNext
<1> HIDE DEF a, e, d
<1>5. a \in Nat /\ e \in Nat /\ a <= e /\ e <= L /\ F \in Nat /\ L \in Nat
  <2>1. F \in Nat /\ L \in Nat
    BY <1>1
  <2> QED
    BY <1>3, <2>1
<1>6. 1 \in 1 .. Len(M) + 1 /\ a \in 1 - 1 .. Len(M) /\ e \in a .. Len(M)
  <2>1. Len(M) \in Nat /\ a \in Nat /\ e \in Nat /\ a <= e /\ e <= Len(M)
    BY <1>1, <1>5
  <2> QED
    BY <2>1
<1>7. SubSeq(M, 1, a) \o SubSeq(M, a + 1, e) = SubSeq(M, 1, e)
  BY <1>6, ConcatAdjacentSubSeq
<1>8. \A i \in a + 1 .. e : M[i] \in T
  <2>1. \A i \in a + 1 .. e : i \in 1 .. Len(M)
    BY <1>5, <1>1
  <2> QED
    BY <2>1, ElementOfSeq
<1>9. a + 1 \in Int /\ e \in Int
  BY <1>5
<1>10. SubSeq(M, a + 1, e) \in Seq(T) /\ Len(SubSeq(M, a + 1, e)) = IF a + 1 <= e THEN e - (a + 1) + 1 ELSE 0
  BY <1>8, <1>9, SubSeqProperties
<1>11. n < C => Len(SubSeq(M, a + 1, e)) = F
  <2> SUFFICES ASSUME n < C PROVE Len(SubSeq(M, a + 1, e)) = F
    OBVIOUS
  <2>1. e = a + F /\ F # 0
    BY <1>3, <1>4
  <2>2. a + 1 <= e /\ e - (a + 1) + 1 = F
    BY <1>5, <2>1
  <2> QED
    BY <1>10, <2>2
<1>12. SubSeq(M, 1, d) \o SubSeq(M, a + 1, e) = SubSeq(M, 1, e)
  BY <1>3, <1>7
<1> QED
  BY <1>2, <1>10, <1>11, <1>12 DEF L, e, d

LEMMA ChunksJoined ==
  ASSUME NEW T, NEW M \in Seq(T), M # <<>>, NEW F \in Nat \ {0}, NEW C, C = (Len(M) + F - 1) \div F
  PROVE  FlattenSeq(ChunksIn(M, F, C)) = M
<1> DEFINE s == ChunksIn(M, F, C)
           L == Len(M)
           E(k) == EndOf(k, F, L)
           K == {k \in Nat : k <= C => Before(s, k + 1) = SubSeq(M, 1, E(k))}
<1>1. L \in Nat \ {0} /\ L = Len(M) /\ F \in Nat
  BY LenProperties, EmptySeq
<1>2. C \in Nat /\ C \in 1 .. C
  <2>1. C \in Nat /\ L <= C * F
    BY <1>1, Ceiling
  <2>2. C # 0
    BY <1>1, <2>1
  <2> QED
    BY <2>1, <2>2
<1>3. \A n \in 1 .. C : ChunkAt(M, F, n) \in Seq(T)
  BY ChunkType
<1>4. s \in Seq(Seq(T)) /\ Len(s) = C /\ \A n \in 1 .. C : s[n] = ChunkAt(M, F, n)
  <2>1. s \in [1 .. C -> Seq(T)] /\ \A n \in 1 .. C : s[n] = ChunkAt(M, F, n)
    BY <1>3 DEF ChunksIn
  <2> HIDE DEF s
  <2> QED
    BY <1>2, <2>1, FunctionSeq
<1>5. \A n \in 1 .. C : SubSeq(M, 1, E(n - 1)) \o ChunkAt(M, F, n) = SubSeq(M, 1, E(n))
  BY ChunkType
<1> HIDE DEF s
<1>6. E(0) = 0 /\ E(C) = L
  <2>1. 1 \in 1 .. C /\ 1 - 1 = 0 /\ (1 - 1) * F = 0
    BY <1>1, <1>2
  <2>2. EndOf(1 - 1, F, L) = (1 - 1) * F
    BY <1>1, <2>1, EndOfChunk
  <2>3. EndOf(C, F, L) = L
    <3>1. C = (L + F - 1) \div F
      BY <1>1
    <3> HIDE DEF L
    <3> QED
      BY <1>1, <1>2, <3>1, EndOfChunk
  <2> QED
    BY <2>1, <2>2, <2>3
<1> HIDE DEF L, E
<1>7. 0 \in K
  <2>1. Before(s, 1) = <<>>
    BY <1>4, BeforeEnds
  <2>2. SubSeq(M, 1, 0) = <<>>
    OBVIOUS
  <2>3. Before(s, 0 + 1) = SubSeq(M, 1, E(0))
    <3>1. 0 + 1 = 1 /\ E(0) = 0
      BY <1>6
    <3> QED
      BY <2>1, <2>2, <3>1, Zenon
  <2> QED
    BY <2>3
<1>8. ASSUME NEW k \in Nat, k \in K PROVE k + 1 \in K
  <2> SUFFICES ASSUME k + 1 <= C PROVE Before(s, (k + 1) + 1) = SubSeq(M, 1, E(k + 1))
    OBVIOUS
  <2>1. k + 1 \in 1 .. C /\ (k + 1) - 1 = k /\ k <= C
    BY <1>2
  <2> DEFINE n == k + 1
  <2>2. n \in 1 .. Len(s) /\ n \in 1 .. C /\ n - 1 = k
    BY <1>4, <2>1
  <2>3. Before(s, n) = SubSeq(M, 1, E(n - 1))
    BY <1>8, <2>1
  <2> HIDE DEF n
  <2>4. Before(s, n + 1) = Before(s, n) \o s[n]
    BY <1>4, <2>2, BeforeStep
  <2>5. Before(s, n + 1) = SubSeq(M, 1, E(n))
    BY <1>4, <1>5, <2>2, <2>3, <2>4
  <2> QED
    BY <2>5 DEF n
<1>9. C \in K
  <2> HIDE DEF K
  <2>1. Nat \subseteq K
    BY <1>7, <1>8, SetInduction
  <2> QED
    BY <1>2, <2>1
<1>10. Before(s, C + 1) = SubSeq(M, 1, L)
  BY <1>2, <1>6, <1>9
<1>11. Before(s, C + 1) = FlattenSeq(s)
  BY <1>4, BeforeEnds
<1>12. SubSeq(M, 1, L) = M
  BY <1>1
<1> QED
  BY <1>10, <1>11, <1>12 DEF s
-----------------------------------------------------------------------------
(* What the steps of figment-engine need of its plan *)

LEMMA NumbersAre ==
  ASSUME EnginePlan
  PROVE  /\ Len(plan.parts) \in Nat /\ Numbers = 1 .. Len(plan.parts) /\ IsFiniteSet(Numbers)
         /\ Fast => Len(plan.parts) # 0
         /\ ~Fast => Numbers = {}
<1>1. CASE Fast
  <2>1. plan.parts \in Seq(PartSet) /\ plan.parts # <<>>
    BY <1>1 DEF EnginePlan
  <2>2. Len(plan.parts) \in Nat /\ Numbers = 1 .. Len(plan.parts) /\ Len(plan.parts) # 0
    BY <2>1, LenProperties, EmptySeq DEF Numbers
  <2> QED
    BY <1>1, <2>2, CountUpTo
<1>2. CASE ~Fast
  <2>1. plan.parts = <<>>
    BY <1>2 DEF EnginePlan
  <2>2. Len(plan.parts) = 0 /\ Numbers = {} /\ 1 .. 0 = {}
    BY <2>1 DEF Numbers
  <2> QED
    BY <1>2, <2>2, FS_EmptySet
<1> QED
  BY <1>1, <1>2

LEMMA PartBytesIs ==
  ASSUME EnginePlan, Fast, NEW n \in Numbers
  PROVE  /\ PartBytes(n) = PartOf[plan.parts[n]] \o IF n = Len(plan.parts) THEN Directory ELSE <<>>
         /\ n # Len(plan.parts) => Len(PartBytes(n)) >= Floor
<1> DEFINE p == plan.parts[n]
           N == Len(plan.parts)
<1>1. plan.parts \in Seq(PartSet) /\ LegalParts(plan.parts)
  BY DEF EnginePlan
<1>2. N \in Nat /\ n \in 1 .. N
  BY NumbersAre
<1>3. p \in PartSet
  BY <1>1, <1>2, ElementOfSeq
<1> HIDE DEF p
<1>4. p.slices \in Seq(SliceSet) /\ PartOf[p] = EachJoined(BytesOf, p.slices)
  BY <1>3, PartOfMaps DEF PartSet
<1>5. SliceBytes(p.slices) = PartOf[p] /\ PartOf[p] \in Seq(AnyByte)
  BY <1>4, SliceBytesIs
<1>6. PartBytes(n) = PartOf[p] \o IF n = N THEN Directory ELSE <<>>
  BY <1>5 DEF PartBytes, p
<1>7. ASSUME n # N PROVE Len(PartBytes(n)) >= Floor
  <2>1. n \in 1 .. N - 1
    BY <1>2, <1>7
  <2>2. Len(PartOf[p]) >= Floor
    BY <1>1, <2>1 DEF LegalParts, p
  <2>3. PartOf[p] \o <<>> = PartOf[p]
    BY <1>5, ConcatEmptySeq
  <2> QED
    BY <1>6, <1>7, <2>2, <2>3
<1> QED
  BY <1>6, <1>7 DEF p

LEMMA FastJoined ==
  ASSUME EnginePlan, Fast, DOMAIN uploaded = Numbers, \A n \in Numbers : uploaded[n] = PartBytes(n)
  PROVE  Joined(Ascending(Numbers)) = Promised
<1> DEFINE N == Len(plan.parts)
           s == Each(PartOf, plan.parts)
<1>1. plan.parts \in Seq(PartSet) /\ plan.parts # <<>> /\ Directory \in Seq(AnyByte)
  BY DEF EnginePlan
<1>2. N \in Nat /\ Numbers = 1 .. N /\ N # 0
  BY NumbersAre
<1>3. Maps(PartOf, PartSet, Seq(AnyByte))
  BY PartOfMaps
<1>4. s \in Seq(Seq(AnyByte)) /\ Len(s) = N /\ \A n \in 1 .. N : s[n] = PartOf[plan.parts[n]]
  BY <1>1, <1>3, EachType
<1>5. Ascending(Numbers) = [i \in 1 .. N |-> i]
  BY <1>2, AscendingUpTo
<1>6. Joined(Ascending(Numbers)) = FlattenSeq([i \in 1 .. N |-> PartBytes(i)])
  <2> DEFINE A == Ascending(Numbers)
  <2>1. DOMAIN A = 1 .. N /\ \A i \in 1 .. N : A[i] = i
    BY <1>5
  <2> HIDE DEF A
  <2>2. \A i \in 1 .. N : uploaded[A[i]] = PartBytes(i)
    BY <1>2, <2>1
  <2>3. [i \in DOMAIN A |-> uploaded[A[i]]] = [i \in 1 .. N |-> PartBytes(i)]
    BY <2>1, <2>2
  <2> QED
    BY <2>3 DEF Joined, A
<1> HIDE DEF s
<1>7. [i \in 1 .. N |-> PartBytes(i)] = WithLast(s, Directory)
  <2>1. \A i \in 1 .. N : PartBytes(i) = s[i] \o IF i = N THEN Directory ELSE <<>>
    BY <1>2, <1>4, PartBytesIs
  <2> QED
    BY <1>4, <2>1 DEF WithLast
<1>8. s # <<>>
  BY <1>2, <1>4
<1>9. FlattenSeq(WithLast(s, Directory)) = FlattenSeq(s) \o Directory
  BY <1>1, <1>4, <1>8, FlattenLast
<1> QED
  BY <1>6, <1>7, <1>9 DEF Promised, EachJoined, s

LEMMA ChunkIs ==
  ASSUME NEW n
  PROVE  Chunk(n) = ChunkAt(InMemory, Floor, n)
  BY DEF Chunk, ChunkAt, EndOf

LEMMA ChunksAre ==
  ASSUME EnginePlan, ~Fast, Len(InMemory) >= Floor
  PROVE  /\ Chunks \in Nat \ {0}
         /\ \A n \in 1 .. Chunks : n # Chunks => Len(Chunk(n)) >= Floor
         /\ FlattenSeq([i \in 1 .. Chunks |-> Chunk(i)]) = InMemory
<1> DEFINE M == InMemory
           C == Chunks
<1>1. M \in Seq(AnyByte)
  BY DEF EnginePlan
<1>2. Floor \in Nat \ {0} /\ Len(M) \in Nat /\ M # <<>>
  BY <1>1, FilesAssumption, LenProperties
<1>3. C = (Len(M) + Floor - 1) \div Floor
  BY DEF Chunks
<1>4. [i \in 1 .. C |-> Chunk(i)] = ChunksIn(M, Floor, C)
  BY ChunkIs DEF ChunksIn
<1> HIDE DEF M, C
<1>5. C \in Nat /\ Len(M) <= C * Floor
  BY <1>2, <1>3, Ceiling
<1>6. C # 0
  BY <1>2, <1>5 DEF M
<1>7. FlattenSeq(ChunksIn(M, Floor, C)) = M
  BY <1>1, <1>2, <1>3, ChunksJoined
<1>8. ASSUME NEW n \in 1 .. C, n # C PROVE Len(Chunk(n)) >= Floor
  <2>1. n < C
    BY <1>5, <1>8
  <2>2. Len(ChunkAt(M, Floor, n)) = Floor
    BY <1>1, <1>2, <1>3, <2>1, ChunkType
  <2> QED
    BY <1>2, <2>2, ChunkIs DEF M
<1> QED
  BY <1>4, <1>5, <1>6, <1>7, <1>8 DEF M, C

LEMMA SlowJoined ==
  ASSUME EnginePlan, ~Fast, SlowData, Len(completed) = Chunks, Len(InMemory) >= Floor
  PROVE  Sorted = [i \in 1 .. Chunks |-> i] /\ Joined(Sorted) = InMemory
<1>1. Chunks \in Nat /\ FlattenSeq([i \in 1 .. Chunks |-> Chunk(i)]) = InMemory
  BY ChunksAre
<1>2. completed = [i \in 1 .. Chunks |-> i] /\ uploaded = [i \in 1 .. Chunks |-> Chunk(i)]
  BY DEF SlowData
<1>3. ToSet(completed) = 1 .. Chunks
  BY <1>1, <1>2 DEF ToSet
<1>4. Sorted = [i \in 1 .. Chunks |-> i]
  BY <1>1, <1>3, AscendingUpTo DEF Sorted
<1>5. Joined(Sorted) = FlattenSeq([i \in 1 .. Chunks |-> Chunk(i)])
  BY <1>2, <1>4 DEF Joined
<1> QED
  BY <1>1, <1>4, <1>5
-----------------------------------------------------------------------------
(* The steps of figment-engine *)

EngineHandler ==
  {"list", "heads", "create", "parts", "relist", "get", "put", "chunks", "complete", "ok", "error"}

LEMMA EngineStays ==
  ASSUME EngineInv, UNCHANGED <<files, plan, part, uploaded, completed>>, faulty' \in BOOLEAN,
         archive' \in {archive, Promised},
         Fast => FastAt(handler'), ~Fast => SlowAt(handler')
  PROVE  EngineInv'
<1>1. /\ (EnginePlan <=> EnginePlan') /\ (Fast <=> Fast') /\ Numbers' = Numbers
      /\ Promised' = Promised /\ InMemory' = InMemory /\ Chunks' = Chunks /\ plan.parts' = plan.parts
      /\ \A n : PartBytes(n)' = PartBytes(n) /\ Chunk(n)' = Chunk(n)
  BY PlanStays
<1>2. handler' \in EngineHandler
  BY DEF FastAt, SlowAt, EngineHandler
<1>3. TypeOK'
  <2>1. TypeOK
    BY DEF EngineInv
  <2>2. InFlight("copy")' = InFlight("copy") /\ InFlight("stream")' = InFlight("stream")
    BY <1>1 DEF InFlight, OfKind
  <2> QED
    BY <1>1, <1>2, <2>1, <2>2 DEF TypeOK, EngineHandler
<1>4. Fast' => FastData' /\ FastAt(handler)'
  BY <1>1 DEF EngineInv, FastData, FastAt
<1>5. ~Fast' => SlowData' /\ SlowAt(handler)'
  BY <1>1 DEF EngineInv, SlowData, SlowAt
<1> QED
  BY <1>1, <1>3, <1>4, <1>5 DEF EngineInv

LEMMA EngineInit == Init => EngineInv
<1> SUFFICES ASSUME Init PROVE EngineInv
  OBVIOUS
<1>1. EnginePlan
  BY PlanInit
<1>2. /\ files \in Lists /\ handler = "list" /\ part = [n \in Numbers |-> "todo"]
      /\ uploaded = <<>> /\ completed = <<>> /\ archive = <<>> /\ faulty = FALSE
  BY DEF Init
<1>3. DOMAIN uploaded = {} /\ DOMAIN completed = {} /\ Len(completed) = 0
  BY <1>2
<1>4. InFlight("copy") = {} /\ InFlight("stream") = {}
  BY <1>2 DEF InFlight, OfKind
<1>5. Cardinality(InFlight("copy")) <= CopyWindow /\ Cardinality(InFlight("stream")) <= StreamWindow
  BY <1>4, FS_EmptySet, FigmentAssumption
<1>6. TypeOK
  <2>1. {n \in Numbers : part[n] = "ok"} = {} /\ {completed[i] : i \in DOMAIN completed} = {}
    BY <1>2, <1>3
  <2> QED
    BY <1>2, <1>3, <1>5, <2>1 DEF TypeOK
<1>7. Fast => FastData /\ FastAt(handler)
  BY <1>2, <1>3 DEF FastData, FastAt
<1>8. ~Fast => SlowData /\ SlowAt(handler)
  <2>1. SUFFICES ASSUME ~Fast PROVE  SlowData /\ SlowAt(handler)
    OBVIOUS
  <2>2. Chunks \in Nat
    <3>1. InMemory \in Seq(AnyByte) /\ Floor \in Nat \ {0}
      BY <1>1, <2>1, FilesAssumption DEF EnginePlan
    <3>2. Len(InMemory) \in Nat
      BY <3>1, LenProperties
    <3> DEFINE L == Len(InMemory)
    <3>3. Chunks = (L + Floor - 1) \div Floor
      BY DEF Chunks
    <3> HIDE DEF L
    <3> QED
      BY <3>1, <3>2, <3>3, Ceiling DEF L
  <2>3. 1 .. 0 = {} /\ completed = [i \in {} |-> i] /\ uploaded = [i \in {} |-> Chunk(i)]
    BY <1>2
  <2> QED
    BY <1>2, <1>3, <2>2, <2>3 DEF SlowData, SlowAt
<1> QED
  BY <1>1, <1>2, <1>6, <1>7, <1>8 DEF EngineInv

(* The calls of the handler that nothing runs beside. *)
LEMMA EngineCall ==
  ASSUME EngineInv, NEW at, NEW next, Call(at, next),
         Fast => FastAt(next), ~Fast => SlowAt(next)
  PROVE  EngineInv'
<1>1. /\ UNCHANGED <<files, plan, part, uploaded, completed, archive>>
      /\ (handler' = next /\ faulty' = faulty) \/ (handler' = "error" /\ faulty' = TRUE)
  BY DEF Call, Answered, GivesUp
<1>2. FastAt("error") /\ SlowAt("error")
  BY DEF FastAt, SlowAt
<1>3. faulty \in BOOLEAN
  BY DEF EngineInv, TypeOK
<1>4. faulty' \in BOOLEAN
  BY <1>1, <1>3
<1>5. (Fast => FastAt(handler')) /\ (~Fast => SlowAt(handler'))
  BY <1>1, <1>2
<1>6. archive' = archive
  BY <1>1
<1> QED
  BY <1>1, <1>4, <1>5, <1>6, EngineStays

(* Some calls complete or put the archive: it holds what the plan promises. *)
LEMMA EngineEnds ==
  ASSUME EngineInv, Ends(Promised), UNCHANGED <<files, plan, part, uploaded, completed>>
  PROVE  EngineInv'
<1>1. /\ archive' \in {archive, Promised}
      /\ (handler' = "ok" /\ faulty' = faulty) \/ (handler' = "error" /\ faulty' = TRUE)
  BY DEF Ends, Answered, GivesUp
<1>2. FastAt("error") /\ SlowAt("error") /\ FastAt("ok") /\ SlowAt("ok")
  BY DEF FastAt, SlowAt
<1>3. faulty \in BOOLEAN
  BY DEF EngineInv, TypeOK
<1>4. faulty' \in BOOLEAN
  BY <1>1, <1>3
<1>5. (Fast => FastAt(handler')) /\ (~Fast => SlowAt(handler'))
  BY <1>1, <1>2
<1> QED
  BY <1>1, <1>4, <1>5, EngineStays

LEMMA EngineCalls ==
  ASSUME EngineInv, ListAndPlan \/ FillCrcs \/ CreateMpu \/ Relist \/ GetAll
  PROVE  EngineInv'
<1>1. (Fast => FastData /\ FastAt(handler)) /\ (~Fast => SlowData /\ SlowAt(handler))
  BY DEF EngineInv
<1>2. CASE ListAndPlan
  <2> DEFINE next == IF Fast THEN "heads" ELSE "relist"
  <2>1. Call("list", next) /\ handler = "list"
    BY <1>2 DEF ListAndPlan, Call
  <2>2. (Fast => FastAt(next)) /\ (~Fast => SlowAt(next))
    BY <1>1, <2>1 DEF FastAt, SlowAt
  <2> QED
    BY <2>1, <2>2, EngineCall
<1>3. CASE FillCrcs
  <2>1. Call("heads", "create") /\ handler = "heads"
    BY <1>3 DEF FillCrcs, Call
  <2>2. (Fast => FastAt("create")) /\ (~Fast => SlowAt("create"))
    BY <1>1, <2>1 DEF FastAt, SlowAt
  <2> QED
    BY <2>1, <2>2, EngineCall
<1>4. CASE CreateMpu
  <2> DEFINE next == IF Fast THEN "parts" ELSE "chunks"
  <2>1. Call("create", next) /\ handler = "create"
    BY <1>4 DEF CreateMpu, Call
  <2>2. Fast => FastAt(next)
    BY <1>1, <2>1 DEF FastAt
  <2>3. ~Fast => SlowAt(next)
    <3> SUFFICES ASSUME ~Fast PROVE SlowAt("chunks")
      OBVIOUS
    <3>1. Len(InMemory) >= Floor /\ completed = <<>>
      BY <1>1, <2>1 DEF SlowAt
    <3>2. Chunks \in Nat \ {0}
      BY <3>1, ChunksAre DEF EngineInv
    <3> QED
      BY <3>1, <3>2 DEF SlowAt
  <2> QED
    BY <2>1, <2>2, <2>3, EngineCall
<1>5. CASE Relist
  <2>1. Call("relist", "get") /\ handler = "relist"
    BY <1>5 DEF Relist, Call
  <2>2. (Fast => FastAt("get")) /\ (~Fast => SlowAt("get"))
    BY <1>1, <2>1 DEF FastAt, SlowAt
  <2> QED
    BY <2>1, <2>2, EngineCall
<1>6. CASE GetAll
  <2> DEFINE next == IF Len(InMemory) < Floor THEN "put" ELSE "create"
  <2>1. Call("get", next) /\ handler = "get"
    BY <1>6 DEF GetAll, Call
  <2>2. Fast => FastAt(next)
    BY <1>1, <2>1 DEF FastAt
  <2>3. ~Fast => SlowAt(next)
    <3> SUFFICES ASSUME ~Fast PROVE SlowAt(next)
      OBVIOUS
    <3>1. InMemory \in Seq(AnyByte)
      BY DEF EngineInv, EnginePlan
    <3>2. Len(InMemory) \in Nat /\ Floor \in Nat
      BY <3>1, LenProperties, FilesAssumption
    <3>3. next = "put" \/ (next = "create" /\ Len(InMemory) >= Floor)
      BY <3>2
    <3> HIDE DEF next
    <3> QED
      BY <1>1, <2>1, <3>3 DEF SlowAt
  <2> QED
    BY <2>1, <2>2, <2>3, EngineCall
<1> QED
  BY <1>2, <1>3, <1>4, <1>5, <1>6

LEMMA EnginePut == ASSUME EngineInv, PutArchive PROVE EngineInv'
<1>1. handler = "put" /\ Ends(InMemory) /\ UNCHANGED <<files, plan, part, uploaded, completed>>
  BY DEF PutArchive
<1>2. ~Fast
  BY <1>1 DEF EngineInv, FastAt
<1> QED
  BY <1>1, <1>2, EngineEnds DEF Promised

LEMMA EngineComplete == ASSUME EngineInv, CompleteMpu PROVE EngineInv'
<1>1. handler = "complete" /\ UNCHANGED <<files, plan, part, uploaded, completed>>
  BY DEF CompleteMpu
<1>2. Joined(Sorted) = Promised
  <2>1. CASE Fast
    <3>1. DOMAIN uploaded = Numbers /\ \A n \in DOMAIN uploaded : uploaded[n] = PartBytes(n)
      BY <1>1, <2>1 DEF EngineInv, FastData, FastAt
    <3>2. ToSet(completed) = Numbers
      BY <3>1 DEF ToSet, EngineInv, TypeOK
    <3>3. EnginePlan
      BY DEF EngineInv
    <3> QED
      BY <2>1, <3>1, <3>2, <3>3, FastJoined DEF Sorted
  <2>2. CASE ~Fast
    <3>1. EnginePlan /\ SlowData /\ Len(completed) = Chunks /\ Len(InMemory) >= Floor
      BY <1>1, <2>2 DEF EngineInv, SlowAt
    <3> QED
      BY <2>2, <3>1, SlowJoined DEF Promised
  <2> QED
    BY <2>1, <2>2
<1>3. CASE Accepted(Sorted)
  <2>1. Ends(Promised)
    BY <1>2, <1>3 DEF CompleteMpu
  <2> QED
    BY <1>1, <2>1, EngineEnds
<1>4. CASE ~Accepted(Sorted)
  <2>1. handler' = "error" /\ faulty' = faulty /\ archive' = archive
    BY <1>4 DEF CompleteMpu, Answered
  <2>2. faulty' \in BOOLEAN
    BY <2>1 DEF EngineInv, TypeOK
  <2>3. FastAt(handler') /\ SlowAt(handler')
    BY <2>1 DEF FastAt, SlowAt
  <2> QED
    BY <1>1, <2>1, <2>2, <2>3, EngineStays
<1> QED
  BY <1>3, <1>4

LEMMA KindOf ==
  ASSUME EngineInv, NEW n \in Numbers
  PROVE  Fast /\ plan.parts[n].kind \in {"stream", "copy"}
<1>1. Fast /\ EnginePlan
  BY DEF Fast, EngineInv
<1>2. plan.parts \in Seq(PartSet) /\ n \in 1 .. Len(plan.parts)
  BY <1>1, NumbersAre DEF EnginePlan
<1> DEFINE p == plan.parts[n]
<1>3. p \in PartSet
  BY <1>2, ElementOfSeq
<1> HIDE DEF p
<1>4. p.kind \in {"stream", "copy"}
  BY <1>3 DEF PartSet
<1> QED
  BY <1>1, <1>4 DEF p

LEMMA FlightFinite ==
  ASSUME EngineInv, NEW kind
  PROVE  IsFiniteSet(InFlight(kind)) /\ Cardinality(InFlight(kind)) \in Nat
<1>1. IsFiniteSet(Numbers)
  BY NumbersAre DEF EngineInv
<1>2. InFlight(kind) \subseteq Numbers
  BY DEF InFlight, OfKind
<1> QED
  BY <1>1, <1>2, FS_Subset, FS_CardinalityType

(* A part starts in a free slot of the pool of its own kind. *)
LEMMA EngineStarts ==
  ASSUME EngineInv, NEW n \in Numbers, StartPart(n)
  PROVE  EngineInv'
<1>2. Fast /\ plan.parts[n].kind \in {"stream", "copy"}
  BY KindOf
<1> PICK kind \in {"stream", "copy"} : kind = plan.parts[n].kind
  BY <1>2
<1>1. /\ handler = "parts" /\ part[n] = "todo" /\ Room(kind) /\ part' = [part EXCEPT ![n] = "flight"]
      /\ UNCHANGED <<files, plan, handler, uploaded, completed, archive, faulty>>
  BY DEF StartPart
<1>3. /\ (EnginePlan <=> EnginePlan') /\ (Fast <=> Fast') /\ Numbers' = Numbers
      /\ Promised' = Promised /\ plan.parts' = plan.parts
      /\ \A m : PartBytes(m)' = PartBytes(m)
  <2>1. UNCHANGED <<files, plan>>
    BY <1>1
  <2> QED
    BY <2>1, PlanStays
<1>4. TypeOK /\ part \in [Numbers -> {"todo", "flight", "ok"}]
  BY DEF EngineInv, TypeOK
<1>5. part' \in [Numbers -> {"todo", "flight", "ok"}] /\ part'[n] = "flight"
      /\ \A m \in Numbers : m # n => part'[m] = part[m]
  BY <1>1, <1>4
<1>6. InFlight(kind)' = InFlight(kind) \cup {n} /\ \A k : k # kind => InFlight(k)' = InFlight(k)
  BY <1>3, <1>5 DEF InFlight, OfKind
<1>7. /\ Cardinality(InFlight(kind)') \in Nat
      /\ Cardinality(InFlight(kind)') <= Cardinality(InFlight(kind)) + 1
  <2> DEFINE F == InFlight(kind)
  <2>1. IsFiniteSet(F) /\ Cardinality(F) \in Nat
    BY FlightFinite
  <2> HIDE DEF F
  <2>2. IsFiniteSet(F \cup {n}) /\ Cardinality(F \cup {n}) = IF n \in F THEN Cardinality(F) ELSE Cardinality(F) + 1
    BY <2>1, FS_AddElement
  <2>3. Cardinality(F \cup {n}) \in Nat /\ Cardinality(F \cup {n}) <= Cardinality(F) + 1
    BY <2>1, <2>2
  <2> QED
    BY <1>6, <2>3 DEF F
<1>8. Cardinality(InFlight("copy")') <= CopyWindow /\ Cardinality(InFlight("stream")') <= StreamWindow
  <2>1. Cardinality(InFlight(kind)) < Window(kind) /\ Cardinality(InFlight(kind)) \in Nat
    BY <1>1, FlightFinite DEF Room
  <2>2. Cardinality(InFlight("copy")) <= CopyWindow /\ Cardinality(InFlight("stream")) <= StreamWindow
    BY <1>4 DEF TypeOK
  <2>3. CopyWindow \in Nat /\ StreamWindow \in Nat
    BY FigmentAssumption
  <2>4. Window(kind) \in Nat
    BY <2>3 DEF Window
  <2>5. Cardinality(InFlight(kind)') <= Window(kind)
    BY <1>7, <2>1, <2>4
  <2>6. CASE kind = "copy"
    <3>1. InFlight("stream")' = InFlight("stream")
      BY <1>6, <2>6
    <3> QED
      BY <2>2, <2>5, <2>6, <3>1 DEF Window
  <2>7. CASE kind = "stream"
    <3>1. InFlight("copy")' = InFlight("copy")
      BY <1>6, <2>7
    <3> QED
      BY <2>2, <2>5, <2>7, <3>1 DEF Window
  <2> QED
    BY <2>6, <2>7
<1>9. {m \in Numbers : part'[m] = "ok"} = {m \in Numbers : part[m] = "ok"}
  BY <1>1, <1>5
<1>10. TypeOK'
  BY <1>1, <1>3, <1>4, <1>5, <1>8, <1>9 DEF TypeOK
<1>11. FastData' /\ FastAt(handler)'
  BY <1>1, <1>2, <1>3 DEF EngineInv, FastData, FastAt
<1> QED
  BY <1>1, <1>2, <1>3, <1>10, <1>11 DEF EngineInv

(* A part arrives, in whatever order; the last one to do so completes the upload. *)
LEMMA EnginePart ==
  ASSUME EngineInv, NEW n \in Numbers, PartEnds(n)
  PROVE  EngineInv'
<1>1. handler = "parts" /\ part[n] = "flight" /\ UNCHANGED <<files, plan, archive>>
  BY DEF PartEnds
<1>2. Fast
  BY KindOf
<1>3. CASE GivesUp /\ UNCHANGED <<part, uploaded, completed>>
  <2>1. UNCHANGED <<files, plan, part, uploaded, completed>> /\ faulty' \in BOOLEAN /\ archive' \in {archive, Promised}
    BY <1>1, <1>3 DEF GivesUp
  <2>2. FastAt(handler') /\ SlowAt(handler')
    BY <1>3 DEF GivesUp, FastAt, SlowAt
  <2> QED
    BY <2>1, <2>2, EngineStays
<1>4. CASE /\ part' = [part EXCEPT ![n] = "ok"]
           /\ uploaded' = [m \in DOMAIN uploaded \cup {n} |-> IF m = n THEN PartBytes(n) ELSE uploaded[m]]
           /\ completed' = Append(completed, n)
           /\ Answered(IF \A m \in Numbers : part'[m] = "ok" THEN "complete" ELSE "parts")
  <2>1. /\ (EnginePlan <=> EnginePlan') /\ (Fast <=> Fast') /\ Numbers' = Numbers
        /\ Promised' = Promised /\ plan.parts' = plan.parts
        /\ \A m : PartBytes(m)' = PartBytes(m)
    <3>1. UNCHANGED <<files, plan>>
      BY <1>1
    <3> QED
      BY <3>1, PlanStays
  <2>2. /\ TypeOK /\ part \in [Numbers -> {"todo", "flight", "ok"}]
        /\ DOMAIN uploaded = {completed[i] : i \in DOMAIN completed}
        /\ DOMAIN uploaded = {m \in Numbers : part[m] = "ok"}
    BY <1>2 DEF EngineInv, TypeOK
  <2>3. /\ part' \in [Numbers -> {"todo", "flight", "ok"}] /\ part'[n] = "ok"
        /\ \A m \in Numbers : m # n => part'[m] = part[m]
    BY <1>4, <2>2
  <2>4. Cardinality(InFlight("copy"))' <= CopyWindow /\ Cardinality(InFlight("stream"))' <= StreamWindow
    <3>1. ASSUME NEW kind PROVE Cardinality(InFlight(kind)') <= Cardinality(InFlight(kind)) /\ Cardinality(InFlight(kind)') \in Nat
      <4>1. InFlight(kind)' \subseteq InFlight(kind)
        BY <2>1, <2>3 DEF InFlight, OfKind
      <4>2. IsFiniteSet(InFlight(kind))
        BY FlightFinite
      <4> QED
        BY <4>1, <4>2, FS_Subset, FS_CardinalityType
    <3>2. Cardinality(InFlight("copy")) <= CopyWindow /\ Cardinality(InFlight("stream")) <= StreamWindow
      BY <2>2 DEF TypeOK
    <3>3. CopyWindow \in Nat /\ StreamWindow \in Nat
      BY FigmentAssumption
    <3>4. Cardinality(InFlight("copy")) \in Nat /\ Cardinality(InFlight("stream")) \in Nat
      BY FlightFinite
    <3> QED
      BY <3>1, <3>2, <3>3, <3>4
  <2>5. completed \in Seq(Numbers) /\ \A m \in DOMAIN uploaded : uploaded[m] = PartBytes(m)
    BY <1>2 DEF EngineInv, FastData
  <2>6. DOMAIN uploaded' = DOMAIN uploaded \cup {n}
    BY <1>4
  <2>7. completed' \in Seq(Numbers) /\ {completed'[i] : i \in DOMAIN completed'} = DOMAIN uploaded \cup {n}
    <3>1. /\ completed' \in Seq(Numbers) /\ Len(completed') = Len(completed) + 1
          /\ completed'[Len(completed) + 1] = n /\ \A i \in 1 .. Len(completed) : completed'[i] = completed[i]
      BY <1>4, <2>5, AppendProperties
    <3>2. DOMAIN completed = 1 .. Len(completed) /\ Len(completed) \in Nat /\ DOMAIN completed' = 1 .. Len(completed')
      BY <2>5, <3>1, LenProperties
    <3>3. 1 .. Len(completed') = (1 .. Len(completed)) \cup {Len(completed) + 1}
      BY <3>1, <3>2
    <3> QED
      BY <2>2, <3>1, <3>2, <3>3
  <2>8. {m \in Numbers : part'[m] = "ok"} = DOMAIN uploaded \cup {n}
    BY <2>2, <2>3
  <2>9. handler' \in {"complete", "parts"} /\ faulty' = faulty
        /\ (handler' = "complete" => \A m \in Numbers : part'[m] = "ok")
    BY <1>4 DEF Answered
  <2>10. TypeOK'
    BY <1>1, <2>1, <2>2, <2>3, <2>4, <2>6, <2>7, <2>8, <2>9 DEF TypeOK
  <2>11. FastData'
    <3>1. \A m \in DOMAIN uploaded' : uploaded'[m] = PartBytes(m)
      BY <1>4, <2>5, <2>6
    <3> QED
      BY <2>1, <2>7, <3>1 DEF FastData
  <2>12. FastAt(handler)'
    <3>1. handler' = "complete" => DOMAIN uploaded' = Numbers'
      BY <2>1, <2>6, <2>8, <2>9
    <3> QED
      BY <2>9, <3>1 DEF FastAt
  <2> QED
    BY <1>1, <1>2, <2>1, <2>10, <2>11, <2>12 DEF EngineInv
<1> QED
  BY <1>3, <1>4 DEF PartEnds

LEMMA AppendMap ==
  ASSUME NEW m \in Nat, NEW f
  PROVE  Append([i \in 1 .. m |-> f[i]], f[m + 1]) = [i \in 1 .. m + 1 |-> f[i]]
<1> DEFINE S == {f[i] : i \in 1 .. m + 1}
           s == [i \in 1 .. m |-> f[i]]
           t == [i \in 1 .. m + 1 |-> f[i]]
<1>1. s \in [1 .. m -> S] /\ t \in [1 .. m + 1 -> S] /\ f[m + 1] \in S
  OBVIOUS
<1>2. \A i \in 1 .. m : s[i] = f[i] /\ t[i] = f[i]
  OBVIOUS
<1>3. t[m + 1] = f[m + 1]
  OBVIOUS
<1> HIDE DEF s, t, S
<1>4. s \in Seq(S) /\ Len(s) = m /\ t \in Seq(S) /\ Len(t) = m + 1
  BY <1>1, FunctionSeq
<1> DEFINE u == Append(s, f[m + 1])
<1>5. u \in Seq(S) /\ Len(u) = m + 1 /\ u[m + 1] = f[m + 1] /\ \A i \in 1 .. m : u[i] = s[i]
  BY <1>1, <1>4, AppendProperties
<1> HIDE DEF u
<1>6. \A i \in 1 .. Len(u) : u[i] = t[i]
  <2> TAKE i \in 1 .. Len(u)
  <2>1. i \in 1 .. m \/ i = m + 1
    BY <1>5
  <2> QED
    BY <1>2, <1>3, <1>5, <2>1
<1>7. u = t
  BY <1>4, <1>5, <1>6, SeqEqual
<1> QED
  BY <1>7 DEF u, s, t

(* The fallback uploads the chunk after the last one. *)
LEMMA EngineChunk == ASSUME EngineInv, UploadChunk PROVE EngineInv'
<1> DEFINE m == Len(completed)
           n == m + 1
<1>1. handler = "chunks" /\ UNCHANGED <<files, plan, part, archive>>
  BY DEF UploadChunk
<1>2. ~Fast
  BY <1>1 DEF EngineInv, FastAt
<1>3. CASE GivesUp /\ UNCHANGED <<uploaded, completed>>
  <2>1. UNCHANGED <<files, plan, part, uploaded, completed>> /\ faulty' \in BOOLEAN /\ archive' \in {archive, Promised}
    BY <1>1, <1>3 DEF GivesUp
  <2>2. FastAt(handler') /\ SlowAt(handler')
    BY <1>3 DEF GivesUp, FastAt, SlowAt
  <2> QED
    BY <2>1, <2>2, EngineStays
<1>4. CASE /\ uploaded' = Append(uploaded, Chunk(n)) /\ completed' = Append(completed, n)
           /\ Answered(IF n = Chunks THEN "complete" ELSE "chunks")
  <2>1. /\ (EnginePlan <=> EnginePlan') /\ (Fast <=> Fast') /\ Numbers' = Numbers
        /\ Promised' = Promised /\ InMemory' = InMemory /\ Chunks' = Chunks /\ plan.parts' = plan.parts
        /\ \A k : Chunk(k)' = Chunk(k)
    <3>1. UNCHANGED <<files, plan>>
      BY <1>1
    <3> QED
      BY <3>1, PlanStays
  <2>2. /\ m \in Nat /\ completed = [i \in 1 .. m |-> i] /\ uploaded = [i \in 1 .. m |-> Chunk(i)]
        /\ m < Chunks /\ Len(InMemory) >= Floor
    BY <1>1, <1>2 DEF EngineInv, SlowData, SlowAt
  <2>3. Chunks \in Nat
    BY <1>2, <2>2, ChunksAre DEF EngineInv
  <2> HIDE DEF m
  <2>4. completed' = [i \in 1 .. m + 1 |-> i]
    <3> DEFINE f == [i \in 1 .. m + 1 |-> i]
    <3>1. f[m + 1] = m + 1 /\ [i \in 1 .. m |-> f[i]] = completed
      BY <2>2
    <3>2. [i \in 1 .. m + 1 |-> f[i]] = f
      OBVIOUS
    <3> HIDE DEF f
    <3>3. Append([i \in 1 .. m |-> f[i]], f[m + 1]) = [i \in 1 .. m + 1 |-> f[i]]
      BY <2>2, AppendMap
    <3>4. completed' = f
      BY <1>4, <3>1, <3>2, <3>3
    <3> QED
      BY <3>4 DEF f
  <2>5. uploaded' = [i \in 1 .. m + 1 |-> Chunk(i)]
    <3> DEFINE f == [i \in 1 .. m + 1 |-> Chunk(i)]
    <3>1. f[m + 1] = Chunk(m + 1) /\ [i \in 1 .. m |-> f[i]] = uploaded
      BY <2>2
    <3>2. [i \in 1 .. m + 1 |-> f[i]] = f
      OBVIOUS
    <3> HIDE DEF f
    <3>3. Append([i \in 1 .. m |-> f[i]], f[m + 1]) = [i \in 1 .. m + 1 |-> f[i]]
      BY <2>2, AppendMap
    <3>4. uploaded' = f
      BY <1>4, <3>1, <3>2, <3>3
    <3> QED
      BY <3>4 DEF f
  <2>6. DOMAIN completed' = 1 .. m + 1 /\ Len(completed') = m + 1 /\ DOMAIN uploaded' = 1 .. m + 1
        /\ {completed'[i] : i \in DOMAIN completed'} = 1 .. m + 1
    BY <2>2, <2>4, <2>5
  <2>7. handler' = (IF m + 1 = Chunks THEN "complete" ELSE "chunks") /\ faulty' = faulty
    BY <1>4 DEF Answered
  <2>8. TypeOK'
    <3>1. TypeOK
      BY DEF EngineInv
    <3>2. InFlight("copy")' = InFlight("copy") /\ InFlight("stream")' = InFlight("stream")
      BY <1>1, <2>1 DEF InFlight, OfKind
    <3>3. ~Fast'
      BY <1>2, <2>1
    <3> QED
      BY <1>1, <2>1, <2>6, <2>7, <3>1, <3>2, <3>3 DEF TypeOK
  <2>9. SlowData'
    <3>1. Len(completed') \in Nat /\ Len(completed') <= Chunks
      BY <2>2, <2>3, <2>6
    <3>2. completed' = [i \in 1 .. Len(completed') |-> i]
      BY <2>4, <2>6
    <3>3. uploaded' = [i \in 1 .. Len(completed') |-> Chunk(i)']
      BY <2>1, <2>5, <2>6
    <3> QED
      BY <2>1, <2>2, <3>1, <3>2, <3>3 DEF SlowData
  <2>10. SlowAt(handler)'
    <3>1. handler' = "chunks" => Len(completed') < Chunks
      BY <2>2, <2>3, <2>6, <2>7
    <3>2. handler' = "complete" => Len(completed') = Chunks
      BY <2>6, <2>7
    <3> QED
      BY <2>1, <2>2, <2>7, <3>1, <3>2 DEF SlowAt
  <2> QED
    BY <1>1, <1>2, <2>1, <2>8, <2>9, <2>10 DEF EngineInv
<1> QED
  BY <1>3, <1>4 DEF UploadChunk

LEMMA EngineStep == ASSUME EngineInv, [Next]_vars PROVE EngineInv'
<1>1. CASE ListAndPlan \/ FillCrcs \/ CreateMpu \/ Relist \/ GetAll
  BY <1>1, EngineCalls
<1>2. CASE PutArchive
  BY <1>2, EnginePut
<1>3. CASE UploadChunk
  BY <1>3, EngineChunk
<1>4. CASE CompleteMpu
  BY <1>4, EngineComplete
<1>5. CASE \E n \in Numbers : PartStep(n)
  <2>1. PICK n \in Numbers : PartStep(n)
    BY <1>5
  <2>2. CASE StartPart(n)
    BY <2>2, EngineStarts
  <2>3. CASE PartEnds(n)
    BY <2>3, EnginePart
  <2> QED
    BY <2>1, <2>2, <2>3 DEF PartStep
<1>6. CASE UNCHANGED vars
  <2>1. UNCHANGED <<files, plan, part, uploaded, completed>> /\ handler' = handler /\ faulty' = faulty /\ archive' = archive
    BY <1>6 DEF vars
  <2>2. faulty' \in BOOLEAN /\ archive' \in {archive, Promised}
    BY <2>1 DEF EngineInv, TypeOK
  <2>3. (Fast => FastAt(handler')) /\ (~Fast => SlowAt(handler'))
    BY <2>1 DEF EngineInv
  <2> QED
    BY <2>1, <2>2, <2>3, EngineStays
<1> QED
  BY <1>1, <1>2, <1>3, <1>4, <1>5, <1>6 DEF Next, HandlerStep

LEMMA EngineAlways == Spec => []EngineInv
<1>1. EngineInv /\ [Next]_vars => EngineInv'
  BY EngineStep
<1> QED
  BY EngineInit, <1>1, PTL DEF Spec

LEMMA EngineLegal == EngineInv => PartsLegal
<1> SUFFICES ASSUME EngineInv, NEW n \in DOMAIN uploaded
             PROVE  Len(uploaded[n]) >= Floor \/ n = IF Fast THEN Len(plan.parts) ELSE Chunks
  BY DEF EngineInv, PartsLegal
<1>1. CASE Fast
  <2>1. n \in Numbers /\ uploaded[n] = PartBytes(n) /\ EnginePlan
    BY <1>1 DEF EngineInv, TypeOK, FastData
  <2> QED
    BY <1>1, <2>1, PartBytesIs
<1>2. CASE ~Fast
  <2>1. EnginePlan /\ SlowData
    BY <1>2 DEF EngineInv
  <2>2. /\ Len(completed) \in Nat /\ n \in 1 .. Len(completed) /\ uploaded[n] = Chunk(n) /\ Len(completed) <= Chunks
    BY <2>1 DEF SlowData
  <2>3. Len(InMemory) >= Floor
    BY <2>1, <2>2 DEF SlowData
  <2>4. Chunks \in Nat \ {0} /\ \A k \in 1 .. Chunks : k # Chunks => Len(Chunk(k)) >= Floor
    BY <1>2, <2>1, <2>3, ChunksAre
  <2>5. n \in 1 .. Chunks
    BY <2>2, <2>4
  <2> QED
    BY <1>2, <2>2, <2>4, <2>5
<1> QED
  BY <1>1, <1>2

LEMMA EngineReadable == EngineInv => ArchiveReadable
<1> SUFFICES ASSUME EngineInv PROVE ArchiveReadable
  OBVIOUS
<1>1. Readable(Promised)
  BY DEF EngineInv, EnginePlan, Promised
<1>2. archive \in {<<>>, Promised}
  BY DEF EngineInv
<1> QED
  BY <1>1, <1>2 DEF ArchiveReadable

(* In every state, for every list of files, floor and size of the pools: no part    *)
(* that is uploaded is below the floor but the last (plan_single_mpu,               *)
(* stream_fallback::run), and neither pool takes the slots of the other.            *)
THEOREM EnginePartsLegal == Spec => []PartsLegal
  BY EngineAlways, EngineLegal, PTL

(* Whatever archive figment-engine leaves under its key, an unzip program finds its *)
(* directory, with one record for every file, whose offset is that of its header    *)
(* and its body (plan_single_mpu, compute_offsets, build_central_directory). A file *)
(* as long as the limit or longer is excepted, whose size is cut; the offset that   *)
(* equals the limit is right, but is written without its extra field.               *)
THEOREM EngineArchiveReadable == Spec => []ArchiveReadable
  BY EngineAlways, EngineReadable, PTL

LEMMA EngineAccepted ==
  ASSUME EngineInv, handler = "complete"
  PROVE  Accepted(Sorted)
<1>1. EnginePlan /\ PartsLegal
  BY EngineLegal DEF EngineInv
<1>2. ASSUME NEW N \in Nat, Sorted = [i \in 1 .. N |-> i], DOMAIN uploaded = 1 .. N,
             N = IF Fast THEN Len(plan.parts) ELSE Chunks
      PROVE  Accepted(Sorted)
  <2>1. Len(Sorted) = N /\ \A i \in 1 .. N - 1 : Sorted[i] = i /\ Sorted[i + 1] = i + 1
    <3> DEFINE s == [i \in 1 .. N |-> i]
    <3>1. s \in Seq(Nat) /\ Len(s) = N
      BY FunctionSeq
    <3> QED
      BY <1>2, <3>1
  <2>2. ASSUME NEW i \in 1 .. N - 1 PROVE Len(uploaded[i]) >= Floor
    <3>1. i \in DOMAIN uploaded /\ i # N
      BY <1>2
    <3> QED
      BY <1>1, <1>2, <3>1 DEF PartsLegal
  <2>3. \A i \in 1 .. N - 1 : Sorted[i] < Sorted[i + 1] /\ Len(uploaded[Sorted[i]]) >= Floor
    BY <2>1, <2>2
  <2> QED
    BY <2>1, <2>3 DEF Accepted
<1>3. CASE Fast
  <2>1. DOMAIN uploaded = Numbers
    BY <1>3 DEF EngineInv, FastAt
  <2>2. ToSet(completed) = Numbers
    BY <2>1 DEF ToSet, EngineInv, TypeOK
  <2>3. Len(plan.parts) \in Nat /\ Numbers = 1 .. Len(plan.parts)
    BY <1>1, NumbersAre
  <2>4. Sorted = [i \in 1 .. Len(plan.parts) |-> i]
    BY <2>2, <2>3, AscendingUpTo DEF Sorted
  <2> QED
    BY <1>2, <1>3, <2>1, <2>3, <2>4
<1>4. CASE ~Fast
  <2>1. SlowData /\ Len(completed) = Chunks /\ Len(InMemory) >= Floor
    BY <1>4 DEF EngineInv, SlowAt
  <2>2. Sorted = [i \in 1 .. Chunks |-> i]
    BY <1>1, <1>4, <2>1, SlowJoined
  <2>3. DOMAIN uploaded = 1 .. Chunks /\ Chunks \in Nat
    BY <2>1 DEF SlowData
  <2> QED
    BY <1>2, <1>4, <2>2, <2>3
<1> QED
  BY <1>3, <1>4

HasCause == handler = "error" => faulty

(* The safety half of AnswerHasCause: an invocation that answers with an error has  *)
(* seen a call fail for good. The completion itself, in whatever order the parts    *)
(* arrived, is never one that S3 refuses.                                           *)
THEOREM EngineErrorHasCause == Spec => [](handler = "error" => faulty)
<1>1. Init => HasCause
  BY DEF Init, HasCause
<1>2. EngineInv /\ HasCause /\ [Next]_vars => HasCause'
  <2> SUFFICES ASSUME EngineInv, HasCause, [Next]_vars PROVE HasCause'
    OBVIOUS
  <2>1. faulty \in BOOLEAN
    BY DEF EngineInv, TypeOK
  <2>2. ASSUME NEW at, NEW next, next # "error", Call(at, next) PROVE HasCause'
    BY <2>2 DEF Call, Answered, GivesUp, HasCause
  <2>3. CASE ListAndPlan \/ FillCrcs \/ CreateMpu \/ Relist \/ GetAll
    <3>1. \E at : \E next \in {"heads", "relist", "create", "parts", "chunks", "get", "put"} : Call(at, next)
      BY <2>3 DEF ListAndPlan, FillCrcs, CreateMpu, Relist, GetAll
    <3> QED
      BY <2>2, <3>1
  <2>4. CASE PutArchive
    BY <2>4 DEF PutArchive, Ends, Answered, GivesUp, HasCause
  <2>5. CASE UploadChunk
    BY <2>5 DEF UploadChunk, Answered, GivesUp, HasCause
  <2>6. CASE CompleteMpu
    <3>1. Accepted(Sorted)
      BY <2>6, EngineAccepted DEF CompleteMpu
    <3>2. Ends(Joined(Sorted))
      BY <2>6, <3>1 DEF CompleteMpu
    <3> QED
      BY <3>2 DEF Ends, Answered, GivesUp, HasCause
  <2>7. ASSUME NEW n \in Numbers, PartStep(n) PROVE HasCause'
    BY <2>7 DEF PartStep, StartPart, PartEnds, Answered, GivesUp, HasCause
  <2>8. CASE UNCHANGED vars
    BY <2>8 DEF vars, HasCause
  <2> QED
    BY <2>3, <2>4, <2>5, <2>6, <2>7, <2>8 DEF Next, HandlerStep
<1>3. HasCause => (handler = "error" => faulty)
  BY DEF HasCause
<1> QED
  BY EngineAlways, <1>1, <1>2, <1>3, PTL DEF Spec
-----------------------------------------------------------------------------
(* What figment-engine-chain builds *)

(* What a link adds to the object it continues, and what it starts from. *)
Base(anchor, l) ==
  IF l.first = "bootstrap"
  THEN Bytes(Header(anchor)) \o Bytes(BodySlice(anchor, 0, l.append[1].from))
  ELSE Bytes(Body(anchor))
Added(l) == IF l.append = <<>> THEN <<>> ELSE Bytes(l.append[1])
LinkBytes(anchor, l) == (IF l.first = "previous" THEN <<>> ELSE Base(anchor, l)) \o Added(l)

LinkOf(k, n) == plan.segments[k].links[n]
LinkCount(k) == Len(plan.segments[k].links)
OwnBytes(k) == [n \in DOMAIN plan.segments[k].links |-> LinkBytes(plan.segments[k].anchor, LinkOf(k, n))]

(* The object after a number of links, and after all of them. *)
Built(k, n) == Before(OwnBytes(k), n + 1)
ObjectOf(k) == FlattenSeq(OwnBytes(k))
FirstBytes(k, n) ==
  IF LinkOf(k, n).first = "previous" THEN Built(k, n - 1)
  ELSE Base(plan.segments[k].anchor, LinkOf(k, n))

LinkFits(k, n) ==
  LET l == LinkOf(k, n) IN
  /\ l.first \in {"bootstrap", "anchor", "previous"} /\ (l.first = "previous" <=> n # 1)
  /\ l.append = <<>> \/ (l.append = <<l.append[1]>> /\ l.append[1] \in SliceSet)
  /\ l.append = <<>> => l.first = "anchor"
  /\ FirstBytes(k, n) \in Seq(AnyByte) /\ FirstBytes(k, n) \o Added(l) = Built(k, n)
  /\ Len(FirstBytes(k, n)) >= Floor
  /\ l.append # <<>> /\ l.append[1].of = "header" => l.append[1].id \in plan.segments[k].crcs

SegmentFits(k) ==
  /\ LinkCount(k) \in Nat \ {0} /\ DOMAIN plan.segments[k].links = 1 .. LinkCount(k)
  /\ \A n \in 1 .. LinkCount(k) : LinkFits(k, n)
  /\ ObjectOf(k) \in Seq(AnyByte) /\ Built(k, LinkCount(k)) = ObjectOf(k)
  /\ Len(ObjectOf(k)) = plan.segments[k].length /\ plan.segments[k].length >= Floor
  /\ plan.segments[k].anchor \in plan.segments[k].crcs /\ plan.segments[k].crcs \subseteq Ids

Chained == FlattenSeq([k \in Segments |-> ObjectOf(k)]) \o Directory

ChainPlanned ==
  /\ files \in Lists
  /\ SegmentCount \in Nat /\ Segments = 1 .. SegmentCount
  /\ \A k \in Segments : SegmentFits(k)
  /\ Segments # {} => /\ Directory \in Seq(AnyByte) /\ Readable(Chained)
                      /\ SumFunction([k \in Segments |-> plan.segments[k].length]) = plan.directory
-----------------------------------------------------------------------------
(* The state of figment-engine-chain *)

PastGate == {"create", "first", "append", "complete", "stitch", "ok"}
Phases == {"todo", "check", "asleep", "failed"} \cup PastGate

(* A segment in phase p of its link n, with the parts ps, after the object o. *)
LinkAt(k, p, n, ps, o) ==
  LET first == FirstBytes(k, n)
      append == LinkOf(k, n).append
  IN  /\ n \in 1 .. LinkCount(k)
      /\ p \in {"todo", "check", "asleep"} => n = 1
      /\ p = "first" => ps = <<>>
      /\ p = "append" => ps = <<first>> /\ append # <<>>
      /\ p = "complete" => ps = IF append = <<>> THEN <<first>> ELSE <<first, Bytes(append[1])>>
      /\ Len(ps) \in 0 .. 2 /\ (Len(ps) = 2 => Len(ps[1]) >= Floor)
      /\ p \in {"create", "first", "append", "complete"} /\ n # 1 => o = Built(k, n - 1)
      /\ p \in {"stitch", "ok"} => o = ObjectOf(k)

StitchedAt(k) == k \in DOMAIN stitched => stitched[k] = ObjectOf(k)

SegmentAt(k) ==
  /\ LinkAt(k, phase[k], link[k], parts[k], object[k])
  /\ phase[k] \in PastGate => Known(plan.segments[k].crcs)
  /\ phase[k] = "failed" => faulty
  /\ phase[k] = "ok" => k \in DOMAIN stitched
  /\ StitchedAt(k)

ChainShapes ==
  /\ head \in [Ids -> {"todo", "flight", "ok", "failed"}]
  /\ Cardinality(HeadsInFlight) <= HeadWindow
  /\ phase \in [Segments -> Phases]
  /\ DOMAIN link = Segments /\ DOMAIN parts = Segments /\ DOMAIN object = Segments
  /\ DOMAIN stitched \subseteq 1 .. SegmentCount + 1
  /\ faulty \in BOOLEAN

ChainAt ==
  /\ handler \in {"list", "create", "build", "directory", "complete", "ok", "error", "refused"}
  /\ handler = "refused" => Segments = {}
  /\ handler \in {"create", "build", "directory", "complete"} => Segments # {}
  /\ handler \in {"directory", "complete"} => \A k \in Segments : Ended(k)
  /\ handler = "complete" => /\ SegmentCount + 1 \in DOMAIN stitched
                             /\ \A k \in Segments : phase[k] = "ok"
  /\ handler = "error" \/ HeadsFailed => faulty
  /\ SegmentCount + 1 \in DOMAIN stitched => stitched[SegmentCount + 1] = Directory
  /\ archive # <<>> => archive = Chained /\ Segments # {}

ChainInv ==
  ChainPlanned /\ ChainShapes /\ (\A k \in Segments : SegmentAt(k)) /\ ChainAt
-----------------------------------------------------------------------------
(* The smalls are dealt to the bigs in turn *)

LEMMA SmallIdsAre ==
  ASSUME files \in Lists
  PROVE  /\ SmallIds \in Seq(Ids) /\ Len(SmallIds) \in Nat
         /\ \A k \in 1 .. Len(SmallIds) : SmallIds[k] \in Ids /\ files[SmallIds[k]].size < Floor
         /\ \A k, l \in 1 .. Len(SmallIds) : SmallIds[k] = SmallIds[l] => k = l
         /\ \A i \in Ids : files[i].size < Floor => \E k \in 1 .. Len(SmallIds) : SmallIds[k] = i
<1> DEFINE S == {i \in Ids : files[i].size < Floor}
<1>1. S \subseteq Ids
  OBVIOUS
<1>2. SmallIds = Ascending(S)
  BY DEF SmallIds
<1>i. \A i \in S : i \in Ids /\ files[i].size < Floor
  OBVIOUS
<1>j. \A i \in Ids : files[i].size < Floor => i \in S
  OBVIOUS
<1> HIDE DEF S
<1>3. /\ SmallIds \in Seq(S)
      /\ \A k, l \in 1 .. Len(SmallIds) : SmallIds[k] = SmallIds[l] => k = l
      /\ \A x \in S : \E k \in 1 .. Len(SmallIds) : SmallIds[k] = x
  <2>1. IsFiniteSet(S)
    BY <1>1, SortStrict
  <2>2. Ids \subseteq Nat
    BY FilesFacts
  <2>3. S \subseteq Nat
    BY <1>1, <2>2
  <2> QED
    BY <1>2, <2>1, <2>3, AscendingOrdered
<1>4. SmallIds \in Seq(Ids) /\ Len(SmallIds) \in Nat /\ \A k \in 1 .. Len(SmallIds) : SmallIds[k] \in S
  BY <1>1, <1>3, SeqMonotonic, LenProperties, ElementOfSeq
<1> QED
  BY <1>3, <1>4, <1>i, <1>j

(* Which small is the j-th of the k-th big. *)
Turn(C, j, k) == (j - 1) * C + k
DealtOf(L, C, k) == (L + C - k) \div C
TurnsWithin(C, k, d, L) ==
  \A j \in Nat \ {0} : Turn(C, j, k) \in Nat \ {0} /\ (j <= d <=> Turn(C, j, k) <= L)

LEMMA TurnsEnd ==
  ASSUME NEW C \in Nat \ {0}, NEW L \in Nat, NEW k \in 1 .. C
  PROVE  DealtOf(L, C, k) \in Nat /\ TurnsWithin(C, k, DealtOf(L, C, k), L)
<1> DEFINE d == DealtOf(L, C, k)
<1>1. L + C - k \in Nat
  OBVIOUS
<1>2. d \in Nat /\ d * C <= L + C - k /\ L + C - k < (d + 1) * C
  BY <1>1 DEF DealtOf
<1> HIDE DEF d
<1>3. d * C \in Nat /\ (d + 1) * C = d * C + C
  BY <1>2
<1>4. ASSUME NEW j \in Nat \ {0} PROVE Turn(C, j, k) \in Nat \ {0} /\ (j <= d <=> Turn(C, j, k) <= L)
  <2> DEFINE p == (j - 1) * C
             q == d * C
  <2>1. p \in Nat
    <3>1. j - 1 \in Nat
      OBVIOUS
    <3> QED
      BY <3>1
  <2>2. Turn(C, j, k) = p + k
    BY DEF Turn
  <2>3. j <= d => p + C <= q
    <3>1. j - 1 \in Nat /\ p + C = j * C
      OBVIOUS
    <3>2. j <= d => j * C <= d * C
      BY <1>2, Products
    <3> QED
      BY <3>1, <3>2
  <2>4. ~(j <= d) => q <= p
    <3>1. j - 1 \in Nat /\ (~(j <= d) => d <= j - 1)
      BY <1>2
    <3>2. d <= j - 1 => d * C <= (j - 1) * C
      BY <1>2, <3>1, Products
    <3> QED
      BY <3>1, <3>2
  <2>5. q \in Nat /\ q <= L + C - k /\ L + C - k < q + C
    BY <1>2, <1>3
  <2> HIDE DEF p, q
  <2>6. p + k \in Nat \ {0} /\ (j <= d <=> p + k <= L)
    BY <2>1, <2>3, <2>4, <2>5
  <2> QED
    BY <2>2, <2>6
<1> QED
  BY <1>2, <1>4 DEF TurnsWithin, d

LEMMA TurnsOnce ==
  ASSUME NEW C \in Nat \ {0}, NEW i \in Nat \ {0}, NEW j \in Nat \ {0}, NEW k \in 1 .. C, NEW l \in 1 .. C,
         Turn(C, i, k) = Turn(C, j, l)
  PROVE  i = j /\ k = l
<1> DEFINE p == (i - 1) * C
           q == (j - 1) * C
<1>1. p + k = q + l
  BY DEF Turn
<1>2. i - 1 \in Nat /\ j - 1 \in Nat /\ p \in Nat /\ q \in Nat
  <2>1. i - 1 \in Nat /\ j - 1 \in Nat
    OBVIOUS
  <2> QED
    BY <2>1
<1>3. i < j => p + C <= q
  <2>1. p + C = i * C
    OBVIOUS
  <2>2. i <= j - 1 => i * C <= (j - 1) * C
    BY <1>2, Products
  <2> QED
    BY <2>1, <2>2
<1>4. j < i => q + C <= p
  <2>1. q + C = j * C
    OBVIOUS
  <2>2. j <= i - 1 => j * C <= (i - 1) * C
    BY <1>2, Products
  <2> QED
    BY <2>1, <2>2
<1>5. i = j => p = q
  OBVIOUS
<1> HIDE DEF p, q
<1> QED
  BY <1>1, <1>2, <1>3, <1>4, <1>5

LEMMA TurnsAll ==
  ASSUME NEW C \in Nat \ {0}, NEW a \in Nat \ {0}
  PROVE  \E k \in 1 .. C : \E j \in Nat \ {0} : Turn(C, j, k) = a
<1> DEFINE d == (a - 1) \div C
           m == (a - 1) % C
<1>1. a - 1 \in Nat
  OBVIOUS
<1>2. d \in Nat /\ m \in 0 .. C - 1 /\ a - 1 = C * d + m
  BY <1>1
<1>3. C * d = d * C
  BY <1>2
<1>4. d * C \in Nat
  BY <1>2
<1> HIDE DEF d, m
<1>5. d + 1 \in Nat \ {0} /\ m + 1 \in 1 .. C /\ (d + 1) - 1 = d
  BY <1>2
<1>6. Turn(C, d + 1, m + 1) = d * C + (m + 1)
  BY <1>5 DEF Turn
<1>7. d * C + (m + 1) = a
  <2> DEFINE p == d * C
  <2>1. p \in Nat /\ a - 1 = p + m /\ m \in Nat
    BY <1>2, <1>3, <1>4
  <2> HIDE DEF p
  <2>2. p + (m + 1) = a
    BY <2>1
  <2> QED
    BY <2>2 DEF p
<1> QED
  BY <1>5, <1>6, <1>7

LEMMA DealtAre ==
  ASSUME files \in Lists, NEW k \in 1 .. Len(Bigs)
  PROVE  /\ SmallsOf(k) \in Seq(Ids) /\ Len(SmallsOf(k)) \in Nat /\ DOMAIN SmallsOf(k) = 1 .. Len(SmallsOf(k))
         /\ \A j \in 1 .. Len(SmallsOf(k)) :
              Turn(Len(Bigs), j, k) \in 1 .. Len(SmallIds) /\ SmallsOf(k)[j] = SmallIds[Turn(Len(Bigs), j, k)]
         /\ \A j \in Nat \ {0} : Turn(Len(Bigs), j, k) <= Len(SmallIds) => j \in 1 .. Len(SmallsOf(k))
<1> DEFINE C == Len(Bigs)
           L == Len(SmallIds)
           d == DealtOf(L, C, k)
           s == SmallsOf(k)
<1>1. C \in Nat /\ L \in Nat
  BY BigsAre, SmallIdsAre
<1>2. C \in Nat \ {0} /\ k \in 1 .. C
  BY <1>1
<1>3. s = [j \in 1 .. d |-> SmallIds[Turn(C, j, k)]]
  BY DEF SmallsOf, Dealt, Count, Turn, DealtOf
<1>4. d \in Nat /\ TurnsWithin(C, k, d, L)
  <2> HIDE DEF C, L
  <2> QED
    BY <1>1, <1>2, TurnsEnd
<1>5. \A i \in 1 .. L : SmallIds[i] \in Ids
  BY SmallIdsAre
<1> HIDE DEF C, L, d, s
<1>6. ASSUME NEW j \in 1 .. d PROVE Turn(C, j, k) \in 1 .. L
  <2>1. j \in Nat \ {0} /\ j <= d
    BY <1>4
  <2> QED
    BY <1>1, <1>4, <2>1 DEF TurnsWithin
<1>7. s \in [1 .. d -> Ids]
  BY <1>3, <1>5, <1>6
<1>8. s \in Seq(Ids) /\ Len(s) = d /\ DOMAIN s = 1 .. d
  BY <1>4, <1>7, FunctionSeq
<1>9. ASSUME NEW j \in Nat \ {0}, Turn(C, j, k) <= L PROVE j \in 1 .. d
  BY <1>4, <1>9 DEF TurnsWithin
<1>10. \A j \in 1 .. d : s[j] = SmallIds[Turn(C, j, k)]
  BY <1>3
<1> QED
  BY <1>4, <1>6, <1>8, <1>9, <1>10 DEF C, L, s
-----------------------------------------------------------------------------
(* The order of the archive *)

OneMore(x, s) == <<x>> \o s
Fronted(T, x, s, t) ==
  /\ t \in Seq(T) /\ Len(t) = Len(s) + 1 /\ t[1] = x
  /\ \A i \in 1 .. Len(s) : i + 1 \in 1 .. Len(t) /\ t[i + 1] = s[i]
  /\ \A i \in 1 .. Len(t) : i = 1 \/ (i - 1 \in 1 .. Len(s) /\ t[i] = s[i - 1])

LEMMA OneThen ==
  ASSUME NEW T, NEW x \in T, NEW s \in Seq(T), NEW t, t = OneMore(x, s)
  PROVE  Fronted(T, x, s, t)
<1> DEFINE u == <<x>>
<1>1. u \in Seq(T) /\ Len(u) = 1 /\ u[1] = x
  OBVIOUS
<1>2. t = u \o s
  BY DEF OneMore
<1> HIDE DEF u
<1>3. Len(s) \in Nat
  BY LenProperties
<1>4. /\ t \in Seq(T) /\ Len(t) = Len(u) + Len(s)
      /\ \A i \in 1 .. Len(u) + Len(s) : t[i] = IF i <= Len(u) THEN u[i] ELSE s[i - Len(u)]
  <2>1. /\ u \o s \in Seq(T) /\ Len(u \o s) = Len(u) + Len(s)
        /\ \A i \in 1 .. Len(u) + Len(s) : (u \o s)[i] = IF i <= Len(u) THEN u[i] ELSE s[i - Len(u)]
    BY <1>1, ConcatProperties
  <2> QED
    BY <1>2, <2>1
<1>5. /\ t \in Seq(T) /\ Len(t) = Len(s) + 1
      /\ \A i \in 1 .. Len(s) + 1 : t[i] = IF i <= 1 THEN u[i] ELSE s[i - 1]
  BY <1>1, <1>3, <1>4
<1>6. t[1] = x
  BY <1>1, <1>3, <1>5
<1>7. ASSUME NEW i \in 1 .. Len(s) PROVE i + 1 \in 1 .. Len(t) /\ t[i + 1] = s[i]
  <2>1. i + 1 \in 1 .. Len(s) + 1 /\ ~(i + 1 <= 1) /\ (i + 1) - 1 = i
    BY <1>3
  <2> QED
    BY <1>5, <2>1
<1>8. ASSUME NEW i \in 1 .. Len(t) PROVE i = 1 \/ (i - 1 \in 1 .. Len(s) /\ t[i] = s[i - 1])
  BY <1>3, <1>5
<1> QED
  BY <1>5, <1>6, <1>7, <1>8 DEF Fronted

LEMMA BucketsAre ==
  ASSUME files \in Lists
  PROVE  /\ Buckets \in Seq(Seq(Ids)) /\ Len(Buckets) = Len(Bigs) /\ DOMAIN Buckets = 1 .. Len(Bigs)
         /\ \A k \in 1 .. Len(Bigs) : Buckets[k] = <<Bigs[k]>> \o SmallsOf(k)
<1>1. Len(Bigs) \in Nat /\ DOMAIN Bigs = 1 .. Len(Bigs)
  BY BigsAre, LenProperties
<1>2. ASSUME NEW k \in 1 .. Len(Bigs)
      PROVE  Buckets[k] = <<Bigs[k]>> \o SmallsOf(k) /\ Buckets[k] \in Seq(Ids)
  <2>1. Buckets[k] = <<Bigs[k]>> \o SmallsOf(k)
    BY <1>1 DEF Buckets
  <2>2. Bigs[k] \in Ids /\ SmallsOf(k) \in Seq(Ids)
    BY BigsAre, DealtAre
  <2>3. Fronted(Ids, Bigs[k], SmallsOf(k), Buckets[k])
    BY <2>1, <2>2, OneThen DEF OneMore
  <2> QED
    BY <2>1, <2>3 DEF Fronted
<1>3. Buckets = [k \in 1 .. Len(Bigs) |-> Buckets[k]]
  BY <1>1 DEF Buckets
<1>4. Buckets \in [1 .. Len(Bigs) -> Seq(Ids)]
  BY <1>2, <1>3
<1> QED
  BY <1>1, <1>2, <1>4, FunctionSeq

LEMMA ChainOnce ==
  ASSUME files \in Lists, Len(Bigs) # 0
  PROVE  Lists1(ChainOrder)
<1> DEFINE C == Len(Bigs)
           s == Buckets
           at(k, i) == Turn(C, i - 1, k)
<1>1. C \in Nat \ {0} /\ Len(SmallIds) \in Nat
  BY BigsAre, SmallIdsAre
<1>2. /\ s \in Seq(Seq(Ids)) /\ Len(s) = C
      /\ \A k \in 1 .. C : s[k] = <<Bigs[k]>> \o SmallsOf(k)
  BY BucketsAre
<1>3. ChainOrder = FlattenSeq(s)
  BY DEF ChainOrder
<1>4. /\ \A k \in 1 .. C : Bigs[k] \in Ids /\ files[Bigs[k]].size >= Floor
      /\ \A k, l \in 1 .. C : Bigs[k] = Bigs[l] => k = l
      /\ \A i \in Ids : files[i].size >= Floor => \E k \in 1 .. C : Bigs[k] = i
  BY BigsAre
<1>5. /\ \A k \in 1 .. Len(SmallIds) : SmallIds[k] \in Ids /\ files[SmallIds[k]].size < Floor
      /\ \A k, l \in 1 .. Len(SmallIds) : SmallIds[k] = SmallIds[l] => k = l
      /\ \A i \in Ids : files[i].size < Floor => \E k \in 1 .. Len(SmallIds) : SmallIds[k] = i
  BY SmallIdsAre
<1>6. \A i \in Ids : files[i].size \in Nat /\ Floor \in Nat
  BY FilesFacts
<1>7. ASSUME NEW k \in 1 .. C
      PROVE  /\ SmallsOf(k) \in Seq(Ids) /\ Len(SmallsOf(k)) \in Nat
             /\ \A j \in 1 .. Len(SmallsOf(k)) :
                  Turn(C, j, k) \in 1 .. Len(SmallIds) /\ SmallsOf(k)[j] = SmallIds[Turn(C, j, k)]
             /\ \A j \in Nat \ {0} : Turn(C, j, k) <= Len(SmallIds) => j \in 1 .. Len(SmallsOf(k))
  BY DealtAre
<1> HIDE DEF C, s
<1>8. ASSUME NEW k \in 1 .. C
      PROVE  /\ s[k][1] = Bigs[k] /\ 1 \in 1 .. Len(s[k])
             /\ \A j \in 1 .. Len(SmallsOf(k)) : j + 1 \in 1 .. Len(s[k]) /\ s[k][j + 1] = SmallsOf(k)[j]
             /\ \A i \in 1 .. Len(s[k]) : i = 1 \/ (i - 1 \in 1 .. Len(SmallsOf(k)) /\ s[k][i] = SmallsOf(k)[i - 1])
  <2>1. Bigs[k] \in Ids /\ SmallsOf(k) \in Seq(Ids) /\ s[k] = OneMore(Bigs[k], SmallsOf(k))
    BY <1>2, <1>4, <1>7 DEF OneMore
  <2>2. /\ s[k][1] = Bigs[k] /\ Len(s[k]) = Len(SmallsOf(k)) + 1
        /\ \A j \in 1 .. Len(SmallsOf(k)) : j + 1 \in 1 .. Len(s[k]) /\ s[k][j + 1] = SmallsOf(k)[j]
        /\ \A i \in 1 .. Len(s[k]) : i = 1 \/ (i - 1 \in 1 .. Len(SmallsOf(k)) /\ s[k][i] = SmallsOf(k)[i - 1])
    <3>1. Fronted(Ids, Bigs[k], SmallsOf(k), s[k])
      BY <1>4, <1>7, <2>1, OneThen
    <3> QED
      BY <3>1 DEF Fronted
  <2>3. 1 \in 1 .. Len(s[k])
    BY <1>7, <2>2
  <2> QED
    BY <2>2, <2>3
<1>9. ASSUME NEW k \in 1 .. C, NEW i \in 1 .. Len(s[k])
      PROVE  \/ i = 1 /\ s[k][i] = Bigs[k]
             \/ /\ i - 1 \in Nat \ {0} /\ i \in Nat /\ at(k, i) \in 1 .. Len(SmallIds)
                /\ s[k][i] = SmallIds[at(k, i)]
  <2>1. CASE i = 1
    BY <1>8, <2>1
  <2>2. CASE i - 1 \in 1 .. Len(SmallsOf(k)) /\ s[k][i] = SmallsOf(k)[i - 1]
    <3>1. i - 1 \in Nat \ {0} /\ i \in Nat
      BY <1>7, <2>2
    <3> QED
      BY <1>7, <2>2, <3>1
  <2> QED
    BY <1>8, <2>1, <2>2
<1> HIDE DEF at
<1>10. ASSUME NEW k \in 1 .. C, NEW l \in 1 .. C, NEW i \in 1 .. Len(s[k]), NEW j \in 1 .. Len(s[l]),
              s[k][i] = s[l][j]
       PROVE  k = l /\ i = j
  <2>1. CASE i = 1 /\ s[k][i] = Bigs[k]
    <3>1. CASE j = 1 /\ s[l][j] = Bigs[l]
      BY <1>4, <1>10, <2>1, <3>1
    <3>2. CASE at(l, j) \in 1 .. Len(SmallIds) /\ s[l][j] = SmallIds[at(l, j)]
      BY <1>4, <1>5, <1>6, <1>10, <2>1, <3>2
    <3> QED
      BY <1>9, <3>1, <3>2
  <2>2. CASE /\ i - 1 \in Nat \ {0} /\ i \in Nat /\ at(k, i) \in 1 .. Len(SmallIds)
             /\ s[k][i] = SmallIds[at(k, i)]
    <3>1. CASE j = 1 /\ s[l][j] = Bigs[l]
      <4>1. Bigs[l] = SmallIds[at(k, i)]
        BY <1>10, <2>2, <3>1
      <4>2. Bigs[l] \in Ids /\ files[Bigs[l]].size >= Floor /\ files[SmallIds[at(k, i)]].size < Floor
        BY <1>4, <1>5, <2>2
      <4> QED
        BY <1>6, <4>1, <4>2
    <3>2. CASE /\ j - 1 \in Nat \ {0} /\ j \in Nat /\ at(l, j) \in 1 .. Len(SmallIds)
               /\ s[l][j] = SmallIds[at(l, j)]
      <4>1. at(k, i) = at(l, j)
        BY <1>5, <1>10, <2>2, <3>2
      <4>2. Turn(C, i - 1, k) = Turn(C, j - 1, l)
        BY <4>1 DEF at
      <4> DEFINE i1 == i - 1
                 j1 == j - 1
      <4>3. i1 = j1 /\ k = l
        <5>1. Turn(C, i1, k) = Turn(C, j1, l) /\ i1 \in Nat \ {0} /\ j1 \in Nat \ {0}
          BY <2>2, <3>2, <4>2
        <5> HIDE DEF i1, j1
        <5> QED
          BY <1>1, <5>1, TurnsOnce
      <4> QED
        BY <2>2, <3>2, <4>3
    <3> QED
      BY <1>9, <3>1, <3>2
  <2> QED
    BY <1>9, <2>1, <2>2
<1>11. ASSUME NEW x \in Ids PROVE \E k \in 1 .. C : \E i \in 1 .. Len(s[k]) : s[k][i] = x
  <2>1. CASE files[x].size < Floor
    <3>1. PICK a \in 1 .. Len(SmallIds) : SmallIds[a] = x
      BY <1>5, <2>1
    <3>2. a \in Nat \ {0} /\ a <= Len(SmallIds)
      BY <1>1
    <3>3. PICK k \in 1 .. C : \E j \in Nat \ {0} : Turn(C, j, k) = a
      BY <1>1, <3>2, TurnsAll
    <3>4. PICK j \in Nat \ {0} : Turn(C, j, k) = a
      BY <3>3
    <3>5. j \in 1 .. Len(SmallsOf(k))
      BY <1>7, <3>2, <3>4
    <3>6. SmallsOf(k)[j] = x
      BY <1>7, <3>1, <3>4, <3>5
    <3>7. j + 1 \in 1 .. Len(s[k]) /\ s[k][j + 1] = SmallsOf(k)[j]
      BY <1>8, <3>5
    <3> QED
      BY <3>6, <3>7
  <2>2. CASE ~(files[x].size < Floor)
    <3>1. PICK k \in 1 .. C : Bigs[k] = x
      BY <1>4, <1>6, <2>2
    <3> QED
      BY <1>8, <3>1
  <2> QED
    BY <2>1, <2>2
<1>12. ASSUME NEW k \in 1 .. C, NEW i \in 1 .. Len(s[k]) PROVE s[k][i] \in Ids
  BY <1>4, <1>5, <1>9
<1>13. /\ FlattenSeq(s) \in Seq(Ids)
       /\ \A p, q \in 1 .. Len(FlattenSeq(s)) : FlattenSeq(s)[p] = FlattenSeq(s)[q] => p = q
       /\ \A x \in Ids : \E p \in 1 .. Len(FlattenSeq(s)) : FlattenSeq(s)[p] = x
  <2>1. NoneTwice(s)
    BY <1>2, <1>10 DEF NoneTwice
  <2>2. HoldsAll(s, Ids)
    BY <1>2, <1>11, <1>12 DEF HoldsAll
  <2>3. s \in Seq(Seq(Ids))
    BY <1>2
  <2> QED
    BY <2>1, <2>2, <2>3, FlattenBijection
<1> QED
  BY <1>3, <1>13 DEF Lists1
-----------------------------------------------------------------------------
(* What a segment appends *)

OwnSlices == {s \in SliceSet : s.id \in Ids}

(* The header that rides at the end of the segment before its own. *)
HeaderBytes(k) == Bytes(Header(Bigs[k]))
Carried(k) == IF k = Len(Bigs) THEN <<>> ELSE HeaderBytes(k + 1)
TailBytes(k) == Data(SmallsOf(k)) \o Carried(k)

LEMMA HeaderBytesIn ==
  ASSUME files \in Lists, NEW k \in 1 .. Len(Bigs)
  PROVE  /\ HeaderBytes(k) \in Seq(AnyByte) /\ Len(HeaderBytes(k)) = files[Bigs[k]].header
         /\ Bytes(Body(Bigs[k])) \in Seq(AnyByte) /\ Len(Bytes(Body(Bigs[k]))) = files[Bigs[k]].size
         /\ Entry(Bigs[k]) = HeaderBytes(k) \o Bytes(Body(Bigs[k]))
<1>1. Bigs[k] \in Ids
  BY BigsAre
<1>2. Header(Bigs[k]) \in SliceSet /\ SliceLen(Header(Bigs[k])) = files[Bigs[k]].header
  BY <1>1, HeaderIn
<1>3. Body(Bigs[k]) \in SliceSet /\ SliceLen(Body(Bigs[k])) = files[Bigs[k]].size
  BY <1>1, BodyIn
<1> QED
  BY <1>2, <1>3, BytesType DEF HeaderBytes, Entry

LEMMA CarriedIs ==
  ASSUME files \in Lists, NEW k \in 1 .. Len(Bigs)
  PROVE  LET t == IF k = Count THEN <<>> ELSE <<Header(Bigs[k + 1])>> IN
         /\ t \in Seq(OwnSlices) /\ t \in Seq(SliceSet) /\ EachJoined(BytesOf, t) = Carried(k)
         /\ Carried(k) \in Seq(AnyByte)
<1>1. CASE k = Len(Bigs)
  BY <1>1, EachEmpty DEF Carried, Count
<1>2. CASE k # Len(Bigs)
  <2>1. k + 1 \in 1 .. Len(Bigs)
    BY <1>2, BigsAre
  <2>2. Bigs[k + 1] \in Ids
    BY <2>1, BigsAre
  <2> DEFINE h == Header(Bigs[k + 1])
  <2>3. h \in SliceSet /\ h.id = Bigs[k + 1]
    BY <2>2, HeaderIn DEF Header
  <2>4. Bytes(h) = Carried(k) /\ Bytes(h) \in Seq(AnyByte)
    BY <1>2, <2>3, BytesType DEF Carried, HeaderBytes
  <2>h. (IF k = Count THEN <<>> ELSE <<Header(Bigs[k + 1])>>) = <<h>>
    BY <1>2 DEF Count
  <2> HIDE DEF h
  <2>5. <<h>> \in Seq(OwnSlices) /\ <<h>> \in Seq(SliceSet)
    BY <2>2, <2>3 DEF OwnSlices
  <2>6. EachJoined(BytesOf, <<h>>) = Carried(k)
    BY <2>3, <2>4, EachOne, BytesMaps
  <2> QED
    BY <2>4, <2>5, <2>6, <2>h
<1> QED
  BY <1>1, <1>2

LEMMA PiecesAre ==
  ASSUME files \in Lists, NEW k \in 1 .. Len(Bigs)
  PROVE  /\ Pieces(k) \in Seq(SliceSet) /\ Pieces(k) \in Seq(OwnSlices)
         /\ EachJoined(BytesOf, Pieces(k)) = TailBytes(k) /\ TailBytes(k) \in Seq(AnyByte)
         /\ Data(SmallsOf(k)) \in Seq(AnyByte) /\ Carried(k) \in Seq(AnyByte)
<1> DEFINE b == SmallsOf(k)
           w == [i \in DOMAIN b |-> <<Header(b[i]), Body(b[i])>>]
           a == FlattenSeq(w)
           t == IF k = Count THEN <<>> ELSE <<Header(Bigs[k + 1])>>
<1>1. b \in Seq(Ids) /\ Len(b) \in Nat /\ DOMAIN b = 1 .. Len(b)
  BY DealtAre
<1>2. a \in Seq(SliceSet) /\ EachJoined(BytesOf, a) = EachJoined(EntryOf, b)
  <2> HIDE DEF b
  <2> QED
    BY <1>1, WholesBytes
<1>3. a \in Seq(OwnSlices)
  <2> HIDE DEF b
  <2>1. ASSUME NEW i \in 1 .. Len(b) PROVE <<Header(b[i]), Body(b[i])>> \in Seq(OwnSlices)
    <3>1. b[i] \in Ids
      BY <1>1, ElementOfSeq
    <3>2. Header(b[i]) \in SliceSet /\ Header(b[i]).id = b[i]
      BY <3>1, HeaderIn DEF Header
    <3>3. Body(b[i]) \in SliceSet /\ Body(b[i]).id = b[i]
      BY <3>1, BodyIn DEF Body, BodySlice
    <3>4. Header(b[i]) \in OwnSlices /\ Body(b[i]) \in OwnSlices
      BY <3>1, <3>2, <3>3 DEF OwnSlices
    <3> QED
      BY <3>4
  <2>2. w \in [1 .. Len(b) -> Seq(OwnSlices)]
    BY <1>1, <2>1
  <2>3. w \in Seq(Seq(OwnSlices))
    <3> HIDE DEF w
    <3> QED
      BY <1>1, <2>2, FunctionSeq
  <2> HIDE DEF w
  <2> QED
    BY <2>3, FlattenType
<1>4. /\ t \in Seq(OwnSlices) /\ t \in Seq(SliceSet) /\ EachJoined(BytesOf, t) = Carried(k)
      /\ Carried(k) \in Seq(AnyByte)
  BY CarriedIs
<1>5. Pieces(k) = a \o t
  BY DEF Pieces, PiecesAlone
<1>6. EachJoined(EntryOf, b) = Data(b) /\ Data(b) \in Seq(AnyByte)
  BY <1>1, DataType DEF Data
<1> HIDE DEF a, t, b
<1>7. a \o t \in Seq(SliceSet) /\ EachJoined(BytesOf, a \o t) = EachJoined(BytesOf, a) \o EachJoined(BytesOf, t)
  BY <1>2, <1>4, JoinedSlices
<1>8. a \o t \in Seq(OwnSlices)
  BY <1>3, <1>4, ConcatProperties
<1> DEFINE D == Data(b)
           N == Carried(k)
<1>9. D \o N \in Seq(AnyByte)
  <2>1. D \in Seq(AnyByte) /\ N \in Seq(AnyByte)
    BY <1>4, <1>6
  <2> HIDE DEF D, N
  <2> QED
    BY <2>1, ConcatProperties
<1>10. TailBytes(k) = D \o N
  BY DEF TailBytes, b
<1>11. EachJoined(BytesOf, Pieces(k)) = D \o N
  BY <1>2, <1>4, <1>5, <1>6, <1>7
<1> QED
  BY <1>4, <1>5, <1>6, <1>7, <1>8, <1>9, <1>10, <1>11 DEF b

(* The plan adds up the lengths of the slices. *)
LEMMA PiecesSum ==
  ASSUME NEW p \in Seq(SliceSet)
  PROVE  SumFunction([n \in DOMAIN p |-> SliceLen(p[n])]) = Len(EachJoined(BytesOf, p))
<1> DEFINE e == Each(BytesOf, p)
           f == [n \in DOMAIN p |-> SliceLen(p[n])]
<1>1. Maps(BytesOf, SliceSet, Seq(AnyByte)) /\ \A s \in SliceSet : BytesOf[s] = Bytes(s)
  BY BytesMaps
<1>2. /\ e \in Seq(Seq(AnyByte)) /\ Len(e) = Len(p)
      /\ \A n \in 1 .. Len(p) : e[n] = BytesOf[p[n]]
  BY <1>1, EachType
<1>3. Len(p) \in Nat /\ DOMAIN p = 1 .. Len(p) /\ \A n \in 1 .. Len(p) : p[n] \in SliceSet
  BY LenProperties, ElementOfSeq
<1>4. \A n \in 1 .. Len(p) : f[n] = Len(e[n])
  <2>1. ASSUME NEW n \in 1 .. Len(p) PROVE f[n] = Len(e[n])
    <3>1. p[n] \in SliceSet /\ f[n] = SliceLen(p[n])
      BY <1>3
    <3>2. Len(Bytes(p[n])) = SliceLen(p[n])
      BY <3>1, BytesType
    <3>3. e[n] = Bytes(p[n])
      BY <1>1, <1>2, <3>1
    <3> QED
      BY <3>1, <3>2, <3>3
  <2> QED
    BY <2>1
<1>5. DOMAIN f = 1 .. Len(p)
  BY <1>3
<1>6. SumFunction(f) = SumFunctionOnSet(f, 1 .. Len(p))
  BY <1>5 DEF SumFunction
<1> HIDE DEF e, f
<1>7. Len(FlattenSeq(e)) = SumFunctionOnSet(f, 1 .. Len(e))
  BY <1>2, <1>4, FlattenSum
<1> QED
  BY <1>2, <1>6, <1>7 DEF e, f, EachJoined
-----------------------------------------------------------------------------
(* A chain of links *)

(* What the links of one segment add, one after another. *)
OwnOf(anchor, links) == [n \in DOMAIN links |-> LinkBytes(anchor, links[n])]

(* A link that starts an object, and what may follow it. *)
StartsChain(anchor, f, crcs) ==
  /\ f.first \in {"bootstrap", "anchor"}
  /\ f.append = <<>> \/ (f.append = <<f.append[1]>> /\ f.append[1] \in SliceSet)
  /\ f.append = <<>> => f.first = "anchor"
  /\ f.append # <<>> /\ f.append[1].of = "header" => f.append[1].id \in crcs
  /\ Base(anchor, f) \in Seq(AnyByte) /\ Len(Base(anchor, f)) >= Floor

LEMMA AddedType ==
  ASSUME NEW l, l.append = <<>> \/ (l.append = <<l.append[1]>> /\ l.append[1] \in SliceSet)
  PROVE  /\ Added(l) \in Seq(AnyByte)
         /\ l.append # <<>> => Added(l) = Bytes(l.append[1]) /\ l.append[1] \in SliceSet
<1>1. CASE l.append = <<>>
  BY <1>1 DEF Added
<1>2. CASE l.append # <<>>
  <2>1. l.append[1] \in SliceSet
    BY <1>2
  <2> QED
    BY <1>2, <2>1, BytesType DEF Added
<1> QED
  BY <1>1, <1>2

LEMMA FirstAdds ==
  ASSUME NEW anchor, NEW f, NEW crcs, StartsChain(anchor, f, crcs)
  PROVE  /\ LinkBytes(anchor, f) = Base(anchor, f) \o Added(f) /\ LinkBytes(anchor, f) \in Seq(AnyByte)
         /\ Len(LinkBytes(anchor, f)) >= Floor \/ Floor \notin Int
<1> DEFINE b == Base(anchor, f)
           a == Added(f)
<1>1. f.first # "previous" /\ b \in Seq(AnyByte) /\ Len(b) >= Floor
  BY DEF StartsChain
<1>2. a \in Seq(AnyByte)
  BY AddedType DEF StartsChain
<1>3. LinkBytes(anchor, f) = b \o a
  BY <1>1 DEF LinkBytes
<1> HIDE DEF b, a
<1>4. b \o a \in Seq(AnyByte) /\ Len(b \o a) = Len(b) + Len(a) /\ Len(a) \in Nat /\ Len(b) \in Nat
  BY <1>1, <1>2, ConcatProperties, LenProperties
<1>5. Len(b \o a) >= Floor \/ Floor \notin Int
  BY <1>1, <1>4
<1> QED
  BY <1>3, <1>4, <1>5 DEF b, a

LEMMA ForwardIs ==
  ASSUME NEW r \in Seq(SliceSet)
  PROVE  /\ Len(Forward(r)) = Len(r) /\ Len(r) \in Nat /\ DOMAIN Forward(r) = 1 .. Len(r)
         /\ \A n \in 1 .. Len(r) :
              /\ Forward(r)[n].first = "previous" /\ Forward(r)[n].append = <<r[n]>> /\ r[n] \in SliceSet
              /\ \A anchor : LinkBytes(anchor, Forward(r)[n]) = Bytes(r[n])
<1>1. Len(r) \in Nat /\ DOMAIN r = 1 .. Len(r) /\ \A n \in 1 .. Len(r) : r[n] \in SliceSet
  BY LenProperties, ElementOfSeq
<1>2. Forward(r) = [n \in 1 .. Len(r) |-> Appends("previous", <<r[n]>>)]
  BY <1>1 DEF Forward
<1>3. Len(Forward(r)) = Len(r) /\ DOMAIN Forward(r) = 1 .. Len(r)
  BY <1>1, <1>2
<1>4. ASSUME NEW n \in 1 .. Len(r)
      PROVE  /\ Forward(r)[n].first = "previous" /\ Forward(r)[n].append = <<r[n]>>
             /\ \A anchor : LinkBytes(anchor, Forward(r)[n]) = Bytes(r[n])
  <2> DEFINE l == Forward(r)[n]
             B == Bytes(r[n])
  <2>1. l.first = "previous" /\ l.append = <<r[n]>>
    BY <1>2 DEF Appends
  <2>2. B \in Seq(AnyByte)
    BY <1>1, BytesType
  <2>3. Added(l) = B
    BY <2>1 DEF Added
  <2> HIDE DEF l, B
  <2>4. <<>> \o B = B
    BY <2>2, ConcatEmptySeq
  <2>5. \A anchor : LinkBytes(anchor, l) = <<>> \o Added(l)
    BY <2>1 DEF LinkBytes
  <2> QED
    BY <2>1, <2>3, <2>4, <2>5 DEF l, B
<1> QED
  BY <1>1, <1>3, <1>4

LinkChain(anchor, f, r, links) ==
  /\ Len(links) = Len(r) + 1 /\ Len(r) \in Nat /\ DOMAIN links = 1 .. Len(links)
  /\ links[1] = f
  /\ \A n \in 1 .. Len(links) : n # 1 =>
       /\ n - 1 \in 1 .. Len(r) /\ r[n - 1] \in SliceSet
       /\ links[n].first = "previous" /\ links[n].append = <<r[n - 1]>>
  /\ LinkBytes(anchor, f) \in Seq(AnyByte) =>
       /\ OwnOf(anchor, links) \in Seq(Seq(AnyByte)) /\ Len(OwnOf(anchor, links)) = Len(links)
       /\ \A n \in 1 .. Len(links) : OwnOf(anchor, links)[n] = LinkBytes(anchor, links[n])
       /\ FlattenSeq(OwnOf(anchor, links)) = LinkBytes(anchor, f) \o EachJoined(BytesOf, r)

LEMMA LinksAre ==
  ASSUME NEW anchor, NEW f, NEW r \in Seq(SliceSet), NEW links, links = OneMore(f, Forward(r))
  PROVE  LinkChain(anchor, f, r, links)
<1> DEFINE w == Forward(r)
           T == {f} \cup {w[n] : n \in 1 .. Len(r)}
           e == Each(BytesOf, r)
           o == OwnOf(anchor, links)
<1>1. /\ Len(w) = Len(r) /\ Len(r) \in Nat /\ DOMAIN w = 1 .. Len(r)
      /\ \A n \in 1 .. Len(r) :
           /\ w[n].first = "previous" /\ w[n].append = <<r[n]>> /\ r[n] \in SliceSet
           /\ LinkBytes(anchor, w[n]) = Bytes(r[n])
  BY ForwardIs
<1>2. f \in T /\ w \in Seq(T)
  <2>1. w = [n \in 1 .. Len(r) |-> w[n]]
    BY <1>1 DEF Forward
  <2> HIDE DEF w
  <2>2. w \in [1 .. Len(r) -> T]
    BY <2>1
  <2> HIDE DEF T
  <2>3. w \in Seq(T)
    BY <1>1, <2>2, FunctionSeq
  <2> QED
    BY <2>3 DEF T
<1>3. links = OneMore(f, w)
  OBVIOUS
<1> HIDE DEF w, T
<1>4. /\ links \in Seq(T) /\ Len(links) = Len(w) + 1 /\ links[1] = f
      /\ \A i \in 1 .. Len(w) : i + 1 \in 1 .. Len(links) /\ links[i + 1] = w[i]
      /\ \A i \in 1 .. Len(links) : i = 1 \/ (i - 1 \in 1 .. Len(w) /\ links[i] = w[i - 1])
  <2>1. Fronted(T, f, w, links)
    BY <1>2, <1>3, OneThen
  <2> QED
    BY <2>1 DEF Fronted
<1>5. DOMAIN links = 1 .. Len(links) /\ Len(links) = Len(r) + 1
  BY <1>1, <1>4, LenProperties
<1>6. ASSUME NEW n \in 1 .. Len(links), n # 1
      PROVE  /\ n - 1 \in 1 .. Len(r) /\ r[n - 1] \in SliceSet
             /\ links[n].first = "previous" /\ links[n].append = <<r[n - 1]>>
             /\ LinkBytes(anchor, links[n]) = Bytes(r[n - 1])
  BY <1>1, <1>4, <1>6
<1>7. ASSUME LinkBytes(anchor, f) \in Seq(AnyByte)
      PROVE  /\ o \in Seq(Seq(AnyByte)) /\ Len(o) = Len(links)
             /\ \A n \in 1 .. Len(links) : o[n] = LinkBytes(anchor, links[n])
             /\ FlattenSeq(o) = LinkBytes(anchor, f) \o EachJoined(BytesOf, r)
  <2> DEFINE B == LinkBytes(anchor, f)
  <2>1. /\ e \in Seq(Seq(AnyByte)) /\ Len(e) = Len(r)
        /\ \A n \in 1 .. Len(r) : e[n] = Bytes(r[n])
    <3>1. Maps(BytesOf, SliceSet, Seq(AnyByte)) /\ \A s \in SliceSet : BytesOf[s] = Bytes(s)
      BY BytesMaps
    <3>2. /\ e \in Seq(Seq(AnyByte)) /\ Len(e) = Len(r)
          /\ \A n \in 1 .. Len(r) : e[n] = BytesOf[r[n]]
      BY <3>1, EachType
    <3> QED
      BY <1>1, <3>1, <3>2
  <2>2. \A n \in 1 .. Len(links) : o[n] = LinkBytes(anchor, links[n])
    BY <1>5 DEF OwnOf
  <2>3. o = [n \in 1 .. Len(links) |-> o[n]]
    BY <1>5 DEF OwnOf
  <2>b. B = LinkBytes(anchor, links[1]) /\ B \in Seq(AnyByte)
    BY <1>4, <1>7
  <2> HIDE DEF e, o, B
  <2>4. \A n \in 1 .. Len(links) : o[n] \in Seq(AnyByte)
    <3>1. ASSUME NEW n \in 1 .. Len(links) PROVE o[n] \in Seq(AnyByte)
      <4>1. CASE n = 1
        BY <2>2, <2>b, <4>1
      <4>2. CASE n # 1
        <5>1. r[n - 1] \in SliceSet /\ LinkBytes(anchor, links[n]) = Bytes(r[n - 1])
          BY <1>6, <4>2
        <5>2. Bytes(r[n - 1]) \in Seq(AnyByte)
          BY <5>1, BytesType
        <5> QED
          BY <2>2, <5>1, <5>2
      <4> QED
        BY <4>1, <4>2
    <3> QED
      BY <3>1
  <2>5. o \in Seq(Seq(AnyByte)) /\ Len(o) = Len(links)
    <3> DEFINE m == Len(links)
               S == Seq(AnyByte)
    <3>a. m \in Nat
      BY <1>1, <1>5
    <3>b. o = [n \in 1 .. m |-> o[n]]
      BY <2>3
    <3>c. \A n \in 1 .. m : o[n] \in S
      BY <2>4
    <3>1. m \in Nat /\ o = [n \in 1 .. m |-> o[n]] /\ \A n \in 1 .. m : o[n] \in S
      BY <3>a, <3>b, <3>c
    <3> HIDE DEF m, S
    <3>2. o \in [1 .. m -> S]
      BY <3>1
    <3>3. o \in Seq(S) /\ Len(o) = m
      BY <3>1, <3>2, FunctionSeq
    <3> QED
      BY <3>3 DEF m, S
  <2> DEFINE u == <<B>>
             v == u \o e
  <2>6. u \in Seq(Seq(AnyByte)) /\ FlattenSeq(u) = B
    BY <2>b, FlattenOne
  <2>7. /\ v \in Seq(Seq(AnyByte)) /\ Len(v) = Len(e) + 1 /\ v[1] = B
        /\ \A i \in 1 .. Len(v) : i = 1 \/ (i - 1 \in 1 .. Len(e) /\ v[i] = e[i - 1])
    <3>1. v = OneMore(B, e)
      BY DEF OneMore
    <3> HIDE DEF u, v
    <3> QED
      BY <2>1, <2>b, <3>1, OneThen DEF Fronted
  <2>8. FlattenSeq(v) = B \o FlattenSeq(e)
    <3> HIDE DEF u
    <3>1. FlattenSeq(u \o e) = FlattenSeq(u) \o FlattenSeq(e)
      BY <2>1, <2>6, FlattenConcat
    <3> QED
      BY <2>6, <3>1
  <2> HIDE DEF v
  <2>9. o = v
    <3>1. Len(o) = Len(v)
      BY <1>5, <2>1, <2>5, <2>7
    <3>2. ASSUME NEW i \in 1 .. Len(o) PROVE o[i] = v[i]
      <4>0. i \in 1 .. Len(links) /\ i \in 1 .. Len(v)
        BY <2>5, <3>1
      <4>1. CASE i = 1
        BY <2>2, <2>7, <2>b, <4>0, <4>1
      <4>2. CASE i # 1
        <5>1. o[i] = Bytes(r[i - 1]) /\ i - 1 \in 1 .. Len(r)
          BY <1>6, <2>2, <4>0, <4>2
        <5>2. v[i] = e[i - 1]
          BY <2>7, <4>0, <4>2
        <5> QED
          BY <2>1, <5>1, <5>2
      <4> QED
        BY <4>1, <4>2
    <3> QED
      BY <2>5, <2>7, <3>1, <3>2, SeqEqual
  <2> QED
    BY <2>2, <2>5, <2>8, <2>9 DEF B, e, EachJoined
<1> QED
  BY <1>1, <1>4, <1>5, <1>6, <1>7 DEF LinkChain, o
-----------------------------------------------------------------------------
(* Every link of a segment can be built *)

NeedsIn(s, crcs) == s.of = "header" => s.id \in crcs

LEMMA FirstFits ==
  ASSUME NEW k, NEW f, plan.segments[k].links[1] = f,
         StartsChain(plan.segments[k].anchor, f, plan.segments[k].crcs),
         Built(k, 1) = LinkBytes(plan.segments[k].anchor, f)
  PROVE  LinkFits(k, 1)
<1> DEFINE a == plan.segments[k].anchor
           c == plan.segments[k].crcs
<1>1. LinkOf(k, 1) = f
  BY DEF LinkOf
<1>2. StartsChain(a, f, c)
  OBVIOUS
<1> HIDE DEF a, c
<1>3. LinkBytes(a, f) = Base(a, f) \o Added(f)
  BY <1>2, FirstAdds
<1>4. /\ f.first \in {"bootstrap", "anchor"}
      /\ f.append = <<>> \/ (f.append = <<f.append[1]>> /\ f.append[1] \in SliceSet)
      /\ f.append = <<>> => f.first = "anchor"
      /\ f.append # <<>> /\ f.append[1].of = "header" => f.append[1].id \in c
      /\ Base(a, f) \in Seq(AnyByte) /\ Len(Base(a, f)) >= Floor
  BY <1>2 DEF StartsChain
<1>5. FirstBytes(k, 1) = Base(a, f)
  BY <1>1, <1>4 DEF FirstBytes, a
<1>6. FirstBytes(k, 1) \o Added(f) = Built(k, 1)
  BY <1>3, <1>5 DEF a
<1>7. FirstBytes(k, 1) \in Seq(AnyByte) /\ Len(FirstBytes(k, 1)) >= Floor
  BY <1>4, <1>5
<1>8. f.first \in {"bootstrap", "anchor", "previous"} /\ (f.first = "previous" <=> 1 # 1)
  BY <1>4
<1> QED
  BY <1>1, <1>4, <1>6, <1>7, <1>8 DEF LinkFits, c

LEMMA NextFits ==
  ASSUME NEW k, NEW n, n # 1, NEW s \in SliceSet,
         LinkOf(k, n).first = "previous", LinkOf(k, n).append = <<s>>, NeedsIn(s, plan.segments[k].crcs),
         NEW b \in Seq(AnyByte), b = Built(k, n - 1), Len(b) >= Floor, Built(k, n) = b \o Bytes(s)
  PROVE  LinkFits(k, n)
<1> DEFINE l == LinkOf(k, n)
<1>1. l.first = "previous" /\ l.append = <<s>>
  OBVIOUS
<1>2. FirstBytes(k, n) = b
  BY DEF FirstBytes
<1>3. l.append[1] = s /\ l.append # <<>>
  BY <1>1
<1>4. Added(l) = Bytes(s)
  BY <1>3 DEF Added
<1>5. FirstBytes(k, n) \in Seq(AnyByte) /\ FirstBytes(k, n) \o Added(l) = Built(k, n) /\ Len(FirstBytes(k, n)) >= Floor
  BY <1>2, <1>4
<1>6. l.append[1].of = "header" => l.append[1].id \in plan.segments[k].crcs
  BY <1>3 DEF NeedsIn
<1>7. l.append = <<l.append[1]>> /\ l.append[1] \in SliceSet
  BY <1>1, <1>3
<1> HIDE DEF l
<1> QED
  BY <1>1, <1>3, <1>5, <1>6, <1>7 DEF LinkFits, l

LEMMA LinksFit ==
  ASSUME NEW k, NEW f, NEW r \in Seq(SliceSet), plan.segments[k].links = OneMore(f, Forward(r)),
         StartsChain(plan.segments[k].anchor, f, plan.segments[k].crcs),
         \A n \in 1 .. Len(r) : NeedsIn(r[n], plan.segments[k].crcs)
  PROVE  /\ LinkCount(k) \in Nat \ {0} /\ DOMAIN plan.segments[k].links = 1 .. LinkCount(k)
         /\ \A n \in 1 .. LinkCount(k) : LinkFits(k, n)
         /\ ObjectOf(k) \in Seq(AnyByte) /\ Built(k, LinkCount(k)) = ObjectOf(k)
         /\ ObjectOf(k) = LinkBytes(plan.segments[k].anchor, f) \o EachJoined(BytesOf, r)
<1> DEFINE a == plan.segments[k].anchor
           c == plan.segments[k].crcs
           links == plan.segments[k].links
           B == LinkBytes(a, f)
           o == OwnOf(a, links)
<1>1. StartsChain(a, f, c) /\ links = OneMore(f, Forward(r)) /\ \A n \in 1 .. Len(r) : NeedsIn(r[n], c)
  OBVIOUS
<1>2. LinkCount(k) = Len(links) /\ OwnBytes(k) = o
  BY DEF LinkCount, OwnBytes, OwnOf, LinkOf
<1>n. \A n : LinkOf(k, n) = links[n]
  BY DEF LinkOf
<1>f. Floor \in Nat
  BY FilesAssumption
<1> HIDE DEF a, c, links
<1>3. B \in Seq(AnyByte) /\ Len(B) >= Floor
  BY <1>1, <1>f, FirstAdds
<1> DEFINE e == EachJoined(BytesOf, r)
<1>4. /\ Len(links) = Len(r) + 1 /\ Len(r) \in Nat /\ DOMAIN links = 1 .. Len(links)
      /\ links[1] = f
      /\ \A n \in 1 .. Len(links) : n # 1 =>
           /\ n - 1 \in 1 .. Len(r) /\ r[n - 1] \in SliceSet
           /\ links[n].first = "previous" /\ links[n].append = <<r[n - 1]>>
      /\ B \in Seq(AnyByte) =>
           /\ o \in Seq(Seq(AnyByte)) /\ Len(o) = Len(links)
           /\ \A n \in 1 .. Len(links) : o[n] = LinkBytes(a, links[n])
           /\ FlattenSeq(o) = B \o e
  <2>1. LinkChain(a, f, r, links)
    BY <1>1, LinksAre
  <2> QED
    BY <2>1 DEF LinkChain
<1> HIDE DEF o, e
<1>5. /\ o \in Seq(Seq(AnyByte)) /\ Len(o) = Len(links)
      /\ \A n \in 1 .. Len(links) : o[n] = LinkBytes(a, links[n])
      /\ FlattenSeq(o) = B \o e
  BY <1>3, <1>4
<1>6. o[1] = B /\ 1 \in 1 .. Len(o)
  BY <1>4, <1>5
<1> HIDE DEF B
<1>7. Before(o, 1) = <<>> /\ Before(o, Len(o) + 1) = FlattenSeq(o)
  BY <1>5, BeforeEnds
<1>8. \A n : Built(k, n) = Before(o, n + 1)
  BY <1>2 DEF Built
<1>9. Built(k, 1) = B
  <2>1. Before(o, 1 + 1) = Before(o, 1) \o o[1]
    BY <1>5, <1>6, BeforeStep
  <2>2. <<>> \o B = B
    BY <1>3, ConcatEmptySeq
  <2> QED
    BY <1>6, <1>7, <1>8, <2>1, <2>2
<1>10. ASSUME NEW n \in 1 .. Len(links) PROVE LinkFits(k, n)
  <2>1. CASE n = 1
    BY <1>1, <1>4, <1>9, <2>1, FirstFits DEF a, c, links, B
  <2>2. CASE n # 1
    <3> DEFINE s == r[n - 1]
               b == Before(o, n)
    <3>1. s \in SliceSet /\ links[n].first = "previous" /\ links[n].append = <<s>> /\ n - 1 \in 1 .. Len(r)
      BY <1>4, <2>2
    <3>2. o[n] = Bytes(s)
      <4>1. o[n] = LinkBytes(a, links[n])
        BY <1>5
      <4>2. Bytes(s) \in Seq(AnyByte)
        BY <3>1, BytesType
      <4>3. Added(links[n]) = Bytes(s)
        BY <3>1 DEF Added
      <4>4. LinkBytes(a, links[n]) = <<>> \o Added(links[n])
        BY <3>1 DEF LinkBytes
      <4>5. <<>> \o Bytes(s) = Bytes(s)
        BY <4>2, ConcatEmptySeq
      <4> QED
        BY <4>1, <4>3, <4>4, <4>5
    <3>3. n \in 1 .. Len(o)
      BY <1>5
    <3>4. b \in Seq(AnyByte) /\ Before(o, n + 1) = b \o o[n]
      BY <1>5, <3>3, BeforeStep
    <3>5. Len(b) >= Floor
      <4>1. 1 < n
        BY <1>4, <2>2
      <4>2. Starts(o, 1) + Len(o[1]) <= Starts(o, n)
        BY <1>5, <1>6, <3>3, <4>1, StartsOrdered
      <4>3. Starts(o, 1) = 0
        BY <1>5, BeforeEnds
      <4>4. Len(B) \in Nat /\ Len(b) \in Nat
        BY <1>3, <3>4, LenProperties
      <4> QED
        BY <1>3, <1>6, <1>f, <4>2, <4>3, <4>4 DEF Starts
    <3>6. NeedsIn(s, c)
      BY <1>1, <3>1
    <3>7. b = Built(k, n - 1) /\ Built(k, n) = b \o Bytes(s)
      <4>1. n \in Nat
        BY <1>4
      <4>2. (n - 1) + 1 = n
        BY <4>1
      <4> QED
        BY <1>8, <3>2, <3>4, <4>2
    <3>8. LinkOf(k, n).first = "previous" /\ LinkOf(k, n).append = <<s>>
      BY <1>n, <3>1
    <3> HIDE DEF s, b
    <3> QED
      BY <2>2, <3>1, <3>4, <3>5, <3>6, <3>7, <3>8, NextFits DEF c
  <2> QED
    BY <2>1, <2>2
<1>11. FlattenSeq(o) = ObjectOf(k) /\ ObjectOf(k) \in Seq(AnyByte)
  <2>1. FlattenSeq(o) \in Seq(AnyByte)
    BY <1>5, FlattenType
  <2> QED
    BY <1>2, <2>1 DEF ObjectOf
<1>12. Built(k, LinkCount(k)) = ObjectOf(k)
  BY <1>2, <1>5, <1>7, <1>8, <1>11
<1>13. LinkCount(k) \in Nat \ {0}
  BY <1>2, <1>4
<1>14. ObjectOf(k) = B \o e
  BY <1>5, <1>11
<1> QED
  BY <1>2, <1>4, <1>10, <1>11, <1>12, <1>13, <1>14 DEF a, links, B, e
-----------------------------------------------------------------------------
(* The segments of the plan *)

Opening(k) == IF k = 1 THEN Entry(Bigs[1]) ELSE Bytes(Body(Bigs[k]))

SegmentOf(k) == [anchor |-> Bigs[k], links |-> Links(k), length |-> ObjectLen(k), crcs |-> CrcIds(k)]

(* A first link and the pieces that ride on it. *)
ChainsInto(k, f, r) ==
  /\ r \in Seq(SliceSet) /\ Links(k) = OneMore(f, Forward(r))
  /\ StartsChain(Bigs[k], f, CrcIds(k)) /\ \A n \in 1 .. Len(r) : NeedsIn(r[n], CrcIds(k))
  /\ LinkBytes(Bigs[k], f) \o EachJoined(BytesOf, r) = Opening(k) \o TailBytes(k)

LEMMA CrcsAre ==
  ASSUME files \in Lists, NEW k \in 1 .. Len(Bigs)
  PROVE  /\ Bigs[k] \in CrcIds(k) /\ CrcIds(k) \subseteq Ids
         /\ \A n \in 1 .. Len(Pieces(k)) : NeedsIn(Pieces(k)[n], CrcIds(k))
<1> DEFINE p == Pieces(k)
<1>1. p \in Seq(OwnSlices)
  BY PiecesAre
<1>2. Bigs[k] \in Ids
  BY BigsAre
<1>3. CrcIds(k) = {Bigs[k]} \cup {p[n].id : n \in DOMAIN p}
  BY DEF CrcIds
<1> HIDE DEF p
<1>4. DOMAIN p = 1 .. Len(p) /\ \A n \in 1 .. Len(p) : p[n] \in OwnSlices
  BY <1>1, LenProperties, ElementOfSeq
<1>5. \A n \in 1 .. Len(p) : p[n].id \in Ids
  BY <1>4 DEF OwnSlices
<1>6. \A n \in 1 .. Len(p) : NeedsIn(p[n], CrcIds(k))
  BY <1>3, <1>4 DEF NeedsIn
<1>7. CrcIds(k) \subseteq Ids
  BY <1>2, <1>3, <1>4, <1>5
<1> QED
  BY <1>3, <1>6, <1>7 DEF p

(* The first object of the archive has no header to ride on but its own: its  *)
(* first part steals enough of the body to reach the floor.                   *)
LEMMA StealIs ==
  ASSUME files \in Lists, Len(Bigs) # 0
  PROVE  /\ StealLen \in Nat /\ StealLen <= files[Bigs[1]].size
         /\ files[Bigs[1]].header + StealLen >= Floor
<1> DEFINE h == files[Bigs[1]].header
           z == files[Bigs[1]].size
<1>0. 1 \in 1 .. Len(Bigs)
  BY BigsAre
<1>1. Bigs[1] \in Ids /\ z >= Floor
  BY <1>0, BigsAre
<1>2. h \in Nat \ {0} /\ z \in Nat /\ Floor \in Nat /\ h < Floor
  BY <1>1, FilesFacts
<1>3. StealLen = Max({0, Floor - h})
  BY DEF StealLen
<1> HIDE DEF h, z
<1>4. 0 \in Int /\ Floor - h \in Int
  BY <1>2
<1>5. StealLen \in {0, Floor - h} /\ StealLen >= 0 /\ StealLen >= Floor - h
  BY <1>3, <1>4, MaxOfTwo
<1> QED
  BY <1>1, <1>2, <1>5 DEF h, z

LEMMA FirstChain ==
  ASSUME files \in Lists, Len(Bigs) # 0
  PROVE  \E f : ChainsInto(1, f, Pieces(1))
<1> DEFINE big == Bigs[1]
           z == files[big].size
           q == BodySlice(big, StealLen, z)
           f == Appends("bootstrap", <<q>>)
           H == Bytes(Header(big))
           P == Bytes(BodySlice(big, 0, StealLen))
           Q == Bytes(q)
<1>0. 1 \in 1 .. Len(Bigs)
  BY BigsAre
<1>1. big \in Ids /\ z >= Floor /\ z \in Nat /\ Floor \in Nat
  BY <1>0, BigsAre, FilesFacts
<1>2. StealLen \in Nat /\ StealLen <= z /\ files[big].header + StealLen >= Floor
  BY StealIs
<1>3. q \in SliceSet /\ q.of = "body" /\ q.from = StealLen
  BY <1>1, <1>2, BodySliceIn DEF BodySlice
<1>4. f.first = "bootstrap" /\ f.append = <<q>> /\ f.append # <<>> /\ f.append[1] = q
  BY DEF Appends
<1>5. Base(big, f) = H \o P
  BY <1>3, <1>4 DEF Base
<1>6. H \in Seq(AnyByte) /\ Len(H) = files[big].header
  BY <1>1, HeaderIn, BytesType
<1>7. P \in Seq(AnyByte) /\ Len(P) = StealLen
  <2>1. BodySlice(big, 0, StealLen) \in SliceSet /\ SliceLen(BodySlice(big, 0, StealLen)) = StealLen - 0
    BY <1>1, <1>2, BodySliceIn
  <2>2. StealLen - 0 = StealLen
    BY <1>2
  <2> QED
    BY <2>1, <2>2, BytesType
<1>8. P \o Q = Bytes(Body(big))
  BY <1>1, <1>2, BodyCut
<1>9. Q \in Seq(AnyByte)
  BY <1>3, BytesType
<1>10. Entry(big) = H \o (P \o Q)
  BY <1>8 DEF Entry
<1>11. Links(1) = OneMore(f, Forward(Pieces(1)))
  BY DEF Links, OneMore
<1>12. Pieces(1) \in Seq(SliceSet) /\ EachJoined(BytesOf, Pieces(1)) = TailBytes(1)
  BY <1>0, PiecesAre
<1>13. \A n \in 1 .. Len(Pieces(1)) : NeedsIn(Pieces(1)[n], CrcIds(1))
  BY <1>0, CrcsAre
<1>14. Added(f) = Q
  BY <1>4 DEF Added
<1>h. files[big].header \in Nat
  BY <1>1, FilesFacts
<1> HIDE DEF q, f, H, P, Q
<1>15. H \o P \in Seq(AnyByte) /\ Len(H \o P) = Len(H) + Len(P)
  BY <1>6, <1>7, ConcatProperties
<1>16. Len(Base(big, f)) >= Floor /\ Base(big, f) \in Seq(AnyByte)
  BY <1>1, <1>2, <1>5, <1>6, <1>7, <1>15, <1>h
<1>17. StartsChain(big, f, CrcIds(1))
  BY <1>3, <1>4, <1>16 DEF StartsChain
<1>18. LinkBytes(big, f) = Base(big, f) \o Added(f)
  BY <1>17, FirstAdds
<1>19. LinkBytes(big, f) = (H \o P) \o Q
  BY <1>5, <1>14, <1>18
<1>20. Regroup(H, P, Q)
  BY <1>6, <1>7, <1>9, RegroupAny
<1>21. LinkBytes(big, f) = Opening(1)
  BY <1>10, <1>19, <1>20 DEF Regroup, Opening
<1> QED
  BY <1>11, <1>12, <1>13, <1>17, <1>21 DEF ChainsInto

(* A later one starts from the body of its big; its header was carried by the  *)
(* segment before.                                                             *)
LEMMA BodyStarts ==
  ASSUME files \in Lists, NEW k \in 1 .. Len(Bigs), NEW f, f.first = "anchor",
         f.append = <<>> \/ (f.append = <<f.append[1]>> /\ f.append[1] \in SliceSet),
         f.append # <<>> => NeedsIn(f.append[1], CrcIds(k))
  PROVE  StartsChain(Bigs[k], f, CrcIds(k)) /\ LinkBytes(Bigs[k], f) = Bytes(Body(Bigs[k])) \o Added(f)
<1>1. Base(Bigs[k], f) = Bytes(Body(Bigs[k]))
  BY DEF Base
<1>2. Bytes(Body(Bigs[k])) \in Seq(AnyByte) /\ Len(Bytes(Body(Bigs[k]))) = files[Bigs[k]].size
  BY HeaderBytesIn
<1>3. files[Bigs[k]].size >= Floor
  BY BigsAre
<1>4. StartsChain(Bigs[k], f, CrcIds(k))
  BY <1>1, <1>2, <1>3 DEF StartsChain, NeedsIn
<1> QED
  BY <1>1, <1>4, FirstAdds

LEMMA AloneChain ==
  ASSUME files \in Lists, NEW k \in 1 .. Len(Bigs), k # 1, Pieces(k) = <<>>
  PROVE  \E f : ChainsInto(k, f, <<>>)
<1> DEFINE f == Appends("anchor", <<>>)
           B == Bytes(Body(Bigs[k]))
           r == <<>>
<1>1. f.first = "anchor" /\ f.append = <<>>
  BY DEF Appends
<1>2. Links(k) = <<f>>
  BY DEF Links
<1>3. Forward(r) = <<>> /\ r \in Seq(SliceSet) /\ Len(r) = 0
  BY DEF Forward
<1>4. <<f>> \o <<>> = <<f>>
  OBVIOUS
<1>5. Links(k) = OneMore(f, Forward(r))
  BY <1>2, <1>3, <1>4 DEF OneMore
<1>6. EachJoined(BytesOf, r) = <<>> /\ TailBytes(k) = <<>>
  BY EachEmpty, PiecesAre
<1>7. B \in Seq(AnyByte)
  BY HeaderBytesIn
<1>8. Opening(k) = B
  BY DEF Opening
<1> HIDE DEF f, B
<1>9. StartsChain(Bigs[k], f, CrcIds(k)) /\ LinkBytes(Bigs[k], f) = B \o Added(f)
  BY <1>1, BodyStarts DEF B
<1>10. Added(f) = <<>> /\ B \o <<>> = B
  BY <1>1, <1>7, ConcatEmptySeq DEF Added
<1>11. LinkBytes(Bigs[k], f) \o EachJoined(BytesOf, r) = Opening(k) \o TailBytes(k)
  BY <1>6, <1>8, <1>9, <1>10
<1>12. \A n \in 1 .. Len(r) : NeedsIn(r[n], CrcIds(k))
  BY <1>3
<1>13. ChainsInto(k, f, r)
  <2> HIDE DEF r
  <2> QED
    BY <1>3, <1>5, <1>9, <1>11, <1>12 DEF ChainsInto
<1> QED
  BY <1>13

LEMMA RidingChain ==
  ASSUME files \in Lists, NEW k \in 1 .. Len(Bigs), k # 1, Pieces(k) # <<>>
  PROVE  \E f : ChainsInto(k, f, Tail(Pieces(k)))
<1> DEFINE p == Pieces(k)
           x == Head(p)
           r == Tail(p)
           f == Appends("anchor", <<x>>)
           B == Bytes(Body(Bigs[k]))
<1>1. f.first = "anchor" /\ f.append = <<x>> /\ f.append[1] = x /\ f.append # <<>>
  BY DEF Appends
<1>2. Links(k) = OneMore(f, Forward(r))
  BY DEF Links, OneMore
<1>3. p \in Seq(SliceSet) /\ EachJoined(BytesOf, p) = TailBytes(k) /\ p # <<>>
  BY PiecesAre
<1>4. \A n \in 1 .. Len(p) : NeedsIn(p[n], CrcIds(k))
  BY CrcsAre
<1>5. B \in Seq(AnyByte)
  BY HeaderBytesIn
<1>6. Opening(k) = B
  BY DEF Opening
<1> HIDE DEF p, f, B
<1>7. x \in SliceSet /\ r \in Seq(SliceSet) /\ p = OneMore(x, r)
  <2>1. x \in SliceSet /\ r \in Seq(SliceSet)
    BY <1>3, HeadTailProperties
  <2>2. p = <<x>> \o r
    BY <1>3
  <2> QED
    BY <2>1, <2>2 DEF OneMore
<1> HIDE DEF x, r
<1>8. Fronted(SliceSet, x, r, p)
  BY <1>7, OneThen
<1>9. NeedsIn(x, CrcIds(k)) /\ \A n \in 1 .. Len(r) : NeedsIn(r[n], CrcIds(k))
  <2>1. p[1] = x /\ 1 \in 1 .. Len(p)
    <3>1. p[1] = x /\ Len(p) = Len(r) + 1 /\ Len(r) \in Nat
      BY <1>7, <1>8, LenProperties DEF Fronted
    <3> QED
      BY <3>1
  <2>2. \A n \in 1 .. Len(r) : n + 1 \in 1 .. Len(p) /\ p[n + 1] = r[n]
    BY <1>8 DEF Fronted
  <2> QED
    BY <1>4, <2>1, <2>2
<1>10. StartsChain(Bigs[k], f, CrcIds(k)) /\ LinkBytes(Bigs[k], f) = B \o Added(f)
  BY <1>1, <1>7, <1>9, BodyStarts DEF B
<1> DEFINE X == Bytes(x)
           R == EachJoined(BytesOf, r)
<1>11. Added(f) = X
  BY <1>1 DEF Added
<1>12. X \in Seq(AnyByte)
  BY <1>7, BytesType
<1>13. R \in Seq(AnyByte)
  BY <1>7, JoinedType, BytesMaps
<1>14. X \o R = TailBytes(k)
  <2> DEFINE u == <<x>>
  <2>a. u \in Seq(SliceSet)
    BY <1>7
  <2>b. EachJoined(BytesOf, u) = BytesOf[x]
    BY <1>7, EachOne
  <2>c. BytesOf[x] = X
    BY <1>7, BytesMaps
  <2>1. u \in Seq(SliceSet) /\ EachJoined(BytesOf, u) = X
    BY <2>a, <2>b, <2>c
  <2>2. p = u \o r
    BY <1>7 DEF OneMore
  <2> HIDE DEF u
  <2>3. EachJoined(BytesOf, u \o r) = EachJoined(BytesOf, u) \o EachJoined(BytesOf, r)
    BY <1>7, <2>1, JoinedSlices
  <2> QED
    BY <1>3, <2>1, <2>2, <2>3
<1> HIDE DEF X, R
<1>15. Regroup(B, X, R)
  BY <1>5, <1>12, <1>13, RegroupAny
<1>16. LinkBytes(Bigs[k], f) \o R = Opening(k) \o TailBytes(k)
  BY <1>6, <1>10, <1>11, <1>14, <1>15 DEF Regroup
<1>17. ChainsInto(k, f, r)
  BY <1>2, <1>7, <1>9, <1>10, <1>16 DEF ChainsInto, R
<1> QED
  BY <1>17 DEF r, p

LEMMA ChainsExist ==
  ASSUME files \in Lists, NEW k \in 1 .. Len(Bigs)
  PROVE  \E f : \E r : ChainsInto(k, f, r)
<1>1. Len(Bigs) # 0
  BY BigsAre
<1>2. CASE k = 1
  BY <1>1, <1>2, FirstChain
<1>3. CASE k # 1 /\ Pieces(k) = <<>>
  BY <1>3, AloneChain
<1>4. CASE k # 1 /\ Pieces(k) # <<>>
  BY <1>4, RidingChain
<1> QED
  BY <1>2, <1>3, <1>4

LEMMA SegmentPlanned ==
  ASSUME files \in Lists, NEW k \in 1 .. Len(Bigs), plan.segments[k] = SegmentOf(k)
  PROVE  SegmentFits(k) /\ ObjectOf(k) = Opening(k) \o TailBytes(k)
<1> DEFINE a == plan.segments[k].anchor
           c == plan.segments[k].crcs
<1>1. /\ a = Bigs[k] /\ c = CrcIds(k) /\ plan.segments[k].links = Links(k)
      /\ plan.segments[k].length = ObjectLen(k)
  BY DEF SegmentOf
<1> HIDE DEF a, c
<1>2. PICK f : \E r : ChainsInto(k, f, r)
  BY ChainsExist
<1>3. PICK r : ChainsInto(k, f, r)
  BY <1>2
<1>4. /\ r \in Seq(SliceSet) /\ plan.segments[k].links = OneMore(f, Forward(r))
      /\ StartsChain(a, f, c) /\ \A n \in 1 .. Len(r) : NeedsIn(r[n], c)
      /\ LinkBytes(a, f) \o EachJoined(BytesOf, r) = Opening(k) \o TailBytes(k)
  BY <1>1, <1>3 DEF ChainsInto
<1>5. /\ LinkCount(k) \in Nat \ {0} /\ DOMAIN plan.segments[k].links = 1 .. LinkCount(k)
      /\ \A n \in 1 .. LinkCount(k) : LinkFits(k, n)
      /\ ObjectOf(k) \in Seq(AnyByte) /\ Built(k, LinkCount(k)) = ObjectOf(k)
      /\ ObjectOf(k) = LinkBytes(a, f) \o EachJoined(BytesOf, r)
  BY <1>4, LinksFit DEF a, c
<1>6. ObjectOf(k) = Opening(k) \o TailBytes(k)
  BY <1>4, <1>5
<1> DEFINE p == Pieces(k)
           big == Bigs[k]
           O == Opening(k)
           t == TailBytes(k)
<1>7. p \in Seq(SliceSet) /\ EachJoined(BytesOf, p) = t /\ t \in Seq(AnyByte)
  BY PiecesAre
<1>8. SumFunction([n \in DOMAIN p |-> SliceLen(p[n])]) = Len(t)
  <2> HIDE DEF p, t
  <2> QED
    BY <1>7, PiecesSum
<1>9. big \in Ids /\ files[big].size >= Floor
  BY BigsAre
<1>10. files[big].size \in Nat /\ files[big].header \in Nat /\ Floor \in Nat
  BY <1>9, FilesFacts
<1>11. O \in Seq(AnyByte) /\ Len(O) = files[big].size + (IF k = 1 THEN files[big].header ELSE 0)
  <2>1. CASE k = 1
    <3>1. O = Entry(big)
      BY <2>1 DEF Opening
    <3>2. Entry(big) \in Seq(AnyByte) /\ Len(Entry(big)) = files[big].header + files[big].size
      BY <1>9, EntryType DEF EntryLen
    <3> QED
      BY <1>10, <2>1, <3>1, <3>2
  <2>2. CASE k # 1
    <3>1. O = Bytes(Body(big))
      BY <2>2 DEF Opening
    <3>2. Bytes(Body(big)) \in Seq(AnyByte) /\ Len(Bytes(Body(big))) = files[big].size
      BY HeaderBytesIn
    <3> QED
      BY <1>10, <2>2, <3>1, <3>2
  <2> QED
    BY <2>1, <2>2
<1>12. ObjectLen(k) = files[big].size + (IF k = 1 THEN files[big].header ELSE 0) + Len(t)
  BY <1>8 DEF ObjectLen
<1>13. c \subseteq Ids /\ a \in c
  BY <1>1, CrcsAre
<1> HIDE DEF O, t, big
<1>14. Len(O \o t) = Len(O) + Len(t) /\ Len(t) \in Nat /\ Len(O) \in Nat
  BY <1>7, <1>11, ConcatProperties, LenProperties
<1>15. Len(ObjectOf(k)) = ObjectLen(k) /\ ObjectLen(k) >= Floor
  <2>1. ObjectOf(k) = O \o t
    BY <1>6 DEF O, t
  <2>2. Len(O) >= Floor
    BY <1>9, <1>10, <1>11
  <2> QED
    BY <1>10, <1>11, <1>12, <1>14, <2>1, <2>2
<1>16. SegmentFits(k)
  BY <1>1, <1>5, <1>13, <1>15 DEF SegmentFits, a, c
<1> QED
  BY <1>6, <1>16
-----------------------------------------------------------------------------
(* The segments, one behind the other, are the entries *)

HandsOver(a, h, b, d, n) == (a \o h) \o (b \o (d \o n)) = (a \o ((h \o b) \o d)) \o n

LEMMA HandOver ==
  ASSUME NEW T, NEW a \in Seq(T), NEW h \in Seq(T), NEW b \in Seq(T), NEW d \in Seq(T), NEW n \in Seq(T)
  PROVE  HandsOver(a, h, b, d, n)
<1> DEFINE x == b \o (d \o n)
           y == (h \o b) \o d
<1>1. x \in Seq(T) /\ y \in Seq(T)
  <2>1. d \o n \in Seq(T) /\ h \o b \in Seq(T)
    BY ConcatProperties
  <2> DEFINE dn == d \o n
             hb == h \o b
  <2> HIDE DEF dn, hb
  <2>2. b \o dn \in Seq(T) /\ hb \o d \in Seq(T)
    BY <2>1, ConcatProperties DEF dn, hb
  <2> QED
    BY <2>2 DEF dn, hb
<1>2. y \o n = h \o x
  <2>1. Regroups(h, b, d, n)
    BY Regrouping
  <2> QED
    BY <2>1 DEF Regroups
<1> HIDE DEF x, y
<1>3. (a \o h) \o x = a \o (h \o x)
  <2>1. Regroup(a, h, x)
    BY <1>1, RegroupAny
  <2> QED
    BY <2>1 DEF Regroup
<1>4. (a \o y) \o n = a \o (y \o n)
  <2>1. Regroup(a, y, n)
    BY <1>1, RegroupAny
  <2> QED
    BY <2>1 DEF Regroup
<1>5. (a \o h) \o x = (a \o y) \o n
  BY <1>2, <1>3, <1>4
<1> QED
  BY <1>5 DEF HandsOver, x, y

Stitches == [k \in 1 .. Len(Bigs) |-> Opening(k) \o TailBytes(k)]
Grouped == [k \in DOMAIN Buckets |-> EachJoined(EntryOf, Buckets[k])]

LEMMA GroupedIs ==
  ASSUME files \in Lists
  PROVE  /\ Grouped \in Seq(Seq(AnyByte)) /\ Len(Grouped) = Len(Bigs)
         /\ \A k \in 1 .. Len(Bigs) : Grouped[k] = Entry(Bigs[k]) \o Data(SmallsOf(k))
         /\ FlattenSeq(Grouped) = Data(ChainOrder)
<1>1. /\ Buckets \in Seq(Seq(Ids)) /\ Len(Buckets) = Len(Bigs) /\ DOMAIN Buckets = 1 .. Len(Bigs)
      /\ \A k \in 1 .. Len(Bigs) : Buckets[k] = <<Bigs[k]>> \o SmallsOf(k)
  BY BucketsAre
<1>2. Maps(EntryOf, Ids, Seq(AnyByte)) /\ \A i \in Ids : EntryOf[i] = Entry(i)
  BY EntryMaps
<1>3. ASSUME NEW k \in 1 .. Len(Bigs)
      PROVE  Grouped[k] = Entry(Bigs[k]) \o Data(SmallsOf(k)) /\ Grouped[k] \in Seq(AnyByte)
  <2> DEFINE u == <<Bigs[k]>>
             s == SmallsOf(k)
  <2>1. Bigs[k] \in Ids /\ s \in Seq(Ids)
    BY BigsAre, DealtAre
  <2>2. u \in Seq(Ids)
    BY <2>1
  <2>3. EachJoined(EntryOf, u) = EntryOf[Bigs[k]]
    BY <2>1, EachOne
  <2>4. Buckets[k] = u \o s
    BY <1>1
  <2> HIDE DEF u, s
  <2>5. EachJoined(EntryOf, u \o s) = EachJoined(EntryOf, u) \o EachJoined(EntryOf, s)
    BY <1>2, <2>1, <2>2, JoinedConcat
  <2>6. Grouped[k] = EachJoined(EntryOf, Buckets[k])
    BY <1>1 DEF Grouped
  <2>7. Grouped[k] = Entry(Bigs[k]) \o Data(s)
    BY <1>2, <2>1, <2>3, <2>4, <2>5, <2>6 DEF Data
  <2>8. Buckets[k] \in Seq(Ids)
    BY <1>1, ElementOfSeq
  <2>9. Grouped[k] \in Seq(AnyByte)
    BY <1>2, <2>6, <2>8, JoinedType
  <2> QED
    BY <2>7, <2>9 DEF s
<1>4. Len(Bigs) \in Nat
  BY BigsAre
<1>5. Grouped = [k \in 1 .. Len(Bigs) |-> Grouped[k]]
  BY <1>1 DEF Grouped
<1>6. Grouped \in Seq(Seq(AnyByte)) /\ Len(Grouped) = Len(Bigs)
  <2>1. Grouped \in [1 .. Len(Bigs) -> Seq(AnyByte)]
    BY <1>3, <1>5
  <2> QED
    BY <1>4, <2>1, FunctionSeq
<1>7. FlattenSeq(Grouped) = Data(ChainOrder)
  <2>0. Maps(EntryOf, Ids, Seq(AnyByte)) /\ Buckets \in Seq(Seq(Ids))
    BY <1>1, <1>2
  <2>1. EachJoined(EntryOf, FlattenSeq(Buckets)) = FlattenSeq([k \in DOMAIN Buckets |-> EachJoined(EntryOf, Buckets[k])])
    BY <2>0, JoinedFlatten
  <2> QED
    BY <2>1 DEF Data, ChainOrder, Grouped
<1> QED
  BY <1>3, <1>6, <1>7

LEMMA StitchesAre ==
  ASSUME files \in Lists
  PROVE  /\ Stitches \in Seq(Seq(AnyByte)) /\ Len(Stitches) = Len(Bigs) /\ Len(Bigs) \in Nat
         /\ \A k \in 1 .. Len(Bigs) : /\ Stitches[k] = Opening(k) \o TailBytes(k)
                                      /\ Opening(k) \in Seq(AnyByte) /\ TailBytes(k) \in Seq(AnyByte)
<1>1. Len(Bigs) \in Nat
  BY BigsAre
<1>2. ASSUME NEW k \in 1 .. Len(Bigs)
      PROVE  /\ Stitches[k] = Opening(k) \o TailBytes(k) /\ Stitches[k] \in Seq(AnyByte)
             /\ Opening(k) \in Seq(AnyByte) /\ TailBytes(k) \in Seq(AnyByte)
  <2>1. Opening(k) \in Seq(AnyByte)
    <3>1. Bigs[k] \in Ids
      BY BigsAre
    <3>2. k = 1 => Entry(Bigs[1]) \in Seq(AnyByte)
      BY <3>1, EntryType
    <3>3. Bytes(Body(Bigs[k])) \in Seq(AnyByte)
      BY HeaderBytesIn
    <3> QED
      BY <3>2, <3>3 DEF Opening
  <2>2. TailBytes(k) \in Seq(AnyByte)
    BY PiecesAre
  <2> DEFINE O == Opening(k)
             t == TailBytes(k)
  <2>3. Stitches[k] = O \o t
    BY DEF Stitches
  <2>4. O \o t \in Seq(AnyByte)
    <3> HIDE DEF O, t
    <3>1. O \in Seq(AnyByte) /\ t \in Seq(AnyByte)
      BY <2>1, <2>2 DEF O, t
    <3> QED
      BY <3>1, ConcatProperties
  <2> QED
    BY <2>1, <2>2, <2>3, <2>4
<1>3. Stitches = [k \in 1 .. Len(Bigs) |-> Stitches[k]]
  BY DEF Stitches
<1>4. Stitches \in [1 .. Len(Bigs) -> Seq(AnyByte)]
  BY <1>2, <1>3
<1> QED
  BY <1>1, <1>2, <1>4, FunctionSeq

(* Up to a segment, all that is missing is there, and the next header besides. *)
LEMMA HandOverAt ==
  ASSUME files \in Lists, NEW n \in Nat, n + 1 \in 1 .. Len(Bigs), n # 0,
         Before(Stitches, n + 1) = Before(Grouped, n + 1) \o Carried(n)
  PROVE  Before(Stitches, n + 2) = Before(Grouped, n + 2) \o Carried(n + 1)
<1> DEFINE m == n + 1
           a == Before(Grouped, m)
           h == HeaderBytes(m)
           b == Bytes(Body(Bigs[m]))
           d == Data(SmallsOf(m))
           c == Carried(m)
<1>1. m \in 1 .. Len(Bigs) /\ Len(Bigs) \in Nat /\ m # 1 /\ m + 1 = n + 2
  BY StitchesAre
<1>2. /\ Stitches \in Seq(Seq(AnyByte)) /\ Len(Stitches) = Len(Bigs)
      /\ Stitches[m] = Opening(m) \o TailBytes(m)
  BY StitchesAre
<1>3. Grouped \in Seq(Seq(AnyByte)) /\ Len(Grouped) = Len(Bigs) /\ Grouped[m] = Entry(Bigs[m]) \o d
  BY GroupedIs
<1>4. h \in Seq(AnyByte) /\ b \in Seq(AnyByte) /\ Entry(Bigs[m]) = h \o b
  BY HeaderBytesIn
<1>5. d \in Seq(AnyByte) /\ c \in Seq(AnyByte) /\ TailBytes(m) = d \o c
  BY PiecesAre DEF TailBytes
<1>6. Opening(m) = b
  BY <1>1 DEF Opening
<1>7. Carried(n) = h
  BY <1>1 DEF Carried
<1> HIDE DEF m
<1>8. Before(Stitches, m + 1) = Before(Stitches, m) \o Stitches[m]
  <2>1. m \in 1 .. Len(Stitches)
    BY <1>1, <1>2
  <2> QED
    BY <1>2, <2>1, BeforeStep
<1>9. Before(Grouped, m) \in Seq(AnyByte) /\ Before(Grouped, m + 1) = Before(Grouped, m) \o Grouped[m]
  <2>1. m \in 1 .. Len(Grouped)
    BY <1>1, <1>3
  <2> QED
    BY <1>3, <2>1, BeforeStep
<1>10. Before(Stitches, m) = a \o h
  BY <1>7 DEF m
<1> HIDE DEF a, h, b, d, c
<1>11. HandsOver(a, h, b, d, c)
  <2>1. a \in Seq(AnyByte)
    BY <1>9 DEF a
  <2> QED
    BY <1>4, <1>5, <2>1, HandOver
<1>12. Before(Stitches, m + 1) = (a \o h) \o (b \o (d \o c))
  BY <1>2, <1>5, <1>6, <1>8, <1>10
<1>13. Before(Grouped, m + 1) = a \o ((h \o b) \o d)
  BY <1>3, <1>4, <1>9 DEF a
<1>14. Before(Stitches, m + 1) = Before(Grouped, m + 1) \o c
  BY <1>11, <1>12, <1>13 DEF HandsOver
<1> QED
  BY <1>1, <1>14 DEF c, m

LEMMA HandOverFirst ==
  ASSUME files \in Lists, Len(Bigs) # 0
  PROVE  Before(Stitches, 2) = Before(Grouped, 2) \o Carried(1)
<1> DEFINE e == Entry(Bigs[1])
           d == Data(SmallsOf(1))
           c == Carried(1)
           a == <<>>
<1>0. 1 \in 1 .. Len(Bigs)
  BY BigsAre
<1>1. /\ Stitches \in Seq(Seq(AnyByte)) /\ Len(Stitches) = Len(Bigs)
      /\ Stitches[1] = Opening(1) \o TailBytes(1)
  BY <1>0, StitchesAre
<1>2. Grouped \in Seq(Seq(AnyByte)) /\ Len(Grouped) = Len(Bigs) /\ Grouped[1] = e \o d
  BY <1>0, GroupedIs
<1>3. d \in Seq(AnyByte) /\ c \in Seq(AnyByte) /\ TailBytes(1) = d \o c
  BY <1>0, PiecesAre DEF TailBytes
<1>4. e \in Seq(AnyByte) /\ Opening(1) = e
  BY <1>0, BigsAre, EntryType DEF Opening
<1>5. Before(Stitches, 2) = <<>> \o Stitches[1]
  <2>1. Before(Stitches, 1 + 1) = Before(Stitches, 1) \o Stitches[1]
    BY <1>0, <1>1, BeforeStep
  <2>2. Before(Stitches, 1) = <<>> /\ 1 + 1 = 2
    BY <1>1, BeforeEnds
  <2> QED
    BY <2>1, <2>2
<1>6. Before(Grouped, 2) = <<>> \o Grouped[1]
  <2>1. Before(Grouped, 1 + 1) = Before(Grouped, 1) \o Grouped[1]
    BY <1>0, <1>2, BeforeStep
  <2>2. Before(Grouped, 1) = <<>> /\ 1 + 1 = 2
    BY <1>2, BeforeEnds
  <2> QED
    BY <2>1, <2>2
<1> HIDE DEF e, d, c
<1> DEFINE x == e \o d
           y == e \o (d \o c)
<1>7. Regroup(e, d, c)
  BY <1>3, <1>4, RegroupAny
<1>8. x \in Seq(AnyByte) /\ y = x \o c
  BY <1>3, <1>4, <1>7, ConcatProperties DEF Regroup
<1>9. y \in Seq(AnyByte)
  <2> HIDE DEF x, y
  <2> QED
    BY <1>3, <1>8, ConcatProperties
<1>10. Stitches[1] = y /\ Grouped[1] = x
  BY <1>1, <1>2, <1>3, <1>4
<1> HIDE DEF x, y
<1>11. <<>> \o x = x /\ <<>> \o y = y
  BY <1>8, <1>9, ConcatEmptySeq
<1>12. Before(Stitches, 2) = y
  <2>1. Before(Stitches, 2) = <<>> \o y
    BY <1>5, <1>10
  <2> QED
    BY <1>11, <2>1
<1>13. Before(Grouped, 2) = x
  <2>1. Before(Grouped, 2) = <<>> \o x
    BY <1>6, <1>10
  <2> QED
    BY <1>11, <2>1
<1> QED
  BY <1>8, <1>12, <1>13 DEF c

LEMMA StitchesJoin ==
  ASSUME files \in Lists, Len(Bigs) # 0
  PROVE  FlattenSeq(Stitches) = Data(ChainOrder)
<1> DEFINE C == Len(Bigs)
           N == {n \in Nat : n + 1 \in 1 .. C => Before(Stitches, n + 2) = Before(Grouped, n + 2) \o Carried(n + 1)}
<1>1. C \in Nat \ {0}
  BY StitchesAre
<1>2. 0 \in N
  <2>1. 0 + 2 = 2 /\ 0 + 1 = 1
    OBVIOUS
  <2>2. Before(Stitches, 2) = Before(Grouped, 2) \o Carried(1)
    BY HandOverFirst
  <2> QED
    BY <2>1, <2>2
<1>3. ASSUME NEW n \in Nat, n \in N PROVE n + 1 \in N
  <2> DEFINE m == n + 1
  <2>1. m \in Nat /\ m # 0 /\ m + 1 = n + 2
    OBVIOUS
  <2>2. m + 1 \in 1 .. C => m \in 1 .. C
    BY <1>1, <2>1
  <2>3. m \in 1 .. C => Before(Stitches, m + 1) = Before(Grouped, m + 1) \o Carried(m)
    BY <1>3, <2>1
  <2> HIDE DEF m
  <2>4. m + 1 \in 1 .. C => Before(Stitches, m + 2) = Before(Grouped, m + 2) \o Carried(m + 1)
    BY <2>1, <2>2, <2>3, HandOverAt
  <2> QED
    BY <2>1, <2>4 DEF m
<1>4. Nat \subseteq N
  <2> HIDE DEF N
  <2> QED
    BY <1>2, <1>3, SetInduction
<1>5. C - 1 \in N /\ (C - 1) + 1 = C /\ (C - 1) + 2 = C + 1
  <2>1. C - 1 \in Nat /\ (C - 1) + 1 = C /\ (C - 1) + 2 = C + 1
    BY <1>1
  <2> HIDE DEF N
  <2> QED
    BY <1>4, <2>1
<1>6. Before(Stitches, C + 1) = Before(Grouped, C + 1) \o Carried(C)
  <2> DEFINE j == C - 1
  <2>1. j \in N /\ j + 1 = C /\ j + 2 = C + 1 /\ j + 1 \in 1 .. C
    BY <1>1, <1>5
  <2> HIDE DEF C, j
  <2>2. Before(Stitches, j + 2) = Before(Grouped, j + 2) \o Carried(j + 1)
    BY <2>1
  <2> QED
    BY <2>1, <2>2
<1>7. Carried(C) = <<>>
  BY DEF Carried
<1>8. Stitches \in Seq(Seq(AnyByte)) /\ Len(Stitches) = C
  BY StitchesAre
<1>9. Grouped \in Seq(Seq(AnyByte)) /\ Len(Grouped) = C /\ FlattenSeq(Grouped) = Data(ChainOrder)
  BY GroupedIs
<1> HIDE DEF C
<1>10. Before(Stitches, Len(Stitches) + 1) = FlattenSeq(Stitches)
  BY <1>8, BeforeEnds
<1>11. Before(Grouped, Len(Grouped) + 1) = FlattenSeq(Grouped) /\ FlattenSeq(Grouped) \in Seq(AnyByte)
  BY <1>9, BeforeEnds, FlattenType
<1>12. FlattenSeq(Grouped) \o <<>> = FlattenSeq(Grouped)
  BY <1>11, ConcatEmptySeq
<1> QED
  BY <1>6, <1>7, <1>8, <1>9, <1>10, <1>11, <1>12

(* The plan keeps its promises. *)
LEMMA ChainPlanIs ==
  ASSUME files \in Lists, plan = ChainPlan
  PROVE  ChainPlanned
<1> DEFINE C == Len(Bigs)
<1>1. C \in Nat /\ DOMAIN Bigs = 1 .. C
  BY BigsAre, LenProperties
<1>2. plan.segments = [k \in 1 .. C |-> SegmentOf(k)]
  BY <1>1 DEF ChainPlan, SegmentOf
<1>3. Segments = 1 .. C /\ SegmentCount = C /\ \A k \in 1 .. C : plan.segments[k] = SegmentOf(k)
  BY <1>1, <1>2 DEF Segments, SegmentCount
<1>4. ASSUME NEW k \in 1 .. C PROVE SegmentFits(k) /\ ObjectOf(k) = Opening(k) \o TailBytes(k)
  BY <1>3, SegmentPlanned
<1>5. [k \in Segments |-> ObjectOf(k)] = Stitches
  BY <1>3, <1>4 DEF Stitches
<1>6. Directory = DirectoryFor(ChainOrder)
      /\ plan.directory = DirectoryOffset(ChainOrder)
  BY DEF Directory, DirectoryFor, ChainPlan
<1>7. ASSUME Segments # {}
      PROVE  /\ Directory \in Seq(AnyByte) /\ Readable(Chained)
             /\ SumFunction([k \in Segments |-> plan.segments[k].length]) = plan.directory
  <2>1. C # 0
    BY <1>3, <1>7
  <2>2. Lists1(ChainOrder)
    BY <2>1, ChainOnce
  <2>3. FlattenSeq(Stitches) = Data(ChainOrder)
    BY <2>1, StitchesJoin
  <2>4. Chained = Data(ChainOrder) \o Directory
    BY <1>5, <2>3 DEF Chained
  <2>5. Directory \in Seq(AnyByte) /\ Readable(Data(ChainOrder) \o Directory)
    BY <1>6, <2>2, ArchiveReads
  <2> DEFINE f == [k \in Segments |-> plan.segments[k].length]
  <2>6. Stitches \in Seq(Seq(AnyByte)) /\ Len(Stitches) = C
    BY StitchesAre
  <2>7. ASSUME NEW k \in 1 .. C PROVE f[k] = Len(Stitches[k])
    <3>1. Len(ObjectOf(k)) = plan.segments[k].length
      BY <1>4 DEF SegmentFits
    <3>2. Stitches[k] = ObjectOf(k)
      BY <1>3, <1>5
    <3> QED
      BY <1>3, <3>1, <3>2
  <2>8. DOMAIN f = 1 .. C
    BY <1>3
  <2>9. SumFunction(f) = SumFunctionOnSet(f, 1 .. C)
    BY <2>8 DEF SumFunction
  <2> HIDE DEF f, C
  <2>10. Len(FlattenSeq(Stitches)) = SumFunctionOnSet(f, 1 .. Len(Stitches))
    <3>1. \A k \in 1 .. Len(Stitches) : f[k] = Len(Stitches[k])
      BY <2>6, <2>7
    <3> QED
      BY <2>6, <3>1, FlattenSum
  <2>11. plan.directory = Len(Data(ChainOrder))
    <3>1. ChainOrder \in Seq(Ids)
      BY <2>2 DEF Lists1
    <3> QED
      BY <1>6, <3>1, DirectoryOffsetIs
  <2>12. SumFunction(f) = plan.directory
    BY <2>3, <2>6, <2>9, <2>10, <2>11
  <2> QED
    BY <2>4, <2>5, <2>12 DEF f
<1> QED
  BY <1>1, <1>3, <1>4, <1>7 DEF ChainPlanned
-----------------------------------------------------------------------------
(* What a step of figment-engine-chain leaves alone *)

LEMMA ChainPlanKept ==
  ASSUME UNCHANGED <<files, plan>>
  PROVE  /\ (ChainPlanned <=> ChainPlanned') /\ Segments' = Segments /\ SegmentCount' = SegmentCount
         /\ Ids' = Ids /\ Chained' = Chained /\ Directory' = Directory /\ plan.segments' = plan.segments
         /\ \A k : ObjectOf(k)' = ObjectOf(k)
         /\ \A k, p, n, ps, o : LinkAt(k, p, n, ps, o)' <=> LinkAt(k, p, n, ps, o)
<1>1. files' = files /\ plan' = plan
  OBVIOUS
<1>2. Segments' = Segments /\ SegmentCount' = SegmentCount /\ Ids' = Ids /\ Directory' = Directory
  BY <1>1 DEF Segments, SegmentCount, Ids, Directory, Sizes
<1>3. \A a, l : Base(a, l)' = Base(a, l) /\ LinkBytes(a, l)' = LinkBytes(a, l)
  BY <1>1 DEF LinkBytes, Base, Header, Body, BodySlice
<1>4. \A k : OwnBytes(k)' = OwnBytes(k) /\ LinkCount(k)' = LinkCount(k)
  BY <1>1, <1>3 DEF OwnBytes, LinkCount, LinkOf
<1>5. \A k : ObjectOf(k)' = ObjectOf(k)
  BY <1>4 DEF ObjectOf
<1>6. \A k, n : Built(k, n)' = Built(k, n) /\ LinkOf(k, n)' = LinkOf(k, n)
  BY <1>1, <1>4 DEF Built, LinkOf
<1>7. \A k, n : FirstBytes(k, n)' = FirstBytes(k, n)
  BY <1>1, <1>3, <1>6 DEF FirstBytes
<1>8. \A k, p, n, ps, o : LinkAt(k, p, n, ps, o)' <=> LinkAt(k, p, n, ps, o)
  BY <1>4, <1>5, <1>6, <1>7 DEF LinkAt
<1>9. Chained' = Chained
  BY <1>2, <1>5 DEF Chained
<1>10. \A k : SegmentFits(k)' <=> SegmentFits(k)
  <2>1. ASSUME NEW k, NEW n PROVE LinkFits(k, n)' <=> LinkFits(k, n)
    <3> DEFINE l == LinkOf(k, n)
               f == FirstBytes(k, n)
               b == Built(k, n)
               c == plan.segments[k].crcs
    <3>1. l' = l /\ f' = f /\ b' = b /\ c' = c
      BY <1>1, <1>6, <1>7
    <3> HIDE DEF l, f, b, c
    <3> QED
      BY <3>1 DEF LinkFits, l, f, b, c
  <2> QED
    BY <1>1, <1>2, <1>4, <1>5, <1>6, <2>1 DEF SegmentFits
<1>11. \A b : Readable(b)' <=> Readable(b)
  BY <1>1 DEF Readable, Ids, EntryLen, Entry, Header, Body, BodySlice
<1>12. ChainPlanned <=> ChainPlanned'
  BY <1>1, <1>2, <1>9, <1>10, <1>11 DEF ChainPlanned
<1> QED
  BY <1>1, <1>2, <1>5, <1>8, <1>9, <1>12

StitchesKept(S) ==
  \A k \in S : /\ k \in DOMAIN stitched' <=> k \in DOMAIN stitched
               /\ k \in DOMAIN stitched => stitched'[k] = stitched[k]
KnownKept == \A ids \in SUBSET Ids : Known(ids) => Known(ids)'

LEMMA KnownSame == ASSUME UNCHANGED head PROVE KnownKept
  BY DEF KnownKept, Known

(* A segment that does not move stays legal, whatever the others do. *)
LEMMA SegmentKept ==
  ASSUME UNCHANGED <<files, plan>>, ChainPlanned, NEW k \in Segments, SegmentAt(k),
         phase'[k] = phase[k], link'[k] = link[k], parts'[k] = parts[k], object'[k] = object[k],
         KnownKept, faulty => faulty', StitchesKept({k})
  PROVE  SegmentAt(k)'
<1>1. /\ plan.segments' = plan.segments /\ ObjectOf(k)' = ObjectOf(k)
      /\ \A p, n, ps, o : LinkAt(k, p, n, ps, o)' <=> LinkAt(k, p, n, ps, o)
  BY ChainPlanKept
<1>2. LinkAt(k, phase[k], link[k], parts[k], object[k])'
  <2>1. LinkAt(k, phase[k], link[k], parts[k], object[k])
    BY DEF SegmentAt
  <2> QED
    BY <1>1, <2>1
<1>3. phase'[k] \in PastGate => Known(plan.segments[k].crcs)'
  <2>1. plan.segments[k].crcs \in SUBSET Ids
    BY DEF ChainPlanned, SegmentFits
  <2>2. phase[k] \in PastGate => Known(plan.segments[k].crcs)
    BY DEF SegmentAt
  <2>3. phase[k] \in PastGate => Known(plan.segments[k].crcs)'
    <3> DEFINE ids == plan.segments[k].crcs
    <3>1. PICK J : J = ids
      OBVIOUS
    <3>2. J' = ids'
      BY <1>1, <3>1
    <3>3. Known(J) => Known(J)'
      BY <2>1, <3>1 DEF KnownKept
    <3>4. ids' = J
      BY <1>1, <3>1
    <3> QED
      BY <2>2, <3>1, <3>3, <3>4 DEF Known
  <2> QED
    BY <2>3
<1>4. StitchedAt(k)'
  BY <1>1 DEF StitchedAt, StitchesKept, SegmentAt
<1>5. (phase[k] = "failed" => faulty) /\ (phase[k] = "ok" => k \in DOMAIN stitched)
  BY DEF SegmentAt
<1>6. (phase'[k] = "failed" => faulty') /\ (phase'[k] = "ok" => k \in DOMAIN stitched')
  BY <1>5 DEF StitchesKept
<1> QED
  BY <1>2, <1>3, <1>4, <1>6 DEF SegmentAt

LEMMA SegmentsKept ==
  ASSUME UNCHANGED <<files, plan, segmentVars>>, ChainInv,
         KnownKept, faulty => faulty', StitchesKept(Segments)
  PROVE  ChainPlanned' /\ Segments' = Segments /\ \A k \in Segments : SegmentAt(k)'
<1>1. ChainPlanned /\ \A k \in Segments : SegmentAt(k)
  BY DEF ChainInv
<1>2. ChainPlanned' /\ Segments' = Segments
  BY <1>1, ChainPlanKept
<1>3. ASSUME NEW k \in Segments PROVE SegmentAt(k)'
  <2>1. phase'[k] = phase[k] /\ link'[k] = link[k] /\ parts'[k] = parts[k] /\ object'[k] = object[k]
    BY DEF segmentVars
  <2>2. StitchesKept({k})
    BY DEF StitchesKept
  <2> QED
    BY <1>1, <2>1, <2>2, SegmentKept
<1> QED
  BY <1>2, <1>3
-----------------------------------------------------------------------------
(* The steps of run *)

LEMMA ChainStart == ChainInit => ChainInv
<1> SUFFICES ASSUME ChainInit PROVE ChainInv
  OBVIOUS
<1>1. /\ files \in Lists /\ plan = ChainPlan /\ handler = "list" /\ head = [i \in Ids |-> "todo"]
      /\ phase = [k \in Segments |-> "todo"] /\ link = [k \in Segments |-> 1]
      /\ parts = [k \in Segments |-> <<>>] /\ object = [k \in Segments |-> <<>>]
      /\ stitched = <<>> /\ archive = <<>> /\ faulty = FALSE
  BY DEF ChainInit
<1>2. ChainPlanned
  BY <1>1, ChainPlanIs
<1>3. ChainShapes
  <2>1. HeadsInFlight = {}
    BY <1>1 DEF HeadsInFlight
  <2>2. Cardinality(HeadsInFlight) <= HeadWindow
    BY <2>1, FS_EmptySet, ChainAssumption
  <2>3. DOMAIN stitched = {}
    BY <1>1
  <2> QED
    BY <1>1, <2>2, <2>3 DEF ChainShapes, Phases, PastGate
<1>4. ASSUME NEW k \in Segments PROVE SegmentAt(k)
  <2>1. LinkCount(k) \in Nat \ {0}
    BY <1>2 DEF ChainPlanned, SegmentFits
  <2>2. phase[k] = "todo" /\ link[k] = 1 /\ parts[k] = <<>> /\ k \notin DOMAIN stitched
    BY <1>1
  <2>3. LinkAt(k, phase[k], link[k], parts[k], object[k])
    <3>1. 1 \in 1 .. LinkCount(k) /\ Len(<<>>) = 0
      BY <2>1
    <3> QED
      BY <2>2, <3>1 DEF LinkAt
  <2> QED
    BY <2>2, <2>3 DEF SegmentAt, PastGate, StitchedAt
<1>5. ChainAt
  <2>1. ~HeadsFailed
    BY <1>1 DEF HeadsFailed
  <2>2. DOMAIN stitched = {}
    BY <1>1
  <2> QED
    BY <1>1, <2>1, <2>2 DEF ChainAt
<1> QED
  BY <1>2, <1>3, <1>4, <1>5 DEF ChainInv

(* A step that only moves the handler on. *)
LEMMA HandlerMoves ==
  ASSUME UNCHANGED <<files, plan, head, segmentVars, stitched, archive>>, ChainInv,
         faulty' \in BOOLEAN, faulty => faulty',
         handler' \in {"list", "create", "build", "directory", "complete", "ok", "error", "refused"},
         handler' = "refused" => Segments = {},
         handler' \in {"create", "build", "directory", "complete"} => Segments # {},
         handler' = "directory" => \A k \in Segments : Ended(k),
         handler' # "complete", handler' = "error" => faulty'
  PROVE  ChainInv'
<1>1. ChainShapes /\ ChainAt
  BY DEF ChainInv
<1>2. UNCHANGED <<files, plan>> /\ UNCHANGED head /\ UNCHANGED phase /\ UNCHANGED stitched /\ UNCHANGED archive
      /\ UNCHANGED link /\ UNCHANGED parts /\ UNCHANGED object
  BY DEF segmentVars
<1>3. Segments' = Segments /\ SegmentCount' = SegmentCount /\ Ids' = Ids /\ Chained' = Chained /\ Directory' = Directory
  BY <1>2, ChainPlanKept
<1>4. KnownKept /\ StitchesKept(Segments)
  BY <1>2, KnownSame DEF StitchesKept
<1>5. ChainPlanned' /\ \A k \in Segments' : SegmentAt(k)'
  BY <1>3, <1>4, SegmentsKept
<1>6. ChainShapes'
  BY <1>1, <1>2, <1>3 DEF ChainShapes, HeadsInFlight
<1>7. ChainAt'
  <2>1. (\A k \in Segments : Ended(k)) => (\A k \in Segments : Ended(k))'
    BY <1>2, <1>3 DEF Ended
  <2>2. HeadsFailed' <=> HeadsFailed
    BY <1>2, <1>3 DEF HeadsFailed
  <2> QED
    BY <1>1, <1>2, <1>3, <2>1, <2>2 DEF ChainAt
<1> QED
  BY <1>5, <1>6, <1>7 DEF ChainInv

LEMMA ChainCalls ==
  ASSUME ChainInv, Plan \/ CreateStitch \/ ProducerFails \/ BuildJoined
  PROVE  ChainInv'
<1>0. ChainShapes /\ ChainAt
  BY DEF ChainInv
<1>1. CASE Plan
  BY <1>0, <1>1, HandlerMoves DEF Plan, CallAnswered, CallFails, ChainShapes
<1>2. CASE CreateStitch
  BY <1>0, <1>2, HandlerMoves DEF CreateStitch, CallAnswered, CallFails, ChainShapes, ChainAt
<1>3. CASE ProducerFails
  BY <1>0, <1>3, HandlerMoves DEF ProducerFails, ChainShapes, ChainAt
<1>4. CASE BuildJoined
  BY <1>0, <1>4, HandlerMoves DEF BuildJoined, ChainShapes, ChainAt
<1> QED
  BY <1>1, <1>2, <1>3, <1>4
-----------------------------------------------------------------------------
(* The end of the upload *)

LEMMA DirectoryUploads == ASSUME ChainInv, UploadDirectory PROVE ChainInv'
<1>0. ChainPlanned /\ ChainShapes /\ ChainAt /\ \A k \in Segments : SegmentAt(k)
  BY DEF ChainInv
<1> DEFINE C == SegmentCount
<1>1. /\ handler = "directory" /\ UNCHANGED <<files, plan, head, segmentVars, archive>>
      /\ Segments = 1 .. C /\ C \in Nat /\ C + 1 \notin Segments
  <2>1. Segments = 1 .. C /\ C \in Nat
    BY <1>0 DEF ChainPlanned
  <2>2. C + 1 \notin 1 .. C
    BY <2>1
  <2> QED
    BY <2>1, <2>2 DEF UploadDirectory
<1>2. UNCHANGED <<files, plan>> /\ UNCHANGED head /\ UNCHANGED phase /\ UNCHANGED archive
      /\ UNCHANGED link /\ UNCHANGED parts /\ UNCHANGED object
  BY <1>1 DEF segmentVars
<1>3. Segments' = Segments /\ SegmentCount' = C /\ Ids' = Ids /\ Chained' = Chained /\ Directory' = Directory
  BY <1>2, ChainPlanKept
<1>4. CASE CallFails /\ handler' = "error" /\ UNCHANGED stitched
  BY <1>0, <1>1, <1>4, HandlerMoves DEF CallFails
<1>5. CASE /\ CallAnswered
           /\ stitched' = [n \in DOMAIN stitched \cup {C + 1} |-> IF n = C + 1 THEN Directory ELSE stitched[n]]
           /\ handler' = IF \A k \in Segments : phase[k] = "ok" THEN "complete" ELSE "error"
  <2>1. faulty' = faulty /\ DOMAIN stitched' = DOMAIN stitched \cup {C + 1}
        /\ stitched'[C + 1] = Directory /\ \A n \in DOMAIN stitched : n # C + 1 => stitched'[n] = stitched[n]
    BY <1>5 DEF CallAnswered
  <2>2. KnownKept /\ StitchesKept(Segments)
    BY <1>1, <1>2, <2>1, KnownSame DEF StitchesKept
  <2>3. ChainPlanned' /\ \A k \in Segments' : SegmentAt(k)'
    BY <1>1, <1>3, <2>1, <2>2, SegmentsKept
  <2>4. ChainShapes'
    <3>1. DOMAIN stitched' \subseteq 1 .. C + 1
      <4>1. DOMAIN stitched \subseteq 1 .. C + 1
        BY <1>0 DEF ChainShapes
      <4>2. C + 1 \in 1 .. C + 1
        BY <1>1
      <4> QED
        BY <2>1, <4>1, <4>2
    <3> QED
      BY <1>0, <1>2, <1>3, <2>1, <3>1 DEF ChainShapes, HeadsInFlight
  <2>5. HeadsFailed' <=> HeadsFailed
    BY <1>2, <1>3 DEF HeadsFailed
  <2>6. (\A k \in Segments : Ended(k)) => (\A k \in Segments : Ended(k))'
    BY <1>2, <1>3 DEF Ended
  <2>7. handler' = "error" => faulty'
    <3>1. ASSUME handler' = "error" PROVE faulty
      <4>1. PICK k \in Segments : phase[k] # "ok"
        BY <1>5, <3>1
      <4>2. phase[k] = "failed"
        BY <1>0, <1>1, <4>1 DEF ChainAt, Ended
      <4>3. SegmentAt(k)
        BY <1>0
      <4> QED
        BY <4>2, <4>3 DEF SegmentAt
    <3> QED
      BY <2>1, <3>1
  <2>8. handler' = "complete" => \A k \in Segments : phase[k] = "ok"
    BY <1>5
  <2>9. handler' \in {"complete", "error"}
    BY <1>5
  <2>10. Segments # {} /\ (\A k \in Segments : Ended(k)) /\ (HeadsFailed => faulty) /\ (archive # <<>> => archive = Chained)
    BY <1>0, <1>1 DEF ChainAt
  <2>11. ChainAt'
    BY <1>2, <1>3, <2>1, <2>5, <2>6, <2>7, <2>8, <2>9, <2>10 DEF ChainAt
  <2> QED
    BY <2>3, <2>4, <2>11 DEF ChainInv
<1> QED
  BY <1>4, <1>5 DEF UploadDirectory

(* All that is stitched, in the order of the part numbers. *)
LEMMA AssembledIs ==
  ASSUME ChainInv, handler = "complete"
  PROVE  Assembled = Chained
<1>0. ChainPlanned /\ ChainShapes /\ ChainAt /\ \A k \in Segments : SegmentAt(k)
  BY DEF ChainInv
<1> DEFINE C == SegmentCount
           o == [k \in Segments |-> ObjectOf(k)]
           a == Append(o, Directory)
           t == [n \in 1 .. C + 1 |-> stitched[n]]
<1>1. Segments = 1 .. C /\ C \in Nat /\ Segments # {} /\ Directory \in Seq(AnyByte)
  BY <1>0 DEF ChainPlanned, ChainAt
<1>2. DOMAIN stitched = 1 .. C + 1
  <2>1. C + 1 \in DOMAIN stitched /\ \A k \in Segments : k \in DOMAIN stitched
    BY <1>0 DEF ChainAt, SegmentAt
  <2>2. DOMAIN stitched \subseteq 1 .. C + 1
    BY <1>0 DEF ChainShapes
  <2>3. \A n \in 1 .. C + 1 : n = C + 1 \/ n \in 1 .. C
    BY <1>1
  <2> QED
    BY <1>1, <2>1, <2>2, <2>3
<1>3. stitched[C + 1] = Directory /\ \A k \in Segments : stitched[k] = ObjectOf(k)
  BY <1>0, <1>1, <1>2 DEF ChainAt, SegmentAt, StitchedAt
<1>4. o \in Seq(Seq(AnyByte)) /\ Len(o) = C /\ \A k \in 1 .. C : o[k] = ObjectOf(k)
  <2>1. \A k \in 1 .. C : ObjectOf(k) \in Seq(AnyByte)
    BY <1>0, <1>1 DEF ChainPlanned, SegmentFits
  <2> DEFINE S == Seq(AnyByte)
  <2>2. o \in [1 .. C -> S]
    <3> HIDE DEF S, C
    <3> QED
      BY <1>1, <2>1 DEF S
  <2> HIDE DEF o, S, C
  <2>3. o \in Seq(S) /\ Len(o) = C
    BY <1>1, <2>2, FunctionSeq
  <2> QED
    BY <1>1, <2>3 DEF S, o
<1>5. FlattenSeq(o) \o Directory = Chained
  BY DEF Chained
<1>6. Assembled = FlattenSeq(t)
  <2> DEFINE N == Ascending(1 .. C + 1)
             id == [i \in 1 .. C + 1 |-> i]
  <2>1. C + 1 \in Nat
    BY <1>1
  <2>2. N = id
    <3> DEFINE m == C + 1
    <3> HIDE DEF m
    <3>1. Ascending(1 .. m) = [i \in 1 .. m |-> i]
      BY <2>1, AscendingUpTo DEF m
    <3> QED
      BY <3>1 DEF m
  <2>3. Assembled = FlattenSeq([n \in DOMAIN N |-> stitched[N[n]]])
    BY <1>2 DEF Assembled
  <2> HIDE DEF N
  <2>4. [n \in DOMAIN N |-> stitched[N[n]]] = t
    BY <2>2
  <2> QED
    BY <2>3, <2>4
<1> HIDE DEF o
<1>7. /\ a \in Seq(Seq(AnyByte)) /\ Len(a) = C + 1 /\ a[C + 1] = Directory
      /\ \A k \in 1 .. C : a[k] = o[k]
  <2>1. /\ a \in Seq(Seq(AnyByte)) /\ Len(a) = Len(o) + 1 /\ a[Len(o) + 1] = Directory
        /\ \A k \in 1 .. Len(o) : a[k] = o[k]
    <3> DEFINE S == Seq(AnyByte)
               x == Directory
    <3>1. o \in Seq(S) /\ x \in S
      BY <1>1, <1>4
    <3> HIDE DEF S, x
    <3>2. /\ Append(o, x) \in Seq(S) /\ Len(Append(o, x)) = Len(o) + 1 /\ Append(o, x)[Len(o) + 1] = x
          /\ \A k \in 1 .. Len(o) : Append(o, x)[k] = o[k]
      BY <3>1, AppendProperties
    <3> QED
      BY <3>2 DEF S, x
  <2> QED
    BY <1>4, <2>1
<1>8. FlattenSeq(a) = FlattenSeq(o) \o Directory
  BY <1>1, <1>4, FlattenAppend
<1> HIDE DEF a, C
<1>9. t = a
  <2>1. ASSUME NEW n \in 1 .. C + 1 PROVE t[n] = a[n]
    <3>1. CASE n = C + 1
      BY <1>3, <1>7, <3>1
    <3>2. CASE n # C + 1
      <4>1. n \in 1 .. C
        BY <1>1, <3>2
      <4> QED
        BY <1>1, <1>3, <1>4, <1>7, <4>1
    <3> QED
      BY <3>1, <3>2
  <2>2. a = [n \in 1 .. C + 1 |-> a[n]]
    <3>1. C + 1 \in Nat /\ DOMAIN a = 1 .. C + 1
      BY <1>1, <1>7, LenProperties
    <3>2. a \in [1 .. C + 1 -> Seq(AnyByte)]
      BY <1>7, <3>1, ElementOfSeq
    <3> QED
      BY <3>2
  <2> HIDE DEF t
  <2>3. t = [n \in 1 .. C + 1 |-> t[n]]
    BY DEF t
  <2> QED
    BY <2>1, <2>2, <2>3
<1> QED
  BY <1>5, <1>6, <1>8, <1>9

LEMMA StitchCompletes == ASSUME ChainInv, CompleteStitch PROVE ChainInv'
<1>0. ChainShapes /\ ChainAt
  BY DEF ChainInv
<1>1. handler = "complete" /\ UNCHANGED <<files, plan, head, segmentVars, stitched>>
  BY DEF CompleteStitch
<1>2. Assembled = Chained
  BY <1>1, AssembledIs
<1>3. /\ archive' \in {archive, Chained} /\ handler' \in {"ok", "error"} /\ (handler' = "error" => faulty')
      /\ faulty' \in BOOLEAN /\ (faulty => faulty')
  BY <1>0, <1>2 DEF CompleteStitch, CallAnswered, CallFails, ChainShapes
<1>4. UNCHANGED <<files, plan>> /\ UNCHANGED head /\ UNCHANGED phase /\ UNCHANGED stitched
      /\ UNCHANGED link /\ UNCHANGED parts /\ UNCHANGED object
  BY <1>1 DEF segmentVars
<1>5. Segments' = Segments /\ SegmentCount' = SegmentCount /\ Ids' = Ids /\ Chained' = Chained /\ Directory' = Directory
  BY <1>4, ChainPlanKept
<1>6. KnownKept /\ StitchesKept(Segments)
  BY <1>4, KnownSame DEF StitchesKept
<1>7. ChainPlanned' /\ \A k \in Segments' : SegmentAt(k)'
  BY <1>1, <1>3, <1>5, <1>6, SegmentsKept
<1>8. ChainShapes'
  BY <1>0, <1>3, <1>4, <1>5 DEF ChainShapes, HeadsInFlight
<1>9. HeadsFailed' <=> HeadsFailed
  BY <1>4, <1>5 DEF HeadsFailed
<1>10. ChainAt'
  BY <1>0, <1>1, <1>3, <1>4, <1>5, <1>9 DEF ChainAt
<1> QED
  BY <1>7, <1>8, <1>10 DEF ChainInv
-----------------------------------------------------------------------------
(* The HEAD stream *)

LEMMA HeadsFinite ==
  ASSUME ChainPlanned
  PROVE  IsFiniteSet(Ids) /\ IsFiniteSet(HeadsInFlight) /\ Cardinality(HeadsInFlight) \in Nat
<1>1. IsFiniteSet(Ids)
  <2>1. Ids = 1 .. Len(files) /\ Len(files) \in Nat
    BY FilesFacts DEF ChainPlanned
  <2> QED
    BY <2>1, CountUpTo
<1>2. HeadsInFlight \subseteq Ids
  BY DEF HeadsInFlight
<1> QED
  BY <1>1, <1>2, FS_Subset, FS_CardinalityType

(* One HEAD moves; a CRC that is known stays known. *)
LEMMA HeadMoves ==
  ASSUME ChainInv, handler = "build", NEW x, NEW s \in {"flight", "ok", "failed"},
         head' = [head EXCEPT ![x] = s], head[x] # "ok",
         s = "flight" => HeadRoom, s = "failed" => faulty',
         UNCHANGED <<files, plan, handler, link, parts, object, stitched, archive>>,
         faulty' \in BOOLEAN, faulty => faulty',
         phase' \in {phase, Woken}
  PROVE  ChainInv'
<1>0. ChainPlanned /\ ChainShapes /\ ChainAt /\ \A k \in Segments : SegmentAt(k)
  BY DEF ChainInv
<1>1. UNCHANGED <<files, plan>> /\ UNCHANGED stitched /\ UNCHANGED archive /\ UNCHANGED handler
      /\ UNCHANGED link /\ UNCHANGED parts /\ UNCHANGED object
  OBVIOUS
<1>2. /\ Segments' = Segments /\ SegmentCount' = SegmentCount /\ Ids' = Ids /\ Chained' = Chained
      /\ Directory' = Directory /\ plan.segments' = plan.segments /\ ChainPlanned'
      /\ \A k : ObjectOf(k)' = ObjectOf(k)
      /\ \A k, p, n, ps, o : LinkAt(k, p, n, ps, o)' <=> LinkAt(k, p, n, ps, o)
  BY <1>0, <1>1, ChainPlanKept
<1>3. head \in [Ids -> {"todo", "flight", "ok", "failed"}] /\ head' \in [Ids -> {"todo", "flight", "ok", "failed"}]
      /\ \A i \in Ids : head'[i] = IF i = x THEN s ELSE head[i]
  BY <1>0 DEF ChainShapes
<1>4. KnownKept
  <2>1. ASSUME NEW ids \in SUBSET Ids, Known(ids) PROVE Known(ids)'
    BY <1>3, <2>1 DEF Known
  <2> QED
    BY <2>1 DEF KnownKept
<1>5. Cardinality(HeadsInFlight') <= HeadWindow
  <2> DEFINE H == HeadsInFlight
             G == HeadsInFlight'
  <2>1. IsFiniteSet(H) /\ Cardinality(H) \in Nat /\ IsFiniteSet(Ids) /\ Cardinality(H) <= HeadWindow
    BY <1>0, HeadsFinite DEF ChainShapes
  <2>2. HeadWindow \in Nat
    BY ChainAssumption
  <2>3. CASE s = "flight"
    <3>1. G \subseteq H \cup {x}
      BY <1>2, <1>3 DEF HeadsInFlight
    <3>2. Cardinality(H) < HeadWindow
      BY <2>3 DEF HeadRoom
    <3> HIDE DEF H, G
    <3>3. IsFiniteSet(H \cup {x}) /\ Cardinality(H \cup {x}) <= Cardinality(H) + 1
          /\ Cardinality(H \cup {x}) \in Nat
      <4>1. IsFiniteSet(H \cup {x})
        BY <2>1, FS_AddElement
      <4>2. Cardinality(H \cup {x}) = Cardinality(H) \/ Cardinality(H \cup {x}) = Cardinality(H) + 1
        BY <2>1, FS_AddElement
      <4> QED
        BY <2>1, <4>1, <4>2
    <3>4. Cardinality(G) <= Cardinality(H \cup {x}) /\ Cardinality(G) \in Nat
      BY <3>1, <3>3, FS_Subset, FS_CardinalityType
    <3>5. Cardinality(G) <= HeadWindow
      BY <2>1, <2>2, <3>2, <3>3, <3>4
    <3> QED
      BY <3>5 DEF G
  <2>4. CASE s # "flight"
    <3>1. G \subseteq H
      BY <1>2, <1>3, <2>4 DEF HeadsInFlight
    <3> HIDE DEF H, G
    <3>4. Cardinality(G) <= Cardinality(H) /\ Cardinality(G) \in Nat
      BY <2>1, <3>1, FS_Subset, FS_CardinalityType
    <3>5. Cardinality(G) <= HeadWindow
      BY <2>1, <2>2, <3>4
    <3> QED
      BY <3>5 DEF G
  <2> QED
    BY <2>3, <2>4
<1>6. phase' \in [Segments -> Phases] /\ \A k \in Segments : phase'[k] = phase[k] \/ (phase[k] = "asleep" /\ phase'[k] = "check")
  BY <1>0 DEF ChainShapes, Woken, Asleep, Phases
<1>7. ChainShapes'
  BY <1>0, <1>1, <1>2, <1>3, <1>5, <1>6 DEF ChainShapes
<1>8. StitchesKept(Segments)
  BY <1>1 DEF StitchesKept
<1>9. ASSUME NEW k \in Segments PROVE SegmentAt(k)'
  <2>1. CASE phase'[k] = phase[k]
    <3>1. StitchesKept({k})
      BY <1>1 DEF StitchesKept
    <3> QED
      BY <1>0, <1>1, <1>4, <2>1, <3>1, SegmentKept
  <2>2. CASE phase[k] = "asleep" /\ phase'[k] = "check"
    <3>1. LinkAt(k, "asleep", link[k], parts[k], object[k]) /\ StitchedAt(k)
      BY <1>0, <2>2 DEF SegmentAt
    <3>2. LinkAt(k, "check", link[k], parts[k], object[k])
      BY <3>1 DEF LinkAt
    <3>3. LinkAt(k, phase[k], link[k], parts[k], object[k])'
      BY <1>1, <1>2, <2>2, <3>2
    <3>4. StitchedAt(k)'
      BY <1>1, <1>2, <3>1 DEF StitchedAt
    <3> QED
      BY <2>2, <3>3, <3>4 DEF SegmentAt, PastGate
  <2> QED
    BY <1>6, <2>1, <2>2
<1>10. HeadsFailed' => faulty'
  <2>1. HeadsFailed => faulty
    BY <1>0 DEF ChainAt
  <2> QED
    BY <1>2, <1>3, <2>1 DEF HeadsFailed
<1>11. ChainAt'
  BY <1>0, <1>1, <1>2, <1>10 DEF ChainAt
<1> QED
  BY <1>2, <1>7, <1>9, <1>11 DEF ChainInv

LEMMA HeadIssues == ASSUME ChainInv, IssueHead PROVE ChainInv'
<1>1. PICK n \in DOMAIN plan.order :
        head[plan.order[n]] = "todo" /\ head' = [head EXCEPT ![plan.order[n]] = "flight"]
  BY DEF IssueHead
<1>2. /\ handler = "build" /\ HeadRoom /\ UNCHANGED <<files, plan, handler, link, parts, object, stitched, archive>>
      /\ phase' = phase /\ faulty' = faulty
  BY DEF IssueHead, segmentVars
<1>3. faulty \in BOOLEAN
  BY DEF ChainInv, ChainShapes
<1> QED
  BY <1>1, <1>2, <1>3, HeadMoves

LEMMA HeadAnswered == ASSUME ChainInv, NEW i \in Ids, HeadEnds(i) PROVE ChainInv'
<1>1. /\ handler = "build" /\ head[i] = "flight"
      /\ UNCHANGED <<files, plan, handler, link, parts, object, stitched, archive>>
  BY DEF HeadEnds
<1>2. faulty \in BOOLEAN
  BY DEF ChainInv, ChainShapes
<1>3. CASE CallAnswered /\ head' = [head EXCEPT ![i] = "ok"] /\ phase' = Woken
  BY <1>1, <1>2, <1>3, HeadMoves DEF CallAnswered
<1>4. CASE CallFails /\ head' = [head EXCEPT ![i] = "failed"] /\ UNCHANGED phase
  BY <1>1, <1>2, <1>4, HeadMoves DEF CallFails
<1> QED
  BY <1>3, <1>4 DEF HeadEnds
-----------------------------------------------------------------------------
(* One segment moves *)

(* A function that changes at k only. *)
SameBut(f, g, k) == DOMAIN g = DOMAIN f /\ \A j \in DOMAIN f \ {k} : g[j] = f[j]

LEMMA SegmentMoves ==
  ASSUME ChainInv, NEW k \in Segments, handler = "build", OfSegment,
         NEW p \in Phases, Goto(k, p),
         SameBut(link, link', k), SameBut(parts, parts', k), SameBut(object, object', k),
         DOMAIN stitched' \subseteq 1 .. SegmentCount + 1, StitchesKept((1 .. SegmentCount + 1) \ {k}),
         faulty' \in BOOLEAN, faulty => faulty', SegmentAt(k)'
  PROVE  ChainInv'
<1>0. ChainPlanned /\ ChainShapes /\ ChainAt /\ \A j \in Segments : SegmentAt(j)
  BY DEF ChainInv
<1>1. UNCHANGED <<files, plan>> /\ UNCHANGED handler /\ UNCHANGED head /\ UNCHANGED archive
  BY DEF OfSegment
<1>2. /\ Segments' = Segments /\ SegmentCount' = SegmentCount /\ Ids' = Ids /\ Chained' = Chained
      /\ Directory' = Directory /\ ChainPlanned'
  BY <1>0, <1>1, ChainPlanKept
<1>3. Segments = 1 .. SegmentCount /\ SegmentCount \in Nat
  BY <1>0 DEF ChainPlanned
<1>4. phase' \in [Segments -> Phases] /\ \A j \in Segments \ {k} : phase'[j] = phase[j]
  BY <1>0 DEF ChainShapes, Goto
<1>5. DOMAIN link = Segments /\ DOMAIN parts = Segments /\ DOMAIN object = Segments
  BY <1>0 DEF ChainShapes
<1>6. ChainShapes'
  BY <1>0, <1>1, <1>2, <1>4, <1>5 DEF ChainShapes, HeadsInFlight, SameBut
<1>7. KnownKept
  BY <1>1, KnownSame
<1>8. ASSUME NEW j \in Segments, j # k PROVE SegmentAt(j)'
  <2>1. phase'[j] = phase[j] /\ link'[j] = link[j] /\ parts'[j] = parts[j] /\ object'[j] = object[j]
    BY <1>4, <1>5, <1>8 DEF SameBut
  <2>2. j \in (1 .. SegmentCount + 1) \ {k}
    BY <1>3, <1>8
  <2>3. StitchesKept({j})
    BY <2>2 DEF StitchesKept
  <2> QED
    BY <1>0, <1>1, <1>7, <2>1, <2>3, SegmentKept
<1>9. ChainAt'
  <2>1. SegmentCount + 1 \in (1 .. SegmentCount + 1) \ {k}
    BY <1>3
  <2>2. HeadsFailed' <=> HeadsFailed
    BY <1>1, <1>2 DEF HeadsFailed
  <2>3. SegmentCount + 1 \in DOMAIN stitched' => stitched'[SegmentCount + 1] = Directory
    BY <1>0, <2>1 DEF ChainAt, StitchesKept
  <2> QED
    BY <1>0, <1>1, <1>2, <2>2, <2>3 DEF ChainAt
<1>10. \A j \in Segments' : SegmentAt(j)'
  BY <1>2, <1>8
<1> QED
  BY <1>2, <1>6, <1>9, <1>10 DEF ChainInv

(* Most steps stitch nothing. *)
LEMMA SegmentBuilds ==
  ASSUME ChainInv, NEW k \in Segments, handler = "build", OfSegment,
         NEW p \in Phases \ {"ok"}, Goto(k, p), UNCHANGED stitched,
         SameBut(link, link', k), SameBut(parts, parts', k), SameBut(object, object', k),
         faulty' \in BOOLEAN, faulty => faulty', p = "failed" => faulty',
         p \in PastGate => Known(plan.segments[k].crcs),
         LinkAt(k, p, link'[k], parts'[k], object'[k])
  PROVE  ChainInv'
<1>0. ChainPlanned /\ ChainShapes /\ SegmentAt(k)
  BY DEF ChainInv
<1>1. UNCHANGED <<files, plan>> /\ UNCHANGED head
  BY DEF OfSegment
<1>2. /\ plan.segments' = plan.segments /\ ObjectOf(k)' = ObjectOf(k)
      /\ \A q, n, ps, o : LinkAt(k, q, n, ps, o)' <=> LinkAt(k, q, n, ps, o)
  BY <1>1, ChainPlanKept
<1>3. phase'[k] = p
  BY <1>0 DEF ChainShapes, Goto
<1>4. LinkAt(k, phase[k], link[k], parts[k], object[k])'
  BY <1>2, <1>3
<1>5. p \in PastGate => Known(plan.segments[k].crcs)'
  BY <1>1, <1>2 DEF Known
<1>6. StitchedAt(k)'
  BY <1>0, <1>2 DEF SegmentAt, StitchedAt
<1>7. SegmentAt(k)'
  BY <1>3, <1>4, <1>5, <1>6 DEF SegmentAt
<1>8. StitchesKept((1 .. SegmentCount + 1) \ {k}) /\ DOMAIN stitched' \subseteq 1 .. SegmentCount + 1
  BY <1>0 DEF StitchesKept, ChainShapes
<1> QED
  BY <1>7, <1>8, SegmentMoves

LEMMA SameItself == ASSUME NEW f, NEW k PROVE SameBut(f, f, k)
  BY DEF SameBut

LEMMA SegmentFails ==
  ASSUME ChainInv, NEW k \in Segments, handler = "build", OfSegment, Fails(k)
  PROVE  ChainInv'
<1>1. /\ faulty' = TRUE /\ Goto(k, "failed") /\ UNCHANGED stitched
      /\ link' = link /\ parts' = parts /\ object' = object
  BY DEF Fails, CallFails
<1>2. LinkAt(k, phase[k], link[k], parts[k], object[k])
  BY DEF ChainInv, SegmentAt
<1>3. LinkAt(k, "failed", link[k], parts[k], object[k])
  BY <1>2 DEF LinkAt
<1>4. SameBut(link, link', k) /\ SameBut(parts, parts', k) /\ SameBut(object, object', k)
  BY <1>1, SameItself
<1>5. "failed" \in Phases \ {"ok"} /\ "failed" \notin PastGate
  BY DEF Phases, PastGate
<1>6. LinkAt(k, "failed", link'[k], parts'[k], object'[k])
  BY <1>1, <1>3
<1> QED
  BY <1>1, <1>4, <1>5, <1>6, SegmentBuilds

LEMMA SegmentStarts ==
  ASSUME ChainInv, NEW k \in Segments, StartSegment(k) \/ Gate(k)
  PROVE  ChainInv'
<1>0. SegmentAt(k) /\ faulty \in BOOLEAN
  BY DEF ChainInv, ChainShapes
<1>1. /\ handler = "build" /\ OfSegment /\ UNCHANGED stitched /\ faulty' = faulty
      /\ link' = link /\ parts' = parts /\ object' = object /\ phase[k] \in {"todo", "check"}
  BY DEF StartSegment, Gate, Building
<1>2. PICK p \in {"check", "create", "asleep"} :
        Goto(k, p) /\ (p = "create" => Known(plan.segments[k].crcs))
  <2>1. CASE StartSegment(k)
    BY <2>1 DEF StartSegment
  <2>2. CASE Gate(k)
    BY <2>2 DEF Gate
  <2> QED
    BY <2>1, <2>2
<1>3. LinkAt(k, phase[k], link[k], parts[k], object[k])
  BY <1>0 DEF SegmentAt
<1>4. LinkAt(k, p, link[k], parts[k], object[k])
  BY <1>1, <1>3 DEF LinkAt
<1>5. SameBut(link, link', k) /\ SameBut(parts, parts', k) /\ SameBut(object, object', k)
  BY <1>1, SameItself
<1>6. p \in Phases \ {"ok"} /\ (p \in PastGate => p = "create") /\ p # "failed"
  BY DEF Phases, PastGate
<1>7. LinkAt(k, p, link'[k], parts'[k], object'[k])
  BY <1>1, <1>4
<1> QED
  BY <1>0, <1>1, <1>2, <1>5, <1>6, <1>7, SegmentBuilds

(* A part is added to the link, or the upload is created: only parts change. *)
LEMMA PartsMove ==
  ASSUME ChainInv, NEW k \in Segments, handler = "build", OfSegment, phase[k] \in PastGate,
         NEW p \in PastGate \ {"ok"}, Goto(k, p), UNCHANGED <<link, object, stitched, faulty>>,
         NEW ps, parts' = [parts EXCEPT ![k] = ps], LinkAt(k, p, link[k], ps, object[k])
  PROVE  ChainInv'
<1>0. ChainShapes /\ SegmentAt(k) /\ faulty \in BOOLEAN
  BY DEF ChainInv, ChainShapes
<1>1. link' = link /\ object' = object /\ UNCHANGED stitched /\ faulty' = faulty
  OBVIOUS
<1>2. Known(plan.segments[k].crcs)
  BY <1>0 DEF SegmentAt
<1>3. parts'[k] = ps /\ SameBut(parts, parts', k)
  BY <1>0 DEF ChainShapes, SameBut
<1>4. SameBut(link, link', k) /\ SameBut(object, object', k)
  BY <1>1, SameItself
<1>5. p \in Phases \ {"ok"} /\ p # "failed"
  BY DEF Phases, PastGate
<1>6. LinkAt(k, p, link'[k], parts'[k], object'[k])
  <2>1. link'[k] = link[k] /\ object'[k] = object[k] /\ parts'[k] = ps
    BY <1>1, <1>3
  <2> QED
    BY <2>1
<1>7. faulty' \in BOOLEAN /\ (faulty => faulty') /\ (p = "failed" => faulty')
      /\ (p \in PastGate => Known(plan.segments[k].crcs)) /\ UNCHANGED stitched
  BY <1>0, <1>1, <1>2, <1>5
<1>8. SameBut(link, link', k) /\ SameBut(parts, parts', k) /\ SameBut(object, object', k)
  BY <1>3, <1>4
<1>9. OfSegment /\ Goto(k, p) /\ handler = "build" /\ ChainInv /\ k \in Segments /\ p \in Phases \ {"ok"}
  BY <1>5
<1> QED
  BY <1>6, <1>7, <1>8, <1>9, SegmentBuilds

LEMMA LinkCreated == ASSUME ChainInv, NEW k \in Segments, CreateLink(k) PROVE ChainInv'
<1>1. handler = "build" /\ phase[k] = "create" /\ OfSegment
  BY DEF CreateLink, Building
<1>2. CASE Fails(k)
  BY <1>1, <1>2, SegmentFails
<1>3. CASE /\ CallAnswered /\ Goto(k, "first") /\ parts' = [parts EXCEPT ![k] = <<>>]
           /\ UNCHANGED <<link, object, stitched>>
  <2>1. LinkAt(k, phase[k], link[k], parts[k], object[k])
    BY DEF ChainInv, SegmentAt
  <2>2. LinkAt(k, "first", link[k], <<>>, object[k])
    <3>1. Len(<<>>) = 0
      OBVIOUS
    <3> QED
      BY <1>1, <2>1, <3>1 DEF LinkAt
  <2>3. "first" \in PastGate \ {"ok"} /\ phase[k] \in PastGate /\ UNCHANGED <<link, object, stitched, faulty>>
    BY <1>1, <1>3 DEF PastGate, CallAnswered
  <2> QED
    BY <1>1, <1>3, <2>2, <2>3, PartsMove
<1> QED
  BY <1>2, <1>3 DEF CreateLink
-----------------------------------------------------------------------------
(* The parts of a link *)

LEMMA AppendOne ==
  ASSUME NEW x, NEW y
  PROVE  Append(<<x>>, y) = <<x, y>>
<1> DEFINE T == {x, y}
           s == <<x>>
<1>1. x \in T /\ y \in T
  OBVIOUS
<1> HIDE DEF T
<1>2. s \in Seq(T) /\ Len(s) = 1 /\ s[1] = x
  BY <1>1
<1> HIDE DEF s
<1> DEFINE a == Append(s, y)
<1>3. a \in Seq(T) /\ Len(a) = Len(s) + 1 /\ a[Len(s) + 1] = y /\ \A i \in 1 .. Len(s) : a[i] = s[i]
  <2>1. s \in Seq(T) /\ y \in T
    BY <1>1, <1>2
  <2>2. /\ Append(s, y) \in Seq(T) /\ Len(Append(s, y)) = Len(s) + 1 /\ Append(s, y)[Len(s) + 1] = y
        /\ \A i \in 1 .. Len(s) : Append(s, y)[i] = s[i]
    BY <2>1, AppendProperties
  <2> QED
    BY <2>2
<1> HIDE DEF a
<1>4. Len(a) = 2 /\ a[1] = x /\ a[2] = y
  BY <1>2, <1>3
<1>5. DOMAIN a = 1 .. 2 /\ a = [i \in 1 .. 2 |-> a[i]]
  BY <1>3, <1>4, LenProperties, ElementOfSeq
<1> DEFINE b == <<x, y>>
<1>6. b = [i \in 1 .. 2 |-> b[i]] /\ b[1] = x /\ b[2] = y
  OBVIOUS
<1> HIDE DEF b
<1>7. a = b
  BY <1>4, <1>5, <1>6
<1> QED
  BY <1>7 DEF a, b, s

LEMMA LinkFacts ==
  ASSUME ChainInv, NEW k \in Segments
  PROVE  /\ link[k] \in 1 .. LinkCount(k) /\ Link(k) = LinkOf(k, link[k]) /\ SegmentFits(k)
         /\ LinkFits(k, link[k]) /\ LinkAt(k, phase[k], link[k], parts[k], object[k])
         /\ phase[k] \in PastGate => Known(plan.segments[k].crcs)
<1>1. SegmentAt(k) /\ SegmentFits(k)
  BY DEF ChainInv, ChainPlanned
<1>2. LinkAt(k, phase[k], link[k], parts[k], object[k]) /\ (phase[k] \in PastGate => Known(plan.segments[k].crcs))
  BY <1>1 DEF SegmentAt
<1>3. link[k] \in 1 .. LinkCount(k)
  BY <1>2 DEF LinkAt
<1>4. LinkFits(k, link[k])
  BY <1>1, <1>3 DEF SegmentFits
<1>5. Link(k) = LinkOf(k, link[k])
  BY DEF Link, LinkOf
<1> QED
  BY <1>1, <1>2, <1>3, <1>4, <1>5

(* The first part is what the plan starts the link from: in a link that is not  *)
(* the first, the object that the link before it completed.                     *)
LEMMA FirstPartIs ==
  ASSUME ChainInv, NEW k \in Segments, phase[k] = "first"
  PROVE  FirstPart(k) = FirstBytes(k, link[k])
<1> DEFINE l == LinkOf(k, link[k])
           a == plan.segments[k].anchor
<1>1. Link(k) = l /\ LinkFits(k, link[k]) /\ LinkAt(k, "first", link[k], parts[k], object[k])
  BY LinkFacts
<1>2. l.first \in {"bootstrap", "anchor", "previous"} /\ (l.first = "previous" <=> link[k] # 1)
  BY <1>1 DEF LinkFits
<1>3. CASE l.first = "bootstrap"
  <2>1. FirstPart(k) = Bytes(Header(a)) \o Bytes(BodySlice(a, 0, l.append[1].from))
    BY <1>1, <1>3 DEF FirstPart
  <2>2. FirstBytes(k, link[k]) = Base(a, l)
    BY <1>3 DEF FirstBytes
  <2> QED
    BY <1>3, <2>1, <2>2 DEF Base
<1>4. CASE l.first = "anchor"
  <2>1. FirstPart(k) = Bytes(Body(a))
    BY <1>1, <1>4 DEF FirstPart
  <2>2. FirstBytes(k, link[k]) = Base(a, l)
    BY <1>4 DEF FirstBytes
  <2> QED
    BY <1>4, <2>1, <2>2 DEF Base
<1>5. CASE l.first = "previous"
  <2>1. FirstPart(k) = object[k]
    BY <1>1, <1>5 DEF FirstPart
  <2>2. FirstBytes(k, link[k]) = Built(k, link[k] - 1)
    BY <1>5 DEF FirstBytes
  <2>3. object[k] = Built(k, link[k] - 1)
    BY <1>1, <1>2, <1>5 DEF LinkAt
  <2> QED
    BY <2>1, <2>2, <2>3
<1> QED
  BY <1>2, <1>3, <1>4, <1>5

(* A part that is answered. *)
LEMMA PartUploaded ==
  ASSUME ChainInv, NEW k \in Segments, handler = "build", OfSegment, phase[k] \in PastGate,
         NEW p \in PastGate \ {"ok"}, NEW b, Uploaded(k, b, p),
         LinkAt(k, p, link[k], Append(parts[k], b), object[k])
  PROVE  ChainInv'
<1> DEFINE ps == Append(parts[k], b)
<1>1. Goto(k, p) /\ UNCHANGED <<link, object, stitched, faulty>> /\ parts' = [parts EXCEPT ![k] = ps]
  BY DEF Uploaded, CallAnswered
<1>2. LinkAt(k, p, link[k], ps, object[k])
  OBVIOUS
<1> HIDE DEF ps
<1> QED
  BY <1>1, <1>2, PartsMove

LEMMA FirstUploaded == ASSUME ChainInv, NEW k \in Segments, UploadFirst(k) PROVE ChainInv'
<1> DEFINE n == link[k]
           first == FirstBytes(k, n)
           append == LinkOf(k, n).append
           next == IF append = <<>> THEN "complete" ELSE "append"
<1>1. handler = "build" /\ phase[k] = "first" /\ OfSegment /\ phase[k] \in PastGate
  BY DEF UploadFirst, Building, PastGate
<1>2. /\ Link(k) = LinkOf(k, n) /\ LinkFits(k, n) /\ SegmentFits(k) /\ Known(plan.segments[k].crcs)
      /\ LinkAt(k, "first", n, parts[k], object[k])
  BY <1>1, LinkFacts
<1>3. Known({plan.segments[k].anchor})
  BY <1>2 DEF Known, SegmentFits
<1>4. FirstPart(k) = first
  BY <1>1, FirstPartIs
<1>5. Uploaded(k, first, next) \/ Fails(k)
  BY <1>2, <1>3, <1>4 DEF UploadFirst, NeedsCrc
<1>6. CASE Fails(k)
  BY <1>1, <1>6, SegmentFails
<1>7. CASE Uploaded(k, first, next)
  <2>1. next \in PastGate \ {"ok"}
    BY DEF PastGate
  <2>2. Append(parts[k], first) = <<first>>
    <3>1. parts[k] = <<>>
      BY <1>2 DEF LinkAt
    <3> HIDE DEF first
    <3> QED
      BY <3>1
  <2>3. LinkAt(k, next, n, <<first>>, object[k])
    <3>1. Len(<<first>>) = 1
      <4> HIDE DEF first
      <4> QED
        OBVIOUS
    <3>2. n \in 1 .. LinkCount(k) /\ (n # 1 => object[k] = Built(k, n - 1))
      BY <1>2 DEF LinkAt
    <3>3. next \in {"complete", "append"} /\ (next = "append" <=> append # <<>>)
      OBVIOUS
    <3>4. <<first>> = <<FirstBytes(k, n)>> /\ append = LinkOf(k, n).append
      OBVIOUS
    <3> HIDE DEF first, append, next, n
    <3> QED
      BY <3>1, <3>2, <3>3, <3>4 DEF LinkAt
  <2> HIDE DEF next, first
  <2> QED
    BY <1>1, <1>7, <2>1, <2>2, <2>3, PartUploaded
<1> QED
  BY <1>5, <1>6, <1>7

LEMMA PieceAppended == ASSUME ChainInv, NEW k \in Segments, AppendPiece(k) PROVE ChainInv'
<1> DEFINE n == link[k]
           first == FirstBytes(k, n)
           append == LinkOf(k, n).append
           x == append[1]
<1>1. handler = "build" /\ phase[k] = "append" /\ OfSegment /\ phase[k] \in PastGate
  BY DEF AppendPiece, Building, PastGate
<1>2. /\ Link(k) = LinkOf(k, n) /\ LinkFits(k, n) /\ Known(plan.segments[k].crcs)
      /\ LinkAt(k, "append", n, parts[k], object[k])
  BY <1>1, LinkFacts
<1>3. append # <<>> /\ append = <<x>> /\ parts[k] = <<first>>
  BY <1>2 DEF LinkAt, LinkFits
<1>4. Head(append) = x
  BY <1>3
<1>5. x.of = "header" => x.id \in plan.segments[k].crcs
  BY <1>2, <1>3 DEF LinkFits
<1>6. x.of = "header" => Known({x.id})
  BY <1>2, <1>5 DEF Known
<1>7. Uploaded(k, Bytes(x), "complete") \/ Fails(k)
  BY <1>2, <1>4, <1>6 DEF AppendPiece, NeedsCrc
<1>8. CASE Fails(k)
  BY <1>1, <1>8, SegmentFails
<1>9. CASE Uploaded(k, Bytes(x), "complete")
  <2> DEFINE b == Bytes(x)
             ps == <<first, b>>
  <2>1. "complete" \in PastGate \ {"ok"}
    BY DEF PastGate
  <2>2. Append(parts[k], b) = ps
    <3>1. parts[k] = <<first>>
      BY <1>3
    <3>2. Append(<<first>>, b) = <<first, b>>
      BY AppendOne
    <3> HIDE DEF first, b
    <3> QED
      BY <3>1, <3>2
  <2>3. LinkAt(k, "complete", n, ps, object[k])
    <3>1. Len(ps) = 2 /\ ps[1] = first
      <4> HIDE DEF first, b
      <4> QED
        OBVIOUS
    <3>2. n \in 1 .. LinkCount(k) /\ (n # 1 => object[k] = Built(k, n - 1))
      BY <1>2 DEF LinkAt
    <3>3. Len(first) >= Floor
      BY <1>2 DEF LinkFits
    <3>4. ps = <<FirstBytes(k, n), Bytes(LinkOf(k, n).append[1])>> /\ LinkOf(k, n).append # <<>>
      BY <1>3
    <3> HIDE DEF ps, n
    <3> QED
      BY <3>1, <3>2, <3>3, <3>4 DEF LinkAt
  <2> HIDE DEF ps, b
  <2>4. Uploaded(k, b, "complete") /\ LinkAt(k, "complete", link[k], Append(parts[k], b), object[k])
    BY <1>9, <2>2, <2>3 DEF b
  <2> QED
    BY <1>1, <2>1, <2>4, PartUploaded
<1> QED
  BY <1>7, <1>8, <1>9
-----------------------------------------------------------------------------
(* The completion of a link, and the stitch *)

(* The parts of a link, joined, are the object so far. *)
LEMMA LinkJoins ==
  ASSUME ChainInv, NEW k \in Segments, phase[k] = "complete"
  PROVE  FlattenSeq(parts[k]) = Built(k, link[k])
<1> DEFINE n == link[k]
           first == FirstBytes(k, n)
           l == LinkOf(k, n)
<1>1. LinkFits(k, n) /\ LinkAt(k, "complete", n, parts[k], object[k])
  BY LinkFacts
<1>2. first \in Seq(AnyByte) /\ first \o Added(l) = Built(k, n)
  BY <1>1 DEF LinkFits
<1>3. parts[k] = IF l.append = <<>> THEN <<first>> ELSE <<first, Bytes(l.append[1])>>
  BY <1>1 DEF LinkAt
<1>4. l.append = <<>> \/ l.append[1] \in SliceSet
  BY <1>1 DEF LinkFits
<1>5. CASE l.append = <<>>
  <2>1. FlattenSeq(parts[k]) = first
    <3>1. parts[k] = <<first>>
      BY <1>3, <1>5
    <3> QED
      BY <3>1, FlattenOne
  <2>2. Added(l) = <<>>
    BY <1>5 DEF Added
  <2>3. first \o <<>> = first
    <3> HIDE DEF first
    <3> QED
      BY <1>2
  <2> QED
    BY <1>2, <2>1, <2>2, <2>3
<1>6. CASE l.append # <<>>
  <2> DEFINE b == Bytes(l.append[1])
             s == <<first>>
  <2>1. b \in Seq(AnyByte)
    BY <1>4, <1>6, BytesType
  <2>2. parts[k] = <<first, b>>
    BY <1>3, <1>6
  <2>3. Added(l) = b
    BY <1>6 DEF Added
  <2> HIDE DEF b
  <2>4. s \in Seq(Seq(AnyByte)) /\ <<first, b>> = Append(s, b)
    <3> HIDE DEF first
    <3> QED
      BY <1>2
  <2>5. FlattenSeq(s) = first
    BY FlattenOne
  <2> HIDE DEF s, first
  <2>6. FlattenSeq(Append(s, b)) = FlattenSeq(s) \o b
    BY <2>1, <2>4, FlattenAppend
  <2> QED
    BY <1>2, <2>2, <2>3, <2>4, <2>5, <2>6
<1> QED
  BY <1>5, <1>6

LEMMA LinkCompleted == ASSUME ChainInv, NEW k \in Segments, CompleteLink(k) PROVE ChainInv'
<1> DEFINE n == link[k]
           b == Built(k, n)
<1>1. handler = "build" /\ phase[k] = "complete" /\ OfSegment /\ phase[k] \in PastGate
  BY DEF CompleteLink, Building, PastGate
<1>2. /\ n \in 1 .. LinkCount(k) /\ SegmentFits(k) /\ Known(plan.segments[k].crcs)
      /\ LinkAt(k, "complete", n, parts[k], object[k])
  BY <1>1, LinkFacts
<1>3. FlattenSeq(parts[k]) = b
  BY <1>1, LinkJoins
<1>4. CASE Fails(k)
  BY <1>1, <1>4, SegmentFails
<1>5. CASE /\ CallAnswered
           /\ object' = [object EXCEPT ![k] = FlattenSeq(parts[k])]
           /\ IF link[k] = Len(plan.segments[k].links) THEN Goto(k, "stitch") /\ UNCHANGED link
              ELSE Goto(k, "create") /\ link' = [link EXCEPT ![k] = @ + 1]
           /\ UNCHANGED <<parts, stitched>>
  <2>1. DOMAIN link = Segments /\ DOMAIN object = Segments /\ faulty \in BOOLEAN
    BY DEF ChainInv, ChainShapes
  <2>2. object'[k] = b /\ SameBut(object, object', k) /\ SameBut(parts, parts', k)
        /\ parts' = parts /\ UNCHANGED stitched /\ faulty' = faulty
    BY <1>3, <1>5, <2>1 DEF SameBut, CallAnswered
  <2>3. Len(parts[k]) \in 0 .. 2 /\ (Len(parts[k]) = 2 => Len(parts[k][1]) >= Floor)
    BY <1>2 DEF LinkAt
  <2>4. LinkCount(k) \in Nat /\ Built(k, LinkCount(k)) = ObjectOf(k)
    BY <1>2 DEF SegmentFits
  <2>5. CASE n = LinkCount(k)
    <3>1. Goto(k, "stitch") /\ link' = link
      BY <1>5, <2>5 DEF LinkCount
    <3>2. LinkAt(k, "stitch", n, parts[k], b)
      <4>1. b = ObjectOf(k)
        BY <2>4, <2>5
      <4> HIDE DEF b, n
      <4> QED
        BY <1>2, <2>3, <4>1 DEF LinkAt
    <3>3. LinkAt(k, "stitch", link'[k], parts'[k], object'[k])
      BY <2>2, <3>1, <3>2
    <3>4. "stitch" \in Phases \ {"ok"} /\ SameBut(link, link', k)
      BY <3>1, SameItself DEF Phases, PastGate
    <3>5. faulty' \in BOOLEAN /\ (faulty => faulty')
      BY <2>1, <2>2
    <3> QED
      BY <1>1, <1>2, <2>2, <3>1, <3>3, <3>4, <3>5, SegmentBuilds
  <2>6. CASE n # LinkCount(k)
    <3>1. Goto(k, "create") /\ link' = [link EXCEPT ![k] = n + 1]
      BY <1>5, <2>6 DEF LinkCount
    <3>2. link'[k] = n + 1 /\ SameBut(link, link', k)
      BY <2>1, <3>1 DEF SameBut
    <3>3. LinkAt(k, "create", n + 1, parts[k], b)
      <4>1. n + 1 \in 1 .. LinkCount(k)
        BY <1>2, <2>4, <2>6
      <4>2. b = Built(k, (n + 1) - 1)
        <5>1. (n + 1) - 1 = n
          BY <1>2
        <5> QED
          BY <5>1
      <4> DEFINE m == n + 1
      <4> HIDE DEF b, m
      <4>3. m \in 1 .. LinkCount(k) /\ b = Built(k, m - 1)
        BY <4>1, <4>2 DEF m
      <4>4. LinkAt(k, "create", m, parts[k], b)
        BY <2>3, <4>3 DEF LinkAt
      <4> QED
        BY <4>4 DEF m
    <3>4. LinkAt(k, "create", link'[k], parts'[k], object'[k])
      BY <2>2, <3>2, <3>3
    <3>5. "create" \in Phases \ {"ok"}
      BY DEF Phases, PastGate
    <3>6. faulty' \in BOOLEAN /\ (faulty => faulty')
      BY <2>1, <2>2
    <3> QED
      BY <1>1, <1>2, <2>2, <3>1, <3>2, <3>4, <3>5, <3>6, SegmentBuilds
  <2> QED
    BY <2>5, <2>6
<1> QED
  BY <1>4, <1>5 DEF CompleteLink

LEMMA SegmentStitched == ASSUME ChainInv, NEW k \in Segments, StitchSegment(k) PROVE ChainInv'
<1>1. handler = "build" /\ phase[k] = "stitch" /\ OfSegment /\ phase[k] \in PastGate
  BY DEF StitchSegment, Building, PastGate
<1>2. /\ Known(plan.segments[k].crcs) /\ LinkAt(k, "stitch", link[k], parts[k], object[k])
  BY <1>1, LinkFacts
<1>3. CASE Fails(k)
  BY <1>1, <1>3, SegmentFails
<1>4. CASE /\ CallAnswered /\ Goto(k, "ok")
           /\ stitched' = [n \in DOMAIN stitched \cup {StitchPart(k)} |->
                             IF n = StitchPart(k) THEN object[k] ELSE stitched[n]]
           /\ UNCHANGED <<link, parts, object>>
  <2>1. /\ faulty' = faulty /\ link' = link /\ parts' = parts /\ object' = object
        /\ DOMAIN stitched' = DOMAIN stitched \cup {k} /\ stitched'[k] = object[k]
        /\ \A n \in DOMAIN stitched \ {k} : stitched'[n] = stitched[n]
    BY <1>4 DEF CallAnswered, StitchPart
  <2>2. faulty \in BOOLEAN /\ phase \in [Segments -> Phases] /\ DOMAIN stitched \subseteq 1 .. SegmentCount + 1
        /\ Segments = 1 .. SegmentCount /\ SegmentCount \in Nat
    BY DEF ChainInv, ChainShapes, ChainPlanned
  <2>3. phase'[k] = "ok" /\ "ok" \in Phases
    BY <1>4, <2>2 DEF Goto, Phases, PastGate
  <2>4. UNCHANGED <<files, plan>> /\ UNCHANGED head
    BY <1>1 DEF OfSegment
  <2>5. /\ plan.segments' = plan.segments /\ ObjectOf(k)' = ObjectOf(k)
        /\ \A q, n, ps, o : LinkAt(k, q, n, ps, o)' <=> LinkAt(k, q, n, ps, o)
    BY <2>4, ChainPlanKept
  <2>6. object[k] = ObjectOf(k)
    BY <1>2 DEF LinkAt
  <2>7. SegmentAt(k)'
    <3>1. LinkAt(k, "ok", link[k], parts[k], object[k])
      BY <1>2 DEF LinkAt
    <3>2. LinkAt(k, phase[k], link[k], parts[k], object[k])'
      BY <2>1, <2>3, <2>5, <3>1
    <3>3. Known(plan.segments[k].crcs)'
      BY <1>2, <2>4, <2>5 DEF Known
    <3>4. StitchedAt(k)'
      BY <2>1, <2>5, <2>6 DEF StitchedAt
    <3> QED
      BY <2>1, <2>3, <3>2, <3>3, <3>4 DEF SegmentAt
  <2>8. DOMAIN stitched' \subseteq 1 .. SegmentCount + 1
    <3>1. k \in 1 .. SegmentCount + 1
      BY <2>2
    <3> QED
      BY <2>1, <2>2, <3>1
  <2>9. StitchesKept((1 .. SegmentCount + 1) \ {k})
    BY <2>1 DEF StitchesKept
  <2>10. SameBut(link, link', k) /\ SameBut(parts, parts', k) /\ SameBut(object, object', k)
    BY <2>1, SameItself
  <2>11. faulty' \in BOOLEAN /\ (faulty => faulty') /\ Goto(k, "ok") /\ "ok" \in Phases
    BY <1>4, <2>1, <2>2, <2>3
  <2> QED
    BY <1>1, <2>7, <2>8, <2>9, <2>10, <2>11, SegmentMoves
<1> QED
  BY <1>3, <1>4 DEF StitchSegment
-----------------------------------------------------------------------------
(* The theorems about figment-engine-chain *)

LEMMA ChainStep == ChainInv /\ [ChainNext]_chainVars => ChainInv'
<1> SUFFICES ASSUME ChainInv, [ChainNext]_chainVars PROVE ChainInv'
  OBVIOUS
<1>1. CASE RunStep
  BY <1>1, ChainCalls, DirectoryUploads, StitchCompletes DEF RunStep
<1>2. CASE IssueHead
  BY <1>2, HeadIssues
<1>3. ASSUME NEW i \in Ids, HeadEnds(i) PROVE ChainInv'
  BY <1>3, HeadAnswered
<1>4. ASSUME NEW k \in Segments, SegmentStep(k) PROVE ChainInv'
  <2>1. CASE StartSegment(k) \/ Gate(k)
    BY <2>1, SegmentStarts
  <2>2. CASE CreateLink(k)
    BY <2>2, LinkCreated
  <2>3. CASE UploadFirst(k)
    BY <2>3, FirstUploaded
  <2>4. CASE AppendPiece(k)
    BY <2>4, PieceAppended
  <2>5. CASE CompleteLink(k)
    BY <2>5, LinkCompleted
  <2>6. CASE StitchSegment(k)
    BY <2>6, SegmentStitched
  <2> QED
    BY <1>4, <2>1, <2>2, <2>3, <2>4, <2>5, <2>6 DEF SegmentStep
<1>5. CASE UNCHANGED chainVars
  <2>1. UNCHANGED <<files, plan, head, segmentVars, stitched, archive>> /\ handler' = handler /\ faulty' = faulty
    BY <1>5 DEF chainVars
  <2>2. UNCHANGED <<files, plan>> /\ UNCHANGED head /\ UNCHANGED phase /\ UNCHANGED stitched /\ UNCHANGED archive
        /\ UNCHANGED link /\ UNCHANGED parts /\ UNCHANGED object
    BY <2>1 DEF segmentVars
  <2>3. Segments' = Segments /\ SegmentCount' = SegmentCount /\ Ids' = Ids /\ Chained' = Chained /\ Directory' = Directory
    BY <2>2, ChainPlanKept
  <2>4. KnownKept /\ StitchesKept(Segments)
    BY <2>2, KnownSame DEF StitchesKept
  <2>5. ChainPlanned' /\ \A k \in Segments' : SegmentAt(k)'
    BY <2>1, <2>3, <2>4, SegmentsKept
  <2>6. ChainShapes /\ ChainAt
    BY DEF ChainInv
  <2>7. ChainShapes'
    BY <2>1, <2>2, <2>3, <2>6 DEF ChainShapes, HeadsInFlight
  <2>8. HeadsFailed' <=> HeadsFailed
    BY <2>2, <2>3 DEF HeadsFailed
  <2>9. (\A k \in Segments : Ended(k)) <=> (\A k \in Segments : Ended(k))'
    BY <2>2, <2>3 DEF Ended
  <2>10. ChainAt'
    BY <2>1, <2>2, <2>3, <2>6, <2>8, <2>9 DEF ChainAt
  <2> QED
    BY <2>5, <2>7, <2>10 DEF ChainInv
<1> QED
  BY <1>1, <1>2, <1>3, <1>4, <1>5 DEF ChainNext

LEMMA ChainAlways == ChainSpec => []ChainInv
<1> QED
  BY ChainStart, ChainStep, PTL DEF ChainSpec

LEMMA ChainLegal == ASSUME ChainInv PROVE LinksLegal
<1>0. ChainPlanned /\ ChainShapes /\ ChainAt /\ \A k \in Segments : SegmentAt(k)
  BY DEF ChainInv
<1>1. Phases = {"todo", "check", "asleep", "create", "first", "append", "complete", "stitch", "ok", "failed"}
  BY DEF Phases, PastGate
<1>2. ASSUME NEW k \in Segments
      PROVE  /\ link[k] \in DOMAIN plan.segments[k].links /\ Len(parts[k]) <= 2
             /\ Len(parts[k]) = 2 => Len(parts[k][1]) >= Floor
             /\ k \in DOMAIN stitched => Len(stitched[k]) >= Floor /\ Len(stitched[k]) = plan.segments[k].length
  <2>1. LinkAt(k, phase[k], link[k], parts[k], object[k]) /\ StitchedAt(k)
    BY <1>0 DEF SegmentAt
  <2>2. SegmentFits(k)
    BY <1>0 DEF ChainPlanned
  <2>3. link[k] \in 1 .. LinkCount(k) /\ Len(parts[k]) \in 0 .. 2 /\ (Len(parts[k]) = 2 => Len(parts[k][1]) >= Floor)
    BY <2>1 DEF LinkAt
  <2>4. DOMAIN plan.segments[k].links = 1 .. LinkCount(k)
    BY <2>2 DEF SegmentFits
  <2>5. Len(ObjectOf(k)) = plan.segments[k].length /\ plan.segments[k].length >= Floor
    BY <2>2 DEF SegmentFits
  <2>6. k \in DOMAIN stitched => stitched[k] = ObjectOf(k)
    BY <2>1 DEF StitchedAt
  <2>7. k \in DOMAIN stitched => Len(stitched[k]) >= Floor /\ Len(stitched[k]) = plan.segments[k].length
    BY <2>5, <2>6
  <2>8. Len(parts[k]) <= 2
    <3> DEFINE m == Len(parts[k])
    <3>1. m \in 0 .. 2
      BY <2>3
    <3> HIDE DEF m
    <3>2. m <= 2
      BY <3>1
    <3> QED
      BY <3>2 DEF m
  <2> QED
    BY <2>3, <2>4, <2>7, <2>8
<1>3. ChainTypeOK
  BY <1>0, <1>1, <1>2 DEF ChainTypeOK, ChainPlanned, ChainShapes, ChainAt
<1>4. Segments # {} => SumFunction([k \in Segments |-> plan.segments[k].length]) = plan.directory
  BY <1>0 DEF ChainPlanned
<1> QED
  BY <1>2, <1>3, <1>4 DEF LinksLegal

(* No link and no stitch of any segment is one that S3 refuses, in whatever order   *)
(* segments are woken and completed, and the segments have the lengths that the     *)
(* plan's assertions add up to the offset of the directory.                         *)
THEOREM ChainLinksLegal == ChainSpec => []LinksLegal
<1>1. ChainInv => LinksLegal
  BY ChainLegal
<1> QED
  BY <1>1, ChainAlways, PTL

(* An archive that figment-engine-chain leaves, even behind a completion that was   *)
(* reported as failed, leads to one record for every file, and the file is there,   *)
(* whole; with the two exceptions of EngineArchiveReadable.                         *)
THEOREM ChainArchiveReadable == ChainSpec => []ArchiveReadable
<1>1. ChainInv => ArchiveReadable
  BY DEF ChainInv, ChainAt, ChainPlanned, ArchiveReadable
<1> QED
  BY <1>1, ChainAlways, PTL

(* The safety half of RunHasCause: a run that ends with an error has seen a call    *)
(* fail for good. No segment is built before the CRCs that meta_of asks for.        *)
THEOREM ChainErrorHasCause == ChainSpec => [](handler = "error" => faulty)
<1>1. ChainInv => (handler = "error" => faulty)
  BY DEF ChainInv, ChainAt
<1> QED
  BY <1>1, ChainAlways, PTL
=============================================================================
