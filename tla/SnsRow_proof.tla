---------------------------- MODULE SnsRow_proof ----------------------------
(***************************************************************************)
(* What the jobs read out of a transaction is exactly what it does, for    *)
(* any transaction; the row of a domain is type correct, and no row comes  *)
(* into being before the domain is registered, for any number of workers,  *)
(* signatures, slots and faults.                                           *)
(***************************************************************************)
EXTENDS SnsRow, RecursionFacts, SequenceTheorems, TLAPS

-----------------------------------------------------------------------------
(***************************************************************************)
(* The parsers.  matched is what each instruction matches, one domain of E *)
(* at most; the matches so far name each of the domains once.              *)
(***************************************************************************)
Matched(E) == {m \in Seq(SUBSET E) : \A i \in 1 .. Len(m) : \A d, e \in m[i] : d = e}

(* How the loop goes on after the n-th instruction, in the form of RecursionExists. *)
Considering(E, matched) ==
    [p \in Seq(E) \X Nat |->
        IF p[2] + 1 \in 1 .. Len(matched)
        THEN IF matched[p[2] + 1] \subseteq Range(p[1]) THEN p[1]
             ELSE Append(p[1], CHOOSE domain \in matched[p[2] + 1] : TRUE)
        ELSE p[1]]

LoopBody(f, matched) ==
    [n \in 0 .. Len(matched) |->
        IF n = 0 THEN <<>>
        ELSE IF matched[n] \subseteq Range(f[n - 1]) THEN f[n - 1]
        ELSE Append(f[n - 1], CHOOSE domain \in matched[n] : TRUE)]

LEMMA LoopExists ==
    ASSUME NEW E, NEW matched \in Matched(E)
    PROVE  \E f : f = LoopBody(f, matched)
<1> DEFINE step == Considering(E, matched)
<1>1. matched \in Seq(SUBSET E) /\ Len(matched) \in Nat
  BY DEF Matched
<1>2. <<>> \in Seq(E) /\ step \in [Seq(E) \X Nat -> Seq(E)]
  <2>1. ASSUME NEW s \in Seq(E), NEW n \in Nat PROVE step[<<s, n>>] \in Seq(E)
    <3>1. CASE n + 1 \in 1 .. Len(matched) /\ ~ (matched[n + 1] \subseteq Range(s))
      <4>1. matched[n + 1] \in SUBSET E /\ matched[n + 1] # {}
        BY <1>1, <3>1, ElementOfSeq
      <4> DEFINE d == CHOOSE domain \in matched[n + 1] : TRUE
      <4>2. d \in E
        BY <4>1
      <4>3. step[<<s, n>>] = Append(s, d)
        BY <3>1 DEF Considering
      <4> HIDE DEF d, step
      <4> QED
        BY <4>2, <4>3, AppendProperties
    <3>2. CASE ~ (n + 1 \in 1 .. Len(matched) /\ ~ (matched[n + 1] \subseteq Range(s)))
      BY <3>2 DEF Considering
    <3> QED
      BY <3>1, <3>2
  <2>2. step = [p \in Seq(E) \X Nat |-> step[p]]
    BY DEF Considering
  <2> HIDE DEF step
  <2>3. \A p \in Seq(E) \X Nat : step[p] \in Seq(E)
    BY <2>1
  <2> QED
    BY <2>2, <2>3
<1>3. PICK f : f \in Recursive(Seq(E), <<>>, step)
  <2> HIDE DEF step
  <2> QED
    BY <1>2, RecursionExists
<1> DEFINE g == [n \in 0 .. Len(matched) |-> f[n]]
<1>4. \A n \in 0 .. Len(matched) : g[n] = LoopBody(g, matched)[n]
  <2>1. g[0] = <<>> /\ LoopBody(g, matched)[0] = <<>>
    BY <1>1, <1>3 DEF Recursive, LoopBody
  <2>2. ASSUME NEW n \in 0 .. Len(matched), n # 0 PROVE g[n] = LoopBody(g, matched)[n]
    <3>1. /\ n - 1 \in Nat /\ n - 1 \in 0 .. Len(matched)
          /\ (n - 1) + 1 = n /\ n \in 1 .. Len(matched)
      BY <1>1, <2>2
    <3>2. f[n] = step[<<f[n - 1], n - 1>>] /\ f[n - 1] \in Seq(E)
      BY <1>3, <3>1 DEF Recursive
    <3>3. g[n] = f[n] /\ g[n - 1] = f[n - 1]
      BY <3>1
    <3> HIDE DEF g
    <3>4. LoopBody(g, matched)[n] = IF matched[n] \subseteq Range(g[n - 1]) THEN g[n - 1]
                              ELSE Append(g[n - 1], CHOOSE domain \in matched[n] : TRUE)
      BY <2>2 DEF LoopBody
    <3>5. step[<<f[n - 1], n - 1>>] = IF matched[n] \subseteq Range(f[n - 1]) THEN f[n - 1]
                              ELSE Append(f[n - 1], CHOOSE domain \in matched[n] : TRUE)
      BY <3>1, <3>2 DEF Considering
    <3> QED
      BY <3>2, <3>3, <3>4, <3>5
  <2> QED
    BY <2>1, <2>2
<1>5. g = LoopBody(g, matched)
  <2>1. LoopBody(g, matched) = [n \in 0 .. Len(matched) |-> LoopBody(g, matched)[n]]
    BY DEF LoopBody
  <2> QED
    BY <1>4, <2>1
<1> QED
  BY <1>5

(* The matches after each instruction: every domain so far, once. *)
OnceEach(E, matched, f, n) ==
    /\ f[n] \in Seq(E)
    /\ \A d \in E : Contains(f[n], d) <=> \E i \in 1 .. n : d \in matched[i]
    /\ \A i, j \in 1 .. Len(f[n]) : f[n][i] = f[n][j] => i = j

LEMMA RangeContains ==
    ASSUME NEW E, NEW s \in Seq(E)
    PROVE  \A d : d \in Range(s) <=> Contains(s, d)
  BY DEF Range, Contains

LEMMA LoopStep ==
    ASSUME NEW E, NEW matched \in Matched(E), NEW f, f = LoopBody(f, matched),
           NEW n \in Nat, n + 1 <= Len(matched), OnceEach(E, matched, f, n)
    PROVE  OnceEach(E, matched, f, n + 1)
<1> DEFINE m == f[n]
           here == matched[n + 1]
           d == CHOOSE domain \in here : TRUE
<1>1. matched \in Seq(SUBSET E) /\ Len(matched) \in Nat
  BY DEF Matched
<1>2. n + 1 \in 1 .. Len(matched) /\ n + 1 # 0 /\ (n + 1) - 1 = n /\ n + 1 \in 0 .. Len(matched)
  BY <1>1
<1>3. f[n + 1] = IF here \subseteq Range(m) THEN m ELSE Append(m, d)
  <2>1. f[n + 1] = LoopBody(f, matched)[n + 1]
    OBVIOUS
  <2>2. LoopBody(f, matched)[n + 1] =
            IF here \subseteq Range(f[(n + 1) - 1]) THEN f[(n + 1) - 1]
            ELSE Append(f[(n + 1) - 1], d)
    BY <1>2 DEF LoopBody
  <2> QED
    BY <1>2, <2>1, <2>2
<1>4. here \subseteq E /\ \A x, y \in here : x = y
  BY <1>1, <1>2, ElementOfSeq DEF Matched
<1>5. /\ m \in Seq(E)
      /\ \A x \in E : Contains(m, x) <=> \E i \in 1 .. n : x \in matched[i]
      /\ \A i, j \in 1 .. Len(m) : m[i] = m[j] => i = j
  BY DEF OnceEach
<1>6. \A x : (\E i \in 1 .. n + 1 : x \in matched[i])
               <=> (\E i \in 1 .. n : x \in matched[i]) \/ x \in here
  <2>1. \A i \in 1 .. n + 1 : i \in 1 .. n \/ i = n + 1
    OBVIOUS
  <2>2. \A i \in 1 .. n : i \in 1 .. n + 1
    OBVIOUS
  <2>3. n + 1 \in 1 .. n + 1
    OBVIOUS
  <2> QED
    BY <2>1, <2>2, <2>3
<1>7. \A x : x \in Range(m) <=> Contains(m, x)
  BY <1>5, RangeContains
<1> HIDE DEF m, here
<1>8. CASE here \subseteq Range(m)
  <2>1. f[n + 1] = m
    BY <1>3, <1>8
  <2>2. \A x \in E : Contains(m, x) <=> \E i \in 1 .. n + 1 : x \in matched[i]
    BY <1>5, <1>6, <1>7, <1>8
  <2> QED
    BY <1>5, <2>1, <2>2 DEF OnceEach
<1>9. CASE ~ (here \subseteq Range(m))
  <2>1. d \in here /\ d \in E /\ here = {d}
    BY <1>4, <1>9
  <2>2. ~ Contains(m, d)
    BY <1>7, <1>9, <2>1
  <2> HIDE DEF d
  <2>3. f[n + 1] = Append(m, d)
    BY <1>3, <1>9
  <2>4. /\ Append(m, d) \in Seq(E) /\ Len(Append(m, d)) = Len(m) + 1 /\ Len(m) \in Nat
        /\ \A i \in 1 .. Len(m) : Append(m, d)[i] = m[i]
        /\ Append(m, d)[Len(m) + 1] = d
    BY <1>5, <2>1, AppendProperties, LenProperties
  <2> DEFINE l == Append(m, d)
  <2> HIDE DEF l
  <2>5. \A i \in 1 .. Len(m) + 1 : i \in 1 .. Len(m) \/ i = Len(m) + 1
    BY <2>4
  <2>6. \A x : Contains(l, x) <=> Contains(m, x) \/ x = d
    <3>1. Len(m) + 1 \in 1 .. Len(m) + 1 /\ \A i \in 1 .. Len(m) : i \in 1 .. Len(m) + 1
      BY <2>4
    <3> QED
      BY <2>4, <2>5, <3>1 DEF Contains, l
  <2>7. \A x \in E : Contains(l, x) <=> \E i \in 1 .. n + 1 : x \in matched[i]
    BY <1>5, <1>6, <2>1, <2>6
  <2>8. \A i, j \in 1 .. Len(l) : l[i] = l[j] => i = j
    <3>1. \A i \in 1 .. Len(m) : m[i] # d
      BY <2>2 DEF Contains
    <3> QED
      BY <1>5, <2>4, <2>5, <3>1 DEF l
  <2> QED
    BY <2>3, <2>4, <2>7, <2>8 DEF OnceEach, l
<1> QED
  BY <1>8, <1>9

(***************************************************************************)
(* Whatever the instructions match, the loop finds each domain once and    *)
(* misses none.                                                            *)
(***************************************************************************)
LEMMA DistinctFinds ==
    ASSUME NEW E, NEW matched \in Matched(E)
    PROVE  /\ Distinct(matched) \in Seq(E)
           /\ \A d \in E : Contains(Distinct(matched), d)
                            <=> \E i \in 1 .. Len(matched) : d \in matched[i]
           /\ \A i, j \in 1 .. Len(Distinct(matched)) :
                 Distinct(matched)[i] = Distinct(matched)[j] => i = j
<1> DEFINE f == CHOOSE g : g = LoopBody(g, matched)
           last == Len(matched)
<1>1. f = LoopBody(f, matched)
  BY LoopExists
<1>2. Distinct(matched) = f[last]
  BY DEF Distinct, LoopBody
<1> HIDE DEF f
<1>3. last \in Nat
  BY DEF Matched
<1> DEFINE S == {n \in Nat : n <= last => OnceEach(E, matched, f, n)}
<1>4. 0 \in S
  <2>1. f[0] = LoopBody(f, matched)[0]
    BY <1>1
  <2>2. f[0] = <<>>
    BY <1>3, <2>1 DEF LoopBody
  <2>3. <<>> \in Seq(E) /\ Len(<<>>) = 0
    OBVIOUS
  <2>4. \A d : ~ Contains(<<>>, d)
    BY DEF Contains
  <2>5. \A i \in 1 .. 0 : FALSE
    OBVIOUS
  <2>6. OnceEach(E, matched, f, 0)
    <3> HIDE DEF last
    <3> QED
      BY <2>2, <2>3, <2>4, <2>5 DEF OnceEach
  <2> QED
    BY <2>6
<1>5. ASSUME NEW n \in S PROVE n + 1 \in S
  <2> SUFFICES ASSUME n + 1 <= last PROVE OnceEach(E, matched, f, n + 1)
    OBVIOUS
  <2>1. n \in Nat /\ OnceEach(E, matched, f, n)
    BY <1>3
  <2> QED
    BY <1>1, <2>1, LoopStep
<1>6. S = Nat
  <2>1. S \in SUBSET Nat
    OBVIOUS
  <2> HIDE DEF S
  <2> QED
    BY <1>4, <1>5, <2>1, NatInd
<1>7. OnceEach(E, matched, f, last)
  BY <1>3, <1>6
<1> QED
  BY <1>2, <1>7 DEF OnceEach

(* FlattenSeq's own recursion. *)
FlattenBody(f, ss) == [i \in 1 .. Len(ss) |-> IF i = 1 THEN ss[i] ELSE f[i - 1] \o ss[i]]

LEMMA FlattenExists ==
    ASSUME NEW E, NEW ss \in Seq(Seq(E)), Len(ss) # 0
    PROVE  \E f : f = FlattenBody(f, ss)
<1> DEFINE step == [p \in Seq(E) \X Nat |->
                      IF p[2] + 2 \in 1 .. Len(ss) THEN p[1] \o ss[p[2] + 2] ELSE p[1]]
<1>1. Len(ss) \in Nat /\ \A i \in 1 .. Len(ss) : ss[i] \in Seq(E)
  BY ElementOfSeq, LenProperties
<1>2. ss[1] \in Seq(E) /\ step \in [Seq(E) \X Nat -> Seq(E)]
  <2>1. ASSUME NEW s \in Seq(E), NEW n \in Nat, n + 2 \in 1 .. Len(ss)
        PROVE  s \o ss[n + 2] \in Seq(E)
    <3>1. ss[n + 2] \in Seq(E)
      BY <1>1, <2>1
    <3> QED
      BY <3>1, ConcatProperties
  <2>2. step \in [Seq(E) \X Nat -> Seq(E)]
    BY <2>1
  <2> QED
    BY <1>1, <2>2
<1>3. \A s \in Seq(E), n \in Nat :
          step[<<s, n>>] = IF n + 2 \in 1 .. Len(ss) THEN s \o ss[n + 2] ELSE s
  OBVIOUS
<1> HIDE DEF step
<1>4. PICK f : f \in Recursive(Seq(E), ss[1], step)
  BY <1>2, RecursionExists
<1> DEFINE g == [i \in 1 .. Len(ss) |-> f[i - 1]]
<1>5. ASSUME NEW i \in 1 .. Len(ss)
      PROVE  g[i] = IF i = 1 THEN ss[i] ELSE g[i - 1] \o ss[i]
  <2>1. CASE i = 1
    BY <1>4, <2>1 DEF Recursive
  <2>2. CASE i # 1
    <3>1. /\ i - 2 \in Nat /\ i - 1 \in 1 .. Len(ss)
          /\ (i - 2) + 1 = i - 1 /\ (i - 2) + 2 = i /\ (i - 1) - 1 = i - 2
      BY <1>1, <2>2
    <3>2. f[i - 1] = step[<<f[i - 2], i - 2>>] /\ f[i - 2] \in Seq(E)
      BY <1>4, <3>1 DEF Recursive
    <3>3. step[<<f[i - 2], i - 2>>] = f[i - 2] \o ss[i]
      BY <1>3, <3>1, <3>2
    <3>4. g[i] = f[i - 1] /\ g[i - 1] = f[i - 2]
      BY <3>1
    <3> HIDE DEF g
    <3> QED
      BY <2>2, <3>2, <3>3, <3>4
  <2> QED
    BY <2>1, <2>2
<1>6. g = FlattenBody(g, ss)
  <2>1. g = [i \in 1 .. Len(ss) |-> g[i]]
    OBVIOUS
  <2> HIDE DEF g
  <2> QED
    BY <1>5, <2>1 DEF FlattenBody
<1> QED
  BY <1>6

LEMMA ConcatContains ==
    ASSUME NEW E, NEW s \in Seq(E), NEW t \in Seq(E)
    PROVE  s \o t \in Seq(E) /\ \A x : Contains(s \o t, x) <=> Contains(s, x) \/ Contains(t, x)
<1>1. /\ s \o t \in Seq(E) /\ Len(s) \in Nat /\ Len(t) \in Nat
      /\ Len(s \o t) = Len(s) + Len(t)
      /\ \A i \in 1 .. Len(s) + Len(t) :
            (s \o t)[i] = IF i <= Len(s) THEN s[i] ELSE t[i - Len(s)]
  BY ConcatProperties, LenProperties
<1> DEFINE u == s \o t
<1> HIDE DEF u
<1>2. ASSUME NEW x, Contains(u, x) PROVE Contains(s, x) \/ Contains(t, x)
  <2>1. PICK i \in 1 .. Len(s) + Len(t) : u[i] = x
    BY <1>1, <1>2 DEF Contains, u
  <2>2. CASE i <= Len(s)
    <3>1. i \in 1 .. Len(s) /\ s[i] = x
      BY <1>1, <2>1, <2>2 DEF u
    <3> QED
      BY <3>1 DEF Contains
  <2>3. CASE ~(i <= Len(s))
    <3>1. i - Len(s) \in 1 .. Len(t) /\ t[i - Len(s)] = x
      BY <1>1, <2>1, <2>3 DEF u
    <3> QED
      BY <3>1 DEF Contains
  <2> QED
    BY <2>2, <2>3
<1>3. ASSUME NEW x, Contains(s, x) PROVE Contains(u, x)
  <2>1. PICK i \in 1 .. Len(s) : s[i] = x
    BY <1>3 DEF Contains
  <2>2. i \in 1 .. Len(s) + Len(t) /\ i <= Len(s)
    BY <1>1
  <2>3. u[i] = x
    BY <1>1, <2>1, <2>2 DEF u
  <2> QED
    BY <1>1, <2>2, <2>3 DEF Contains, u
<1>4. ASSUME NEW x, Contains(t, x) PROVE Contains(u, x)
  <2>1. PICK i \in 1 .. Len(t) : t[i] = x
    BY <1>4 DEF Contains
  <2>2. /\ i + Len(s) \in 1 .. Len(s) + Len(t)
        /\ ~(i + Len(s) <= Len(s)) /\ (i + Len(s)) - Len(s) = i
    BY <1>1
  <2>3. u[i + Len(s)] = x
    BY <1>1, <2>1, <2>2 DEF u
  <2> QED
    BY <1>1, <2>2, <2>3 DEF Contains, u
<1> QED
  BY <1>1, <1>2, <1>3, <1>4 DEF u

LEMMA FlattenContains ==
    ASSUME NEW E, NEW ss \in Seq(Seq(E))
    PROVE  /\ FlattenSeq(ss) \in Seq(E)
           /\ \A x : Contains(FlattenSeq(ss), x) <=> \E k \in 1 .. Len(ss) : Contains(ss[k], x)
<1>1. CASE Len(ss) = 0
  <2>1. ss = <<>>
    BY <1>1, EmptySeq
  <2>2. FlattenSeq(ss) = <<>> /\ <<>> \in Seq(E)
    BY <1>1, <2>1 DEF FlattenSeq
  <2>3. \A x : ~ Contains(<<>>, x) /\ ~ \E k \in 1 .. Len(ss) : Contains(ss[k], x)
    BY <1>1 DEF Contains
  <2> QED
    BY <2>2, <2>3
<1>2. CASE Len(ss) # 0
  <2> DEFINE f == CHOOSE g : g = FlattenBody(g, ss)
             last == Len(ss)
  <2>1. f = FlattenBody(f, ss)
    BY <1>2, FlattenExists
  <2>2. FlattenSeq(ss) = f[last]
    BY <1>2 DEF FlattenSeq, FlattenBody
  <2> HIDE DEF f
  <2>3. last \in Nat /\ last # 0 /\ \A i \in 1 .. last : ss[i] \in Seq(E)
    BY <1>2, ElementOfSeq, LenProperties
  <2> DEFINE Flat(n) == /\ f[n] \in Seq(E)
                        /\ \A x : Contains(f[n], x) <=> \E k \in 1 .. n : Contains(ss[k], x)
             S == {n \in Nat : n + 1 <= last => Flat(n + 1)}
  <2>4. \A i \in 1 .. last : f[i] = IF i = 1 THEN ss[i] ELSE f[i - 1] \o ss[i]
    <3>1. \A i \in 1 .. last : f[i] = FlattenBody(f, ss)[i]
      BY <2>1
    <3> QED
      BY <3>1 DEF FlattenBody
  <2>5. Flat(1)
    <3>1. 1 \in 1 .. last
      BY <2>3
    <3>2. f[1] = ss[1] /\ ss[1] \in Seq(E)
      BY <2>3, <2>4, <3>1
    <3>3. \A k \in 1 .. 1 : k = 1
      OBVIOUS
    <3> QED
      BY <3>2, <3>3
  <2>6. ASSUME NEW n \in Nat \ {0}, n + 1 <= last, Flat(n) PROVE Flat(n + 1)
    <3>1. n + 1 \in 1 .. last /\ n + 1 # 1 /\ (n + 1) - 1 = n
      BY <2>3, <2>6
    <3>2. f[n + 1] = f[n] \o ss[n + 1] /\ ss[n + 1] \in Seq(E) /\ f[n] \in Seq(E)
      BY <2>3, <2>4, <2>6, <3>1
    <3>3. /\ f[n + 1] \in Seq(E)
          /\ \A x : Contains(f[n + 1], x) <=> Contains(f[n], x) \/ Contains(ss[n + 1], x)
      BY <3>2, ConcatContains
    <3>4. \A k \in 1 .. n + 1 : k \in 1 .. n \/ k = n + 1
      OBVIOUS
    <3>5. n + 1 \in 1 .. n + 1 /\ \A k \in 1 .. n : k \in 1 .. n + 1
      OBVIOUS
    <3> QED
      BY <2>6, <3>3, <3>4, <3>5
  <2>7. 0 \in S
    BY <2>5
  <2>8. ASSUME NEW n \in S PROVE n + 1 \in S
    <3>1. n \in Nat /\ n + 1 \in Nat \ {0}
      OBVIOUS
    <3>2. (n + 1) + 1 <= last => Flat(n + 1)
      BY <2>3, <3>1
    <3> HIDE DEF Flat
    <3> QED
      BY <2>6, <3>1, <3>2
  <2>9. S = Nat
    <3>1. S \in SUBSET Nat
      OBVIOUS
    <3> HIDE DEF S
    <3> QED
      BY <2>7, <2>8, <3>1, NatInd
  <2>10. Flat(last)
    <3>1. last - 1 \in Nat /\ (last - 1) + 1 = last
      BY <2>3
    <3>2. last - 1 \in S
      BY <2>9, <3>1
    <3> HIDE DEF Flat
    <3> QED
      BY <2>3, <3>1, <3>2
  <2> QED
    BY <2>2, <2>10
<1> QED
  BY <1>1, <1>2

LEMMA InstructionsContain ==
    ASSUME NEW tx, NEW E, tx.top \in Seq(E), tx.inner \in Seq(Seq(E))
    PROVE  /\ Instructions(tx) \in Seq(E)
           /\ \A ix : Contains(Instructions(tx), ix) <=> ix \in Members(tx)
<1> DEFINE top == tx.top
           inner == tx.inner
           flat == FlattenSeq(inner)
<1>1. /\ flat \in Seq(E)
      /\ \A ix : Contains(flat, ix) <=> \E k \in 1 .. Len(inner) : Contains(inner[k], ix)
  BY FlattenContains
<1> HIDE DEF flat
<1>2. /\ top \o flat \in Seq(E)
      /\ \A ix : Contains(top \o flat, ix) <=> Contains(top, ix) \/ Contains(flat, ix)
  BY <1>1, ConcatContains
<1>3. \A k \in 1 .. Len(inner) : inner[k] \in Seq(E)
  BY ElementOfSeq, LenProperties
<1>4. DOMAIN inner = 1 .. Len(inner)
  BY LenProperties
<1>5. \A ix : ix \in UNION {Range(group) : group \in Range(inner)}
                 <=> \E k \in 1 .. Len(inner) : Contains(inner[k], ix)
  <2>1. \A ix : ix \in UNION {Range(group) : group \in Range(inner)}
                   <=> \E k \in 1 .. Len(inner) : ix \in Range(inner[k])
    <3>1. Range(inner) = {inner[k] : k \in 1 .. Len(inner)}
      BY <1>4 DEF Range
    <3>2. \A ix : ix \in UNION {Range(group) : group \in Range(inner)}
                     <=> \E group \in Range(inner) : ix \in Range(group)
      OBVIOUS
    <3> HIDE DEF inner
    <3> QED
      BY <3>1, <3>2
  <2>2. \A k \in 1 .. Len(inner) : \A ix : ix \in Range(inner[k]) <=> Contains(inner[k], ix)
    BY <1>3, RangeContains
  <2> QED
    BY <2>1, <2>2
<1>6. \A ix : ix \in Range(top) <=> Contains(top, ix)
  BY RangeContains
<1>7. Instructions(tx) = top \o flat
  BY DEF Instructions, flat
<1> QED
  BY <1>1, <1>2, <1>5, <1>6, <1>7 DEF Members

(* What the extractors make of the instructions they are given, for any kind of match. *)
Extracted(ixs, Is, domain) ==
    Distinct([i \in DOMAIN ixs |-> IF Is[ixs[i]] THEN {domain[ixs[i]]} ELSE {}])

(* What decides whether an instruction matches, and what reads the domain from it. *)
Tests(E) == [E -> BOOLEAN]
Readings(E, D) == [E -> D]

Once(found) == \A i, j \in 1 .. Len(found) : found[i] = found[j] => i = j

LEMMA ExtractorFinds ==
    ASSUME NEW E, NEW D, NEW ixs \in Seq(E), NEW Is \in Tests(E), NEW domain \in Readings(E, D)
    PROVE  /\ Extracted(ixs, Is, domain) \in Seq(D)
           /\ \A d : Contains(Extracted(ixs, Is, domain), d)
                       <=> \E ix \in E : Contains(ixs, ix) /\ Is[ix] /\ domain[ix] = d
           /\ Once(Extracted(ixs, Is, domain))
<1> DEFINE found == Extracted(ixs, Is, domain)
           matched == [i \in DOMAIN ixs |-> IF Is[ixs[i]] THEN {domain[ixs[i]]} ELSE {}]
           n == Len(ixs)
<1>1. n \in Nat /\ DOMAIN ixs = 1 .. n /\ \A i \in 1 .. n : ixs[i] \in E
  BY LenProperties, ElementOfSeq
<1>2. /\ matched = [i \in 1 .. n |-> IF Is[ixs[i]] THEN {domain[ixs[i]]} ELSE {}]
      /\ \A i \in 1 .. n : matched[i] = IF Is[ixs[i]] THEN {domain[ixs[i]]} ELSE {}
  BY <1>1
<1>3. \A i \in 1 .. n : matched[i] \in SUBSET D /\ \A d, e \in matched[i] : d = e
  BY <1>1, <1>2 DEF Readings
<1>4. matched \in [1 .. n -> SUBSET D]
  BY <1>2, <1>3
<1> HIDE DEF matched, n
<1>5. matched \in Seq(SUBSET D) /\ Len(matched) = n
  BY <1>1, <1>4
<1>6. matched \in Matched(D)
  BY <1>3, <1>5 DEF Matched
<1>7. /\ found \in Seq(D)
      /\ \A d \in D : Contains(found, d) <=> \E i \in 1 .. n : d \in matched[i]
      /\ \A i, j \in 1 .. Len(found) : found[i] = found[j] => i = j
  <2>1. found = Distinct(matched)
    BY DEF matched, Extracted
  <2> HIDE DEF found
  <2> QED
    BY <1>5, <1>6, <2>1, DistinctFinds
<1> HIDE DEF found
<1>8. ASSUME NEW d, Contains(found, d)
      PROVE  \E ix \in E : Contains(ixs, ix) /\ Is[ix] /\ domain[ix] = d
  <2>1. d \in D
    BY <1>7, <1>8, ElementOfSeq DEF Contains
  <2>2. PICK i \in 1 .. n : d \in matched[i]
    BY <1>7, <1>8, <2>1
  <2> QED
    BY <1>1, <1>2, <2>2 DEF Contains, n
<1>9. ASSUME NEW ix \in E, Contains(ixs, ix), Is[ix]
      PROVE  Contains(found, domain[ix])
  <2>1. PICK i \in 1 .. n : ixs[i] = ix
    BY <1>9 DEF Contains, n
  <2>2. domain[ix] \in matched[i] /\ domain[ix] \in D
    BY <1>2, <1>9, <2>1 DEF Readings
  <2> QED
    BY <1>7, <2>2
<1> QED
  BY <1>7, <1>8, <1>9 DEF found, Once

(* The list has the members of the set, each of them once. *)
Exactly(found, domains) == Once(found) /\ \A d : Contains(found, d) <=> d \in domains

(***************************************************************************)
(* For every transaction, however many instructions it has, at the top or  *)
(* in whatever group: of one that failed both extractors return nothing;   *)
(* of any other, the one returns each domain it creates, the other each    *)
(* domain it touches records of, once.                                     *)
(***************************************************************************)
THEOREM ParsersExact ==
    ASSUME NEW tx, NEW E, tx.top \in Seq(E), tx.inner \in Seq(Seq(E))
    PROVE  /\ Exactly(CreatedDomains(tx),
                {d \in {Account(ix, 2) : ix \in E} :
                    ~tx.err /\ \E ix \in Members(tx) : IsCreate(ix) /\ Account(ix, 2) = d})
           /\ Exactly(RecordDomains(tx),
                {d \in {Account(ix, 4) : ix \in E} :
                    ~tx.err /\ \E ix \in Members(tx) : TouchesRecord(ix) /\ Account(ix, 4) = d})
<1> DEFINE ixs == Effective(tx)
           Dc == {Account(ix, 2) : ix \in E}
           Dr == {Account(ix, 4) : ix \in E}
           isC == [ix \in E |-> IsCreate(ix)]
           isR == [ix \in E |-> TouchesRecord(ix)]
           dC == [ix \in E |-> Account(ix, 2)]
           dR == [ix \in E |-> Account(ix, 4)]
<1>1. ixs \in Seq(E) /\ \A ix : Contains(ixs, ix) <=> ~tx.err /\ ix \in Members(tx)
  <2>1. CASE tx.err
    <3>1. ixs = <<>>
      BY <2>1 DEF Effective
    <3> QED
      BY <2>1, <3>1 DEF Contains
  <2>2. CASE ~tx.err
    BY <2>2, InstructionsContain DEF Effective
  <2> QED
    BY <2>1, <2>2
<1>2. \A i \in DOMAIN ixs : ixs[i] \in E
  BY <1>1, ElementOfSeq, LenProperties
<1>3. isC \in Tests(E) /\ isR \in Tests(E)
  BY DEF IsCreate, TouchesRecord, Tests
<1>4. dC \in Readings(E, Dc) /\ dR \in Readings(E, Dr)
  BY DEF Readings
<1>5. \A ix \in E : /\ isC[ix] = IsCreate(ix) /\ isR[ix] = TouchesRecord(ix)
                    /\ dC[ix] = Account(ix, 2) /\ dR[ix] = Account(ix, 4)
  OBVIOUS
<1>6. CreatedDomains(tx) = Extracted(ixs, isC, dC) /\ RecordDomains(tx) = Extracted(ixs, isR, dR)
  <2>1. /\ CreatedDomains(tx) =
              Distinct([i \in DOMAIN ixs |->
                          IF IsCreate(ixs[i]) THEN {Account(ixs[i], 2)} ELSE {}])
        /\ RecordDomains(tx) =
              Distinct([i \in DOMAIN ixs |->
                          IF TouchesRecord(ixs[i]) THEN {Account(ixs[i], 4)} ELSE {}])
    BY DEF CreatedDomains, RecordDomains
  <2> HIDE DEF ixs, isC, isR, dC, dR
  <2>2. [i \in DOMAIN ixs |-> IF IsCreate(ixs[i]) THEN {Account(ixs[i], 2)} ELSE {}]
          = [i \in DOMAIN ixs |-> IF isC[ixs[i]] THEN {dC[ixs[i]]} ELSE {}]
    BY <1>2, <1>5
  <2>3. [i \in DOMAIN ixs |-> IF TouchesRecord(ixs[i]) THEN {Account(ixs[i], 4)} ELSE {}]
          = [i \in DOMAIN ixs |-> IF isR[ixs[i]] THEN {dR[ixs[i]]} ELSE {}]
    BY <1>2, <1>5
  <2> QED
    BY <2>1, <2>2, <2>3 DEF Extracted
<1> HIDE DEF ixs, isC, isR, dC, dR, Dc, Dr
<1>7. /\ \A d : Contains(CreatedDomains(tx), d)
                  <=> \E ix \in E : Contains(ixs, ix) /\ isC[ix] /\ dC[ix] = d
      /\ Once(CreatedDomains(tx))
  BY <1>1, <1>3, <1>4, <1>6, ExtractorFinds
<1>8. /\ \A d : Contains(RecordDomains(tx), d)
                  <=> \E ix \in E : Contains(ixs, ix) /\ isR[ix] /\ dR[ix] = d
      /\ Once(RecordDomains(tx))
  BY <1>1, <1>3, <1>4, <1>6, ExtractorFinds
<1>9. \A ix : Contains(ixs, ix) => ix \in E
  BY <1>1, <1>2, LenProperties DEF Contains
<1>10. /\ \A d : (\E ix \in E : Contains(ixs, ix) /\ isC[ix] /\ dC[ix] = d)
                 <=> d \in {e \in Dc : ~tx.err /\ \E ix \in Members(tx) :
                                         IsCreate(ix) /\ Account(ix, 2) = e}
       /\ \A d : (\E ix \in E : Contains(ixs, ix) /\ isR[ix] /\ dR[ix] = d)
                 <=> d \in {e \in Dr : ~tx.err /\ \E ix \in Members(tx) :
                                         TouchesRecord(ix) /\ Account(ix, 4) = e}
  BY <1>1, <1>5, <1>9 DEF Dc, Dr
<1> QED
  BY <1>7, <1>8, <1>10 DEF Exactly, Dc, Dr

-----------------------------------------------------------------------------
(***************************************************************************)
(* Types.  A worker of the two jobs with a cursor that is not free holds a *)
(* signature of its own job.                                               *)
(***************************************************************************)
Pcs == {"free", "byNode", "insert", "find", "save"}
Sig == [job : Jobs, slot : 1 .. MaxSlot, tx : Names]
Task == [pc : Pcs, sig : 0 .. MaxSigs, row : Row]

OwnSig(t, w) == t.pc # "free" /\ w \notin Reconcilers => t.sig \in Of(JobOf(w))

Typed ==
    /\ TypeOK
    /\ Len(sigs) <= MaxSigs
    /\ cursor = [j \in Jobs |-> cursor[j]]
    /\ tick = [j \in Jobs |-> tick[j]]
    /\ \A w \in Workers : OwnSig(task[w], w)

(* The record of a job's tick, and those of both jobs. *)
TickOf(j) == [on : BOOLEAN, sigs : SUBSET Of(j), todo : SUBSET Of(j), errors : SUBSET Of(j)]

TicksTyped == tick = [k \in Jobs |-> tick[k]] /\ \A k \in Jobs : tick[k] \in TickOf(k)

LEMMA JobOfType == \A w : JobOf(w) \in Jobs
  BY DEF JobOf, Jobs

LEMMA RowTypes ==
    ASSUME RowAssumption
    PROVE  /\ NoRow \in Row /\ Skeleton \in Row /\ Free \in Task /\ Free.pc = "free"
           /\ \A owner \in BOOLEAN, sig \in 0 .. MaxSigs :
                 [Skeleton EXCEPT !.owner = owner, !.setupTx = sig] \in Row
<1>1. 0 \in 0 .. MaxAttempts /\ 0 \in 0 .. MaxSigs
  BY DEF RowAssumption
<1>2. NoRow \in Row
  BY <1>1 DEF NoRow, Row
<1>3. Skeleton \in Row
  BY <1>2 DEF Skeleton, Row
<1>4. Free \in Task /\ Free.pc = "free"
  BY <1>1, <1>2 DEF Free, Task, Pcs
<1>5. QED
  BY <1>2, <1>3, <1>4 DEF Row

LEMMA ChangedRows ==
    ASSUME RowAssumption, NEW r \in Row, NEW sig \in 0 .. MaxSigs, content \in BOOLEAN
    PROVE  Filled(r, sig) \in Row /\ Stamped(r, sig) \in Row /\ Resolved(r) \in Row
<1>1. Filled(r, sig) \in Row
  BY DEF Filled, Row
<1>2. Stamped(r, sig) \in Row
  BY DEF Stamped, Row
<1>3. Resolved(r) \in Row
  <2> DEFINE fails == IF content THEN 0
                      ELSE IF r.fails < MaxAttempts THEN r.fails + 1 ELSE r.fails
  <2>1. fails \in 0 .. MaxAttempts
    BY DEF Row, RowAssumption
  <2>2. Resolved(r) = [r EXCEPT !.cid = content, !.fails = fails]
    BY DEF Resolved, Row
  <2> HIDE DEF fails
  <2>3. QED
    BY <2>1, <2>2 DEF Row
<1>4. QED
  BY <1>1, <1>2, <1>3

(* The positions of confirmed signatures, and what stands there. *)
LEMMA SigAt ==
    ASSUME Typed, NEW j, NEW i \in Of(j)
    PROVE  /\ i \in Nat /\ 1 <= i /\ i <= Len(sigs)
           /\ sigs[i] \in Sig /\ sigs[i].job = j
           /\ Slot(i) \in 1 .. MaxSlot
<1> DEFINE E == Sig
<1>1. sigs \in Seq(E)
  BY DEF Typed, TypeOK, Sig
<1> HIDE DEF E
<1>2. Len(sigs) \in Nat /\ \A n \in 1 .. Len(sigs) : sigs[n] \in E
  BY <1>1
<1>3. i \in 1 .. Len(sigs) /\ sigs[i].job = j
  BY DEF Of, Positions
<1>4. sigs[i] \in Sig
  BY <1>2, <1>3 DEF E
<1>5. QED
  BY <1>2, <1>3, <1>4 DEF Sig, Slot

(* Without a new signature the sets of positions stay as they are. *)
LEMMA SameSigs ==
    ASSUME UNCHANGED sigs
    PROVE  /\ \A j : (Of(j))' = Of(j)
           /\ \A i : (Slot(i))' = Slot(i)
           /\ \A t, w : (OwnSig(t, w))' = OwnSig(t, w)
           /\ Registered' = Registered
  BY DEF Of, Slot, Positions, OwnSig, Registered

LEMMA SameTicks == Typed /\ UNCHANGED <<sigs, tick>> => TicksTyped'
<1> SUFFICES ASSUME Typed, UNCHANGED <<sigs, tick>> PROVE TicksTyped'
  OBVIOUS
<1>1. \A k : (TickOf(k))' = TickOf(k)
  BY SameSigs DEF TickOf
<1>2. tick = [k \in Jobs |-> tick[k]] /\ \A k \in Jobs : tick[k] \in TickOf(k)
  BY DEF Typed, TypeOK, TickOf
<1>3. QED
  BY <1>1, <1>2 DEF TicksTyped

(* A step that confirms no signature keeps the types if what it writes has them. *)
LEMMA KeepsTypes ==
    ASSUME Typed, UNCHANGED <<sigs, content>>, row' \in Row, faults' \in 0 .. MaxFaults,
           cursor' = [j \in Jobs |-> cursor'[j]],
           \A j \in Jobs : cursor'[j] \in {0} \cup {Slot(i) : i \in Of(j)},
           TicksTyped',
           task' \in [Workers -> Task],
           \A w \in Workers : OwnSig(task'[w], w)
    PROVE  Typed'
<1>1. /\ sigs' \in Seq([job : Jobs, slot : 1 .. MaxSlot, tx : Names])
      /\ Len(sigs') <= MaxSigs /\ content' \in BOOLEAN
  BY DEF Typed, TypeOK
<1>2. /\ \A j : (Of(j))' = Of(j)
      /\ \A i : (Slot(i))' = Slot(i)
      /\ \A t, w : (OwnSig(t, w))' = OwnSig(t, w)
  BY SameSigs
<1>3. \A j \in Jobs : cursor'[j] \in {0} \cup {(Slot(i))' : i \in (Of(j))'}
  BY <1>2
<1>4. \A w \in Workers : (OwnSig(task[w], w))'
  BY <1>2 DEF OwnSig, JobOf
<1>5. QED
  BY <1>1, <1>2, <1>3, <1>4 DEF Typed, TypeOK, Task, Pcs, TicksTyped, TickOf
(* The steps of a pool worker that touch neither cursor nor tick. *)
LEMMA KeepsOwn ==
    ASSUME Typed, UNCHANGED <<sigs, content, cursor, tick>>, NEW w \in Workers, NEW t \in Task,
           row' \in Row, faults' \in 0 .. MaxFaults,
           task' = [task EXCEPT ![w] = t],
           OwnSig(t, w)
    PROVE  Typed'
<1>1. task \in [Workers -> Task]
  BY DEF Typed, TypeOK, Task, Pcs
<1>2. task' \in [Workers -> Task] /\ task'[w] = t /\ \A v \in Workers \ {w} : task'[v] = task[v]
  BY <1>1
<1>3. \A v \in Workers : OwnSig(task'[v], v)
  BY <1>2 DEF Typed
<1>4. /\ cursor' = [j \in Jobs |-> cursor'[j]]
      /\ \A j \in Jobs : cursor'[j] \in {0} \cup {Slot(i) : i \in Of(j)}
  BY DEF Typed, TypeOK
<1>5. TicksTyped'
  BY SameTicks
<1>6. QED
  BY <1>2, <1>3, <1>4, <1>5, KeepsTypes

LEMMA Parts ==
    ASSUME Typed
    PROVE  /\ row \in Row /\ content \in BOOLEAN /\ faults \in 0 .. MaxFaults
           /\ task \in [Workers -> Task]
           /\ \A j \in Jobs : /\ cursor[j] \in {0} \cup {Slot(i) : i \in Of(j)}
                             /\ tick[j].on \in BOOLEAN /\ tick[j].sigs \subseteq Of(j)
                             /\ tick[j].todo \subseteq Of(j) /\ tick[j].errors \subseteq Of(j)
           /\ cursor = [j \in Jobs |-> cursor[j]] /\ tick = [j \in Jobs |-> tick[j]]
           /\ \A w \in Workers : OwnSig(task[w], w)
<1>1. task \in [Workers -> Task]
  BY DEF Typed, TypeOK, Task, Pcs
<1>2. QED
  BY <1>1 DEF Typed, TypeOK

LEMMA InitTyped == RowAssumption /\ Init => Typed
<1> SUFFICES ASSUME RowAssumption, Init PROVE Typed
  OBVIOUS
<1>1. sigs \in Seq([job : Jobs, slot : 1 .. MaxSlot, tx : Names])
  BY DEF Init
<1>2. Len(sigs) = 0 /\ Len(sigs) <= MaxSigs
  BY DEF Init, RowAssumption
<1>3. content \in BOOLEAN /\ row \in Row /\ faults \in 0 .. MaxFaults
  <2>1. row = NoRow /\ content = FALSE /\ faults = 0
    BY DEF Init
  <2>2. NoRow \in Row
    BY RowTypes
  <2>3. 0 \in 0 .. MaxFaults
    BY DEF RowAssumption
  <2>4. QED
    BY <2>1, <2>2, <2>3, Zenon
<1>4. /\ cursor = [j \in Jobs |-> cursor[j]]
      /\ \A j \in Jobs : cursor[j] = 0
  BY DEF Init
<1>5. /\ tick = [j \in Jobs |-> tick[j]]
      /\ \A j \in Jobs : tick[j] = NoTick
  BY DEF Init
<1>6. \A j \in Jobs : tick[j] \in [on : BOOLEAN, sigs : SUBSET Of(j), todo : SUBSET Of(j),
                                  errors : SUBSET Of(j)]
  <2> SUFFICES ASSUME NEW S PROVE NoTick \in [on : BOOLEAN, sigs : SUBSET S, todo : SUBSET S,
                                              errors : SUBSET S]
    BY <1>5
  <2>1. {} \in SUBSET S
    OBVIOUS
  <2>2. QED
    BY <2>1 DEF NoTick
<1>7. task \in [Workers -> Task] /\ \A w \in Workers : task[w].pc = "free"
  BY RowTypes DEF Init
<1>8. QED
  BY <1>1, <1>2, <1>3, <1>4, <1>5, <1>6, <1>7 DEF Typed, TypeOK, OwnSig, Task, Pcs

LEMMA AppendKeeps ==
    ASSUME Typed, NEW e \in Sig, sigs' = Append(sigs, e)
    PROVE  /\ sigs' \in Seq(Sig) /\ Len(sigs') = Len(sigs) + 1 /\ Len(sigs) \in Nat
           /\ \A i \in Positions : sigs'[i] = sigs[i] /\ i \in Positions'
           /\ sigs'[Len(sigs) + 1] = e
           /\ \A j \in Jobs : /\ Of(j) \subseteq (Of(j))'
                             /\ \A i \in Of(j) : (Slot(i))' = Slot(i)
<1> DEFINE E == Sig
<1>1. sigs \in Seq(E) /\ e \in E
  BY DEF Typed, TypeOK, Sig
<1> HIDE DEF E
<1>2. /\ sigs' \in Seq(E) /\ Len(sigs') = Len(sigs) + 1 /\ Len(sigs) \in Nat
      /\ \A i \in 1 .. Len(sigs) : sigs'[i] = sigs[i]
      /\ sigs'[Len(sigs) + 1] = e
  BY <1>1, AppendProperties
<1>3. \A i \in Positions : sigs'[i] = sigs[i] /\ i \in Positions'
  BY <1>2 DEF Positions
<1>4. \A j \in Jobs : /\ Of(j) \subseteq (Of(j))'
                     /\ \A i \in Of(j) : (Slot(i))' = Slot(i)
  BY <1>3 DEF Of, Slot
<1>5. QED
  BY <1>2, <1>3, <1>4 DEF E

LEMMA ConfirmTyped == RowAssumption /\ Typed /\ Confirm => Typed'
<1> SUFFICES ASSUME RowAssumption, Typed, Confirm PROVE Typed'
  OBVIOUS
<1>1. PICK n \in Names, slot \in {TipSlot, TipSlot + 1} \cap 1 .. MaxSlot :
         /\ sigs' = Append(sigs, [job |-> IF n \in Takes(NameService) THEN "register"
                                          ELSE "changes",
                                  slot |-> slot, tx |-> n])
         /\ content' \in IF n \in Writing THEN BOOLEAN ELSE {content}
  BY DEF Confirm
<1> DEFINE e == [job |-> IF n \in Takes(NameService) THEN "register" ELSE "changes",
                 slot |-> slot, tx |-> n]
<1>2. e \in Sig
  BY DEF Sig, Jobs
<1> HIDE DEF e
<1>3. sigs' = Append(sigs, e)
  BY <1>1 DEF e
<1>4. /\ sigs' \in Seq(Sig) /\ Len(sigs') = Len(sigs) + 1 /\ Len(sigs) \in Nat
      /\ \A j \in Jobs : /\ Of(j) \subseteq (Of(j))'
                        /\ \A i \in Of(j) : (Slot(i))' = Slot(i)
  BY <1>2, <1>3, AppendKeeps
<1>5. Len(sigs') <= MaxSigs
  BY <1>4 DEF Confirm, RowAssumption
<1>6. content' \in BOOLEAN
  BY <1>1 DEF Typed, TypeOK
<1>7. UNCHANGED <<row, cursor, tick, task, faults>>
  BY DEF Confirm
<1>8. \A j \in Jobs : cursor'[j] \in {0} \cup {(Slot(i))' : i \in (Of(j))'}
  <2> SUFFICES ASSUME NEW j \in Jobs, cursor[j] # 0
               PROVE  \E i \in (Of(j))' : cursor[j] = (Slot(i))'
    BY <1>7
  <2>1. PICK i \in Of(j) : cursor[j] = Slot(i)
    BY DEF Typed, TypeOK
  <2>2. QED
    BY <1>4, <2>1
<1>9. \A j \in Jobs : tick'[j] \in [on : BOOLEAN, sigs : SUBSET (Of(j))',
                                   todo : SUBSET (Of(j))', errors : SUBSET (Of(j))']
  <2> SUFFICES ASSUME NEW j \in Jobs
               PROVE  tick[j] \in [on : BOOLEAN, sigs : SUBSET (Of(j))',
                                   todo : SUBSET (Of(j))', errors : SUBSET (Of(j))']
    BY <1>7
  <2> DEFINE old == Of(j)
             new == (Of(j))'
  <2>1. tick[j] \in [on : BOOLEAN, sigs : SUBSET old, todo : SUBSET old, errors : SUBSET old]
    BY DEF Typed, TypeOK
  <2>2. old \subseteq new
    BY <1>4
  <2> HIDE DEF old, new
  <2>3. tick[j] \in [on : BOOLEAN, sigs : SUBSET new, todo : SUBSET new, errors : SUBSET new]
    BY <2>1, <2>2
  <2>4. QED
    BY <2>3 DEF new
<1>10. \A w \in Workers : (OwnSig(task[w], w))'
  <2> SUFFICES ASSUME NEW w \in Workers, task[w].pc # "free", w \notin Reconcilers
               PROVE  task[w].sig \in (Of(JobOf(w)))'
    BY <1>7 DEF OwnSig, JobOf
  <2>1. task[w].sig \in Of(JobOf(w))
    BY DEF Typed, OwnSig
  <2>2. QED
    BY <1>4, <2>1, JobOfType
<1>11. QED
  BY <1>4, <1>5, <1>6, <1>7, <1>8, <1>9, <1>10 DEF Typed, TypeOK, Sig
(* The steps of the pool workers between taking a signature and being free again. *)
LEMMA WorkTyped ==
    ASSUME RowAssumption, Typed, NEW w \in Workers,
           \/ InsertRegistered(w) \/ FindRegistered(w) \/ SaveRegistered(w)
           \/ FindByNode(w) \/ InsertWritten(w) \/ FindWritten(w) \/ LoadUnresolved(w)
           \/ SaveResolved(w) \/ SigMissed(w)
    PROVE  Typed'
<1> DEFINE at == task[w]
<1>0. /\ row \in Row /\ content \in BOOLEAN /\ faults \in 0 .. MaxFaults
      /\ task \in [Workers -> Task] /\ at \in Task /\ OwnSig(at, w)
  BY Parts
<1>a. at.sig \in 0 .. MaxSigs /\ at.row \in Row /\ at.pc \in Pcs
  BY <1>0 DEF Task
<1>b. Free \in Task /\ OwnSig(Free, w)
  BY RowTypes DEF OwnSig
<1>c. \A r \in Row : /\ row.exists \in BOOLEAN
                    /\ row' = (IF row.exists THEN row ELSE r) => row' \in Row
  BY <1>0 DEF Row
<1>d. ASSUME NEW r \in Row, NEW pc \in Pcs, at.pc # "free" \/ w \in Reconcilers
      PROVE  /\ [at EXCEPT !.pc = pc] \in Task /\ OwnSig([at EXCEPT !.pc = pc], w)
             /\ [at EXCEPT !.pc = pc, !.row = r] \in Task
             /\ OwnSig([at EXCEPT !.pc = pc, !.row = r], w)
  <2>1. [at EXCEPT !.pc = pc] \in Task /\ [at EXCEPT !.pc = pc].sig = at.sig
    BY <1>0 DEF Task
  <2>2. /\ [at EXCEPT !.pc = pc, !.row = r] \in Task
        /\ [at EXCEPT !.pc = pc, !.row = r].sig = at.sig
    BY <1>0 DEF Task
  <2>3. QED
    BY <1>0, <1>d, <2>1, <2>2 DEF OwnSig
<1> HIDE DEF at
<1>1. CASE InsertRegistered(w)
  <2> DEFINE r == [Skeleton EXCEPT !.owner = TRUE, !.setupTx = at.sig]
  <2>1. r \in Row
    BY <1>a, RowTypes
  <2> HIDE DEF r
  <2>2. row' \in Row
    BY <1>1, <1>c, <2>1 DEF InsertRegistered, InsertOrIgnore, r, at
  <2>3. task' = [task EXCEPT ![w] = [at EXCEPT !.pc = "find"]]
    BY <1>0, <1>1 DEF InsertRegistered, at
  <2>4. at.pc # "free" /\ UNCHANGED <<sigs, content, cursor, tick, faults>>
    BY <1>1 DEF InsertRegistered, at
  <2> DEFINE t == [at EXCEPT !.pc = "find"]
  <2>5. t \in Task /\ OwnSig(t, w)
    BY <1>0, <1>d, <2>4 DEF Pcs
  <2> HIDE DEF t
  <2>6. QED
    BY <1>0, <2>2, <2>3, <2>4, <2>5, KeepsOwn DEF t
<1>2. CASE FindRegistered(w)
  <2> DEFINE filled == Filled(row, at.sig)
             t == IF filled = row THEN Free ELSE [at EXCEPT !.pc = "save", !.row = filled]
  <2>1. filled \in Row
    BY <1>0, <1>a, ChangedRows
  <2>2. at.pc # "free" /\ UNCHANGED <<sigs, content, row, cursor, tick, faults>>
    BY <1>2 DEF FindRegistered, at
  <2>3. task' = [task EXCEPT ![w] = t]
    BY <1>0, <1>2 DEF FindRegistered, at
  <2> HIDE DEF filled
  <2>4. t \in Task /\ OwnSig(t, w)
    <3>1. "save" \in Pcs
      BY DEF Pcs
    <3>2. /\ [at EXCEPT !.pc = "save", !.row = filled] \in Task
          /\ OwnSig([at EXCEPT !.pc = "save", !.row = filled], w)
      BY <1>d, <2>1, <2>2, <3>1
    <3>3. QED
      BY <1>b, <3>2
  <2> HIDE DEF t
  <2>5. QED
    BY <1>0, <2>2, <2>3, <2>4, KeepsOwn
<1>3. CASE SaveRegistered(w)
  <2>1. row' \in Row /\ task' = [task EXCEPT ![w] = Free]
        /\ UNCHANGED <<sigs, content, cursor, tick, faults>>
    BY <1>3, <1>a DEF SaveRegistered, at
  <2>2. QED
    BY <1>0, <1>b, <2>1, KeepsOwn
<1>4. CASE FindByNode(w)
  <2> DEFINE stamped == Stamped(row, at.sig)
             t == IF row.exists THEN [at EXCEPT !.pc = "save", !.row = stamped]
                  ELSE [at EXCEPT !.pc = "insert"]
  <2>1. stamped \in Row
    BY <1>0, <1>a, ChangedRows
  <2>2. at.pc # "free" /\ UNCHANGED <<sigs, content, row, cursor, tick, faults>>
    BY <1>4 DEF FindByNode, at
  <2>3. task' = [task EXCEPT ![w] = t]
    BY <1>0, <1>4 DEF FindByNode, at
  <2> HIDE DEF stamped
  <2>4. t \in Task /\ OwnSig(t, w)
    <3>1. "save" \in Pcs /\ "insert" \in Pcs
      BY DEF Pcs
    <3>2. /\ [at EXCEPT !.pc = "save", !.row = stamped] \in Task
          /\ OwnSig([at EXCEPT !.pc = "save", !.row = stamped], w)
          /\ [at EXCEPT !.pc = "insert"] \in Task
          /\ OwnSig([at EXCEPT !.pc = "insert"], w)
      BY <1>d, <2>1, <2>2, <3>1
    <3>3. QED
      BY <3>2
  <2> HIDE DEF t
  <2>5. QED
    BY <1>0, <2>2, <2>3, <2>4, KeepsOwn
<1>5. CASE InsertWritten(w)
  <2>1. PICK account \in Accounts :
           row' = IF row.exists THEN row
                  ELSE [Skeleton EXCEPT !.owner = GetOwner(TRUE, account) # Undefined,
                                        !.setupTx = at.sig]
    BY <1>5 DEF InsertWritten, InsertOrIgnore, at
  <2> DEFINE r == [Skeleton EXCEPT !.owner = GetOwner(TRUE, account) # Undefined,
                                   !.setupTx = at.sig]
  <2>2. r \in Row
    <3> DEFINE owner == GetOwner(TRUE, account) # Undefined
    <3>1. owner \in BOOLEAN
      OBVIOUS
    <3> HIDE DEF owner
    <3>2. QED
      BY <1>a, <3>1, RowTypes DEF owner
  <2> HIDE DEF r
  <2>3. row' \in Row
    BY <1>c, <2>1, <2>2 DEF r
  <2>4. task' = [task EXCEPT ![w] = [at EXCEPT !.pc = "find"]]
    BY <1>0, <1>5 DEF InsertWritten, at
  <2>5. at.pc # "free" /\ UNCHANGED <<sigs, content, cursor, tick, faults>>
    BY <1>5 DEF InsertWritten, at
  <2> DEFINE t == [at EXCEPT !.pc = "find"]
  <2>6. t \in Task /\ OwnSig(t, w)
    BY <1>0, <1>d, <2>5 DEF Pcs
  <2> HIDE DEF t
  <2>7. QED
    BY <1>0, <2>3, <2>4, <2>5, <2>6, KeepsOwn DEF t
<1>6. CASE FindWritten(w)
  <2> DEFINE t == [at EXCEPT !.pc = "save", !.row = Stamped(row, at.sig)]
  <2>1. Stamped(row, at.sig) \in Row
    BY <1>0, <1>a, ChangedRows
  <2>2. at.pc # "free" /\ UNCHANGED <<sigs, content, row, cursor, tick, faults>>
    BY <1>6 DEF FindWritten, at
  <2>3. task' = [task EXCEPT ![w] = t]
    BY <1>0, <1>6 DEF FindWritten, at
  <2>4. t \in Task /\ OwnSig(t, w)
    BY <1>d, <2>1, <2>2 DEF Pcs
  <2> HIDE DEF t
  <2>5. QED
    BY <1>0, <2>2, <2>3, <2>4, KeepsOwn
<1>7. CASE LoadUnresolved(w)
  <2> DEFINE t == [at EXCEPT !.pc = "save", !.row = row]
  <2>1. w \in Reconcilers /\ UNCHANGED <<sigs, content, row, cursor, tick, faults>>
    BY <1>7 DEF LoadUnresolved
  <2>2. task' = [task EXCEPT ![w] = t]
    BY <1>0, <1>7 DEF LoadUnresolved, at
  <2>3. t \in Task /\ OwnSig(t, w)
    BY <1>0, <1>d, <2>1 DEF Pcs
  <2> HIDE DEF t
  <2>4. QED
    BY <1>0, <2>1, <2>2, <2>3, KeepsOwn
<1>8. CASE SaveResolved(w)
  <2>1. Resolved(at.row) \in Row
    BY <1>0, <1>a, ChangedRows
  <2>2. /\ row' = Resolved(at.row) /\ task' = [task EXCEPT ![w] = Free]
        /\ UNCHANGED <<sigs, content, cursor, tick, faults>>
    BY <1>8 DEF SaveResolved, at
  <2>3. QED
    BY <1>0, <1>b, <2>1, <2>2, KeepsOwn
<1>9. CASE SigMissed(w)
  <2>1. /\ task' = [task EXCEPT ![w] = Free]
        /\ UNCHANGED <<sigs, content, row, cursor, tick>>
    BY <1>9 DEF SigMissed
  <2>2. faults' \in 0 .. MaxFaults
    BY <1>0, <1>9 DEF SigMissed, Fault, RowAssumption
  <2>3. QED
    BY <1>0, <1>b, <2>1, <2>2, KeepsOwn
<1>10. QED
  BY <1>1, <1>2, <1>3, <1>4, <1>5, <1>6, <1>7, <1>8, <1>9
(* The records of the ticks that a step of one job leaves. *)
LEMMA TickStep ==
    ASSUME Typed, UNCHANGED sigs, NEW j \in Jobs, NEW t \in TickOf(j),
           tick' = [tick EXCEPT ![j] = t]
    PROVE  TicksTyped'
<1>1. tick = [k \in Jobs |-> tick[k]] /\ \A k \in Jobs : tick[k] \in TickOf(k)
  BY DEF Typed, TypeOK, TickOf
<1>2. tick'[j] = t /\ \A k \in Jobs \ {j} : tick'[k] = tick[k]
  BY <1>1
<1>3. \A k : (TickOf(k))' = TickOf(k)
  BY SameSigs DEF TickOf
<1>4. tick' = [k \in Jobs |-> tick'[k]]
  BY <1>1
<1>5. \A k \in Jobs : tick'[k] \in TickOf(k)
  BY <1>1, <1>2
<1>6. QED
  BY <1>3, <1>4, <1>5 DEF TicksTyped

LEMMA TickOfType ==
    ASSUME NEW j, NEW on \in BOOLEAN, NEW seen \in SUBSET Of(j), NEW todo \in SUBSET Of(j),
           NEW errors \in SUBSET Of(j)
    PROVE  [on |-> on, sigs |-> seen, todo |-> todo, errors |-> errors] \in TickOf(j)
  BY DEF TickOf

LEMMA TickTyped ==
    ASSUME RowAssumption, Typed, NEW j \in Jobs, StartTick(j) \/ EndTick(j)
    PROVE  Typed'
<1>0. /\ row \in Row /\ content \in BOOLEAN /\ faults \in 0 .. MaxFaults
      /\ task \in [Workers -> Task] /\ \A w \in Workers : OwnSig(task[w], w)
      /\ cursor = [k \in Jobs |-> cursor[k]]
      /\ \A k \in Jobs : cursor[k] \in {0} \cup {Slot(i) : i \in Of(k)}
  BY Parts
<1>e. {} \in SUBSET Of(j) /\ TRUE \in BOOLEAN /\ FALSE \in BOOLEAN
  OBVIOUS
<1>1. CASE StartTick(j)
  <2> DEFINE new == {i \in Of(j) : Slot(i) >= cursor[j]}
             t == [on |-> TRUE, sigs |-> new, todo |-> new, errors |-> {}]
  <2>1. tick' = [tick EXCEPT ![j] = t] /\ UNCHANGED <<sigs, content, row, cursor, task, faults>>
    BY <1>1 DEF StartTick
  <2>2. new \in SUBSET Of(j)
    OBVIOUS
  <2> HIDE DEF new
  <2>3. t \in TickOf(j)
    BY <1>e, <2>2, TickOfType
  <2> HIDE DEF t
  <2>4. TicksTyped'
    BY <2>1, <2>3, TickStep
  <2>5. QED
    BY <1>0, <2>1, <2>4, KeepsTypes
<1>2. CASE EndTick(j)
  <2> DEFINE some == IF tick[j].errors = {} THEN Newest(tick[j].sigs) ELSE Oldest(tick[j].errors)
  <2>1. PICK i \in some : cursor' = [cursor EXCEPT ![j] = IF Slot(i) > @ THEN Slot(i) ELSE @]
    BY <1>2 DEF EndTick
  <2>2. i \in Of(j)
    BY Parts DEF Newest, Oldest
  <2>3. cursor' = [k \in Jobs |-> cursor'[k]]
    BY <1>0, <2>1
  <2>4. \A k \in Jobs : cursor'[k] \in {0} \cup {Slot(n) : n \in Of(k)}
    BY <1>0, <2>1, <2>2
  <2>5. tick' = [tick EXCEPT ![j] = NoTick] /\ UNCHANGED <<sigs, content, row, task, faults>>
    BY <1>2 DEF EndTick
  <2>6. NoTick \in TickOf(j)
    BY <1>e, TickOfType DEF NoTick
  <2>7. TicksTyped'
    BY <2>5, <2>6, TickStep
  <2>8. QED
    BY <1>0, <2>3, <2>4, <2>5, <2>7, KeepsTypes
<1>3. QED
  BY <1>1, <1>2

(* A signature taken is one of the job's own, and so is one that failed. *)
LEMMA TakeSigTyped ==
    ASSUME RowAssumption, Typed, NEW w \in Workers, TakeSig(w) \/ TaskThrows(w)
    PROVE  Typed'
<1> DEFINE j == JobOf(w)
<1>0. /\ row \in Row /\ content \in BOOLEAN /\ faults \in 0 .. MaxFaults /\ j \in Jobs
      /\ task \in [Workers -> Task] /\ \A v \in Workers : OwnSig(task[v], v)
      /\ cursor = [k \in Jobs |-> cursor[k]] /\ tick = [k \in Jobs |-> tick[k]]
      /\ \A k \in Jobs : cursor[k] \in {0} \cup {Slot(i) : i \in Of(k)}
  BY Parts, JobOfType
<1>1. tick[j] \in TickOf(j)
  BY <1>0 DEF Typed, TypeOK, TickOf
<1>t. /\ \A todo \in SUBSET Of(j) : [tick[j] EXCEPT !.todo = todo] \in TickOf(j)
      /\ \A errors \in SUBSET Of(j) : [tick[j] EXCEPT !.errors = errors] \in TickOf(j)
  BY <1>1 DEF TickOf
<1>2. CASE TakeSig(w)
  <2>1. PICK i \in tick[j].todo :
           /\ tick' = [tick EXCEPT ![j].todo = @ \ {i}]
           /\ task' = IF sigs[i].tx \notin Found[j] THEN task
                      ELSE [task EXCEPT ![w] = [Free EXCEPT !.sig = i,
                               !.pc = IF j = "register" THEN "insert" ELSE "byNode"]]
    BY <1>2 DEF TakeSig
  <2>2. UNCHANGED <<sigs, content, row, cursor, faults>>
    BY <1>2 DEF TakeSig
  <2>3. i \in Of(j) /\ i \in 0 .. MaxSigs
    <3>1. i \in Of(j)
      BY <1>1, <2>1 DEF TickOf
    <3>2. /\ i \in Nat /\ i <= Len(sigs) /\ Len(sigs) <= MaxSigs
          /\ Len(sigs) \in Nat /\ MaxSigs \in Nat
      BY <3>1, SigAt DEF Typed, TypeOK, RowAssumption
    <3>3. QED
      BY <3>1, <3>2
  <2> DEFINE pc == IF j = "register" THEN "insert" ELSE "byNode"
             t == [Free EXCEPT !.sig = i, !.pc = pc]
             left == tick[j].todo \ {i}
             on == [tick[j] EXCEPT !.todo = left]
  <2>4. t \in Task /\ t.sig = i
    BY <2>3, RowTypes DEF Task, Pcs
  <2>5. OwnSig(t, w)
    BY <2>3, <2>4 DEF OwnSig
  <2>6. task' \in [Workers -> Task] /\ \A v \in Workers : OwnSig(task'[v], v)
    <3> HIDE DEF t
    <3>1. CASE task' = task
      BY <1>0, <3>1
    <3>2. CASE task' = [task EXCEPT ![w] = t]
      BY <1>0, <2>4, <2>5, <3>2
    <3>3. QED
      BY <2>1, <3>1, <3>2 DEF t
  <2>7. tick' = [tick EXCEPT ![j] = on]
    BY <1>0, <2>1
  <2>8. left \in SUBSET Of(j)
    BY <1>1 DEF TickOf
  <2> HIDE DEF left, j
  <2>9. on \in TickOf(j)
    BY <1>t, <2>8
  <2> HIDE DEF on
  <2>10. TicksTyped'
    BY <1>0, <2>2, <2>7, <2>9, TickStep
  <2>11. QED
    BY <1>0, <2>2, <2>6, <2>10, KeepsTypes
<1>3. CASE TaskThrows(w)
  <2>1. faults' \in 0 .. MaxFaults
    BY <1>0, <1>3 DEF TaskThrows, Fault, RowAssumption
  <2>2. task' = [task EXCEPT ![w] = Free] /\ UNCHANGED <<sigs, content, row, cursor>>
    BY <1>3 DEF TaskThrows
  <2>3. task' \in [Workers -> Task] /\ \A v \in Workers : OwnSig(task'[v], v)
    <3>1. Free \in Task /\ OwnSig(Free, w)
      BY RowTypes DEF OwnSig
    <3>2. QED
      BY <1>0, <2>2, <3>1
  <2>4. CASE w \in Reconcilers
    <3>1. TicksTyped'
      BY <1>3, <2>2, <2>4, SameTicks DEF TaskThrows
    <3>2. QED
      BY <1>0, <2>1, <2>2, <2>3, <3>1, KeepsTypes
  <2>5. CASE w \notin Reconcilers
    <3> DEFINE errors == tick[j].errors \cup {task[w].sig}
               on == [tick[j] EXCEPT !.errors = errors]
    <3>1. tick' = [tick EXCEPT ![j] = on]
      BY <1>0, <1>3, <2>5 DEF TaskThrows
    <3>2. task[w].sig \in Of(j)
      BY <1>0, <1>3, <2>5 DEF TaskThrows, OwnSig
    <3>3. errors \in SUBSET Of(j)
      BY <1>1, <3>2 DEF TickOf
    <3> HIDE DEF errors, j
    <3>4. on \in TickOf(j)
      BY <1>t, <3>3
    <3> HIDE DEF on
    <3>5. TicksTyped'
      BY <1>0, <2>2, <3>1, <3>4, TickStep
    <3>6. QED
      BY <1>0, <2>1, <2>2, <2>3, <3>5, KeepsTypes
  <2>6. QED
    BY <2>4, <2>5
<1>4. QED
  BY <1>2, <1>3
LEMMA StepTyped == RowAssumption /\ Typed /\ [Next]_vars => Typed'
<1> SUFFICES ASSUME RowAssumption, Typed, [Next]_vars PROVE Typed'
  OBVIOUS
<1>0. /\ row \in Row /\ content \in BOOLEAN /\ faults \in 0 .. MaxFaults
      /\ task \in [Workers -> Task] /\ \A w \in Workers : OwnSig(task[w], w)
      /\ cursor = [j \in Jobs |-> cursor[j]] /\ tick = [j \in Jobs |-> tick[j]]
      /\ \A j \in Jobs : cursor[j] \in {0} \cup {Slot(i) : i \in Of(j)}
  BY Parts
<1>1. CASE BackfillInserts
  <2>1. row' \in Row
    BY <1>0, <1>1, RowTypes DEF BackfillInserts, InsertOrIgnore
  <2>2. UNCHANGED <<sigs, content, cursor, tick, task, faults>>
    BY <1>1 DEF BackfillInserts
  <2>3. TicksTyped'
    BY <2>2, SameTicks
  <2>4. QED
    BY <1>0, <2>1, <2>2, <2>3, KeepsTypes
<1>2. CASE Crash
  <2>1. faults' \in 0 .. MaxFaults
    BY <1>0, <1>2 DEF Crash, Fault, RowAssumption
  <2>2. /\ UNCHANGED <<sigs, content, row, cursor>> /\ tick' = [j \in Jobs |-> NoTick]
        /\ task' = [w \in Workers |-> Free]
    BY <1>2 DEF Crash
  <2>3. TicksTyped'
    <3>1. \A j \in Jobs : {} \in SUBSET Of(j) /\ FALSE \in BOOLEAN
      OBVIOUS
    <3>2. \A j \in Jobs : NoTick \in TickOf(j)
      BY <3>1, TickOfType DEF NoTick
    <3>3. \A j : (TickOf(j))' = TickOf(j)
      BY <2>2, SameSigs DEF TickOf
    <3>4. QED
      BY <2>2, <3>2, <3>3 DEF TicksTyped
  <2>4. task' \in [Workers -> Task] /\ \A w \in Workers : OwnSig(task'[w], w)
    BY <2>2, RowTypes DEF OwnSig
  <2>5. QED
    BY <1>0, <2>1, <2>2, <2>3, <2>4, KeepsTypes
<1>3. CASE UNCHANGED vars
  <2>1. UNCHANGED <<sigs, content, row, cursor, tick, task, faults>>
    BY <1>3 DEF vars
  <2>2. TicksTyped'
    BY <2>1, SameTicks
  <2>3. QED
    BY <1>0, <2>1, <2>2, KeepsTypes
<1>4. ASSUME NEW w \in Workers, Work(w) \/ Disturb(w) \/ LoadUnresolved(w)
      PROVE  Typed'
  BY <1>4, WorkTyped, TakeSigTyped DEF Work, Disturb
<1>5. QED
  BY <1>1, <1>2, <1>3, <1>4, ConfirmTyped, TickTyped DEF Next

(* The chain, the row, the ticks and what the workers hold have their types. *)
THEOREM TypeCorrect == Spec => []TypeOK
<1>1. Typed => TypeOK
  BY DEF Typed
<1>2. QED
  BY <1>1, RowAssumption, InitTyped, StepTyped, PTL DEF Spec

-----------------------------------------------------------------------------
(***************************************************************************)
(* Registration.  What the parsers owe the rows: the domain is found only  *)
(* in a transaction that went through and names it in the accounts that    *)
(* count.  The invariant: a signature that is processed, and a write that  *)
(* is confirmed, come after the registration; and all signatures that are  *)
(* carried to a row, by a task or in an entity one has loaded, tell of the *)
(* domain.                                                                 *)
(***************************************************************************)
ParsersSound == Found.register \subseteq Registering /\ Found.changes \subseteq Writing

LEMMA ParsersAreSound == TransactionsAssumption => ParsersSound
<1> SUFFICES ASSUME TransactionsAssumption PROVE ParsersSound
  OBVIOUS
<1>1. ASSUME NEW n \in Names
      PROVE  /\ Contains(CreatedDomains(Transactions[n]), Domain) => n \in Registering
             /\ Contains(RecordDomains(Transactions[n]), Domain) => n \in Writing
  <2> DEFINE tx == Transactions[n]
  <2>1. tx.top \in Seq(All(n)) /\ tx.inner \in Seq(Seq(All(n)))
    BY DEF TransactionsAssumption
  <2>2. All(n) = Members(tx)
    BY DEF All
  <2>3. /\ Contains(CreatedDomains(tx), Domain)
             => ~tx.err /\ \E ix \in All(n) : IsCreate(ix) /\ Account(ix, 2) = Domain
        /\ Contains(RecordDomains(tx), Domain)
             => ~tx.err /\ \E ix \in All(n) : TouchesRecord(ix) /\ Account(ix, 4) = Domain
    <3> HIDE DEF tx
    <3> QED
      BY <2>1, <2>2, ParsersExact DEF Exactly
  <2> QED
    BY <2>3 DEF Registering, Writing, Takes, IsCreate, TouchesRecord
<1> QED
  BY <1>1 DEF ParsersSound, Found

WritesFollow == (\E i \in Positions : sigs[i].tx \in Writing) => Registered

TasksFollow == \A w \in Workers : task[w].pc # "free" => Registered

RowFollows == row.exists => Registered

RowInv == Typed /\ WritesFollow /\ TasksFollow /\ RowFollows

LEMMA ConfirmFollows ==
    ASSUME RowAssumption, RowInv, Confirm
    PROVE  WritesFollow' /\ TasksFollow' /\ RowFollows'
<1>1. PICK n \in Names, slot \in {TipSlot, TipSlot + 1} \cap 1 .. MaxSlot :
         /\ Registered <=> n \in Writing
         /\ sigs' = Append(sigs, [job |-> IF n \in Takes(NameService) THEN "register"
                                          ELSE "changes",
                                  slot |-> slot, tx |-> n])
  BY DEF Confirm
<1> DEFINE e == [job |-> IF n \in Takes(NameService) THEN "register" ELSE "changes",
                 slot |-> slot, tx |-> n]
<1>2. e \in Sig /\ e.tx = n
  BY DEF Sig, Jobs
<1> HIDE DEF e
<1>3. sigs' = Append(sigs, e) /\ Typed /\ UNCHANGED <<row, task>>
  BY <1>1 DEF e, RowInv, Confirm
<1>4. /\ Len(sigs') = Len(sigs) + 1 /\ Len(sigs) \in Nat
      /\ \A i \in Positions : sigs'[i] = sigs[i] /\ i \in Positions'
      /\ sigs'[Len(sigs) + 1] = e
  BY <1>2, <1>3, AppendKeeps
<1>5. Registered => Registered'
  BY <1>4 DEF Registered
<1>6. ASSUME NEW i \in Positions', sigs'[i].tx \in Writing
      PROVE  Registered
  <2>1. CASE i \in Positions
    BY <1>4, <1>6, <2>1 DEF RowInv, WritesFollow
  <2>2. CASE i \notin Positions
    <3>1. i = Len(sigs) + 1
      BY <1>4, <2>2 DEF Positions
    <3>2. QED
      BY <1>1, <1>2, <1>4, <1>6, <3>1
  <2>3. QED
    BY <2>1, <2>2
<1>7. WritesFollow'
  <2>1. WritesFollow' = ((\E i \in Positions' : sigs'[i].tx \in Writing) => Registered')
    BY DEF WritesFollow, Writing, Takes, All, Names
  <2>2. QED
    BY <1>5, <1>6, <2>1
<1>8. QED
  BY <1>3, <1>5, <1>7 DEF RowInv, TasksFollow, RowFollows

(* Whatever a pool worker finds, it finds in a transaction after the registration. *)
LEMMA FoundFollows ==
    ASSUME ParsersSound, RowInv, NEW j \in Jobs, NEW i \in Of(j), sigs[i].tx \in Found[j]
    PROVE  Registered
<1>1. i \in Positions
  BY DEF Of
<1>2. CASE j = "register"
  BY <1>1, <1>2 DEF ParsersSound, Registered
<1>3. CASE j = "changes"
  BY <1>1, <1>3 DEF ParsersSound, RowInv, WritesFollow
<1>4. QED
  BY <1>2, <1>3 DEF Jobs
LEMMA AfterRegistration ==
    ASSUME UNCHANGED sigs, Registered
    PROVE  WritesFollow' /\ TasksFollow' /\ RowFollows'
<1>1. Registered'
  BY SameSigs
<1>2. QED
  BY <1>1 DEF WritesFollow, TasksFollow, RowFollows

(* Before the registration nobody works on the domain, and a step that changes that is none. *)
LEMMA BeforeRegistration ==
    ASSUME RowInv, UNCHANGED <<sigs, row>>, ~Registered,
           \A w \in Workers : task'[w].pc = "free" \/ task'[w] = task[w]
    PROVE  WritesFollow' /\ TasksFollow' /\ RowFollows'
<1>1. Registered' = Registered
  BY SameSigs
<1>2. WritesFollow' = WritesFollow
  BY <1>1 DEF WritesFollow, Positions, Writing, Takes, All, Names
<1>3. QED
  BY <1>1, <1>2 DEF RowInv, TasksFollow, RowFollows

LEMMA InitRowInv == RowAssumption /\ Init => RowInv
<1> SUFFICES ASSUME RowAssumption, Init PROVE RowInv
  OBVIOUS
<1>1. Typed
  BY InitTyped
<1>2. Positions = {}
  <2>1. Len(sigs) = 0
    BY DEF Init
  <2>2. QED
    BY <2>1 DEF Positions
<1>3. \A w \in Workers : task[w].pc = "free"
  BY RowTypes DEF Init
<1>4. ~row.exists
  BY DEF Init, NoRow
<1>5. QED
  BY <1>1, <1>2, <1>3, <1>4 DEF RowInv, WritesFollow, TasksFollow, RowFollows

LEMMA StepRowInv == RowAssumption /\ ParsersSound /\ RowInv /\ [Next]_vars => RowInv'
<1> SUFFICES ASSUME RowAssumption, ParsersSound, RowInv, [Next]_vars PROVE RowInv'
  OBVIOUS
<1>t. Typed /\ Typed'
  BY StepTyped DEF RowInv
<1> DEFINE Follows == WritesFollow' /\ TasksFollow' /\ RowFollows'
<1>1. CASE Confirm
  BY <1>t, <1>1, ConfirmFollows DEF RowInv
<1>2. CASE Registered /\ UNCHANGED sigs
  BY <1>t, <1>2, AfterRegistration DEF RowInv
<1>3. ASSUME ~Registered, NEW w \in Workers, Work(w) \/ Disturb(w) \/ LoadUnresolved(w)
      PROVE  UNCHANGED <<sigs, row, task>>
  <2>1. task[w].pc = "free" /\ ~row.exists
    BY <1>3 DEF RowInv, TasksFollow, RowFollows
  <2>2. TakeSig(w)
    BY <1>3, <2>1 DEF Work, Disturb, LoadUnresolved, InsertRegistered, FindRegistered,
                      SaveRegistered, FindByNode, InsertWritten, FindWritten, SaveResolved,
                      SigMissed, TaskThrows
  <2>3. PICK i \in tick[JobOf(w)].todo :
           task' = IF sigs[i].tx \notin Found[JobOf(w)] THEN task
                   ELSE [task EXCEPT ![w] = [Free EXCEPT !.sig = i,
                            !.pc = IF JobOf(w) = "register" THEN "insert" ELSE "byNode"]]
    BY <2>2 DEF TakeSig
  <2>4. JobOf(w) \in Jobs /\ i \in Of(JobOf(w))
    BY <1>t, JobOfType, Parts
  <2>5. sigs[i].tx \notin Found[JobOf(w)]
    BY <1>3, <2>4, FoundFollows
  <2>6. QED
    BY <2>2, <2>3, <2>5 DEF TakeSig
<1>4. CASE ~Registered /\ ~Confirm
  <2>1. /\ UNCHANGED <<sigs, row>>
        /\ \A w \in Workers : task'[w].pc = "free" \/ task'[w] = task[w]
    <3>1. CASE Crash
      BY <3>1, RowTypes DEF Crash
    <3>2. ASSUME NEW j \in Jobs, StartTick(j) \/ EndTick(j)
          PROVE  UNCHANGED <<sigs, row, task>>
      BY <3>2 DEF StartTick, EndTick
    <3>3. CASE UNCHANGED vars
      BY <3>3 DEF vars
    <3>4. ~BackfillInserts
      BY <1>4 DEF BackfillInserts
    <3>5. QED
      BY <1>3, <1>4, <3>1, <3>2, <3>3, <3>4 DEF Next
  <2>2. QED
    BY <1>t, <1>4, <2>1, BeforeRegistration DEF RowInv
<1>5. Confirm \/ UNCHANGED sigs
  <2>1. ASSUME NEW w \in Workers, Work(w) \/ Disturb(w) \/ LoadUnresolved(w)
        PROVE  UNCHANGED sigs
    BY <2>1 DEF Work, Disturb, TakeSig, LoadUnresolved, InsertRegistered, FindRegistered,
                SaveRegistered, FindByNode, InsertWritten, FindWritten, SaveResolved,
                SigMissed, TaskThrows
  <2>2. QED
    BY <2>1 DEF Next, BackfillInserts, Crash, StartTick, EndTick, vars
<1>6. QED
  BY <1>1, <1>2, <1>4, <1>5

-----------------------------------------------------------------------------
(* The signatures a row may name: none yet, or one that tells of the domain. *)
Tellers == {0} \cup {i \in Positions : sigs[i].tx \in Registering \cup Writing}

StampInv ==
    /\ row.setupTx \in Tellers
    /\ \A w \in Workers : task[w].sig \in Tellers /\ task[w].row.setupTx \in Tellers

LEMMA SameTellers == UNCHANGED sigs => Tellers' = Tellers
  BY DEF Tellers, Positions, Registering, Writing, Takes, All, Names

LEMMA InitStamps == RowAssumption /\ Init => StampInv
<1> SUFFICES ASSUME Init PROVE StampInv
  OBVIOUS
<1>1. 0 \in Tellers
  BY DEF Tellers
<1>2. NoRow.setupTx = 0 /\ Free.sig = 0 /\ Free.row.setupTx = 0
  BY DEF NoRow, Free
<1>3. QED
  BY <1>1, <1>2 DEF Init, StampInv

LEMMA ConfirmStamps ==
    ASSUME RowAssumption, Typed, StampInv, Confirm
    PROVE  StampInv'
<1>1. PICK n \in Names, slot \in {TipSlot, TipSlot + 1} \cap 1 .. MaxSlot :
         sigs' = Append(sigs, [job |-> IF n \in Takes(NameService) THEN "register"
                                       ELSE "changes",
                               slot |-> slot, tx |-> n])
  BY DEF Confirm
<1> DEFINE e == [job |-> IF n \in Takes(NameService) THEN "register" ELSE "changes",
                 slot |-> slot, tx |-> n]
<1>2. e \in Sig
  BY DEF Sig, Jobs
<1> HIDE DEF e
<1>3. sigs' = Append(sigs, e)
  BY <1>1 DEF e
<1>4. \A i \in Positions : sigs'[i] = sigs[i] /\ i \in Positions'
  BY <1>2, <1>3, AppendKeeps
<1>5. Tellers' = {0} \cup {i \in Positions' : sigs'[i].tx \in Registering \cup Writing}
  BY DEF Tellers, Registering, Writing, Takes, All, Names
<1>6. Tellers \subseteq Tellers'
  BY <1>4, <1>5 DEF Tellers
<1>7. QED
  BY <1>6 DEF StampInv, Confirm

(* A worker's step that leaves it with task t, and the row the table has after it. *)
LEMMA KeepsStamps ==
    ASSUME Typed, StampInv, UNCHANGED sigs, NEW w \in Workers, NEW t,
           task' = [task EXCEPT ![w] = t],
           t.sig \in Tellers, t.row.setupTx \in Tellers, row'.setupTx \in Tellers
    PROVE  StampInv'
<1>1. task \in [Workers -> Task]
  BY Parts
<1>2. task'[w] = t /\ \A v \in Workers \ {w} : task'[v] = task[v]
  BY <1>1
<1>3. QED
  BY <1>2, SameTellers DEF StampInv

LEMMA ChangedStamps ==
    ASSUME NEW r \in Row, NEW sig \in 0 .. MaxSigs
    PROVE  /\ Filled(r, sig).setupTx \in {r.setupTx, sig}
           /\ Stamped(r, sig).setupTx = sig
           /\ Resolved(r).setupTx = r.setupTx
           /\ \A owner : [Skeleton EXCEPT !.owner = owner, !.setupTx = sig].setupTx = sig
<1>1. Filled(r, sig).setupTx \in {r.setupTx, sig}
  BY DEF Filled, Row
<1>2. Stamped(r, sig).setupTx = sig /\ Resolved(r).setupTx = r.setupTx
  BY DEF Stamped, Resolved, Row
<1>3. \A owner : [Skeleton EXCEPT !.owner = owner, !.setupTx = sig].setupTx = sig
  BY DEF Skeleton, NoRow
<1>4. QED
  BY <1>1, <1>2, <1>3

LEMMA WorkStamps ==
    ASSUME RowAssumption, Typed, StampInv, NEW w \in Workers,
           \/ InsertRegistered(w) \/ FindRegistered(w) \/ SaveRegistered(w)
           \/ FindByNode(w) \/ InsertWritten(w) \/ FindWritten(w) \/ LoadUnresolved(w)
           \/ SaveResolved(w) \/ SigMissed(w) \/ TaskThrows(w)
    PROVE  StampInv'
<1> DEFINE at == task[w]
<1>0. /\ row \in Row /\ task \in [Workers -> Task] /\ at \in Task
      /\ at.sig \in 0 .. MaxSigs /\ at.row \in Row
  BY Parts DEF Task
<1>1. row.setupTx \in Tellers /\ at.sig \in Tellers /\ at.row.setupTx \in Tellers
  BY DEF StampInv
<1>2. Free.sig \in Tellers /\ Free.row.setupTx \in Tellers
  BY DEF Free, NoRow, Tellers
<1>3. ASSUME NEW pc, NEW r
      PROVE  /\ [at EXCEPT !.pc = pc].sig = at.sig /\ [at EXCEPT !.pc = pc].row = at.row
             /\ [at EXCEPT !.pc = pc, !.row = r].sig = at.sig
             /\ [at EXCEPT !.pc = pc, !.row = r].row = r
  BY <1>0 DEF Task
<1> HIDE DEF at
<1>4. CASE InsertRegistered(w) \/ InsertWritten(w)
  <2>1. task' = [task EXCEPT ![w] = [at EXCEPT !.pc = "find"]] /\ UNCHANGED sigs
    BY <1>0, <1>4 DEF InsertRegistered, InsertWritten, at
  <2>2. row' = row \/ \E owner \in BOOLEAN :
                        row' = [Skeleton EXCEPT !.owner = owner, !.setupTx = at.sig]
    BY <1>4 DEF InsertRegistered, InsertWritten, InsertOrIgnore, at
  <2>3. row'.setupTx \in Tellers
    <3>1. \A owner : [Skeleton EXCEPT !.owner = owner, !.setupTx = at.sig].setupTx = at.sig
      BY <1>0, ChangedStamps
    <3>2. QED
      BY <1>1, <2>2, <3>1
  <2> DEFINE t == [at EXCEPT !.pc = "find"]
  <2>4. t.sig \in Tellers /\ t.row.setupTx \in Tellers
    BY <1>1, <1>3
  <2> HIDE DEF t
  <2>5. QED
    BY <2>1, <2>3, <2>4, KeepsStamps DEF t
<1>5. CASE FindRegistered(w)
  <2> DEFINE filled == Filled(row, at.sig)
             s == [at EXCEPT !.pc = "save", !.row = filled]
             t == IF filled = row THEN Free ELSE s
  <2>1. task' = [task EXCEPT ![w] = t] /\ UNCHANGED <<sigs, row>>
    BY <1>0, <1>5 DEF FindRegistered, at
  <2>2. filled.setupTx \in Tellers
    BY <1>0, <1>1, ChangedStamps
  <2> HIDE DEF filled
  <2>3. s.sig \in Tellers /\ s.row.setupTx \in Tellers
    BY <1>1, <1>3, <2>2
  <2> HIDE DEF s
  <2>4. t.sig \in Tellers /\ t.row.setupTx \in Tellers
    BY <1>2, <2>3
  <2> HIDE DEF t
  <2>5. QED
    BY <1>1, <2>1, <2>4, KeepsStamps
<1>6. CASE FindByNode(w) \/ FindWritten(w)
  <2> DEFINE stamped == Stamped(row, at.sig)
             s == [at EXCEPT !.pc = "save", !.row = stamped]
             i == [at EXCEPT !.pc = "insert"]
  <2>1. PICK t \in {s, i} : task' = [task EXCEPT ![w] = t]
    BY <1>0, <1>6 DEF FindByNode, FindWritten, at
  <2>2. stamped.setupTx \in Tellers
    BY <1>0, <1>1, ChangedStamps
  <2> HIDE DEF stamped
  <2>3. /\ s.sig \in Tellers /\ s.row.setupTx \in Tellers
        /\ i.sig \in Tellers /\ i.row.setupTx \in Tellers
    BY <1>1, <1>3, <2>2
  <2>4. UNCHANGED <<sigs, row>>
    BY <1>6 DEF FindByNode, FindWritten
  <2> HIDE DEF s, i
  <2>5. QED
    BY <1>1, <2>1, <2>3, <2>4, KeepsStamps
<1>7. CASE LoadUnresolved(w)
  <2> DEFINE t == [at EXCEPT !.pc = "save", !.row = row]
  <2>1. task' = [task EXCEPT ![w] = t] /\ UNCHANGED <<sigs, row>>
    BY <1>0, <1>7 DEF LoadUnresolved, at
  <2>2. t.sig \in Tellers /\ t.row.setupTx \in Tellers
    BY <1>1, <1>3
  <2> HIDE DEF t
  <2>3. QED
    BY <1>1, <2>1, <2>2, KeepsStamps
<1>8. CASE SaveRegistered(w) \/ SaveResolved(w) \/ SigMissed(w) \/ TaskThrows(w)
  <2>1. task' = [task EXCEPT ![w] = Free] /\ UNCHANGED sigs
    BY <1>8 DEF SaveRegistered, SaveResolved, SigMissed, TaskThrows
  <2>2. row' \in {row, at.row, Resolved(at.row)}
    BY <1>8 DEF SaveRegistered, SaveResolved, SigMissed, TaskThrows, at
  <2>3. row'.setupTx \in Tellers
    BY <1>0, <1>1, <2>2, ChangedStamps
  <2>4. QED
    BY <1>2, <2>1, <2>3, KeepsStamps
<1>9. QED
  BY <1>4, <1>5, <1>6, <1>7, <1>8

LEMMA TakeStamps ==
    ASSUME RowAssumption, ParsersSound, Typed, StampInv, NEW w \in Workers, TakeSig(w)
    PROVE  StampInv'
<1> DEFINE j == JobOf(w)
<1>1. PICK i \in tick[j].todo :
         task' = IF sigs[i].tx \notin Found[j] THEN task
                 ELSE [task EXCEPT ![w] = [Free EXCEPT !.sig = i,
                          !.pc = IF j = "register" THEN "insert" ELSE "byNode"]]
  BY DEF TakeSig
<1>2. UNCHANGED <<sigs, row>> /\ j \in Jobs /\ i \in Of(j)
  BY JobOfType, Parts DEF TakeSig
<1> HIDE DEF j
<1>3. CASE sigs[i].tx \notin Found[j]
  BY <1>1, <1>2, <1>3, SameTellers DEF StampInv
<1>4. CASE sigs[i].tx \in Found[j]
  <2>1. i \in Tellers
    <3>1. Found["register"] \subseteq Registering /\ Found["changes"] \subseteq Writing
      BY DEF ParsersSound
    <3>2. sigs[i].tx \in Registering \cup Writing
      BY <1>2, <1>4, <3>1 DEF Jobs
    <3>3. QED
      BY <1>2, <3>2 DEF Tellers, Of
  <2> DEFINE t == [Free EXCEPT !.sig = i, !.pc = IF j = "register" THEN "insert" ELSE "byNode"]
  <2>2. t.sig = i /\ t.row.setupTx = 0
    BY DEF Free, NoRow
  <2>3. task' = [task EXCEPT ![w] = t]
    BY <1>1, <1>4
  <2> HIDE DEF t
  <2>4. 0 \in Tellers /\ row.setupTx \in Tellers
    BY DEF Tellers, StampInv
  <2>5. QED
    BY <1>2, <2>1, <2>2, <2>3, <2>4, KeepsStamps
<1>5. QED
  BY <1>3, <1>4

LEMMA StepStamps ==
    RowAssumption /\ ParsersSound /\ Typed /\ StampInv /\ [Next]_vars => StampInv'
<1> SUFFICES ASSUME RowAssumption, ParsersSound, Typed, StampInv, [Next]_vars
             PROVE  StampInv'
  OBVIOUS
<1>1. CASE Confirm
  BY <1>1, ConfirmStamps
<1>2. CASE BackfillInserts
  <2>1. UNCHANGED <<sigs, task>> /\ row' \in {row, Skeleton}
    BY <1>2 DEF BackfillInserts, InsertOrIgnore
  <2>2. Skeleton.setupTx = 0 /\ 0 \in Tellers
    BY DEF Skeleton, NoRow, Tellers
  <2>3. row'.setupTx \in Tellers
    BY <2>1, <2>2 DEF StampInv
  <2>4. QED
    BY <2>1, <2>3, SameTellers DEF StampInv
<1>3. CASE Crash
  <2>1. UNCHANGED <<sigs, row>> /\ \A w \in Workers : task'[w] = Free
    BY <1>3 DEF Crash
  <2>2. Free.sig = 0 /\ Free.row.setupTx = 0 /\ 0 \in Tellers
    BY DEF Free, NoRow, Tellers
  <2>3. QED
    BY <2>1, <2>2, SameTellers DEF StampInv
<1>4. ASSUME NEW j \in Jobs, StartTick(j) \/ EndTick(j) PROVE StampInv'
  <2>1. UNCHANGED <<sigs, row, task>>
    BY <1>4 DEF StartTick, EndTick
  <2>2. QED
    BY <2>1, SameTellers DEF StampInv
<1>5. ASSUME NEW w \in Workers, Work(w) \/ Disturb(w) \/ LoadUnresolved(w) PROVE StampInv'
  BY <1>5, TakeStamps, WorkStamps DEF Work, Disturb
<1>6. CASE UNCHANGED vars
  BY <1>6, SameTellers DEF vars, StampInv
<1>7. QED
  BY <1>1, <1>2, <1>3, <1>4, <1>5, <1>6 DEF Next

(***************************************************************************)
(* For every number of workers, signatures, slots and faults, and whatever *)
(* the transactions and their instructions: no job, no overlap and no      *)
(* replay brings a row of a domain into being before its registration went *)
(* through, or leaves in it a signature that does not tell of the domain.  *)
(***************************************************************************)
THEOREM Registration == Spec => []OnlyRegistered
<1>1. RowInv /\ StampInv => OnlyRegistered
  BY DEF RowInv, RowFollows, StampInv, OnlyRegistered, Tells, Tellers
<1>2. Init => RowInv /\ StampInv
  BY RowAssumption, InitRowInv, InitStamps
<1>3. RowInv /\ StampInv /\ [Next]_vars => (RowInv /\ StampInv)'
  <2>1. ParsersSound
    BY TransactionsAssumption, ParsersAreSound
  <2>2. RowInv => Typed
    BY DEF RowInv
  <2>3. QED
    BY <2>1, <2>2, RowAssumption, StepRowInv, StepStamps
<1>4. QED
  BY <1>1, <1>2, <1>3, PTL DEF Spec

=============================================================================
