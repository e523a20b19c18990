-------------------------- MODULE BatchPublishProofs --------------------------
(***************************************************************************)
(* Theorems about BatchPublish for any number of calls, lists of any       *)
(* length and any limit of a batch.                                        *)
(***************************************************************************)
EXTENDS BatchPublish, FiniteSetTheorems, SequenceTheorems, WellFoundedInduction, TLAPS

Batches == [from : 1..MaxLength, to : 1..MaxLength, size : 0..Limit]

\* Batches of one message or more that follow each other from the message first to
\* the message last.
Chained(bs, first, last) ==
  /\ \A k \in DOMAIN bs : bs[k].from <= bs[k].to /\ bs[k].to <= last
  /\ \A k \in DOMAIN bs : k + 1 \in DOMAIN bs => bs[k + 1].from = bs[k].to + 1
  /\ bs = <<>> => last = first - 1
  /\ bs # <<>> => bs[1].from = first /\ bs[Len(bs)].to = last

\* The messages of c in e are the first n of its list, in order and in one block that
\* follows lo messages of others.
Block(e, c, lo, n) ==
  \A i \in DOMAIN e : /\ e[i][1] = c <=> i \in (lo + 1)..(lo + n)
                      /\ e[i][1] = c => e[i] = <<c, i - lo>>

\* The sender is held from the first round of _pack to the last send.
LockInv == \A c \in Calls : lock = c <=> pc[c] \in {"packing", "sending"}

\* _pack has cut the list up to the message it is at, and left out none.
PackOf(c) ==
  /\ pc[c] \in {"idle", "waiting"} => batches[c] = <<>> /\ batch[c] = EmptyBatch(1)
  /\ pc[c] \in {"waiting", "packing", "sending"} => sizes[c] # <<>>
  /\ pc[c] = "packing" =>
       /\ Chained(batches[c], 1, batch[c].from - 1)
       /\ batch[c].from <= batch[c].to \/ batch[c] = EmptyBatch(1)
       /\ batch[c].to <= Len(sizes[c])
       /\ \A i \in 1..batch[c].to : sizes[c][i] <= Limit
       /\ batch[c].size = Weight(sizes[c], batch[c].from, batch[c].to)
  /\ pc[c] \in {"packing", "sending"} =>
       \A k \in DOMAIN batches[c] :
         batches[c][k].size = Weight(sizes[c], batches[c][k].from, batches[c][k].to)

\* The service has a block of the call, which a call that sends continues.
BlockOf(c) ==
  \E lo \in 0..Len(entity), n \in 0..Len(sizes[c]) :
    /\ lo + n <= Len(entity) /\ Block(entity, c, lo, n)
    /\ pc[c] \in {"idle", "waiting", "packing"} => n = 0
    /\ pc[c] = "sending" =>
         /\ lo + n = Len(entity)
         /\ batches[c] # <<>> /\ Chained(batches[c], n + 1, Len(sizes[c]))
    /\ pc[c] = "done" => n = Len(sizes[c])
    /\ n > 0 \/ pc[c] = "sending" => \A i \in DOMAIN sizes[c] : sizes[c][i] <= Limit

\* Whatever cuts fit, they have cut as often as _pack by the end of its last full batch.
GreedyOf(c) ==
  /\ pc[c] = "packing" =>
       \A C \in Cuts(sizes[c]) :
         Len(batches[c]) <= Cardinality(C \cap 1..(batch[c].from - 1))
  /\ pc[c] = "sending" /\ Of(c) = {} =>
       \A C \in Cuts(sizes[c]) : Len(batches[c]) <= Cardinality(C) + 1

IInv == /\ TypeOK /\ LockInv
        /\ \A c \in Calls : PackOf(c) /\ BlockOf(c) /\ GreedyOf(c)

-----------------------------------------------------------------------------
(* Sizes of lists *)

LEMMA Smallest == ASSUME NEW T \in SUBSET Nat, T # {} PROVE \E x \in T : \A y \in T : x <= y
<1> DEFINE R == OpToRel(<, Nat)
<1>1. \A x, y \in Nat : y < x => <<y, x>> \in R
  BY DEF OpToRel
<1>2. IsWellFoundedOn(R, Nat)
  BY NatLessThanWellFounded
<1> HIDE DEF R
<1>3. PICK x \in T : \A y \in T : ~(<<y, x>> \in R)
  BY <1>2, WFMin
<1>4. ASSUME NEW y \in T, y < x PROVE FALSE
  <2>1. <<y, x>> \in R
    BY <1>1, <1>4
  <2> QED
    BY <1>3, <2>1
<1> QED
  BY <1>4

IsTotal(t, s, n) == t \in [0..n -> Nat] /\ t[0] = 0 /\ \A i \in 1..n : t[i] = t[i - 1] + s[i]

LEMMA TotalExists ==
  ASSUME NEW s \in Seq(Nat) PROVE \A n \in 0..Len(s) : \E t : IsTotal(t, s, n)
<1> DEFINE Bad == {n \in 0..Len(s) : ~ \E t : IsTotal(t, s, n)}
<1> SUFFICES ASSUME Bad # {} PROVE FALSE
  OBVIOUS
<1>1. PICK n \in Bad : \A k \in Bad : n <= k
  <2>1. Bad \in SUBSET Nat
    BY LenProperties
  <2> HIDE DEF Bad
  <2> QED
    BY <2>1, Smallest
<1>2. n # 0
  <2>1. IsTotal([i \in 0..0 |-> 0], s, 0)
    BY DEF IsTotal
  <2> QED
    BY <2>1
<1>3. PICK t : IsTotal(t, s, n - 1)
  <2>1. n - 1 \in 0..Len(s) /\ n - 1 \notin Bad
    BY <1>1, <1>2
  <2> QED
    BY <2>1
<1>4. IsTotal([i \in 0..n |-> IF i = n THEN t[n - 1] + s[n] ELSE t[i]], s, n)
  BY <1>2, <1>3, SMTT(20) DEF IsTotal
<1> QED
  BY <1>4

\* The recursion that defines Total has the solution one expects.
LEMMA TotalIs == ASSUME NEW s \in Seq(Nat) PROVE IsTotal(Total(s), s, Len(s))
<1> DEFINE D(t) == [n \in 0..Len(s) |-> IF n = 0 THEN 0 ELSE t[n - 1] + s[n]]
           f == Total(s)
<1>1. PICK t : IsTotal(t, s, Len(s))
  BY TotalExists
<1>2. t = D(t)
  BY <1>1 DEF IsTotal
<1>3. f = CHOOSE g : g = D(g)
  BY DEF Total
<1>4. f = D(f)
  BY <1>2, <1>3
<1> HIDE DEF f
<1>5. f = [n \in 0..Len(s) |-> IF n = 0 THEN 0 ELSE f[n - 1] + s[n]]
  BY <1>4
<1> DEFINE Bad == {n \in 0..Len(s) : f[n] # t[n]}
<1>6. Bad = {}
  <2> SUFFICES ASSUME Bad # {} PROVE FALSE
    OBVIOUS
  <2>1. PICK n \in Bad : \A k \in Bad : n <= k
    <3>1. Bad \in SUBSET Nat
      BY LenProperties
    <3> HIDE DEF Bad
    <3> QED
      BY <3>1, Smallest
  <2>2. n # 0
    BY <1>1, <1>5 DEF IsTotal
  <2>3. n - 1 \in 0..Len(s) /\ n - 1 \notin Bad
    BY <2>1, <2>2
  <2>4. f[n] = t[n]
    BY <1>1, <1>5, <2>2, <2>3 DEF IsTotal
  <2> QED
    BY <2>4
<1>7. f = t
  <2>1. \A n \in 0..Len(s) : f[n] = t[n]
    BY <1>6
  <2>2. f = [n \in 0..Len(s) |-> f[n]]
    BY <1>5
  <2>3. t = [n \in 0..Len(s) |-> t[n]]
    BY <1>1 DEF IsTotal
  <2> HIDE DEF Bad
  <2> QED
    BY <2>1, <2>2, <2>3
<1> QED
  BY <1>1, <1>7 DEF f

LEMMA Weights ==
  ASSUME NEW s \in Seq(Nat), NEW i \in 1..Len(s)
  PROVE  /\ Weight(s, i, i - 1) = 0 /\ Weight(s, i, i) = s[i]
         /\ \A j \in (i - 1)..(Len(s) - 1) :
              Weight(s, i, j) \in Int /\ Weight(s, i, j + 1) = Weight(s, i, j) + s[j + 1]
<1> DEFINE t == Total(s)
<1>1. /\ t \in [0..Len(s) -> Nat] /\ Len(s) \in Nat
      /\ \A j \in 1..Len(s) : t[j] = t[j - 1] + s[j]
  BY TotalIs DEF IsTotal
<1>2. \A a, b : Weight(s, a, b) = t[b] - t[a - 1]
  BY DEF Weight
<1>3. s \in [1..Len(s) -> Nat]
  OBVIOUS
<1> HIDE DEF t
<1>4. Weight(s, i, i - 1) = 0 /\ Weight(s, i, i) = s[i]
  <2>1. i - 1 \in 0..Len(s) /\ s[i] \in Nat /\ t[i] = t[i - 1] + s[i]
    BY <1>1, <1>3
  <2>2. t[i - 1] \in Nat
    BY <1>1, <2>1
  <2> QED
    BY <1>2, <2>1, <2>2
<1>5. ASSUME NEW j \in (i - 1)..(Len(s) - 1)
      PROVE  Weight(s, i, j) \in Int /\ Weight(s, i, j + 1) = Weight(s, i, j) + s[j + 1]
  <2>1. j + 1 \in 1..Len(s) /\ j \in 0..Len(s) /\ i - 1 \in 0..Len(s) /\ (j + 1) - 1 = j
    BY <1>1
  <2>2. t[j + 1] = t[j] + s[j + 1] /\ t[j] \in Nat /\ t[i - 1] \in Nat /\ s[j + 1] \in Nat
    BY <1>1, <1>3, <2>1
  <2> QED
    BY <1>2, <2>2, SMTT(20)
<1> QED
  BY <1>4, <1>5

-----------------------------------------------------------------------------
(* Lists, batches and blocks *)

LEMMA ListType ==
  ASSUME NEW s \in Lists
  PROVE  /\ s \in Seq(Nat) /\ Len(s) \in 0..MaxLength /\ DOMAIN s = 1..Len(s)
         /\ \A i \in DOMAIN s : s[i] \in 1..Limit + 1
<1>1. PICK n \in 0..MaxLength : s \in [1..n -> 1..Limit + 1]
  BY DEF Lists
<1>2. s \in Seq(1..Limit + 1) /\ Len(s) = n
  BY <1>1, BoundAssumption
<1> QED
  BY <1>1, <1>2, BoundAssumption

LEMMA BatchFields ==
  ASSUME NEW b \in Batches
  PROVE  b.from \in 1..MaxLength /\ b.to \in 1..MaxLength /\ b.from \in Nat /\ b.to \in Nat
BY BoundAssumption DEF Batches

LEMMA ChainGrows ==
  ASSUME NEW bs \in Seq(Batches), NEW b \in Batches, NEW first \in Nat,
         Chained(bs, first, b.from - 1), b.from <= b.to
  PROVE  /\ Append(bs, b) \in Seq(Batches) /\ Append(bs, b) # <<>>
         /\ Chained(Append(bs, b), first, b.to)
<1> DEFINE a == Append(bs, b)
<1>1. /\ a \in Seq(Batches) /\ a # <<>> /\ Len(a) = Len(bs) + 1 /\ a[Len(bs) + 1] = b
      /\ \A i \in 1..Len(bs) : a[i] = bs[i]
      /\ Len(bs) \in Nat /\ DOMAIN bs = 1..Len(bs)
      /\ \A i \in 1..Len(bs) : bs[i] \in Batches
  BY AppendProperties
<1>2. DOMAIN a = 1..Len(bs) + 1
  BY <1>1
<1> HIDE DEF a
<1>3. b.from \in Nat /\ b.to \in Nat /\ \A i \in 1..Len(bs) : bs[i].from \in Nat /\ bs[i].to \in Nat
  BY <1>1, BatchFields
<1>4. \A k \in DOMAIN a : a[k].from <= a[k].to /\ a[k].to <= b.to
  BY <1>1, <1>2, <1>3 DEF Chained
<1>5. \A k \in DOMAIN a : k + 1 \in DOMAIN a => a[k + 1].from = a[k].to + 1
  <2> SUFFICES ASSUME NEW k \in 1..Len(bs) PROVE a[k + 1].from = a[k].to + 1
    BY <1>1, <1>2
  <2>1. CASE k = Len(bs)
    <3>1. bs # <<>> /\ bs[Len(bs)].to = b.from - 1
      BY <1>1, <2>1 DEF Chained
    <3> QED
      BY <1>1, <1>3, <2>1, <3>1
  <2>2. CASE k # Len(bs)
    <3>1. k \in DOMAIN bs /\ k + 1 \in DOMAIN bs /\ a[k] = bs[k] /\ a[k + 1] = bs[k + 1]
      <4>1. k + 1 \in 1..Len(bs)
        <5>1. Len(bs) \in Nat
          BY <1>1
        <5> QED
          BY <2>2, <5>1
      <4> QED
        BY <1>1, <4>1
    <3> QED
      BY <3>1 DEF Chained
  <2> QED
    BY <2>1, <2>2
<1>6. a[1].from = first /\ a[Len(a)].to = b.to
  <2>1. CASE bs = <<>>
    <3>1. Len(bs) = 0 /\ b.from - 1 = first - 1
      BY <2>1 DEF Chained
    <3> QED
      BY <1>1, <1>3, <3>1
  <2>2. CASE bs # <<>>
    <3>1. Len(bs) # 0 /\ bs[1].from = first
      BY <2>2, EmptySeq DEF Chained
    <3> QED
      BY <1>1, <3>1
  <2> QED
    BY <2>1, <2>2
<1> QED
  BY <1>1, <1>4, <1>5, <1>6 DEF Chained, a

LEMMA ChainShrinks ==
  ASSUME NEW bs \in Seq(Batches), bs # <<>>, NEW first \in Nat, NEW last \in Nat,
         Chained(bs, first, last)
  PROVE  /\ Head(bs) \in Batches /\ Tail(bs) \in Seq(Batches)
         /\ Head(bs).from = first /\ Head(bs).to \in first..last
         /\ Tail(bs) = <<>> => Head(bs).to = last
         /\ Chained(Tail(bs), Head(bs).to + 1, last)
         /\ \A k \in DOMAIN Tail(bs) : k + 1 \in DOMAIN bs /\ Tail(bs)[k] = bs[k + 1]
<1>1. /\ Head(bs) = bs[1] /\ Tail(bs) \in Seq(Batches) /\ Len(Tail(bs)) = Len(bs) - 1
      /\ \A k \in 1..Len(Tail(bs)) : Tail(bs)[k] = bs[k + 1]
      /\ Len(bs) \in Nat \ {0} /\ DOMAIN bs = 1..Len(bs) /\ DOMAIN Tail(bs) = 1..Len(Tail(bs))
  BY HeadTailProperties, LenProperties, EmptySeq
<1>2. Head(bs) \in Batches
  BY <1>1
<1>3. Head(bs).from = first /\ Head(bs).to \in first..last
  BY <1>1, <1>2, SMTT(20) DEF Chained, Batches
<1>4. Tail(bs) = <<>> => Head(bs).to = last
  BY <1>1 DEF Chained
<1>5. Chained(Tail(bs), Head(bs).to + 1, last)
  <2> DEFINE T == Tail(bs)
  <2>1. \A k \in DOMAIN T : T[k].from <= T[k].to /\ T[k].to <= last
    BY <1>1 DEF Chained
  <2>2. \A k \in DOMAIN T : k + 1 \in DOMAIN T => T[k + 1].from = T[k].to + 1
    BY <1>1 DEF Chained
  <2>3. T = <<>> => last = Head(bs).to + 1 - 1
    BY <1>2, <1>4 DEF Batches
  <2>4. T # <<>> => T[1].from = Head(bs).to + 1 /\ T[Len(T)].to = last
    BY <1>1, EmptySeq DEF Chained
  <2> QED
    BY <2>1, <2>2, <2>3, <2>4 DEF Chained
<1> QED
  BY <1>1, <1>2, <1>3, <1>4, <1>5

Entities == Seq(Calls \X (1..MaxLength))

\* What the service accepts continues the block of the call that sends it.
LEMMA BlockGrows ==
  ASSUME NEW e \in Entities, NEW c \in Calls, NEW b \in Batches, b.from <= b.to,
         NEW lo \in Nat, lo + b.from - 1 = Len(e), Block(e, c, lo, b.from - 1)
  PROVE  LET f == e \o Content(c, b) IN
         /\ f \in Entities /\ Len(f) = lo + b.to /\ Block(f, c, lo, b.to)
         /\ \A d \in Calls \ {c}, l, n \in Nat :
              l + n <= Len(e) /\ Block(e, d, l, n) => Block(f, d, l, n)
<1> DEFINE g == Content(c, b)
           f == e \o g
<1>1. /\ g \in Entities /\ Len(g) = b.to + 1 - b.from
      /\ \A k \in 1..Len(g) : g[k] = <<c, b.from + k - 1>>
  <2>1. b.to + 1 - b.from \in Nat
        /\ \A k \in 1..(b.to + 1 - b.from) : b.from + k - 1 \in 1..MaxLength
    BY BoundAssumption, SMTT(20) DEF Batches
  <2>2. g \in [1..(b.to + 1 - b.from) -> Calls \X (1..MaxLength)]
    BY <2>1 DEF Content
  <2> QED
    BY <2>1, <2>2 DEF Content, Entities
<1> HIDE DEF g
<1>2. /\ f \in Entities /\ Len(f) = lo + b.to /\ DOMAIN f = 1..(lo + b.to)
      /\ \A i \in DOMAIN f : f[i] = IF i <= Len(e) THEN e[i] ELSE <<c, i - lo>>
  <2>1. /\ f \in Entities /\ Len(f) = Len(e) + Len(g)
        /\ \A i \in 1..Len(f) : f[i] = IF i <= Len(e) THEN e[i] ELSE g[i - Len(e)]
    <3>1. e \in Seq(Calls \X (1..MaxLength)) /\ g \in Seq(Calls \X (1..MaxLength))
      BY <1>1 DEF Entities
    <3> QED
      BY <3>1, ConcatProperties DEF Entities
  <2>2. Len(e) \in Nat /\ DOMAIN f = 1..Len(f) /\ DOMAIN e = 1..Len(e)
    BY <2>1 DEF Entities
  <2>3. Len(f) = lo + b.to
    BY <1>1, <2>1, <2>2 DEF Batches
  <2>4. ASSUME NEW i \in DOMAIN f, ~(i <= Len(e)) PROVE f[i] = <<c, i - lo>>
    <3>1. i - Len(e) \in 1..Len(g) /\ b.from + (i - Len(e)) - 1 = i - lo
      <4>1. b.from \in Nat /\ b.to \in Nat /\ Len(e) \in Nat /\ i \in Nat
        BY <2>2, <2>3 DEF Batches
      <4>2. i <= lo + b.to /\ i > Len(e)
        BY <2>2, <2>3, <2>4, <4>1
      <4>3. /\ Len(e) = lo + b.from - 1 /\ lo \in Nat
            /\ Len(g) = b.to + 1 - b.from
        BY <1>1
      <4>4. i - Len(e) <= b.to + 1 - b.from /\ i - Len(e) >= 1
        BY <4>1, <4>2, <4>3
      <4>5. b.from + (i - Len(e)) - 1 = i - lo
        BY <4>1, <4>3, SMTT(20)
      <4> QED
        BY <4>1, <4>3, <4>4, <4>5
    <3> QED
      BY <1>1, <2>1, <2>2, <2>4, <3>1
  <2> QED
    BY <2>1, <2>2, <2>3, <2>4
<1> HIDE DEF f
<1>3. Len(e) \in Nat /\ DOMAIN e = 1..Len(e)
  BY DEF Entities
<1>4. Block(f, c, lo, b.to)
  BY <1>2, <1>3 DEF Block, Batches
<1>5. ASSUME NEW d \in Calls \ {c}, NEW l \in Nat, NEW n \in Nat,
             l + n <= Len(e), Block(e, d, l, n)
      PROVE  Block(f, d, l, n)
  <2> SUFFICES ASSUME NEW i \in DOMAIN f
               PROVE  /\ f[i][1] = d <=> i \in (l + 1)..(l + n)
                      /\ f[i][1] = d => f[i] = <<d, i - l>>
    BY DEF Block
  <2>1. CASE i <= Len(e)
    <3>1. i \in DOMAIN e /\ f[i] = e[i]
      BY <1>2, <1>3, <2>1 DEF Batches
    <3> QED
      BY <1>5, <3>1 DEF Block
  <2>2. CASE ~(i <= Len(e))
    <3>1. f[i] = <<c, i - lo>>
      BY <1>2, <2>2
    <3>2. f[i][1] = c
      BY <3>1
    <3> QED
      BY <1>2, <1>3, <1>5, <2>2, <3>2, BoundAssumption DEF Batches
  <2> QED
    BY <2>1, <2>2
<1> QED
  BY <1>2, <1>4, <1>5 DEF f, g

LEMMA CutsCounted ==
  ASSUME NEW s \in Seq(Nat), NEW C \in Cuts(s)
  PROVE  /\ IsFiniteSet(C) /\ Cardinality(C) \in Nat
         /\ \A i \in Nat : /\ Cardinality(C \cap 1..i) \in Nat
                           /\ Cardinality(C \cap 1..i) <= Cardinality(C)
<1>1. IsFiniteSet(C)
  <2>1. C \subseteq 1..(Len(s) - 1) /\ Len(s) - 1 \in Int
    BY DEF Cuts
  <2>2. IsFiniteSet(1..(Len(s) - 1))
    BY <2>1, FS_Interval
  <2> QED
    BY <2>1, <2>2, FS_Subset
<1>2. ASSUME NEW i \in Nat
      PROVE  IsFiniteSet(C \cap 1..i) /\ Cardinality(C \cap 1..i) <= Cardinality(C)
  BY <1>1, FS_Subset
<1> QED
  BY <1>1, <1>2, FS_CardinalityType

\* Where a message did not fit, every way to cut the list has a cut in the batch.
LEMMA CutInBatch ==
  ASSUME NEW s \in Seq(Nat), NEW C \in Cuts(s), NEW from \in 1..Len(s), NEW to \in from..Len(s),
         to + 1 \in 1..Len(s), Weight(s, from, to + 1) > Limit
  PROVE  Cardinality(C \cap 1..(from - 1)) + 1 <= Cardinality(C \cap 1..to)
<1>1. PICK x \in C : x \in from..to
  <2>1. from \in DOMAIN s /\ to + 1 \in from..Len(s) /\ (to + 1) - 1 = to
    OBVIOUS
  <2>2. C \cap from..to # {}
    BY <2>1 DEF Cuts
  <2> QED
    BY <2>2
<1> DEFINE A == C \cap 1..(from - 1)
           B == C \cap 1..to
<1>2. A \cup {x} \subseteq B /\ x \notin A
  BY <1>1
<1>3. IsFiniteSet(B) /\ IsFiniteSet(A)
  BY CutsCounted, FS_Subset
<1> HIDE DEF A, B
<1>4. Cardinality(A \cup {x}) = Cardinality(A) + 1
  BY <1>2, <1>3, FS_AddElement
<1>5. Cardinality(A \cup {x}) <= Cardinality(B)
  BY <1>2, <1>3, FS_Subset
<1> QED
  BY <1>4, <1>5 DEF A, B

-----------------------------------------------------------------------------
(* The invariant *)

Kept(d, l, n) ==
  l + n <= Len(entity) /\ Block(entity, d, l, n) =>
    l + n <= Len(entity') /\ Block(entity', d, l, n)

\* A step of one call leaves the others what they have.
LEMMA Frame ==
  ASSUME IInv, NEW c \in Calls, UNCHANGED sizes, entity' \in Entities,
         \A d \in Calls \ {c} :
           pc'[d] = pc[d] /\ batch'[d] = batch[d] /\ batches'[d] = batches[d],
         \/ UNCHANGED entity
         \/ lock = c /\ \A d \in Calls \ {c}, l, n \in Nat : Kept(d, l, n)
  PROVE  \A d \in Calls \ {c} : PackOf(d)' /\ BlockOf(d)' /\ GreedyOf(d)'
<1> SUFFICES ASSUME NEW d \in Calls \ {c} PROVE PackOf(d)' /\ BlockOf(d)' /\ GreedyOf(d)'
  OBVIOUS
<1>1. PackOf(d) /\ BlockOf(d) /\ GreedyOf(d)
  BY DEF IInv
<1>2. PackOf(d)'
  BY <1>1 DEF PackOf
<1>3. CASE UNCHANGED entity
  BY <1>1, <1>2, <1>3 DEF BlockOf, GreedyOf, Of
<1>4. CASE lock = c /\ \A l, n \in Nat : Kept(d, l, n)
  <2>1. pc[d] # "sending"
    BY <1>4 DEF IInv, LockInv
  <2>2. GreedyOf(d)'
    BY <1>1, <2>1 DEF GreedyOf
  <2>3. PICK lo \in 0..Len(entity), n \in 0..Len(sizes[d]) :
          /\ lo + n <= Len(entity) /\ Block(entity, d, lo, n)
          /\ pc[d] \in {"idle", "waiting", "packing"} => n = 0
          /\ pc[d] = "done" => n = Len(sizes[d])
          /\ n > 0 \/ pc[d] = "sending" => \A i \in DOMAIN sizes[d] : sizes[d][i] <= Limit
    BY <1>1 DEF BlockOf
  <2>4. lo \in Nat /\ n \in Nat
    OBVIOUS
  <2>5. lo + n <= Len(entity') /\ Block(entity', d, lo, n)
    BY <1>4, <2>3, <2>4 DEF Kept
  <2>6. lo \in 0..Len(entity')
    BY <2>4, <2>5, LenProperties DEF Entities
  <2>7. BlockOf(d)'
    BY <2>1, <2>3, <2>5, <2>6 DEF BlockOf
  <2> QED
    BY <1>2, <2>2, <2>7
<1> QED
  BY <1>3, <1>4

\* The service has accepted the next batch of a call.
LEMMA Accepted ==
  ASSUME IInv, NEW c \in Calls, pc[c] = "sending", Accept(c)
  PROVE  /\ entity' \in Entities
         /\ lock = c /\ \A d \in Calls \ {c}, l, n \in Nat : Kept(d, l, n)
         /\ Tail(batches[c]) \in Seq(Batches)
         /\ \A k \in DOMAIN Tail(batches[c]) :
              k + 1 \in DOMAIN batches[c] /\ Tail(batches[c])[k] = batches[c][k + 1]
         /\ \E lo \in 0..Len(entity'), n \in 1..Len(sizes[c]) :
              /\ lo + n = Len(entity') /\ Block(entity', c, lo, n)
              /\ Chained(Tail(batches[c]), n + 1, Len(sizes[c]))
              /\ Tail(batches[c]) = <<>> => n = Len(sizes[c])
         /\ \A i \in DOMAIN sizes[c] : sizes[c][i] <= Limit
<1> DEFINE bs == batches[c]
           b == Head(bs)
           s == sizes[c]
<1>1. /\ bs \in Seq(Batches) /\ s \in Lists /\ entity \in Entities /\ BlockOf(c)
      /\ lock = c
  BY DEF IInv, TypeOK, LockInv, Batches, Entities
<1>2. PICK lo \in 0..Len(entity), n \in 0..Len(s) :
        /\ lo + n = Len(entity) /\ Block(entity, c, lo, n)
        /\ bs # <<>> /\ Chained(bs, n + 1, Len(s))
        /\ \A i \in DOMAIN s : s[i] <= Limit
  BY <1>1 DEF BlockOf
<1>3. Len(s) \in Nat /\ Len(entity) \in Nat /\ lo \in Nat /\ n \in Nat /\ n + 1 \in Nat
  BY <1>1, ListType, LenProperties, BoundAssumption DEF Entities
<1> HIDE DEF s, bs
<1>4. /\ b \in Batches /\ Tail(bs) \in Seq(Batches)
      /\ b.from = n + 1 /\ b.to \in (n + 1)..Len(s)
      /\ Tail(bs) = <<>> => b.to = Len(s)
      /\ Chained(Tail(bs), b.to + 1, Len(s))
      /\ \A k \in DOMAIN Tail(bs) : k + 1 \in DOMAIN bs /\ Tail(bs)[k] = bs[k + 1]
  BY <1>1, <1>2, <1>3, ChainShrinks
<1> HIDE DEF b
<1>5. b.from <= b.to /\ lo + b.from - 1 = Len(entity) /\ Block(entity, c, lo, b.from - 1)
  <2>1. b.from - 1 = n
    BY <1>3, <1>4
  <2> QED
    BY <1>2, <1>3, <1>4, <2>1
<1>6. entity' = entity \o Content(c, b)
  BY DEF Accept, b, bs
<1>7. /\ entity' \in Entities /\ Len(entity') = lo + b.to /\ Block(entity', c, lo, b.to)
      /\ \A d \in Calls \ {c}, l, m \in Nat :
           l + m <= Len(entity) /\ Block(entity, d, l, m) => Block(entity', d, l, m)
  <2> DEFINE f == entity \o Content(c, b)
  <2>1. /\ f \in Entities /\ Len(f) = lo + b.to /\ Block(f, c, lo, b.to)
        /\ \A d \in Calls \ {c}, l, m \in Nat :
             l + m <= Len(entity) /\ Block(entity, d, l, m) => Block(f, d, l, m)
    BY <1>1, <1>3, <1>4, <1>5, BlockGrows
  <2>2. entity' = f
    BY <1>6
  <2> HIDE DEF f
  <2> QED
    BY <2>1, <2>2
<1>8. \A d \in Calls \ {c}, l, m \in Nat : Kept(d, l, m)
  <2>1. Len(entity) <= Len(entity') /\ Len(entity') \in Nat
    BY <1>2, <1>3, <1>4, <1>7
  <2> QED
    BY <1>3, <1>7, <2>1 DEF Kept
<1>9. lo \in 0..Len(entity') /\ b.to \in 1..Len(s) /\ lo + b.to = Len(entity')
  BY <1>3, <1>4, <1>7
<1> QED
  BY <1>1, <1>2, <1>4, <1>7, <1>8, <1>9 DEF s, bs

OwnInv(c) == PackOf(c) /\ BlockOf(c) /\ GreedyOf(c)

\* The steps before _pack: nothing is packed or sent.
LEMMA FirstSteps ==
  ASSUME IInv, NEW c \in Calls, Empty(c) \/ Encoded(c) \/ GetsSender(c)
  PROVE  IInv'
<1> USE DEF Empty, Encoded, GetsSender
<1> DEFINE s == sizes[c]
<1>1. OwnInv(c) /\ TypeOK /\ LockInv /\ s \in Lists
  BY DEF IInv, OwnInv, TypeOK
<1>2. s \in Seq(Nat) /\ Len(s) \in Nat /\ DOMAIN s = 1..Len(s) /\ (s # <<>> => 1 \in 1..Len(s))
  BY <1>1, ListType, EmptySeq, LenProperties
<1>3. TypeOK'
  BY <1>1 DEF TypeOK
<1>4. LockInv'
  BY <1>1, NullAssumption DEF TypeOK, LockInv
<1>5. batches[c] = <<>> /\ batch[c] = EmptyBatch(1)
  BY <1>1 DEF OwnInv, PackOf
<1>6. PackOf(c)'
  <2>1. CASE pc'[c] # "packing"
    BY <1>1, <1>5, <2>1 DEF OwnInv, PackOf, TypeOK
  <2>2. CASE pc'[c] = "packing"
    <3>1. s # <<>> /\ pc[c] = "waiting"
      BY <1>1, <2>2 DEF OwnInv, PackOf, TypeOK
    <3>2. Weight(s, 1, 0) = 0
      BY <1>2, <3>1, Weights
    <3>3. Chained(<<>>, 1, 0)
      BY DEF Chained
    <3> QED
      BY <1>2, <1>5, <2>2, <3>1, <3>2, <3>3 DEF PackOf, EmptyBatch
  <2> QED
    BY <2>1, <2>2
<1>7. BlockOf(c)'
  <2>1. PICK lo \in 0..Len(entity) : lo + 0 <= Len(entity) /\ Block(entity, c, lo, 0)
    BY <1>1 DEF OwnInv, BlockOf, TypeOK
  <2>2. /\ UNCHANGED <<entity, sizes>> /\ pc'[c] # "sending" /\ 0 \in 0..Len(s)
        /\ pc'[c] = "done" => Len(s) = 0
    BY <1>1, <1>2 DEF TypeOK
  <2> QED
    BY <2>1, <2>2 DEF BlockOf
<1>8. GreedyOf(c)'
  <2>1. \A C \in Cuts(s) : Len(<<>>) <= Cardinality(C \cap 1..0)
    BY <1>2, CutsCounted, EmptySeq
  <2> QED
    <3>1. pc'[c] # "sending" /\ batches'[c] = <<>> /\ batch'[c].from - 1 = 0 /\ sizes' = sizes
      BY <1>1, <1>5 DEF EmptyBatch, TypeOK
    <3> QED
      BY <2>1, <3>1 DEF GreedyOf
<1>9. \A d \in Calls \ {c} : PackOf(d)' /\ BlockOf(d)' /\ GreedyOf(d)'
  BY <1>1, Frame DEF TypeOK, Entities
<1> QED
  BY <1>3, <1>4, <1>6, <1>7, <1>8, <1>9 DEF IInv

\* The rounds of _pack.
LEMMA PackSteps == ASSUME IInv, NEW c \in Calls, Pack(c) PROVE IInv'
<1> DEFINE s == sizes[c]
           b == batch[c]
           bs == batches[c]
           i == b.to + 1
<1>1. OwnInv(c) /\ TypeOK /\ LockInv /\ s \in Lists /\ pc[c] = "packing"
  BY DEF IInv, OwnInv, TypeOK, Pack, Add, Overflow, Packed
<1>2. /\ s \in Seq(Nat) /\ Len(s) \in 0..MaxLength /\ DOMAIN s = 1..Len(s)
      /\ \A j \in 1..Len(s) : s[j] \in 1..Limit + 1
  BY <1>1, ListType
<1>3. /\ b.from \in 1..MaxLength + 1 /\ b.to \in 0..MaxLength /\ b.size \in 0..Limit
      /\ b = [from |-> b.from, to |-> b.to, size |-> b.size]
      /\ bs \in Seq(Batches)
  BY <1>1 DEF TypeOK, Batches
<1>4. /\ s # <<>> /\ Chained(bs, 1, b.from - 1) /\ b.to <= Len(s)
      /\ b.from <= b.to \/ b = EmptyBatch(1)
      /\ \A j \in 1..b.to : s[j] <= Limit
      /\ b.size = Weight(s, b.from, b.to)
      /\ \A k \in DOMAIN bs : bs[k].size = Weight(s, bs[k].from, bs[k].to)
      /\ \A C \in Cuts(s) : Len(bs) <= Cardinality(C \cap 1..(b.from - 1))
  BY <1>1 DEF OwnInv, PackOf, GreedyOf
<1>5. /\ UNCHANGED <<sizes, lock, entity>>
      /\ \A d \in Calls \ {c} : pc'[d] = pc[d] /\ batch'[d] = batch[d] /\ batches'[d] = batches[d]
  BY <1>1 DEF Pack, Add, Overflow, Packed, TypeOK
<1>6. PICK lo \in 0..Len(entity) : Block(entity, c, lo, 0)
  BY <1>1 DEF OwnInv, BlockOf
<1>7. \A d \in Calls \ {c} : PackOf(d)' /\ BlockOf(d)' /\ GreedyOf(d)'
  BY <1>1, <1>5, Frame DEF TypeOK, Entities
<1>8. Len(entity) \in Nat /\ Len(s) \in Nat /\ MaxLength \in Nat /\ Limit \in Nat
  BY <1>1, <1>2, BoundAssumption DEF TypeOK
<1>9. /\ b.from \in Nat /\ b.to \in Nat /\ b.size \in Nat /\ i \in Nat
       /\ b.to <= Len(s) /\ Len(s) <= MaxLength /\ i = b.to + 1
  <2>1. b.from \in Nat /\ b.to \in Nat /\ b.size \in Nat
    BY <1>3, <1>8
  <2>2. Len(s) <= MaxLength
    BY <1>2, <1>8
  <2>3. b.to <= Len(s)
    BY <1>4
  <2> QED
    BY <2>1, <2>2, <2>3
<1>10. SUFFICES TypeOK' /\ LockInv' /\ PackOf(c)' /\ BlockOf(c)' /\ GreedyOf(c)'
  BY <1>7 DEF IInv
\* A round that goes on: what it does to the batches decides.
<1>11. ASSUME pc' = pc, i \in 1..Len(s), s[i] <= Limit
       PROVE  LockInv' /\ BlockOf(c)'
  <2>1. LockInv'
    BY <1>1, <1>5, <1>11 DEF LockInv
  <2>2. BlockOf(c)'
    <3>1. /\ lo \in 0..Len(entity) /\ 0 \in 0..Len(s) /\ lo + 0 <= Len(entity)
          /\ pc'[c] = "packing" /\ ~(0 > 0)
      BY <1>1, <1>8, <1>11
    <3> QED
      BY <1>5, <1>6, <3>1 DEF BlockOf
  <2> QED
    BY <2>1, <2>2
<1>12. CASE Add(c)
  <2> DEFINE g == Grown(b, s[i])
  <2>1. /\ pc' = pc /\ batches' = batches /\ batch' = [batch EXCEPT ![c] = g]
        /\ i \in 1..Len(s) /\ b.size + s[i] <= Limit
    BY <1>2, <1>12 DEF Add, Turn, Fits
  <2>2. s[i] \in Nat /\ s[i] <= Limit
    <3>1. s[i] \in 1..Limit + 1
      BY <1>2, <2>1
    <3>2. s[i] \in Nat
      BY <1>8, <3>1
    <3> QED
      BY <1>8, <1>9, <2>1, <3>2, SMTT(20)
  <2>3. /\ g = [from |-> b.from, to |-> i, size |-> b.size + s[i]]
        /\ g.from = b.from /\ g.to = i /\ g.size = b.size + s[i] /\ g.from <= g.to
    BY <1>3, <1>4, <1>8 DEF Grown, EmptyBatch
  <2>4. g \in [from : 1..MaxLength + 1, to : 0..MaxLength, size : 0..Limit]
    <3>1. /\ g.from \in 1..MaxLength + 1 /\ g.to \in 0..MaxLength /\ g.size \in 0..Limit
      <4>1. b.from \in 1..MaxLength + 1
        BY <1>3
      <4>2. i <= Len(s)
        BY <1>8, <2>1
      <4> QED
        <5>1. g.from \in 1..MaxLength + 1
          BY <2>3, <4>1
        <5>2. g.to \in 0..MaxLength
          BY <1>8, <1>9, <2>3, <4>2
        <5>3. g.size \in 0..Limit
          BY <1>8, <1>9, <2>1, <2>2, <2>3, SMTT(20)
        <5> QED
          BY <5>1, <5>2, <5>3
    <3> HIDE DEF g
    <3> QED
      BY <2>3, <3>1
  <2>5. g.size = Weight(s, g.from, g.to)
    <3>1. b.from \in 1..Len(s) /\ b.to \in (b.from - 1)..(Len(s) - 1)
      <4>1. b.from >= 1
        BY <1>3
      <4>2. i <= Len(s) /\ b.from <= i
        BY <1>8, <2>1, <2>3
      <4> QED
        BY <1>8, <1>9, <4>1, <4>2, SMTT(20)
    <3>2. Weight(s, b.from, b.to + 1) = Weight(s, b.from, b.to) + s[b.to + 1]
      BY <1>2, <3>1, Weights
    <3> QED
      BY <1>4, <2>3, <3>2
  <2>6. \A j \in 1..g.to : s[j] <= Limit
    BY <1>3, <1>4, <1>8, <2>2, <2>3
  <2> HIDE DEF g
  <2>7. batch'[c] = g
    BY <1>1, <2>1 DEF TypeOK
  <2>8. TypeOK'
    BY <1>1, <1>5, <2>1, <2>4 DEF TypeOK
  <2>9. PackOf(c)'
    BY <1>1, <1>4, <1>5, <2>1, <2>3, <2>5, <2>6, <2>7 DEF PackOf
  <2>10. GreedyOf(c)'
    BY <1>1, <1>4, <1>5, <2>1, <2>3, <2>7 DEF GreedyOf
  <2> QED
    BY <1>11, <2>1, <2>2, <2>8, <2>9, <2>10
<1>13. CASE Overflow(c)
  <2> DEFINE g == Grown(EmptyBatch(i), s[i])
             as == Append(bs, b)
  <2>1. /\ pc' = pc /\ batches' = [batches EXCEPT ![c] = as]
        /\ batch' = [batch EXCEPT ![c] = g]
        /\ i \in 1..Len(s) /\ ~(b.size + s[i] <= Limit) /\ s[i] <= Limit
    BY <1>2, <1>13 DEF Overflow, Turn, Fits
  <2>2. s[i] \in Nat /\ b.from <= b.to
    <3>1. b # EmptyBatch(1)
      BY <1>2, <1>8, <2>1 DEF EmptyBatch
    <3> QED
      BY <1>2, <1>4, <1>8, <2>1, <3>1, SMTT(20)
  <2>3. b \in Batches
    BY <1>2, <1>3, <1>4, <1>8, <2>2, SMTT(20) DEF Batches
  <2>4. as \in Seq(Batches) /\ Chained(as, 1, b.to)
    BY <1>3, <1>4, <2>2, <2>3, ChainGrows
  <2>5. /\ g = [from |-> i, to |-> i, size |-> s[i]]
        /\ g.from = i /\ g.to = i /\ g.size = s[i]
    BY <1>3, <1>8, <2>2, SMTT(20) DEF Grown, EmptyBatch
  <2>6. g \in [from : 1..MaxLength + 1, to : 0..MaxLength, size : 0..Limit]
    BY <1>2, <1>8, <2>1, <2>2, <2>5, SMTT(20)
  <2>7. g.size = Weight(s, g.from, g.to)
    BY <1>2, <2>1, <2>5, Weights
  <2>8. \A j \in 1..g.to : s[j] <= Limit
    <3> SUFFICES ASSUME NEW j \in 1..i, j # i PROVE j \in 1..b.to
      BY <1>4, <2>1, <2>5
    <3> QED
      BY <1>9
  <2>9. Len(as) = Len(bs) + 1 /\ \A k \in DOMAIN as : as[k].size = Weight(s, as[k].from, as[k].to)
    <3>1. /\ Len(as) = Len(bs) + 1 /\ Len(bs) \in Nat /\ as[Len(bs) + 1] = b
          /\ \A k \in 1..Len(bs) : as[k] = bs[k]
          /\ DOMAIN bs = 1..Len(bs) /\ DOMAIN as = 1..Len(as)
      BY <1>3, <2>3, <2>4, AppendProperties, LenProperties
    <3> HIDE DEF as
    <3>2. \A k \in DOMAIN as : k = Len(bs) + 1 \/ k \in DOMAIN bs
      BY <3>1
    <3> QED
      BY <1>4, <3>1, <3>2
  <2>10. \A C \in Cuts(s) : Len(as) <= Cardinality(C \cap 1..(g.from - 1))
    <3>0. g.from - 1 = b.to /\ Len(as) = Len(bs) + 1
      <4>1. g.from - 1 = b.to
        BY <1>3, <1>8, <2>5
      <4> QED
        BY <2>9, <4>1
    <3> HIDE DEF g, as
    <3> SUFFICES ASSUME NEW C \in Cuts(s) PROVE Len(bs) + 1 <= Cardinality(C \cap 1..b.to)
      BY <3>0
    <3>1. b.from \in 1..Len(s) /\ b.to \in b.from..Len(s) /\ b.to + 1 \in 1..Len(s)
      <4>1. b.from >= 1
        BY <1>3
      <4> QED
        BY <1>8, <1>9, <2>1, <2>2, <4>1, SMTT(20)
    <3>2. Weight(s, b.from, b.to + 1) > Limit
      <4>1. Weight(s, b.from, b.to + 1) = Weight(s, b.from, b.to) + s[b.to + 1]
        <5>1. b.to \in (b.from - 1)..(Len(s) - 1)
          BY <1>8, <3>1
        <5> QED
          BY <1>2, <3>1, <5>1, Weights
      <4> QED
        BY <1>3, <1>4, <1>8, <2>1, <2>2, <4>1, SMTT(20)
    <3>3. Cardinality(C \cap 1..(b.from - 1)) + 1 <= Cardinality(C \cap 1..b.to)
      BY <1>2, <3>1, <3>2, CutInBatch
    <3>4. /\ Len(bs) \in Nat
          /\ Cardinality(C \cap 1..(b.from - 1)) \in Nat /\ Cardinality(C \cap 1..b.to) \in Nat
      <4>1. b.from - 1 \in Nat /\ b.to \in Nat
        BY <1>8, <3>1
      <4> QED
        BY <1>2, <1>3, <4>1, CutsCounted, LenProperties
    <3> QED
      BY <1>4, <3>3, <3>4
  <2> HIDE DEF g, as
  <2>11. batch'[c] = g /\ batches'[c] = as
    BY <1>1, <2>1 DEF TypeOK
  <2>12. TypeOK'
    BY <1>1, <1>5, <2>1, <2>4, <2>6 DEF TypeOK, Batches
  <2>13. PackOf(c)'
    <3>1. g.from - 1 = b.to /\ g.from <= g.to /\ g.to <= Len(s)
      BY <1>8, <1>9, <2>1, <2>5
    <3> QED
      BY <1>1, <1>4, <1>5, <2>1, <2>4, <2>7, <2>8, <2>9, <2>11, <3>1 DEF PackOf
  <2>14. GreedyOf(c)'
    BY <1>1, <1>5, <2>1, <2>10, <2>11 DEF GreedyOf
  <2> QED
    BY <1>11, <2>1, <2>12, <2>13, <2>14
<1>14. CASE Packed(c)
  <2> DEFINE as == Append(bs, b)
  <2>1. /\ pc' = [pc EXCEPT ![c] = "sending"] /\ UNCHANGED batch /\ b.to = Len(s)
        /\ batches' = [batches EXCEPT ![c] = IF b.from <= b.to THEN as ELSE bs]
    BY <1>14 DEF Packed
  <2>2. b.from <= b.to
    <3>1. Len(s) # 0
      BY <1>2, <1>4, EmptySeq
    <3> QED
      BY <1>4, <2>1, <3>1 DEF EmptyBatch
  <2>3. b \in Batches
    BY <1>2, <1>3, <1>4, <1>8, <2>2, SMTT(20) DEF Batches
  <2>4. as \in Seq(Batches) /\ as # <<>> /\ Chained(as, 1, Len(s))
    BY <1>3, <1>4, <2>1, <2>2, <2>3, ChainGrows
  <2>5. Len(as) = Len(bs) + 1 /\ \A k \in DOMAIN as : as[k].size = Weight(s, as[k].from, as[k].to)
    <3>1. /\ Len(as) = Len(bs) + 1 /\ Len(bs) \in Nat /\ as[Len(bs) + 1] = b
          /\ \A k \in 1..Len(bs) : as[k] = bs[k]
          /\ DOMAIN bs = 1..Len(bs) /\ DOMAIN as = 1..Len(as)
      BY <1>3, <2>3, <2>4, AppendProperties, LenProperties
    <3> HIDE DEF as
    <3>2. \A k \in DOMAIN as : k = Len(bs) + 1 \/ k \in DOMAIN bs
      BY <3>1
    <3> QED
      BY <1>4, <3>1, <3>2
  <2>6. \A C \in Cuts(s) : Len(as) <= Cardinality(C) + 1
    <3> SUFFICES ASSUME NEW C \in Cuts(s) PROVE Len(bs) <= Cardinality(C)
      BY <1>2, <1>3, <2>5, CutsCounted, LenProperties
    <3>1. b.from - 1 \in Nat
      BY <1>3, <1>8
    <3>2. /\ Cardinality(C) \in Nat /\ Cardinality(C \cap 1..(b.from - 1)) \in Nat
          /\ Cardinality(C \cap 1..(b.from - 1)) <= Cardinality(C) /\ Len(bs) \in Nat
      BY <1>2, <1>3, <3>1, CutsCounted, LenProperties
    <3> QED
      BY <1>4, <3>2
  <2> HIDE DEF as
  <2>7. batches' = [batches EXCEPT ![c] = as] /\ batches'[c] = as /\ pc'[c] = "sending"
    BY <1>1, <2>1, <2>2 DEF TypeOK
  <2>8. TypeOK'
    BY <1>1, <1>5, <2>1, <2>4, <2>7 DEF TypeOK, Batches
  <2>9. LockInv'
    BY <1>1, <1>5, <2>1 DEF LockInv, TypeOK
  <2>10. PackOf(c)'
    BY <1>4, <1>5, <2>5, <2>7 DEF PackOf
  <2>11. BlockOf(c)'
    <3>1. Block(entity, c, Len(entity), 0)
      BY <1>6, <1>8 DEF Block
    <3>2. \A j \in DOMAIN s : s[j] <= Limit
      BY <1>2, <1>4, <2>1
    <3>3. Len(entity) \in 0..Len(entity) /\ 0 \in 0..Len(s) /\ Len(entity) + 0 = Len(entity)
      BY <1>8
    <3> QED
      <4>1. Chained(as, 0 + 1, Len(s))
        <5>1. 0 + 1 = 1
          OBVIOUS
        <5> QED
          BY <2>4, <5>1
      <4>2. /\ pc'[c] = "sending" /\ batches'[c] = as /\ as # <<>>
            /\ UNCHANGED <<entity, sizes>>
        BY <1>5, <2>4, <2>7
      <4>3. PICK l \in 0..Len(entity), n \in 0..Len(s) :
              /\ l + n = Len(entity) /\ Block(entity, c, l, n)
              /\ Chained(as, n + 1, Len(s))
        BY <3>1, <3>3, <4>1
      <4>4. l + n <= Len(entity)
        BY <1>8, <4>3
      <4> HIDE DEF s
      <4>5. /\ pc'[c] \notin {"idle", "waiting", "packing", "done"} /\ s = sizes'[c]
            /\ entity' = entity
        BY <4>2 DEF s
      <4> QED
        BY <3>2, <4>2, <4>3, <4>4, <4>5 DEF BlockOf
  <2>12. GreedyOf(c)'
    BY <1>5, <2>6, <2>7 DEF GreedyOf
  <2> QED
    BY <2>8, <2>9, <2>10, <2>11, <2>12
<1> QED
  BY <1>12, <1>13, <1>14 DEF Pack

LEMMA SendSteps == ASSUME IInv, NEW c \in Calls, Sends(c) PROVE IInv'
<1> DEFINE s == sizes[c]
           bs == batches[c]
<1>1. OwnInv(c) /\ TypeOK /\ LockInv /\ pc[c] = "sending" /\ Accept(c) /\ UNCHANGED <<sizes, batch>>
  BY DEF IInv, OwnInv, Sends
<1>2. /\ entity' \in Entities
      /\ lock = c /\ \A d \in Calls \ {c}, l, n \in Nat : Kept(d, l, n)
      /\ Tail(bs) \in Seq(Batches)
      /\ \A k \in DOMAIN Tail(bs) : k + 1 \in DOMAIN bs /\ Tail(bs)[k] = bs[k + 1]
      /\ \A i \in DOMAIN s : s[i] <= Limit
  BY <1>1, Accepted
<1>3. PICK lo \in 0..Len(entity'), n \in 1..Len(s) :
        /\ lo + n = Len(entity') /\ Block(entity', c, lo, n)
        /\ Chained(Tail(bs), n + 1, Len(s))
        /\ Tail(bs) = <<>> => n = Len(s)
  BY <1>1, Accepted
<1>4. /\ batches' = [batches EXCEPT ![c] = Tail(bs)]
      /\ \/ Tail(bs) = <<>> /\ lock' = NoCall /\ pc' = [pc EXCEPT ![c] = "done"]
         \/ Tail(bs) # <<>> /\ UNCHANGED <<lock, pc>>
  BY DEF Sends
<1>5. Len(s) \in Nat /\ Len(entity') \in Nat
  BY <1>1, <1>2, ListType, LenProperties, BoundAssumption DEF TypeOK, Entities
<1> DEFINE ts == Tail(bs)
<1> HIDE DEF ts
<1>6. TypeOK'
  <2>1. ts \in Seq(Batches) /\ batches' = [batches EXCEPT ![c] = ts]
    BY <1>2, <1>4 DEF ts
  <2>2. batches' \in [Calls -> Seq(Batches)]
    BY <1>1, <2>1 DEF TypeOK, Batches
  <2> QED
    BY <1>1, <1>2, <1>4, <2>2 DEF TypeOK, Batches, Entities
<1>7. LockInv'
  BY <1>1, <1>4, NullAssumption DEF TypeOK, LockInv
<1>8. batches'[c] = ts /\ pc'[c] \in {"sending", "done"} /\ (pc'[c] = "done" <=> ts = <<>>)
  BY <1>1, <1>4 DEF TypeOK, ts
<1>9. PackOf(c)'
  <2>1. \A k \in DOMAIN ts : ts[k].size = Weight(s, ts[k].from, ts[k].to)
    BY <1>1, <1>2 DEF OwnInv, PackOf, ts
  <2> QED
    BY <1>1, <1>8, <2>1 DEF OwnInv, PackOf
<1>10. BlockOf(c)'
  <2>1. lo + n <= Len(entity') /\ n \in 0..Len(s) /\ n > 0
    BY <1>3, <1>5
  <2>2. s = sizes'[c]
    BY <1>1
  <2> HIDE DEF s
  <2> QED
    BY <1>2, <1>3, <1>8, <2>1, <2>2 DEF BlockOf, ts
<1>11. GreedyOf(c)'
  <2>1. lo + n \in DOMAIN entity' /\ lo + n \in (lo + 1)..(lo + n)
    BY <1>2, <1>3, <1>5, LenProperties DEF Entities
  <2>2. lo + n \in Of(c)'
    BY <1>3, <2>1 DEF Block, Of
  <2> QED
    BY <1>8, <2>2 DEF GreedyOf
<1>12. \A d \in Calls \ {c} : PackOf(d)' /\ BlockOf(d)' /\ GreedyOf(d)'
  <2>1. \A d \in Calls \ {c} :
          pc'[d] = pc[d] /\ batch'[d] = batch[d] /\ batches'[d] = batches[d]
    BY <1>1, <1>4 DEF TypeOK
  <2> QED
    BY <1>1, <1>2, <2>1, Frame
<1> QED
  BY <1>6, <1>7, <1>9, <1>10, <1>11, <1>12 DEF IInv

LEMMA FailSteps == ASSUME IInv, NEW c \in Calls, Fails(c) PROVE IInv'
<1>1. /\ OwnInv(c) /\ TypeOK /\ LockInv
      /\ pc' = [pc EXCEPT ![c] = "failed"] /\ lock' = (IF lock = c THEN NoCall ELSE lock)
      /\ batches' = [batches EXCEPT ![c] = <<>>] /\ UNCHANGED <<sizes, batch>>
      /\ UNCHANGED entity \/ (pc[c] = "sending" /\ Accept(c))
  BY DEF IInv, OwnInv, Fails
<1>2. /\ entity' \in Entities
      /\ \/ UNCHANGED entity
         \/ lock = c /\ \A d \in Calls \ {c}, l, n \in Nat : Kept(d, l, n)
  BY <1>1, Accepted DEF TypeOK, Entities
<1>3. \E lo \in 0..Len(entity'), n \in 0..Len(sizes[c]) :
        /\ lo + n <= Len(entity') /\ Block(entity', c, lo, n)
        /\ n > 0 => \A i \in DOMAIN sizes[c] : sizes[c][i] <= Limit
  <2>1. CASE UNCHANGED entity
    BY <1>1, <2>1 DEF OwnInv, BlockOf
  <2>2. CASE pc[c] = "sending" /\ Accept(c)
    <3>1. PICK lo \in 0..Len(entity'), n \in 1..Len(sizes[c]) :
            lo + n = Len(entity') /\ Block(entity', c, lo, n)
      BY <2>2, Accepted
    <3>2. \A i \in DOMAIN sizes[c] : sizes[c][i] <= Limit
      BY <2>2, Accepted
    <3>3. Len(entity') \in Nat /\ Len(sizes[c]) \in Nat
      BY <1>1, <1>2, ListType, LenProperties, BoundAssumption DEF TypeOK, Entities
    <3>4. lo + n <= Len(entity') /\ n \in 0..Len(sizes[c])
      BY <3>1, <3>3
    <3> QED
      BY <3>1, <3>2, <3>4
  <2> QED
    BY <1>1, <2>1, <2>2
<1>4. pc'[c] = "failed" /\ batches'[c] = <<>>
  BY <1>1 DEF TypeOK
<1>5. TypeOK'
  <2>1. batches' \in [Calls -> Seq(Batches)]
    BY <1>1, EmptySeq DEF TypeOK, Batches
  <2> QED
    BY <1>1, <1>2, <2>1 DEF TypeOK, Batches, Entities
<1>6. LockInv'
  BY <1>1, NullAssumption DEF TypeOK, LockInv
<1>7. PackOf(c)' /\ GreedyOf(c)'
  BY <1>4 DEF PackOf, GreedyOf
<1>8. BlockOf(c)'
  <2>1. UNCHANGED sizes
    BY <1>1
  <2> QED
    BY <1>3, <1>4, <2>1 DEF BlockOf
<1>9. \A d \in Calls \ {c} : PackOf(d)' /\ BlockOf(d)' /\ GreedyOf(d)'
  <2>1. \A d \in Calls \ {c} :
          pc'[d] = pc[d] /\ batch'[d] = batch[d] /\ batches'[d] = batches[d]
    BY <1>1 DEF TypeOK
  <2> QED
    BY <1>1, <1>2, <2>1, Frame
<1> QED
  BY <1>5, <1>6, <1>7, <1>8, <1>9 DEF IInv

LEMMA Invariant == Spec => []IInv
<1>1. Init => IInv
  <2> SUFFICES ASSUME Init PROVE IInv
    OBVIOUS
  <2>1. EmptyBatch(1) = [from |-> 1, to |-> 0, size |-> 0]
    BY DEF EmptyBatch
  <2>2. EmptyBatch(1) \in [from : 1..MaxLength + 1, to : 0..MaxLength, size : 0..Limit]
    BY <2>1, BoundAssumption
  <2>3. TypeOK
    BY <2>2 DEF Init, TypeOK
  <2>4. LockInv
    BY NullAssumption DEF Init, LockInv
  <2>5. ASSUME NEW c \in Calls PROVE PackOf(c) /\ BlockOf(c) /\ GreedyOf(c)
    <3>1. /\ pc[c] = "idle" /\ batches[c] = <<>> /\ batch[c] = EmptyBatch(1) /\ entity = <<>>
          /\ sizes[c] \in Lists
      BY DEF Init
    <3>2. PackOf(c) /\ GreedyOf(c)
      BY <3>1 DEF PackOf, GreedyOf
    <3>3. Len(sizes[c]) \in Nat /\ Len(entity) = 0 /\ DOMAIN entity = {}
      BY <3>1, ListType, BoundAssumption
    <3>4. Block(entity, c, 0, 0) /\ 0 \in 0..Len(entity) /\ 0 \in 0..Len(sizes[c]) /\ 0 + 0 <= Len(entity)
      BY <3>3 DEF Block
    <3> QED
      BY <3>1, <3>2, <3>4 DEF BlockOf
  <2> QED
    BY <2>3, <2>4, <2>5 DEF IInv
<1>2. IInv /\ [Next]_vars => IInv'
  <2>1. ASSUME IInv, UNCHANGED vars PROVE IInv'
    <3>1. UNCHANGED <<sizes, pc, lock, batch, batches, entity>>
      BY <2>1 DEF vars
    <3>2. TypeOK' /\ LockInv'
      BY <2>1, <3>1 DEF IInv, TypeOK, LockInv
    <3>3. ASSUME NEW c \in Calls PROVE PackOf(c)' /\ BlockOf(c)' /\ GreedyOf(c)'
      <4>1. PackOf(c) /\ BlockOf(c) /\ GreedyOf(c)
        BY <2>1 DEF IInv
      <4>2. PackOf(c)'
        BY <3>1, <4>1 DEF PackOf
      <4>3. BlockOf(c)'
        BY <3>1, <4>1 DEF BlockOf
      <4>4. GreedyOf(c)'
        BY <3>1, <4>1 DEF GreedyOf, Of
      <4> QED
        BY <4>2, <4>3, <4>4
    <3> QED
      BY <3>2, <3>3 DEF IInv
  <2> QED
    BY <2>1, FirstSteps, PackSteps, SendSteps, FailSteps DEF Next
<1> QED
  BY <1>1, <1>2, PTL DEF Spec

-----------------------------------------------------------------------------
(* Results *)

\* Every variable keeps its type, and no batch outgrows the limit.
THEOREM TypeCorrect == Spec => []TypeOK
BY Invariant, PTL DEF IInv

\* The service has a prefix of every list, in order and without a duplicate, and
\* nothing of a list that was refused, however the calls are interleaved and fail.
THEOREM OrderSafety == Spec => []SentInOrder
<1>1. IInv => SentInOrder
  <2> SUFFICES ASSUME IInv, NEW c \in Calls
               PROVE  LET sent == {entity[i][2] : i \in Of(c)} IN
                      /\ \A i, j \in Of(c) : i < j => entity[i][2] < entity[j][2]
                      /\ \E n \in 0..Len(sizes[c]) : sent = 1..n
                      /\ pc[c] = "done" => sent = DOMAIN sizes[c]
                      /\ (\E i \in DOMAIN sizes[c] : sizes[c][i] > Limit) => sent = {}
    BY DEF SentInOrder
  <2> DEFINE sent == {entity[i][2] : i \in Of(c)}
  <2>1. sizes[c] \in Lists /\ entity \in Entities /\ BlockOf(c)
    BY DEF IInv, TypeOK, Entities
  <2>2. PICK lo \in 0..Len(entity), n \in 0..Len(sizes[c]) :
          /\ lo + n <= Len(entity) /\ Block(entity, c, lo, n)
          /\ pc[c] = "done" => n = Len(sizes[c])
          /\ n > 0 => \A i \in DOMAIN sizes[c] : sizes[c][i] <= Limit
    BY <2>1 DEF BlockOf
  <2>3. /\ Len(entity) \in Nat /\ DOMAIN entity = 1..Len(entity)
        /\ Len(sizes[c]) \in Nat /\ DOMAIN sizes[c] = 1..Len(sizes[c])
        /\ \A i \in DOMAIN sizes[c] : sizes[c][i] \in Nat
    BY <2>1, ListType, LenProperties, BoundAssumption DEF Entities
  <2>4. Of(c) = (lo + 1)..(lo + n)
    BY <2>2, <2>3 DEF Block, Of
  <2>5. \A i \in Of(c) : entity[i][2] = i - lo /\ i \in Nat
    BY <2>2, <2>3 DEF Block, Of
  <2>6. sent = 1..n
    <3>1. ASSUME NEW k \in 1..n PROVE k \in sent
      <4>1. lo + k \in Of(c) /\ (lo + k) - lo = k
        BY <2>2, <2>3, <2>4
      <4> QED
        BY <2>5, <4>1
    <3>2. ASSUME NEW i \in Of(c) PROVE entity[i][2] \in 1..n
      BY <2>2, <2>3, <2>4, <2>5
    <3> QED
      BY <3>1, <3>2
  <2>7. \A i, j \in Of(c) : i < j => entity[i][2] < entity[j][2]
    BY <2>2, <2>3, <2>5
  <2>8. (\E i \in DOMAIN sizes[c] : sizes[c][i] > Limit) => n = 0
    BY <2>2, <2>3, BoundAssumption
  <2> HIDE DEF sent
  <2>9. 1..0 = {}
    OBVIOUS
  <2> QED
    BY <2>2, <2>3, <2>6, <2>7, <2>8, <2>9 DEF sent
<1> QED
  BY <1>1, Invariant, PTL

\* The batches of two calls to one entity do not mix, for any number of calls.
THEOREM InterleaveSafety == Spec => []BatchesNotInterleaved
<1>1. IInv => BatchesNotInterleaved
  <2> SUFFICES ASSUME IInv, NEW i \in DOMAIN entity, NEW k \in DOMAIN entity,
                      entity[i][1] = entity[k][1], NEW j \in i..k
               PROVE  entity[j][1] = entity[i][1]
    BY DEF BatchesNotInterleaved
  <2>1. entity \in Entities /\ Len(entity) \in Nat /\ DOMAIN entity = 1..Len(entity)
    BY LenProperties DEF IInv, TypeOK, Entities
  <2>2. entity[i] \in Calls \X (1..MaxLength)
    BY <2>1, ElementOfSeq DEF Entities
  <2>3. PICK c \in Calls : entity[i][1] = c
    BY <2>2
  <2>4. PICK lo \in Nat, n \in Nat : Block(entity, c, lo, n)
    <3>1. Len(sizes[c]) \in Nat
      BY ListType, BoundAssumption DEF IInv, TypeOK
    <3>2. PICK lo \in 0..Len(entity), n \in 0..Len(sizes[c]) : Block(entity, c, lo, n)
      BY DEF IInv, BlockOf
    <3> QED
      BY <2>1, <3>1, <3>2
  <2>5. i \in (lo + 1)..(lo + n) /\ k \in (lo + 1)..(lo + n)
    BY <2>3, <2>4 DEF Block
  <2>6. j \in DOMAIN entity /\ j \in (lo + 1)..(lo + n)
    BY <2>1, <2>4, <2>5
  <2> QED
    BY <2>3, <2>4, <2>6 DEF Block
<1> QED
  BY <1>1, Invariant, PTL

\* _pack is optimal: its batches fit, and every other way to cut a list into batches
\* that fit takes as many sends or more.
THEOREM PackIsOptimal == Spec => []FewestSends
<1>1. IInv => FewestSends
  <2> SUFFICES ASSUME IInv, NEW c \in Calls, pc[c] = "sending", Of(c) = {}
               PROVE  /\ \A k \in DOMAIN batches[c] :
                           Weight(sizes[c], batches[c][k].from, batches[c][k].to) <= Limit
                      /\ \A C \in Cuts(sizes[c]) : Len(batches[c]) <= Cardinality(C) + 1
    BY DEF FewestSends
  <2>1. PackOf(c) /\ GreedyOf(c) /\ batches[c] \in Seq(Batches)
    BY DEF IInv, TypeOK, Batches
  <2>2. ASSUME NEW k \in DOMAIN batches[c]
        PROVE  Weight(sizes[c], batches[c][k].from, batches[c][k].to) <= Limit
    <3>1. batches[c][k] \in Batches
      BY <2>1, ElementOfSeq, LenProperties
    <3>2. batches[c][k].size <= Limit
      BY <3>1, BoundAssumption DEF Batches
    <3> QED
      BY <2>1, <3>2 DEF PackOf
  <2> QED
    BY <2>1, <2>2 DEF GreedyOf
<1> QED
  BY <1>1, Invariant, PTL
=============================================================================
