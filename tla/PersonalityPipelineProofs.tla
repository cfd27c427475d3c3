---------------------- MODULE PersonalityPipelineProofs ----------------------
(***************************************************************************)
(* Proofs about PersonalityPipeline, for every firmware, every sequence of *)
(* builder calls and every bound.                                          *)
(*                                                                         *)
(* The data operators of the model put things in order (Ascending, At) and *)
(* concatenate (FlattenSeq), so the first part is about these.  The second *)
(* is the invariant of the bundle, the third what Projection makes of a    *)
(* bundle, and the last the properties of the runs.                        *)
(***************************************************************************)
EXTENDS PersonalityPipeline, FiniteSetTheorems, SequenceTheorems, TLAPS

(***************************************************************************)
(* Numbers.  The library's induction takes an operator, which cannot be    *)
(* instantiated; these two take a set.                                     *)
(***************************************************************************)
\* A set of natural numbers that is not empty has a least member.
LEMMA LeastNumber ==
  ASSUME NEW P \in SUBSET Nat, P # {}
  PROVE  \E n \in P : \A m \in P : n <= m
<1>1. PICK p \in P : TRUE
  OBVIOUS
<1> DEFINE S == FiniteSubsetsOf(0 .. p)
           R == StrictSubsetOrdering(0 .. p)
           T == {0 .. n : n \in {m \in P : m <= p}}
<1>2. IsFiniteSet(0 .. p)
  BY <1>1, FS_Interval
<1>3. T \subseteq S
  BY <1>2, FS_FiniteSubsetsOfFinite
<1>4. 0 .. p \in T
  BY <1>1
<1>5. IsWellFoundedOn(R, S)
  BY FS_StrictSubsetOrderingWellFounded
<1>6. \E x \in T : \A y \in T : ~ (<<y, x>> \in R)
  <2> HIDE DEF R, S, T
  <2> QED
    BY <1>3, <1>4, <1>5, WFMin
<1>7. PICK n \in {m \in P : m <= p} :
          \A m \in {i \in P : i <= p} : ~ (<<0 .. m, 0 .. n>> \in R)
  BY <1>6
<1>8. ASSUME NEW m \in P, m < n  PROVE FALSE
  <2>1. 0 .. m \subseteq 0 .. n /\ 0 .. m # 0 .. n /\ 0 .. n \subseteq 0 .. p
    <3>1. n \in 0 .. n /\ n \notin 0 .. m
      BY <1>7, <1>8
    <3>2. 0 .. m \subseteq 0 .. n /\ 0 .. n \subseteq 0 .. p
      BY <1>7, <1>8
    <3> QED
      BY <3>1, <3>2
  <2>2. <<0 .. m, 0 .. n>> \in R
    BY <2>1 DEF StrictSubsetOrdering
  <2> QED
    BY <1>7, <1>8, <2>2
<1> QED
  BY <1>7, <1>8

\* Induction over a set.
LEMMA NumberInduction ==
  ASSUME NEW P, 0 \in P, \A n \in Nat : n \in P => n + 1 \in P
  PROVE  Nat \subseteq P
<1> SUFFICES ASSUME Nat \ P # {}  PROVE FALSE
  OBVIOUS
<1>1. PICK n \in Nat \ P : \A m \in Nat \ P : n <= m
  BY LeastNumber
<1>2. n # 0 /\ n - 1 \in Nat
  BY <1>1
<1>3. n - 1 \in P
  BY <1>1, <1>2
<1>4. (n - 1) + 1 \in P
  BY <1>2, <1>3
<1> QED
  BY <1>1, <1>4

(***************************************************************************)
(* Orders.                                                                 *)
(***************************************************************************)
\* The members of a finite set have different ranks, up to its size.
LEMMA RankOrders ==
  ASSUME NEW S \in SUBSET Int, IsFiniteSet(S)
  PROVE  /\ Cardinality(S) \in Nat
         /\ \A x \in S : Rank(S, x) \in 1 .. Cardinality(S)
         /\ \A x, y \in S : x < y => Rank(S, x) < Rank(S, y)
<1>1. Cardinality(S) \in Nat
  BY FS_CardinalityType
<1> DEFINE Upto(x) == {z \in S : z <= x}
<1>2. ASSUME NEW x \in S
      PROVE  /\ IsFiniteSet(Upto(x)) /\ Cardinality(Upto(x)) \in Nat
             /\ Cardinality(Upto(x)) <= Cardinality(S)
             /\ Cardinality(Upto(x)) # 0
  <2>1. Upto(x) \in SUBSET S /\ x \in Upto(x)
    OBVIOUS
  <2> HIDE DEF Upto
  <2>2. IsFiniteSet(Upto(x)) /\ Cardinality(Upto(x)) <= Cardinality(S)
    BY <2>1, FS_Subset
  <2> QED
    BY <2>1, <2>2, FS_CardinalityType, FS_EmptySet
<1>3. \A x \in S : Rank(S, x) \in 1 .. Cardinality(S)
  BY <1>1, <1>2 DEF Rank
<1>4. ASSUME NEW x \in S, NEW y \in S, x < y
      PROVE  Cardinality(Upto(x)) < Cardinality(Upto(y))
  <2>1. Upto(x) \in SUBSET Upto(y) /\ Upto(x) # Upto(y)
    <3>1. y \in Upto(y) /\ y \notin Upto(x)
      BY <1>4
    <3>2. \A z \in S : z <= x => z <= y
      <4> SUFFICES ASSUME NEW z \in S, z <= x  PROVE z <= y
        OBVIOUS
      <4>1. x \in Int /\ y \in Int /\ z \in Int
        OBVIOUS
      <4> QED
        BY <1>4, <4>1
    <3>3. Upto(x) \subseteq Upto(y)
      BY <3>2
    <3> QED
      BY <3>1, <3>3
  <2>2. IsFiniteSet(Upto(y)) /\ Cardinality(Upto(x)) \in Nat
           /\ Cardinality(Upto(y)) \in Nat
    BY <1>2
  <2> HIDE DEF Upto
  <2>3. /\ Cardinality(Upto(x)) <= Cardinality(Upto(y))
        /\ Cardinality(Upto(y)) = Cardinality(Upto(x)) => Upto(y) = Upto(x)
    BY <2>1, <2>2, FS_Subset
  <2> QED
    BY <2>1, <2>2, <2>3
<1> QED
  BY <1>1, <1>3, <1>4 DEF Rank

\* Ascending lists a finite set: every place holds a member, every member has
\* one place, and the places are in order.
LEMMA AscendingLists ==
  ASSUME NEW S \in SUBSET Int, IsFiniteSet(S)
  PROVE  /\ Cardinality(S) \in Nat
         /\ Ascending(S) \in [1 .. Cardinality(S) -> S]
         /\ \A x \in S : \E n \in 1 .. Cardinality(S) : Ascending(S)[n] = x
         /\ \A m, n \in 1 .. Cardinality(S) :
               Ascending(S)[m] = Ascending(S)[n] => m = n
         /\ \A m, n \in 1 .. Cardinality(S) :
               m < n => Ascending(S)[m] < Ascending(S)[n]
<1> DEFINE c == Cardinality(S)
           rank == [x \in S |-> Rank(S, x)]
           Place(n) == CHOOSE x \in S : Rank(S, x) = n
<1>1. /\ c \in Nat
      /\ \A x \in S : Rank(S, x) \in 1 .. c
      /\ \A x, y \in S : x < y => Rank(S, x) < Rank(S, y)
  BY RankOrders
<1>2. \A x, y \in S : Rank(S, x) = Rank(S, y) => x = y
  <2> SUFFICES ASSUME NEW x \in S, NEW y \in S, x # y
               PROVE  Rank(S, x) # Rank(S, y)
    OBVIOUS
  <2>1. x < y \/ y < x
    OBVIOUS
  <2>2. Rank(S, x) \in Int /\ Rank(S, y) \in Int
    BY <1>1
  <2> QED
    BY <1>1, <2>1, <2>2
<1>3. rank \in Injection(S, 1 .. c)
  BY <1>1, <1>2 DEF Injection, IsInjective
<1>4. IsFiniteSet(1 .. c) /\ Cardinality(1 .. c) = c
  BY <1>1, FS_Interval
<1>5. rank \in Surjection(S, 1 .. c)
  <2> HIDE DEF rank
  <2> QED
    BY <1>3, <1>4, FS_Injection
<1>6. \A n \in 1 .. c : \E x \in S : Rank(S, x) = n
  BY <1>5 DEF Surjection
<1>7. \A n \in 1 .. c : Place(n) \in S /\ Rank(S, Place(n)) = n
  BY <1>6
<1>8. Ascending(S) = [n \in 1 .. c |-> Place(n)]
  BY DEF Ascending
<1>9. \A n \in 1 .. c :
         /\ Ascending(S)[n] \in S
         /\ Rank(S, Ascending(S)[n]) = n
  BY <1>7, <1>8
<1>10. Ascending(S) \in [1 .. c -> S]
  BY <1>7, <1>8
<1> HIDE DEF c, rank, Place
<1>11. \A x \in S : \E n \in 1 .. c : Ascending(S)[n] = x
  BY <1>1, <1>2, <1>9
<1>12. \A m, n \in 1 .. c : Ascending(S)[m] = Ascending(S)[n] => m = n
  BY <1>9
<1>13. ASSUME NEW m \in 1 .. c, NEW n \in 1 .. c, m < n
       PROVE  Ascending(S)[m] < Ascending(S)[n]
  <2>1. /\ Ascending(S)[m] \in Int /\ Ascending(S)[n] \in Int
        /\ Ascending(S)[m] \in S /\ Ascending(S)[n] \in S
    BY <1>9
  <2>2. ~ (Ascending(S)[n] < Ascending(S)[m])
    BY <1>1, <1>9, <1>13, <2>1
  <2>3. Ascending(S)[m] # Ascending(S)[n]
    BY <1>12, <1>13
  <2> QED
    BY <2>1, <2>2, <2>3
<1> QED
  BY <1>1, <1>10, <1>11, <1>12, <1>13 DEF c

\* What stands at some positions of a sequence, in their order, is a sequence
\* that holds what stands at each of them.
LEMMA AtLists ==
  ASSUME NEW T, NEW s \in Seq(T), NEW P \in SUBSET DOMAIN s
  PROVE  /\ IsFiniteSet(P) /\ Cardinality(P) \in Nat
         /\ At(s, P) \in Seq(T)
         /\ DOMAIN At(s, P) = 1 .. Cardinality(P)
         /\ Len(At(s, P)) = Cardinality(P)
         /\ \A n \in 1 .. Cardinality(P) :
               Ascending(P)[n] \in P /\ At(s, P)[n] = s[Ascending(P)[n]]
         /\ \A k \in P : \E n \in 1 .. Cardinality(P) :
               Ascending(P)[n] = k /\ At(s, P)[n] = s[k]
<1>1. DOMAIN s = 1 .. Len(s) /\ Len(s) \in Nat
  OBVIOUS
<1>2. IsFiniteSet(P)
  <2>1. IsFiniteSet(1 .. Len(s)) /\ P \in SUBSET (1 .. Len(s))
    BY <1>1, FS_Interval
  <2> QED
    BY <2>1, FS_Subset
<1>3. P \in SUBSET Int
  BY <1>1
<1>4. /\ Cardinality(P) \in Nat
      /\ Ascending(P) \in [1 .. Cardinality(P) -> P]
      /\ \A x \in P : \E n \in 1 .. Cardinality(P) : Ascending(P)[n] = x
  BY <1>2, <1>3, AscendingLists
<1>5. At(s, P) = [n \in 1 .. Cardinality(P) |-> s[Ascending(P)[n]]]
  BY <1>4 DEF At
<1>6. \A n \in 1 .. Cardinality(P) : Ascending(P)[n] \in P
  BY <1>4
<1>7. \A k \in P : s[k] \in T
  BY <1>1
<1>8. At(s, P) \in [1 .. Cardinality(P) -> T]
  BY <1>5, <1>6, <1>7
<1>9. At(s, P) \in Seq(T) /\ Len(At(s, P)) = Cardinality(P)
  BY <1>4, <1>8
<1> QED
  BY <1>2, <1>4, <1>5, <1>6, <1>9

\* A sequence of sequences flattens to a sequence of what they hold.
LEMMA FlattenType ==
  ASSUME NEW T, NEW s \in Seq(Seq(T))
  PROVE  FlattenSeq(s) \in Seq(T)
<1> DEFINE N == Len(s)
           Step(f, i) == IF i = 1 THEN s[i] ELSE f[i - 1] \o s[i]
           Partial(n) == \E f \in [1 .. n -> Seq(T)] :
                            \A i \in 1 .. n : f[i] = Step(f, i)
           P == {n \in Nat : n <= N => Partial(n)}
<1>1. N \in Nat /\ \A i \in 1 .. N : s[i] \in Seq(T)
  OBVIOUS
<1>2. CASE N = 0
  <2>1. s = <<>>
    BY <1>2
  <2>2. FlattenSeq(s) = s
    BY <1>2 DEF FlattenSeq
  <2>3. <<>> \in Seq(T)
    OBVIOUS
  <2> QED
    BY <2>1, <2>2, <2>3
<1>3. CASE N # 0
  <2>1. 0 \in P
    <3> DEFINE none == [i \in 1 .. 0 |-> <<>>]
    <3>1. none \in [1 .. 0 -> Seq(T)] /\ 1 .. 0 = {}
      OBVIOUS
    <3>2. \A i \in 1 .. 0 : none[i] = Step(none, i)
      BY <3>1
    <3> HIDE DEF none, Step
    <3>3. Partial(0)
      BY <3>1, <3>2
    <3> HIDE DEF Partial
    <3> QED
      BY <3>3
  <2>2. ASSUME NEW n \in Nat, n \in P  PROVE n + 1 \in P
    <3> HIDE DEF Partial
    <3> SUFFICES ASSUME n + 1 <= N
                 PROVE  Partial(n + 1)
      OBVIOUS
    <3>0. Partial(n)
      BY <1>1, <2>2
    <3> USE DEF Partial
    <3> HIDE DEF Step
    <3>1. PICK f \in [1 .. n -> Seq(T)] : \A i \in 1 .. n : f[i] = Step(f, i)
      BY <3>0
    <3> USE DEF Step
    <3> DEFINE g == [i \in 1 .. n + 1 |-> IF i = n + 1 THEN Step(f, i) ELSE f[i]]
    <3>2. Step(f, n + 1) \in Seq(T)
      <4>1. s[n + 1] \in Seq(T)
        BY <1>1
      <4>2. n + 1 # 1 => f[n] \in Seq(T) /\ (n + 1) - 1 = n
        OBVIOUS
      <4> QED
        BY <4>1, <4>2
    <3> HIDE DEF Step
    <3>3. g \in [1 .. n + 1 -> Seq(T)]
      BY <3>2
    <3>4. \A i \in 1 .. n + 1 : g[i] = Step(f, i)
      <4> SUFFICES ASSUME NEW i \in 1 .. n + 1, i # n + 1
                   PROVE  g[i] = Step(f, i)
        OBVIOUS
      <4> QED
        BY <3>1
    <3>5. \A i \in 1 .. n + 1 : Step(f, i) = Step(g, i)
      <4> SUFFICES ASSUME NEW i \in 1 .. n + 1, i # 1
                   PROVE  Step(f, i) = Step(g, i)
        BY DEF Step
      <4>1. g[i - 1] = f[i - 1]
        OBVIOUS
      <4> QED
        BY <4>1 DEF Step
    <3> HIDE DEF g
    <3> QED
      BY <3>3, <3>4, <3>5
  <2>3. N \in P
    <3> HIDE DEF P
    <3> QED
      BY <1>1, <2>1, <2>2, NumberInduction
  <2>4. PICK f \in [1 .. N -> Seq(T)] : \A i \in 1 .. N : f[i] = Step(f, i)
    <3> HIDE DEF Step
    <3> QED
      BY <1>1, <2>3
  <2> DEFINE Is(h) == h = [i \in 1 .. N |-> IF i = 1 THEN s[i] ELSE h[i - 1] \o s[i]]
             flatten == CHOOSE h : Is(h)
  <2>5. Is(f)
    BY <2>4
  <2>6. Is(flatten)
    <3> HIDE DEF Is
    <3> QED
      BY <2>5
  <2>7. FlattenSeq(s) = flatten[N]
    BY <1>3 DEF FlattenSeq
  <2>8. /\ flatten[1] = s[1]
        /\ \A i \in 1 .. N : i # 1 => flatten[i] = flatten[i - 1] \o s[i]
    <3> HIDE DEF flatten
    <3>1. flatten = [i \in 1 .. N |->
                        IF i = 1 THEN s[i] ELSE flatten[i - 1] \o s[i]]
      BY <2>6
    <3>2. \A i \in 1 .. N :
             flatten[i] = IF i = 1 THEN s[i] ELSE flatten[i - 1] \o s[i]
      BY <3>1, Zenon
    <3>3. 1 \in 1 .. N
      BY <1>1, <1>3
    <3> QED
      BY <3>2, <3>3
  <2> HIDE DEF flatten, Is, P
  <2> DEFINE Q == {n \in Nat : n + 1 <= N => flatten[n + 1] \in Seq(T)}
  <2>9. 0 \in Q
    BY <1>1, <1>3, <2>8
  <2>10. ASSUME NEW n \in Nat, n \in Q  PROVE n + 1 \in Q
    <3> SUFFICES ASSUME (n + 1) + 1 <= N
                 PROVE  flatten[(n + 1) + 1] \in Seq(T)
      OBVIOUS
    <3> DEFINE m == (n + 1) + 1
    <3>1. m \in 1 .. N /\ m # 1 /\ m - 1 = n + 1
      BY <1>1
    <3>2. flatten[n + 1] \in Seq(T)
      BY <1>1, <2>10
    <3>3. s[m] \in Seq(T)
      BY <1>1, <3>1
    <3>4. flatten[m] = flatten[n + 1] \o s[m]
      BY <2>8, <3>1
    <3> QED
      BY <3>2, <3>3, <3>4
  <2>11. N - 1 \in Q
    <3>1. Nat \subseteq Q
      <4> HIDE DEF Q
      <4> QED
        BY <2>9, <2>10, NumberInduction
    <3>2. N - 1 \in Nat
      BY <1>1, <1>3
    <3> QED
      BY <3>1, <3>2
  <2>12. flatten[N] \in Seq(T)
    <3>1. N - 1 \in Nat /\ (N - 1) + 1 <= N /\ (N - 1) + 1 = N
      BY <1>1, <1>3
    <3> QED
      BY <2>11, <3>1
  <2> QED
    BY <2>7, <2>12
<1> QED
  BY <1>2, <1>3

\* Putting one more in front.
LEMMA InFront ==
  ASSUME NEW T, NEW x \in T, NEW s \in Seq(T)
  PROVE  /\ <<x>> \o s \in Seq(T)
         /\ Len(<<x>> \o s) = Len(s) + 1
         /\ (<<x>> \o s)[1] = x
         /\ \A k \in 2 .. Len(s) + 1 : (<<x>> \o s)[k] = s[k - 1]
<1> DEFINE u == <<x>>
           n == Len(u)
<1>1. u \in Seq(T) /\ u[1] = x
  OBVIOUS
<1>2. n = 1
  OBVIOUS
<1> HIDE DEF u
<1>3. /\ u \o s \in Seq(T)
      /\ Len(u \o s) = n + Len(s)
      /\ \A k \in 1 .. n : (u \o s)[k] = u[k]
      /\ \A k \in 1 .. Len(s) : (u \o s)[k + n] = s[k]
  BY <1>1
<1> HIDE DEF n
<1>4. \A k \in 2 .. Len(s) + 1 : (u \o s)[k] = s[k - 1]
  <2> SUFFICES ASSUME NEW k \in 2 .. Len(s) + 1
               PROVE  (u \o s)[k] = s[k - 1]
    OBVIOUS
  <2>1. k - 1 \in 1 .. Len(s) /\ (k - 1) + n = k
    BY <1>2
  <2>2. (u \o s)[(k - 1) + n] = s[k - 1]
    BY <1>3, <2>1
  <2> QED
    BY <2>1, <2>2
<1> QED
  BY <1>1, <1>2, <1>3, <1>4 DEF u

(***************************************************************************)
(* The invariant.                                                          *)
(***************************************************************************)
AtMostOne(T) == {s \in Seq(T) : Len(s) <= 1}

StringDescriptors ==
    [index : Nat, language : Nat, form : Forms, ids : Seq(Nat)]

MicrosoftOs ==
    [vendor : Nat, compat : Seq(CompatibleIds),
     properties : Seq(RegistryProperties)]

WebUsbs == [version : Versions, vendor : Nat, page : Pages]

Bundles ==
    [device : DeviceDescriptors, config : Configurations,
     strings : Seq(StringDescriptors), microsoft : AtMostOne(MicrosoftOs),
     webusb : AtMostOne(WebUsbs)]

Builders ==
    [usb : {"old", "new"}, serial : {"text", "long"}, texts : {"text", "long"},
     interfaces : Seq({i \in NativeInterfaces : i.class # "null"}),
     microsoft : AtMostOne(MicrosoftOs), webusb : AtMostOne(WebUsbs)]

\* The phases in which discover reads, by what it has read before.
Beginning == {"device", "languages"}

WithLanguages == {"header", "config"}

WithStrings ==
    {"osString", "compat", "properties", "bosHeader", "bos", "setConfig",
     "url", "finish"}

Discovering == Beginning \cup WithLanguages \cup {"strings"} \cup WithStrings

\* The phases from the Configure on.
Configuring ==
    {"found", "validated", "replaced", "served", "rejected", "failed"}

PipelineTypeOK ==
    /\ phase \in Discovering \cup Configuring \cup {"abandoned", "building"}
    /\ bundle \in Bundles
    /\ left \in SUBSET Nat
    /\ builder \in AtMostOne(Builders)

\* The language descriptor comes first and no other string has its index.
LanguagesFirst(b) ==
    /\ b.strings # <<>>
    /\ b.strings[1].index = 0 /\ b.strings[1].language = 0
    /\ b.strings[1].form = "languages" /\ b.strings[1].ids # <<>>
    /\ \A k \in 2 .. Len(b.strings) : b.strings[k].index # 0

\* The strings that were read because something refers to them: the Microsoft
\* OS string follows them.
LastRead(b) ==
    IF b.microsoft = <<>> THEN Len(b.strings) ELSE Len(b.strings) - 1

\* Each was read once, for a name and a language the firmware announced.
ReadOnce(b) ==
    /\ \A k \in 2 .. LastRead(b) :
          /\ b.strings[k].language \in LanguageIds(b)
          /\ b.strings[k].index \in StringIndices(b)
    /\ \A j, k \in 2 .. LastRead(b) :
          (/\ b.strings[j].language = b.strings[k].language
           /\ b.strings[j].index = b.strings[k].index) => j = k
    /\ b.microsoft # <<>> =>
          /\ LastRead(b) >= 1
          /\ b.strings[Len(b.strings)].language = 0
          /\ b.strings[Len(b.strings)].index = OsString

\* All were read.
ReadAll(b) ==
    \A l \in LanguageIds(b), i \in StringIndices(b) :
        \E k \in 2 .. LastRead(b) :
            b.strings[k].language = l /\ b.strings[k].index = i

\* What the phase of a discovery says of the bundle.
Known(p, b) ==
    /\ p \in Beginning \cup {"building"} =>
          b.strings = <<>> /\ b.microsoft = <<>>
    /\ p \in WithLanguages =>
          LanguagesFirst(b) /\ Len(b.strings) < 2 /\ b.microsoft = <<>>
    /\ p = "strings" =>
          /\ LanguagesFirst(b) /\ b.microsoft = <<>>
          /\ ReadOnce(b) /\ PendingStrings(b) # {}
    /\ p \in WithStrings => LanguagesFirst(b) /\ ReadOnce(b) /\ ReadAll(b)
    /\ p = "osString" => b.microsoft = <<>>
    /\ p \in {"compat", "properties"} => b.microsoft # <<>>
    /\ p \in {"setConfig", "url"} => b.webusb # <<>>

DiscoveryInv ==
    /\ Known(phase, bundle)
    /\ phase = "properties" => left # {}
    /\ phase \in Discovering => builder = <<>>

\* Where the bundle of a Configure comes from.
SourceInv ==
    phase \in Configuring =>
        /\ Finishes(bundle)
        /\ LanguagesFirst(bundle)
        /\ builder = <<>> => ReadOnce(bundle) /\ ReadAll(bundle)

\* What configure has made of it.
PublishInv ==
    /\ phase \in {"validated", "replaced", "served", "failed"} =>
          Projects(bundle) /\ personality = <<Projection(bundle)>>
    /\ phase = "rejected" => ~Projects(bundle)
    /\ phase = "served" =>
          /\ Publishes(personality[1])
          /\ files = EndpointFiles(personality[1])
          /\ endpoint_map = personality[1].endpoints
    /\ phase = "failed" => ~Publishes(personality[1])

PipelineInv == PipelineTypeOK /\ DiscoveryInv /\ SourceInv /\ PublishInv

(***************************************************************************)
(* The types.                                                              *)
(***************************************************************************)
LEMMA OptionType ==
  ASSUME NEW T, NEW x \in T
  PROVE  /\ <<>> \in AtMostOne(T)
         /\ <<x>> \in AtMostOne(T) /\ <<x>> # <<>> /\ <<x>>[1] = x
         /\ \A s \in AtMostOne(T) : s # <<>> =>
               /\ s[1] \in T /\ Len(s) = 1 /\ DOMAIN s = {1} /\ s = <<s[1]>>
               /\ [s EXCEPT ![1] = x] = <<x>>
<1>1. ASSUME NEW s \in AtMostOne(T), s # <<>>
      PROVE  /\ s[1] \in T /\ Len(s) = 1 /\ DOMAIN s = {1} /\ s = <<s[1]>>
             /\ [s EXCEPT ![1] = x] = <<x>>
  <2>1. s \in Seq(T) /\ Len(s) = 1
    <3>1. s \in Seq(T) /\ Len(s) <= 1
      BY DEF AtMostOne
    <3> DEFINE n == Len(s)
    <3>2. n # 0 /\ n \in Nat /\ n <= 1
      BY <1>1, <3>1
    <3> HIDE DEF n
    <3>3. n = 1
      BY <3>2
    <3> QED
      BY <3>1, <3>3 DEF n
  <2>2. s[1] \in T /\ DOMAIN s = {1}
    BY <2>1
  <2>3. s = <<s[1]>>
    BY <2>1
  <2>4. [s EXCEPT ![1] = x] = <<x>>
    BY <2>2, <2>3
  <2> QED
    BY <2>1, <2>2, <2>3, <2>4
<1>2. <<>> \in AtMostOne(T) /\ <<x>> \in AtMostOne(T)
  BY DEF AtMostOne
<1> QED
  BY <1>1, <1>2

\* The one element is replaced.
LEMMA OptionSet ==
  ASSUME NEW T, NEW s \in AtMostOne(T), s # <<>>, NEW x \in T
  PROVE  /\ [s EXCEPT ![1] = x] \in AtMostOne(T)
         /\ [s EXCEPT ![1] = x] = <<x>>
<1>1. [s EXCEPT ![1] = x] = <<x>>
  BY OptionType
<1>2. <<x>> \in AtMostOne(T)
  BY OptionType
<1> QED
  BY <1>1, <1>2

\* A string descriptor of either kind has its type and the fields it is given.
LEMMA StringDescriptorType ==
  /\ \A index, language \in Nat, form \in Forms :
        /\ StringDescriptor(index, language, form) \in StringDescriptors
        /\ StringDescriptor(index, language, form).index = index
        /\ StringDescriptor(index, language, form).language = language
  /\ \A ids \in Seq(Nat) :
        /\ LanguageDescriptor(ids) \in StringDescriptors
        /\ LanguageDescriptor(ids).index = 0
        /\ LanguageDescriptor(ids).language = 0
        /\ LanguageDescriptor(ids).form = "languages"
        /\ LanguageDescriptor(ids).ids = ids
<1>1. ASSUME NEW none \in Seq(Nat), NEW index \in Nat, NEW language \in Nat,
             NEW form \in Forms
      PROVE  [index |-> index, language |-> language, form |-> form,
              ids |-> none] \in StringDescriptors
  BY DEF StringDescriptors
<1>2. <<>> \in Seq(Nat)
  OBVIOUS
<1>3. ASSUME NEW index \in Nat, NEW language \in Nat, NEW form \in Forms
      PROVE  StringDescriptor(index, language, form) \in StringDescriptors
  BY <1>1, <1>2, Zenon DEF StringDescriptor
<1>4. ASSUME NEW ids \in Seq(Nat)
      PROVE  LanguageDescriptor(ids) \in StringDescriptors
  <2>1. "languages" \in Forms
    BY DEF Forms
  <2> QED
    BY <1>1, <2>1 DEF LanguageDescriptor
<1> QED
  BY <1>3, <1>4 DEF StringDescriptor, LanguageDescriptor

\* A fresh capability has its type.
LEMMA MicrosoftType ==
  ASSUME NEW vendor \in Nat  PROVE Microsoft(vendor) \in MicrosoftOs
<1> DEFINE none == <<>>
<1>1. none \in Seq(CompatibleIds) /\ none \in Seq(RegistryProperties)
  OBVIOUS
<1> HIDE DEF none
<1>2. [vendor |-> vendor, compat |-> none, properties |-> none] \in MicrosoftOs
  BY <1>1 DEF MicrosoftOs
<1>3. Microsoft(vendor) = [vendor |-> vendor, compat |-> none, properties |-> none]
  BY Zenon DEF Microsoft, none
<1> QED
  BY <1>2, <1>3

\* The interfaces of a builder that assembles, by number, make descriptors.
LEMMA NativeBodyType ==
  ASSUME NEW n \in Builders, Assembles(n)
  PROVE  FlattenSeq([k \in DOMAIN Sorted(n.interfaces) |->
             InterfaceDescriptors(Sorted(n.interfaces)[k])]) \in Seq(Descriptors)
<1> DEFINE s == n.interfaces
           Sound == {i \in NativeInterfaces : i.class \in {"none", "class", "broken"}}
           numbers == {s[k].number : k \in DOMAIN s}
           Numbered(i) == CHOOSE k \in DOMAIN s : s[k].number = i
           c == Cardinality(numbers)
<1>1. s \in Seq({i \in NativeInterfaces : i.class # "null"})
  BY DEF Builders
<1>2. \A k \in DOMAIN s : s[k] \in Sound
  <2> SUFFICES ASSUME NEW k \in DOMAIN s  PROVE s[k] \in Sound
    OBVIOUS
  <2>1. s[k] \in NativeInterfaces /\ s[k].class # "null"
    BY <1>1
  <2>2. s[k].class # "huge"
    BY DEF Assembles
  <2> QED
    BY <2>1, <2>2, InterfacesHaveTypes
<1>3. numbers \in SUBSET Int /\ IsFiniteSet(numbers)
  <2>1. IsFiniteSet(DOMAIN s)
    <3>1. DOMAIN s = 1 .. Len(s) /\ Len(s) \in Nat
      BY <1>1
    <3> QED
      BY <3>1, FS_Interval
  <2>2. [k \in DOMAIN s |-> s[k].number] \in Surjection(DOMAIN s, numbers)
    BY DEF Surjection
  <2>3. IsFiniteSet(numbers)
    <3> HIDE DEF numbers, s
    <3> QED
      BY <2>1, <2>2, FS_Surjection
  <2>4. \A k \in DOMAIN s : s[k].number \in Int
    BY <1>2, InterfacesHaveTypes
  <2> QED
    BY <2>3, <2>4
<1>4. c \in Nat /\ Ascending(numbers) \in [1 .. c -> numbers]
  <2> HIDE DEF numbers
  <2> QED
    BY <1>3, AscendingLists
<1>5. DOMAIN Ascending(numbers) = 1 .. c
  <2> HIDE DEF numbers
  <2> QED
    BY <1>4
<1>6. Sorted(s) = [k \in 1 .. c |-> s[Numbered(Ascending(numbers)[k])]]
  BY <1>5 DEF Sorted
<1>7. \A i \in numbers : Numbered(i) \in DOMAIN s
  OBVIOUS
<1>8. \A k \in 1 .. c : Sorted(s)[k] \in Sound
  <2> HIDE DEF numbers, Numbered, Sound, c
  <2> QED
    BY <1>2, <1>4, <1>6, <1>7
<1>9. \A i \in Sound : InterfaceDescriptors(i) \in Seq(Descriptors)
  <2> SUFFICES ASSUME NEW i \in Sound
               PROVE  InterfaceDescriptors(i) \in Seq(Descriptors)
    OBVIOUS
  <2>1. /\ i.number \in Nat /\ i.name \in Nat /\ i.transfer \in Nat
        /\ i.class \in {"none", "class", "broken"}
        /\ i.in.number \in Nat /\ i.in.bit \in BOOLEAN
        /\ i.out.number \in Nat /\ i.out.bit \in BOOLEAN
    BY InterfacesHaveTypes
  <2> DEFINE head == [kind |-> "interface", whole |-> TRUE, number |-> i.number,
                      name |-> i.name, in |-> FALSE, transfer |-> 0]
  <2>2. head \in Descriptors
    BY <2>1 DEF Descriptors
  <2>3. /\ EndpointDescriptor(i.in, i.transfer) \in Descriptors
        /\ EndpointDescriptor(i.out, i.transfer) \in Descriptors
    BY <2>1 DEF EndpointDescriptor, Descriptors
  <2>4. i.class # "none" => OtherDescriptor(i.class) \in Descriptors
    BY <2>1 DEF OtherDescriptor, Descriptors
  <2> DEFINE more == IF i.class = "none" THEN <<>> ELSE <<OtherDescriptor(i.class)>>
             ends == <<EndpointDescriptor(i.in, i.transfer),
                       EndpointDescriptor(i.out, i.transfer)>>
  <2>5. <<head>> \in Seq(Descriptors) /\ more \in Seq(Descriptors)
           /\ ends \in Seq(Descriptors)
    <3> HIDE DEF head
    <3> QED
      BY <2>2, <2>3, <2>4
  <2>6. InterfaceDescriptors(i) = <<head>> \o more \o ends
    BY DEF InterfaceDescriptors
  <2> HIDE DEF head, more, ends
  <2> QED
    BY <2>5, <2>6
<1>10. [k \in DOMAIN Sorted(s) |-> InterfaceDescriptors(Sorted(s)[k])]
          \in Seq(Seq(Descriptors))
  <2>1. DOMAIN Sorted(s) = 1 .. c
    BY <1>6
  <2> HIDE DEF s, c, Sound
  <2>2. [k \in 1 .. c |-> InterfaceDescriptors(Sorted(s)[k])]
           \in [1 .. c -> Seq(Descriptors)]
    BY <1>8, <1>9
  <2> QED
    BY <1>4, <2>1, <2>2
<1> HIDE DEF s
<1>11. FlattenSeq([k \in DOMAIN Sorted(s) |-> InterfaceDescriptors(Sorted(s)[k])])
          \in Seq(Descriptors)
  BY <1>10, FlattenType
<1> QED
  BY <1>11 DEF s

\* What the builder assembles is a bundle whose languages come first.
LEMMA NativeBundleType ==
  ASSUME NEW n \in Builders, Assembles(n)
  PROVE  /\ NativeBundle(n) \in Bundles
         /\ LanguagesFirst(NativeBundle(n))
<1> DEFINE body == FlattenSeq([k \in DOMAIN Sorted(n.interfaces) |->
                       InterfaceDescriptors(Sorted(n.interfaces)[k])])
           texts == [k \in 1 .. 4 |-> StringDescriptor(k, English, "text")]
           head == LanguageDescriptor(<<English>>)
<1>1. body \in Seq(Descriptors)
  BY NativeBodyType
<1>2. /\ head \in StringDescriptors
      /\ head.index = 0 /\ head.language = 0 /\ head.form = "languages"
      /\ head.ids # <<>>
  <2>1. <<English>> \in Seq(Nat) /\ <<English>> # <<>>
    BY DEF English
  <2> QED
    BY <2>1, StringDescriptorType
<1>3. \A k \in 1 .. 4 :
         /\ StringDescriptor(k, English, "text") \in StringDescriptors
         /\ StringDescriptor(k, English, "text").index = k
  <2>1. English \in Nat /\ "text" \in Forms
    BY DEF English, Forms
  <2> QED
    BY <2>1, StringDescriptorType
<1>4. texts \in Seq(StringDescriptors) /\ Len(texts) = 4
         /\ \A k \in 1 .. 4 : texts[k].index = k
  <2>1. texts \in [1 .. 4 -> StringDescriptors]
    BY <1>3
  <2> QED
    BY <1>3, <2>1
<1> HIDE DEF head, texts
<1>5. /\ NativeStrings = <<head>> \o texts
      /\ NativeStrings \in Seq(StringDescriptors)
      /\ Len(NativeStrings) = 5 /\ NativeStrings[1] = head
      /\ \A k \in 2 .. 5 : NativeStrings[k] = texts[k - 1]
  <2>1. NativeStrings = <<head>> \o texts
    BY DEF NativeStrings, head, texts
  <2> DEFINE size == Len(texts)
             m == Len(NativeStrings)
  <2>2. size = 4
    BY <1>4
  <2>3. /\ NativeStrings \in Seq(StringDescriptors)
        /\ m = size + 1 /\ NativeStrings[1] = head
        /\ \A k \in 2 .. size + 1 : NativeStrings[k] = texts[k - 1]
    BY <1>2, <1>4, <2>1, InFront
  <2> HIDE DEF size, m
  <2>4. m = 5
    BY <2>2, <2>3
  <2> QED
    BY <2>1, <2>2, <2>3, <2>4 DEF m
<1> HIDE DEF body
<1>6. /\ NativeBundle(n).config = [consistent |-> TRUE, value |-> 1, name |-> 0,
                                   body |-> body]
      /\ NativeBundle(n).strings = NativeStrings
      /\ NativeBundle(n) =
            [device |-> [valid |-> TRUE, configurations |-> 1, usb |-> n.usb,
                         names |-> <<1, 2, 3>>],
             config |-> [consistent |-> TRUE, value |-> 1, name |-> 0,
                         body |-> body],
             strings |-> NativeStrings, microsoft |-> n.microsoft,
             webusb |-> n.webusb]
  BY DEF NativeBundle, body
<1>7. LanguagesFirst(NativeBundle(n))
  <2>1. \A k \in 2 .. 5 : texts[k - 1].index # 0
    BY <1>4
  <2> QED
    BY <1>2, <1>5, <1>6, <2>1 DEF LanguagesFirst
<1>8. NativeBundle(n) \in Bundles
  <2>1. [consistent |-> TRUE, value |-> 1, name |-> 0, body |-> body]
           \in Configurations
    BY <1>1 DEF Configurations
  <2>2. [valid |-> TRUE, configurations |-> 1, usb |-> n.usb,
         names |-> <<1, 2, 3>>] \in DeviceDescriptors
    BY DEF DeviceDescriptors, Builders
  <2>3. n.microsoft \in AtMostOne(MicrosoftOs) /\ n.webusb \in AtMostOne(WebUsbs)
    BY DEF Builders
  <2> QED
    BY <1>5, <1>6, <2>1, <2>2, <2>3 DEF Bundles
<1> QED
  BY <1>7, <1>8

(***************************************************************************)
(* What discover knows.                                                    *)
(***************************************************************************)
LEMMA BundleFields ==
  ASSUME NEW b \in Bundles
  PROVE  /\ b.device \in DeviceDescriptors /\ b.config \in Configurations
         /\ b.strings \in Seq(StringDescriptors)
         /\ b.microsoft \in AtMostOne(MicrosoftOs)
         /\ b.webusb \in AtMostOne(WebUsbs)
         /\ b.config.body \in Seq(Descriptors)
  BY DEF Bundles, Configurations

\* One field of a bundle is set, the others stay.
LEMMA SetField ==
  ASSUME NEW b \in Bundles
  PROVE  /\ \A x \in DeviceDescriptors :
               LET c == [b EXCEPT !.device = x]
               IN  /\ c \in Bundles /\ c.device = x /\ c.config = b.config
                   /\ c.strings = b.strings /\ c.microsoft = b.microsoft
                   /\ c.webusb = b.webusb
         /\ \A x \in Configurations :
               LET c == [b EXCEPT !.config = x]
               IN  /\ c \in Bundles /\ c.device = b.device /\ c.config = x
                   /\ c.strings = b.strings /\ c.microsoft = b.microsoft
                   /\ c.webusb = b.webusb
         /\ \A x \in Seq(StringDescriptors) :
               LET c == [b EXCEPT !.strings = x]
               IN  /\ c \in Bundles /\ c.device = b.device
                   /\ c.config = b.config /\ c.strings = x
                   /\ c.microsoft = b.microsoft /\ c.webusb = b.webusb
         /\ \A x \in AtMostOne(MicrosoftOs) :
               LET c == [b EXCEPT !.microsoft = x]
               IN  /\ c \in Bundles /\ c.device = b.device
                   /\ c.config = b.config /\ c.strings = b.strings
                   /\ c.microsoft = x /\ c.webusb = b.webusb
         /\ \A x \in AtMostOne(WebUsbs) :
               LET c == [b EXCEPT !.webusb = x]
               IN  /\ c \in Bundles /\ c.device = b.device
                   /\ c.config = b.config /\ c.strings = b.strings
                   /\ c.microsoft = b.microsoft /\ c.webusb = x
  BY DEF Bundles

\* What refers to strings, and the languages, are numbers.
LEMMA PendingType ==
  ASSUME NEW b \in Bundles, LanguagesFirst(b)
  PROVE  /\ LanguageIds(b) \subseteq Nat
         /\ StringIndices(b) \subseteq Nat \ {0}
         /\ PendingStrings(b) \in SUBSET (Nat \X Nat)
<1>1. b.strings[1] \in StringDescriptors
  <2>1. 1 \in DOMAIN b.strings
    BY BundleFields DEF LanguagesFirst
  <2> QED
    BY <2>1, BundleFields
<1>2. LanguageIds(b) \subseteq Nat
  <2>1. b.strings[1].ids \in Seq(Nat)
    BY <1>1 DEF StringDescriptors
  <2> QED
    BY <2>1 DEF LanguageIds
<1>3. DeviceNames(b) \subseteq Nat
  <2>1. b.device.names \in [1 .. 3 -> Nat]
    BY BundleFields DEF DeviceDescriptors
  <2> QED
    BY <2>1 DEF DeviceNames
<1>4. InterfaceNames(b.config.body) \subseteq Nat
  <2>1. \A k \in DOMAIN b.config.body : b.config.body[k] \in Descriptors
    BY BundleFields
  <2> QED
    BY <2>1 DEF InterfaceNames, Descriptors
<1>5. b.config.name \in Nat
  BY BundleFields DEF Configurations
<1>6. StringIndices(b) \subseteq Nat \ {0}
  BY <1>3, <1>4, <1>5 DEF StringIndices
<1> QED
  BY <1>2, <1>6 DEF PendingStrings

\* A set of pairs of numbers has a least one, first by language, then by index.
LEMMA LeastPair ==
  ASSUME NEW P \in SUBSET (Nat \X Nat), P # {}
  PROVE  \E p \in P : \A q \in P :
            p[1] < q[1] \/ (p[1] = q[1] /\ p[2] <= q[2])
<1> DEFINE Firsts == {p[1] : p \in P}
<1>1. PICK l \in Firsts : \A m \in Firsts : l <= m
  <2>1. Firsts \in SUBSET Nat /\ Firsts # {}
    OBVIOUS
  <2> HIDE DEF Firsts
  <2> QED
    BY <2>1, LeastNumber
<1> DEFINE Seconds == {p[2] : p \in {q \in P : q[1] = l}}
<1>2. PICK i \in Seconds : \A j \in Seconds : i <= j
  <2>1. Seconds \in SUBSET Nat /\ Seconds # {}
    BY <1>1
  <2> HIDE DEF Seconds
  <2> QED
    BY <2>1, LeastNumber
<1>3. PICK p \in P : p[1] = l /\ p[2] = i
  BY <1>2
<1>4. ASSUME NEW q \in P  PROVE p[1] < q[1] \/ (p[1] = q[1] /\ p[2] <= q[2])
  <2>1. q[1] \in Nat /\ p[1] \in Nat /\ p[1] <= q[1]
    BY <1>1, <1>3
  <2>2. q[1] = p[1] => p[2] <= q[2]
    BY <1>2, <1>3
  <2> QED
    BY <2>1, <2>2
<1> QED
  BY <1>4

\* The string that is read next is pending.
LEMMA NextIsPending ==
  ASSUME NEW b \in Bundles, LanguagesFirst(b), PendingStrings(b) # {}
  PROVE  /\ NextString(b) \in PendingStrings(b)
         /\ NextString(b)[1] \in LanguageIds(b)
         /\ NextString(b)[2] \in StringIndices(b)
         /\ NextString(b)[1] \in Nat /\ NextString(b)[2] \in Nat \ {0}
         /\ \A k \in 2 .. Len(b.strings) :
               ~ (/\ b.strings[k].language = NextString(b)[1]
                  /\ b.strings[k].index = NextString(b)[2])
<1>1. \E p \in PendingStrings(b) : \A q \in PendingStrings(b) :
         p[1] < q[1] \/ (p[1] = q[1] /\ p[2] <= q[2])
  BY PendingType, LeastPair
<1>2. NextString(b) \in PendingStrings(b)
  BY <1>1 DEF NextString
<1>3. NextString(b) \in LanguageIds(b) \X StringIndices(b)
         /\ NextString(b) \notin SeenStrings(b)
  BY <1>2 DEF PendingStrings
<1>4. NextString(b) = <<NextString(b)[1], NextString(b)[2]>>
  BY <1>3
<1>5. NextString(b)[1] \in LanguageIds(b) /\ NextString(b)[2] \in StringIndices(b)
  BY <1>3
<1>6. \A k \in 2 .. Len(b.strings) :
         <<b.strings[k].language, b.strings[k].index>> # NextString(b)
  BY <1>3 DEF SeenStrings
<1> QED
  BY <1>2, <1>4, <1>5, <1>6, PendingType

\* A pending string is read: it is now there once, and when no other is
\* pending all are there.
LEMMA StringIsRead ==
  ASSUME NEW b \in Bundles, LanguagesFirst(b), ReadOnce(b), b.microsoft = <<>>,
         PendingStrings(b) # {}, NEW form \in Forms,
         NEW c, c = [b EXCEPT !.strings = Append(b.strings,
                        StringDescriptor(NextString(b)[2], NextString(b)[1],
                                         form))]
  PROVE  /\ c \in Bundles /\ c.microsoft = <<>>
         /\ LanguagesFirst(c) /\ ReadOnce(c)
<1> DEFINE d == StringDescriptor(NextString(b)[2], NextString(b)[1], form)
           s == Append(b.strings, d)
           n == Len(b.strings)
<1>1. /\ d \in StringDescriptors /\ d.index = NextString(b)[2]
      /\ d.language = NextString(b)[1]
  BY NextIsPending, StringDescriptorType
<1> HIDE DEF d
<1>2. /\ s \in Seq(StringDescriptors) /\ Len(s) = n + 1 /\ n \in Nat
      /\ \A k \in 1 .. n : s[k] = b.strings[k]
      /\ s[n + 1] = d
  BY <1>1, BundleFields
<1>3. /\ c \in Bundles /\ c.device = b.device /\ c.config = b.config
      /\ c.strings = s /\ c.microsoft = <<>>
  BY <1>2, SetField DEF d
<1>4. n >= 1
  BY BundleFields DEF LanguagesFirst
<1> HIDE DEF s
<1>5. /\ c.strings # <<>> /\ c.strings[1] = b.strings[1]
      /\ Len(c.strings) = n + 1
  BY <1>2, <1>3, <1>4
<1>6. LanguageIds(c) = LanguageIds(b) /\ StringIndices(c) = StringIndices(b)
  BY <1>3, <1>5 DEF LanguageIds, StringIndices, DeviceNames
<1>7. \A k \in 2 .. n + 1 : k \in 2 .. n \/ k = n + 1
  BY <1>4
<1>8. LanguagesFirst(c)
  <2>1. \A k \in 2 .. n + 1 : c.strings[k].index # 0
    BY <1>1, <1>2, <1>3, <1>7, NextIsPending DEF LanguagesFirst
  <2> QED
    BY <1>5, <2>1 DEF LanguagesFirst
<1>9. LastRead(c) = n + 1 /\ LastRead(b) = n
  BY <1>3, <1>5 DEF LastRead
<1>10. ReadOnce(c)
  <2>1. \A k \in 2 .. n + 1 :
           /\ c.strings[k].language \in LanguageIds(c)
           /\ c.strings[k].index \in StringIndices(c)
    BY <1>1, <1>2, <1>3, <1>6, <1>7, <1>9, NextIsPending DEF ReadOnce
  <2>2. \A j, k \in 2 .. n + 1 :
           (/\ c.strings[j].language = c.strings[k].language
            /\ c.strings[j].index = c.strings[k].index) => j = k
    BY <1>1, <1>2, <1>3, <1>7, <1>9, NextIsPending DEF ReadOnce
  <2> QED
    BY <1>3, <1>9, <2>1, <2>2 DEF ReadOnce
<1> QED
  BY <1>3, <1>8, <1>10

\* What refers to strings does not change any more, and the Microsoft OS
\* string is appended once or not at all.
LEMMA ReadAllWhenNonePending ==
  ASSUME NEW b \in Bundles, b.microsoft = <<>>, PendingStrings(b) = {}
  PROVE  ReadAll(b)
<1> SUFFICES ASSUME NEW l \in LanguageIds(b), NEW i \in StringIndices(b)
             PROVE  \E k \in 2 .. Len(b.strings) :
                       b.strings[k].language = l /\ b.strings[k].index = i
  BY DEF ReadAll, LastRead
<1>1. <<l, i>> \in SeenStrings(b)
  BY DEF PendingStrings
<1> QED
  BY <1>1 DEF SeenStrings

\* What is known of the strings depends on four fields of the bundle only.
LEMMA SameStrings ==
  ASSUME NEW b, NEW c, c.strings = b.strings, c.device = b.device,
         c.config = b.config, c.microsoft = <<>> <=> b.microsoft = <<>>
  PROVE  /\ LanguagesFirst(c) <=> LanguagesFirst(b)
         /\ ReadOnce(c) <=> ReadOnce(b)
         /\ ReadAll(c) <=> ReadAll(b)
<1>1. LastRead(c) = LastRead(b)
  BY DEF LastRead
<1>2. LanguageIds(c) = LanguageIds(b) /\ StringIndices(c) = StringIndices(b)
  BY DEF LanguageIds, StringIndices, DeviceNames
<1> QED
  BY <1>1, <1>2 DEF LanguagesFirst, ReadOnce, ReadAll

\* The Microsoft OS string goes after the strings that were read, and leaves
\* what is known of those as it was.
LEMMA OsStringIsAppended ==
  ASSUME NEW b \in Bundles, LanguagesFirst(b), ReadOnce(b), ReadAll(b),
         b.microsoft = <<>>, NEW vendor \in Nat,
         NEW c, c = [b EXCEPT
                        !.strings = Append(b.strings,
                            StringDescriptor(OsString, 0, "text")),
                        !.microsoft = <<Microsoft(vendor)>>]
  PROVE  /\ c \in Bundles /\ c.microsoft # <<>>
         /\ LanguagesFirst(c) /\ ReadOnce(c) /\ ReadAll(c)
<1> DEFINE d == StringDescriptor(OsString, 0, "text")
           s == Append(b.strings, d)
           m == <<Microsoft(vendor)>>
           n == Len(b.strings)
<1>1. d \in StringDescriptors /\ d.index = OsString /\ d.language = 0
  <2>1. OsString \in Nat /\ 0 \in Nat /\ "text" \in Forms
    BY SizesAreNaturals DEF Forms
  <2> QED
    BY <2>1, StringDescriptorType
<1>2. m \in AtMostOne(MicrosoftOs) /\ m # <<>>
  <2> DEFINE x == Microsoft(vendor)
  <2>1. x \in MicrosoftOs
    BY MicrosoftType
  <2> HIDE DEF x
  <2>2. <<x>> \in AtMostOne(MicrosoftOs) /\ <<x>> # <<>>
    BY <2>1, OptionType
  <2> QED
    BY <2>2 DEF x
<1> HIDE DEF d, m
<1>3. /\ s \in Seq(StringDescriptors) /\ Len(s) = n + 1 /\ n \in Nat
      /\ \A k \in 1 .. n : s[k] = b.strings[k]
      /\ s[n + 1] = d
  BY <1>1, BundleFields
<1> HIDE DEF s
<1>4. /\ c \in Bundles /\ c.device = b.device /\ c.config = b.config
      /\ c.strings = s /\ c.microsoft = m
  <2>1. c = [[b EXCEPT !.strings = s] EXCEPT !.microsoft = m]
    BY DEF s, d, m
  <2> DEFINE e == [b EXCEPT !.strings = s]
  <2>2. e \in Bundles /\ e.device = b.device /\ e.config = b.config /\ e.strings = s
    BY <1>3, SetField
  <2> HIDE DEF e
  <2>3. c = [e EXCEPT !.microsoft = m]
    BY <2>1 DEF e
  <2>4. LET f == [e EXCEPT !.microsoft = m]
        IN  /\ f \in Bundles /\ f.device = e.device /\ f.config = e.config
            /\ f.strings = e.strings /\ f.microsoft = m
    BY <1>2, <2>2, SetField
  <2> QED
    BY <2>2, <2>3, <2>4
<1>5. n >= 1
  BY BundleFields DEF LanguagesFirst
<1>6. /\ c.strings # <<>> /\ c.strings[1] = b.strings[1]
      /\ Len(c.strings) = n + 1
  BY <1>3, <1>4, <1>5
<1>7. LanguageIds(c) = LanguageIds(b) /\ StringIndices(c) = StringIndices(b)
  BY <1>4, <1>6 DEF LanguageIds, StringIndices, DeviceNames
<1>8. \A k \in 2 .. n + 1 : k \in 2 .. n \/ k = n + 1
  BY <1>5
<1>9. LanguagesFirst(c)
  <2>1. \A k \in 2 .. n + 1 : c.strings[k].index # 0
    BY <1>1, <1>3, <1>4, <1>8, SizesAreNaturals DEF LanguagesFirst
  <2> QED
    BY <1>6, <2>1 DEF LanguagesFirst
<1>10. LastRead(c) = n /\ LastRead(b) = n
  BY <1>2, <1>3, <1>4, <1>6 DEF LastRead
<1>11. \A k \in 2 .. n : c.strings[k] = b.strings[k]
  BY <1>3, <1>4
<1>12. c.strings[n + 1].language = 0 /\ c.strings[n + 1].index = OsString
  BY <1>1, <1>3, <1>4
<1>13. ReadOnce(c)
  BY <1>5, <1>6, <1>7, <1>10, <1>11, <1>12 DEF ReadOnce
<1>14. ReadAll(c)
  BY <1>7, <1>10, <1>11 DEF ReadAll
<1> QED
  BY <1>2, <1>4, <1>9, <1>13, <1>14

(***************************************************************************)
(* The transfers keep it.                                                  *)
(***************************************************************************)
DiscoveryKept ==
    /\ phase' \in Discovering \cup {"abandoned", "found"}
    /\ bundle' \in Bundles
    /\ left' \in SUBSET Nat
    /\ Known(phase', bundle')
    /\ phase' = "properties" => left' # {}
    /\ phase' = "found" =>
          /\ Finishes(bundle') /\ LanguagesFirst(bundle')
          /\ ReadOnce(bundle') /\ ReadAll(bundle')

\* A discovery ends without a bundle.
LEMMA Abandons ==
  ASSUME PipelineTypeOK, phase' = "abandoned", UNCHANGED bundle,
         left' \in SUBSET Nat
  PROVE  DiscoveryKept
  BY DEF PipelineTypeOK, DiscoveryKept, Known, Beginning, WithLanguages,
         WithStrings

\* A discovery goes on, with what its new phase demands.
LEMMA GoesOnWith ==
  ASSUME NEW b, NEW p, phase' = p, bundle' = b, b \in Bundles, Known(p, b),
         p \in Discovering, p # "properties", left' \in SUBSET Nat
  PROVE  DiscoveryKept
<1>1. p # "found"
  BY DEF Discovering, Beginning, WithLanguages, WithStrings
<1> QED
  BY <1>1 DEF DiscoveryKept

\* The reply to device: nothing is known of the strings yet.
LEMMA AskDeviceKeeps ==
  ASSUME PipelineTypeOK, DiscoveryInv, AskDevice  PROVE DiscoveryKept
<1>1. PICK r \in Replies("device") :
         Proceed(r.valid /\ r.configurations = 1, "languages",
                 [bundle EXCEPT !.device = r])
  BY DEF AskDevice
<1>2. left' \in SUBSET Nat
  BY DEF AskDevice, PipelineTypeOK
<1> DEFINE b == [bundle EXCEPT !.device = r]
<1>3. /\ b \in Bundles /\ b.strings = bundle.strings
      /\ b.microsoft = bundle.microsoft
  BY RepliesHaveTypes, SetField DEF PipelineTypeOK
<1>4. bundle.strings = <<>> /\ bundle.microsoft = <<>>
  BY DEF AskDevice, DiscoveryInv, Known, Beginning
<1> HIDE DEF b
<1>5. Known("languages", b)
  BY <1>3, <1>4 DEF Known, WithLanguages, WithStrings
<1>6. \/ phase' = "languages" /\ bundle' = b
      \/ phase' = "abandoned" /\ UNCHANGED bundle
  BY <1>1 DEF Proceed, b
<1> QED
  BY <1>2, <1>3, <1>5, <1>6, Abandons, GoesOnWith DEF Discovering, Beginning

\* The reply to languages becomes the first string descriptor.
LEMMA AskLanguagesKeeps ==
  ASSUME PipelineTypeOK, DiscoveryInv, AskLanguages  PROVE DiscoveryKept
<1>1. PICK r \in Replies("languages") :
         Proceed(r # <<>>, "header",
                 [bundle EXCEPT !.strings = <<LanguageDescriptor(r)>>])
  BY DEF AskLanguages
<1>2. left' \in SUBSET Nat
  BY DEF AskLanguages, PipelineTypeOK
<1>3. bundle.microsoft = <<>>
  BY DEF AskLanguages, DiscoveryInv, Known, Beginning
<1> DEFINE d == LanguageDescriptor(r)
           s == <<d>>
           b == [bundle EXCEPT !.strings = s]
<1>4. /\ d \in StringDescriptors /\ d.index = 0 /\ d.language = 0
      /\ d.form = "languages" /\ d.ids = r
  BY RepliesHaveTypes, StringDescriptorType
<1> HIDE DEF d
<1>5. s \in Seq(StringDescriptors) /\ Len(s) < 2 /\ s[1] = d /\ s # <<>>
  BY <1>4
<1> HIDE DEF s
<1>6. b \in Bundles /\ b.strings = s /\ b.microsoft = <<>>
  BY <1>3, <1>5, SetField DEF PipelineTypeOK
<1> HIDE DEF b
<1>7. ASSUME r # <<>>  PROVE Known("header", b)
  <2>1. 2 .. Len(b.strings) = {}
    BY <1>5, <1>6
  <2>2. LanguagesFirst(b)
    BY <1>4, <1>5, <1>6, <1>7, <2>1 DEF LanguagesFirst
  <2> QED
    BY <1>5, <1>6, <2>2 DEF Known, Beginning, WithStrings
<1>8. \/ r # <<>> /\ phase' = "header" /\ bundle' = b
      \/ phase' = "abandoned" /\ UNCHANGED bundle
  BY <1>1 DEF Proceed, b, s, d
<1> QED
  BY <1>2, <1>6, <1>7, <1>8, Abandons, GoesOnWith DEF Discovering, WithLanguages

\* The reply to header changes nothing that is remembered.
LEMMA AskHeaderKeeps ==
  ASSUME PipelineTypeOK, DiscoveryInv, AskHeader  PROVE DiscoveryKept
<1>1. \/ phase' = "config" /\ bundle' = bundle
      \/ phase' = "abandoned" /\ UNCHANGED bundle
  BY DEF AskHeader, Proceed
<1>2. left' \in SUBSET Nat /\ bundle \in Bundles
  BY DEF AskHeader, PipelineTypeOK
<1>3. Known("config", bundle)
  BY DEF AskHeader, DiscoveryInv, Known, WithLanguages, Beginning, WithStrings
<1> QED
  BY <1>1, <1>2, <1>3, Abandons, GoesOnWith DEF Discovering, WithLanguages

\* What discover goes on with after the configuration and after each string.
LEMMA AfterStringsKnown ==
  ASSUME NEW b \in Bundles, LanguagesFirst(b), ReadOnce(b), b.microsoft = <<>>
  PROVE  Known(AfterStrings(b), b) /\ AfterStrings(b) \in {"osString", "strings"}
<1>1. CASE PendingStrings(b) = {}
  <2>1. ReadAll(b)
    BY <1>1, ReadAllWhenNonePending
  <2>2. AfterStrings(b) = "osString"
    BY <1>1 DEF AfterStrings
  <2> QED
    BY <2>1, <2>2 DEF Known, Beginning, WithLanguages
<1>2. CASE PendingStrings(b) # {}
  <2>1. AfterStrings(b) = "strings"
    BY <1>2 DEF AfterStrings
  <2> QED
    BY <1>2, <2>1 DEF Known, Beginning, WithLanguages, WithStrings
<1> QED
  BY <1>1, <1>2

\* With the configuration the strings to be read are known; there may be none.
LEMMA AskConfigurationKeeps ==
  ASSUME PipelineTypeOK, DiscoveryInv, AskConfiguration  PROVE DiscoveryKept
<1>1. PICK r \in Replies("config") :
         \/ /\ phase' = AfterStrings([bundle EXCEPT !.config = r])
            /\ bundle' = [bundle EXCEPT !.config = r]
         \/ phase' = "abandoned" /\ UNCHANGED bundle
  BY DEF AskConfiguration, Proceed
<1>2. left' \in SUBSET Nat
  BY DEF AskConfiguration, PipelineTypeOK
<1>3. /\ Len(bundle.strings) < 2 /\ LanguagesFirst(bundle)
      /\ bundle.microsoft = <<>>
  BY DEF AskConfiguration, DiscoveryInv, Known, WithLanguages
<1> DEFINE b == [bundle EXCEPT !.config = r]
<1>4. /\ b \in Bundles /\ b.strings = bundle.strings
      /\ b.microsoft = <<>>
  BY <1>3, RepliesHaveTypes, SetField DEF PipelineTypeOK
<1> HIDE DEF b
<1>5. LanguagesFirst(b)
  BY <1>3, <1>4 DEF LanguagesFirst
<1>6. ReadOnce(b)
  <2>1. LastRead(b) = Len(bundle.strings)
    BY <1>4 DEF LastRead
  <2>2. Len(bundle.strings) \in Nat
    BY BundleFields DEF PipelineTypeOK
  <2>3. 2 .. LastRead(b) = {}
    BY <1>3, <2>1, <2>2
  <2> QED
    BY <1>4, <2>3 DEF ReadOnce
<1> QED
  BY <1>1, <1>2, <1>4, <1>5, <1>6, AfterStringsKnown, Abandons, GoesOnWith
     DEF b, Discovering, WithStrings

\* One string more is read, and it was not read before.
LEMMA AskStringKeeps ==
  ASSUME PipelineTypeOK, DiscoveryInv, AskString  PROVE DiscoveryKept
<1> DEFINE b(form) == [bundle EXCEPT !.strings = Append(bundle.strings,
                StringDescriptor(NextString(bundle)[2], NextString(bundle)[1],
                                 form))]
<1>1. PICK form \in Replies("strings") :
         \/ form # "invalid" /\ phase' = AfterStrings(b(form))
                             /\ bundle' = b(form)
         \/ phase' = "abandoned" /\ UNCHANGED bundle
  BY DEF AskString, Proceed
<1>2. left' \in SUBSET Nat /\ bundle \in Bundles
  BY DEF AskString, PipelineTypeOK
<1>3. /\ LanguagesFirst(bundle) /\ bundle.microsoft = <<>>
      /\ ReadOnce(bundle) /\ PendingStrings(bundle) # {}
  BY DEF AskString, DiscoveryInv, Known
<1>4. ASSUME form # "invalid"
      PROVE  /\ b(form) \in Bundles /\ b(form).microsoft = <<>>
             /\ LanguagesFirst(b(form)) /\ ReadOnce(b(form))
  <2>1. form \in Forms
    BY <1>4, RepliesHaveTypes DEF Forms
  <2> QED
    BY <1>2, <1>3, <2>1, StringIsRead
<1> HIDE DEF b
<1> QED
  BY <1>1, <1>2, <1>4, AfterStringsKnown, Abandons, GoesOnWith
     DEF Discovering, WithStrings

\* After the strings only the options of the bundle change.
LEMMA KnownWithStrings ==
  ASSUME NEW b, LanguagesFirst(b), ReadOnce(b), ReadAll(b),
         NEW p \in WithStrings \ {"osString"},
         p \in {"compat", "properties"} => b.microsoft # <<>>,
         p \in {"setConfig", "url"} => b.webusb # <<>>
  PROVE  Known(p, b) /\ p \in Discovering
  BY DEF Known, Beginning, WithLanguages, WithStrings, Discovering

\* Behind the strings, all of them have been read.
LEMMA KnownSoFar ==
  ASSUME PipelineTypeOK, DiscoveryInv, phase \in WithStrings
  PROVE  /\ bundle \in Bundles /\ LanguagesFirst(bundle)
         /\ ReadOnce(bundle) /\ ReadAll(bundle)
  BY DEF PipelineTypeOK, DiscoveryInv, Known

\* The Microsoft requests lead to BOS, or to the end.
LEMMA AfterMicrosoftPhase ==
  \A b : AfterMicrosoft(b) \in {"bosHeader", "finish"}
  BY DEF AfterMicrosoft

\* The reply to osString brings the capability with its string, or nothing.
LEMMA AskOsStringKeeps ==
  ASSUME PipelineTypeOK, DiscoveryInv, AskOsString  PROVE DiscoveryKept
<1> DEFINE b(vendor) == [bundle EXCEPT
                !.strings = Append(bundle.strings,
                    StringDescriptor(OsString, 0, "text")),
                !.microsoft = <<Microsoft(vendor)>>]
<1>1. PICK r \in Replies("osString") :
         \/ phase' = AfterMicrosoft(bundle) /\ bundle' = bundle
         \/ phase' = "compat" /\ bundle' = b(r.vendor)
         \/ phase' = "abandoned" /\ UNCHANGED bundle
  BY DEF AskOsString, Proceed
<1>2. left' \in SUBSET Nat
  BY DEF AskOsString, PipelineTypeOK
<1>3. /\ bundle \in Bundles /\ LanguagesFirst(bundle)
      /\ ReadOnce(bundle) /\ ReadAll(bundle)
  BY KnownSoFar DEF AskOsString, WithStrings
<1>4. bundle.microsoft = <<>>
  BY DEF AskOsString, DiscoveryInv, Known
<1>5. r.vendor \in Nat
  BY RepliesHaveTypes
<1>6. /\ b(r.vendor) \in Bundles /\ b(r.vendor).microsoft # <<>>
      /\ LanguagesFirst(b(r.vendor)) /\ ReadOnce(b(r.vendor))
      /\ ReadAll(b(r.vendor))
  BY <1>3, <1>4, <1>5, OsStringIsAppended
<1> HIDE DEF b
<1>7. CASE phase' = AfterMicrosoft(bundle) /\ bundle' = bundle
  <2>1. AfterMicrosoft(bundle) \in {"bosHeader", "finish"}
    BY AfterMicrosoftPhase
  <2>2. /\ Known(AfterMicrosoft(bundle), bundle)
        /\ AfterMicrosoft(bundle) \in Discovering
    BY <1>3, <2>1, KnownWithStrings DEF WithStrings
  <2> QED
    BY <1>2, <1>3, <1>7, <2>1, <2>2, GoesOnWith
<1>8. CASE phase' = "compat" /\ bundle' = b(r.vendor)
  <2>1. Known("compat", b(r.vendor)) /\ "compat" \in Discovering
    BY <1>6, KnownWithStrings DEF WithStrings
  <2> QED
    BY <1>2, <1>6, <1>8, <2>1, GoesOnWith
<1> QED
  BY <1>1, <1>2, <1>7, <1>8, Abandons

\* The options of a bundle change.
LEMMA SetOptions ==
  ASSUME NEW b \in Bundles, LanguagesFirst(b), ReadOnce(b), ReadAll(b)
  PROVE  /\ b.microsoft # <<>> =>
               \A compat \in Seq(CompatibleIds) :
                  LET c == [b EXCEPT !.microsoft[1].compat = compat]
                  IN  /\ c \in Bundles /\ c.microsoft # <<>>
                      /\ LanguagesFirst(c) /\ ReadOnce(c) /\ ReadAll(c)
         /\ b.microsoft # <<>> =>
               \A more \in Seq(RegistryProperties) :
                  LET c == [b EXCEPT !.microsoft[1].properties = @ \o more]
                  IN  /\ c \in Bundles /\ c.microsoft # <<>>
                      /\ LanguagesFirst(c) /\ ReadOnce(c) /\ ReadAll(c)
         /\ \A w \in WebUsbs :
               LET c == [b EXCEPT !.webusb = <<w>>]
               IN  /\ c \in Bundles /\ c.webusb # <<>>
                   /\ LanguagesFirst(c) /\ ReadOnce(c) /\ ReadAll(c)
         /\ b.webusb # <<>> =>
               \A page \in Pages :
                  LET c == [b EXCEPT !.webusb[1].page = page]
                  IN  /\ c \in Bundles /\ c.webusb # <<>>
                      /\ LanguagesFirst(c) /\ ReadOnce(c) /\ ReadAll(c)
<1>1. ASSUME b.microsoft # <<>>, NEW m \in MicrosoftOs,
             NEW c, c = [b EXCEPT !.microsoft = [b.microsoft EXCEPT ![1] = m]]
      PROVE  /\ c \in Bundles /\ c.microsoft # <<>>
             /\ LanguagesFirst(c) /\ ReadOnce(c) /\ ReadAll(c)
  <2> DEFINE ms == [b.microsoft EXCEPT ![1] = m]
  <2>1. ms \in AtMostOne(MicrosoftOs) /\ ms # <<>>
    <3>1. b.microsoft \in AtMostOne(MicrosoftOs)
      BY BundleFields
    <3>2. ms = <<m>>
      BY <1>1, <3>1, OptionType, Zenon
    <3> HIDE DEF ms
    <3> QED
      BY <3>2, OptionType, Zenon
  <2> HIDE DEF ms
  <2>2. /\ c \in Bundles /\ c.strings = b.strings /\ c.device = b.device
        /\ c.config = b.config /\ c.microsoft = ms
    <3>1. c = [b EXCEPT !.microsoft = ms]
      BY <1>1 DEF ms
    <3> QED
      BY <2>1, <3>1, SetField
  <2> QED
    BY <1>1, <2>1, <2>2, SameStrings
<1>2. b.microsoft # <<>> => b.microsoft[1] \in MicrosoftOs
  <2>1. \E m : m \in MicrosoftOs
    BY MicrosoftType, 0 \in Nat
  <2> QED
    BY <2>1, OptionType, BundleFields
<1>3. ASSUME b.microsoft # <<>>, NEW compat \in Seq(CompatibleIds),
             NEW c, c = [b EXCEPT !.microsoft[1].compat = compat]
      PROVE  /\ c \in Bundles /\ c.microsoft # <<>>
             /\ LanguagesFirst(c) /\ ReadOnce(c) /\ ReadAll(c)
  <2> DEFINE m == [b.microsoft[1] EXCEPT !.compat = compat]
  <2>1. m \in MicrosoftOs
    BY <1>2, <1>3 DEF MicrosoftOs
  <2>2. c = [b EXCEPT !.microsoft = [b.microsoft EXCEPT ![1] = m]]
    BY <1>3
  <2> HIDE DEF m
  <2> QED
    BY <1>1, <1>3, <2>1, <2>2
<1>4. ASSUME b.microsoft # <<>>, NEW more \in Seq(RegistryProperties),
             NEW c, c = [b EXCEPT !.microsoft[1].properties = @ \o more]
      PROVE  /\ c \in Bundles /\ c.microsoft # <<>>
             /\ LanguagesFirst(c) /\ ReadOnce(c) /\ ReadAll(c)
  <2> DEFINE all == b.microsoft[1].properties \o more
             m == [b.microsoft[1] EXCEPT !.properties = all]
  <2>1. m \in MicrosoftOs
    <3>1. b.microsoft[1].properties \in Seq(RegistryProperties)
      BY <1>2, <1>4 DEF MicrosoftOs
    <3>2. all \in Seq(RegistryProperties)
      BY <1>4, <3>1
    <3> HIDE DEF all
    <3> QED
      BY <1>2, <1>4, <3>2 DEF MicrosoftOs
  <2>2. c = [b EXCEPT !.microsoft = [b.microsoft EXCEPT ![1] = m]]
    BY <1>4
  <2> HIDE DEF m
  <2> QED
    BY <1>1, <1>4, <2>1, <2>2
<1>5. ASSUME NEW w \in WebUsbs, NEW c, c = [b EXCEPT !.webusb = <<w>>]
      PROVE  /\ c \in Bundles /\ c.webusb # <<>>
             /\ LanguagesFirst(c) /\ ReadOnce(c) /\ ReadAll(c)
  <2> DEFINE ws == <<w>>
  <2>1. ws \in AtMostOne(WebUsbs) /\ ws # <<>>
    BY OptionType
  <2>2. c = [b EXCEPT !.webusb = ws]
    BY <1>5
  <2> HIDE DEF ws
  <2>3. /\ c \in Bundles /\ c.strings = b.strings /\ c.device = b.device
        /\ c.config = b.config /\ c.microsoft = b.microsoft /\ c.webusb = ws
    BY <2>1, <2>2, SetField
  <2> QED
    BY <2>1, <2>3, SameStrings
<1>6. ASSUME b.webusb # <<>>, NEW page \in Pages,
             NEW c, c = [b EXCEPT !.webusb[1].page = page]
      PROVE  /\ c \in Bundles /\ c.webusb # <<>>
             /\ LanguagesFirst(c) /\ ReadOnce(c) /\ ReadAll(c)
  <2> DEFINE w == [b.webusb[1] EXCEPT !.page = page]
  <2>1. b.webusb[1] \in WebUsbs
    <3>1. [version |-> "", vendor |-> 0, page |-> page] \in WebUsbs
      BY DEF WebUsbs, Versions
    <3> QED
      BY <1>6, <3>1, OptionType, BundleFields
  <2>2. w \in WebUsbs
    BY <2>1 DEF WebUsbs
  <2>3. c = [b EXCEPT !.webusb = [b.webusb EXCEPT ![1] = w]]
    BY <1>6
  <2> HIDE DEF w
  <2>4. [b.webusb EXCEPT ![1] = w] = <<w>>
    <3>1. b.webusb \in AtMostOne(WebUsbs)
      BY BundleFields
    <3> QED
      BY <1>6, <2>2, <3>1, OptionType, Zenon
  <2>5. c = [b EXCEPT !.webusb = <<w>>]
    BY <2>3, <2>4
  <2> QED
    BY <1>5, <2>2, <2>5
<1> QED
  BY <1>3, <1>4, <1>5, <1>6

\* The reply to compat fills the capability and says whom to ask for properties.
LEMMA AskCompatibleIdsKeeps ==
  ASSUME PipelineTypeOK, DiscoveryInv, AskCompatibleIds  PROVE DiscoveryKept
<1> DEFINE numbers == Interfaces(bundle.config.body)
           b(entries) == [bundle EXCEPT !.microsoft[1].compat = entries]
<1>1. PICK r \in Replies("compat") :
         \/ /\ phase' = AfterCompat(bundle, numbers) /\ bundle' = bundle
         \/ /\ phase' = AfterCompat(bundle, numbers) /\ bundle' = b(r.entries)
         \/ phase' = "abandoned" /\ UNCHANGED bundle
  BY DEF AskCompatibleIds, Proceed
<1>2. left' = numbers /\ phase = "compat"
  BY DEF AskCompatibleIds
<1>3. numbers \in SUBSET Nat
  <2>1. \A k \in DOMAIN bundle.config.body :
           bundle.config.body[k] \in Descriptors
    BY BundleFields DEF PipelineTypeOK
  <2> QED
    BY <2>1 DEF Interfaces, Descriptors
<1>4. /\ bundle \in Bundles /\ LanguagesFirst(bundle)
      /\ ReadOnce(bundle) /\ ReadAll(bundle) /\ bundle.microsoft # <<>>
  BY <1>2, KnownSoFar DEF WithStrings, DiscoveryInv, Known
<1>5. r.entries \in Seq(CompatibleIds)
  BY RepliesHaveTypes
<1>6. /\ b(r.entries) \in Bundles /\ LanguagesFirst(b(r.entries))
      /\ ReadOnce(b(r.entries)) /\ ReadAll(b(r.entries))
      /\ b(r.entries).microsoft # <<>>
  BY <1>4, <1>5, SetOptions
<1>7. AfterCompat(bundle, numbers) \in {"bosHeader", "finish", "properties"}
         /\ (AfterCompat(bundle, numbers) = "properties" => numbers # {})
  BY AfterMicrosoftPhase DEF AfterCompat
<1> HIDE DEF b, numbers
<1>8. /\ Known(AfterCompat(bundle, numbers), bundle)
      /\ Known(AfterCompat(bundle, numbers), b(r.entries))
      /\ AfterCompat(bundle, numbers) \in Discovering
  BY <1>4, <1>6, <1>7, KnownWithStrings DEF WithStrings
<1> QED
  BY <1>1, <1>2, <1>3, <1>4, <1>6, <1>7, <1>8, Abandons DEF DiscoveryKept

\* The reply to properties is for the least interface that is left.
LEMMA AskPropertiesKeeps ==
  ASSUME PipelineTypeOK, DiscoveryInv, AskProperties  PROVE DiscoveryKept
<1> DEFINE i == Min(left)
           rest == left \ {i}
           asked(r) == [k \in DOMAIN r.entries |->
                          [interface |-> i, type |-> r.entries[k].type,
                           name |-> r.entries[k].name]]
           b(r) == [bundle EXCEPT !.microsoft[1].properties = @ \o asked(r)]
<1>1. PICK r \in Replies("properties") :
         \/ phase' = AfterCompat(bundle, rest) /\ bundle' = b(r)
         \/ phase' = "abandoned" /\ UNCHANGED bundle
  BY DEF AskProperties, Proceed
<1>2. left' = rest /\ phase = "properties"
  BY DEF AskProperties
<1>3. left \in SUBSET Nat /\ left # {}
  BY <1>2 DEF PipelineTypeOK, DiscoveryInv
<1>4. i \in left
  <2>1. \E n \in left : \A m \in left : n <= m
    BY <1>3, LeastNumber
  <2> QED
    BY <2>1 DEF Min
<1>5. rest \in SUBSET Nat /\ i \in Nat
  BY <1>3, <1>4
<1>6. /\ bundle \in Bundles /\ LanguagesFirst(bundle)
      /\ ReadOnce(bundle) /\ ReadAll(bundle) /\ bundle.microsoft # <<>>
  BY <1>2, KnownSoFar DEF WithStrings, DiscoveryInv, Known
<1>7. asked(r) \in Seq(RegistryProperties)
  <2>1. r.entries \in Seq([type : Nat, name : PropertyNames])
    BY RepliesHaveTypes
  <2> HIDE DEF i
  <2>2. \A k \in DOMAIN r.entries :
           [interface |-> i, type |-> r.entries[k].type,
            name |-> r.entries[k].name] \in RegistryProperties
    <3> TAKE k \in DOMAIN r.entries
    <3> DEFINE Entries == [type : Nat, name : PropertyNames]
    <3>1. r.entries[k] \in Entries
      <4> HIDE DEF Entries
      <4>1. r.entries \in Seq(Entries)
        BY <2>1 DEF Entries
      <4> QED
        BY <4>1
    <3>2. r.entries[k].type \in Nat /\ r.entries[k].name \in PropertyNames
      BY <3>1
    <3> QED
      BY <1>5, <3>2 DEF RegistryProperties
  <2>3. DOMAIN r.entries = 1 .. Len(r.entries) /\ Len(r.entries) \in Nat
    BY <2>1
  <2>4. asked(r) \in [1 .. Len(r.entries) -> RegistryProperties]
    BY <2>2, <2>3
  <2> QED
    BY <2>3, <2>4
<1> HIDE DEF asked
<1>8. /\ b(r) \in Bundles /\ LanguagesFirst(b(r)) /\ ReadOnce(b(r))
      /\ ReadAll(b(r)) /\ b(r).microsoft # <<>>
  BY <1>6, <1>7, SetOptions
<1>9. AfterCompat(bundle, rest) \in {"bosHeader", "finish", "properties"}
         /\ (AfterCompat(bundle, rest) = "properties" => rest # {})
  BY AfterMicrosoftPhase DEF AfterCompat
<1> HIDE DEF b, i, rest
<1>10. Known(AfterCompat(bundle, rest), b(r))
          /\ AfterCompat(bundle, rest) \in Discovering
  BY <1>8, <1>9, KnownWithStrings DEF WithStrings
<1> QED
  BY <1>1, <1>2, <1>5, <1>8, <1>9, <1>10, Abandons DEF DiscoveryKept

\* The reply to bosHeader changes nothing that is remembered.
LEMMA AskBosHeaderKeeps ==
  ASSUME PipelineTypeOK, DiscoveryInv, AskBosHeader  PROVE DiscoveryKept
<1>1. \/ phase' \in {"finish", "bos"} /\ bundle' = bundle
      \/ phase' = "abandoned" /\ UNCHANGED bundle
  BY DEF AskBosHeader, Proceed
<1>2. left' \in SUBSET Nat
  BY DEF AskBosHeader, PipelineTypeOK
<1>3. /\ bundle \in Bundles /\ LanguagesFirst(bundle)
      /\ ReadOnce(bundle) /\ ReadAll(bundle)
  BY KnownSoFar DEF AskBosHeader, WithStrings
<1>4. \A p \in {"finish", "bos"} : Known(p, bundle) /\ p \in Discovering
  BY <1>3, KnownWithStrings DEF WithStrings
<1> QED
  BY <1>1, <1>2, <1>3, <1>4, Abandons, GoesOnWith

\* The reply to bos brings WebUSB where the first capability that tells is one.
LEMMA AskBosKeeps ==
  ASSUME PipelineTypeOK, DiscoveryInv, AskBos  PROVE DiscoveryKept
<1> DEFINE telling(r) == {k \in DOMAIN r.capabilities :
                             r.capabilities[k].kind # "other"}
           first(r) == r.capabilities[Min(telling(r))]
           w(r) == WebUsb(first(r).version, first(r).vendor, "")
           b(r) == [bundle EXCEPT !.webusb = <<w(r)>>]
<1>1. PICK r \in Replies("bos") :
         \/ phase' = "finish" /\ bundle' = bundle
         \/ /\ telling(r) # {} /\ phase' \in {"setConfig", "finish"}
            /\ bundle' = b(r)
         \/ phase' = "abandoned" /\ UNCHANGED bundle
  BY DEF AskBos, Proceed
<1>2. left' \in SUBSET Nat
  BY DEF AskBos, PipelineTypeOK
<1>3. /\ bundle \in Bundles /\ LanguagesFirst(bundle)
      /\ ReadOnce(bundle) /\ ReadAll(bundle)
  BY KnownSoFar DEF AskBos, WithStrings
<1>4. ASSUME telling(r) # {}  PROVE w(r) \in WebUsbs
  <2>1. r.capabilities \in Seq([kind : {"other", "webusb", "broken"},
              version : Versions, vendor : Nat, landing : BOOLEAN])
    BY RepliesHaveTypes
  <2>2. telling(r) \in SUBSET Nat /\ telling(r) \subseteq DOMAIN r.capabilities
    BY <2>1
  <2>3. Min(telling(r)) \in telling(r)
    <3>1. \E n \in telling(r) : \A m \in telling(r) : n <= m
      BY <1>4, <2>2, LeastNumber
    <3> QED
      BY <3>1 DEF Min
  <2>4. first(r) \in [kind : {"other", "webusb", "broken"},
              version : Versions, vendor : Nat, landing : BOOLEAN]
    <3> DEFINE Capabilities == [kind : {"other", "webusb", "broken"},
                   version : Versions, vendor : Nat, landing : BOOLEAN]
               j == Min(telling(r))
    <3>1. j \in DOMAIN r.capabilities
      BY <2>2, <2>3
    <3> HIDE DEF j, Capabilities
    <3>2. r.capabilities \in Seq(Capabilities)
      BY <2>1 DEF Capabilities
    <3>3. r.capabilities[j] \in Capabilities
      BY <3>1, <3>2
    <3> QED
      BY <3>3 DEF j, Capabilities
  <2>5. "" \in Pages
    BY DEF Pages
  <2> HIDE DEF first
  <2> QED
    BY <2>4, <2>5 DEF WebUsb, WebUsbs
<1> HIDE DEF w, telling
<1>5. ASSUME telling(r) # {}
      PROVE  /\ b(r) \in Bundles /\ LanguagesFirst(b(r)) /\ ReadOnce(b(r))
             /\ ReadAll(b(r)) /\ b(r).webusb # <<>>
  BY <1>3, <1>4, <1>5, SetOptions
<1> HIDE DEF b
<1>6. ASSUME telling(r) # {}, NEW p \in {"setConfig", "finish"}
      PROVE  Known(p, b(r)) /\ p \in Discovering
  BY <1>5, <1>6, KnownWithStrings DEF WithStrings
<1>7. Known("finish", bundle) /\ "finish" \in Discovering
  BY <1>3, KnownWithStrings DEF WithStrings
<1> QED
  BY <1>1, <1>2, <1>3, <1>5, <1>6, <1>7, Abandons, GoesOnWith

\* The reply to setConfig changes nothing that is remembered.
LEMMA AskSetConfigurationKeeps ==
  ASSUME PipelineTypeOK, DiscoveryInv, AskSetConfiguration  PROVE DiscoveryKept
<1>1. \/ phase' = "url" /\ bundle' = bundle
      \/ phase' = "abandoned" /\ UNCHANGED bundle
  BY DEF AskSetConfiguration, Proceed
<1>2. left' \in SUBSET Nat
  BY DEF AskSetConfiguration, PipelineTypeOK
<1>3. /\ bundle \in Bundles /\ LanguagesFirst(bundle)
      /\ ReadOnce(bundle) /\ ReadAll(bundle)
  BY KnownSoFar DEF AskSetConfiguration, WithStrings
<1>4. bundle.webusb # <<>>
  BY DEF AskSetConfiguration, DiscoveryInv, Known
<1>5. Known("url", bundle) /\ "url" \in Discovering
  BY <1>3, <1>4, KnownWithStrings DEF WithStrings
<1> QED
  BY <1>1, <1>2, <1>3, <1>5, Abandons, GoesOnWith

\* The reply to url fills the page.
LEMMA AskUrlKeeps ==
  ASSUME PipelineTypeOK, DiscoveryInv, AskUrl  PROVE DiscoveryKept
<1> DEFINE b(page) == [bundle EXCEPT !.webusb[1].page = page]
<1>1. PICK r \in Replies("url") :
         \/ r # "invalid" /\ phase' = "finish" /\ bundle' = b(r)
         \/ phase' = "abandoned" /\ UNCHANGED bundle
  BY DEF AskUrl, Proceed
<1>2. left' \in SUBSET Nat
  BY DEF AskUrl, PipelineTypeOK
<1>3. /\ bundle \in Bundles /\ LanguagesFirst(bundle)
      /\ ReadOnce(bundle) /\ ReadAll(bundle)
  BY KnownSoFar DEF AskUrl, WithStrings
<1>4. bundle.webusb # <<>>
  BY DEF AskUrl, DiscoveryInv, Known
<1>5. ASSUME r # "invalid"
      PROVE  /\ b(r) \in Bundles /\ LanguagesFirst(b(r)) /\ ReadOnce(b(r))
             /\ ReadAll(b(r))
  <2>1. r \in Pages
    BY <1>5, RepliesHaveTypes
  <2> QED
    BY <1>3, <1>4, <2>1, SetOptions
<1> HIDE DEF b
<1>6. r # "invalid" => Known("finish", b(r)) /\ "finish" \in Discovering
  BY <1>5, KnownWithStrings DEF WithStrings
<1> QED
  BY <1>1, <1>2, <1>5, <1>6, Abandons, GoesOnWith

\* The end of discovery: a bundle that finishes is declared as it was read.
LEMMA FinishDiscoveryKeeps ==
  ASSUME PipelineTypeOK, DiscoveryInv, FinishDiscovery  PROVE DiscoveryKept
<1>1. \/ phase' = "found" /\ bundle' = bundle /\ Finishes(bundle)
      \/ phase' = "abandoned" /\ UNCHANGED bundle
  BY DEF FinishDiscovery, Proceed
<1>2. left' \in SUBSET Nat
  BY DEF FinishDiscovery, discoveryVars, PipelineTypeOK
<1>3. /\ bundle \in Bundles /\ LanguagesFirst(bundle)
      /\ ReadOnce(bundle) /\ ReadAll(bundle)
  BY KnownSoFar DEF FinishDiscovery, WithStrings
<1>4. Known("found", bundle)
  BY DEF Known, Beginning, WithLanguages, WithStrings
<1> QED
  BY <1>1, <1>2, <1>3, <1>4, Abandons DEF DiscoveryKept

\* Every transfer keeps what discover knows.
LEMMA DiscoverKeeps ==
  ASSUME PipelineTypeOK, DiscoveryInv, Discover
  PROVE  DiscoveryKept /\ phase \in Discovering
<1>1. DiscoveryKept
  BY AskDeviceKeeps, AskLanguagesKeeps, AskHeaderKeeps, AskConfigurationKeeps,
     AskStringKeeps, AskOsStringKeeps, AskCompatibleIdsKeeps,
     AskPropertiesKeeps, AskBosHeaderKeeps, AskBosKeeps,
     AskSetConfigurationKeeps, AskUrlKeeps, FinishDiscoveryKeeps
     DEF Discover
<1>2. phase \in Discovering
  BY DEF Discover, AskDevice, AskLanguages, AskHeader, AskConfiguration,
         AskString, AskOsString, AskCompatibleIds, AskProperties,
         AskBosHeader, AskBos, AskSetConfiguration, AskUrl, FinishDiscovery,
         Discovering, Beginning, WithLanguages, WithStrings
<1> QED
  BY <1>1, <1>2


(***************************************************************************)
(* The builder's calls keep it.                                            *)
(***************************************************************************)
\* One field of the builder is set.
LEMMA SetBuilder ==
  ASSUME NEW s \in AtMostOne(Builders), s # <<>>
  PROVE  /\ s[1] \in Builders
         /\ \A x \in {"text", "long"} :
               [s EXCEPT ![1].serial = x] \in AtMostOne(Builders)
         /\ \A x \in Seq({i \in NativeInterfaces : i.class # "null"}) :
               [s EXCEPT ![1].interfaces = x] \in AtMostOne(Builders)
         /\ \A x \in AtMostOne(MicrosoftOs) :
               [s EXCEPT ![1].microsoft = x] \in AtMostOne(Builders)
         /\ \A x \in AtMostOne(WebUsbs) :
               [s EXCEPT ![1].webusb = x] \in AtMostOne(Builders)
<1>1. s[1] \in Builders
  <2>1. s \in Seq(Builders) /\ 1 \in DOMAIN s
    BY DEF AtMostOne
  <2> HIDE DEF Builders
  <2> QED
    BY <2>1
<1>2. ASSUME NEW n \in Builders  PROVE [s EXCEPT ![1] = n] \in AtMostOne(Builders)
  BY OptionSet
<1>3. ASSUME NEW x \in {"text", "long"}
      PROVE  [s EXCEPT ![1].serial = x] \in AtMostOne(Builders)
  <2>1. [s[1] EXCEPT !.serial = x] \in Builders
    BY <1>1 DEF Builders
  <2> QED
    BY <1>2, <2>1
<1>4. ASSUME NEW x \in Seq({i \in NativeInterfaces : i.class # "null"})
      PROVE  [s EXCEPT ![1].interfaces = x] \in AtMostOne(Builders)
  <2>1. [s[1] EXCEPT !.interfaces = x] \in Builders
    BY <1>1 DEF Builders
  <2> QED
    BY <1>2, <2>1
<1>5. ASSUME NEW x \in AtMostOne(MicrosoftOs)
      PROVE  [s EXCEPT ![1].microsoft = x] \in AtMostOne(Builders)
  <2>1. [s[1] EXCEPT !.microsoft = x] \in Builders
    BY <1>1 DEF Builders
  <2> QED
    BY <1>2, <2>1
<1>6. ASSUME NEW x \in AtMostOne(WebUsbs)
      PROVE  [s EXCEPT ![1].webusb = x] \in AtMostOne(Builders)
  <2>1. [s[1] EXCEPT !.webusb = x] \in Builders
    BY <1>1 DEF Builders
  <2> QED
    BY <1>2, <2>1
<1> QED
  BY <1>1, <1>3, <1>4, <1>5, <1>6

\* A new builder has its type.
LEMMA NewBuilderKeeps ==
  ASSUME NewBuilder  PROVE builder' \in AtMostOne(Builders)
<1>1. PICK usb \in {"old", "new"}, texts \in {"text", "long"} :
         builder' = <<[usb |-> usb, serial |-> "text", texts |-> texts,
                       interfaces |-> <<>>, microsoft |-> <<>>,
                       webusb |-> <<>>]>>
  BY DEF NewBuilder
<1> DEFINE none == <<>>
           n == [usb |-> usb, serial |-> "text", texts |-> texts,
                 interfaces |-> none, microsoft |-> none, webusb |-> none]
<1>2. /\ none \in Seq({i \in NativeInterfaces : i.class # "null"})
      /\ none \in AtMostOne(MicrosoftOs) /\ none \in AtMostOne(WebUsbs)
  BY DEF AtMostOne
<1>3. builder' = <<n>>
  BY <1>1, Zenon
<1> HIDE DEF none
<1>4. n \in Builders
  BY <1>2 DEF Builders
<1> HIDE DEF n
<1> QED
  BY <1>3, <1>4, OptionType, Zenon

\* An interface that is added has its type, and is not null.
LEMMA AddInterfaceKeeps ==
  ASSUME builder \in AtMostOne(Builders), AddInterface
  PROVE  builder' \in AtMostOne(Builders)
<1> DEFINE Allowed == {i \in NativeInterfaces : i.class # "null"}
<1>1. PICK i \in Allowed :
         builder' = [builder EXCEPT ![1].interfaces =
                        Append(builder[1].interfaces, i)]
  BY DEF AddInterface
<1>2. builder # <<>>
  BY DEF AddInterface, HasBuilder
<1>3. builder[1].interfaces \in Seq(Allowed)
  BY <1>2, SetBuilder DEF Builders
<1> HIDE DEF Allowed
<1>4. Append(builder[1].interfaces, i) \in Seq(Allowed)
  BY <1>3
<1> QED
  BY <1>1, <1>2, <1>4, SetBuilder DEF Allowed

\* A capability that is inserted or extended has its type, also where the call
\* was refused half-way.
LEMMA AddMicrosoftCompatibleIdKeeps ==
  ASSUME builder \in AtMostOne(Builders), AddMicrosoftCompatibleId
  PROVE  builder' \in AtMostOne(Builders)
<1> DEFINE Added(vendor, interface, id) ==
              [Inserted(vendor) EXCEPT ![1].compat = Append(@,
                  [interface |-> interface, id |-> id])]
<1>1. PICK vendor \in 1 .. 2, interface \in 0 .. 1,
           id \in {"graphic", "blank", "long", "invalid"} :
         builder' = [builder EXCEPT ![1].microsoft =
            IF id = "invalid" THEN Inserted(vendor)
            ELSE Added(vendor, interface, id)]
  BY DEF AddMicrosoftCompatibleId
<1>2. HasBuilder /\ builder # <<>>
  BY Zenon DEF AddMicrosoftCompatibleId, HasBuilder
<1>3. builder[1].microsoft \in AtMostOne(MicrosoftOs)
  BY <1>2, SetBuilder DEF Builders
<1>4. Inserted(vendor) \in AtMostOne(MicrosoftOs) /\ Inserted(vendor) # <<>>
  <2>1. Microsoft(vendor) \in MicrosoftOs
    BY MicrosoftType
  <2>2. <<Microsoft(vendor)>> \in AtMostOne(MicrosoftOs)
           /\ <<Microsoft(vendor)>> # <<>>
    BY <2>1, OptionType, Zenon
  <2> QED
    BY <1>3, <2>2 DEF Inserted
<1>5. id # "invalid" => Added(vendor, interface, id) \in AtMostOne(MicrosoftOs)
  <2> SUFFICES ASSUME id # "invalid"
               PROVE  Added(vendor, interface, id) \in AtMostOne(MicrosoftOs)
    OBVIOUS
  <2> DEFINE old == Inserted(vendor)
             e == [interface |-> interface, id |-> id]
             all == Append(old[1].compat, e)
             m == [old[1] EXCEPT !.compat = all]
  <2>1. e \in CompatibleIds
    BY DEF CompatibleIds, Identifiers
  <2>2. old[1] \in MicrosoftOs
    BY <1>4, MicrosoftType, OptionType
  <2>3. all \in Seq(CompatibleIds)
    <3>1. old[1].compat \in Seq(CompatibleIds)
      BY <2>2 DEF MicrosoftOs
    <3> HIDE DEF old, e
    <3> QED
      BY <2>1, <3>1
  <2>4. Added(vendor, interface, id) = [old EXCEPT ![1] = m]
    OBVIOUS
  <2> HIDE DEF old, all
  <2>5. m \in MicrosoftOs
    BY <2>2, <2>3 DEF MicrosoftOs
  <2> HIDE DEF m
  <2>6. old \in AtMostOne(MicrosoftOs) /\ old # <<>>
    BY <1>4 DEF old
  <2> QED
    BY <2>4, <2>5, <2>6, OptionSet
<1> HIDE DEF Added
<1> QED
  BY <1>1, <1>2, <1>4, <1>5, SetBuilder

\* WebUSB that is set or cleared has its type.
LEMMA SetWebUsbKeeps ==
  ASSUME builder \in AtMostOne(Builders), SetWebUsb
  PROVE  builder' \in AtMostOne(Builders)
<1>1. builder # <<>>
  BY DEF SetWebUsb, HasBuilder
<1>2. <<>> \in AtMostOne(WebUsbs)
  BY DEF AtMostOne
<1>3. ASSUME NEW version \in {"1.0", "other"}, NEW vendor \in 0 .. 1,
             NEW page \in {"http", "other"}
      PROVE  <<WebUsb(version, vendor, page)>> \in AtMostOne(WebUsbs)
  <2>1. version \in Versions /\ vendor \in Nat /\ page \in Pages
    <3>1. version \in Versions /\ page \in Pages
      BY Zenon DEF Versions, Pages
    <3> QED
      BY <3>1
  <2>2. WebUsb(version, vendor, page) \in WebUsbs
    BY <2>1 DEF WebUsb, WebUsbs
  <2> QED
    BY <2>2, OptionType, Zenon
<1>4. CASE builder' = [builder EXCEPT ![1].webusb = <<>>]
  <2> DEFINE none == <<>>
  <2>1. none \in AtMostOne(WebUsbs) /\ builder' = [builder EXCEPT ![1].webusb = none]
    BY <1>2, <1>4
  <2> HIDE DEF none
  <2> QED
    BY <1>1, <2>1, SetBuilder
<1>5. ASSUME NEW version \in {"1.0", "other"}, NEW vendor \in 0 .. 1,
             NEW page \in {"http", "other"},
             builder' = [builder EXCEPT ![1].webusb =
                            <<WebUsb(version, vendor, page)>>]
      PROVE  builder' \in AtMostOne(Builders)
  <2> DEFINE w == <<WebUsb(version, vendor, page)>>
  <2>1. w \in AtMostOne(WebUsbs) /\ builder' = [builder EXCEPT ![1].webusb = w]
    BY <1>3, <1>5
  <2> HIDE DEF w
  <2> QED
    BY <1>1, <2>1, SetBuilder
<1> QED
  BY <1>4, <1>5 DEF SetWebUsb

\* A call leaves a builder, and the last one a bundle.
LEMMA NativeKeeps ==
  ASSUME PipelineTypeOK, DiscoveryInv, Native
  PROVE  /\ builder' \in AtMostOne(Builders)
         /\ \/ phase' = "building" /\ UNCHANGED bundle /\ phase = "building"
            \/ /\ phase' = "found" /\ bundle' \in Bundles
               /\ LanguagesFirst(bundle') /\ Finishes(bundle')
               /\ builder' # <<>>
<1> USE DEF PipelineTypeOK
<1>1. CASE NewBuilder
  BY <1>1, NewBuilderKeeps DEF NewBuilder, Called, bundleVars
<1>2. CASE AddInterface
  BY <1>2, AddInterfaceKeeps DEF AddInterface, Called, bundleVars
<1>3. CASE SetSerialNumber
  <2>1. PICK text \in {"text", "long"} :
           builder' = [builder EXCEPT ![1].serial = text]
    BY <1>3 DEF SetSerialNumber
  <2>2. builder # <<>> /\ phase = "building" /\ UNCHANGED bundleVars
    BY <1>3 DEF SetSerialNumber, Called, HasBuilder
  <2> QED
    BY <2>1, <2>2, SetBuilder DEF bundleVars
<1>4. CASE AddMicrosoftCompatibleId
  BY <1>4, AddMicrosoftCompatibleIdKeeps
     DEF AddMicrosoftCompatibleId, Called, bundleVars
<1>5. CASE SetWebUsb
  BY <1>5, SetWebUsbKeeps DEF SetWebUsb, Called, bundleVars
<1>6. CASE FinishNative
  <2>1. builder # <<>> /\ Assembles(builder[1]) /\ UNCHANGED builder
           /\ Finishes(NativeBundle(builder[1]))
           /\ phase' = "found" /\ bundle' = NativeBundle(builder[1])
    BY <1>6 DEF FinishNative, HasBuilder
  <2>2. builder[1] \in Builders
    BY <2>1, SetBuilder
  <2> QED
    BY <2>1, <2>2, NativeBundleType
<1> QED
  BY <1>1, <1>2, <1>3, <1>4, <1>5, <1>6 DEF Native

(***************************************************************************)
(* The invariant.                                                          *)
(***************************************************************************)
LEMMA PipelineInit == Init => PipelineInv
<1> SUFFICES ASSUME Init  PROVE PipelineInv
  OBVIOUS
<1> DEFINE none == <<>>
           device == [valid |-> FALSE, configurations |-> 0, usb |-> "old",
                      names |-> <<0, 0, 0>>]
           config == [consistent |-> FALSE, value |-> 0, name |-> 0,
                      body |-> none]
<1>1. bundle = [device |-> device, config |-> config, strings |-> none,
                microsoft |-> none, webusb |-> none]
  BY Zenon DEF Init, NoBundle
<1>2. /\ none \in Seq(Descriptors) /\ none \in Seq(StringDescriptors)
      /\ none \in AtMostOne(MicrosoftOs) /\ none \in AtMostOne(WebUsbs)
      /\ none \in AtMostOne(Builders) /\ builder = none
  BY DEF AtMostOne, Init
<1>3. device \in DeviceDescriptors
  BY DEF DeviceDescriptors
<1> HIDE DEF device
<1>4. bundle.strings = <<>> /\ bundle.microsoft = <<>> /\ builder = <<>>
  BY <1>1, <1>2 DEF none
<1> HIDE DEF none
<1>5. config \in Configurations
  BY <1>2 DEF Configurations
<1> HIDE DEF config
<1>6. bundle \in Bundles
  BY <1>1, <1>2, <1>3, <1>5 DEF Bundles
<1>7. phase \in {"device", "building"} /\ left = {}
  BY DEF Init
<1>8. PipelineTypeOK
  BY <1>2, <1>6, <1>7 DEF PipelineTypeOK, Discovering, Beginning
<1>9. DiscoveryInv
  BY <1>4, <1>7 DEF DiscoveryInv, Known, WithLanguages, WithStrings
<1>10. SourceInv /\ PublishInv
  BY <1>7 DEF SourceInv, PublishInv, Configuring
<1> QED
  BY <1>8, <1>9, <1>10 DEF PipelineInv

\* Discovery keeps the invariant.
LEMMA DiscoverStepKeeps ==
  ASSUME PipelineInv, DiscoverStep  PROVE PipelineInv'
<1>1. DiscoveryKept /\ phase \in Discovering
  BY DiscoverKeeps DEF PipelineInv, DiscoverStep
<1>2. builder' = builder /\ builder = <<>> /\ builder \in AtMostOne(Builders)
  BY <1>1 DEF PipelineInv, PipelineTypeOK, DiscoveryInv, DiscoverStep, nativeVars
<1>3. PipelineTypeOK'
  BY <1>1, <1>2 DEF PipelineTypeOK, DiscoveryKept, Configuring
<1>4. DiscoveryInv'
  BY <1>1, <1>2 DEF DiscoveryInv, DiscoveryKept
<1>5. phase' \in Configuring => phase' = "found"
  BY <1>1 DEF DiscoveryKept, Discovering, Beginning, WithLanguages, WithStrings,
              Configuring
<1>6. SourceInv'
  BY <1>1, <1>5 DEF SourceInv, DiscoveryKept
<1>7. PublishInv'
  BY <1>5 DEF PublishInv, Configuring
<1> QED
  BY <1>3, <1>4, <1>6, <1>7 DEF PipelineInv

\* The builder's calls keep the invariant.
LEMMA NativeStepKeeps ==
  ASSUME PipelineInv, NativeStep  PROVE PipelineInv'
<1>1. /\ builder' \in AtMostOne(Builders)
      /\ \/ phase' = "building" /\ UNCHANGED bundle /\ phase = "building"
         \/ /\ phase' = "found" /\ bundle' \in Bundles
            /\ LanguagesFirst(bundle') /\ Finishes(bundle')
            /\ builder' # <<>>
  BY NativeKeeps DEF PipelineInv, NativeStep
<1>2. left' = left
  BY DEF NativeStep, discoveryVars
<1>3. PipelineTypeOK'
  BY <1>1, <1>2 DEF PipelineInv, PipelineTypeOK, Configuring
<1>4. DiscoveryInv'
  BY <1>1 DEF PipelineInv, DiscoveryInv, Known, Discovering, Beginning,
              WithLanguages, WithStrings
<1>5. SourceInv'
  BY <1>1 DEF SourceInv, Configuring
<1>6. PublishInv'
  BY <1>1 DEF PublishInv
<1> QED
  BY <1>3, <1>4, <1>5, <1>6 DEF PipelineInv

\* What configure does keeps the invariant.
LEMMA SuperviseKeeps ==
  ASSUME PipelineInv, Supervise  PROVE PipelineInv'
<1>1. /\ phase \in Configuring /\ phase' \in Configuring \ {"found"}
      /\ UNCHANGED sourceVars
  BY DEF Supervise, ValidateConfiguration, ReplaceGeneration,
         PublishGeneration, Configuring
<1>2. /\ bundle' = bundle /\ builder' = builder /\ left' = left
  BY <1>1 DEF sourceVars
<1>3. PipelineTypeOK'
  BY <1>1, <1>2 DEF PipelineInv, PipelineTypeOK
<1>4. DiscoveryInv'
  <2>1. phase' \notin Discovering \cup {"building"}
    BY <1>1 DEF Configuring, Discovering, Beginning, WithLanguages, WithStrings
  <2> QED
    BY <2>1 DEF DiscoveryInv, Known, Discovering, Beginning, WithLanguages,
                WithStrings
<1>5. SourceInv'
  BY <1>1, <1>2 DEF PipelineInv, SourceInv
<1>6. PublishInv'
  <2>1. CASE ValidateConfiguration
    BY <1>2, <2>1 DEF ValidateConfiguration, PublishInv
  <2>2. CASE ReplaceGeneration
    BY <1>2, <2>2 DEF ReplaceGeneration, PipelineInv, PublishInv, publishVars
  <2>3. CASE PublishGeneration
    BY <1>2, <2>3 DEF PublishGeneration, PipelineInv, PublishInv
  <2> QED
    BY <2>1, <2>2, <2>3 DEF Supervise
<1> QED
  BY <1>3, <1>4, <1>5, <1>6 DEF PipelineInv

\* Nothing happens, nothing is lost.
LEMMA PipelineStutters ==
  ASSUME PipelineInv, UNCHANGED vars  PROVE PipelineInv'
<1>1. /\ phase' = phase /\ bundle' = bundle /\ left' = left
      /\ builder' = builder /\ personality' = personality
      /\ files' = files /\ endpoint_map' = endpoint_map
  BY DEF vars, sourceVars, publishVars
<1> QED
  BY <1>1 DEF PipelineInv, PipelineTypeOK, DiscoveryInv, SourceInv, PublishInv

\* The bundle of a Configure has the values of a bundle; a discovered one holds
\* each string that something refers to, and what the supervisor validates and
\* publishes is the projection of that very bundle.
THEOREM PipelineIsInvariant == Spec => []PipelineInv
<1>1. ASSUME PipelineInv, [Next]_vars  PROVE PipelineInv'
  BY <1>1, DiscoverStepKeeps, NativeStepKeeps, SuperviseKeeps, PipelineStutters
     DEF Next
<1> QED
  BY <1>1, PipelineInit, PTL DEF Spec

(***************************************************************************)
(* The strings of a discovered personality.                                *)
(***************************************************************************)
\* ReferencedStringsKnown: when discover hands over its bundle, each string
\* that the device, the configuration or an interface refers to is in it once
\* per announced language, and what is also the Microsoft OS string once more.
THEOREM ReferencedStringsAreKnown == Spec => []ReferencedStringsKnown
<1>1. ASSUME PipelineInv  PROVE ReferencedStringsKnown
  <2> SUFFICES ASSUME phase = "found", builder = <<>>,
                      NEW l \in LanguageIds(bundle),
                      NEW i \in StringIndices(bundle)
               PROVE  Cardinality({k \in DOMAIN bundle.strings :
                         /\ bundle.strings[k].index = i
                         /\ bundle.strings[k].language = l})
                      = IF bundle.microsoft # <<>> /\ l = 0 /\ i = OsString
                        THEN 2 ELSE 1
    BY DEF ReferencedStringsKnown, LanguageIds, StringIndices, DeviceNames,
           InterfaceNames, InterfacePositions
  <2> DEFINE s == bundle.strings
             n == Len(s)
             Is(k) == s[k].index = i /\ s[k].language = l
             K == {k \in DOMAIN s : Is(k)}
             last == LastRead(bundle)
  <2>1. /\ bundle \in Bundles /\ LanguagesFirst(bundle)
        /\ ReadOnce(bundle) /\ ReadAll(bundle)
    BY <1>1 DEF PipelineInv, PipelineTypeOK, SourceInv, Configuring
  <2>2. n \in Nat /\ DOMAIN s = 1 .. n /\ n >= 1
    BY <2>1, BundleFields DEF LanguagesFirst
  <2>3. last = IF bundle.microsoft = <<>> THEN n ELSE n - 1
    BY DEF LastRead
  <2>4. bundle.microsoft # <<>> =>
           last >= 1 /\ s[n].language = 0 /\ s[n].index = OsString
    BY <2>1 DEF ReadOnce
  <2>5. i # 0 /\ s[1].index = 0
    BY <2>1, PendingType DEF LanguagesFirst
  <2>6. PICK k \in 2 .. last : Is(k)
    BY <2>1 DEF ReadAll
  <2>7. \A j \in 2 .. last : Is(j) => j = k
    BY <2>1, <2>6 DEF ReadOnce
  <2> HIDE DEF n, last, s
  <2>8. \A j \in 1 .. n : Is(j) => j = k \/ (j = n /\ bundle.microsoft # <<>>)
    <3> SUFFICES ASSUME NEW j \in 1 .. n, Is(j)
                 PROVE  j = k \/ (j = n /\ bundle.microsoft # <<>>)
      OBVIOUS
    <3>1. j # 1
      BY <2>5
    <3>2. j \in 2 .. last \/ (j = n /\ bundle.microsoft # <<>>)
      BY <2>2, <2>3, <3>1
    <3> QED
      BY <2>7, <3>2
  <2>9. k \in 1 .. n /\ (bundle.microsoft # <<>> => k # n)
    BY <2>2, <2>3
  <2>10. CASE bundle.microsoft # <<>> /\ l = 0 /\ i = OsString
    <3>1. K = {k} \cup {n}
      BY <2>2, <2>4, <2>6, <2>8, <2>9, <2>10
    <3>2. n \notin {k}
      BY <2>9, <2>10
    <3>3. IsFiniteSet({k}) /\ Cardinality({k}) = 1
      BY FS_Singleton
    <3>4. Cardinality({k} \cup {n}) = Cardinality({k}) + 1
      BY <3>2, <3>3, FS_AddElement
    <3> HIDE DEF K
    <3>5. Cardinality(K) = 2
      BY <3>1, <3>3, <3>4
    <3> QED
      BY <2>10, <3>5 DEF s, K
  <2>11. CASE ~ (bundle.microsoft # <<>> /\ l = 0 /\ i = OsString)
    <3>1. K = {k}
      BY <2>2, <2>4, <2>6, <2>8, <2>9, <2>11
    <3>2. Cardinality({k}) = 1
      BY FS_Singleton
    <3> QED
      BY <2>11, <3>1, <3>2 DEF s
  <2> QED
    BY <2>10, <2>11
<1> QED
  BY <1>1, PipelineIsInvariant, PTL

(***************************************************************************)
(* What Projection makes of the configuration.                             *)
(***************************************************************************)
\* Every named interface has a number, and the number leads to its name.
LEMMA NamesAreMapped ==
  ASSUME NEW body \in Seq(Descriptors)
  PROVE  /\ MappedNames(body) \in Seq(Nat \ {0})
         /\ \A n \in DOMAIN MappedNames(body) :
               MappedNames(body)[n] \in InterfaceNames(body) \ {0}
         /\ \A i \in InterfaceNames(body) \ {0} :
               \E n \in DOMAIN MappedNames(body) : MappedNames(body)[n] = i
<1> DEFINE Named(k) == IsInterface(body[k]) /\ body[k].name # 0
           first == {k \in DOMAIN body :
                        /\ IsInterface(body[k]) /\ body[k].name # 0
                        /\ body[k].name \notin NamesBefore(body, k)}
           e == At(body, first)
           c == Cardinality(first)
<1>1. /\ c \in Nat /\ e \in Seq(Descriptors)
      /\ DOMAIN e = 1 .. c
      /\ \A n \in 1 .. c : Ascending(first)[n] \in first
                              /\ e[n] = body[Ascending(first)[n]]
      /\ \A k \in first : \E n \in 1 .. c : e[n] = body[k]
  <2> first \in SUBSET DOMAIN body
    OBVIOUS
  <2> HIDE DEF first
  <2> QED
    BY AtLists
<1>2. MappedNames(body) = [n \in 1 .. c |-> e[n].name]
  BY <1>1 DEF MappedNames
<1>3. \A k \in DOMAIN body : body[k].name \in Nat
  <2>1. \A k \in DOMAIN body : body[k] \in Descriptors
    OBVIOUS
  <2> QED
    BY <2>1 DEF Descriptors
<1>4. \A n \in 1 .. c : \E k \in DOMAIN body : e[n] = body[k] /\ Named(k)
  BY <1>1
<1>5. \A n \in 1 .. c : /\ e[n].name \in InterfaceNames(body) \ {0}
                        /\ e[n].name \in Nat \ {0}
  BY <1>3, <1>4 DEF InterfaceNames
<1>6. MappedNames(body) \in [1 .. c -> Nat \ {0}]
  BY <1>2, <1>5
<1>7. ASSUME NEW i \in InterfaceNames(body) \ {0}
      PROVE  \E n \in 1 .. c : e[n].name = i
  <2> DEFINE P == {j \in DOMAIN body : IsInterface(body[j]) /\ body[j].name = i}
  <2>1. P \in SUBSET Nat /\ P # {}
    BY DEF InterfaceNames
  <2>2. PICK j \in P : \A h \in P : j <= h
    <3> HIDE DEF P
    <3> QED
      BY <2>1, LeastNumber
  <2>3. body[j].name \notin NamesBefore(body, j)
    <3> SUFFICES ASSUME NEW h \in 1 .. j - 1, IsInterface(body[h]),
                        body[h].name = i
                 PROVE  FALSE
      BY DEF NamesBefore
    <3>1. h \in P
      OBVIOUS
    <3> QED
      BY <2>1, <2>2, <3>1
  <2>4. j \in first
    BY <2>2, <2>3
  <2> QED
    BY <1>1, <2>2, <2>4
<1> HIDE DEF c, e
<1> QED
  BY <1>1, <1>2, <1>5, <1>6, <1>7

\* Only the names change.
LEMMA RewrittenKeeps ==
  ASSUME NEW body \in Seq(Descriptors)
  PROVE  /\ Rewritten(body) \in Seq(Descriptors)
         /\ DOMAIN Rewritten(body) = DOMAIN body
         /\ Len(Rewritten(body)) = Len(body)
         /\ \A k \in DOMAIN body :
               /\ Rewritten(body)[k].kind = body[k].kind
               /\ Rewritten(body)[k].whole = body[k].whole
               /\ Rewritten(body)[k].number = body[k].number
               /\ Rewritten(body)[k].in = body[k].in
               /\ Rewritten(body)[k].transfer = body[k].transfer
               /\ IF IsInterface(body[k]) /\ body[k].name # 0
                  THEN /\ Rewritten(body)[k].name \in DOMAIN MappedNames(body)
                       /\ MappedNames(body)[Rewritten(body)[k].name]
                             = body[k].name
                  ELSE Rewritten(body)[k].name = body[k].name
<1> DEFINE N(k) == CHOOSE n \in DOMAIN MappedNames(body) :
                       MappedNames(body)[n] = body[k].name
           R(k) == IF IsInterface(body[k]) /\ body[k].name # 0
                   THEN [body[k] EXCEPT !.name = N(k)] ELSE body[k]
<1>1. DOMAIN body = 1 .. Len(body) /\ Len(body) \in Nat
         /\ \A k \in DOMAIN body : body[k] \in Descriptors
  OBVIOUS
<1>2. ASSUME NEW k \in DOMAIN body, IsInterface(body[k]), body[k].name # 0
      PROVE  /\ N(k) \in DOMAIN MappedNames(body)
             /\ MappedNames(body)[N(k)] = body[k].name
             /\ N(k) \in Nat
  <2>1. body[k].name \in InterfaceNames(body) \ {0}
    BY <1>2 DEF InterfaceNames
  <2>2. \E n \in DOMAIN MappedNames(body) : MappedNames(body)[n] = body[k].name
    BY <2>1, NamesAreMapped
  <2>3. DOMAIN MappedNames(body) \subseteq Nat
    <3>1. MappedNames(body) \in Seq(Nat \ {0})
      BY NamesAreMapped
    <3> QED
      BY <3>1
  <2> QED
    BY <2>2, <2>3
<1> HIDE DEF N
<1>3. ASSUME NEW k \in DOMAIN body
      PROVE  /\ R(k) \in Descriptors
             /\ R(k).kind = body[k].kind /\ R(k).whole = body[k].whole
             /\ R(k).number = body[k].number /\ R(k).in = body[k].in
             /\ R(k).transfer = body[k].transfer
             /\ R(k).name = IF IsInterface(body[k]) /\ body[k].name # 0
                            THEN N(k) ELSE body[k].name
  <2>1. body[k] \in Descriptors
    BY <1>1
  <2> QED
    BY <1>2, <2>1 DEF Descriptors
<1>4. Rewritten(body) = [k \in DOMAIN body |-> R(k)]
  BY DEF Rewritten, N
<1> HIDE DEF R
<1>5. Rewritten(body) \in [1 .. Len(body) -> Descriptors]
  BY <1>1, <1>3, <1>4
<1>6. Rewritten(body) \in Seq(Descriptors) /\ Len(Rewritten(body)) = Len(body)
  BY <1>1, <1>5
<1>7. \A k \in DOMAIN body : Rewritten(body)[k] = R(k)
  BY <1>4
<1> QED
  BY <1>2, <1>3, <1>4, <1>6, <1>7

\* A stream is cut where it was joined.
LEMMA CutApart ==
  ASSUME NEW T, NEW s \in Seq(T), NEW t \in Seq(T)
  PROVE  /\ SubSeq(s \o t, 1, Len(s)) = s
         /\ SubSeq(s \o t, Len(s) + 1, Len(s \o t)) = t
         /\ Len(s \o t) >= Len(s)
         /\ \A k \in DOMAIN s : (s \o t)[k] = s[k]
<1> DEFINE u == s \o t
           m == Len(s)
           n == Len(t)
<1>1. /\ m \in Nat /\ n \in Nat /\ u \in Seq(T) /\ Len(u) = m + n
      /\ \A k \in 1 .. m : u[k] = s[k]
      /\ \A k \in 1 .. n : u[m + k] = t[k]
      /\ DOMAIN s = 1 .. m
  OBVIOUS
<1>2. /\ \A k \in 1 .. m : s[k] \in T
      /\ \A k \in 1 .. n : t[k] \in T
      /\ \A k \in 1 .. m + n : u[k] \in T
  BY <1>1, ElementOfSeq
<1> HIDE DEF u
<1>3. SubSeq(u, 1, m) = s
  <2>1. /\ SubSeq(u, 1, m) \in Seq(T)
        /\ Len(SubSeq(u, 1, m)) = m
        /\ \A k \in 1 .. m : SubSeq(u, 1, m)[k] = u[k]
    BY <1>1, <1>2
  <2> QED
    BY <1>1, <2>1, SeqEqual
<1>4. SubSeq(u, m + 1, m + n) = t
  <2>1. /\ SubSeq(u, m + 1, m + n) \in Seq(T)
        /\ Len(SubSeq(u, m + 1, m + n)) = n
        /\ \A k \in 1 .. n : SubSeq(u, m + 1, m + n)[k] = u[m + k]
    BY <1>1, <1>2
  <2> QED
    BY <1>1, <2>1, SeqEqual
<1> QED
  BY <1>1, <1>3, <1>4 DEF u

\* One count cuts a stream once.
LEMMA OneSetEnds ==
  ASSUME NEW d, NEW n \in Nat, d.counts = <<n>>
  PROVE  /\ DOMAIN d.counts = {1} /\ Len(d.counts) = 1
         /\ SetEnds(d)[0] = 0 /\ SetEnds(d)[1] = n
<1> DEFINE s == d.counts
           c == Len(s)
<1>1. c = 1 /\ DOMAIN s = {1} /\ s[1] = n
  OBVIOUS
<1> HIDE DEF s
<1> DEFINE Is(e) == e = [k \in 0 .. c |-> IF k = 0 THEN 0 ELSE e[k - 1] + s[k]]
           end == CHOOSE e : Is(e)
           f == [k \in 0 .. 1 |-> IF k = 0 THEN 0 ELSE n]
<1>2. Is(f)
  BY <1>1
<1>3. Is(end)
  <2> HIDE DEF Is, f
  <2> QED
    BY <1>2
<1>4. SetEnds(d) = end
  BY DEF SetEnds, s
<1> HIDE DEF end, c
<1>5. end = [k \in 0 .. 1 |-> IF k = 0 THEN 0 ELSE end[k - 1] + s[k]]
  BY <1>1, <1>3
<1>6. end[0] = 0
  BY <1>5
<1>7. end[1] = end[0] + s[1]
  BY <1>5
<1> QED
  BY <1>1, <1>4, <1>6, <1>7 DEF s, c

(***************************************************************************)
(* What Projection makes of the Microsoft OS capability.                   *)
(***************************************************************************)
OsSection ==
    [kind : {"compat", "properties"}, interface : Nat,
     entries : Seq(CompatibleIds) \cup Seq(RegistryProperties)]

PropertyOwners(m) == {m.properties[k].interface : k \in DOMAIN m.properties}

\* The properties of an interface, as a sequence.
PropertiesOf(m, i) ==
    At(m.properties, {k \in DOMAIN m.properties : m.properties[k].interface = i})

CompatSection(m) ==
    [kind |-> "compat", interface |-> m.compat[1].interface,
     entries |-> m.compat]

PropertiesSection(m, i) ==
    [kind |-> "properties", interface |-> i, entries |-> PropertiesOf(m, i)]

\* A section per owner of properties, and one in front for the compatible IDs
\* where there are any.
LEMMA SectionsListed ==
  ASSUME NEW m \in MicrosoftOs
  PROVE  /\ OsSections(m) \in Seq(OsSection)
         /\ \A k \in DOMAIN OsSections(m) :
               \/ m.compat # <<>> /\ OsSections(m)[k] = CompatSection(m)
               \/ \E i \in PropertyOwners(m) :
                     OsSections(m)[k] = PropertiesSection(m, i)
         /\ m.compat # <<>> =>
               \E k \in DOMAIN OsSections(m) : OsSections(m)[k] = CompatSection(m)
         /\ \A i \in PropertyOwners(m) : \E k \in DOMAIN OsSections(m) :
               OsSections(m)[k] = PropertiesSection(m, i)
         /\ \A j, k \in DOMAIN OsSections(m) :
               (/\ OsSections(m)[j].kind = "properties"
                /\ OsSections(m)[j] = OsSections(m)[k]) => j = k
<1> DEFINE owners == PropertyOwners(m)
           order == Ascending(owners)
           c == Cardinality(owners)
           S(i) == PropertiesSection(m, i)
           named == [n \in DOMAIN order |-> S(order[n])]
           head == CompatSection(m)
<1>1. /\ m.compat \in Seq(CompatibleIds)
      /\ m.properties \in Seq(RegistryProperties)
  BY DEF MicrosoftOs
<1>2. owners \in SUBSET Nat /\ IsFiniteSet(owners)
  <2> DEFINE D == DOMAIN m.properties
             owner == [k \in D |-> m.properties[k].interface]
  <2>1. IsFiniteSet(D)
    <3>1. D = 1 .. Len(m.properties) /\ Len(m.properties) \in Nat
      BY <1>1
    <3> QED
      BY <3>1, FS_Interval
  <2>2. owner \in Surjection(D, owners)
    BY DEF Surjection, PropertyOwners
  <2>3. IsFiniteSet(owners)
    <3> HIDE DEF D, owners, owner
    <3> QED
      BY <2>1, <2>2, FS_Surjection
  <2>4. \A k \in D : m.properties[k] \in RegistryProperties
    BY <1>1
  <2>5. \A k \in D : m.properties[k].interface \in Nat
    BY <2>4 DEF RegistryProperties
  <2> QED
    BY <2>3, <2>5 DEF PropertyOwners
<1>3. /\ c \in Nat /\ order \in [1 .. c -> owners]
      /\ \A i \in owners : \E n \in 1 .. c : order[n] = i
      /\ \A j, k \in 1 .. c : order[j] = order[k] => j = k
  <2> HIDE DEF owners
  <2>1. owners \in SUBSET Int
    BY <1>2
  <2> QED
    BY <1>2, <2>1, AscendingLists
<1>4. \A i \in owners : S(i) \in OsSection
  <2> SUFFICES ASSUME NEW i \in owners  PROVE S(i) \in OsSection
    OBVIOUS
  <2> DEFINE P == {k \in DOMAIN m.properties : m.properties[k].interface = i}
             all == At(m.properties, P)
  <2>1. all \in Seq(RegistryProperties)
    <3>1. P \in SUBSET DOMAIN m.properties
      OBVIOUS
    <3> HIDE DEF P
    <3> QED
      BY <1>1, <3>1, AtLists
  <2>2. S(i) = [kind |-> "properties", interface |-> i, entries |-> all]
    BY DEF PropertiesSection, PropertiesOf
  <2> HIDE DEF all, S, owners
  <2>3. i \in Nat
    BY <1>2
  <2> QED
    BY <2>1, <2>2, <2>3 DEF OsSection
<1>5. m.compat # <<>> => head \in OsSection
  <2> SUFFICES ASSUME m.compat # <<>>  PROVE head \in OsSection
    OBVIOUS
  <2>1. m.compat[1] \in CompatibleIds
    BY <1>1
  <2>2. m.compat[1].interface \in Nat
    BY <2>1 DEF CompatibleIds
  <2> QED
    BY <1>1, <2>2 DEF CompatSection, OsSection
<1>6. \A i, j : (S(i) = S(j) => i = j) /\ S(i).kind = "properties"
  BY DEF PropertiesSection
<1>7. head.kind = "compat"
  BY DEF CompatSection
<1>8. OsSections(m) = IF m.compat = <<>> THEN named ELSE <<head>> \o named
  BY DEF OsSections, PropertyOwners, PropertiesOf, PropertiesSection,
         CompatSection
<1> HIDE DEF S, head, order, owners, c
<1>9. /\ DOMAIN named = 1 .. c /\ named \in Seq(OsSection) /\ Len(named) = c
      /\ \A n \in 1 .. c : order[n] \in owners /\ named[n] = S(order[n])
  <2>1. DOMAIN order = 1 .. c
    BY <1>3
  <2>2. named \in [1 .. c -> OsSection]
    BY <1>3, <1>4, <2>1
  <2> QED
    BY <1>3, <2>1, <2>2
<1> HIDE DEF named
<1>10. CASE m.compat = <<>>
  <2>1. OsSections(m) = named
    BY <1>8, <1>10
  <2>2. \A k \in 1 .. c : \E i \in owners : named[k] = S(i)
    BY <1>9
  <2>3. \A i \in owners : \E k \in 1 .. c : named[k] = S(i)
    BY <1>3, <1>9
  <2>4. \A j, k \in 1 .. c : named[j] = named[k] => j = k
    BY <1>3, <1>6, <1>9
  <2> QED
    BY <1>9, <1>10, <2>1, <2>2, <2>3, <2>4 DEF S, owners
<1>11. CASE m.compat # <<>>
  <2> DEFINE all == <<head>> \o named
  <2>1. /\ all \in Seq(OsSection) /\ Len(all) = c + 1 /\ all[1] = head
        /\ \A k \in 2 .. c + 1 : all[k] = named[k - 1]
    BY <1>5, <1>9, <1>11, InFront
  <2>2. OsSections(m) = all
    BY <1>8, <1>11
  <2> HIDE DEF all
  <2>3. DOMAIN all = 1 .. c + 1 /\ c \in Nat
    BY <1>3, <2>1
  <2>4. \A k \in 2 .. c + 1 : k - 1 \in 1 .. c /\ all[k] = S(order[k - 1])
    BY <1>9, <2>1, <2>3
  <2>5. \A k \in 1 .. c + 1 : k = 1 \/ k \in 2 .. c + 1
    BY <2>3
  <2>6. \A k \in 1 .. c + 1 : all[k] = head \/ \E i \in owners : all[k] = S(i)
    BY <1>9, <2>1, <2>4, <2>5
  <2>7. \A i \in owners : \E k \in 1 .. c + 1 : all[k] = S(i)
    <3> SUFFICES ASSUME NEW i \in owners
                 PROVE  \E k \in 1 .. c + 1 : all[k] = S(i)
      OBVIOUS
    <3>1. PICK n \in 1 .. c : order[n] = i
      BY <1>3
    <3>2. n + 1 \in 2 .. c + 1 /\ (n + 1) - 1 = n /\ n + 1 \in 1 .. c + 1
      BY <2>3
    <3> QED
      BY <2>4, <3>1, <3>2
  <2>8. ASSUME NEW j \in 1 .. c + 1, NEW k \in 1 .. c + 1,
               all[j].kind = "properties", all[j] = all[k]
        PROVE  j = k
    <3>1. j \in 2 .. c + 1 /\ k \in 2 .. c + 1
      BY <1>7, <2>1, <2>5, <2>8
    <3>2. order[j - 1] = order[k - 1]
      BY <1>6, <2>4, <2>8, <3>1
    <3>3. j - 1 = k - 1
      BY <1>3, <2>4, <3>1, <3>2
    <3> QED
      BY <3>1, <3>3
  <2>9. 1 \in 1 .. c + 1
    BY <2>3
  <2> QED
    BY <1>11, <2>1, <2>2, <2>3, <2>6, <2>7, <2>8, <2>9 DEF S, owners, head
<1> QED
  BY <1>10, <1>11

\* The properties of an interface are those the worker declared for it.
LEMMA PropertiesListed ==
  ASSUME NEW m \in MicrosoftOs, NEW i \in PropertyOwners(m)
  PROVE  /\ PropertiesOf(m, i) \in Seq(RegistryProperties)
         /\ PropertiesOf(m, i) # <<>>
         /\ \A n \in DOMAIN PropertiesOf(m, i) : \E k \in DOMAIN m.properties :
               /\ PropertiesOf(m, i)[n] = m.properties[k]
               /\ m.properties[k].interface = i
         /\ \A k \in DOMAIN m.properties : m.properties[k].interface = i =>
               \E n \in DOMAIN PropertiesOf(m, i) :
                  PropertiesOf(m, i)[n] = m.properties[k]
<1> DEFINE s == m.properties
           P == {k \in DOMAIN s : s[k].interface = i}
           all == At(s, P)
           c == Cardinality(P)
<1>1. s \in Seq(RegistryProperties)
  BY DEF MicrosoftOs
<1>2. /\ all \in Seq(RegistryProperties)
      /\ DOMAIN all = 1 .. c
      /\ \A n \in 1 .. c :
            Ascending(P)[n] \in P /\ all[n] = s[Ascending(P)[n]]
      /\ \A k \in P : \E n \in 1 .. c : all[n] = s[k]
  <2>1. P \in SUBSET DOMAIN s
    OBVIOUS
  <2> HIDE DEF P, s
  <2> QED
    BY <1>1, <2>1, AtLists
<1>3. PICK k \in P : TRUE
  BY DEF PropertyOwners
<1>4. PropertiesOf(m, i) = all
  BY DEF PropertiesOf
<1> HIDE DEF all, c
<1>5. all # <<>>
  <2>1. DOMAIN all # {}
    BY <1>2, <1>3
  <2>2. DOMAIN <<>> = {}
    OBVIOUS
  <2> QED
    BY <2>1, <2>2, Zenon
<1>6. \A n \in 1 .. c : \E j \in P : all[n] = s[j]
  BY <1>2
<1> QED
  BY <1>2, <1>4, <1>5, <1>6

(***************************************************************************)
(* The blobs.                                                              *)
(***************************************************************************)
ProjectedSections(b) ==
    IF b.microsoft = <<>> THEN <<>> ELSE OsSections(b.microsoft[1])

\* The supervisor finds its own speed set and its own sections in the blob.
LEMMA ProjectionParts ==
  ASSUME NEW b \in Bundles
  PROVE  LET d == Projection(b).descriptors
         IN  /\ DOMAIN d.counts = {1} /\ Len(d.counts) = 1
             /\ SetEnds(d)[1] <= Len(d.stream)
             /\ SpeedSet(d, 1) = Rewritten(b.config.body)
             /\ Sections(d) = ProjectedSections(b)
             /\ ProjectedSections(b) \in Seq(OsSection)
             /\ d.os = (ProjectedSections(b) # <<>>)
             /\ d.osCount = Len(ProjectedSections(b))
             /\ \A k \in DOMAIN b.config.body :
                   d.stream[k] = Rewritten(b.config.body)[k]
<1> DEFINE body == b.config.body
           s == Rewritten(body)
           t == ProjectedSections(b)
           d == Projection(b).descriptors
           T == Descriptors \cup OsSection
<1>1. body \in Seq(Descriptors)
  BY BundleFields
<1>2. s \in Seq(Descriptors) /\ Len(s) = Len(body) /\ DOMAIN s = DOMAIN body
  BY <1>1, RewrittenKeeps
<1>3. t \in Seq(OsSection)
  <2>1. CASE b.microsoft = <<>>
    BY <2>1 DEF ProjectedSections
  <2>2. CASE b.microsoft # <<>>
    <3>1. b.microsoft[1] \in MicrosoftOs
      BY <2>2, BundleFields, MicrosoftType, OptionType, 0 \in Nat
    <3> QED
      BY <2>2, <3>1, SectionsListed DEF ProjectedSections
  <2> QED
    BY <2>1, <2>2
<1>4. /\ d.counts = <<Len(body)>> /\ d.stream = s \o t
      /\ d.os = (t # <<>>) /\ d.osCount = Len(t)
  BY DEF Projection, ProjectedSections
<1>5. Len(body) \in Nat
  BY <1>1
<1>6. /\ DOMAIN d.counts = {1} /\ Len(d.counts) = 1
      /\ SetEnds(d)[0] = 0 /\ SetEnds(d)[1] = Len(body)
  BY <1>4, <1>5, OneSetEnds
<1>7. s \in Seq(T) /\ t \in Seq(T)
  BY <1>2, <1>3, SeqMonotonic
<1> HIDE DEF s, t, d, T
<1>8. /\ SubSeq(s \o t, 1, Len(s)) = s
      /\ SubSeq(s \o t, Len(s) + 1, Len(s \o t)) = t
      /\ Len(s \o t) >= Len(s)
      /\ \A k \in DOMAIN s : (s \o t)[k] = s[k]
  BY <1>7, CutApart
<1>9. SpeedSet(d, 1) = s
  <2>1. SpeedSet(d, 1) = SubSeq(d.stream, SetEnds(d)[1 - 1] + 1, SetEnds(d)[1])
    BY DEF SpeedSet
  <2>2. 1 - 1 = 0 /\ 0 + 1 = 1
    OBVIOUS
  <2>3. SetEnds(d)[1 - 1] + 1 = 1
    BY <1>6, <2>2
  <2>4. SetEnds(d)[1] = Len(s)
    BY <1>2, <1>6
  <2>5. SpeedSet(d, 1) = SubSeq(s \o t, 1, Len(s))
    BY <1>4, <2>1, <2>3, <2>4
  <2> QED
    BY <1>8, <2>5
<1>10. Sections(d) = t
  BY <1>2, <1>4, <1>6, <1>8 DEF Sections
<1>11. SetEnds(d)[1] <= Len(d.stream)
  <2>1. Len(s \o t) \in Nat
    BY <1>7
  <2> QED
    BY <1>2, <1>4, <1>5, <1>6, <1>8, <2>1
<1> QED
  BY <1>2, <1>3, <1>4, <1>6, <1>8, <1>9, <1>10, <1>11 DEF s, t, d

(***************************************************************************)
(* What is served.                                                         *)
(***************************************************************************)
\* The endpoints, where the supervisor finds them in the blob and where it
\* found them in the configuration, are those of the configuration in order.
LEMMA EndpointsInOrder ==
  ASSUME NEW body \in Seq(Descriptors)
  PROVE  LET P == {k \in DOMAIN body : IsEndpoint(body[k])}
             declared == At(body, P)
             inspected == Files(Rewritten(body))
             projected == ProjectedEndpoints(body)
         IN  /\ DOMAIN declared = 1 .. Cardinality(P)
             /\ Len(declared) = Cardinality(P)
             /\ Len(inspected) = Cardinality(P)
             /\ Len(projected) = Cardinality(P)
             /\ \A k \in 1 .. Cardinality(P) :
                   /\ projected[k].number = declared[k].number
                   /\ projected[k].in = declared[k].in
                   /\ projected[k].transfer = declared[k].transfer
                   /\ inspected[k].in = declared[k].in
                   /\ inspected[k].transfer = declared[k].transfer
<1> DEFINE P == {k \in DOMAIN body : IsEndpoint(body[k])}
           s == Rewritten(body)
           c == Cardinality(P)
           declared == At(body, P)
           found == At(s, P)
           inspected == Files(s)
           projected == ProjectedEndpoints(body)
<1>1. /\ s \in Seq(Descriptors) /\ DOMAIN s = DOMAIN body
      /\ \A k \in DOMAIN body : /\ s[k].kind = body[k].kind
                                /\ s[k].in = body[k].in
                                /\ s[k].transfer = body[k].transfer
  BY RewrittenKeeps
<1> HIDE DEF s
<1>2. P = {k \in DOMAIN s : IsEndpoint(s[k])}
  BY <1>1 DEF IsEndpoint
<1>3. inspected = [k \in DOMAIN found |-> [in |-> found[k].in,
                                           transfer |-> found[k].transfer]]
  BY <1>2 DEF Files
<1>4. projected = [k \in DOMAIN declared |->
                      [number |-> declared[k].number, in |-> declared[k].in,
                       transfer |-> declared[k].transfer]]
  BY DEF ProjectedEndpoints
<1>5. /\ c \in Nat
      /\ DOMAIN declared = 1 .. c /\ Len(declared) = c
      /\ \A n \in 1 .. c : Ascending(P)[n] \in P
                              /\ declared[n] = body[Ascending(P)[n]]
  <2>1. P \in SUBSET DOMAIN body
    OBVIOUS
  <2> HIDE DEF P
  <2> QED
    BY <2>1, AtLists
<1>6. /\ DOMAIN found = 1 .. c
      /\ \A n \in 1 .. c : found[n] = s[Ascending(P)[n]]
  <2>1. P \in SUBSET DOMAIN s
    BY <1>1
  <2> HIDE DEF P
  <2> QED
    BY <1>1, <2>1, AtLists
<1>7. \A n \in 1 .. c : Ascending(P)[n] \in DOMAIN body
  BY <1>5
<1> HIDE DEF inspected, projected, found, declared, P, c
<1>8. /\ DOMAIN inspected = 1 .. c /\ DOMAIN projected = 1 .. c
      /\ \A k \in 1 .. c :
            /\ projected[k].number = declared[k].number
            /\ projected[k].in = declared[k].in
            /\ projected[k].transfer = declared[k].transfer
            /\ inspected[k].in = found[k].in
            /\ inspected[k].transfer = found[k].transfer
  BY <1>3, <1>4, <1>5, <1>6
<1>9. \A k \in 1 .. c : found[k].in = declared[k].in
                           /\ found[k].transfer = declared[k].transfer
  BY <1>1, <1>5, <1>6, <1>7
<1>10. Len(inspected) = c /\ Len(projected) = c
  <2>1. inspected = [k \in 1 .. c |-> inspected[k]]
    BY <1>3, <1>6
  <2>2. projected = [k \in 1 .. c |-> projected[k]]
    BY <1>4, <1>5
  <2> QED
    BY <1>5, <2>1, <2>2
<1> QED
  BY <1>5, <1>8, <1>9, <1>10 DEF P, c, s, declared, inspected, projected

\* What is served is the projection of the bundle, twice validated.
LEMMA WhatIsServed ==
  ASSUME PipelineInv, phase = "served"
  PROVE  /\ bundle \in Bundles /\ bundle.config.body \in Seq(Descriptors)
         /\ personality[1] = Projection(bundle)
         /\ files = Files(Rewritten(bundle.config.body))
         /\ endpoint_map = ProjectedEndpoints(bundle.config.body)
<1>1. bundle \in Bundles
  BY DEF PipelineInv, PipelineTypeOK
<1>2. /\ personality[1] = Projection(bundle)
      /\ files = EndpointFiles(personality[1])
      /\ endpoint_map = personality[1].endpoints
  BY DEF PipelineInv, PublishInv
<1>3. SpeedSet(Projection(bundle).descriptors, 1)
         = Rewritten(bundle.config.body)
  BY <1>1, ProjectionParts
<1>4. files = Files(Rewritten(bundle.config.body))
  BY <1>2, <1>3 DEF EndpointFiles, InspectedEndpoints
<1>5. endpoint_map = ProjectedEndpoints(bundle.config.body)
  BY <1>2 DEF Projection
<1> QED
  BY <1>1, <1>2, <1>4, <1>5, BundleFields

\* EndpointsAgree: publish_functionfs only compares lengths, and still the k-th
\* file and the k-th entry of UsbEndpoints are the k-th endpoint the worker
\* declared, because the two walks meet the same descriptors.
THEOREM EndpointsDoAgree == Spec => []EndpointsAgree
<1>1. ASSUME PipelineInv  PROVE EndpointsAgree
  <2> SUFFICES ASSUME phase = "served"  PROVE EndpointsAgree
    BY DEF EndpointsAgree
  <2> DEFINE body == bundle.config.body
             P == {k \in DOMAIN body : IsEndpoint(body[k])}
             declared == At(body, P)
             c == Cardinality(P)
  <2>1. /\ body \in Seq(Descriptors)
        /\ files = Files(Rewritten(body))
        /\ endpoint_map = ProjectedEndpoints(body)
    BY <1>1, WhatIsServed
  <2>2. EndpointPositions(bundle) = P
    BY DEF EndpointPositions
  <2>3. /\ DOMAIN declared = 1 .. c /\ Len(declared) = c
        /\ Len(files) = c /\ Len(endpoint_map) = c
        /\ \A k \in 1 .. c :
              /\ endpoint_map[k].number = declared[k].number
              /\ endpoint_map[k].in = declared[k].in
              /\ endpoint_map[k].transfer = declared[k].transfer
              /\ files[k].in = declared[k].in
              /\ files[k].transfer = declared[k].transfer
    BY <2>1, EndpointsInOrder
  <2> HIDE DEF P, c
  <2>4. declared = At(bundle.config.body, EndpointPositions(bundle))
    BY <2>2
  <2> HIDE DEF declared, body
  <2> QED
    BY <2>3, <2>4 DEF EndpointsAgree, Address
<1> QED
  BY <1>1, PipelineIsInvariant, PTL

\* InterfaceNamesKept: a host that asks FunctionFS for the name of an interface
\* gets the text the worker gave that interface.
THEOREM InterfaceNamesAreKept == Spec => []InterfaceNamesKept
<1>1. ASSUME PipelineInv  PROVE InterfaceNamesKept
  <2> SUFFICES ASSUME phase = "served", NEW k \in InterfacePositions(bundle)
               PROVE  LET original == bundle.config.body[k].name
                          number == personality[1].descriptors.stream[k].name
                      IN IF original = 0 THEN number = 0
                         ELSE /\ number \in DOMAIN personality[1].strings.texts
                              /\ personality[1].strings.texts[number] =
                                    <<original, LanguageOf(bundle)>>
    BY DEF InterfaceNamesKept
  <2> DEFINE body == bundle.config.body
             original == body[k].name
             number == personality[1].descriptors.stream[k].name
  <2>1. /\ bundle \in Bundles /\ body \in Seq(Descriptors)
        /\ personality[1] = Projection(bundle)
    BY <1>1, WhatIsServed
  <2>2. k \in DOMAIN body /\ IsInterface(body[k])
    BY DEF InterfacePositions
  <2>3. number = Rewritten(body)[k].name
    BY <2>1, <2>2, ProjectionParts
  <2>4. personality[1].strings.texts =
           [n \in DOMAIN MappedNames(body) |->
               <<MappedNames(body)[n], LanguageOf(bundle)>>]
    BY <2>1 DEF Projection, FunctionFsStrings, UsbString
  <2>5. original = 0 => Rewritten(body)[k].name = 0
    BY <2>1, <2>2, RewrittenKeeps
  <2>6. original # 0 =>
           /\ Rewritten(body)[k].name \in DOMAIN MappedNames(body)
           /\ MappedNames(body)[Rewritten(body)[k].name] = original
    BY <2>1, <2>2, RewrittenKeeps
  <2> QED
    BY <2>3, <2>4, <2>5, <2>6
<1> QED
  BY <1>1, PipelineIsInvariant, PTL

\* OsDescriptorsComplete: what the worker declared for Windows reaches the
\* blob, each interface's properties in one section.
THEOREM OsDescriptorsAreComplete == Spec => []OsDescriptorsComplete
<1>1. ASSUME PipelineInv  PROVE OsDescriptorsComplete
  <2> SUFFICES ASSUME phase = "served", bundle.microsoft # <<>>
               PROVE  OsDescriptorsComplete
    BY DEF OsDescriptorsComplete
  <2> DEFINE m == bundle.microsoft[1]
             s == Sections(personality[1].descriptors)
             Kind(kind) == {k \in DOMAIN s : s[k].kind = kind}
             Owned(i) == At(m.properties, {n \in DOMAIN m.properties :
                               m.properties[n].interface = i})
             Under(i) == {k \in Kind("properties") : s[k].interface = i}
  <2>1. bundle \in Bundles /\ personality[1] = Projection(bundle)
    BY <1>1, WhatIsServed
  <2>2. s = OsSections(m)
    BY <2>1, ProjectionParts DEF ProjectedSections
  <2>3. m \in MicrosoftOs
    BY <2>1, BundleFields, MicrosoftType, OptionType, 0 \in Nat
  <2> HIDE DEF m, s
  <2>4. /\ \A k \in DOMAIN s :
              \/ m.compat # <<>> /\ s[k] = CompatSection(m)
              \/ \E i \in PropertyOwners(m) : s[k] = PropertiesSection(m, i)
        /\ m.compat # <<>> => \E k \in DOMAIN s : s[k] = CompatSection(m)
        /\ \A i \in PropertyOwners(m) : \E k \in DOMAIN s :
              s[k] = PropertiesSection(m, i)
        /\ \A j, k \in DOMAIN s :
              s[j].kind = "properties" /\ s[j] = s[k] => j = k
    BY <2>2, <2>3, SectionsListed
  <2>5. /\ CompatSection(m).kind = "compat"
        /\ CompatSection(m).entries = m.compat
        /\ \A i : /\ PropertiesSection(m, i).kind = "properties"
                  /\ PropertiesSection(m, i).interface = i
                  /\ PropertiesSection(m, i).entries = PropertiesOf(m, i)
    BY DEF CompatSection, PropertiesSection
  <2>6. \A i : PropertiesOf(m, i) = Owned(i)
    BY DEF PropertiesOf
  <2> HIDE DEF Owned
  <2>7. {s[k].entries : k \in Kind("compat")} =
           (IF m.compat = <<>> THEN {} ELSE {m.compat})
    <3>1. \A k \in Kind("compat") : m.compat # <<>> /\ s[k] = CompatSection(m)
      BY <2>4, <2>5
    <3>2. m.compat # <<>> =>
             \E k \in Kind("compat") : s[k] = CompatSection(m)
      BY <2>4, <2>5
    <3> QED
      BY <2>5, <3>1, <3>2
  <2>8. \A k \in Kind("properties") : s[k].entries = Owned(s[k].interface)
    BY <2>4, <2>5, <2>6
  <2>9. ASSUME NEW n \in DOMAIN m.properties
        PROVE  Cardinality(Under(m.properties[n].interface)) = 1
    <3> DEFINE i == m.properties[n].interface
    <3>1. i \in PropertyOwners(m)
      BY DEF PropertyOwners
    <3>2. PICK k \in DOMAIN s : s[k] = PropertiesSection(m, i)
      BY <2>4, <3>1
    <3>3. \A j \in Kind("properties") : s[j].interface = i => s[j] = s[k]
      BY <2>4, <2>5, <3>2
    <3>4. k \in Under(i)
      BY <2>5, <3>2
    <3>5. \A j \in Under(i) : j = k
      BY <2>4, <3>3
    <3>6. Under(i) = {k}
      BY <3>4, <3>5
    <3> HIDE DEF Under
    <3>7. Cardinality(Under(i)) = 1
      BY <3>6, FS_Singleton
    <3> QED
      BY <3>7
  <2> QED
    BY <2>7, <2>8, <2>9 DEF OsDescriptorsComplete, m, s, Owned
<1> QED
  BY <1>1, PipelineIsInvariant, PTL

(***************************************************************************)
(* The two validations against the reference WellDeclared, part by part.   *)
(***************************************************************************)
LEMMA InterfacesKeepNumbers ==
  ASSUME NEW body \in Seq(Descriptors)
  PROVE  Interfaces(Rewritten(body)) = Interfaces(body)
<1> DEFINE s == Rewritten(body)
<1>1. /\ DOMAIN s = DOMAIN body
      /\ \A k \in DOMAIN body : /\ s[k].kind = body[k].kind
                                /\ s[k].number = body[k].number
  BY RewrittenKeeps
<1> HIDE DEF s
<1>2. Interfaces(s) = Interfaces(body)
  BY <1>1 DEF Interfaces, IsInterface
<1> QED
  BY <1>2 DEF s

\* The topology is checked in halves: lengths by the projection, addresses in
\* the blob.
LEMMA TopologyIsChecked ==
  ASSUME NEW b \in Bundles
  PROVE  BodyReads(b.config.body) /\ SetParses(Rewritten(b.config.body))
            <=> TopologyDeclared(b)
<1> DEFINE body == b.config.body
           s == Rewritten(body)
           P == {k \in DOMAIN body : IsEndpoint(body[k])}
<1>1. /\ DOMAIN s = DOMAIN body
      /\ \A k \in DOMAIN body :
            /\ s[k].kind = body[k].kind /\ s[k].whole = body[k].whole
            /\ s[k].number = body[k].number /\ s[k].in = body[k].in
  BY BundleFields, RewrittenKeeps
<1>2. \A k \in DOMAIN body :
         /\ body[k].kind \in {"interface", "endpoint", "class", "broken"}
         /\ body[k].whole \in BOOLEAN
  <2>1. \A k \in DOMAIN body : body[k] \in Descriptors
    BY BundleFields
  <2> QED
    BY <2>1 DEF Descriptors
<1> HIDE DEF s
<1>3. {i \in DOMAIN s : IsEndpoint(s[i])} = P
  BY <1>1 DEF IsEndpoint
<1>4. \A k \in P : Address(s[k]) = Address(body[k])
  BY <1>1 DEF Address
<1>5. EndpointPositions(b) = P
  BY DEF EndpointPositions
<1> HIDE DEF P
<1>6. (\A j, k \in P : Address(s[j]) = Address(s[k]) => j = k)
         <=> (\A j, k \in P : j # k => Address(body[j]) # Address(body[k]))
  BY <1>4
<1>7. (\A k \in DOMAIN s :
          s[k].kind \in {"interface", "endpoint", "class"} /\ s[k].whole)
         <=> (\A k \in DOMAIN body : body[k].whole /\ body[k].kind # "broken")
  BY <1>1, <1>2
<1>8. (\A k \in DOMAIN s : IsEndpoint(s[k]) => s[k].number # 0)
         <=> (\A k \in P : body[k].number # 0)
  BY <1>1 DEF P, IsEndpoint
<1>9. (\A k \in DOMAIN body : body[k].whole /\ body[k].kind # "broken")
         => BodyReads(body)
  BY DEF BodyReads
<1>10. SetParses(s) <=>
         /\ \A k \in DOMAIN s :
               s[k].kind \in {"interface", "endpoint", "class"} /\ s[k].whole
         /\ \A k \in DOMAIN s : IsEndpoint(s[k]) => s[k].number # 0
         /\ \A j, k \in P : Address(s[j]) = Address(s[k]) => j = k
  BY <1>3 DEF SetParses
<1>11. TopologyDeclared(b) <=>
         /\ \A k \in DOMAIN body : body[k].whole /\ body[k].kind # "broken"
         /\ \A k \in P : body[k].number # 0
         /\ \A j, k \in P : j # k => Address(body[j]) # Address(body[k])
  BY <1>5 DEF TopologyDeclared
<1> QED
  BY <1>6, <1>7, <1>8, <1>9, <1>10, <1>11 DEF s

\* A number for each name: the count of the names before it fits a byte.
LEMMA NumbersAreChecked ==
  ASSUME NEW b \in Bundles
  PROVE  NumbersFit(b.config.body) <=>
            \A k \in InterfacePositions(b) :
               Cardinality({b.config.body[j].name :
                   j \in {i \in InterfacePositions(b) : i < k}} \ {0}) < MaxByte
               \/ b.config.body[k].name = 0
<1> DEFINE body == b.config.body
           before(k) == {body[j].name :
                            j \in {i \in InterfacePositions(b) : i < k}} \ {0}
<1>1. DOMAIN body = 1 .. Len(body) /\ Len(body) \in Nat
  BY BundleFields
<1>2. InterfacePositions(b) = {k \in DOMAIN body : IsInterface(body[k])}
  BY DEF InterfacePositions
<1>3. ASSUME NEW k \in DOMAIN body
      PROVE  /\ NamesBefore(body, k) = before(k)
             /\ Cardinality(NamesBefore(body, k)) \in Nat
  <2> DEFINE J == {i \in 1 .. k - 1 : IsInterface(body[i]) /\ body[i].name # 0}
             name == [j \in J |-> body[j].name]
  <2>1. k \in Nat /\ \A i \in 1 .. k - 1 : i \in DOMAIN body /\ i < k
    BY <1>1
  <2>2. \A i \in DOMAIN body : i < k => i \in 1 .. k - 1
    BY <1>1, <2>1
  <2>3. NamesBefore(body, k) = before(k)
    BY <1>2, <2>1, <2>2 DEF NamesBefore
  <2>4. IsFiniteSet(J)
    <3>1. IsFiniteSet(1 .. k - 1)
      BY <2>1, FS_Interval
    <3>2. J \in SUBSET (1 .. k - 1)
      OBVIOUS
    <3> HIDE DEF J
    <3> QED
      BY <3>1, <3>2, FS_Subset
  <2>5. name \in Surjection(J, NamesBefore(body, k))
    BY DEF Surjection, NamesBefore
  <2>6. IsFiniteSet(NamesBefore(body, k))
    <3> HIDE DEF J, name
    <3> QED
      BY <2>4, <2>5, FS_Surjection
  <2> QED
    BY <2>3, <2>6, FS_CardinalityType
<1>4. MaxByte \in Nat
  BY SizesAreNaturals
<1> HIDE DEF before
<1>5. NumbersFit(body) <=>
         \A k \in InterfacePositions(b) :
            body[k].name # 0 => Cardinality(NamesBefore(body, k)) + 1 <= MaxByte
  BY <1>2 DEF NumbersFit
<1>6. \A k \in InterfacePositions(b) :
         Cardinality(NamesBefore(body, k)) + 1 <= MaxByte
            <=> Cardinality(before(k)) < MaxByte
  <2> SUFFICES ASSUME NEW k \in InterfacePositions(b)
               PROVE  Cardinality(NamesBefore(body, k)) + 1 <= MaxByte
                         <=> Cardinality(before(k)) < MaxByte
    OBVIOUS
  <2> DEFINE n == Cardinality(NamesBefore(body, k))
  <2>1. n \in Nat /\ n = Cardinality(before(k))
    BY <1>2, <1>3
  <2> HIDE DEF n
  <2>2. n + 1 <= MaxByte <=> n < MaxByte
    BY <1>4, <2>1
  <2> QED
    BY <2>1, <2>2 DEF n
<1>7. NumbersFit(body) <=>
         \A k \in InterfacePositions(b) :
            Cardinality(before(k)) < MaxByte \/ body[k].name = 0
  BY <1>5, <1>6
<1> QED
  BY <1>7 DEF before

\* No string is there twice, so the one that is looked up is the one.
LEMMA OneForm ==
  ASSUME NEW b, IsInjective(StringKeys(b)), NEW k \in DOMAIN b.strings,
         NEW i, NEW l, b.strings[k].index = i, b.strings[k].language = l
  PROVE  HasString(b, i, l) /\ FormOf(b, i, l) = b.strings[k].form
<1>1. StringKeys(b)[k] = <<i, l>>
  BY DEF StringKeys
<1>2. \A j \in DOMAIN b.strings : StringKeys(b)[j] = <<i, l>> => j = k
  <2>1. DOMAIN StringKeys(b) = DOMAIN b.strings
    BY DEF StringKeys
  <2> QED
    BY <1>1, <2>1 DEF IsInjective
<1> DEFINE n == CHOOSE j \in DOMAIN b.strings : StringKeys(b)[j] = <<i, l>>
<1>3. n = k
  BY <1>1, <1>2
<1>4. FormOf(b, i, l) = b.strings[n].form
  BY DEF FormOf
<1> HIDE DEF n
<1> QED
  BY <1>1, <1>3, <1>4 DEF HasString

\* The strings: what the projection reads is what the reference asks for.
LEMMA NamesAreChecked ==
  ASSUME NEW b \in Bundles, LanguagesFirst(b)
  PROVE  /\ IsInjective(StringKeys(b)) /\ HasLanguage(b)
         /\ \A k \in 1 .. 3 : b.device.names[k] # 0 =>
               UsbStringReads(b, b.device.names[k])
         /\ FunctionFsStringsRead(b)
         <=> NamesDeclared(b)
<1> DEFINE s == b.strings
           l == LanguageOf(b)
           shown == InterfaceNames(b.config.body)
           mapped == MappedNames(b.config.body)
           Different == \A j, k \in DOMAIN s : j # k =>
                           \/ s[j].index # s[k].index
                           \/ s[j].language # s[k].language
           There(i) == \E k \in DOMAIN s :
                          /\ s[k].index = i /\ s[k].language = l
                          /\ s[k].form = "text"
                                \/ (s[k].form = "nul" /\ i \notin shown)
           Reads(i) == /\ UsbStringReads(b, i)
                       /\ i \in shown => FormOf(b, i, l) = "text"
<1>1. IsInjective(StringKeys(b)) <=> Different
  <2>1. /\ DOMAIN StringKeys(b) = DOMAIN s
        /\ \A k \in DOMAIN s : StringKeys(b)[k] = <<s[k].index, s[k].language>>
    BY DEF StringKeys
  <2>2. \A j, k \in DOMAIN s :
           StringKeys(b)[j] = StringKeys(b)[k] <=>
              s[j].index = s[k].index /\ s[j].language = s[k].language
    BY <2>1
  <2> QED
    BY <2>1, <2>2 DEF IsInjective
<1>2. 1 \in DOMAIN s /\ s[1].index = 0 /\ s[1].language = 0
         /\ s[1].form = "languages"
  BY BundleFields DEF LanguagesFirst
<1>3. IsInjective(StringKeys(b)) => HasLanguage(b)
  BY <1>2, OneForm DEF HasLanguage
<1>4. ASSUME Different, NEW i
      PROVE  Reads(i) <=> There(i)
  <2>1. IsInjective(StringKeys(b))
    BY <1>1, <1>4
  <2>2. HasString(b, i, l) =>
           \E k \in DOMAIN s : s[k].index = i /\ s[k].language = l
    BY DEF HasString, StringKeys
  <2>3. \A k \in DOMAIN s : s[k].index = i /\ s[k].language = l =>
           HasString(b, i, l) /\ FormOf(b, i, l) = s[k].form
    BY <2>1, OneForm
  <2> HIDE DEF l, shown, s
  <2>4. UsbStringReads(b, i) <=>
           HasString(b, i, l) /\ FormOf(b, i, l) \in {"text", "nul"}
    BY DEF UsbStringReads, l
  <2> QED
    BY <2>2, <2>3, <2>4
<1>5. /\ \A n \in DOMAIN mapped : mapped[n] \in shown \ {0}
      /\ \A i \in shown \ {0} : \E n \in DOMAIN mapped : mapped[n] = i
  BY BundleFields, NamesAreMapped
<1>6. FunctionFsStringsRead(b) <=> \A i \in shown \ {0} :
         UsbStringReads(b, i) /\ FormOf(b, i, l) = "text"
  <2> HIDE DEF mapped, shown
  <2>1. FunctionFsStringsRead(b) <=> \A n \in DOMAIN mapped :
           UsbStringReads(b, mapped[n]) /\ FormOf(b, mapped[n], l) = "text"
    BY DEF FunctionFsStringsRead, mapped
  <2> QED
    BY <1>5, <2>1
<1>7. (\A k \in 1 .. 3 : b.device.names[k] # 0 =>
          UsbStringReads(b, b.device.names[k]))
         <=> \A i \in DeviceNames(b) \ {0} : UsbStringReads(b, i)
  BY DEF DeviceNames
<1>8. NamesDeclared(b) <=>
         /\ \A i \in (DeviceNames(b) \cup shown) \ {0} : There(i)
         /\ Different
  BY <1>2 DEF NamesDeclared
<1> HIDE DEF There, Different, shown, l, s
<1>9. CASE Different
  <2>1. \A i \in shown \ {0} :
           Reads(i) <=> UsbStringReads(b, i) /\ FormOf(b, i, l) = "text"
    OBVIOUS
  <2>2. \A i \in DeviceNames(b) \ shown : Reads(i) <=> UsbStringReads(b, i)
    OBVIOUS
  <2>3. \A i : Reads(i) => UsbStringReads(b, i)
    OBVIOUS
  <2> HIDE DEF Reads
  <2>4. \A i : Reads(i) <=> There(i)
    BY <1>4, <1>9
  <2> QED
    BY <1>1, <1>3, <1>6, <1>7, <1>8, <1>9, <2>1, <2>2, <2>3, <2>4
<1>10. CASE ~Different
  BY <1>1, <1>8, <1>10
<1> QED
  BY <1>9, <1>10

\* The identifiers and the properties are checked in the blob, what they belong
\* to in the bundle.
LEMMA MicrosoftIsChecked ==
  ASSUME NEW m \in MicrosoftOs, NEW present
  PROVE  /\ MicrosoftReads(m, present)
         /\ \A k \in DOMAIN OsSections(m) :
               SectionParses(OsSections(m)[k], present)
         <=> MicrosoftDeclared(m, present) /\ Len(m.compat) <= MaxByte
<1> DEFINE s == OsSections(m)
           owners == PropertyOwners(m)
           Of(i) == PropertiesOf(m, i)
           Parse == \A k \in DOMAIN s : SectionParses(s[k], present)
<1>1. /\ \A k \in DOMAIN s :
            \/ m.compat # <<>> /\ s[k] = CompatSection(m)
            \/ \E i \in owners : s[k] = PropertiesSection(m, i)
      /\ m.compat # <<>> => \E k \in DOMAIN s : s[k] = CompatSection(m)
      /\ \A i \in owners : \E k \in DOMAIN s : s[k] = PropertiesSection(m, i)
  BY SectionsListed
<1> HIDE DEF s
<1>2. Parse <=>
         /\ m.compat # <<>> => SectionParses(CompatSection(m), present)
         /\ \A i \in owners : SectionParses(PropertiesSection(m, i), present)
  BY <1>1
<1>3. m.compat \in Seq(CompatibleIds)
         /\ DOMAIN m.compat = 1 .. Len(m.compat) /\ Len(m.compat) \in Nat
  BY DEF MicrosoftOs
<1>4. m.compat # <<>> =>
         (SectionParses(CompatSection(m), present) <=>
             \A k \in DOMAIN m.compat :
                m.compat[k].interface \in present /\ m.compat[k].id = "graphic")
  <2>1. m.compat # <<>> => 1 \in DOMAIN m.compat
    BY <1>3
  <2> QED
    BY <2>1 DEF SectionParses, CompatSection, CompatParses
<1>5. ASSUME NEW i \in owners
      PROVE  SectionParses(PropertiesSection(m, i), present) <=>
                /\ i \in present
                /\ \A k \in DOMAIN m.properties :
                      m.properties[k].interface = i =>
                         /\ m.properties[k].type \in 1 .. 7
                         /\ m.properties[k].name = "ascii"
  <2>1. /\ Of(i) # <<>>
        /\ \A n \in DOMAIN Of(i) : \E k \in DOMAIN m.properties :
              Of(i)[n] = m.properties[k] /\ m.properties[k].interface = i
        /\ \A k \in DOMAIN m.properties : m.properties[k].interface = i =>
              \E n \in DOMAIN Of(i) : Of(i)[n] = m.properties[k]
    BY PropertiesListed
  <2> HIDE DEF Of
  <2>2. SectionParses(PropertiesSection(m, i), present) <=>
           /\ i \in present
           /\ Of(i) # <<>>
           /\ \A n \in DOMAIN Of(i) :
                 Of(i)[n].type \in 1 .. 7 /\ Of(i)[n].name = "ascii"
    BY DEF SectionParses, PropertiesSection, PropertiesParse, Of
  <2> QED
    BY <2>1, <2>2
<1>6. \A k \in DOMAIN m.properties : m.properties[k].interface \in owners
  BY DEF PropertyOwners
<1>7. \A i \in owners :
         \E k \in DOMAIN m.properties : m.properties[k].interface = i
  BY DEF PropertyOwners
<1> HIDE DEF owners
<1>8. (\A k \in DOMAIN m.compat : \A j \in 1 .. k - 1 :
          m.compat[j].interface # m.compat[k].interface)
         <=> (\A j, k \in DOMAIN m.compat : j # k =>
                 m.compat[j].interface # m.compat[k].interface)
  <2>1. \A j, k \in DOMAIN m.compat :
           j # k => j \in 1 .. k - 1 \/ k \in 1 .. j - 1
    BY <1>3
  <2>2. \A k \in DOMAIN m.compat : \A j \in 1 .. k - 1 :
           j \in DOMAIN m.compat /\ j # k
    BY <1>3
  <2> QED
    BY <2>1, <2>2
<1>9. (\A i \in owners : SectionParses(PropertiesSection(m, i), present))
         <=> \A k \in DOMAIN m.properties :
                /\ m.properties[k].interface \in present
                /\ m.properties[k].type \in 1 .. 7
                /\ m.properties[k].name = "ascii"
  BY <1>5, <1>6, <1>7
<1>10. (m.compat # <<>> => SectionParses(CompatSection(m), present))
          <=> \A k \in DOMAIN m.compat :
                 m.compat[k].interface \in present /\ m.compat[k].id = "graphic"
  <2>1. m.compat = <<>> => DOMAIN m.compat = {}
    BY <1>3
  <2> QED
    BY <1>4, <2>1
<1> HIDE DEF Parse
<1>11. MicrosoftReads(m, present) /\ Parse
          <=> MicrosoftDeclared(m, present) /\ Len(m.compat) <= MaxByte
  BY <1>2, <1>8, <1>9, <1>10 DEF MicrosoftReads, MicrosoftDeclared
<1> QED
  BY <1>11 DEF Parse, s

\* WebUSB: what the projection reads is what the reference asks for.
LEMMA WebUsbIsChecked ==
  ASSUME NEW w \in WebUsbs, NEW usb
  PROVE  WebUsbReads(w, usb) <=>
            usb = "new" /\ w.version = "1.0" /\ w.vendor # 0 /\ w.page # "other"
<1>1. w.page \in Pages
  BY Zenon DEF WebUsbs
<1>2. w.page \in {"", "http"} <=> w.page # "other"
  BY <1>1, Zenon DEF Pages
<1> QED
  BY <1>2, Zenon DEF WebUsbReads

\* What publish_functionfs still has to find out.
LEMMA PublishesWhen ==
  ASSUME NEW b \in Bundles
  PROVE  Publishes(Projection(b)) <=>
            /\ SetParses(Rewritten(b.config.body))
            /\ \A k \in DOMAIN ProjectedSections(b) :
                  SectionParses(ProjectedSections(b)[k],
                                Interfaces(b.config.body))
<1> DEFINE p == Projection(b)
           d == p.descriptors
           body == b.config.body
           t == ProjectedSections(b)
<1>1. body \in Seq(Descriptors)
  BY BundleFields
<1>2. /\ DOMAIN d.counts = {1} /\ Len(d.counts) = 1
      /\ SetEnds(d)[1] <= Len(d.stream)
      /\ SpeedSet(d, 1) = Rewritten(body)
      /\ Sections(d) = t /\ t \in Seq(OsSection)
      /\ d.os = (t # <<>>) /\ d.osCount = Len(t)
  BY ProjectionParts
<1>3. Interfaces(SpeedSet(d, 1)) = Interfaces(body)
  BY <1>1, <1>2, InterfacesKeepNumbers
<1>4. p.strings = FunctionFsStrings(b) /\ p.endpoints = ProjectedEndpoints(body)
  BY DEF Projection
<1>5. StringsPass(p.strings)
  <2> DEFINE names == MappedNames(body)
             c == Len(names)
             texts == [n \in DOMAIN names |-> UsbString(b, names[n])]
             languages == IF names = <<>> THEN <<>> ELSE <<LanguageOf(b)>>
             h == Len(languages)
  <2>1. names \in Seq(Nat \ {0})
    BY <1>1, NamesAreMapped
  <2>2. c \in Nat /\ DOMAIN names = 1 .. c
    BY <2>1
  <2>3. names = <<>> => c = 0
    BY <2>1
  <2>4. names # <<>> => h = 1
    OBVIOUS
  <2>5. names = <<>> => h = 0
    OBVIOUS
  <2>6. Len(texts) = c
    BY <2>2
  <2>7. FunctionFsStrings(b) = [count |-> c, languages |-> languages,
                                texts |-> texts]
    BY DEF FunctionFsStrings
  <2> HIDE DEF names, c, texts, languages, h
  <2>8. c = c * h
    BY <2>2, <2>3, <2>4, <2>5
  <2> QED
    BY <1>4, <2>6, <2>7, <2>8 DEF StringsPass, h
<1>6. Len(EndpointFiles(p)) = Len(p.endpoints)
  <2>1. EndpointFiles(p) = Files(Rewritten(body))
    BY <1>2 DEF EndpointFiles, InspectedEndpoints
  <2> QED
    BY <1>1, <1>4, <2>1, EndpointsInOrder
<1> HIDE DEF t, d, body
<1>7. d.os => d.osCount # 0
  <2>1. t # <<>> => Len(t) \in Nat \ {0}
    BY <1>2, EmptySeq
  <2> QED
    BY <1>2, <2>1
<1>8. Len(t) = IF d.os THEN d.osCount ELSE 0
  BY <1>2
<1>9. DescriptorsPass(d) <=>
         /\ SetParses(Rewritten(body))
         /\ \A k \in DOMAIN t : SectionParses(t[k], Interfaces(body))
  <2>1. DescriptorsPass(d) <=>
           /\ \A k \in {1} : /\ SetParses(SpeedSet(d, k))
                             /\ Files(SpeedSet(d, k)) = Files(SpeedSet(d, 1))
                             /\ Interfaces(SpeedSet(d, k))
                                   = Interfaces(SpeedSet(d, 1))
           /\ \A k \in DOMAIN t :
                 SectionParses(t[k], Interfaces(SpeedSet(d, 1)))
    BY <1>2, <1>7, <1>8 DEF DescriptorsPass
  <2> QED
    BY <1>2, <1>3, <2>1
<1> QED
  BY <1>5, <1>6, <1>9 DEF Publishes, Passes, d, t, body

\* Taken together the two validations accept what is well declared.
LEMMA BothValidate ==
  ASSUME NEW b \in Bundles, LanguagesFirst(b), Finishes(b)
  PROVE  Projects(b) /\ Publishes(Projection(b)) <=> WellDeclared(b)
<1> DEFINE body == b.config.body
           present == Interfaces(body)
           Microsoft1 == \A k \in DOMAIN b.microsoft :
                            MicrosoftReads(b.microsoft[k], present)
           Microsoft2 == \A k \in DOMAIN ProjectedSections(b) :
                            SectionParses(ProjectedSections(b)[k], present)
           Microsoft3 == \A k \in DOMAIN b.microsoft :
                            MicrosoftDeclared(b.microsoft[k], present)
           Counts == \A k \in DOMAIN b.microsoft :
                        Len(b.microsoft[k].compat) <= MaxByte
           Room == \A k \in InterfacePositions(b) :
               Cardinality({body[j].name :
                   j \in {i \in InterfacePositions(b) : i < k}} \ {0}) < MaxByte
               \/ body[k].name = 0
           Web == \A k \in DOMAIN b.webusb :
                     WebUsbReads(b.webusb[k], b.device.usb)
           Names == /\ IsInjective(StringKeys(b)) /\ HasLanguage(b)
                    /\ \A k \in 1 .. 3 : b.device.names[k] # 0 =>
                          UsbStringReads(b, b.device.names[k])
                    /\ FunctionFsStringsRead(b)
<1>1. Microsoft1 /\ Microsoft2 <=> Microsoft3 /\ Counts
  <2>1. CASE b.microsoft = <<>>
    <3>1. ProjectedSections(b) = <<>>
      BY <2>1 DEF ProjectedSections
    <3>2. DOMAIN <<>> = {}
      OBVIOUS
    <3> QED
      BY <2>1, <3>1, <3>2
  <2>2. CASE b.microsoft # <<>>
    <3> DEFINE m == b.microsoft[1]
               s == OsSections(m)
               Parse == \A k \in DOMAIN s : SectionParses(s[k], present)
    <3>1. DOMAIN b.microsoft = {1} /\ m \in MicrosoftOs
      BY <2>2, BundleFields, MicrosoftType, OptionType, 0 \in Nat
    <3>2. ProjectedSections(b) = s
      BY <2>2 DEF ProjectedSections
    <3>3. MicrosoftReads(m, present) /\ Parse <=>
             MicrosoftDeclared(m, present) /\ Len(m.compat) <= MaxByte
      BY <3>1, MicrosoftIsChecked
    <3>4. Microsoft2 <=> Parse
      BY <3>2
    <3> HIDE DEF Parse, Microsoft2, present
    <3> QED
      BY <3>1, <3>3, <3>4
  <2> QED
    BY <2>1, <2>2
<1>2. Web <=> \A k \in DOMAIN b.webusb :
         /\ b.device.usb = "new" /\ b.webusb[k].version = "1.0"
         /\ b.webusb[k].vendor # 0 /\ b.webusb[k].page # "other"
  <2>1. b.webusb \in Seq(WebUsbs)
    BY BundleFields DEF AtMostOne
  <2>2. \A k \in DOMAIN b.webusb : b.webusb[k] \in WebUsbs
    <3> HIDE DEF WebUsbs
    <3> QED
      BY <2>1
  <2> QED
    BY <2>2, WebUsbIsChecked, Zenon
<1>3. Names <=> NamesDeclared(b)
  BY NamesAreChecked
<1>4. BodyReads(body) /\ SetParses(Rewritten(body)) <=> TopologyDeclared(b)
  BY TopologyIsChecked
<1>5. NumbersFit(body) <=> Room
  BY NumbersAreChecked
<1>6. Publishes(Projection(b)) <=> SetParses(Rewritten(body)) /\ Microsoft2
  BY PublishesWhen
<1>7. {body[i].number : i \in InterfacePositions(b)} = present
  BY DEF InterfacePositions, Interfaces
<1> HIDE DEF Web, Names, Room, Microsoft2
<1>8. Projects(b) <=>
         /\ b.device.configurations = 1 /\ b.config.value = 1
         /\ BodyReads(body) /\ NumbersFit(body)
         /\ Len(b.strings) <= MaxStrings /\ Names
         /\ Microsoft1 /\ Web
  BY DEF Projects, ConfigurationReads, StringsRead, CapabilitiesRead, Finishes,
         Names, Web
<1>9. WellDeclared(b) <=>
         /\ b.device.configurations = 1 /\ b.config.value = 1
         /\ NamesDeclared(b) /\ TopologyDeclared(b)
         /\ Len(b.strings) <= MaxStrings /\ Counts /\ Room
         /\ Microsoft3 /\ Web
  BY <1>2, <1>7 DEF WellDeclared, WithinLimits, Room
<1> HIDE DEF body, Microsoft1, Microsoft3, Counts
<1> QED
  BY <1>1, <1>3, <1>4, <1>5, <1>6, <1>8, <1>9

\* ServedIffWellDeclared: discover_bundle before the old generation goes and
\* inspect after it accept and refuse, between them, exactly what the reference
\* does; neither checks it all.
THEOREM WellDeclaredIsServed == Spec => []ServedIffWellDeclared
<1>1. ASSUME PipelineInv  PROVE ServedIffWellDeclared
  <2>1. phase \in Configuring =>
           (Projects(bundle) /\ Publishes(Projection(bundle))
               <=> WellDeclared(bundle))
    BY <1>1, BothValidate DEF PipelineInv, PipelineTypeOK, SourceInv
  <2>2. PublishInv
    BY <1>1 DEF PipelineInv
  <2>3. phase \in {"served", "failed"} => personality[1] = Projection(bundle)
    BY <2>2 DEF PublishInv
  <2>4. /\ phase = "served" => Projects(bundle) /\ Publishes(personality[1])
        /\ phase = "failed" => ~Publishes(personality[1])
        /\ phase = "rejected" => ~Projects(bundle)
    BY <2>2 DEF PublishInv
  <2> QED
    BY <2>1, <2>3, <2>4 DEF ServedIffWellDeclared, Configuring
<1> QED
  BY <1>1, PipelineIsInvariant, PTL
=============================================================================
