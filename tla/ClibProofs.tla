----------------------------- MODULE ClibProofs -----------------------------
(***************************************************************************)
(* Proofs about module Clib: what the caches keep is right, who asks for a *)
(* component gets it, and the oldest data is evicted.                      *)
(*                                                                         *)
(* The inductive invariant is ClibInv.  It says when pointers to freed     *)
(* symbols may be left: in the caches only while no source has a symbol at *)
(* all, since any listing that succeeds flushes them, and in the selector  *)
(* only when it was open during a listing (Keeping).                       *)
(*                                                                         *)
(* Searching goes over the sources and trimming goes in rounds, both given *)
(* by recursive functions.  What they compute is shown for sets of numbers *)
(* (SetInduction): the facts about n rounds hold for 0 and are passed on.  *)
(* ListingKeeps covers the steps that list sources, OtherKeeps, OpenKeeps  *)
(* and LoadingKeeps those that use symbols.                                *)
(***************************************************************************)
EXTENDS Clib, FiniteSetTheorems, WellFoundedInduction, TLAPS

-----------------------------------------------------------------------------
(* Induction, as a fact about sets of numbers. *)

\* A set that has 0, and with a number the next one, has them all.
LEMMA SetInduction ==
  ASSUME NEW S, 0 \in S, \A n \in Nat : n \in S => n + 1 \in S
  PROVE  \A n \in Nat : n \in S
<1> SUFFICES ASSUME Nat \ S # {} PROVE FALSE
  OBVIOUS
<1> DEFINE R == {ss \in Nat \X Nat : ss[1] < ss[2]}
<1>1. IsWellFoundedOn(R, Nat)
  <2>1. IsWellFoundedOn(OpToRel(<, Nat), Nat)
    BY NatLessThanWellFounded
  <2> QED
    BY <2>1 DEF OpToRel
<1> DEFINE T == Nat \ S
<1>2. T \subseteq Nat /\ T # {}
  OBVIOUS
<1> HIDE DEF R, T
<1>3. PICK x \in T : \A y \in T : <<y, x>> \notin R
  BY <1>1, <1>2, WFMin
<1>4. x \in Nat /\ x \notin S /\ \A y \in Nat : y < x => y \in S
  BY <1>2, <1>3 DEF R, T
<1>5. x # 0 /\ x - 1 \in Nat
  BY <1>4
<1>6. x - 1 \in S
  BY <1>4, <1>5
<1> QED
  BY <1>4, <1>5, <1>6

-----------------------------------------------------------------------------
(* Searching. *)

\* One step of NonEmpty, and all of them up to the k-th.
UptoStep(sets, g, i) ==
  IF i = 0 THEN <<>>
  ELSE IF sets[i] = {} THEN g[i - 1]
  ELSE Append(g[i - 1], sets[i])

UptoIs(sets, g, k) == g = [i \in 0 .. k |-> UptoStep(sets, g, i)]

\* The steps can be taken one by one.
LEMMA UptoExists ==
  ASSUME NEW sets
  PROVE  \A k \in Nat : \E g : UptoIs(sets, g, k)
<1> DEFINE S == {k \in Nat : \E g : UptoIs(sets, g, k)}
<1>1. 0 \in S
  <2>1. UptoIs(sets, [i \in 0 .. 0 |-> <<>>], 0)
    BY DEF UptoIs, UptoStep
  <2> QED
    BY <2>1
<1>2. ASSUME NEW k \in Nat, k \in S
      PROVE  k + 1 \in S
  <2>1. PICK g : UptoIs(sets, g, k)
    BY <1>2
  <2> DEFINE h == [i \in 0 .. k + 1 |-> IF i = k + 1 THEN UptoStep(sets, g, k + 1) ELSE g[i]]
  <2>2. \A i \in 0 .. k : h[i] = g[i]
    OBVIOUS
  <2>3. h[k + 1] = UptoStep(sets, g, k + 1)
    OBVIOUS
  <2>4. h = [i \in 0 .. k + 1 |-> h[i]]
    OBVIOUS
  <2> HIDE DEF h
  <2>5. \A i \in 0 .. k + 1 : h[i] = UptoStep(sets, h, i)
    <3> TAKE i \in 0 .. k + 1
    <3>1. CASE i = k + 1
      <4>1. h[k] = g[k] /\ (k + 1) - 1 = k
        BY <2>2
      <4> QED
        BY <2>3, <3>1, <4>1 DEF UptoStep
    <3>2. CASE i \in 0 .. k
      <4>1. g[i] = UptoStep(sets, g, i)
        BY <2>1, <3>2 DEF UptoIs
      <4>2. i # 0 => h[i - 1] = g[i - 1]
        BY <2>2, <3>2
      <4> QED
        BY <2>2, <3>2, <4>1, <4>2 DEF UptoStep
    <3> QED
      BY <3>1, <3>2
  <2>6. UptoIs(sets, h, k + 1)
    BY <2>4, <2>5 DEF UptoIs
  <2> QED
    BY <2>6
<1> HIDE DEF S
<1>3. \A k \in Nat : k \in S
  BY <1>1, <1>2, SetInduction
<1> QED
  BY <1>3 DEF S

\* What NonEmpty computes.
LEMMA NonEmptyIs ==
  ASSUME NEW sets, Len(sets) \in Nat
  PROVE  \E g : UptoIs(sets, g, Len(sets)) /\ NonEmpty(sets) = g[Len(sets)]
<1> DEFINE g == CHOOSE g : g = [i \in 0 .. Len(sets) |->
                  IF i = 0 THEN <<>>
                  ELSE IF sets[i] = {} THEN g[i - 1]
                  ELSE Append(g[i - 1], sets[i])]
<1>1. NonEmpty(sets) = g[Len(sets)]
  BY DEF NonEmpty
<1>2. UptoIs(sets, g, Len(sets))
  BY UptoExists DEF UptoIs, UptoStep
<1> QED
  BY <1>1, <1>2

\* The result holds some of the sets, none of them empty.
LEMMA NonEmptyType ==
  ASSUME NEW S, NEW sets \in Seq(S)
  PROVE  NonEmpty(sets) \in Seq(S \ {{}})
<1>1. Len(sets) \in Nat /\ \A i \in 1 .. Len(sets) : sets[i] \in S
  OBVIOUS
<1>2. PICK g : UptoIs(sets, g, Len(sets)) /\ NonEmpty(sets) = g[Len(sets)]
  BY <1>1, NonEmptyIs
<1> DEFINE N == Len(sets)
           K == {k \in Nat : k <= N => g[k] \in Seq(S \ {{}})}
<1>3. \A i \in 0 .. N : g[i] = UptoStep(sets, g, i)
  BY <1>2 DEF UptoIs
<1>4. 0 \in K
  <2>1. g[0] = <<>>
    BY <1>1, <1>3 DEF UptoStep
  <2>2. <<>> \in Seq(S \ {{}})
    OBVIOUS
  <2> QED
    BY <2>1, <2>2
<1>5. ASSUME NEW k \in Nat, k \in K
      PROVE  k + 1 \in K
  <2> SUFFICES ASSUME k + 1 <= N PROVE g[k + 1] \in Seq(S \ {{}})
    OBVIOUS
  <2>1. g[k] \in Seq(S \ {{}})
    BY <1>1, <1>5
  <2>2. g[k + 1] = IF sets[k + 1] = {} THEN g[k] ELSE Append(g[k], sets[k + 1])
    BY <1>1, <1>3 DEF UptoStep
  <2>3. sets[k + 1] \in S
    BY <1>1
  <2> QED
    BY <2>1, <2>2, <2>3
<1> HIDE DEF K
<1>6. N \in K
  BY <1>1, <1>4, <1>5, SetInduction
<1> QED
  BY <1>1, <1>2, <1>6 DEF K

\* A set that is empty makes no difference at the front.
LEMMA NonEmptySkips ==
  ASSUME NEW S, NEW sets \in Seq(S), NEW more \in Seq(S \cup {{}}),
         Len(more) = Len(sets) + 1, more[1] = {},
         \A i \in 1 .. Len(sets) : more[i + 1] = sets[i]
  PROVE  NonEmpty(more) = NonEmpty(sets)
<1> DEFINE N == Len(sets)
<1>1. N \in Nat /\ Len(more) \in Nat
  OBVIOUS
<1>2. PICK g : UptoIs(sets, g, N) /\ NonEmpty(sets) = g[N]
  BY <1>1, NonEmptyIs
<1>3. PICK h : UptoIs(more, h, N + 1) /\ NonEmpty(more) = h[N + 1]
  BY <1>1, NonEmptyIs
<1>4. /\ \A i \in 0 .. N : g[i] = UptoStep(sets, g, i)
      /\ \A i \in 0 .. N + 1 : h[i] = UptoStep(more, h, i)
  BY <1>2, <1>3 DEF UptoIs
<1> DEFINE K == {k \in Nat : k <= N => h[k + 1] = g[k]}
<1>5. 0 \in K
  BY <1>1, <1>4 DEF UptoStep
<1>6. ASSUME NEW k \in Nat, k \in K
      PROVE  k + 1 \in K
  <2> SUFFICES ASSUME k + 1 <= N PROVE h[k + 2] = g[k + 1]
    BY <1>1
  <2>1. h[k + 1] = g[k]
    BY <1>1, <1>6
  <2>2. g[k + 1] = IF sets[k + 1] = {} THEN g[k] ELSE Append(g[k], sets[k + 1])
    BY <1>1, <1>4 DEF UptoStep
  <2>3. h[k + 2] = IF more[k + 2] = {} THEN h[k + 1] ELSE Append(h[k + 1], more[k + 2])
    BY <1>1, <1>4 DEF UptoStep
  <2>4. more[k + 2] = sets[k + 1]
    BY <1>1
  <2> QED
    BY <2>1, <2>2, <2>3, <2>4
<1> HIDE DEF K
<1>7. N \in K
  BY <1>1, <1>5, <1>6, SetInduction
<1> QED
  BY <1>1, <1>2, <1>3, <1>7 DEF K

-----------------------------------------------------------------------------
(* Cleaning the cache. *)

\* The rounds of CleanUp, as it computes them.
RoundStep(c, x, g, i) ==
  IF i = 0 THEN {[c |-> c, ptr |-> x, at |-> c[x].accessed]}
  ELSE UNION {Cleaned(t) : t \in g[i - 1]}

RoundsAre(c, x, g, k) == g = [i \in 0 .. k |-> RoundStep(c, x, g, i)]

\* The rounds can be taken one by one.
LEMMA RoundsExist ==
  ASSUME NEW c, NEW x
  PROVE  \A k \in Nat : \E g : RoundsAre(c, x, g, k)
<1> DEFINE S == {k \in Nat : \E g : RoundsAre(c, x, g, k)}
<1>1. 0 \in S
  <2> DEFINE g == [i \in 0 .. 0 |-> {[c |-> c, ptr |-> x, at |-> c[x].accessed]}]
  <2>1. RoundsAre(c, x, g, 0)
    BY DEF RoundsAre, RoundStep
  <2> QED
    BY <2>1
<1>2. ASSUME NEW k \in Nat, k \in S
      PROVE  k + 1 \in S
  <2>1. PICK g : RoundsAre(c, x, g, k)
    BY <1>2
  <2> DEFINE h == [i \in 0 .. k + 1 |-> IF i = k + 1 THEN RoundStep(c, x, g, k + 1) ELSE g[i]]
  <2>2. \A i \in 0 .. k : h[i] = g[i]
    OBVIOUS
  <2>3. h[k + 1] = RoundStep(c, x, g, k + 1)
    OBVIOUS
  <2>4. h = [i \in 0 .. k + 1 |-> h[i]]
    OBVIOUS
  <2> HIDE DEF h
  <2>5. \A i \in 0 .. k + 1 : h[i] = RoundStep(c, x, h, i)
    <3> TAKE i \in 0 .. k + 1
    <3>1. CASE i = k + 1
      <4>1. h[k] = g[k] /\ (k + 1) - 1 = k
        BY <2>2
      <4> QED
        BY <2>3, <3>1, <4>1 DEF RoundStep
    <3>2. CASE i \in 0 .. k
      <4>1. g[i] = RoundStep(c, x, g, i)
        BY <2>1, <3>2 DEF RoundsAre
      <4>2. i # 0 => h[i - 1] = g[i - 1]
        BY <2>2, <3>2
      <4> QED
        BY <2>2, <3>2, <4>1, <4>2 DEF RoundStep
    <3> QED
      BY <3>1, <3>2
  <2>6. RoundsAre(c, x, h, k + 1)
    BY <2>4, <2>5 DEF RoundsAre
  <2> QED
    BY <2>6
<1> HIDE DEF S
<1>3. \A k \in Nat : k \in S
  BY <1>1, <1>2, SetInduction
<1> QED
  BY <1>3 DEF S

\* What is left of cache p, some rounds after symbol x was put into it. The entries that
\* are gone were used no later than those that stay; after the first round one is gone,
\* and `cached' points at nothing in the cache.
Left(p, x, i, t) ==
  /\ DOMAIN t.c \subseteq DOMAIN p
  /\ \A y \in DOMAIN t.c : t.c[y] = p[y]
  /\ \A y \in DOMAIN p \ DOMAIN t.c, z \in DOMAIN t.c : p[y].accessed <= p[z].accessed
  /\ t.at \in Int
  /\ i = 0 => t.c = p /\ t.ptr = x /\ t.at = p[x].accessed
  /\ i # 0 => t.ptr = NoSymbol /\ DOMAIN t.c # DOMAIN p

\* x is the entry of p used last.
LastUsed(p, x) ==
  /\ x \in DOMAIN p /\ NoSymbol \notin DOMAIN p
  /\ \A y \in DOMAIN p : p[y].accessed \in Int /\ p[y].accessed <= p[x].accessed

\* One round.
LEMMA CleanedLeaves ==
  ASSUME MaxClock \in Int, NEW p, NEW x, LastUsed(p, x), NEW i \in Nat, NEW t, Left(p, x, i, t),
         NEW u \in Cleaned(t)
  PROVE  Left(p, x, i + 1, u)
<1> DEFINE older == {y \in DOMAIN t.c : t.c[y].accessed < t.at}
           oldest == {y \in older : \A z \in older : t.c[y].accessed <= t.c[z].accessed}
           gone == IF older = {} THEN {t.ptr} ELSE oldest
<1>1. PICK y \in gone : \E at \in 0 .. MaxClock + 1 :
        u = [c |-> Restrict(t.c, DOMAIN t.c \ {y}), ptr |-> NoSymbol, at |-> at]
  BY DEF Cleaned
<1>2. /\ DOMAIN u.c = DOMAIN t.c \ {y}
      /\ \A z \in DOMAIN u.c : u.c[z] = t.c[z]
      /\ u.ptr = NoSymbol /\ u.at \in Int
  BY <1>1 DEF Restrict
<1>3. DOMAIN u.c \subseteq DOMAIN p /\ \A z \in DOMAIN u.c : u.c[z] = p[z]
  BY <1>2 DEF Left
<1>4. y \in DOMAIN t.c => \A z \in DOMAIN u.c : p[y].accessed <= p[z].accessed
  <2> SUFFICES ASSUME y \in DOMAIN t.c, NEW z \in DOMAIN u.c
               PROVE  p[y].accessed <= p[z].accessed
    OBVIOUS
  <2>1. /\ t.c[y] = p[y] /\ t.c[z] = p[z] /\ y \in DOMAIN p /\ z \in DOMAIN p
        /\ z \in DOMAIN t.c /\ t.at \in Int
    BY <1>2 DEF Left
  <2>2. p[y].accessed \in Int /\ p[z].accessed \in Int
    BY <2>1 DEF LastUsed
  <2>3. CASE older = {}
    <3>1. y = t.ptr
      BY <2>3
    <3>2. i = 0
      BY <2>1, <3>1 DEF Left, LastUsed
    <3>3. t.at = p[y].accessed
      BY <3>1, <3>2 DEF Left
    <3>4. ~(p[z].accessed < t.at)
      BY <2>1, <2>3
    <3> QED
      BY <2>2, <3>3, <3>4
  <2>4. CASE older # {}
    <3>1. y \in older /\ \A v \in older : t.c[y].accessed <= t.c[v].accessed
      BY <2>4
    <3>2. CASE z \in older
      BY <2>1, <3>1, <3>2
    <3>3. CASE z \notin older
      <4>1. ~(p[z].accessed < t.at) /\ p[y].accessed < t.at
        BY <2>1, <3>1, <3>3
      <4> QED
        BY <2>1, <2>2, <4>1
    <3> QED
      BY <3>2, <3>3
  <2> QED
    BY <2>3, <2>4
<1>5. \A w \in DOMAIN p \ DOMAIN u.c, z \in DOMAIN u.c : p[w].accessed <= p[z].accessed
  <2> TAKE w \in DOMAIN p \ DOMAIN u.c, z \in DOMAIN u.c
  <2>1. CASE w = y /\ y \in DOMAIN t.c
    BY <1>4, <2>1
  <2>2. CASE w \in DOMAIN p \ DOMAIN t.c
    BY <1>2, <2>2 DEF Left
  <2> QED
    BY <1>2, <2>1, <2>2
<1>6. DOMAIN u.c # DOMAIN p
  <2>1. CASE i # 0
    BY <1>2, <2>1 DEF Left
  <2>2. CASE i = 0
    <3>1. t.c = p /\ t.ptr = x
      BY <2>2 DEF Left
    <3>2. y \in DOMAIN p
      BY <1>1, <3>1 DEF LastUsed
    <3> QED
      BY <1>2, <3>2
  <2> QED
    BY <2>1, <2>2
<1> QED
  BY <1>2, <1>3, <1>5, <1>6 DEF Left

\* What CleanUp leaves of a cache that is too large.
LEMMA CleanUpLeaves ==
  ASSUME MaxClock \in Int, NEW p, NEW x, LastUsed(p, x), Cardinality(DOMAIN p) \in Nat,
         MinCache \in Nat, Cardinality(DOMAIN p) > MinCache, NEW c \in CleanUp(p, x)
  PROVE  /\ DOMAIN c \subseteq DOMAIN p /\ DOMAIN c # DOMAIN p
         /\ \A y \in DOMAIN c : c[y] = p[y]
         /\ \A y \in DOMAIN p \ DOMAIN c, z \in DOMAIN c : p[y].accessed <= p[z].accessed
<1> DEFINE r == Cardinality(DOMAIN p) - MinCache
           g == CHOOSE g : g = [i \in 0 .. r |->
                  IF i = 0 THEN {[c |-> p, ptr |-> x, at |-> p[x].accessed]}
                  ELSE UNION {Cleaned(t) : t \in g[i - 1]}]
<1>1. CleanUp(p, x) = {t.c : t \in g[r]}
  BY DEF CleanUp
<1>2. r \in Nat /\ r # 0
  OBVIOUS
<1> HIDE DEF r
<1>3. RoundsAre(p, x, g, r)
  <2>1. \E h : RoundsAre(p, x, h, r)
    BY <1>2, RoundsExist
  <2>2. \E h : h = [i \in 0 .. r |->
                  IF i = 0 THEN {[c |-> p, ptr |-> x, at |-> p[x].accessed]}
                  ELSE UNION {Cleaned(t) : t \in h[i - 1]}]
    BY <2>1, Zenon DEF RoundsAre, RoundStep
  <2>3. g = [i \in 0 .. r |->
                  IF i = 0 THEN {[c |-> p, ptr |-> x, at |-> p[x].accessed]}
                  ELSE UNION {Cleaned(t) : t \in g[i - 1]}]
    BY <2>2, Zenon
  <2> QED
    BY <2>3, Zenon DEF RoundsAre, RoundStep
<1> HIDE DEF g
<1>4. \A i \in 0 .. r : g[i] = RoundStep(p, x, g, i)
  <2> HIDE DEF RoundStep
  <2> QED
    BY <1>3 DEF RoundsAre
<1> DEFINE K == {k \in Nat : k <= r => \A t \in g[k] : Left(p, x, k, t)}
<1>5. 0 \in K
  <2>1. g[0] = {[c |-> p, ptr |-> x, at |-> p[x].accessed]}
    <3>1. g[0] = RoundStep(p, x, g, 0)
      BY <1>2, <1>4
    <3> QED
      BY <3>1, Zenon DEF RoundStep
  <2>2. p[x].accessed \in Int
    BY DEF LastUsed
  <2>3. Left(p, x, 0, [c |-> p, ptr |-> x, at |-> p[x].accessed])
    BY <2>2 DEF Left
  <2> QED
    BY <2>1, <2>3
<1>6. ASSUME NEW k \in Nat, k \in K
      PROVE  k + 1 \in K
  <2> SUFFICES ASSUME k + 1 <= r, NEW u \in g[k + 1] PROVE Left(p, x, k + 1, u)
    OBVIOUS
  <2>1. g[k + 1] = UNION {Cleaned(t) : t \in g[k]}
    <3>1. g[k + 1] = RoundStep(p, x, g, k + 1) /\ k + 1 # 0 /\ (k + 1) - 1 = k
      BY <1>2, <1>4
    <3> QED
      BY <3>1, Zenon DEF RoundStep
  <2>2. PICK t \in g[k] : u \in Cleaned(t)
    BY <2>1
  <2>3. Left(p, x, k, t)
    BY <1>2, <1>6
  <2> QED
    BY <2>2, <2>3, CleanedLeaves
<1> HIDE DEF K
<1>7. r \in K
  BY <1>2, <1>5, <1>6, SetInduction
<1>8. PICK t \in g[r] : c = t.c
  BY <1>1
<1>9. Left(p, x, r, t)
  BY <1>2, <1>7 DEF K
<1> QED
  BY <1>2, <1>8, <1>9 DEF Left

-----------------------------------------------------------------------------
(* The inductive invariant. *)

\* The names of symbols are kept with their sources.
SourcesAreSeparate ==
  /\ sources \in Seq(Sources)
  /\ IsInjective(sources)
  /\ symbols \in [Sources -> SUBSET Symbols]
  /\ name \in [Symbols -> Names \cup {NoSymbol}]
  /\ \A s, t \in Sources : s # t => symbols[s] \cap symbols[t] = {}
  /\ \A s \in Sources \ Range(sources) : symbols[s] = {}

\* Results that are kept name some symbols at least.
Results == Seq((SUBSET Symbols) \ {{}}) \ {<<>>}
SearchesHaveResults == DOMAIN search \subseteq Names /\ \A n \in DOMAIN search : search[n] \in Results

\* An entry of the cache of data.
IsEntry(e) == e.accessed \in 0 .. now /\ e.data # Nothing /\ e.data # Freed

\* A cache of data within its limit.
Fits(c) ==
  /\ IsFiniteSet(DOMAIN c) /\ Cardinality(DOMAIN c) <= MaxCache
  /\ DOMAIN c \subseteq Symbols
  /\ \A x \in DOMAIN c : IsEntry(c[x])

\* The data of d is that of symbol x.
IsOf(d, x) == \E s \in Sources : x \in symbols[s] /\ d[1] = s /\ d[2] = name[x]

DataIsTrue(c) == \A x \in DOMAIN c : IsOf(c[x].data, x)

\* Who keeps pointers to freed symbols: the caches only when all symbols were freed at
\* once, since every listing that succeeds flushes them.
Keeping ==
  /\ "caches" \notin dangling => DataIsTrue(cache) /\ \A n \in DOMAIN search : search[n] = Scan(n)
  /\ "caches" \in dangling => Live = {}
  /\ "selector" \notin dangling => rows \subseteq Live

ClibInv ==
  /\ SourcesAreSeparate
  /\ SearchesHaveResults
  /\ now \in Nat
  /\ Fits(cache)
  /\ rows \subseteq Symbols
  /\ Keeping

-----------------------------------------------------------------------------
(* Listing sources. *)

\* A cache that is flushed fits.
LEMMA EmptyFits == DOMAIN <<>> = {} /\ IsFiniteSet({}) /\ Cardinality({}) = 0
  BY FS_EmptySet

\* The symbols of different sources are different.
LEMMA RelistType ==
  ASSUME SourcesAreSeparate, NEW which \in SUBSET Sources, Relist(which)
  PROVE  /\ symbols' \in [Sources -> SUBSET Symbols]
         /\ name' \in [Symbols -> Names \cup {NoSymbol}]
         /\ \A s, t \in Sources : s # t => symbols'[s] \cap symbols'[t] = {}
         /\ \A s \in Sources \ which : symbols'[s] = symbols[s]
<1> DEFINE rest == UNION {symbols[s] : s \in Sources \ which}
           new(f, s) == {f[h] : h \in {k \in Held(which) : k[1] = s}}
<1>1. PICK f \in Injection(Held(which), Symbols \ rest) :
        /\ symbols' = [s \in Sources |-> IF s \in which THEN new(f, s) ELSE symbols[s]]
        /\ name' = [x \in Symbols |->
                     IF x \in Range(f) THEN (CHOOSE h \in Held(which) : f[h] = x)[2]
                     ELSE IF \E s \in which : x \in symbols[s] THEN NoSymbol ELSE name[x]]
  BY DEF Relist
<1>2. /\ f \in [Held(which) -> Symbols \ rest]
      /\ \A h, k \in Held(which) : f[h] = f[k] => h = k
  BY DEF Injection, IsInjective
<1>3. \A h \in Held(which) : h[2] \in Names
  BY DEF Held
<1>4. symbols \in [Sources -> SUBSET Symbols]
  BY DEF SourcesAreSeparate
<1>5. \A s \in Sources : new(f, s) \subseteq Symbols \ rest
  BY <1>2
<1>6. \A s, t \in Sources : s # t => new(f, s) \cap new(f, t) = {}
  BY <1>2
<1>7. \A s \in Sources \ which : symbols[s] \subseteq rest
  BY <1>4
<1>8. name' \in [Symbols -> Names \cup {NoSymbol}]
  <2> SUFFICES ASSUME NEW x \in Symbols PROVE name'[x] \in Names \cup {NoSymbol}
    BY <1>1
  <2>1. CASE x \in Range(f)
    <3>1. \E h \in Held(which) : f[h] = x
      BY <1>2, <2>1 DEF Range
    <3>2. (CHOOSE h \in Held(which) : f[h] = x) \in Held(which)
      BY <3>1
    <3> QED
      BY <1>1, <1>3, <2>1, <3>2
  <2>2. CASE x \notin Range(f)
    BY <1>1, <2>2 DEF SourcesAreSeparate
  <2> QED
    BY <2>1, <2>2
<1>9. \A s, t \in Sources : s # t => symbols[s] \cap symbols[t] = {}
  BY DEF SourcesAreSeparate
<1>10. \A s \in Sources : symbols'[s] = IF s \in which THEN new(f, s) ELSE symbols[s]
  BY <1>1
<1>11. symbols' \in [Sources -> SUBSET Symbols]
  <2>1. \A s \in Sources : (IF s \in which THEN new(f, s) ELSE symbols[s]) \in SUBSET Symbols
    BY <1>4, <1>5
  <2> HIDE DEF new
  <2> QED
    BY <1>1, <2>1
<1> HIDE DEF new, rest
<1>12. \A s, t \in Sources : s # t => symbols'[s] \cap symbols'[t] = {}
  <2> TAKE s, t \in Sources
  <2> SUFFICES ASSUME s # t, NEW x, x \in symbols'[s], x \in symbols'[t] PROVE FALSE
    OBVIOUS
  <2>1. CASE s \in which /\ t \in which
    BY <1>6, <1>10, <2>1
  <2>2. CASE s \in which /\ t \notin which
    BY <1>5, <1>7, <1>10, <2>2
  <2>3. CASE s \notin which /\ t \in which
    BY <1>5, <1>7, <1>10, <2>3
  <2>4. CASE s \notin which /\ t \notin which
    BY <1>9, <1>10, <2>4
  <2> QED
    BY <2>1, <2>2, <2>3, <2>4
<1> QED
  BY <1>8, <1>10, <1>11, <1>12

\* Sources that cannot be listed have no symbols afterwards; if they had none before,
\* nothing has happened.
LEMMA RelistBroken ==
  ASSUME SourcesAreSeparate, NEW which \in SUBSET Sources, which \subseteq broken, Relist(which)
  PROVE  /\ \A s \in which : symbols'[s] = {}
         /\ (\A s \in which : symbols[s] = {}) => symbols' = symbols /\ name' = name
<1>1. Held(which) = {}
  BY DEF Held
<1>2. PICK f \in Injection(Held(which), Symbols \ UNION {symbols[s] : s \in Sources \ which}) :
        /\ symbols' = [s \in Sources |->
                        IF s \in which THEN {f[h] : h \in {k \in Held(which) : k[1] = s}}
                        ELSE symbols[s]]
        /\ name' = [x \in Symbols |->
                     IF x \in Range(f) THEN (CHOOSE h \in Held(which) : f[h] = x)[2]
                     ELSE IF \E s \in which : x \in symbols[s] THEN NoSymbol ELSE name[x]]
  BY DEF Relist
<1>3. Range(f) = {}
  BY <1>1 DEF Injection, Range
<1>4. symbols' = [s \in Sources |-> IF s \in which THEN {} ELSE symbols[s]]
  BY <1>1, <1>2
<1>5. name' = [x \in Symbols |-> IF \E s \in which : x \in symbols[s] THEN NoSymbol ELSE name[x]]
  BY <1>2, <1>3
<1>6. ASSUME \A s \in which : symbols[s] = {}
      PROVE  symbols' = symbols /\ name' = name
  <2>1. symbols = [s \in Sources |-> symbols[s]] /\ name = [x \in Symbols |-> name[x]]
    BY DEF SourcesAreSeparate
  <2> QED
    BY <1>4, <1>5, <1>6, <2>1
<1> QED
  BY <1>4, <1>6

\* The symbols that are freed when the sources of which are listed again.
Gone(which) == UNION {symbols[s] : s \in which}

\* Listing sources again, as rc files and Revert do.
LEMMA ListingKeeps ==
  ASSUME ClibInv, NEW which \in SUBSET Sources, Relist(which), Flush(which),
         rows' = rows, now' = now, dangling' = Keepers(which, rows),
         sources' \in Seq(Sources), IsInjective(sources'),
         Range(sources') = Range(sources) \cup which,
         symbols' = symbols /\ name' = name => \A n \in Names : Scan(n)' = Scan(n),
         Gone(which) = {} \/ Range(sources) \subseteq which
  PROVE  ClibInv'
<1>1. SourcesAreSeparate'
  <2>1. \A s \in Sources \ Range(sources') : symbols'[s] = {}
    BY RelistType DEF ClibInv, SourcesAreSeparate
  <2> QED
    BY <2>1, RelistType DEF ClibInv, SourcesAreSeparate
<1>2. ASSUME "selector" \notin dangling' PROVE rows' \subseteq Live'
  <2>1. "selector" \notin dangling /\ Gone(which) \cap rows = {}
    BY <1>2 DEF Keepers, Gone
  <2>2. rows \subseteq Live
    BY <2>1 DEF ClibInv, Keeping
  <2>3. \A x \in rows : \E s \in Sources : x \in symbols'[s]
    <3> TAKE x \in rows
    <3>1. PICK s \in Sources : x \in symbols[s]
      BY <2>2 DEF Live
    <3>2. s \notin which
      BY <2>1, <3>1 DEF Gone
    <3>3. symbols'[s] = symbols[s]
      BY <3>2, RelistType DEF ClibInv
    <3> QED
      BY <3>1, <3>3
  <2> QED
    BY <2>3 DEF Live
<1>3. CASE ~(which \subseteq broken)
  <2>1. search' = <<>> /\ cache' = <<>>
    BY <1>3 DEF Flush
  <2>2. "caches" \notin dangling'
    BY <1>3 DEF Keepers
  <2>3. SearchesHaveResults' /\ Fits(cache)'
    BY <2>1, EmptyFits, ClibAssumption DEF SearchesHaveResults, Fits
  <2>4. Keeping'
    BY <1>2, <2>1, <2>2, EmptyFits DEF Keeping, DataIsTrue
  <2> QED
    BY <1>1, <2>3, <2>4 DEF ClibInv
<1>4. CASE which \subseteq broken
  <2>1. search' = search /\ cache' = cache
    BY <1>4 DEF Flush
  <2>2. SearchesHaveResults' /\ Fits(cache)'
    BY <2>1 DEF ClibInv, SearchesHaveResults, Results, Fits, IsEntry
  <2>3. CASE Gone(which) = {}
    <3>1. symbols' = symbols /\ name' = name
      BY <1>4, <2>3, RelistBroken DEF ClibInv, Gone
    <3>2. "caches" \in dangling' <=> "caches" \in dangling
      BY <1>4, <2>3 DEF Keepers, Gone
    <3>3. Live' = Live
      BY <3>1 DEF Live
    <3>4. DataIsTrue(cache) => DataIsTrue(cache)'
      BY <2>1, <3>1 DEF DataIsTrue, IsOf
    <3>5. \A n \in DOMAIN search : search[n] = Scan(n) => search'[n] = Scan(n)'
      BY <2>1, <3>1 DEF ClibInv, SearchesHaveResults
    <3>6. Keeping'
      BY <1>2, <2>1, <3>2, <3>3, <3>4, <3>5 DEF ClibInv, Keeping
    <3> QED
      BY <1>1, <2>2, <3>6 DEF ClibInv
  <2>4. CASE Gone(which) # {}
    <3>1. "caches" \in dangling'
      BY <1>4, <2>4 DEF Keepers, Gone
    <3>2. \A s \in Sources : symbols'[s] = {}
      <4> TAKE s \in Sources
      <4>1. CASE s \in which
        BY <1>4, <4>1, RelistBroken DEF ClibInv
      <4>2. CASE s \notin which
        BY <2>4, <4>2, RelistType DEF ClibInv, SourcesAreSeparate
      <4> QED
        BY <4>1, <4>2
    <3>3. Live' = {}
      BY <3>2 DEF Live
    <3>4. Keeping'
      BY <1>2, <3>1, <3>3 DEF Keeping
    <3> QED
      BY <1>1, <2>2, <3>4 DEF ClibInv
  <2> QED
    BY <2>3, <2>4
<1> QED
  BY <1>3, <1>4

\* The sets of symbols in use that have a name.
HasName(n) == {X \in SUBSET Live : \A x \in X : x \in Symbols /\ name[x] = n}

\* What the sources have of a name is a sequence of such sets, one for each source.
LEMMA FoundType ==
  ASSUME SourcesAreSeparate, NEW n
  PROVE  Found(n) \in Seq(HasName(n)) /\ Len(Found(n)) = Len(sources)
<1>1. sources \in Seq(Sources) /\ symbols \in [Sources -> SUBSET Symbols]
  BY DEF SourcesAreSeparate
<1>2. DOMAIN sources = 1 .. Len(sources) /\ Len(sources) \in Nat
  BY <1>1
<1>3. \A i \in 1 .. Len(sources) : {x \in symbols[sources[i]] : name[x] = n} \in HasName(n)
  BY <1>1 DEF HasName, Live
<1> HIDE DEF HasName
<1> QED
  BY <1>2, <1>3 DEF Found

\* What is found has the name that was searched for.
LEMMA ScanType ==
  ASSUME SourcesAreSeparate, NEW n
  PROVE  Scan(n) \in Seq(HasName(n) \ {{}})
  BY FoundType, NonEmptyType DEF Scan

\* What is found is a result that can be kept.
LEMMA ScanResult ==
  ASSUME SourcesAreSeparate, NEW n, Scan(n) # <<>>
  PROVE  Scan(n) \in Results /\ Head(Scan(n)) \in HasName(n)
<1>1. Scan(n) \in Seq(HasName(n) \ {{}})
  BY ScanType
<1>2. HasName(n) \ {{}} \subseteq (SUBSET Symbols) \ {{}}
  BY DEF HasName
<1>3. \A S, T : S \subseteq T => Seq(S) \subseteq Seq(T)
  OBVIOUS
<1>4. Scan(n) \in Seq((SUBSET Symbols) \ {{}})
  BY <1>1, <1>2, <1>3
<1> QED
  BY <1>1, <1>4 DEF Results

\* A new source without symbols changes no search.
LEMMA AddedSkips ==
  ASSUME SourcesAreSeparate, NEW s \in Sources, symbols[s] = {},
         sources' = <<s>> \o sources, symbols' = symbols, name' = name, NEW n
  PROVE  Scan(n)' = Scan(n)
<1> DEFINE more == Found(n)'
<1>1. Found(n) \in Seq(HasName(n)) /\ Len(Found(n)) = Len(sources) /\ sources \in Seq(Sources)
  BY FoundType DEF SourcesAreSeparate
<1>2. /\ sources' \in Seq(Sources) /\ Len(sources') = Len(sources) + 1 /\ Len(sources) \in Nat
      /\ sources'[1] = s
      /\ \A i \in 1 .. Len(sources) : sources'[i + 1] = sources[i]
  BY <1>1
<1>3. more = [i \in 1 .. Len(sources) + 1 |-> {x \in symbols[sources'[i]] : name[x] = n}]
  BY <1>2 DEF Found
<1>4. Found(n) = [i \in 1 .. Len(sources) |-> {x \in symbols[sources[i]] : name[x] = n}]
  BY <1>1 DEF Found
<1>5. /\ more[1] = {}
      /\ \A i \in 1 .. Len(sources) : more[i + 1] = Found(n)[i]
  BY <1>2, <1>3, <1>4
<1>6. more \in Seq(HasName(n) \cup {{}}) /\ Len(more) = Len(Found(n)) + 1
  <2>1. \A i \in 1 .. Len(sources) + 1 : {x \in symbols[sources'[i]] : name[x] = n} \in HasName(n)
    <3> TAKE i \in 1 .. Len(sources) + 1
    <3>1. sources'[i] \in Sources
      BY <1>2
    <3>2. \A t \in Sources : symbols[t] \subseteq Symbols /\ symbols[t] \subseteq Live
      BY DEF SourcesAreSeparate, Live
    <3> QED
      BY <3>1, <3>2 DEF HasName
  <2> DEFINE m == Len(sources) + 1
  <2> HIDE DEF HasName, more
  <2>2. m \in Nat /\ DOMAIN more = 1 .. m /\ more = [i \in 1 .. m |-> more[i]]
    BY <1>2, <1>3
  <2>3. \A i \in 1 .. m : more[i] \in HasName(n) \cup {{}}
    BY <1>3, <2>1
  <2> QED
    BY <1>1, <2>2, <2>3
<1> HIDE DEF more, HasName
<1>7. NonEmpty(more) = NonEmpty(Found(n))
  BY <1>1, <1>5, <1>6, NonEmptySkips
<1> QED
  BY <1>7 DEF Scan, more

\* An rc file adds a source.
LEMMA AddKeeps ==
  ASSUME ClibInv, NEW s \in Sources, AddSource(s)
  PROVE  ClibInv'
<1>1. /\ s \notin Range(sources) /\ Relist({s}) /\ Flush({s})
      /\ sources' = <<s>> \o sources
      /\ dangling' = Keepers({s}, {})
      /\ rows' = rows /\ now' = now
  BY DEF AddSource, world
<1>2. SourcesAreSeparate
  BY DEF ClibInv
<1>3. symbols[s] = {}
  BY <1>1, <1>2 DEF SourcesAreSeparate
<1>4. Gone({s}) = {}
  BY <1>3 DEF Gone
<1>5. dangling' = Keepers({s}, rows)
  BY <1>1, <1>4 DEF Keepers, Gone
<1>6. sources \in Seq(Sources) /\ IsInjective(sources)
  BY <1>2 DEF SourcesAreSeparate
<1>7. /\ sources' \in Seq(Sources)
      /\ Len(sources') = Len(sources) + 1 /\ Len(sources) \in Nat
      /\ sources'[1] = s
      /\ \A i \in 1 .. Len(sources) : sources'[i + 1] = sources[i]
      /\ DOMAIN sources = 1 .. Len(sources)
      /\ DOMAIN sources' = 1 .. Len(sources) + 1
  BY <1>1, <1>6
<1>8. Range(sources') = Range(sources) \cup {s}
  <2>1. \A i \in 1 .. Len(sources) + 1 : i = 1 \/ i - 1 \in 1 .. Len(sources)
    BY <1>7
  <2>2. \A i \in 1 .. Len(sources) + 1 : sources'[i] = s \/ sources'[i] \in Range(sources)
    <3> TAKE i \in 1 .. Len(sources) + 1
    <3> SUFFICES ASSUME i # 1 PROVE sources'[i] \in Range(sources)
      BY <1>7
    <3>1. i - 1 \in DOMAIN sources /\ (i - 1) + 1 = i
      BY <1>7, <2>1
    <3>2. sources'[i] = sources[i - 1]
      BY <1>7, <3>1
    <3> QED
      BY <3>1, <3>2 DEF Range
  <2>3. Range(sources') \subseteq Range(sources) \cup {s}
    BY <1>7, <2>2 DEF Range
  <2>4. s \in Range(sources')
    <3>1. 1 \in DOMAIN sources'
      BY <1>7
    <3> QED
      BY <1>7, <3>1 DEF Range
  <2>5. \A i \in DOMAIN sources : sources[i] \in Range(sources')
    <3> TAKE i \in DOMAIN sources
    <3>1. i + 1 \in DOMAIN sources' /\ sources'[i + 1] = sources[i]
      BY <1>7
    <3> QED
      BY <3>1 DEF Range
  <2>6. Range(sources) \subseteq Range(sources')
    BY <2>5 DEF Range
  <2> QED
    BY <2>3, <2>4, <2>6
<1>9. IsInjective(sources')
  <2> SUFFICES ASSUME NEW i \in DOMAIN sources', NEW j \in DOMAIN sources',
                      sources'[i] = sources'[j]
               PROVE  i = j
    BY DEF IsInjective
  <2>1. \A k \in DOMAIN sources' : k # 1 => /\ k - 1 \in DOMAIN sources
                                            /\ sources'[k] = sources[k - 1]
                                            /\ sources'[k] # s
    <3> TAKE k \in DOMAIN sources'
    <3> SUFFICES ASSUME k # 1
                 PROVE  /\ k - 1 \in DOMAIN sources
                        /\ sources'[k] = sources[k - 1]
                        /\ sources'[k] # s
      OBVIOUS
    <3>1. k - 1 \in 1 .. Len(sources) /\ (k - 1) + 1 = k
      BY <1>7
    <3>2. sources'[k] = sources[k - 1]
      BY <1>7, <3>1
    <3> QED
      BY <1>1, <1>7, <3>1, <3>2 DEF Range
  <2>2. CASE i = 1 \/ j = 1
    BY <1>7, <2>1, <2>2
  <2>3. CASE i # 1 /\ j # 1
    <3>1. i - 1 = j - 1
      BY <1>6, <2>1, <2>3 DEF IsInjective
    <3> QED
      BY <1>7, <3>1
  <2> QED
    BY <2>2, <2>3
<1>10. symbols' = symbols /\ name' = name => \A n \in Names : Scan(n)' = Scan(n)
  BY <1>1, <1>2, <1>3, AddedSkips
<1> QED
  BY <1>1, <1>4, <1>5, <1>7, <1>8, <1>9, <1>10, ListingKeeps

\* While the symbols of the sources stay, so do the results of searches.
LEMMA SameScan ==
  ASSUME sources' = sources, symbols' = symbols, name' = name, NEW n
  PROVE  Scan(n)' = Scan(n)
<1>1. Found(n)' = Found(n)
  BY DEF Found
<1> QED
  BY <1>1 DEF Scan

\* Revert lists all sources again.
LEMMA RevertKeeps ==
  ASSUME ClibInv, PageRevert
  PROVE  ClibInv'
<1>1. /\ Relist(Range(sources)) /\ Flush(Range(sources))
      /\ dangling' = Keepers(Range(sources), rows)
      /\ sources' = sources /\ rows' = rows /\ now' = now
  BY DEF PageRevert, world
<1>2. sources \in Seq(Sources) /\ IsInjective(sources)
  BY DEF ClibInv, SourcesAreSeparate
<1>3. Range(sources) \subseteq Sources
  BY <1>2 DEF Range
<1>4. symbols' = symbols /\ name' = name => \A n \in Names : Scan(n)' = Scan(n)
  BY <1>1, SameScan
<1>5. Range(sources') = Range(sources) \cup Range(sources)
  BY <1>1
<1>6. sources' \in Seq(Sources) /\ IsInjective(sources')
  BY <1>1, <1>2
<1> HIDE DEF ClibInv
<1> QED
  BY <1>1, <1>3, <1>4, <1>5, <1>6, ListingKeeps

\* reset-component-library frees everything.
LEMMA ResetKeeps ==
  ASSUME ClibInv, Reset
  PROVE  ClibInv'
<1>1. /\ sources' = <<>> /\ symbols' = [s \in Sources |-> {}]
      /\ name' = [x \in Symbols |-> NoSymbol]
      /\ search' = <<>> /\ cache' = <<>>
      /\ dangling' = IF rows = {} THEN {} ELSE {"selector"}
      /\ rows' = rows /\ now' = now
  BY DEF Reset, world
<1>2. SourcesAreSeparate'
  <2>1. sources' \in Seq(Sources) /\ IsInjective(sources')
    BY <1>1 DEF IsInjective
  <2> QED
    BY <1>1, <2>1 DEF SourcesAreSeparate
<1>3. SearchesHaveResults' /\ Fits(cache)'
  BY <1>1, EmptyFits, ClibAssumption DEF SearchesHaveResults, Fits
<1>4. Live' = {}
  BY <1>1 DEF Live
<1>5. Keeping'
  BY <1>1, <1>4, EmptyFits DEF Keeping, DataIsTrue
<1> QED
  BY <1>1, <1>2, <1>3, <1>5 DEF ClibInv

\* ScanResult, for any state.
SearchesFind ==
  SourcesAreSeparate =>
    \A n : Scan(n) # <<>> => Scan(n) \in Results /\ Head(Scan(n)) \in HasName(n)

\* It holds in the state after a step too.
LEMMA ResultsAreFound == SearchesFind /\ SearchesFind'
<1>1. SearchesFind
  BY ScanResult DEF SearchesFind
<1> QED
  BY <1>1, PTL

\* The first of some results is a set of symbols.
LEMMA HeadOfResult ==
  ASSUME NEW r \in Results
  PROVE  Head(r) \in SUBSET Symbols /\ r # <<>>
<1>1. r \in Seq((SUBSET Symbols) \ {{}}) /\ r # <<>>
  BY DEF Results
<1>2. Len(r) \in Nat /\ Len(r) # 0
  BY <1>1
<1>3. 1 \in 1 .. Len(r)
  BY <1>2
<1> QED
  BY <1>1, <1>3

\* Refresh in the selector.
LEMMA RefreshKeeps ==
  ASSUME ClibInv, SelectorRefresh
  PROVE  ClibInv'
<1> DEFINE all == Range(sources)
           kept == IF all \subseteq broken THEN search ELSE <<>>
           Result(n) == IF n \in DOMAIN kept THEN kept[n] ELSE Scan(n)'
<1>1. PICK used \in SUBSET Names :
        /\ rows # {}
        /\ Relist(all) /\ UNCHANGED <<sources, world, loaded>>
        /\ search' = [n \in {m \in used \cup DOMAIN kept : Result(m) # <<>>} |-> Result(n)]
        /\ cache' = IF all \subseteq broken THEN cache ELSE <<>>
        /\ rows' = Live' \cup UNION {Head(search'[n]) : n \in used \cap DOMAIN search'}
        /\ dangling' = Keepers(all, rows') \ (IF rows' \subseteq Live' THEN {"selector"} ELSE {})
  BY DEF SelectorRefresh
<1>2. sources' = sources /\ now' = now
  BY <1>1 DEF world
<1>3. SourcesAreSeparate /\ all \in SUBSET Sources
  BY DEF ClibInv, SourcesAreSeparate, Range
<1>4. SourcesAreSeparate'
  <2>1. \A s \in Sources \ Range(sources') : symbols'[s] = {}
    BY <1>1, <1>2, <1>3, RelistType DEF SourcesAreSeparate
  <2> QED
    BY <1>1, <1>2, <1>3, <2>1, RelistType DEF SourcesAreSeparate
<1>5. \A n : Scan(n)' # <<>> => Scan(n)' \in Results /\ Head(Scan(n)') \in HasName(n)'
  BY <1>4, ResultsAreFound DEF SearchesFind
<1>6. DOMAIN kept \subseteq Names /\ \A n \in DOMAIN kept : kept[n] \in Results
  BY EmptyFits DEF ClibInv, SearchesHaveResults
<1>7. \A n \in DOMAIN search' : /\ n \in used \cup DOMAIN kept
                                /\ search'[n] = Result(n) /\ Result(n) # <<>>
  BY <1>1
<1>8. DOMAIN search' \subseteq Names
  BY <1>1, <1>6
<1> HIDE DEF kept, all
<1>9. SearchesHaveResults'
  <2>1. \A n \in DOMAIN search' : search'[n] \in Results
    BY <1>5, <1>6, <1>7
  <2> QED
    BY <1>8, <2>1 DEF SearchesHaveResults, Results
<1>10. Live' \subseteq Symbols
  BY <1>4 DEF SourcesAreSeparate, Live
<1>11. \A n \in DOMAIN search' : Head(search'[n]) \subseteq Symbols
  BY <1>9, HeadOfResult DEF SearchesHaveResults, Results
<1>12. rows' \subseteq Symbols
  BY <1>1, <1>10, <1>11
<1>13. \A x \in rows' : x \notin Live' =>
         \E n \in DOMAIN search' : n \in used /\ x \in Head(search'[n])
  <2>1. rows' = Live' \cup UNION {Head(search'[n]) : n \in used \cap DOMAIN search'}
    BY <1>1
  <2> QED
    BY <2>1
<1>14. \A n \in DOMAIN search' : n \notin DOMAIN kept => Head(search'[n]) \subseteq Live'
  <2> TAKE n \in DOMAIN search'
  <2> SUFFICES ASSUME n \notin DOMAIN kept PROVE Head(search'[n]) \subseteq Live'
    OBVIOUS
  <2>1. search'[n] = Scan(n)' /\ Scan(n)' # <<>>
    BY <1>7
  <2>2. Head(Scan(n)') \in HasName(n)'
    BY <1>5, <2>1
  <2> QED
    BY <2>1, <2>2 DEF HasName
<1>15. CASE ~(all \subseteq broken)
  <2>1. kept = <<>> /\ cache' = <<>>
    BY <1>1, <1>15 DEF kept
  <2>2. \A n \in DOMAIN search' : search'[n] = Scan(n)' /\ Head(search'[n]) \subseteq Live'
    BY <1>7, <1>14, <2>1, EmptyFits
  <2>3. rows' \subseteq Live'
    BY <1>13, <2>2
  <2>4. "caches" \notin dangling'
    BY <1>1, <1>15 DEF Keepers
  <2>5. Fits(cache)'
    BY <2>1, EmptyFits, ClibAssumption DEF Fits
  <2>6. Keeping'
    BY <2>1, <2>2, <2>3, <2>4, EmptyFits DEF Keeping, DataIsTrue
  <2> QED
    BY <1>2, <1>4, <1>9, <1>12, <2>5, <2>6 DEF ClibInv
<1>16. CASE all \subseteq broken
  <2>1. kept = search /\ cache' = cache
    BY <1>1, <1>16 DEF kept
  <2>2. Fits(cache)'
    BY <1>2, <2>1 DEF ClibInv, Fits, IsEntry
  <2>3. \A s \in Sources : symbols'[s] = {}
    <3> TAKE s \in Sources
    <3>1. CASE s \in all
      BY <1>1, <1>3, <1>16, <3>1, RelistBroken
    <3>2. CASE s \notin all
      BY <1>1, <1>3, <3>2, RelistType DEF SourcesAreSeparate, all
    <3> QED
      BY <3>1, <3>2
  <2>4. Live' = {}
    BY <2>3 DEF Live
  <2>5. ASSUME "selector" \notin dangling' PROVE rows' \subseteq Live'
    <3> SUFFICES ASSUME ~(rows' \subseteq Live') PROVE FALSE
      OBVIOUS
    <3>1. "selector" \notin dangling /\ Gone(all) \cap rows' = {}
      BY <1>1, <2>5 DEF Keepers, Gone
    <3>2. rows \subseteq Live /\ rows # {}
      BY <1>1, <3>1 DEF ClibInv, Keeping
    <3>3. "caches" \notin dangling
      BY <3>2 DEF ClibInv, Keeping
    <3>4. PICK x \in rows' : x \notin Live'
      OBVIOUS
    <3>5. PICK n \in DOMAIN search' : n \in used /\ x \in Head(search'[n])
      BY <1>13, <3>4
    <3>6. n \in DOMAIN search /\ search'[n] = search[n]
      BY <1>7, <1>14, <2>1, <3>4, <3>5
    <3>7. search[n] = Scan(n)
      BY <3>3, <3>6 DEF ClibInv, Keeping
    <3>8. Head(search'[n]) \in HasName(n)
      BY <1>3, <1>7, <3>6, <3>7, ScanResult
    <3>9. Live = Gone(all)
      BY <1>3 DEF Live, Gone, SourcesAreSeparate, all
    <3>10. x \in Gone(all)
      BY <3>5, <3>8, <3>9 DEF HasName
    <3> QED
      BY <3>1, <3>4, <3>10
  <2>6. ASSUME "caches" \notin dangling'
        PROVE  DataIsTrue(cache)' /\ \A n \in DOMAIN search' : search'[n] = Scan(n)'
    <3>1. "caches" \notin dangling /\ Gone(all) = {}
      BY <1>1, <1>16, <2>6 DEF Keepers, Gone
    <3>2. symbols' = symbols /\ name' = name
      BY <1>1, <1>3, <1>16, <3>1, RelistBroken DEF Gone
    <3>3. \A n : Scan(n)' = Scan(n)
      BY <1>2, <3>2, SameScan
    <3>4. DataIsTrue(cache) /\ \A n \in DOMAIN search : search[n] = Scan(n)
      BY <3>1 DEF ClibInv, Keeping
    <3>5. DataIsTrue(cache)'
      BY <2>1, <3>2, <3>4 DEF DataIsTrue, IsOf
    <3>6. \A n \in DOMAIN search' : search'[n] = Scan(n)'
      BY <1>7, <2>1, <3>3, <3>4
    <3> QED
      BY <3>5, <3>6
  <2>7. Keeping'
    BY <2>4, <2>5, <2>6 DEF Keeping
  <2> QED
    BY <1>2, <1>4, <1>9, <1>12, <2>2, <2>7 DEF ClibInv
<1> QED
  BY <1>15, <1>16

-----------------------------------------------------------------------------
(* Getting the data of a symbol. *)

\* Cache q holds entries of cache p and no others.
PartOf(q, p) == DOMAIN q \subseteq DOMAIN p /\ \A y \in DOMAIN q : q[y] = p[y]

\* What is in p and not in q was used no later than what is in both.
OldestGone(p, q) ==
  \A y \in DOMAIN p \ DOMAIN q, z \in DOMAIN q : p[y].accessed <= p[z].accessed

\* A part of a cache that fits.
LEMMA PartFits ==
  ASSUME NEW p, Fits(p), NEW q, PartOf(q, p)
  PROVE  Fits(q) /\ (DataIsTrue(p) => DataIsTrue(q))
<1>1. IsFiniteSet(DOMAIN q) /\ Cardinality(DOMAIN q) <= Cardinality(DOMAIN p)
  BY FS_Subset DEF Fits, PartOf
<1>2. Cardinality(DOMAIN p) \in Nat /\ Cardinality(DOMAIN q) \in Nat
  BY <1>1, FS_CardinalityType DEF Fits
<1>3. Cardinality(DOMAIN q) <= MaxCache
  BY <1>1, <1>2, ClibAssumption DEF Fits
<1> QED
  BY <1>1, <1>3 DEF Fits, PartOf, DataIsTrue

\* A symbol in use belongs to one source, and its data says so.
LEMMA DataIsIts ==
  ASSUME NEW x, x \in Live
  PROVE  /\ IsOf(Data(x), x)
         /\ Data(x) # Nothing /\ Data(x) # Freed
<1>1. \E s \in Sources : x \in symbols[s]
  BY DEF Live
<1>2. SourceOf(x) \in Sources /\ x \in symbols[SourceOf(x)]
  BY <1>1 DEF SourceOf
<1>3. /\ Data(x)[1] = SourceOf(x) /\ Data(x)[2] = name[x] /\ Len(Data(x)) = 3
  BY DEF Data
<1>4. Len(Nothing) = 0 /\ Len(Freed) = 1
  BY DEF Nothing, Freed
<1>5. IsOf(Data(x), x)
  BY <1>2, <1>3 DEF IsOf
<1>6. Data(x) # Nothing
  BY <1>3, <1>4
<1>7. Data(x) # Freed
  BY <1>3, <1>4
<1> QED
  BY <1>5, <1>6, <1>7

\* Cache p is c with the data d of symbol x, used now.
Entered(p, c, x, d) ==
  /\ DOMAIN p = DOMAIN c \cup {x}
  /\ p[x].accessed = now /\ p[x].data = d
  /\ \A y \in DOMAIN c \ {x} : p[y] = c[y]
  /\ \A y \in DOMAIN p : IsEntry(p[y])
  /\ LastUsed(p, x)
  /\ IsFiniteSet(DOMAIN p) /\ Cardinality(DOMAIN p) \in Nat
  /\ Cardinality(DOMAIN p) <= MaxCache + 1
  /\ x \in DOMAIN c => Cardinality(DOMAIN p) <= MaxCache

\* Putting data into a cache that fits.
LEMMA PutEnters ==
  ASSUME NEW c, Fits(c), now \in Nat, NEW x \in Symbols, NEW d, d # Nothing, d # Freed
  PROVE  Entered(Put(c, x, d), c, x, d)
<1> DEFINE p == Put(c, x, d)
<1>1. p = [y \in DOMAIN c \cup {x} |-> IF y = x THEN [data |-> d, accessed |-> now] ELSE c[y]]
  BY DEF Put
<1> HIDE DEF p
<1>2. /\ DOMAIN p = DOMAIN c \cup {x}
      /\ p[x] = [data |-> d, accessed |-> now]
      /\ \A y \in DOMAIN c \ {x} : p[y] = c[y]
  BY <1>1
<1>3. p[x].accessed = now /\ p[x].data = d
  BY <1>2
<1>4. IsEntry(p[x])
  BY <1>3 DEF IsEntry
<1>5. \A y \in DOMAIN p : IsEntry(p[y])
  BY <1>2, <1>4 DEF Fits
<1>6. LastUsed(p, x)
  <2>1. NoSymbol \notin DOMAIN p
    BY <1>2, ClibAssumption DEF Fits
  <2> QED
    BY <1>2, <1>3, <1>5, <2>1 DEF LastUsed, IsEntry
<1>7. /\ IsFiniteSet(DOMAIN p)
      /\ Cardinality(DOMAIN p) = IF x \in DOMAIN c THEN Cardinality(DOMAIN c)
                                 ELSE Cardinality(DOMAIN c) + 1
  BY <1>2, FS_AddElement DEF Fits
<1>8. Cardinality(DOMAIN c) \in Nat /\ Cardinality(DOMAIN c) <= MaxCache
  BY FS_CardinalityType DEF Fits
<1>9. Entered(p, c, x, d)
  BY <1>2, <1>3, <1>5, <1>6, <1>7, <1>8, ClibAssumption DEF Entered
<1> QED
  BY <1>9 DEF p

\* The cache after it was trimmed.
LEMMA TrimmedFits ==
  ASSUME NEW c, Fits(c), NEW x \in Symbols, NEW d, NEW p, Entered(p, c, x, d),
         NEW q \in Trimmed(p, x)
  PROVE  /\ Fits(q) /\ PartOf(q, p) /\ OldestGone(p, q)
         /\ Cardinality(DOMAIN p) <= MaxCache => q = p
<1>1. /\ DOMAIN p = DOMAIN c \cup {x} /\ LastUsed(p, x)
      /\ \A y \in DOMAIN p : IsEntry(p[y])
      /\ IsFiniteSet(DOMAIN p) /\ Cardinality(DOMAIN p) \in Nat
      /\ Cardinality(DOMAIN p) <= MaxCache + 1
  BY DEF Entered
<1>2. DOMAIN p \subseteq Symbols
  BY <1>1 DEF Fits
<1>3. MaxCache \in Nat /\ MinCache \in Nat /\ MinCache < MaxCache /\ MaxClock \in Int
  BY ClibAssumption
<1>4. CASE Cardinality(DOMAIN p) <= MaxCache
  <2>1. q = p
    BY <1>4 DEF Trimmed
  <2> QED
    BY <1>1, <1>2, <1>4, <2>1 DEF Fits, PartOf, OldestGone
<1>5. CASE ~(Cardinality(DOMAIN p) <= MaxCache)
  <2>1. q \in CleanUp(p, x) /\ Cardinality(DOMAIN p) > MinCache
    BY <1>1, <1>3, <1>5 DEF Trimmed
  <2>2. /\ DOMAIN q \subseteq DOMAIN p /\ DOMAIN q # DOMAIN p
        /\ \A y \in DOMAIN q : q[y] = p[y]
        /\ \A y \in DOMAIN p \ DOMAIN q, z \in DOMAIN q : p[y].accessed <= p[z].accessed
    BY <1>1, <1>3, <2>1, CleanUpLeaves
  <2>3. /\ IsFiniteSet(DOMAIN q) /\ Cardinality(DOMAIN q) <= Cardinality(DOMAIN p)
        /\ Cardinality(DOMAIN q) # Cardinality(DOMAIN p)
    BY <1>1, <2>2, FS_Subset
  <2>4. Cardinality(DOMAIN q) \in Nat
    BY <2>3, FS_CardinalityType
  <2>5. Cardinality(DOMAIN q) <= MaxCache
    BY <1>1, <1>3, <2>3, <2>4
  <2> QED
    BY <1>1, <1>2, <1>5, <2>2, <2>3, <2>5 DEF Fits, PartOf, OldestGone
<1> QED
  BY <1>4, <1>5

\* The three ways GetData can go.
LEMMA GetDataCases ==
  ASSUME NEW c, NEW n, NEW x, GetData(c, n, x)
  PROVE  \/ cache' = c /\ x \notin DOMAIN c /\ x \notin Live /\ loaded' = Answer(n, Freed)
         \/ /\ cache' = c /\ x \notin DOMAIN c /\ x \in Live /\ Missing(x)
            /\ loaded' = Answer(n, Nothing)
         \/ x \in DOMAIN c /\ cache' = Put(c, x, c[x].data) /\ loaded' = Answer(n, c[x].data)
         \/ /\ x \notin DOMAIN c /\ x \in Live /\ ~Missing(x)
            /\ cache' \in Trimmed(Put(c, x, Data(x)), x)
            /\ loaded' = Answer(n, Data(x))
  BY DEF GetData

\* Whatever it does, the cache keeps its limit and its entries are true.
LEMMA GetDataKeeps ==
  ASSUME Fits(cache), now \in Nat, NEW c, PartOf(c, cache), NEW n, NEW x \in Symbols,
         GetData(c, n, x), symbols' = symbols, name' = name, now' = now
  PROVE  Fits(cache)' /\ (DataIsTrue(cache) => DataIsTrue(cache)')
<1>1. Fits(c) /\ (DataIsTrue(cache) => DataIsTrue(c))
  BY PartFits
<1>2. ASSUME Fits(cache'), DataIsTrue(cache) => DataIsTrue(cache')
      PROVE  Fits(cache)' /\ (DataIsTrue(cache) => DataIsTrue(cache)')
  BY <1>2 DEF Fits, IsEntry, DataIsTrue, IsOf
<1>3. CASE cache' = c
  BY <1>1, <1>2, <1>3
<1>4. CASE x \in DOMAIN c /\ cache' = Put(c, x, c[x].data)
  <2>1. c[x].data # Nothing /\ c[x].data # Freed
    BY <1>1, <1>4 DEF Fits, IsEntry
  <2>2. Entered(cache', c, x, c[x].data)
    BY <1>1, <1>4, <2>1, PutEnters
  <2>3. Fits(cache')
    BY <1>1, <1>4, <2>2 DEF Fits, Entered
  <2>4. DataIsTrue(c) => DataIsTrue(cache')
    BY <1>4, <2>2 DEF DataIsTrue, Entered
  <2> QED
    BY <1>1, <1>2, <2>3, <2>4
<1>5. CASE x \in Live /\ cache' \in Trimmed(Put(c, x, Data(x)), x)
  <2>1. IsOf(Data(x), x) /\ Data(x) # Nothing /\ Data(x) # Freed
    BY <1>5, DataIsIts
  <2>2. Entered(Put(c, x, Data(x)), c, x, Data(x))
    BY <1>1, <2>1, PutEnters
  <2>3. PICK p : Entered(p, c, x, Data(x)) /\ cache' \in Trimmed(p, x)
    BY <1>5, <2>2
  <2>4. Fits(cache') /\ PartOf(cache', p)
    BY <1>1, <2>3, TrimmedFits
  <2>5. DataIsTrue(c) => DataIsTrue(p)
    BY <2>1, <2>3 DEF DataIsTrue, Entered
  <2>6. DataIsTrue(p) => DataIsTrue(cache')
    BY <2>4 DEF DataIsTrue, PartOf
  <2> QED
    BY <1>1, <1>2, <2>4, <2>5, <2>6
<1> QED
  BY <1>3, <1>4, <1>5, GetDataCases

-----------------------------------------------------------------------------
(* Steps that list no sources. *)

\* While the sources and their symbols stay as they are.
LEMMA SameClib ==
  ASSUME UNCHANGED clib
  PROVE  /\ sources' = sources /\ symbols' = symbols /\ name' = name
         /\ Live' = Live
         /\ \A n : Scan(n)' = Scan(n)
         /\ SourcesAreSeparate => SourcesAreSeparate'
<1>1. sources' = sources /\ symbols' = symbols /\ name' = name
  BY DEF clib
<1>2. Live' = Live
  BY <1>1 DEF Live
<1>3. SourcesAreSeparate => SourcesAreSeparate'
  BY <1>1 DEF SourcesAreSeparate
<1> QED
  BY <1>1, <1>2, <1>3, SameScan

\* What a search finds, in the cache or not.
LEMMA SearchFinds ==
  ASSUME ClibInv, NEW n, s_clib_search(n) # <<>>
  PROVE  /\ s_clib_search(n) \in Results
         /\ "caches" \notin dangling => /\ s_clib_search(n) = Scan(n)
                                        /\ Head(s_clib_search(n)) \in HasName(n)
<1>1. s_clib_search(n) \in Results
  BY ScanResult DEF ClibInv, SearchesHaveResults, s_clib_search
<1>2. "caches" \notin dangling => s_clib_search(n) = Scan(n)
  BY DEF ClibInv, Keeping, s_clib_search
<1>3. Scan(n) # <<>> => Head(Scan(n)) \in HasName(n)
  BY ScanResult DEF ClibInv
<1> QED
  BY <1>1, <1>2, <1>3

\* The symbols a search comes up with first.
LEMMA FirstFinds ==
  ASSUME ClibInv, NEW n, NEW x \in First(n), x # NoSymbol
  PROVE  /\ x \in Symbols
         /\ "caches" \notin dangling => x \in Live /\ name[x] = n
<1>1. s_clib_search(n) # <<>> /\ x \in Head(s_clib_search(n))
  BY DEF First
<1>2. Head(s_clib_search(n)) \subseteq Symbols
  BY <1>1, SearchFinds, HeadOfResult
<1>3. "caches" \notin dangling => Head(s_clib_search(n)) \in HasName(n)
  BY <1>1, SearchFinds
<1> QED
  BY <1>1, <1>2, <1>3 DEF HasName

\* Searching keeps the results.
LEMMA SearchingKeeps ==
  ASSUME ClibInv, NEW ns \in SUBSET Names, search' = Searched(ns), UNCHANGED clib
  PROVE  /\ SearchesHaveResults'
         /\ "caches" \notin dangling => \A n \in DOMAIN search' : search'[n] = Scan(n)'
<1>1. \A n \in DOMAIN search' : /\ n \in ns \cup DOMAIN search
                                /\ s_clib_search(n) # <<>>
                                /\ search'[n] = s_clib_search(n)
  BY DEF Searched
<1>2. DOMAIN search' \subseteq Names
  BY <1>1 DEF ClibInv, SearchesHaveResults
<1>3. \A n \in DOMAIN search' : search'[n] \in Results
  BY <1>1, SearchFinds
<1>4. "caches" \notin dangling => \A n \in DOMAIN search' : search'[n] = Scan(n)'
  BY <1>1, SearchFinds, SameClib
<1> QED
  BY <1>2, <1>3, <1>4 DEF SearchesHaveResults, Results

\* A search that stays as it is.
LEMMA SameSearch ==
  ASSUME ClibInv, search' = search, UNCHANGED clib
  PROVE  /\ SearchesHaveResults'
         /\ "caches" \notin dangling => \A n \in DOMAIN search' : search'[n] = Scan(n)'
  BY SameClib DEF ClibInv, Keeping, SearchesHaveResults, Results

\* A cache of data that stays as it is.
LEMMA SameCache ==
  ASSUME ClibInv, cache' = cache, UNCHANGED clib, now' \in Nat, now <= now'
  PROVE  Fits(cache)' /\ ("caches" \notin dangling => DataIsTrue(cache)')
<1>1. now \in Nat /\ Fits(cache)
  BY DEF ClibInv
<1>2. Fits(cache)'
  BY <1>1 DEF Fits, IsEntry
<1>3. "caches" \notin dangling => DataIsTrue(cache)'
  BY SameClib DEF ClibInv, Keeping, DataIsTrue, IsOf
<1> QED
  BY <1>2, <1>3

\* The invariant, put together again.
LEMMA Together ==
  ASSUME ClibInv, UNCHANGED clib, now' \in Nat, rows' \subseteq Symbols,
         SearchesHaveResults', Fits(cache)',
         "caches" \in dangling' <=> "caches" \in dangling,
         "caches" \notin dangling => \A n \in DOMAIN search' : search'[n] = Scan(n)',
         "caches" \notin dangling => DataIsTrue(cache)',
         "selector" \notin dangling' => rows' \subseteq Live
  PROVE  ClibInv'
<1>1. SourcesAreSeparate' /\ Live' = Live
  BY SameClib DEF ClibInv
<1>2. Keeping'
  BY <1>1 DEF ClibInv, Keeping
<1> QED
  BY <1>1, <1>2 DEF ClibInv

\* Opening the selector.
LEMMA OpenKeeps ==
  ASSUME ClibInv, SelectorOpen
  PROVE  ClibInv'
<1>1. PICK used \in SUBSET Names :
        /\ rows' = Live \cup UNION {First(n) \ {NoSymbol} : n \in used}
        /\ search' = Searched(used)
        /\ dangling' = IF rows' \subseteq Live THEN dangling ELSE dangling \cup {"selector"}
        /\ UNCHANGED <<clib, cache, world, loaded>>
  BY DEF SelectorOpen
<1>2. UNCHANGED clib /\ cache' = cache /\ now' = now /\ now \in Nat /\ now <= now
  BY <1>1 DEF world, ClibInv
<1>3. Live \subseteq Symbols
  BY DEF ClibInv, SourcesAreSeparate, Live
<1>4. \A n \in used : First(n) \ {NoSymbol} \subseteq Symbols
  BY FirstFinds
<1>5. rows' \subseteq Symbols
  BY <1>1, <1>3, <1>4
<1>6. "caches" \in dangling' <=> "caches" \in dangling
  BY <1>1
<1>7. "selector" \notin dangling' => rows' \subseteq Live
  BY <1>1
<1> QED
  BY <1>1, <1>2, <1>5, <1>6, <1>7, SearchingKeeps, SameCache, Together

\* Picking a symbol, loading and updating components.
LEMMA LoadingKeeps ==
  ASSUME ClibInv, NEW c, PartOf(c, cache), NEW n, NEW x \in Symbols, GetData(c, n, x),
         UNCHANGED <<clib, rows, world, dangling>>,
         search' = search \/ \E ns \in SUBSET Names : search' = Searched(ns)
  PROVE  ClibInv'
<1>1. UNCHANGED clib /\ now' = now /\ rows' = rows /\ dangling' = dangling /\ now \in Nat
  BY DEF world, ClibInv
<1>2. Fits(cache) /\ symbols' = symbols /\ name' = name
  BY <1>1, SameClib DEF ClibInv
<1>3. Fits(cache)' /\ (DataIsTrue(cache) => DataIsTrue(cache)')
  BY <1>1, <1>2, GetDataKeeps
<1>4. /\ SearchesHaveResults'
      /\ "caches" \notin dangling => \A m \in DOMAIN search' : search'[m] = Scan(m)'
  BY <1>1, SameSearch, SearchingKeeps
<1>5. "caches" \notin dangling => DataIsTrue(cache)'
  BY <1>3 DEF ClibInv, Keeping
<1>6. rows' \subseteq Symbols /\ ("selector" \notin dangling' => rows' \subseteq Live)
  BY <1>1 DEF ClibInv, Keeping
<1> QED
  BY <1>1, <1>3, <1>4, <1>5, <1>6, Together

\* The cache without one entry is a part of it.
LEMMA WithoutIsPart ==
  ASSUME NEW x
  PROVE  /\ PartOf(cache, cache)
         /\ PartOf(Restrict(cache, DOMAIN cache \ {x}), cache)
         /\ DOMAIN Restrict(cache, DOMAIN cache \ {x}) = DOMAIN cache \ {x}
  BY DEF PartOf, Restrict

\* The steps that change neither the sources nor their symbols.
LEMMA OtherKeeps ==
  ASSUME ClibInv,
         SelectorClose \/ SelectorPick \/ LoadComponent \/ UpdateComponent \/ SourceChanges \/ Tick
           \/ UNCHANGED vars
  PROVE  ClibInv'
<1>1. CASE SelectorPick
  <2>1. PICK x \in rows : GetData(cache, name[x], x)
    BY <1>1 DEF SelectorPick
  <2>2. x \in Symbols /\ search' = search /\ UNCHANGED <<clib, rows, world, dangling>>
    BY <1>1 DEF SelectorPick, ClibInv
  <2> QED
    BY <2>1, <2>2, WithoutIsPart, LoadingKeeps
<1>2. CASE LoadComponent
  <2>1. PICK n \in Names, x \in Symbols : GetData(cache, n, x) /\ search' = Searched({n})
    BY <1>2 DEF LoadComponent
  <2>2. UNCHANGED <<clib, rows, world, dangling>> /\ {n} \in SUBSET Names
    BY <1>2 DEF LoadComponent
  <2> QED
    BY <2>1, <2>2, WithoutIsPart, LoadingKeeps
<1>3. CASE UpdateComponent
  <2>1. PICK n \in Names, x \in Symbols :
          GetData(Restrict(cache, DOMAIN cache \ {x}), n, x) /\ search' = Searched({n})
    BY <1>3 DEF UpdateComponent
  <2>2. UNCHANGED <<clib, rows, world, dangling>> /\ {n} \in SUBSET Names
    BY <1>3 DEF UpdateComponent
  <2>3. PICK c : PartOf(c, cache) /\ GetData(c, n, x)
    BY <2>1, WithoutIsPart
  <2> QED
    BY <2>1, <2>2, <2>3, LoadingKeeps
<1>4. CASE SelectorClose \/ SourceChanges \/ Tick \/ UNCHANGED vars
  <2>1. /\ UNCHANGED clib /\ search' = search /\ cache' = cache
        /\ now' \in Nat /\ now <= now'
        /\ "caches" \in dangling' <=> "caches" \in dangling
        /\ rows' \subseteq rows /\ (rows' # {} => dangling' = dangling)
    BY <1>4 DEF SelectorClose, SourceChanges, Tick, vars, world, ClibInv
  <2>2. rows' \subseteq Symbols /\ ("selector" \notin dangling' => rows' \subseteq Live)
    BY <2>1 DEF ClibInv, Keeping
  <2> QED
    BY <2>1, <2>2, SameSearch, SameCache, Together
<1> QED
  BY <1>1, <1>2, <1>3, <1>4

-----------------------------------------------------------------------------
(* The theorems. *)

\* A program that has just started.
LEMMA InitClib == Init => ClibInv
<1> SUFFICES ASSUME Init PROVE ClibInv
  OBVIOUS
<1>1. SourcesAreSeparate
  <2>1. sources \in Seq(Sources) /\ IsInjective(sources)
    BY DEF Init, IsInjective
  <2> QED
    BY <2>1 DEF Init, SourcesAreSeparate
<1>2. SearchesHaveResults /\ Fits(cache)
  BY EmptyFits, ClibAssumption DEF Init, SearchesHaveResults, Fits
<1>3. Keeping
  BY EmptyFits DEF Init, Keeping, DataIsTrue
<1> QED
  BY <1>1, <1>2, <1>3 DEF Init, ClibInv

\* Every step.
LEMMA StepClib == ClibInv /\ [Next]_vars => ClibInv'
<1> SUFFICES ASSUME ClibInv, [Next]_vars PROVE ClibInv'
  OBVIOUS
<1>1. CASE \E s \in Sources : AddSource(s)
  BY <1>1, AddKeeps
<1>2. CASE Reset \/ PageRevert \/ SelectorRefresh \/ SelectorOpen
  BY <1>2, ResetKeeps, RevertKeeps, RefreshKeeps, OpenKeeps
<1>3. CASE \/ SelectorClose \/ SelectorPick \/ LoadComponent \/ UpdateComponent
           \/ SourceChanges \/ Tick \/ UNCHANGED vars
  BY <1>3, OtherKeeps
<1> QED
  BY <1>1, <1>2, <1>3 DEF Next

-----------------------------------------------------------------------------
(* The theorems. *)

\* s_clib.c: every source has its own symbols in its own memory, and the cache of data
\* never holds more than CLIB_MAX_SYMBOL_CACHE entries (line 1209), whatever the loop that
\* trims it reads from the entries it has freed.
THEOREM ClibTypeCorrect == Spec => []ClibTypeOK
<1>1. ClibInv => ClibTypeOK
  <2> SUFFICES ASSUME ClibInv PROVE ClibTypeOK
    OBVIOUS
  <2>1. Range(sources) \subseteq Sources
    BY DEF ClibInv, SourcesAreSeparate, Range
  <2> QED
    BY <2>1 DEF ClibInv, SourcesAreSeparate, SearchesHaveResults, Fits, ClibTypeOK
<1> QED
  BY <1>1, InitClib, StepClib, PTL DEF Spec

\* s_clib_search: the results it keeps are those the sources would give, unless all
\* sources that were listed again could not be listed (s_clib.c:596 returns before the
\* caches are flushed), for any sources, names and order of events.
THEOREM KeptSearchesAreCurrent == Spec => []SearchesAreCurrent
<1>1. ClibInv => SearchesAreCurrent
  BY DEF ClibInv, Keeping, SearchesAreCurrent
<1> QED
  BY <1>1, InitClib, StepClib, PTL DEF Spec

\* s_clib_symbol_get_data: data kept under the pointer of a symbol is data of that symbol,
\* with the same exception, although the memory of freed symbols is used again.
THEOREM KeptDataIsItsSymbols == Spec => []CachedDataIsItsSymbols
<1>1. ClibInv => CachedDataIsItsSymbols
  <2> SUFFICES ASSUME ClibInv, "caches" \notin dangling, NEW x \in DOMAIN cache
               PROVE  x \in Live /\ cache[x].data[1] = SourceOf(x) /\ cache[x].data[2] = name[x]
    BY DEF CachedDataIsItsSymbols
  <2>1. PICK s \in Sources : x \in symbols[s] /\ cache[x].data[1] = s /\ cache[x].data[2] = name[x]
    BY DEF ClibInv, Keeping, DataIsTrue, IsOf
  <2>2. \A t \in Sources : x \in symbols[t] => t = s
    BY <2>1 DEF ClibInv, SourcesAreSeparate
  <2>3. SourceOf(x) = s
    BY <2>1, <2>2 DEF SourceOf
  <2> QED
    BY <2>1, <2>3 DEF Live
<1> QED
  BY <1>1, InitClib, StepClib, PTL DEF Spec

\* The answer is of the name asked for.
LEMMA GetDataAnswers ==
  ASSUME ClibInv, "caches" \notin dangling, NEW c, PartOf(c, cache),
         NEW x, x \in Live, GetData(c, name[x], x)
  PROVE  /\ loaded'.data # Freed
         /\ loaded'.data # Nothing => loaded'.data[2] = loaded'.name
<1>1. Fits(c) /\ DataIsTrue(c)
  BY PartFits DEF ClibInv, Keeping
<1>2. \A n, d : Answer(n, d).name = n /\ Answer(n, d).data = d
  BY DEF Answer
<1>3. CASE loaded' = Answer(name[x], Nothing)
  <2>1. Len(Nothing) = 0 /\ Len(Freed) = 1
    BY DEF Nothing, Freed
  <2> QED
    BY <1>2, <1>3, <2>1
<1>4. CASE x \in DOMAIN c /\ loaded' = Answer(name[x], c[x].data)
  <2>1. c[x].data # Freed /\ c[x].data[2] = name[x]
    BY <1>1, <1>4 DEF Fits, IsEntry, DataIsTrue, IsOf
  <2> QED
    BY <1>2, <1>4, <2>1
<1>5. CASE loaded' = Answer(name[x], Data(x))
  <2>1. Data(x) # Freed /\ Data(x)[2] = name[x]
    BY DataIsIts DEF IsOf
  <2> QED
    BY <1>2, <1>5, <2>1
<1> QED
  BY <1>3, <1>4, <1>5, GetDataCases

\* Who asks for the data of a symbol gets data of that name and never what has been
\* freed, unless the caches or the selector were left with pointers to freed symbols
\* (Revert with sources that cannot be listed, or while the selector is open).
THEOREM AnswersAreRight == Spec => AnswersAreWhatWasAsked
<1>1. ClibInv /\ [Next]_vars =>
        [loaded' # loaded /\ dangling = {} =>
           /\ loaded'.data # Freed
           /\ loaded'.data # Nothing => loaded'.data[2] = loaded'.name]_vars
  <2> SUFFICES ASSUME ClibInv, Next, loaded' # loaded, dangling = {}
               PROVE  /\ loaded'.data # Freed
                      /\ loaded'.data # Nothing => loaded'.data[2] = loaded'.name
    BY DEF vars
  <2>1. SelectorPick \/ LoadComponent \/ UpdateComponent
    BY DEF Next, AddSource, Reset, PageRevert, SelectorRefresh, SelectorOpen, SelectorClose,
           SourceChanges, Tick
  <2>2. PICK c, x : PartOf(c, cache) /\ x \in Live /\ GetData(c, name[x], x)
    <3>1. CASE SelectorPick
      <4>1. PICK x \in rows : GetData(cache, name[x], x)
        BY <3>1 DEF SelectorPick
      <4>2. x \in Live
        BY DEF ClibInv, Keeping
      <4> QED
        BY <4>1, <4>2, WithoutIsPart
    <3>2. CASE LoadComponent
      <4>1. PICK n \in Names, x \in Symbols : x \in First(n) /\ GetData(cache, n, x)
        BY <3>2 DEF LoadComponent
      <4>2. x \in Live /\ name[x] = n
        BY <4>1, FirstFinds, ClibAssumption
      <4> QED
        BY <4>1, <4>2, WithoutIsPart
    <3>3. CASE UpdateComponent
      <4>1. PICK n \in Names, x \in Symbols :
              x \in First(n) /\ GetData(Restrict(cache, DOMAIN cache \ {x}), n, x)
        BY <3>3 DEF UpdateComponent
      <4>2. x \in Live /\ name[x] = n
        BY <4>1, FirstFinds, ClibAssumption
      <4> QED
        BY <4>1, <4>2, WithoutIsPart
    <3> QED
      BY <2>1, <3>1, <3>2, <3>3
  <2> QED
    BY <2>2, GetDataAnswers
<1> QED
  BY <1>1, InitClib, StepClib, PTL DEF Spec, AnswersAreWhatWasAsked

\* o_misc.c:419 "Force symbol data to be reloaded from source": Update Component gets
\* what the source of the symbol holds at that moment.
THEOREM UpdatesReadSources == Spec => UpdateReadsTheSource
<1>1. ClibInv /\ [Next]_vars =>
        [UpdateComponent /\ dangling = {} =>
           \E x \in Live : loaded'.data = (IF Missing(x) THEN Nothing ELSE Data(x))]_vars
  <2> SUFFICES ASSUME ClibInv, UpdateComponent, dangling = {}
               PROVE  \E x \in Live : loaded'.data = (IF Missing(x) THEN Nothing ELSE Data(x))
    OBVIOUS
  <2>1. PICK n \in Names, x \in Symbols :
          x \in First(n) /\ GetData(Restrict(cache, DOMAIN cache \ {x}), n, x)
    BY DEF UpdateComponent
  <2>2. x \in Live
    BY <2>1, FirstFinds, ClibAssumption
  <2>3. x \notin DOMAIN Restrict(cache, DOMAIN cache \ {x})
    BY WithoutIsPart
  <2>4. loaded' = Answer(n, IF Missing(x) THEN Nothing ELSE Data(x))
    BY <2>1, <2>2, <2>3 DEF GetData
  <2>5. loaded'.data = IF Missing(x) THEN Nothing ELSE Data(x)
    BY <2>4 DEF Answer
  <2> QED
    BY <2>2, <2>5
<1> QED
  BY <1>1, InitClib, StepClib, PTL DEF Spec, UpdateReadsTheSource

\* OldestGone, of those entries that both caches have.
OldestLeft(p, q) ==
  \A x \in DOMAIN p \ DOMAIN q, y \in DOMAIN p \cap DOMAIN q : p[x].accessed <= p[y].accessed

\* Getting data removes old entries only.
LEMMA GetDataEvicts ==
  ASSUME Fits(cache), now \in Nat, NEW n, NEW x \in Symbols, NEW c, PartOf(c, cache),
         DOMAIN c \cup {x} = DOMAIN cache \cup {x}, GetData(c, n, x),
         loaded'.data # Nothing, loaded'.data # Freed
  PROVE  OldestLeft(cache, cache')
<1>1. \A d : Answer(n, d).data = d
  BY DEF Answer
<1>2. Fits(c)
  BY PartFits
<1>3. CASE x \in DOMAIN c /\ cache' = Put(c, x, c[x].data)
  <2>1. DOMAIN cache' = DOMAIN c \cup {x}
    BY <1>3 DEF Put
  <2> QED
    BY <2>1 DEF OldestLeft
<1>4. CASE x \in Live /\ cache' \in Trimmed(Put(c, x, Data(x)), x)
  <2>1. Entered(Put(c, x, Data(x)), c, x, Data(x))
    BY <1>2, <1>4, DataIsIts, PutEnters
  <2>2. PICK p : Entered(p, c, x, Data(x)) /\ cache' \in Trimmed(p, x)
    BY <1>4, <2>1
  <2>3. /\ PartOf(cache', p) /\ OldestGone(p, cache')
        /\ Cardinality(DOMAIN p) <= MaxCache => cache' = p
    BY <1>2, <2>2, TrimmedFits
  <2>4. DOMAIN p = DOMAIN cache \cup {x}
    BY <2>2 DEF Entered
  <2>5. CASE x \in DOMAIN cache
    <3>1. DOMAIN p = DOMAIN cache
      BY <2>4, <2>5
    <3>2. cache' = p
      BY <2>3, <3>1 DEF Fits
    <3> QED
      BY <3>1, <3>2 DEF OldestLeft
  <2>6. CASE x \notin DOMAIN cache
    <3>1. \A y \in DOMAIN cache : y \in DOMAIN p /\ p[y] = cache[y]
      BY <2>2, <2>4, <2>6 DEF Entered, PartOf
    <3> QED
      BY <2>3, <3>1 DEF OldestLeft, OldestGone
  <2> QED
    BY <2>5, <2>6
<1> QED
  BY <1>1, <1>3, <1>4, GetDataCases

\* s_clib.c:1209: only the entries used longest ago leave the cache when it is trimmed,
\* from any size to any other, although the loop compares with entries it has freed.
THEOREM OldestAreEvicted == Spec => EvictsOldest
<1>1. ClibInv /\ [Next]_vars =>
        [clib' = clib /\ loaded'.data \notin {Nothing, Freed} =>
           \A x \in DOMAIN cache \ DOMAIN cache', y \in DOMAIN cache \cap DOMAIN cache' :
             cache[x].accessed <= cache[y].accessed]_vars
  <2> SUFFICES ASSUME ClibInv, Next, loaded'.data \notin {Nothing, Freed}
               PROVE  OldestLeft(cache, cache')
    BY DEF OldestLeft
  <2>1. Fits(cache) /\ now \in Nat
    BY DEF ClibInv
  <2>2. CASE cache' = cache
    BY <2>2 DEF OldestLeft
  <2>3. CASE cache' = <<>>
    BY <2>3, EmptyFits DEF OldestLeft
  <2>4. CASE SelectorPick \/ LoadComponent
    <3>1. PICK x \in Symbols : \E n : GetData(cache, n, x)
      BY <2>4 DEF SelectorPick, LoadComponent, ClibInv
    <3> QED
      BY <2>1, <3>1, WithoutIsPart, GetDataEvicts
  <2>5. CASE UpdateComponent
    <3>1. PICK n \in Names, x \in Symbols : GetData(Restrict(cache, DOMAIN cache \ {x}), n, x)
      BY <2>5 DEF UpdateComponent
    <3>2. PICK c : /\ PartOf(c, cache) /\ DOMAIN c = DOMAIN cache \ {x}
                   /\ GetData(c, n, x)
      BY <3>1, WithoutIsPart
    <3> QED
      BY <2>1, <3>2, GetDataEvicts
  <2>6. CASE \/ \E s \in Sources : AddSource(s)
             \/ Reset \/ PageRevert \/ SelectorRefresh \/ SelectorOpen \/ SelectorClose
             \/ SourceChanges \/ Tick
    <3>1. cache' = cache \/ cache' = <<>>
      BY <2>6 DEF AddSource, Reset, PageRevert, SelectorRefresh, SelectorOpen, SelectorClose,
                  SourceChanges, Tick, Flush
    <3> QED
      BY <2>2, <2>3, <3>1
  <2> QED
    BY <2>4, <2>5, <2>6 DEF Next
<1> QED
  BY <1>1, InitClib, StepClib, PTL DEF Spec, EvictsOldest
=============================================================================
