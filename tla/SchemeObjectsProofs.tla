------------------------ MODULE SchemeObjectsProofs -------------------------
(***************************************************************************)
(* What SchemeObjects promises, for any objects, pages and smobs: handles  *)
(* stay valid, the garbage collector owns exactly the loose objects, and   *)
(* attributes stay with what they are attached to.                         *)
(*                                                                         *)
(* None of the three is inductive.  SchemeInv, which is, has three parts.  *)
(* HandlesInv: an object knows exactly the smobs that refer to it, those   *)
(* refer to objects that are there, and only an object in "twice" has more *)
(* than one.  PlacesInv: what is in a component is on no page and contains *)
(* nothing, attributes and their objects know of each other, and, unless a *)
(* copy went astray, they are in the same place, and loose objects are     *)
(* attached to nothing: append-page! would leave their attributes behind.  *)
(* CollectorInv needs OneHandle of HandlesInv: append-page! clears "gc" of *)
(* the handle it is given and of no other.                                 *)
(*                                                                         *)
(* Each part has lemmas about the operators that change the world (the     *)
(* names end in Inv), and each action has one that puts them together (the *)
(* names end in KeepsInv).                                                 *)
(***************************************************************************)
EXTENDS SchemeObjects, TLAPS

World == [heap  : [Objects -> Object \cup {None}],
          smob  : [Smobs -> Handle \cup {None}],
          cache : [Objects -> Smobs \cup {None}],
          twice : SUBSET Objects,
          stray : BOOLEAN]

LiveIn(w) == {o \in Objects : w.heap[o] # None}
HandlesIn(w, o) == {s \in Smobs : w.smob[s] # None /\ w.smob[s].data = o}
LooseIn(w, o) == w.heap[o].page = None /\ w.heap[o].parent = None

\* The objects of v are where they are in w, attached to what they are in w.
SamePlaces(v, w) ==
  /\ v.stray = w.stray
  /\ \A o \in Objects : v.heap[o] = None <=> w.heap[o] = None
  /\ \A o \in Objects : w.heap[o] # None =>
       /\ v.heap[o].page = w.heap[o].page
       /\ v.heap[o].parent = w.heap[o].parent
       /\ v.heap[o].owner = w.heap[o].owner
       /\ v.heap[o].attribs = w.heap[o].attribs

\* The handles of v are those of w, new objects have none.
SameHandles(v, w) ==
  /\ v.smob = w.smob /\ v.cache = w.cache /\ v.twice = w.twice
  /\ \A o \in Objects : w.heap[o] # None =>
       v.heap[o] # None /\ v.heap[o].weak = w.heap[o].weak
  /\ \A o \in Objects : w.heap[o] = None /\ v.heap[o] # None => v.heap[o].weak = {}

\* What is read from the cache and from a handle.
LEMMA NoneIsNothing ==
  /\ \A o \in Object : o # None
  /\ \A h \in Handle : h # None
  /\ \A s \in Smobs : s # None
  /\ \A o \in Objects : o # None
  /\ \A p \in Pages : p # None
BY SchemeAssumption

\* A handle is made or marked as in use; nothing moves.
LEMMA FromObjectWorld ==
  ASSUME NEW w \in World, NEW o \in LiveIn(w), NEW s \in Smobs,
         w.cache[o] # None \/ w.smob[s] = None,
         w.cache[o] # None => w.smob[w.cache[o]] # None
  PROVE  /\ FromObject(w, o, s) \in World
         /\ SamePlaces(FromObject(w, o, s), w)
<1> DEFINE v == FromObject(w, o, s)
<1>1. w.heap[o] \in Object
  BY DEF LiveIn, World
<1>2. CASE w.cache[o] # None
  <2> DEFINE c == w.cache[o]
  <2>1. c \in Smobs /\ w.smob[c] \in Handle
    BY <1>2 DEF World, LiveIn
  <2>2. v = [w EXCEPT !.smob[c].held = TRUE]
    BY <1>2 DEF FromObject
  <2> HIDE DEF c, v
  <2>3. v \in World
    BY <2>1, <2>2 DEF World, Handle
  <2>4. SamePlaces(v, w)
    BY <2>2 DEF World, SamePlaces
  <2> QED
    BY <2>3, <2>4 DEF v
<1>3. CASE w.cache[o] = None
  <2>1. v = [w EXCEPT !.smob[s] = [data |-> o, gc |-> FALSE, held |-> TRUE],
                 !.heap[o].weak = @ \cup {s},
                 !.cache[o] = s,
                 !.twice = IF HandlesOf(o) = {} THEN @ ELSE @ \cup {o}]
    BY <1>3 DEF FromObject
  <2> HIDE DEF v
  <2>2. [data |-> o, gc |-> FALSE, held |-> TRUE] \in Handle
    BY DEF Handle, LiveIn
  <2>3. [w.heap[o] EXCEPT !.weak = @ \cup {s}] \in Object
    BY <1>1 DEF Object
  <2>4. v \in World
    BY <2>1, <2>2, <2>3 DEF World, LiveIn
  <2>5. SamePlaces(v, w)
    BY <1>1, <2>1, <2>3, NoneIsNothing DEF World, SamePlaces, Object
  <2> QED
    BY <2>4, <2>5 DEF v
<1> QED
  BY <1>2, <1>3

\* The inductive invariant about handles: an object knows exactly the smobs that
\* refer to it, those refer to living objects, smob_cache has handles that C code
\* owns, and only objects in "twice" have more than one handle.
Registered(w) ==
  \A o \in Objects : w.heap[o] # None =>
    \A s \in Smobs : s \in w.heap[o].weak <=> w.smob[s] # None /\ w.smob[s].data = o
NotDangling(w) ==
  \A s \in Smobs : w.smob[s] # None /\ w.smob[s].data # None =>
    w.heap[w.smob[s].data] # None
CacheOwned(w) ==
  \A o \in Objects : w.cache[o] # None =>
    /\ w.smob[w.cache[o]] # None
    /\ w.smob[w.cache[o]].data = o
    /\ ~w.smob[w.cache[o]].gc
OneHandle(w) ==
  \A s, t \in Smobs :
    /\ w.smob[s] # None
    /\ w.smob[t] # None
    /\ w.smob[s].data = w.smob[t].data
    /\ w.smob[s].data # None
    /\ w.smob[s].data \notin w.twice
    => s = t

HandlesInv(w) ==
  w \in World /\ Registered(w) /\ NotDangling(w) /\ CacheOwned(w) /\ OneHandle(w)

\* The inductive invariant about handles is stronger than what is promised.
LEMMA HandlesInvSuffices == HandlesInv(m) => HandlesAreValid
<1> SUFFICES ASSUME HandlesInv(m)
             PROVE  HandlesAreValid
  OBVIOUS
<1>1. \A o \in Objects : m.heap[o] # None => m.heap[o].weak \subseteq Smobs
  BY DEF HandlesInv, World, Object
<1>2. \A o \in Live : m.heap[o].weak = HandlesOf(o)
  BY <1>1 DEF HandlesInv, Registered, HandlesOf, Live
<1>3. \A o \in Objects \ Live : HandlesOf(o) = {}
  BY NoneIsNothing DEF HandlesInv, NotDangling, HandlesOf, Live
<1>4. \A o \in Objects : m.cache[o] # None =>
        m.cache[o] \in HandlesOf(o) /\ ~m.smob[m.cache[o]].gc
  BY DEF HandlesInv, CacheOwned, HandlesOf, World
<1> QED
  BY <1>2, <1>3, <1>4 DEF HandlesAreValid

\* The handles of w still refer to what they did, and own what they did.
KeepsHandles(v, w) ==
  \A t \in Smobs : w.smob[t] # None =>
    v.smob[t] # None /\ v.smob[t].data = w.smob[t].data /\ v.smob[t].gc = w.smob[t].gc

\* The handle s owns its object or not, the others are as they were.
GcIs(v, w, s, gc) ==
  \A t \in Smobs :
    /\ v.smob[t] = None <=> w.smob[t] = None
    /\ w.smob[t] # None => /\ v.smob[t].data = w.smob[t].data
                           /\ v.smob[t].gc = IF t = s THEN gc ELSE w.smob[t].gc

\* A handle of o is added or marked as in use.
LEMMA FromObjectHandles ==
  ASSUME NEW w, HandlesInv(w), NEW o \in Objects, w.heap[o] # None, NEW s \in Smobs,
         w.cache[o] # None \/ w.smob[s] = None, HandlesOf(o) = HandlesIn(w, o)
  PROVE  /\ HandlesInv(FromObject(w, o, s))
         /\ w.cache[o] = None =>
              /\ FromObject(w, o, s).smob =
                   [w.smob EXCEPT ![s] = [data |-> o, gc |-> FALSE, held |-> TRUE]]
              /\ FromObject(w, o, s).cache[o] = s
         /\ KeepsHandles(FromObject(w, o, s), w)
         /\ \A x \in w.twice : x \in FromObject(w, o, s).twice
<1> DEFINE v == FromObject(w, o, s)
<1>0. /\ w \in World /\ Registered(w) /\ NotDangling(w) /\ CacheOwned(w) /\ OneHandle(w)
      /\ w.heap[o] \in Object
  BY DEF HandlesInv, World
<1>1. v \in World
  BY <1>0, FromObjectWorld DEF LiveIn, CacheOwned
<1>2. CASE w.cache[o] # None
  <2> DEFINE c == w.cache[o]
  <2>1. c \in Smobs /\ w.smob[c] \in Handle /\ w.smob[c].data = o /\ ~w.smob[c].gc
    BY <1>0, <1>2 DEF World, CacheOwned
  <2>2. v = [w EXCEPT !.smob[c].held = TRUE]
    BY <1>2 DEF FromObject
  <2> HIDE DEF c, v
  <2>3. /\ v.heap = w.heap /\ v.cache = w.cache /\ v.twice = w.twice
        /\ \A t \in Smobs : /\ v.smob[t] = None <=> w.smob[t] = None
                            /\ v.smob[t] # None => /\ v.smob[t].data = w.smob[t].data
                                                   /\ v.smob[t].gc = w.smob[t].gc
    BY <1>0, <2>1, <2>2, NoneIsNothing DEF World, Handle
  <2>4. Registered(v) /\ NotDangling(v) /\ OneHandle(v)
    BY <1>0, <2>3 DEF Registered, NotDangling, OneHandle
  <2>5. CacheOwned(v)
    BY <1>0, <2>3 DEF CacheOwned, World
  <2> QED
    BY <1>1, <1>2, <2>3, <2>4, <2>5 DEF v, HandlesInv, KeepsHandles
<1>3. CASE w.cache[o] = None
  <2> DEFINE n == [data |-> o, gc |-> FALSE, held |-> TRUE]
  <2>1. v = [w EXCEPT !.smob[s] = n,
                      !.heap[o].weak = @ \cup {s},
                      !.cache[o] = s,
                      !.twice = IF HandlesOf(o) = {} THEN @ ELSE @ \cup {o}]
    BY <1>3 DEF FromObject
  <2> HIDE DEF v
  <2>2. n \in Handle /\ n # None /\ n.data = o /\ ~n.gc
    BY NoneIsNothing DEF Handle
  <2> HIDE DEF n
  <2>0. [w.heap[o] EXCEPT !.weak = @ \cup {s}] \in Object
    BY <1>0 DEF Object
  <2>3. /\ v.smob = [w.smob EXCEPT ![s] = n] /\ v.cache = [w.cache EXCEPT ![o] = s]
        /\ v.twice = IF HandlesOf(o) = {} THEN w.twice ELSE w.twice \cup {o}
        /\ \A x \in Objects : v.heap[x] = None <=> w.heap[x] = None
        /\ \A x \in Objects : w.heap[x] # None =>
             v.heap[x].weak = IF x = o THEN w.heap[x].weak \cup {s} ELSE w.heap[x].weak
    BY <1>0, <2>0, <2>1, NoneIsNothing DEF World, Object
  <2>4. w.smob[s] = None
    BY <1>3
  <2>11. /\ \A t \in Smobs : v.smob[t] = IF t = s THEN n ELSE w.smob[t]
        /\ \A t \in Smobs : w.smob[t] # None => w.smob[t].data \in Objects \cup {None}
    BY <1>0, <2>3 DEF World, Handle
  <2>5. Registered(v)
    <3> SUFFICES ASSUME NEW x \in Objects, v.heap[x] # None, NEW t \in Smobs
                 PROVE  t \in v.heap[x].weak <=> v.smob[t] # None /\ v.smob[t].data = x
      BY DEF Registered
    <3>1. w.heap[x] # None
      BY <2>3
    <3>2. t \in w.heap[x].weak <=> w.smob[t] # None /\ w.smob[t].data = x
      BY <1>0, <3>1 DEF Registered
    <3>3. v.heap[x].weak = IF x = o THEN w.heap[x].weak \cup {s} ELSE w.heap[x].weak
      BY <2>3, <3>1
    <3>4. CASE t = s
      BY <2>2, <2>4, <2>11, <3>2, <3>3, <3>4
    <3>5. CASE t # s
      <4>1. t \in v.heap[x].weak <=> t \in w.heap[x].weak
        BY <3>3, <3>5
      <4>2. v.smob[t] = w.smob[t]
        BY <2>11, <3>5
      <4> QED
        BY <3>2, <4>1, <4>2
    <3> QED
      BY <3>4, <3>5
  <2>6. NotDangling(v)
    BY <1>0, <2>2, <2>3, <2>4, <2>11 DEF NotDangling
  <2>7. CacheOwned(v)
    <3> SUFFICES ASSUME NEW x \in Objects, v.cache[x] # None
                 PROVE  v.smob[v.cache[x]] # None /\ v.smob[v.cache[x]].data = x
                          /\ ~v.smob[v.cache[x]].gc
      BY DEF CacheOwned
    <3>1. w.smob \in [Smobs -> Handle \cup {None}] /\ w.cache \in [Objects -> Smobs \cup {None}]
      BY <1>0 DEF World
    <3>2. CASE x = o
      BY <2>2, <2>3, <3>1, <3>2
    <3>3. CASE x # o
      <4>1. v.cache[x] = w.cache[x] /\ w.cache[x] \in Smobs
        BY <2>3, <3>1, <3>3
      <4>2. /\ w.smob[w.cache[x]] # None /\ w.smob[w.cache[x]].data = x
            /\ ~w.smob[w.cache[x]].gc
        BY <1>0, <4>1 DEF CacheOwned
      <4> QED
        BY <2>3, <2>4, <3>1, <4>1, <4>2
    <3> QED
      BY <3>2, <3>3
  <2>8. OneHandle(v)
    <3>1. w.smob \in [Smobs -> Handle \cup {None}]
      BY <1>0 DEF World
    <3>2. \A t \in Smobs : v.smob[t] = IF t = s THEN n ELSE w.smob[t]
      BY <2>3, <3>1
    <3>3. ASSUME NEW t \in Smobs, t # s, w.smob[t] # None, w.smob[t].data = o
          PROVE  o \in v.twice
      BY <2>3, <3>3 DEF HandlesIn
    <3>4. w.twice \subseteq v.twice
      BY <2>3
    <3> QED
      BY <1>0, <2>2, <3>2, <3>3, <3>4 DEF OneHandle
  <2>9. \A t \in Smobs : w.smob[t] # None => v.smob[t] = w.smob[t]
    BY <1>0, <2>3, <2>4 DEF World
  <2>10. v.cache[o] = s
    BY <1>0, <2>3 DEF World
  <2> QED
    BY <1>1, <2>3, <2>5, <2>6, <2>7, <2>8, <2>9, <2>10 DEF v, HandlesInv, n, KeepsHandles
<1> QED
  BY <1>2, <1>3

\* edascm_c_set_gc gives an object to the collector or takes it back.
LEMMA SetGc ==
  ASSUME NEW w, HandlesInv(w), NEW s \in Smobs, w.smob[s] # None, w.smob[s].data # None,
         NEW gc \in BOOLEAN
  PROVE  /\ HandlesInv(edascm_c_set_gc(w, s, gc))
         /\ edascm_c_set_gc(w, s, gc).heap = w.heap
         /\ edascm_c_set_gc(w, s, gc).twice = w.twice
         /\ edascm_c_set_gc(w, s, gc).stray = w.stray
         /\ GcIs(edascm_c_set_gc(w, s, gc), w, s, gc)
<1> DEFINE v == edascm_c_set_gc(w, s, gc)
           o == w.smob[s].data
<1>0. /\ w \in World /\ Registered(w) /\ NotDangling(w) /\ CacheOwned(w) /\ OneHandle(w)
      /\ w.smob[s] \in Handle /\ o \in Objects
  BY DEF HandlesInv, World, Handle
<1>1. v = [w EXCEPT !.cache[o] = IF gc = w.smob[s].gc THEN @ ELSE IF gc THEN None ELSE s,
                    !.smob[s].gc = gc]
  BY DEF edascm_c_set_gc
<1> HIDE DEF v
<1>2. v \in World
  BY <1>0, <1>1 DEF World, Handle
<1>3. /\ v.heap = w.heap /\ v.twice = w.twice /\ v.stray = w.stray
      /\ \A x \in Objects : v.cache[x] =
           IF x = o /\ gc # w.smob[s].gc THEN IF gc THEN None ELSE s ELSE w.cache[x]
  BY <1>0, <1>1 DEF World
<1>4. \A t \in Smobs :
        /\ v.smob[t] = None <=> w.smob[t] = None
        /\ w.smob[t] # None =>
             /\ v.smob[t].data = w.smob[t].data
             /\ v.smob[t].gc = IF t = s THEN gc ELSE w.smob[t].gc
  BY <1>0, <1>1, <1>2, NoneIsNothing DEF World, Handle
<1> HIDE DEF o
<1>5. Registered(v) /\ NotDangling(v) /\ OneHandle(v)
  BY <1>0, <1>3, <1>4 DEF Registered, NotDangling, OneHandle
<1>6. CacheOwned(v)
  <2> SUFFICES ASSUME NEW x \in Objects, v.cache[x] # None
               PROVE  v.smob[v.cache[x]] # None /\ v.smob[v.cache[x]].data = x
                        /\ ~v.smob[v.cache[x]].gc
    BY DEF CacheOwned
  <2>1. CASE x = o /\ gc # w.smob[s].gc
    BY <1>0, <1>3, <1>4, <2>1 DEF o
  <2>2. CASE ~(x = o /\ gc # w.smob[s].gc)
    <3>1. v.cache[x] = w.cache[x] /\ w.cache[x] \in Smobs
      BY <1>0, <1>3, <2>2 DEF World
    <3>2. w.smob[w.cache[x]] # None /\ w.smob[w.cache[x]].data = x /\ ~w.smob[w.cache[x]].gc
      BY <1>0, <3>1 DEF CacheOwned
    <3>3. w.cache[x] = s => gc = w.smob[s].gc
      BY <2>2, <3>2 DEF o
    <3> QED
      BY <1>4, <3>1, <3>2, <3>3
  <2> QED
    BY <2>1, <2>2
<1> QED
  BY <1>2, <1>3, <1>4, <1>5, <1>6 DEF v, HandlesInv, GcIs

\* Changes of places do not touch the handles.
LEMMA SameHandlesInv ==
  ASSUME NEW w, HandlesInv(w), NEW v \in World, SameHandles(v, w)
  PROVE  HandlesInv(v)
<1>0. w \in World /\ Registered(w) /\ NotDangling(w)
  BY DEF HandlesInv
<1>1. Registered(v)
  <2> SUFFICES ASSUME NEW x \in Objects, v.heap[x] # None, NEW t \in Smobs
               PROVE  t \in v.heap[x].weak <=> v.smob[t] # None /\ v.smob[t].data = x
    BY DEF Registered
  <2>1. CASE w.heap[x] # None
    BY <1>0, <2>1 DEF Registered, SameHandles
  <2>2. CASE w.heap[x] = None
    <3>1. ~(w.smob[t] # None /\ w.smob[t].data = x)
      BY <1>0, <2>2, NoneIsNothing DEF NotDangling
    <3> QED
      BY <2>2, <3>1 DEF SameHandles
  <2> QED
    BY <2>1, <2>2
<1>2. NotDangling(v)
  BY <1>0 DEF NotDangling, SameHandles, World, Handle
<1>3. CacheOwned(v) /\ OneHandle(v)
  BY DEF HandlesInv, CacheOwned, OneHandle, SameHandles
<1> QED
  BY <1>1, <1>2, <1>3 DEF HandlesInv

\* What s_delete_object does to the places of objects and to their handles.
LEMMA Deleted ==
  ASSUME NEW w, HandlesInv(w), NEW S \in SUBSET LiveIn(w)
  PROVE  LET v == s_delete_object(w, S)
         IN  /\ v \in World
             /\ v.stray = w.stray
             /\ v.twice = w.twice \ S
             /\ \A o \in Objects :
                  /\ v.heap[o] = None <=> o \in S \/ w.heap[o] = None
                  /\ v.heap[o] # None =>
                       /\ v.heap[o].page = w.heap[o].page
                       /\ v.heap[o].parent = w.heap[o].parent
                       /\ v.heap[o].weak = w.heap[o].weak
                       /\ v.heap[o].attribs =
                            w.heap[o].attribs \ {a \in S : w.heap[a].owner = o}
                       /\ v.heap[o].owner = IF \E q \in S : o \in w.heap[q].attribs
                                            THEN None ELSE w.heap[o].owner
             /\ \A s \in Smobs : v.smob[s] = IF \E o \in S : s \in w.heap[o].weak
                                             THEN [w.smob[s] EXCEPT !.data = None]
                                             ELSE w.smob[s]
             /\ \A o \in Objects : v.cache[o] = IF o \in S /\ w.heap[o].weak # {} THEN None
                                                ELSE w.cache[o]
<1> DEFINE v == s_delete_object(w, S)
           told     == UNION {w.heap[o].weak : o \in S}
           detached == UNION {w.heap[o].attribs : o \in S}
           left(o)  == {a \in S : w.heap[a].owner = o}
           H == [o \in Objects |->
                    IF o \in S \/ w.heap[o] = None THEN None
                    ELSE [w.heap[o] EXCEPT !.attribs = @ \ left(o),
                                           !.owner   = IF o \in detached THEN None ELSE @]]
           B == [s \in Smobs |-> IF s \in told THEN [w.smob[s] EXCEPT !.data = None]
                                 ELSE w.smob[s]]
           C == [o \in Objects |-> IF o \in S /\ w.heap[o].weak # {} THEN None
                                   ELSE w.cache[o]]
<1>1. v = [w EXCEPT !.heap = H, !.smob = B, !.cache = C, !.twice = @ \ S]
  BY Zenon DEF s_delete_object
<1>2. v = [heap |-> H, smob |-> B, cache |-> C, twice |-> w.twice \ S, stray |-> w.stray]
  <2> HIDE DEF v, H, B, C
  <2> QED
    BY <1>1 DEF HandlesInv, World
<1>3. /\ \A o \in Objects : w.heap[o] # None => w.heap[o] \in Object
      /\ \A s \in Smobs : w.smob[s] # None => w.smob[s] \in Handle
      /\ \A o \in Objects : w.cache[o] \in Smobs \cup {None}
      /\ w.twice \subseteq Objects /\ w.stray \in BOOLEAN
      /\ S \subseteq Objects /\ \A o \in S : w.heap[o] # None
  <2> HIDE DEF H, B, C, v
  <2>1. w \in World /\ S \subseteq Objects /\ \A o \in S : w.heap[o] # None
    BY DEF HandlesInv, LiveIn
  <2> QED
    BY <2>1 DEF World
<1>4. ASSUME NEW o \in Objects, ~(o \in S \/ w.heap[o] = None)
      PROVE  /\ H[o] \in Object
             /\ H[o].page = w.heap[o].page
             /\ H[o].parent = w.heap[o].parent
             /\ H[o].weak = w.heap[o].weak
             /\ H[o].attribs = w.heap[o].attribs \ left(o)
             /\ H[o].owner = IF o \in detached THEN None ELSE w.heap[o].owner
  <2> HIDE DEF left, detached
  <2>1. w.heap[o] \in Object
    BY <1>3, <1>4
  <2>2. H[o] = [w.heap[o] EXCEPT !.attribs = @ \ left(o),
                                 !.owner   = IF o \in detached THEN None ELSE @]
    BY <1>4
  <2>3. (w.heap[o].attribs \ left(o)) \in SUBSET Objects
    BY <2>1 DEF Object
  <2> HIDE DEF H
  <2> QED
    BY <2>1, <2>2, <2>3 DEF Object
<1>5. \A o \in Objects : (o \in S \/ w.heap[o] = None) => H[o] = None
  OBVIOUS
<1>6. H \in [Objects -> Object \cup {None}]
  <2>1. \A o \in Objects : H[o] \in Object \cup {None}
    <3> HIDE DEF H
    <3> QED
      BY <1>4, <1>5
  <2> QED
    BY <2>1
<1>7. told \in SUBSET Smobs /\ \A s : s \in told <=> \E o \in S : s \in w.heap[o].weak
  BY <1>3 DEF Object
<1>8. \A s \in told : w.smob[s] # None /\ [w.smob[s] EXCEPT !.data = None] \in Handle
  <2>1. \A s \in told : w.smob[s] # None
    BY <1>3, <1>7 DEF HandlesInv, Registered
  <2>2. \A h \in Handle : [h EXCEPT !.data = None] \in Handle
    BY DEF Handle
  <2> HIDE DEF told
  <2> QED
    BY <1>3, <1>7, <2>1, <2>2
<1>9. \A o : o \in detached <=> \E q \in S : o \in w.heap[q].attribs
  OBVIOUS
<1> HIDE DEF told, detached
<1>10. B \in [Smobs -> Handle \cup {None}]
  BY <1>3, <1>8
<1>11. C \in [Objects -> Smobs \cup {None}]
  BY <1>3
<1> HIDE DEF H
<1>12. v \in World
  <2> HIDE DEF v, B, C
  <2> QED
    BY <1>2, <1>3, <1>6, <1>10, <1>11 DEF World
<1>13. /\ v.heap = H /\ v.smob = B /\ v.cache = C /\ v.twice = w.twice \ S
       /\ v.stray = w.stray
  <2> HIDE DEF v, B, C
  <2> QED
    BY <1>2
<1>14. \A s \in Smobs : v.smob[s] = IF \E o \in S : s \in w.heap[o].weak
                                   THEN [w.smob[s] EXCEPT !.data = None] ELSE w.smob[s]
  BY <1>7, <1>13
<1>15. \A o \in Objects : v.cache[o] = IF o \in S /\ w.heap[o].weak # {} THEN None
                                      ELSE w.cache[o]
  BY <1>13
<1> HIDE DEF v, B, C
<1>16. ASSUME NEW o \in Objects
       PROVE  /\ v.heap[o] = None <=> o \in S \/ w.heap[o] = None
              /\ v.heap[o] # None =>
                   /\ v.heap[o].page = w.heap[o].page
                   /\ v.heap[o].parent = w.heap[o].parent
                   /\ v.heap[o].weak = w.heap[o].weak
                   /\ v.heap[o].attribs = w.heap[o].attribs \ left(o)
                   /\ v.heap[o].owner = IF \E q \in S : o \in w.heap[q].attribs
                                        THEN None ELSE w.heap[o].owner
  <2>1. v.heap[o] = H[o]
    BY <1>13
  <2> HIDE DEF left
  <2> QED
    BY <2>1, <1>4, <1>5, <1>9, NoneIsNothing
<1> QED
  BY <1>12, <1>13, <1>14, <1>15, <1>16 DEF v

\* The handles of S are told that it is gone.
Told(v, w, S) ==
  \A s \in Smobs :
    /\ v.smob[s] = None <=> w.smob[s] = None
    /\ w.smob[s] # None =>
         /\ v.smob[s].data = IF w.smob[s].data \in S THEN None ELSE w.smob[s].data
         /\ v.smob[s].gc = w.smob[s].gc

\* When objects die, their handles are told, and no others.
LEMMA DeletedHandles ==
  ASSUME NEW w, HandlesInv(w), NEW S \in SUBSET LiveIn(w)
  PROVE  /\ HandlesInv(s_delete_object(w, S))
         /\ Told(s_delete_object(w, S), w, S)
<1> DEFINE v == s_delete_object(w, S)
<1>0. /\ w \in World /\ Registered(w) /\ NotDangling(w) /\ CacheOwned(w) /\ OneHandle(w)
      /\ S \subseteq Objects /\ \A o \in S : w.heap[o] # None
  BY DEF HandlesInv, LiveIn
<1>1. /\ v \in World
      /\ v.twice = w.twice \ S
      /\ \A o \in Objects : /\ v.heap[o] = None <=> o \in S \/ w.heap[o] = None
                            /\ v.heap[o] # None => v.heap[o].weak = w.heap[o].weak
      /\ \A s \in Smobs : v.smob[s] = IF \E o \in S : s \in w.heap[o].weak
                                      THEN [w.smob[s] EXCEPT !.data = None]
                                      ELSE w.smob[s]
      /\ \A o \in Objects : v.cache[o] = IF o \in S /\ w.heap[o].weak # {} THEN None
                                         ELSE w.cache[o]
  BY Deleted
<1> HIDE DEF v
<1>2. \A s \in Smobs : (\E o \in S : s \in w.heap[o].weak) <=>
                         w.smob[s] # None /\ w.smob[s].data \in S
  BY <1>0 DEF Registered
<1>3. \A s \in Smobs : w.smob[s] # None => w.smob[s] \in Handle
  BY <1>0 DEF World
<1>4. \A s \in Smobs :
        /\ v.smob[s] = None <=> w.smob[s] = None
        /\ w.smob[s] # None =>
             /\ v.smob[s].data = IF w.smob[s].data \in S THEN None ELSE w.smob[s].data
             /\ v.smob[s].gc = w.smob[s].gc
  <2> SUFFICES ASSUME NEW s \in Smobs
               PROVE  /\ v.smob[s] = None <=> w.smob[s] = None
                      /\ w.smob[s] # None =>
                           /\ v.smob[s].data = IF w.smob[s].data \in S THEN None
                                               ELSE w.smob[s].data
                           /\ v.smob[s].gc = w.smob[s].gc
    OBVIOUS
  <2>1. CASE w.smob[s] # None /\ w.smob[s].data \in S
    <3>1. v.smob[s] = [w.smob[s] EXCEPT !.data = None]
      BY <1>1, <1>2, <2>1
    <3>2. w.smob[s] \in Handle
      BY <1>3, <2>1
    <3>3. v.smob[s] \in Handle
      BY <3>1, <3>2 DEF Handle
    <3> QED
      BY <2>1, <3>1, <3>2, <3>3, NoneIsNothing DEF Handle
  <2>2. CASE ~(w.smob[s] # None /\ w.smob[s].data \in S)
    BY <1>1, <1>2, <2>2
  <2> QED
    BY <2>1, <2>2
<1>5. Registered(v)
  BY <1>0, <1>1, <1>4, NoneIsNothing DEF Registered
<1>6. NotDangling(v)
  BY <1>0, <1>1, <1>3, <1>4 DEF NotDangling, Handle
<1>7. CacheOwned(v)
  <2> SUFFICES ASSUME NEW o \in Objects, v.cache[o] # None
               PROVE  v.smob[v.cache[o]] # None /\ v.smob[v.cache[o]].data = o
                        /\ ~v.smob[v.cache[o]].gc
    BY DEF CacheOwned
  <2>1. v.cache[o] = w.cache[o] /\ w.cache[o] \in Smobs
    BY <1>0, <1>1 DEF World
  <2>2. w.smob[w.cache[o]] # None /\ w.smob[w.cache[o]].data = o /\ ~w.smob[w.cache[o]].gc
    BY <1>0, <2>1 DEF CacheOwned
  <2>3. o \notin S
    BY <1>0, <1>1, <2>1, <2>2 DEF Registered
  <2> QED
    BY <1>4, <2>1, <2>2, <2>3
<1>8. OneHandle(v)
  BY <1>0, <1>1, <1>4 DEF OneHandle
<1> QED
  BY <1>1, <1>4, <1>5, <1>6, <1>7, <1>8 DEF v, HandlesInv, Told

\* smob_free without the object: the handle is gone, and o does not tell it.
Forget(w, s) ==
  LET o == w.smob[s].data
  IN  IF o = None THEN [w EXCEPT !.smob[s] = None]
      ELSE [w EXCEPT !.heap[o].weak = @ \ {s}, !.smob[s] = None]

\* The handles stay valid when one is finalized that smob_cache does not have.
LEMMA ForgetHandles ==
  ASSUME NEW w, HandlesInv(w), NEW s \in Smobs, w.smob[s] # None,
         \A o \in Objects : w.cache[o] # s
  PROVE  /\ HandlesInv(Forget(w, s))
         /\ SamePlaces(Forget(w, s), w)
         /\ Forget(w, s).twice = w.twice
         /\ \A t \in Smobs : Forget(w, s).smob[t] = IF t = s THEN None ELSE w.smob[t]
<1> DEFINE v == Forget(w, s)
           o == w.smob[s].data
<1>0. /\ w \in World /\ Registered(w) /\ NotDangling(w) /\ CacheOwned(w) /\ OneHandle(w)
      /\ o \in Objects \cup {None}
  BY DEF HandlesInv, World, Handle
<1>1. /\ v \in World /\ SamePlaces(v, w)
      /\ v.smob = [w.smob EXCEPT ![s] = None] /\ v.cache = w.cache /\ v.twice = w.twice
      /\ \A x \in Objects : w.heap[x] # None =>
           v.heap[x].weak = IF x = o THEN w.heap[x].weak \ {s} ELSE w.heap[x].weak
  <2>1. CASE o = None
    <3>1. v = [w EXCEPT !.smob[s] = None]
      BY <2>1 DEF Forget
    <3> HIDE DEF v, o
    <3>2. v \in World
      BY <1>0, <3>1 DEF World
    <3> QED
      BY <1>0, <2>1, <3>1, <3>2, NoneIsNothing DEF World, SamePlaces
  <2>2. CASE o # None
    <3>1. v = [w EXCEPT !.heap[o].weak = @ \ {s}, !.smob[s] = None]
      BY <2>2 DEF Forget
    <3>2. o \in Objects /\ w.heap[o] # None /\ w.heap[o] \in Object
      BY <1>0, <2>2 DEF NotDangling, World
    <3>3. [w.heap[o] EXCEPT !.weak = @ \ {s}] \in Object
      BY <3>2 DEF Object
    <3> HIDE DEF v, o
    <3>4. v \in World
      BY <1>0, <3>1, <3>2, <3>3 DEF World
    <3>5. SamePlaces(v, w)
      BY <1>0, <3>1, <3>2, <3>3, NoneIsNothing DEF World, SamePlaces, Object
    <3> QED
      BY <1>0, <3>1, <3>2, <3>3, <3>4, <3>5, NoneIsNothing DEF World, Object
  <2> QED
    BY <2>1, <2>2
<1>2. \A t \in Smobs : v.smob[t] = IF t = s THEN None ELSE w.smob[t]
  BY <1>0, <1>1 DEF World
<1> HIDE DEF v
<1>3. \A x \in Objects : v.heap[x] = None <=> w.heap[x] = None
  BY <1>1 DEF SamePlaces
<1>4. Registered(v)
  <2> SUFFICES ASSUME NEW x \in Objects, v.heap[x] # None, NEW t \in Smobs
               PROVE  t \in v.heap[x].weak <=> v.smob[t] # None /\ v.smob[t].data = x
    BY DEF Registered
  <2>1. t \in w.heap[x].weak <=> w.smob[t] # None /\ w.smob[t].data = x
    BY <1>0, <1>3 DEF Registered
  <2> QED
    BY <1>1, <1>2, <1>3, <2>1
<1>5. NotDangling(v)
  <2>1. \A t \in Smobs : w.smob[t] # None => w.smob[t].data \in Objects \cup {None}
    BY <1>0 DEF World, Handle
  <2> QED
    BY <1>0, <1>2, <1>3, <2>1 DEF NotDangling
<1>6. CacheOwned(v)
  BY <1>0, <1>1, <1>2 DEF CacheOwned, World
<1>7. OneHandle(v)
  BY <1>0, <1>1, <1>2 DEF OneHandle
<1> QED
  BY <1>1, <1>2, <1>4, <1>5, <1>6, <1>7 DEF v, HandlesInv

-----------------------------------------------------------------------------
(* Places and attributes. *)

\* An object on a page is in no component; what is in a component is no component.
Placed(w) ==
  \A o \in Objects : w.heap[o] # None =>
    /\ w.heap[o].page # None => w.heap[o].parent = None
    /\ w.heap[o].parent # None => o \notin Components /\ w.heap[o].parent \in Components

\* An attribute and its object know of each other.
Mutual(w) ==
  /\ \A a \in Objects : (w.heap[a] # None /\ w.heap[a].owner # None) =>
       w.heap[w.heap[a].owner] # None /\ a \in w.heap[w.heap[a].owner].attribs
  /\ \A q \in Objects : w.heap[q] # None =>
       \A b \in w.heap[q].attribs : w.heap[b] # None /\ w.heap[b].owner = q

\* They are in the same place.
Together(w) ==
  \A a \in Objects : (w.heap[a] # None /\ w.heap[a].owner # None) =>
    /\ w.heap[w.heap[a].owner].page = w.heap[a].page
    /\ w.heap[w.heap[a].owner].parent = w.heap[a].parent

\* Loose objects are not attached to anything: the calls that remove an object from
\* a page or a component refuse one that is.
LooseAlone(w) ==
  \A o \in Objects : (w.heap[o] # None /\ LooseIn(w, o)) =>
    w.heap[o].owner = None /\ w.heap[o].attribs = {}

PlacesInv(w) ==
  /\ w \in World
  /\ Placed(w)
  /\ Mutual(w)
  /\ w.stray \/ (Together(w) /\ LooseAlone(w))

\* The values of the fields of an object.
LEMMA ObjectFields ==
  ASSUME NEW w \in World, NEW o \in Objects, w.heap[o] # None
  PROVE  /\ w.heap[o] \in Object
         /\ w.heap[o].page \in Pages \cup {None}
         /\ w.heap[o].parent \in Objects \cup {None}
         /\ w.heap[o].owner \in Objects \cup {None}
         /\ w.heap[o].attribs \subseteq Objects
BY DEF World, Object

\* The inductive invariant about places is stronger than what is promised.
LEMMA PlacesInvSuffices == PlacesInv(m) => AttachmentsStayTogether
<1> SUFFICES ASSUME PlacesInv(m)
             PROVE  AttachmentsStayTogether
  OBVIOUS
<1>1. m \in World /\ Mutual(m) /\ (m.stray \/ Together(m))
  BY DEF PlacesInv
<1>2. \A o \in Objects : m.heap[o] # None =>
        m.heap[o].owner \in Objects \cup {None} /\ m.heap[o].attribs \subseteq Objects
  BY <1>1, ObjectFields
<1> QED
  BY <1>1, <1>2 DEF Mutual, Together, AttachmentsStayTogether, Live

\* Changes of handles do not touch the places.
LEMMA SamePlacesInv ==
  ASSUME NEW w, PlacesInv(w), NEW v \in World, SamePlaces(v, w)
  PROVE  PlacesInv(v)
<1>0. w \in World /\ Placed(w) /\ Mutual(w) /\ v.stray = w.stray
  BY DEF PlacesInv, SamePlaces
<1>1. Placed(v)
  BY <1>0 DEF Placed, SamePlaces
<1>2. Mutual(v) /\ (Together(w) => Together(v))
  <2>1. \A o \in Objects : w.heap[o] # None =>
          w.heap[o].owner \in Objects \cup {None} /\ w.heap[o].attribs \subseteq Objects
    BY <1>0, ObjectFields
  <2>2. /\ \A o \in Objects : v.heap[o] = None <=> w.heap[o] = None
        /\ \A o \in Objects : w.heap[o] # None =>
             /\ v.heap[o].page = w.heap[o].page
             /\ v.heap[o].parent = w.heap[o].parent
             /\ v.heap[o].owner = w.heap[o].owner
             /\ v.heap[o].attribs = w.heap[o].attribs
    BY DEF SamePlaces
  <2> QED
    BY <1>0, <2>1, <2>2 DEF Mutual, Together
<1>3. ASSUME LooseAlone(w)
      PROVE  LooseAlone(v)
  BY <1>3 DEF LooseAlone, LooseIn, SamePlaces
<1> QED
  BY <1>0, <1>1, <1>2, <1>3 DEF PlacesInv

\* Deleting objects takes them out of the lists they are in.
LEMMA DeletedPlaces ==
  ASSUME NEW w, HandlesInv(w), PlacesInv(w), NEW S \in SUBSET LiveIn(w)
  PROVE  PlacesInv(s_delete_object(w, S))
<1> DEFINE v == s_delete_object(w, S)
<1>0. /\ w \in World /\ Placed(w) /\ Mutual(w) /\ v.stray = w.stray
      /\ S \subseteq Objects /\ \A o \in S : w.heap[o] # None
  BY Deleted DEF PlacesInv, LiveIn
<1>1. /\ v \in World
      /\ \A o \in Objects :
           /\ v.heap[o] = None <=> o \in S \/ w.heap[o] = None
           /\ v.heap[o] # None =>
                /\ v.heap[o].page = w.heap[o].page
                /\ v.heap[o].parent = w.heap[o].parent
                /\ v.heap[o].attribs =
                     w.heap[o].attribs \ {a \in S : w.heap[a].owner = o}
                /\ v.heap[o].owner = IF \E q \in S : o \in w.heap[q].attribs
                                     THEN None ELSE w.heap[o].owner
  BY Deleted
<1> HIDE DEF v
<1>2. Placed(v)
  BY <1>0, <1>1 DEF Placed
<1>3. Mutual(v) /\ (Together(w) => Together(v))
  <2>1. \A o \in Objects : w.heap[o] # None =>
          w.heap[o].owner \in Objects \cup {None} /\ w.heap[o].attribs \subseteq Objects
    BY <1>0, ObjectFields
  <2>2. ASSUME NEW a \in Objects, v.heap[a] # None, v.heap[a].owner # None
        PROVE  /\ w.heap[a] # None /\ v.heap[a].owner = w.heap[a].owner
               /\ w.heap[a].owner # None /\ w.heap[a].owner \in Objects
               /\ v.heap[w.heap[a].owner] # None
               /\ a \in v.heap[w.heap[a].owner].attribs
    <3> DEFINE q == w.heap[a].owner
    <3>1. w.heap[a] # None /\ a \notin S /\ v.heap[a].owner = q /\ q # None
          /\ ~\E x \in S : a \in w.heap[x].attribs
      BY <1>1, <2>2
    <3>2. q \in Objects /\ w.heap[q] # None /\ a \in w.heap[q].attribs
      BY <1>0, <2>1, <3>1 DEF Mutual
    <3>3. q \notin S
      BY <3>1, <3>2
    <3> HIDE DEF q
    <3>4. v.heap[q] # None
      BY <1>1, <3>2, <3>3
    <3>5. a \in v.heap[q].attribs
      BY <1>1, <3>1, <3>2, <3>4
    <3> QED
      BY <3>1, <3>2, <3>4, <3>5 DEF q
  <2>3. ASSUME NEW q \in Objects, v.heap[q] # None, NEW b \in v.heap[q].attribs
        PROVE  v.heap[b] # None /\ v.heap[b].owner = q
    <3>1. w.heap[q] # None /\ b \in w.heap[q].attribs /\ ~(b \in S /\ w.heap[b].owner = q)
      BY <1>1, <2>3
    <3>2. b \in Objects /\ w.heap[b] # None /\ w.heap[b].owner = q
      BY <1>0, <2>1, <3>1 DEF Mutual
    <3>3. ~\E x \in S : b \in w.heap[x].attribs
      BY <1>0, <1>1, <2>3, <3>2 DEF Mutual
    <3> QED
      BY <1>1, <3>1, <3>2, <3>3
  <2>4. Mutual(v)
    BY <2>2, <2>3 DEF Mutual
  <2>5. Together(w) => Together(v)
    BY <1>1, <2>2 DEF Together
  <2> QED
    BY <2>4, <2>5
<1>4. ASSUME LooseAlone(w)
      PROVE  LooseAlone(v)
  BY <1>1, <1>4 DEF LooseAlone, LooseIn
<1> QED
  BY <1>0, <1>1, <1>2, <1>3, <1>4 DEF PlacesInv, v

\* New objects that are attached to nothing, besides what was there.
AddedPlaces(v, w) ==
  /\ w.stray => v.stray
  /\ \A o \in Objects : w.heap[o] # None =>
       /\ v.heap[o] # None
       /\ v.heap[o].page = w.heap[o].page
       /\ v.heap[o].parent = w.heap[o].parent
       /\ v.heap[o].owner = w.heap[o].owner
       /\ v.heap[o].attribs = w.heap[o].attribs
  /\ \A o \in Objects : (w.heap[o] = None /\ v.heap[o] # None) =>
       /\ v.heap[o].page # None => v.heap[o].parent = None
       /\ v.heap[o].parent # None => o \notin Components /\ v.heap[o].parent \in Components
       /\ v.heap[o].owner = None
       /\ v.heap[o].attribs = {}

\* Adding objects that are attached to nothing disturbs nothing.
LEMMA AddedPlacesInv ==
  ASSUME NEW w, PlacesInv(w), NEW v \in World, AddedPlaces(v, w)
  PROVE  PlacesInv(v)
<1>0. /\ w \in World /\ Placed(w) /\ Mutual(w)
      /\ w.stray => v.stray
      /\ w.stray \in BOOLEAN /\ v.stray \in BOOLEAN
  BY DEF PlacesInv, AddedPlaces, World
<1>1. Placed(v)
  <2> SUFFICES ASSUME NEW o \in Objects, v.heap[o] # None
               PROVE  /\ v.heap[o].page # None => v.heap[o].parent = None
                      /\ v.heap[o].parent # None =>
                           o \notin Components /\ v.heap[o].parent \in Components
    BY DEF Placed
  <2>1. CASE w.heap[o] # None
    BY <1>0, <2>1 DEF Placed, AddedPlaces
  <2>2. CASE w.heap[o] = None
    BY <2>2 DEF AddedPlaces
  <2> QED
    BY <2>1, <2>2
<1>2. Mutual(v) /\ (Together(w) => Together(v))
  <2>1. \A o \in Objects : w.heap[o] # None =>
          w.heap[o].owner \in Objects \cup {None} /\ w.heap[o].attribs \subseteq Objects
    BY <1>0, ObjectFields
  <2>2. ASSUME NEW a \in Objects, v.heap[a] # None, v.heap[a].owner # None
        PROVE  w.heap[a] # None /\ w.heap[a].owner \in Objects /\ w.heap[a].owner # None
    <3>1. w.heap[a] # None
      BY <2>2 DEF AddedPlaces
    <3> QED
      BY <2>1, <2>2, <3>1 DEF AddedPlaces
  <2>3. \A a \in Objects : (v.heap[a] # None /\ v.heap[a].owner # None) =>
          v.heap[v.heap[a].owner] # None /\ a \in v.heap[v.heap[a].owner].attribs
    BY <1>0, <2>2 DEF Mutual, AddedPlaces
  <2>4. ASSUME NEW q \in Objects, v.heap[q] # None, NEW b \in v.heap[q].attribs
        PROVE  v.heap[b] # None /\ v.heap[b].owner = q
    <3>1. w.heap[q] # None
      BY <2>4 DEF AddedPlaces
    <3> QED
      BY <1>0, <2>1, <2>4, <3>1 DEF Mutual, AddedPlaces
  <2>5. Together(w) => Together(v)
    <3> SUFFICES ASSUME Together(w), NEW a \in Objects, v.heap[a] # None, v.heap[a].owner # None
                 PROVE  /\ v.heap[v.heap[a].owner].page = v.heap[a].page
                        /\ v.heap[v.heap[a].owner].parent = v.heap[a].parent
      BY DEF Together
    <3>1. w.heap[a] # None /\ w.heap[a].owner \in Objects /\ w.heap[a].owner # None
      BY <2>2
    <3>2. w.heap[w.heap[a].owner] # None
      BY <1>0, <3>1 DEF Mutual
    <3> QED
      BY <3>1, <3>2 DEF Together, AddedPlaces
  <2> QED
    BY <2>3, <2>4, <2>5 DEF Mutual
<1>3. ASSUME LooseAlone(w)
      PROVE  LooseAlone(v)
  <2> SUFFICES ASSUME NEW o \in Objects, v.heap[o] # None, LooseIn(v, o)
               PROVE  v.heap[o].owner = None /\ v.heap[o].attribs = {}
    BY DEF LooseAlone
  <2>1. CASE w.heap[o] # None
    BY <1>3, <2>1 DEF LooseAlone, LooseIn, AddedPlaces
  <2>2. CASE w.heap[o] = None
    BY <2>2 DEF AddedPlaces
  <2> QED
    BY <2>1, <2>2
<1> QED
  BY <1>0, <1>1, <1>2, <1>3 DEF PlacesInv

\* The objects of v are where they are in w.
Unmoved(v, w) ==
  /\ \A o \in Objects : v.heap[o] = None <=> w.heap[o] = None
  /\ \A o \in Objects : w.heap[o] # None =>
       v.heap[o].page = w.heap[o].page /\ v.heap[o].parent = w.heap[o].parent

\* Object o, which is attached to nothing, is moved.
MovedPlace(v, w, o) ==
  /\ v.stray = w.stray
  /\ \A x \in Objects : v.heap[x] = None <=> w.heap[x] = None
  /\ \A x \in Objects : w.heap[x] # None =>
       /\ x # o => v.heap[x].page = w.heap[x].page /\ v.heap[x].parent = w.heap[x].parent
       /\ v.heap[x].owner = w.heap[x].owner
       /\ v.heap[x].attribs = w.heap[x].attribs

\* Moving an object that is attached to nothing separates nothing.
LEMMA MovedPlacesInv ==
  ASSUME NEW w, PlacesInv(w), NEW v \in World, NEW o \in Objects, w.heap[o] # None,
         MovedPlace(v, w, o),
         w.stray \/ (w.heap[o].owner = None /\ w.heap[o].attribs = {}),
         v.heap[o].page # None => v.heap[o].parent = None,
         v.heap[o].parent # None => o \notin Components /\ v.heap[o].parent \in Components
  PROVE  PlacesInv(v)
<1>0. w \in World /\ Placed(w) /\ Mutual(w) /\ v.stray = w.stray
  BY DEF PlacesInv, MovedPlace
<1>1. Placed(v)
  BY <1>0 DEF Placed, MovedPlace
<1>2. \A x \in Objects : w.heap[x] # None =>
        w.heap[x].owner \in Objects \cup {None} /\ w.heap[x].attribs \subseteq Objects
  BY <1>0, ObjectFields
<1>3. Mutual(v)
  BY <1>0, <1>2 DEF Mutual, MovedPlace
<1>4. ASSUME Together(w), LooseAlone(w), ~w.stray
      PROVE  Together(v) /\ LooseAlone(v)
  <2>1. ASSUME NEW a \in Objects, v.heap[a] # None, v.heap[a].owner # None
        PROVE  /\ v.heap[v.heap[a].owner].page = v.heap[a].page
               /\ v.heap[v.heap[a].owner].parent = v.heap[a].parent
    <3> DEFINE q == w.heap[a].owner
    <3>1. w.heap[a] # None /\ v.heap[a].owner = q /\ q # None /\ q \in Objects /\ a # o
      BY <1>2, <1>4, <2>1 DEF MovedPlace
    <3>2. w.heap[q] # None /\ a \in w.heap[q].attribs
          /\ w.heap[q].page = w.heap[a].page /\ w.heap[q].parent = w.heap[a].parent
      BY <1>0, <1>4, <3>1 DEF Mutual, Together
    <3>3. q # o
      BY <1>4, <3>2
    <3> HIDE DEF q
    <3> QED
      BY <3>1, <3>2, <3>3 DEF MovedPlace
  <2>2. LooseAlone(v)
    BY <1>4 DEF LooseAlone, LooseIn, MovedPlace
  <2> QED
    BY <2>1, <2>2 DEF Together
<1> QED
  BY <1>0, <1>1, <1>3, <1>4 DEF PlacesInv, World

\* o_attrib_attach attaches an object that is not attached, in the same place.
LEMMA AttachedPlaces ==
  ASSUME NEW w, PlacesInv(w), NEW a \in Objects, NEW q \in Objects,
         w.heap[a] # None, w.heap[q] # None, w.heap[a].owner = None, a \notin Components,
         w.stray \/ /\ w.heap[q].page = w.heap[a].page
                    /\ w.heap[q].parent = w.heap[a].parent
                    /\ ~LooseIn(w, a)
  PROVE  /\ PlacesInv(Attached(w, a, q))
         /\ SameHandles(Attached(w, a, q), w)
         /\ Unmoved(Attached(w, a, q), w)
<1> DEFINE v == Attached(w, a, q)
<1>0. /\ w \in World /\ Placed(w) /\ Mutual(w) /\ w.heap[a] \in Object /\ w.heap[q] \in Object
      /\ \A x \in Objects : w.heap[x] # None =>
           w.heap[x].owner \in Objects \cup {None} /\ w.heap[x].attribs \subseteq Objects
  BY ObjectFields DEF PlacesInv
<1> DEFINE H == [w.heap EXCEPT ![a].owner = q, ![q].attribs = @ \cup {a}]
<1>1. v = [w EXCEPT !.heap = H]
  BY DEF Attached
<1>2. /\ H \in [Objects -> Object \cup {None}]
      /\ \A x \in Objects : H[x] = None <=> w.heap[x] = None
      /\ \A x \in Objects : w.heap[x] # None =>
           /\ H[x].page = w.heap[x].page
           /\ H[x].parent = w.heap[x].parent
           /\ H[x].weak = w.heap[x].weak
           /\ H[x].owner = IF x = a THEN q ELSE w.heap[x].owner
           /\ H[x].attribs = IF x = q THEN w.heap[x].attribs \cup {a} ELSE w.heap[x].attribs
  <2> DEFINE G == [w.heap EXCEPT ![a].owner = q]
  <2>0. w.heap \in [Objects -> Object \cup {None}]
    BY <1>0 DEF World
  <2>1. [w.heap[a] EXCEPT !.owner = q] \in Object
    BY <1>0 DEF Object
  <2>2. /\ G \in [Objects -> Object \cup {None}]
        /\ G[a] = [w.heap[a] EXCEPT !.owner = q]
        /\ \A x \in Objects \ {a} : G[x] = w.heap[x]
    BY <2>0, <2>1
  <2>3. H = [G EXCEPT ![q].attribs = @ \cup {a}]
    BY <2>0
  <2>4. G[q] \in Object
    BY <1>0, <2>1, <2>2
  <2> HIDE DEF G, H
  <2>5. [G[q] EXCEPT !.attribs = @ \cup {a}] \in Object
    BY <2>4 DEF Object
  <2>6. /\ H \in [Objects -> Object \cup {None}]
        /\ H[q] = [G[q] EXCEPT !.attribs = @ \cup {a}]
        /\ \A x \in Objects \ {q} : H[x] = G[x]
    BY <2>2, <2>3, <2>5
  <2>7. /\ G[a] # None
        /\ G[a].page = w.heap[a].page /\ G[a].parent = w.heap[a].parent
        /\ G[a].weak = w.heap[a].weak /\ G[a].attribs = w.heap[a].attribs
        /\ G[a].owner = q
    BY <1>0, <2>1, <2>2, NoneIsNothing DEF Object
  <2>8. /\ H[q] # None
        /\ H[q].page = G[q].page /\ H[q].parent = G[q].parent
        /\ H[q].weak = G[q].weak /\ H[q].owner = G[q].owner
        /\ H[q].attribs = G[q].attribs \cup {a}
    BY <2>4, <2>5, <2>6, NoneIsNothing DEF Object
  <2>9. \A x \in Objects \ {a, q} : H[x] = w.heap[x]
    BY <2>2, <2>6
  <2>10. a # q => H[a] = G[a] /\ G[q] = w.heap[q]
    BY <2>2, <2>6
  <2>11. ASSUME NEW x \in Objects
         PROVE  /\ H[x] = None <=> w.heap[x] = None
                /\ w.heap[x] # None =>
                     /\ H[x].page = w.heap[x].page
                     /\ H[x].parent = w.heap[x].parent
                     /\ H[x].weak = w.heap[x].weak
                     /\ H[x].owner = IF x = a THEN q ELSE w.heap[x].owner
                     /\ H[x].attribs = IF x = q THEN w.heap[x].attribs \cup {a}
                                       ELSE w.heap[x].attribs
    <3>1. CASE x \notin {a, q}
      BY <2>9, <3>1
    <3>2. CASE x = a /\ a # q
      BY <2>7, <2>10, <3>2
    <3>3. CASE x = q /\ a # q
      BY <2>8, <2>10, <3>3
    <3>4. CASE x = a /\ a = q
      BY <2>7, <2>8, <3>4
    <3> QED
      BY <3>1, <3>2, <3>3, <3>4
  <2> QED
    BY <2>6, <2>11
<1> HIDE DEF H
<1>3. /\ v \in World /\ v.heap = H /\ v.smob = w.smob /\ v.cache = w.cache
      /\ v.twice = w.twice /\ v.stray = w.stray
  <2> HIDE DEF v
  <2> QED
    BY <1>0, <1>1, <1>2 DEF World
<1> HIDE DEF v
<1>4. \A x \in Objects :
        /\ v.heap[x] = None <=> w.heap[x] = None
        /\ w.heap[x] # None =>
             /\ v.heap[x].page = w.heap[x].page
             /\ v.heap[x].parent = w.heap[x].parent
             /\ v.heap[x].weak = w.heap[x].weak
             /\ v.heap[x].owner = IF x = a THEN q ELSE w.heap[x].owner
             /\ v.heap[x].attribs = IF x = q THEN w.heap[x].attribs \cup {a}
                                    ELSE w.heap[x].attribs
  BY <1>2, <1>3
<1>5. Placed(v)
  BY <1>0, <1>4 DEF Placed
<1>6. Mutual(v)
  <2>1. ASSUME NEW b \in Objects, v.heap[b] # None, v.heap[b].owner # None
        PROVE  v.heap[v.heap[b].owner] # None /\ b \in v.heap[v.heap[b].owner].attribs
    <3>1. CASE b = a
      BY <1>4, <3>1
    <3>2. CASE b # a
      <4>1. v.heap[b].owner = w.heap[b].owner /\ w.heap[b] # None
            /\ w.heap[b].owner \in Objects /\ w.heap[b].owner # None
        BY <1>0, <1>4, <2>1, <3>2
      <4>2. w.heap[w.heap[b].owner] # None /\ b \in w.heap[w.heap[b].owner].attribs
        BY <1>0, <4>1 DEF Mutual
      <4> QED
        BY <1>4, <4>1, <4>2
    <3> QED
      BY <3>1, <3>2
  <2>2. ASSUME NEW x \in Objects, v.heap[x] # None, NEW b \in v.heap[x].attribs
        PROVE  v.heap[b] # None /\ v.heap[b].owner = x
    <3>1. w.heap[x] # None /\ (b \in w.heap[x].attribs \/ (x = q /\ b = a))
      BY <1>4, <2>2
    <3>2. CASE b \in w.heap[x].attribs
      <4>1. b \in Objects /\ w.heap[b] # None /\ w.heap[b].owner = x
        BY <1>0, <3>1, <3>2 DEF Mutual
      <4>2. b # a
        BY <4>1, NoneIsNothing
      <4> QED
        BY <1>4, <4>1, <4>2
    <3>3. CASE x = q /\ b = a
      BY <1>4, <3>3
    <3> QED
      BY <3>1, <3>2, <3>3
  <2> QED
    BY <2>1, <2>2 DEF Mutual
<1>8. ASSUME ~w.stray
      PROVE  Together(v) /\ LooseAlone(v)
  <2>1. Together(w) /\ LooseAlone(w) /\ ~LooseIn(w, a)
        /\ w.heap[q].page = w.heap[a].page /\ w.heap[q].parent = w.heap[a].parent
    BY <1>8 DEF PlacesInv
  <2>2. ASSUME NEW b \in Objects, v.heap[b] # None, v.heap[b].owner # None
        PROVE  /\ v.heap[v.heap[b].owner].page = v.heap[b].page
               /\ v.heap[v.heap[b].owner].parent = v.heap[b].parent
    <3>1. CASE b = a
      BY <1>4, <2>1, <3>1
    <3>2. CASE b # a
      <4>1. v.heap[b].owner = w.heap[b].owner /\ w.heap[b] # None
            /\ w.heap[b].owner \in Objects /\ w.heap[b].owner # None
        BY <1>0, <1>4, <2>2, <3>2
      <4>2. /\ w.heap[w.heap[b].owner] # None
            /\ w.heap[w.heap[b].owner].page = w.heap[b].page
            /\ w.heap[w.heap[b].owner].parent = w.heap[b].parent
        BY <1>0, <2>1, <4>1 DEF Mutual, Together
      <4> QED
        BY <1>4, <4>1, <4>2
    <3> QED
      BY <3>1, <3>2
  <2>3. LooseAlone(v)
    <3>1. ~LooseIn(w, q)
      BY <2>1 DEF LooseIn
    <3> QED
      BY <1>4, <2>1, <3>1 DEF LooseAlone, LooseIn
  <2> QED
    BY <2>2, <2>3 DEF Together
<1>7. SameHandles(v, w)
  BY <1>3, <1>4 DEF SameHandles
<1> QED
  BY <1>0, <1>3, <1>4, <1>5, <1>6, <1>7, <1>8 DEF PlacesInv, Unmoved, World, v

\* The objects of D are detached from what they are attached to.
Detaches(v, w, D) ==
  \A x \in Objects : w.heap[x] # None =>
    /\ v.heap[x].owner = IF x \in D THEN None ELSE w.heap[x].owner
    /\ v.heap[x].attribs = w.heap[x].attribs \ D

\* Detaching leaves nothing that is attached on one side only.
LEMMA DetachedPlacesInv ==
  ASSUME NEW w, PlacesInv(w), NEW v \in World, NEW D,
         v.stray = w.stray,
         Unmoved(v, w), Detaches(v, w, D)
  PROVE  PlacesInv(v)
<1>0. /\ w \in World /\ Placed(w) /\ Mutual(w)
      /\ \A x \in Objects : v.heap[x] = None <=> w.heap[x] = None
      /\ \A x \in Objects : w.heap[x] # None =>
           /\ v.heap[x].page = w.heap[x].page /\ v.heap[x].parent = w.heap[x].parent
           /\ v.heap[x].owner = IF x \in D THEN None ELSE w.heap[x].owner
           /\ v.heap[x].attribs = w.heap[x].attribs \ D
  BY DEF PlacesInv, Unmoved, Detaches
<1>1. Placed(v)
  BY <1>0 DEF Placed
<1>2. \A x \in Objects : w.heap[x] # None =>
        w.heap[x].owner \in Objects \cup {None} /\ w.heap[x].attribs \subseteq Objects
  BY <1>0, ObjectFields
<1>3. ASSUME NEW a \in Objects, v.heap[a] # None, v.heap[a].owner # None
      PROVE  /\ w.heap[a] # None /\ a \notin D
             /\ v.heap[a].owner = w.heap[a].owner /\ w.heap[a].owner \in Objects
             /\ w.heap[w.heap[a].owner] # None
             /\ a \in w.heap[w.heap[a].owner].attribs
  <2>1. /\ w.heap[a] # None /\ a \notin D
        /\ v.heap[a].owner = w.heap[a].owner /\ w.heap[a].owner \in Objects
    BY <1>0, <1>2, <1>3
  <2> QED
    BY <1>0, <1>3, <2>1 DEF Mutual
<1>4. Mutual(v)
  <2>1. \A a \in Objects : (v.heap[a] # None /\ v.heap[a].owner # None) =>
          v.heap[v.heap[a].owner] # None /\ a \in v.heap[v.heap[a].owner].attribs
    BY <1>0, <1>3
  <2>2. \A q \in Objects : v.heap[q] # None =>
          \A b \in v.heap[q].attribs : v.heap[b] # None /\ v.heap[b].owner = q
    BY <1>0, <1>2 DEF Mutual
  <2> QED
    BY <2>1, <2>2 DEF Mutual
<1>5. Together(w) => Together(v)
  BY <1>0, <1>3 DEF Together
<1>6. LooseAlone(w) => LooseAlone(v)
  BY <1>0, NoneIsNothing DEF LooseAlone, LooseIn
<1> QED
  BY <1>0, <1>1, <1>4, <1>5, <1>6 DEF PlacesInv, World

\* A new object with contents.
LEMMA MadeObjects ==
  ASSUME m \in World, NEW o \in Objects, NEW K \in SUBSET Texts, Fresh(o, K)
  PROVE  /\ Made(m, o, K) \in World
         /\ SameHandles(Made(m, o, K), m)
         /\ AddedPlaces(Made(m, o, K), m)
         /\ Made(m, o, K).stray = m.stray
         /\ \A x \in Objects : m.heap[x] = None =>
              /\ Made(m, o, K).heap[x] = None <=> x \notin K \cup {o}
              /\ x = o => Made(m, o, K).heap[x].page = None /\ Made(m, o, K).heap[x].parent = None
              /\ x \in K => Made(m, o, K).heap[x].page = None /\ Made(m, o, K).heap[x].parent = o
<1> DEFINE n == s_basic_init_object
           c == [s_basic_init_object EXCEPT !.parent = o]
           H == [x \in Objects |-> IF x = o THEN n ELSE IF x \in K THEN c ELSE m.heap[x]]
           v == Made(m, o, K)
<1>1. /\ n \in Object /\ n # None /\ n.page = None /\ n.parent = None
      /\ n.owner = None /\ n.attribs = {} /\ n.weak = {}
  <2>1. n \in Object
    BY DEF s_basic_init_object, Object
  <2> QED
    BY <2>1, NoneIsNothing DEF s_basic_init_object
<1>2. /\ c \in Object /\ c # None /\ c.page = None /\ c.parent = o
      /\ c.owner = None /\ c.attribs = {} /\ c.weak = {}
  <2>1. c \in Object
    BY DEF s_basic_init_object, Object
  <2> QED
    BY <2>1, NoneIsNothing DEF s_basic_init_object
<1>3. v = [m EXCEPT !.heap = H]
  BY DEF Made
<1> HIDE DEF n, c
<1>4. m.heap \in [Objects -> Object \cup {None}]
  BY DEF World
<1>5. H \in [Objects -> Object \cup {None}] /\ K \subseteq Objects
  BY <1>1, <1>2, <1>4 DEF Texts
<1>6. /\ m.heap[o] = None /\ \A x \in K : m.heap[x] = None /\ x \notin Components /\ x # o
      /\ K # {} => o \in Components
  BY <1>5 DEF Fresh, Live, Texts
<1>7. \A x \in Objects : H[x] = IF x = o THEN n ELSE IF x \in K THEN c ELSE m.heap[x]
  OBVIOUS
<1> HIDE DEF H, v
<1>8. /\ v \in World /\ v.heap = H /\ v.smob = m.smob /\ v.cache = m.cache
      /\ v.twice = m.twice /\ v.stray = m.stray
  BY <1>3, <1>5 DEF World
<1>9. \A x \in Objects : v.heap[x] = IF x = o THEN n ELSE IF x \in K THEN c ELSE m.heap[x]
  BY <1>7, <1>8
<1>10. SameHandles(v, m)
  BY <1>1, <1>2, <1>6, <1>8, <1>9 DEF SameHandles
<1>11. AddedPlaces(v, m)
  BY <1>1, <1>2, <1>6, <1>8, <1>9 DEF AddedPlaces
<1>12. \A x \in Objects : m.heap[x] = None =>
         /\ v.heap[x] = None <=> x \notin K \cup {o}
         /\ x = o => v.heap[x].page = None /\ v.heap[x].parent = None
         /\ x \in K => v.heap[x].page = None /\ v.heap[x].parent = o
  BY <1>1, <1>2, <1>6, <1>9
<1> QED
  BY <1>8, <1>10, <1>11, <1>12 DEF v

-----------------------------------------------------------------------------
(* Copies. *)

\* What is copied with S, and that the copies are new objects.
LEMMA CopyingIs ==
  ASSUME m \in World, NEW S \in SUBSET Live, NEW f, NEW L, NEW late, IsCopying(f, S, L, late)
  PROVE  /\ DOMAIN f \subseteq Objects
         /\ S \subseteq DOMAIN f
         /\ \A o \in Objects : o \in DOMAIN f <=>
              o \in S \/ (m.heap[o] # None /\ m.heap[o].parent \in S)
         /\ \A o \in DOMAIN f : /\ m.heap[o] # None /\ f[o] \in Objects /\ m.heap[f[o]] = None
                                /\ f[o] \in Components <=> o \in Components
                                /\ \A x \in DOMAIN f : f[x] = f[o] => x = o
<1>1. DOMAIN f = S \cup UNION {Contents(o) : o \in S}
  BY DEF IsCopying, WithContents
<1>2. \A o : o \in DOMAIN f <=> o \in S \/ \E q \in S : o \in Live /\ m.heap[o].parent = q
  BY <1>1 DEF Contents
<1> QED
  BY <1>2 DEF IsCopying, Live

\* The copies that are attached to x.
Attaching(f, L, late, x) == {f[a] : a \in {b \in DOMAIN f : Image(f, L, b, late) = x}}

\* The copies are attached to what Image says, loose or in the copy of their
\* component; the objects that were there keep their places.
CopiesFit(v, f, L, late) ==
  LET new == {f[o] : o \in DOMAIN f}
  IN  /\ \A x \in Objects : m.heap[x] # None =>
           /\ v.heap[x] # None
           /\ v.heap[x].page = m.heap[x].page
           /\ v.heap[x].parent = m.heap[x].parent
           /\ v.heap[x].owner = m.heap[x].owner
           /\ v.heap[x].attribs = m.heap[x].attribs \cup Attaching(f, L, late, x)
      /\ \A o \in DOMAIN f :
           /\ v.heap[f[o]] # None
           /\ v.heap[f[o]].page = None
           /\ v.heap[f[o]].parent = IF m.heap[o].parent \in DOMAIN f
                                    THEN f[m.heap[o].parent] ELSE None
           /\ v.heap[f[o]].owner = IF Image(f, L, o, late) \in new \cup Live
                                   THEN Image(f, L, o, late) ELSE None
           /\ v.heap[f[o]].attribs = Attaching(f, L, late, f[o])
      /\ \A x \in Objects : m.heap[x] = None /\ x \notin new => v.heap[x] = None
      /\ ~v.stray => /\ ~m.stray
                     /\ \A a \in DOMAIN f : \/ Image(f, L, a, late) = None
                                            \/ /\ m.heap[a].owner \in DOMAIN f
                                               /\ Image(f, L, a, late) = f[m.heap[a].owner]

\* That is what o_glist_copy_all makes; no handle changes.
LEMMA CopiesAre ==
  ASSUME m \in World, NEW S \in SUBSET Live, NEW f, NEW L, NEW late, IsCopying(f, S, L, late)
  PROVE  /\ Copies(f, L, late) \in World
         /\ SameHandles(Copies(f, L, late), m)
         /\ CopiesFit(Copies(f, L, late), f, L, late)
         /\ Copies(f, L, late).smob = m.smob
         /\ Copies(f, L, late).cache = m.cache
         /\ Copies(f, L, late).twice = m.twice
<1> DEFINE new  == {f[o] : o \in DOMAIN f}
           from(x) == CHOOSE o \in DOMAIN f : f[o] = x
           to(x)   == Image(f, L, from(x), late)
           copy(x) == [s_basic_init_object EXCEPT
                         !.parent  = LET q == m.heap[from(x)].parent
                                     IN  IF q \in DOMAIN f THEN f[q] ELSE None,
                         !.owner   = IF to(x) \in new \cup Live THEN to(x) ELSE None,
                         !.attribs = {y \in new : to(y) = x}]
           kept(x) == [m.heap[x] EXCEPT !.attribs = @ \cup {y \in new : to(y) = x},
                                        !.copied  = IF x \in L THEN None ELSE @]
           H == [x \in Objects |-> IF x \in new THEN copy(x)
                                   ELSE IF x \in Live THEN kept(x) ELSE None]
           v == Copies(f, L, late)
           stray == \E a \in DOMAIN f : Image(f, L, a, late) \notin
                      {None} \cup {f[q] : q \in DOMAIN f \cap {m.heap[a].owner}}
<1>1. v = [m EXCEPT !.heap = H, !.stray = @ \/ stray]
  BY DEF Copies
<1>2. /\ DOMAIN f \subseteq Objects
      /\ \A o \in DOMAIN f : /\ m.heap[o] # None /\ f[o] \in Objects /\ m.heap[f[o]] = None
                             /\ \A x \in DOMAIN f : f[x] = f[o] => x = o
  BY CopyingIs
<1>3. \A o \in DOMAIN f : from(f[o]) = o
  BY <1>2
<1>4. new \subseteq Objects /\ \A x \in new : m.heap[x] = None
  BY <1>2
<1>5. \A x : {y \in new : to(y) = x} = Attaching(f, L, late, x)
  <2> DEFINE I(b) == Image(f, L, b, late)
  <2>1. \A b \in DOMAIN f : to(f[b]) = I(b)
    BY <1>3
  <2> HIDE DEF I, from
  <2>2. \A x : {y \in new : to(y) = x} = {f[a] : a \in {b \in DOMAIN f : I(b) = x}}
    <3> HIDE DEF to
    <3> QED
      BY <2>1
  <2> QED
    BY <2>2 DEF I, Attaching
<1>6. ASSUME NEW o \in DOMAIN f
      PROVE  /\ copy(f[o]) \in Object
             /\ copy(f[o]).page = None
             /\ copy(f[o]).weak = {}
             /\ copy(f[o]).parent = IF m.heap[o].parent \in DOMAIN f
                                    THEN f[m.heap[o].parent] ELSE None
             /\ copy(f[o]).owner = IF Image(f, L, o, late) \in new \cup Live
                                   THEN Image(f, L, o, late) ELSE None
             /\ copy(f[o]).attribs = {y \in new : to(y) = f[o]}
  <2> DEFINE P == IF m.heap[o].parent \in DOMAIN f THEN f[m.heap[o].parent] ELSE None
             W == IF Image(f, L, o, late) \in new \cup Live THEN Image(f, L, o, late) ELSE None
             A == {y \in new : to(y) = f[o]}
  <2>1. copy(f[o]) = [s_basic_init_object EXCEPT !.parent = P, !.owner = W, !.attribs = A]
    BY <1>3
  <2>2. P \in Objects \cup {None}
    BY <1>2
  <2>3. W \in Objects \cup {None}
    BY <1>4 DEF Live
  <2>4. A \in SUBSET Objects
    BY <1>4
  <2> HIDE DEF P, W, A, copy
  <2> QED
    BY <2>1, <2>2, <2>3, <2>4 DEF s_basic_init_object, Object, P, W, A
<1>7. ASSUME NEW x \in Objects, m.heap[x] # None
      PROVE  /\ kept(x) \in Object
             /\ kept(x).page = m.heap[x].page
             /\ kept(x).parent = m.heap[x].parent
             /\ kept(x).owner = m.heap[x].owner
             /\ kept(x).weak = m.heap[x].weak
             /\ kept(x).attribs = m.heap[x].attribs \cup {y \in new : to(y) = x}
  <2> DEFINE A == {y \in new : to(y) = x}
             c == IF x \in L THEN None ELSE m.heap[x].copied
  <2>1. m.heap[x] \in Object /\ A \in SUBSET Objects
    BY <1>4, <1>7, ObjectFields
  <2>2. kept(x) = [m.heap[x] EXCEPT !.attribs = @ \cup A, !.copied = c]
    OBVIOUS
  <2>3. c \in Objects \cup {None} /\ (m.heap[x].attribs \cup A) \in SUBSET Objects
    BY <2>1 DEF Object
  <2> HIDE DEF A, c, kept
  <2> QED
    BY <2>1, <2>2, <2>3 DEF Object, A
<1>8. H \in [Objects -> Object \cup {None}]
  <2>1. \A x \in Objects : H[x] \in Object \cup {None}
    <3> TAKE x \in Objects
    <3>1. CASE x \in new
      <4>1. PICK o \in DOMAIN f : x = f[o]
        BY <3>1
      <4>2. copy(x) \in Object
        <5> HIDE DEF copy
        <5> QED
          BY <1>6, <4>1
      <4> HIDE DEF copy
      <4> QED
        BY <3>1, <4>2
    <3>2. CASE x \notin new
      <4> HIDE DEF copy, kept, new
      <4> QED
        BY <1>7, <3>2 DEF Live
    <3> QED
      BY <3>1, <3>2
  <2> HIDE DEF copy, kept, new
  <2> QED
    BY <2>1
<1>9. /\ \A o \in DOMAIN f : H[f[o]] = copy(f[o])
      /\ \A x \in Objects : m.heap[x] # None => H[x] = kept(x)
      /\ \A x \in Objects : m.heap[x] = None /\ x \notin new => H[x] = None
  <2>1. \A o \in DOMAIN f : f[o] \in new /\ f[o] \in Objects
    BY <1>2
  <2> HIDE DEF copy, kept, new
  <2> QED
    BY <1>4, <2>1 DEF Live
<1>10. /\ v \in World /\ v.heap = H /\ v.smob = m.smob /\ v.cache = m.cache
       /\ v.twice = m.twice /\ (v.stray <=> (m.stray \/ stray))
  <2> HIDE DEF v, H, stray
  <2> QED
    BY <1>1, <1>8 DEF World
<1>11. ~v.stray => /\ ~m.stray
                   /\ \A a \in DOMAIN f : \/ Image(f, L, a, late) = None
                                          \/ /\ m.heap[a].owner \in DOMAIN f
                                             /\ Image(f, L, a, late) = f[m.heap[a].owner]
  <2> DEFINE I(a) == Image(f, L, a, late)
  <2>1. (v.stray <=> (m.stray \/ stray)) /\ m.stray \in BOOLEAN
    BY <1>10 DEF World
  <2>2. ASSUME ~stray, NEW a \in DOMAIN f
        PROVE  I(a) = None \/ (m.heap[a].owner \in DOMAIN f /\ I(a) = f[m.heap[a].owner])
    <3>1. I(a) \in {None} \cup {f[q] : q \in DOMAIN f \cap {m.heap[a].owner}}
      BY <2>2
    <3> HIDE DEF I
    <3> QED
      BY <3>1
  <2> HIDE DEF v, stray
  <2> QED
    BY <2>1, <2>2
<1> HIDE DEF v, H, copy, kept, stray, to
<1>12. /\ \A o \in DOMAIN f : v.heap[f[o]] = copy(f[o])
       /\ \A x \in Objects : m.heap[x] # None => v.heap[x] = kept(x)
       /\ \A x \in Objects : m.heap[x] = None /\ x \notin new => v.heap[x] = None
  BY <1>9, <1>10
<1>13. ASSUME NEW x \in Objects, m.heap[x] # None
       PROVE  /\ v.heap[x] # None
              /\ v.heap[x].page = m.heap[x].page
              /\ v.heap[x].parent = m.heap[x].parent
              /\ v.heap[x].owner = m.heap[x].owner
              /\ v.heap[x].weak = m.heap[x].weak
              /\ v.heap[x].attribs = m.heap[x].attribs \cup Attaching(f, L, late, x)
  <2>1. kept(x).attribs = m.heap[x].attribs \cup Attaching(f, L, late, x)
    BY <1>5, <1>7, <1>13
  <2>2. v.heap[x] = kept(x)
    BY <1>12, <1>13
  <2>3. kept(x) # None
    BY <1>7, <1>13, NoneIsNothing
  <2> QED
    BY <1>7, <1>13, <2>1, <2>2, <2>3
<1>14. ASSUME NEW o \in DOMAIN f
       PROVE  /\ v.heap[f[o]] # None
              /\ v.heap[f[o]].page = None
              /\ v.heap[f[o]].weak = {}
              /\ v.heap[f[o]].parent = IF m.heap[o].parent \in DOMAIN f
                                       THEN f[m.heap[o].parent] ELSE None
              /\ v.heap[f[o]].owner = IF Image(f, L, o, late) \in new \cup Live
                                      THEN Image(f, L, o, late) ELSE None
              /\ v.heap[f[o]].attribs = Attaching(f, L, late, f[o])
  <2>1. copy(f[o]).attribs = Attaching(f, L, late, f[o])
    BY <1>5, <1>6
  <2>2. v.heap[f[o]] = copy(f[o])
    BY <1>12
  <2>3. copy(f[o]) # None
    BY <1>6, NoneIsNothing
  <2> QED
    BY <1>6, <2>1, <2>2, <2>3
<1>15. SameHandles(v, m)
  <2>1. \A x \in Objects : m.heap[x] = None /\ v.heap[x] # None => v.heap[x].weak = {}
    BY <1>12, <1>14
  <2> QED
    BY <1>10, <1>13, <2>1 DEF SameHandles
<1>16. CopiesFit(v, f, L, late)
  BY <1>11, <1>12, <1>13, <1>14 DEF CopiesFit
<1> QED
  BY <1>10, <1>15, <1>16 DEF v

\* Placing the copies of S on the page P; None stands for copies that stay loose.
Placing(v, f, S, L, late, P) ==
  LET u == Copies(f, L, late)
  IN  /\ v.stray = u.stray
      /\ \A x \in Objects : v.heap[x] = None <=> u.heap[x] = None
      /\ \A x \in Objects : u.heap[x] # None =>
           /\ v.heap[x].parent = u.heap[x].parent
           /\ v.heap[x].owner = u.heap[x].owner
           /\ v.heap[x].attribs = u.heap[x].attribs
           /\ v.heap[x].page = IF \E o \in S : f[o] = x THEN P ELSE u.heap[x].page

\* Editor copies go to the page of what is copied, copies that scripts make go nowhere.
PlacedTogether(S, L, P) ==
  \/ P \in Pages /\ \A o \in S : m.heap[o].page = P
  \/ P = None /\ \E o \in S : S = {o} /\ L = Contents(o)

\* The objects that are copied with their contents are in no object that is.
LEMMA CopiedRoots ==
  ASSUME PlacesInv(m), NEW S \in SUBSET Live, NEW f, NEW L, NEW late,
         IsCopying(f, S, L, late), NEW P,
         PlacedTogether(S, L, P)
  PROVE  \A o \in DOMAIN f : o \in S <=> m.heap[o].parent \notin DOMAIN f
<1>0. m \in World /\ Placed(m)
  BY DEF PlacesInv
<1>1. /\ DOMAIN f \subseteq Objects
      /\ S \subseteq DOMAIN f
      /\ \A o \in DOMAIN f : o \in S \/ m.heap[o].parent \in S
      /\ \A o \in DOMAIN f : m.heap[o] # None
  BY <1>0, CopyingIs
<1>2. \A o \in S : m.heap[o].parent \notin DOMAIN f
  <2>1. CASE P \in Pages /\ \A o \in S : m.heap[o].page = P
    BY <1>0, <1>1, <2>1, NoneIsNothing DEF Placed
  <2>2. CASE \E o \in S : S = {o} /\ L = Contents(o)
    <3>1. PICK o \in S : S = {o}
      BY <2>2
    <3>2. SUFFICES ASSUME m.heap[o].parent \in DOMAIN f
                   PROVE  FALSE
      BY <3>1
    <3>3. o \in Objects /\ m.heap[o] # None /\ m.heap[o].parent # None
      BY <1>1, <3>2, NoneIsNothing
    <3>4. o \notin Components /\ m.heap[o].parent \in Components
      BY <1>0, <3>3 DEF Placed
    <3>5. m.heap[o].parent # o /\ m.heap[m.heap[o].parent].parent = o
      BY <1>1, <3>1, <3>2, <3>4
    <3>6. m.heap[o].parent \in Objects /\ m.heap[m.heap[o].parent] # None
      BY <1>1, <3>2
    <3> QED
      BY <1>0, <3>3, <3>4, <3>5, <3>6, NoneIsNothing DEF Placed
  <2> QED
    BY <2>1, <2>2 DEF PlacedTogether
<1> QED
  BY <1>1, <1>2

\* Copies are together with the copies of what they were attached to, unless they
\* went to what another copy command had left.
LEMMA CopiedPlacesInv ==
  ASSUME PlacesInv(m), NEW S \in SUBSET Live, NEW f, NEW L, NEW late,
         IsCopying(f, S, L, late), NEW v \in World, NEW P,
         Placing(v, f, S, L, late, P),
         PlacedTogether(S, L, P)
  PROVE  PlacesInv(v)
<1> DEFINE I(a) == Image(f, L, a, late)
           new == {f[o] : o \in DOMAIN f}
<1>0. m \in World /\ Placed(m) /\ Mutual(m)
  BY DEF PlacesInv
<1>1. /\ DOMAIN f \subseteq Objects
      /\ S \subseteq DOMAIN f
      /\ \A o \in DOMAIN f : o \in S \/ m.heap[o].parent \in S
      /\ \A o \in DOMAIN f : /\ m.heap[o] # None /\ f[o] \in Objects /\ m.heap[f[o]] = None
                             /\ f[o] \in Components <=> o \in Components
                             /\ \A x \in DOMAIN f : f[x] = f[o] => x = o
  BY <1>0, CopyingIs
<1>2. /\ \A x \in Objects : m.heap[x] # None =>
           /\ v.heap[x] # None
           /\ v.heap[x].page = m.heap[x].page
           /\ v.heap[x].parent = m.heap[x].parent
           /\ v.heap[x].owner = m.heap[x].owner
           /\ v.heap[x].attribs = m.heap[x].attribs \cup Attaching(f, L, late, x)
      /\ \A o \in DOMAIN f :
           /\ v.heap[f[o]] # None
           /\ v.heap[f[o]].page = IF o \in S THEN P ELSE None
           /\ v.heap[f[o]].parent = IF m.heap[o].parent \in DOMAIN f
                                    THEN f[m.heap[o].parent] ELSE None
           /\ v.heap[f[o]].owner = IF I(o) \in new \cup Live THEN I(o) ELSE None
           /\ v.heap[f[o]].attribs = Attaching(f, L, late, f[o])
      /\ \A x \in Objects : v.heap[x] # None => m.heap[x] # None \/ \E o \in DOMAIN f : x = f[o]
      /\ ~v.stray => /\ ~m.stray
                     /\ \A a \in DOMAIN f : \/ I(a) = None
                                            \/ /\ m.heap[a].owner \in DOMAIN f
                                               /\ I(a) = f[m.heap[a].owner]
  <2> DEFINE u == Copies(f, L, late)
  <2>0. CopiesFit(u, f, L, late)
    BY <1>0, CopiesAre
  <2> HIDE DEF u
  <2>1. /\ \A x \in Objects : m.heap[x] # None =>
             /\ u.heap[x] # None
             /\ u.heap[x].page = m.heap[x].page
             /\ u.heap[x].parent = m.heap[x].parent
             /\ u.heap[x].owner = m.heap[x].owner
             /\ u.heap[x].attribs = m.heap[x].attribs \cup Attaching(f, L, late, x)
        /\ \A o \in DOMAIN f :
             /\ u.heap[f[o]] # None
             /\ u.heap[f[o]].page = None
             /\ u.heap[f[o]].parent = IF m.heap[o].parent \in DOMAIN f
                                      THEN f[m.heap[o].parent] ELSE None
             /\ u.heap[f[o]].owner = IF I(o) \in new \cup Live THEN I(o) ELSE None
             /\ u.heap[f[o]].attribs = Attaching(f, L, late, f[o])
        /\ \A x \in Objects : m.heap[x] = None /\ x \notin new => u.heap[x] = None
        /\ ~u.stray => /\ ~m.stray
                       /\ \A a \in DOMAIN f : \/ I(a) = None
                                              \/ /\ m.heap[a].owner \in DOMAIN f
                                                 /\ I(a) = f[m.heap[a].owner]
    BY <2>0 DEF CopiesFit
  <2> HIDE DEF I
  <2>3. /\ v.stray = u.stray
        /\ \A x \in Objects : v.heap[x] = None <=> u.heap[x] = None
        /\ \A x \in Objects : u.heap[x] # None =>
             /\ v.heap[x].parent = u.heap[x].parent
             /\ v.heap[x].owner = u.heap[x].owner
             /\ v.heap[x].attribs = u.heap[x].attribs
             /\ v.heap[x].page = IF \E o \in S : f[o] = x THEN P ELSE u.heap[x].page
    BY DEF Placing, u
  <2>4. \A x \in Objects : m.heap[x] # None => ~\E o \in S : f[o] = x
    BY <1>1
  <2>5. ASSUME NEW x \in Objects, m.heap[x] # None
        PROVE  /\ v.heap[x] # None
               /\ v.heap[x].page = m.heap[x].page
               /\ v.heap[x].parent = m.heap[x].parent
               /\ v.heap[x].owner = m.heap[x].owner
               /\ v.heap[x].attribs = u.heap[x].attribs
    BY <2>1, <2>3, <2>4, <2>5
  <2>6. ASSUME NEW o \in DOMAIN f
        PROVE  /\ v.heap[f[o]] # None
               /\ v.heap[f[o]].page = IF o \in S THEN P ELSE None
               /\ v.heap[f[o]].parent = u.heap[f[o]].parent
               /\ v.heap[f[o]].owner = u.heap[f[o]].owner
               /\ v.heap[f[o]].attribs = u.heap[f[o]].attribs
    <3>1. (\E x \in S : f[x] = f[o]) <=> o \in S
      BY <1>1
    <3>2. f[o] \in Objects /\ u.heap[f[o]] # None /\ u.heap[f[o]].page = None
      BY <1>1, <2>1
    <3> QED
      BY <2>3, <3>1, <3>2
  <2>7. \A x \in Objects : v.heap[x] # None => m.heap[x] # None \/ \E o \in DOMAIN f : x = f[o]
    BY <2>1, <2>3
  <2> QED
    BY <2>1, <2>3, <2>5, <2>6, <2>7
<1> HIDE DEF I
<1>a. \A x, y : y \in Attaching(f, L, late, x) <=> \E a \in DOMAIN f : I(a) = x /\ y = f[a]
  BY DEF Attaching, I
<1>3. \A o \in DOMAIN f : o \in S <=> m.heap[o].parent \notin DOMAIN f
  BY CopiedRoots
<1>4. Placed(v)
  <2> SUFFICES ASSUME NEW x \in Objects, v.heap[x] # None
               PROVE  /\ v.heap[x].page # None => v.heap[x].parent = None
                      /\ v.heap[x].parent # None =>
                           x \notin Components /\ v.heap[x].parent \in Components
    BY DEF Placed
  <2>1. CASE m.heap[x] # None
    BY <1>0, <1>2, <2>1 DEF Placed
  <2>2. ASSUME NEW o \in DOMAIN f, x = f[o]
        PROVE  /\ v.heap[x].page # None => v.heap[x].parent = None
               /\ v.heap[x].parent # None =>
                    x \notin Components /\ v.heap[x].parent \in Components
    <3>1. v.heap[x].page # None => v.heap[x].parent = None
      BY <1>2, <1>3, <2>2
    <3>2. ASSUME m.heap[o].parent \in DOMAIN f
          PROVE  f[o] \notin Components /\ f[m.heap[o].parent] \in Components
      <4>1. o \in Objects /\ m.heap[o] # None /\ m.heap[o].parent # None
        BY <1>1, <3>2, NoneIsNothing
      <4>2. o \notin Components /\ m.heap[o].parent \in Components
        BY <1>0, <4>1 DEF Placed
      <4> QED
        BY <1>1, <3>2, <4>2
    <3> QED
      BY <1>2, <2>2, <3>1, <3>2
  <2> QED
    BY <1>2, <2>1, <2>2
<1>b. \A x \in Objects : m.heap[x] # None =>
        m.heap[x].owner \in Objects \cup {None} /\ m.heap[x].attribs \subseteq Objects
  BY <1>0, ObjectFields
<1>c. ASSUME NEW x \in Objects, m.heap[x] # None, m.heap[x].owner # None
      PROVE  /\ v.heap[x].owner = m.heap[x].owner /\ m.heap[x].owner \in Objects
             /\ m.heap[m.heap[x].owner] # None
             /\ x \in m.heap[m.heap[x].owner].attribs
  BY <1>0, <1>2, <1>b, <1>c DEF Mutual
<1>5. Mutual(v)
  <2>1. ASSUME NEW x \in Objects, v.heap[x] # None, v.heap[x].owner # None
        PROVE  v.heap[v.heap[x].owner] # None /\ x \in v.heap[v.heap[x].owner].attribs
    <3>1. CASE m.heap[x] # None
      <4>1. /\ v.heap[x].owner = m.heap[x].owner /\ m.heap[x].owner \in Objects
            /\ m.heap[m.heap[x].owner] # None
            /\ x \in m.heap[m.heap[x].owner].attribs
        BY <1>2, <1>c, <2>1, <3>1
      <4> QED
        BY <1>2, <4>1
    <3>2. ASSUME NEW a \in DOMAIN f, x = f[a]
          PROVE  v.heap[v.heap[x].owner] # None /\ x \in v.heap[v.heap[x].owner].attribs
      <4> DEFINE y == v.heap[x].owner
      <4>1. I(a) = y /\ y \in new \cup Live
        BY <1>2, <2>1, <3>2
      <4> HIDE DEF y
      <4>2. f[a] \in Attaching(f, L, late, y)
        BY <1>a, <4>1
      <4>3. CASE y \in Live
        BY <1>2, <3>2, <4>2, <4>3 DEF Live, y
      <4>4. CASE y \in new
        <5>1. PICK o \in DOMAIN f : y = f[o]
          BY <4>4
        <5> QED
          BY <1>2, <3>2, <4>2, <5>1 DEF y
      <4> QED
        BY <4>1, <4>3, <4>4
    <3> QED
      BY <1>2, <2>1, <3>1, <3>2
  <2>2. ASSUME NEW q \in Objects, v.heap[q] # None, NEW b \in v.heap[q].attribs
        PROVE  v.heap[b] # None /\ v.heap[b].owner = q
    <3>1. ASSUME b \in Attaching(f, L, late, q), q \in new \cup Live
          PROVE  v.heap[b] # None /\ v.heap[b].owner = q
      <4>1. PICK a \in DOMAIN f : I(a) = q /\ b = f[a]
        BY <1>a, <3>1
      <4> QED
        BY <1>2, <3>1, <4>1
    <3>2. CASE m.heap[q] # None
      <4>1. b \in m.heap[q].attribs \/ b \in Attaching(f, L, late, q)
        BY <1>2, <2>2, <3>2
      <4>2. ASSUME b \in m.heap[q].attribs
            PROVE  v.heap[b] # None /\ v.heap[b].owner = q
        <5>1. b \in Objects /\ m.heap[b] # None /\ m.heap[b].owner = q
          BY <1>0, <1>b, <3>2, <4>2 DEF Mutual
        <5> QED
          BY <1>2, <5>1
      <4> QED
        BY <3>1, <3>2, <4>1, <4>2 DEF Live
    <3>3. ASSUME NEW o \in DOMAIN f, q = f[o]
          PROVE  v.heap[b] # None /\ v.heap[b].owner = q
      BY <1>2, <2>2, <3>1, <3>3
    <3> QED
      BY <1>2, <2>2, <3>2, <3>3
  <2> QED
    BY <2>1, <2>2 DEF Mutual
<1>6. ASSUME ~v.stray
      PROVE  Together(v) /\ LooseAlone(v)
  <2>1. /\ Together(m) /\ LooseAlone(m)
        /\ \A a \in DOMAIN f : I(a) = None \/ (m.heap[a].owner \in DOMAIN f
                                               /\ I(a) = f[m.heap[a].owner])
    BY <1>2, <1>6 DEF PlacesInv
  <2>3. \A x \in Objects : m.heap[x] # None => \A a \in DOMAIN f : I(a) # x
    <3> SUFFICES ASSUME NEW x \in Objects, m.heap[x] # None, NEW a \in DOMAIN f, I(a) = x
                 PROVE  FALSE
      OBVIOUS
    <3>1. I(a) # None
      BY NoneIsNothing
    <3>2. m.heap[a].owner \in DOMAIN f /\ x = f[m.heap[a].owner]
      BY <2>1, <3>1
    <3> QED
      BY <1>1, <3>2
  <2>4. \A x \in Objects : m.heap[x] # None => v.heap[x].attribs = m.heap[x].attribs
    <3> SUFFICES ASSUME NEW x \in Objects, m.heap[x] # None
                 PROVE  v.heap[x].attribs = m.heap[x].attribs
      OBVIOUS
    <3>1. Attaching(f, L, late, x) = {}
      BY <1>a, <2>3
    <3>2. v.heap[x].attribs = m.heap[x].attribs \cup Attaching(f, L, late, x)
      BY <1>2
    <3> QED
      BY <3>1, <3>2
  <2>5. \A o \in DOMAIN f : v.heap[f[o]].owner = I(o)
    BY <1>2, <2>1
  <2>6. ASSUME NEW a \in DOMAIN f, I(a) # None
        PROVE  LET q == m.heap[a].owner
               IN  /\ q \in DOMAIN f /\ I(a) = f[q]
                   /\ m.heap[q].page = m.heap[a].page
                   /\ m.heap[q].parent = m.heap[a].parent
    <3>1. m.heap[a].owner \in DOMAIN f /\ I(a) = f[m.heap[a].owner]
      BY <2>1, <2>6
    <3>2. a \in Objects /\ m.heap[a] # None /\ m.heap[a].owner # None
      BY <1>1, <3>1, NoneIsNothing
    <3> QED
      BY <1>0, <2>1, <3>1, <3>2 DEF Mutual, Together
  <2>7. ASSUME NEW x \in Objects, v.heap[x] # None, v.heap[x].owner # None
        PROVE  /\ v.heap[v.heap[x].owner].page = v.heap[x].page
               /\ v.heap[v.heap[x].owner].parent = v.heap[x].parent
    <3>1. CASE m.heap[x] # None
      <4>1. /\ v.heap[x].owner = m.heap[x].owner /\ m.heap[x].owner \in Objects
            /\ m.heap[m.heap[x].owner] # None /\ m.heap[x].owner # None
        BY <1>2, <1>c, <2>7, <3>1
      <4>2. /\ m.heap[m.heap[x].owner].page = m.heap[x].page
            /\ m.heap[m.heap[x].owner].parent = m.heap[x].parent
        BY <2>1, <3>1, <4>1 DEF Together
      <4> QED
        BY <1>2, <3>1, <4>1, <4>2
    <3>2. ASSUME NEW a \in DOMAIN f, x = f[a]
          PROVE  /\ v.heap[v.heap[x].owner].page = v.heap[x].page
                 /\ v.heap[v.heap[x].owner].parent = v.heap[x].parent
      <4> DEFINE q == m.heap[a].owner
      <4>1. I(a) # None /\ v.heap[x].owner = I(a)
        BY <2>5, <2>7, <3>2
      <4>2. /\ q \in DOMAIN f /\ I(a) = f[q]
            /\ m.heap[q].page = m.heap[a].page
            /\ m.heap[q].parent = m.heap[a].parent
        BY <2>6, <4>1
      <4> HIDE DEF q
      <4>4. v.heap[f[q]].parent = v.heap[f[a]].parent
        BY <1>2, <4>2
      <4>5. q \in S <=> a \in S
        BY <1>3, <4>2
      <4>6. v.heap[f[q]].page = v.heap[f[a]].page
        BY <1>2, <4>2, <4>5
      <4> QED
        BY <3>2, <4>1, <4>2, <4>4, <4>6
    <3> QED
      BY <1>2, <2>7, <3>1, <3>2
  <2>9. ASSUME NEW x \in Objects, v.heap[x] # None, LooseIn(v, x)
        PROVE  v.heap[x].owner = None /\ v.heap[x].attribs = {}
    <3>1. CASE m.heap[x] # None
      BY <1>2, <2>1, <2>4, <2>9, <3>1 DEF LooseAlone, LooseIn
    <3>2. ASSUME NEW o \in DOMAIN f, x = f[o]
          PROVE  v.heap[x].owner = None /\ v.heap[x].attribs = {}
      <4>1. v.heap[f[o]].page = None /\ v.heap[f[o]].parent = None
        BY <2>9, <3>2 DEF LooseIn
      <4>2. m.heap[o].parent \notin DOMAIN f
        BY <1>1, <1>2, <4>1, NoneIsNothing
      <4>3. o \in S /\ P = None
        BY <1>2, <1>3, <4>1, <4>2
      <4>4. L = Contents(o)
        BY <4>3, NoneIsNothing DEF PlacedTogether
      <4>5. \A a \in DOMAIN f : I(a) # None => m.heap[a].parent = o
        BY <4>4 DEF I, Image, Contents
      <4>6. I(o) = None
        BY <1>1, <4>2, <4>3, <4>5
      <4>7. \A a \in DOMAIN f : I(a) # f[o]
        <5> SUFFICES ASSUME NEW a \in DOMAIN f, I(a) = f[o]
                     PROVE  FALSE
          OBVIOUS
        <5>1. I(a) # None
          BY <1>1, NoneIsNothing
        <5>2. m.heap[a].owner \in DOMAIN f /\ f[m.heap[a].owner] = f[o]
              /\ m.heap[m.heap[a].owner].parent = m.heap[a].parent
          BY <2>6, <5>1
        <5>3. m.heap[a].owner = o
          BY <1>1, <5>2
        <5> QED
          BY <1>1, <4>2, <4>5, <5>1, <5>2, <5>3
      <4> QED
        BY <1>2, <1>a, <2>5, <3>2, <4>6, <4>7
    <3> QED
      BY <1>2, <2>9, <3>1, <3>2
  <2> QED
    BY <2>7, <2>9 DEF Together, LooseAlone
<1> QED
  BY <1>4, <1>5, <1>6 DEF PlacesInv, World

-----------------------------------------------------------------------------
(* The objects that the garbage collector owns. *)

OwnedIn(w, o) == \E s \in Smobs : w.smob[s] # None /\ w.smob[s].data = o /\ w.smob[s].gc

CollectorInv(w) ==
  \A o \in Objects : w.heap[o] # None =>
    /\ LooseIn(w, o) => OwnedIn(w, o)
    /\ OwnedIn(w, o) => LooseIn(w, o) \/ o \in w.twice

SchemeInv(w) == HandlesInv(w) /\ PlacesInv(w) /\ CollectorInv(w)

\* CollectorInv says what is promised of the collector.
LEMMA CollectorInvSuffices == CollectorInv(m) => CollectorOwnsLooseObjects
BY DEF CollectorInv, OwnedIn, LooseIn, CollectorOwnsLooseObjects, Live, HandlesOf, Loose

\* Nothing else than what CollectorInv speaks of matters.
SameOwned(v, w) ==
  /\ w.twice \subseteq v.twice
  /\ \A s \in Smobs : w.smob[s] # None =>
       v.smob[s] # None /\ v.smob[s].data = w.smob[s].data /\ v.smob[s].gc = w.smob[s].gc
  /\ \A s \in Smobs : w.smob[s] = None /\ v.smob[s] # None => v.smob[s].gc = FALSE

\* Handles that are added as C code's own their objects no more than before.
LEMMA SameOwnedIn ==
  ASSUME NEW v, NEW w, SameOwned(v, w), NEW o
  PROVE  OwnedIn(v, o) <=> OwnedIn(w, o)
BY DEF SameOwned, OwnedIn

\* The collector owns what it did while nothing moves.
LEMMA SameCollectorInv ==
  ASSUME NEW w, CollectorInv(w), NEW v, SamePlaces(v, w), SameOwned(v, w)
  PROVE  CollectorInv(v)
<1> SUFFICES ASSUME NEW o \in Objects, v.heap[o] # None
             PROVE  /\ LooseIn(v, o) => OwnedIn(v, o)
                    /\ OwnedIn(v, o) => LooseIn(v, o) \/ o \in v.twice
  BY DEF CollectorInv
<1>1. w.heap[o] # None /\ (LooseIn(v, o) <=> LooseIn(w, o))
  BY DEF SamePlaces, LooseIn
<1>2. OwnedIn(v, o) <=> OwnedIn(w, o)
  BY SameOwnedIn
<1>3. w.twice \subseteq v.twice
  BY DEF SameOwned
<1> QED
  BY <1>1, <1>2, <1>3 DEF CollectorInv

\* A script gets a handle of an object.
LEMMA FromObjectInv ==
  ASSUME NEW w, SchemeInv(w), NEW o \in Objects, w.heap[o] # None, NEW s \in Smobs,
         w.cache[o] # None \/ w.smob[s] = None, HandlesOf(o) = HandlesIn(w, o)
  PROVE  SchemeInv(FromObject(w, o, s))
<1> DEFINE v == FromObject(w, o, s)
<1>0. HandlesInv(w) /\ PlacesInv(w) /\ CollectorInv(w) /\ w \in World
  BY DEF SchemeInv, HandlesInv
<1>1. w.cache[o] # None => w.smob[w.cache[o]] # None
  BY <1>0 DEF HandlesInv, CacheOwned
<1>2. v \in World /\ SamePlaces(v, w)
  BY <1>0, <1>1, FromObjectWorld DEF LiveIn
<1>3. /\ HandlesInv(v)
      /\ w.cache[o] = None =>
           v.smob = [w.smob EXCEPT ![s] = [data |-> o, gc |-> FALSE, held |-> TRUE]]
      /\ \A t \in Smobs : w.smob[t] # None =>
           /\ v.smob[t] # None
           /\ v.smob[t].data = w.smob[t].data
           /\ v.smob[t].gc = w.smob[t].gc
      /\ \A x \in w.twice : x \in v.twice
  <2>1. HandlesInv(v)
    BY <1>0, FromObjectHandles
  <2>2. w.cache[o] = None =>
           v.smob = [w.smob EXCEPT ![s] = [data |-> o, gc |-> FALSE, held |-> TRUE]]
    BY <1>0, FromObjectHandles
  <2>3. KeepsHandles(v, w)
    BY <1>0, FromObjectHandles
  <2>4. \A x \in w.twice : x \in v.twice
    BY <1>0, FromObjectHandles
  <2> QED
    BY <2>1, <2>2, <2>3, <2>4 DEF KeepsHandles
<1>4. ASSUME NEW t \in Smobs, w.smob[t] = None, v.smob[t] # None
      PROVE  v.smob[t].gc = FALSE
  <2>1. w.smob \in [Smobs -> Handle \cup {None}]
    BY <1>0 DEF World
  <2>2. CASE w.cache[o] = None
    <3> HIDE DEF v
    <3> QED
      BY <1>3, <1>4, <2>1, <2>2
  <2>3. CASE w.cache[o] # None
    <3>1. v = [w EXCEPT !.smob[w.cache[o]].held = TRUE]
      BY <2>3 DEF FromObject
    <3>2. w.cache[o] # t
      BY <1>1, <1>4, <2>3
    <3>3. v.smob[t] = w.smob[t]
      BY <1>0, <2>1, <3>1, <3>2 DEF World
    <3> QED
      BY <1>4, <3>3
  <2> QED
    BY <2>2, <2>3
<1> HIDE DEF v
<1>5. SameOwned(v, w)
  BY <1>3, <1>4 DEF SameOwned
<1>6. CollectorInv(v)
  BY <1>0, <1>2, <1>5, SameCollectorInv
<1>7. PlacesInv(v)
  BY <1>0, <1>2, SamePlacesInv
<1> QED
  BY <1>3, <1>6, <1>7 DEF SchemeInv, v

\* A new object gets a handle that the collector owns.
LEMMA OwnedHandles ==
  ASSUME NEW w, HandlesInv(w), NEW o \in Objects, w.heap[o] # None, NEW s \in Smobs,
         w.smob[s] = None, w.cache[o] = None, HandlesOf(o) = HandlesIn(w, o)
  PROVE  /\ HandlesInv(Owned(w, o, s))
         /\ SamePlaces(Owned(w, o, s), w)
         /\ w.twice \subseteq Owned(w, o, s).twice
         /\ \A x : OwnedIn(Owned(w, o, s), x) <=> x = o \/ OwnedIn(w, x)
<1> DEFINE u == FromObject(w, o, s)
           v == edascm_c_set_gc(u, s, TRUE)
<1>0. w \in World
  BY DEF HandlesInv
<1>1. /\ HandlesInv(u)
      /\ u.smob = [w.smob EXCEPT ![s] = [data |-> o, gc |-> FALSE, held |-> TRUE]]
      /\ \A x \in w.twice : x \in u.twice
  BY FromObjectHandles
<1>2. SamePlaces(u, w)
  BY <1>0, FromObjectWorld DEF LiveIn
<1>3. w.smob \in [Smobs -> Handle \cup {None}]
  BY <1>0 DEF World
<1> HIDE DEF u
<1>4. u.smob[s] = [data |-> o, gc |-> FALSE, held |-> TRUE] /\ u.smob[s] # None
      /\ \A t \in Smobs \ {s} : u.smob[t] = w.smob[t]
  <2>1. [data |-> o, gc |-> FALSE, held |-> TRUE] \in Handle
    BY DEF Handle
  <2> QED
    BY <1>1, <1>3, <2>1, NoneIsNothing
<1>5. u.smob[s].data = o /\ o # None
  BY <1>4, NoneIsNothing
<1>6. /\ HandlesInv(v)
      /\ v.heap = u.heap /\ v.twice = u.twice /\ v.stray = u.stray
      /\ \A t \in Smobs :
           /\ v.smob[t] = None <=> u.smob[t] = None
           /\ u.smob[t] # None =>
                /\ v.smob[t].data = u.smob[t].data
                /\ v.smob[t].gc = IF t = s THEN TRUE ELSE u.smob[t].gc
  <2>1. v = edascm_c_set_gc(u, s, TRUE)
    OBVIOUS
  <2>2. HandlesInv(u) /\ u.smob[s] # None /\ u.smob[s].data # None
    BY <1>1, <1>4, <1>5
  <2> HIDE DEF v
  <2>3. HandlesInv(v)
    BY <2>1, <2>2, SetGc
  <2>4. v.heap = u.heap /\ v.twice = u.twice /\ v.stray = u.stray
    BY <2>1, <2>2, SetGc
  <2>5. GcIs(v, u, s, TRUE)
    BY <2>1, <2>2, SetGc
  <2> QED
    BY <2>3, <2>4, <2>5 DEF GcIs
<1>7. Owned(w, o, s) = v
  BY DEF Owned, u
<1> HIDE DEF v
<1>8. SamePlaces(v, w)
  BY <1>2, <1>6 DEF SamePlaces
<1>9. ASSUME NEW x
      PROVE  OwnedIn(v, x) <=> x = o \/ OwnedIn(w, x)
  <2>1. \A t \in Smobs \ {s} :
          (v.smob[t] # None /\ v.smob[t].data = x /\ v.smob[t].gc) <=>
          (w.smob[t] # None /\ w.smob[t].data = x /\ w.smob[t].gc)
    BY <1>4, <1>6
  <2>2. v.smob[s] # None /\ v.smob[s].data = o /\ v.smob[s].gc
    BY <1>4, <1>5, <1>6
  <2> QED
    BY <2>1, <2>2 DEF OwnedIn
<1> QED
  BY <1>1, <1>6, <1>7, <1>8, <1>9

\* Objects that do not die are owned as before.
LEMMA DeletedInv ==
  ASSUME NEW w, HandlesInv(w), PlacesInv(w), NEW S \in SUBSET LiveIn(w),
         \A o \in Objects \ S : w.heap[o] # None =>
           /\ LooseIn(w, o) => OwnedIn(w, o)
           /\ OwnedIn(w, o) => LooseIn(w, o) \/ o \in w.twice
  PROVE  SchemeInv(s_delete_object(w, S))
<1> DEFINE v == s_delete_object(w, S)
<1>1. HandlesInv(v) /\ Told(v, w, S)
  BY DeletedHandles
<1>2. PlacesInv(v)
  BY DeletedPlaces
<1>3. /\ v.twice = w.twice \ S
      /\ \A o \in Objects :
           /\ v.heap[o] = None <=> o \in S \/ w.heap[o] = None
           /\ v.heap[o] # None =>
                /\ v.heap[o].page = w.heap[o].page
                /\ v.heap[o].parent = w.heap[o].parent
  BY Deleted
<1> HIDE DEF v
<1>4. ASSUME NEW o \in Objects, o \notin S
      PROVE  OwnedIn(v, o) <=> OwnedIn(w, o)
  <2>1. o # None
    BY NoneIsNothing
  <2> QED
    BY <1>1, <1>4, <2>1 DEF OwnedIn, Told
<1>5. CollectorInv(v)
  <2> SUFFICES ASSUME NEW o \in Objects, v.heap[o] # None
               PROVE  /\ LooseIn(v, o) => OwnedIn(v, o)
                      /\ OwnedIn(v, o) => LooseIn(v, o) \/ o \in v.twice
    BY DEF CollectorInv
  <2>1. o \notin S /\ w.heap[o] # None /\ (LooseIn(v, o) <=> LooseIn(w, o))
    BY <1>3 DEF LooseIn
  <2> QED
    BY <1>3, <1>4, <2>1
<1> QED
  BY <1>1, <1>2, <1>5 DEF SchemeInv, v

\* What is deleted with its contents is there.
LEMMA WithContentsIsLive ==
  ASSUME NEW S \in SUBSET Live
  PROVE  WithContents(S) \subseteq LiveIn(m) /\ S \subseteq WithContents(S)
BY DEF WithContents, Contents, Live, LiveIn

\* The user deletes objects.
LEMMA DeleteKeepsInv ==
  ASSUME SchemeInv(m), NEW S \in SUBSET Live, m' = s_delete_object(m, WithContents(S))
  PROVE  SchemeInv(m')
<1>1. WithContents(S) \in SUBSET LiveIn(m)
  BY WithContentsIsLive
<1>2. SchemeInv(s_delete_object(m, WithContents(S)))
  BY <1>1, DeletedInv DEF SchemeInv, CollectorInv
<1> QED
  BY <1>2

\* A script forgets a handle.
LEMMA DropKeepsInv ==
  ASSUME SchemeInv(m), NEW s \in Smobs, Drop(s)
  PROVE  SchemeInv(m')
<1>0. /\ HandlesInv(m) /\ PlacesInv(m) /\ CollectorInv(m) /\ m \in World
      /\ m.smob[s] # None
      /\ m' = [m EXCEPT !.smob[s].held = FALSE]
  BY DEF SchemeInv, HandlesInv, Drop
<1>1. m.smob[s] \in Handle /\ m.smob \in [Smobs -> Handle \cup {None}]
  BY <1>0 DEF World
<1>2. [m.smob[s] EXCEPT !.held = FALSE] \in Handle
  BY <1>1 DEF Handle
<1>3. m' \in World /\ m'.heap = m.heap /\ m'.cache = m.cache /\ m'.twice = m.twice
      /\ m'.stray = m.stray /\ m'.smob = [m.smob EXCEPT ![s] = [m.smob[s] EXCEPT !.held = FALSE]]
  BY <1>0, <1>1, <1>2 DEF World
<1>4. \A t \in Smobs :
        /\ m'.smob[t] = None <=> m.smob[t] = None
        /\ m.smob[t] # None => m'.smob[t].data = m.smob[t].data /\ m'.smob[t].gc = m.smob[t].gc
  <2>1. \A t \in Smobs : m'.smob[t] = IF t = s THEN [m.smob[s] EXCEPT !.held = FALSE]
                                      ELSE m.smob[t]
    BY <1>1, <1>3
  <2>2. /\ [m.smob[s] EXCEPT !.held = FALSE] # None
        /\ [m.smob[s] EXCEPT !.held = FALSE].data = m.smob[s].data
        /\ [m.smob[s] EXCEPT !.held = FALSE].gc = m.smob[s].gc
    BY <1>1, <1>2, NoneIsNothing DEF Handle
  <2> QED
    BY <1>0, <2>1, <2>2
<1>5. SamePlaces(m', m) /\ SameOwned(m', m)
  BY <1>3, <1>4 DEF SamePlaces, SameOwned
<1>6. CollectorInv(m')
  BY <1>0, <1>5, SameCollectorInv
<1>7. PlacesInv(m')
  BY <1>0, <1>3, <1>5, SamePlacesInv
<1>8. Registered(m') /\ NotDangling(m') /\ OneHandle(m')
  BY <1>0, <1>3, <1>4 DEF HandlesInv, Registered, NotDangling, OneHandle
<1>9. CacheOwned(m')
  BY <1>0, <1>3, <1>4 DEF HandlesInv, CacheOwned, World
<1> QED
  BY <1>3, <1>6, <1>7, <1>8, <1>9 DEF SchemeInv, HandlesInv

\* A script finds an object.
LEMMA AskKeepsInv ==
  ASSUME SchemeInv(m), NEW o \in Live, NEW s \in Smobs, Ask(o, s)
  PROVE  SchemeInv(m')
<1>1. /\ o \in Objects /\ m.heap[o] # None
      /\ m.cache[o] # None \/ m.smob[s] = None
      /\ HandlesOf(o) = HandlesIn(m, o)
      /\ m' = FromObject(m, o, s)
  BY DEF Live, Ask, Unused, HandlesOf, HandlesIn
<1>2. SchemeInv(FromObject(m, o, s))
  BY <1>1, FromObjectInv
<1> QED
  BY <1>1, <1>2

\* The finalizer of a handle that owns its object deletes that object.
LEMMA FreedIs ==
  ASSUME HandlesInv(m), NEW s \in Smobs, m.smob[s] # None, m.smob[s].data # None
  PROVE  smob_free(m, s) = IF m.smob[s].gc
                           THEN s_delete_object(Forget(m, s), WithContents({m.smob[s].data}))
                           ELSE Forget(m, s)
<1> DEFINE o == m.smob[s].data
           S == WithContents({o})
           v == [m EXCEPT !.heap[o].weak = @ \ {s}]
           u == Forget(m, s)
<1>0. /\ m \in World /\ Registered(m)
      /\ m.smob \in [Smobs -> Handle \cup {None}]
      /\ o \in Objects /\ m.heap[o] # None
  <2>1. m \in World /\ Registered(m) /\ NotDangling(m)
    BY DEF HandlesInv
  <2>2. m.smob[s] \in Handle
    BY <2>1 DEF World
  <2> QED
    BY <2>1, <2>2 DEF World, Handle, NotDangling
<1>1. smob_free(m, s) = IF m.smob[s].gc THEN [s_delete_object(v, S) EXCEPT !.smob[s] = None]
                        ELSE [v EXCEPT !.smob[s] = None]
  BY DEF smob_free
<1>2. u = [m EXCEPT !.heap[o].weak = @ \ {s}, !.smob[s] = None]
  BY DEF Forget
<1> DEFINE G == [m.heap EXCEPT ![o] = [m.heap[o] EXCEPT !.weak = m.heap[o].weak \ {s}]]
           N == [m.smob EXCEPT ![s] = None]
<1>3. /\ v = [heap |-> G, smob |-> m.smob, cache |-> m.cache, twice |-> m.twice, stray |-> m.stray]
      /\ u = [heap |-> G, smob |-> N, cache |-> m.cache, twice |-> m.twice, stray |-> m.stray]
  <2>1. v = [m EXCEPT !.heap = G] /\ u = [m EXCEPT !.heap = G, !.smob = N]
    BY <1>2
  <2> HIDE DEF v, u, G, N
  <2> QED
    BY <1>0, <2>1 DEF World
<1>4. \A x \in Objects : m.heap[x] # None => s \notin G[x].weak
  <2>1. m.heap[o] \in Object /\ m.heap \in [Objects -> Object \cup {None}]
    BY <1>0 DEF World
  <2> QED
    BY <1>0, <2>1 DEF Registered, Object
<1>5. S \subseteq Objects /\ \A x \in S : m.heap[x] # None
  BY <1>0 DEF WithContents, Contents, Live
<1> HIDE DEF v, u, G, N, S
<1> DEFINE told(h)     == UNION {h[x].weak : x \in S}
           detached(h) == UNION {h[x].attribs : x \in S}
           left(h, x)  == {a \in S : h[a].owner = x}
           H(h) == [x \in Objects |->
                      IF x \in S \/ h[x] = None THEN None
                      ELSE [h[x] EXCEPT !.attribs = @ \ left(h, x),
                                        !.owner   = IF x \in detached(h) THEN None ELSE @]]
           B(h, b) == [t \in Smobs |-> IF t \in told(h) THEN [b[t] EXCEPT !.data = None]
                                       ELSE b[t]]
           C(h, c) == [x \in Objects |-> IF x \in S /\ h[x].weak # {} THEN None ELSE c[x]]
<1>6. s \notin told(G)
  BY <1>4, <1>5
<1>7. \A w : s_delete_object(w, S) =
               [w EXCEPT !.heap = H(w.heap), !.smob = B(w.heap, w.smob),
                         !.cache = C(w.heap, w.cache), !.twice = w.twice \ S]
  BY Zenon DEF s_delete_object
<1>9. [B(G, m.smob) EXCEPT ![s] = None] = B(G, N)
  <2> HIDE DEF told
  <2> QED
    BY <1>0, <1>6 DEF N
<1> HIDE DEF told, detached, left, H, B, C
<1>10. [s_delete_object(v, S) EXCEPT !.smob[s] = None] = s_delete_object(u, S)
  <2>1. s_delete_object(v, S) =
          [heap |-> H(G), smob |-> B(G, m.smob), cache |-> C(G, m.cache),
           twice |-> m.twice \ S, stray |-> m.stray]
    <3>1. /\ v.heap = G /\ v.smob = m.smob /\ v.cache = m.cache /\ v.twice = m.twice
          /\ v.stray = m.stray
      BY <1>3
    <3>2. s_delete_object(v, S) =
            [v EXCEPT !.heap = H(G), !.smob = B(G, m.smob), !.cache = C(G, m.cache),
                      !.twice = m.twice \ S]
      BY <1>7, <3>1
    <3> QED
      BY <1>3, <3>2
  <2>2. s_delete_object(u, S) =
          [heap |-> H(G), smob |-> B(G, N), cache |-> C(G, m.cache),
           twice |-> m.twice \ S, stray |-> m.stray]
    <3>1. /\ u.heap = G /\ u.smob = N /\ u.cache = m.cache /\ u.twice = m.twice
          /\ u.stray = m.stray
      BY <1>3
    <3>2. s_delete_object(u, S) =
            [u EXCEPT !.heap = H(G), !.smob = B(G, N), !.cache = C(G, m.cache),
                      !.twice = m.twice \ S]
      BY <1>7, <3>1
    <3> QED
      BY <1>3, <3>2
  <2> QED
    BY <1>9, <2>1, <2>2
<1>11. [v EXCEPT !.smob[s] = None] = u
  BY <1>3 DEF N
<1> QED
  BY <1>1, <1>10, <1>11 DEF u, S

\* A smob is finalized, with its object if the collector owns that.
LEMMA CollectKeepsInv ==
  ASSUME SchemeInv(m), NEW s \in Smobs, Collect(s)
  PROVE  SchemeInv(m')
<1> DEFINE u == Forget(m, s)
           o == m.smob[s].data
<1>0. /\ HandlesInv(m) /\ PlacesInv(m) /\ CollectorInv(m) /\ m \in World
      /\ m.smob[s] # None
      /\ \A x \in Objects : m.cache[x] # s
      /\ m' = smob_free(m, s)
  BY DEF SchemeInv, HandlesInv, Collect
<1>1. /\ HandlesInv(u) /\ SamePlaces(u, m) /\ u.twice = m.twice
      /\ \A t \in Smobs : u.smob[t] = IF t = s THEN None ELSE m.smob[t]
  BY <1>0, ForgetHandles
<1>2. u \in World
  BY <1>1 DEF HandlesInv
<1>3. PlacesInv(u)
  BY <1>0, <1>1, <1>2, SamePlacesInv
<1>4. \A x \in Objects : m.heap[x] # None => (LooseIn(u, x) <=> LooseIn(m, x))
  BY <1>1 DEF SamePlaces, LooseIn
<1>5. \A x : x # o \/ ~m.smob[s].gc => (OwnedIn(u, x) <=> OwnedIn(m, x))
  BY <1>0, <1>1 DEF OwnedIn
<1>6. \A x \in Objects : u.heap[x] = None <=> m.heap[x] = None
  BY <1>1 DEF SamePlaces
<1>7. CASE o = None
  <2>1. m' = u
    BY <1>0, <1>7 DEF smob_free, Forget
  <2>2. \A x \in Objects : OwnedIn(u, x) <=> OwnedIn(m, x)
    BY <1>5, <1>7, NoneIsNothing
  <2>3. CollectorInv(u)
    BY <1>0, <1>1, <1>4, <1>6, <2>2 DEF CollectorInv
  <2> QED
    BY <1>1, <1>3, <2>1, <2>3 DEF SchemeInv
<1>8. CASE o # None /\ ~m.smob[s].gc
  <2>1. m' = u
    BY <1>0, <1>8, FreedIs
  <2>2. CollectorInv(u)
    BY <1>0, <1>1, <1>4, <1>5, <1>6, <1>8 DEF CollectorInv
  <2> QED
    BY <1>1, <1>3, <2>1, <2>2 DEF SchemeInv
<1>9. CASE o # None /\ m.smob[s].gc
  <2> DEFINE S == WithContents({o})
  <2>1. m' = s_delete_object(u, S)
    BY <1>0, <1>9, FreedIs
  <2>2. o \in Live
    <3>1. m.smob[s] \in Handle
      BY <1>0 DEF World
    <3> QED
      BY <1>0, <1>9, <3>1 DEF HandlesInv, NotDangling, Live, Handle
  <2>3. S \subseteq LiveIn(m) /\ o \in S
    BY <2>2, WithContentsIsLive
  <2> HIDE DEF S, o, u
  <2>4. S \in SUBSET LiveIn(u)
    BY <1>6, <2>3 DEF LiveIn
  <2>5. \A x \in Objects \ S : u.heap[x] # None =>
           /\ LooseIn(u, x) => OwnedIn(u, x)
           /\ OwnedIn(u, x) => LooseIn(u, x) \/ x \in u.twice
    BY <1>0, <1>1, <1>4, <1>5, <1>6, <2>3 DEF CollectorInv
  <2>6. SchemeInv(s_delete_object(u, S))
    BY <1>1, <1>3, <2>4, <2>5, DeletedInv
  <2> QED
    BY <2>1, <2>6
<1> QED
  BY <1>7, <1>8, <1>9

\* Nothing refers to what is not there.
LEMMA NotThere ==
  ASSUME NEW w, HandlesInv(w), NEW o \in Objects, w.heap[o] = None
  PROVE  /\ HandlesIn(w, o) = {}
         /\ ~OwnedIn(w, o)
         /\ w.cache[o] = None
<1>1. o # None
  BY NoneIsNothing
<1>2. HandlesIn(w, o) = {}
  BY <1>1 DEF HandlesInv, NotDangling, HandlesIn
<1>3. w.cache[o] = None
  <2>1. w.cache[o] \in Smobs \cup {None}
    BY DEF HandlesInv, World
  <2> QED
    BY <1>2, <2>1 DEF HandlesInv, CacheOwned, HandlesIn
<1> QED
  BY <1>2, <1>3 DEF OwnedIn, HandlesIn

\* The handles that scripts use refer to objects.
LEMMA NamedIs ==
  ASSUME HandlesInv(m), NEW t \in Named
  PROVE  /\ t \in Smobs /\ m.smob[t] # None /\ m.smob[t].data # None
         /\ m.smob[t].data \in Objects /\ m.heap[m.smob[t].data] # None
         /\ m.smob[t].data \in Live
<1>1. t \in Smobs /\ m.smob[t] # None /\ m.smob[t].data # None
  BY DEF Named, Unused
<1>2. m.smob[t] \in Handle
  BY <1>1 DEF HandlesInv, World
<1> QED
  BY <1>1, <1>2 DEF HandlesInv, NotDangling, Handle, Live

\* A new object and its handle; K is in it.
LEMMA MakeKeepsInv ==
  ASSUME SchemeInv(m), NEW o \in Objects, NEW K \in SUBSET Texts, NEW s \in Smobs,
         Make(o, K, s)
  PROVE  SchemeInv(m')
<1> DEFINE u == Made(m, o, K)
           v == Owned(u, o, s)
<1>0. /\ HandlesInv(m) /\ PlacesInv(m) /\ CollectorInv(m) /\ m \in World
      /\ m.smob[s] = None /\ Fresh(o, K) /\ m.heap[o] = None
      /\ m' = v
  BY DEF SchemeInv, HandlesInv, Make, Unused, Fresh, Live
<1>1. /\ u \in World /\ SameHandles(u, m) /\ AddedPlaces(u, m)
      /\ \A x \in Objects : m.heap[x] = None =>
           /\ u.heap[x] = None <=> x \notin K \cup {o}
           /\ x = o => u.heap[x].page = None /\ u.heap[x].parent = None
           /\ x \in K => u.heap[x].page = None /\ u.heap[x].parent = o
  BY <1>0, MadeObjects
<1> HIDE DEF u
<1>2. HandlesInv(u) /\ PlacesInv(u)
  BY <1>0, <1>1, SameHandlesInv, AddedPlacesInv
<1>3. u.smob = m.smob /\ u.cache = m.cache /\ u.twice = m.twice
  BY <1>1 DEF SameHandles
<1>4. HandlesOf(o) = HandlesIn(u, o) /\ u.cache[o] = None /\ u.heap[o] # None
      /\ u.smob[s] = None
  <2>1. m.cache[o] = None
    BY <1>0, NotThere
  <2> QED
    BY <1>0, <1>1, <1>3, <2>1 DEF HandlesOf, HandlesIn
<1>5. /\ HandlesInv(v) /\ SamePlaces(v, u) /\ u.twice \subseteq v.twice
      /\ \A x : OwnedIn(v, x) <=> x = o \/ OwnedIn(u, x)
  BY <1>2, <1>4, OwnedHandles
<1> HIDE DEF v
<1>6. PlacesInv(v)
  BY <1>2, <1>5, SamePlacesInv DEF HandlesInv
<1>7. \A x : OwnedIn(u, x) <=> OwnedIn(m, x)
  BY <1>3 DEF OwnedIn
<1>8. CollectorInv(v)
  <2> SUFFICES ASSUME NEW x \in Objects, v.heap[x] # None
               PROVE  /\ LooseIn(v, x) => OwnedIn(v, x)
                      /\ OwnedIn(v, x) => LooseIn(v, x) \/ x \in v.twice
    BY DEF CollectorInv
  <2>1. u.heap[x] # None /\ (LooseIn(v, x) <=> LooseIn(u, x))
    BY <1>5 DEF SamePlaces, LooseIn
  <2>2. CASE m.heap[x] # None
    <3>1. (LooseIn(u, x) <=> LooseIn(m, x)) /\ x # o
      BY <1>0, <1>1, <2>2 DEF AddedPlaces, LooseIn
    <3> QED
      BY <1>0, <1>3, <1>5, <1>7, <2>1, <2>2, <3>1 DEF CollectorInv
  <2>3. CASE m.heap[x] = None
    <3>1. ~OwnedIn(m, x)
      BY <1>0, <2>3, NotThere
    <3>2. x = o \/ x \in K
      BY <1>1, <2>1, <2>3
    <3>3. x = o => LooseIn(u, x)
      BY <1>1, <2>3 DEF LooseIn
    <3>4. x # o => ~LooseIn(u, x)
      BY <1>1, <2>3, <3>2, NoneIsNothing DEF LooseIn
    <3> QED
      BY <1>5, <1>7, <2>1, <3>1, <3>3, <3>4
  <2> QED
    BY <2>2, <2>3
<1> QED
  BY <1>0, <1>5, <1>6, <1>8 DEF SchemeInv

\* The user adds an object with its contents.
LEMMA AddKeepsInv ==
  ASSUME SchemeInv(m), NEW o \in Objects, NEW K \in SUBSET Texts, NEW p \in Pages,
         EditorAdd(p, o, K)
  PROVE  SchemeInv(m')
<1> DEFINE u == Made(m, o, K)
           v == [u EXCEPT !.heap[o].page = p]
<1>0. /\ HandlesInv(m) /\ PlacesInv(m) /\ CollectorInv(m) /\ m \in World
      /\ Fresh(o, K) /\ m.heap[o] = None
      /\ m' = v
  BY DEF SchemeInv, HandlesInv, EditorAdd, Fresh, Live
<1>1. /\ u \in World /\ SameHandles(u, m) /\ AddedPlaces(u, m)
      /\ \A x \in Objects : m.heap[x] = None =>
           /\ u.heap[x] = None <=> x \notin K \cup {o}
           /\ x = o => u.heap[x].page = None /\ u.heap[x].parent = None
           /\ x \in K => u.heap[x].page = None /\ u.heap[x].parent = o
      /\ u.stray = m.stray
  BY <1>0, MadeObjects
<1> HIDE DEF u
<1>2. u.heap[o] \in Object /\ u.heap[o] # None /\ u.heap[o].parent = None
  BY <1>0, <1>1, ObjectFields
<1>3. /\ v \in World
      /\ v.smob = u.smob /\ v.cache = u.cache /\ v.twice = u.twice /\ v.stray = u.stray
      /\ \A x \in Objects : x # o => v.heap[x] = u.heap[x]
      /\ v.heap[o] # None /\ v.heap[o].page = p /\ v.heap[o].parent = None
      /\ v.heap[o].weak = u.heap[o].weak
      /\ v.heap[o].owner = u.heap[o].owner
      /\ v.heap[o].attribs = u.heap[o].attribs
  <2>1. [u.heap[o] EXCEPT !.page = p] \in Object
    BY <1>2 DEF Object
  <2>2. v = [u EXCEPT !.heap = [u.heap EXCEPT ![o] = [u.heap[o] EXCEPT !.page = p]]]
    OBVIOUS
  <2>3. u.heap \in [Objects -> Object \cup {None}]
    BY <1>1 DEF World
  <2> DEFINE H == [u.heap EXCEPT ![o] = [u.heap[o] EXCEPT !.page = p]]
  <2>4. H \in [Objects -> Object \cup {None}]
        /\ (\A x \in Objects : x # o => H[x] = u.heap[x])
        /\ H[o] = [u.heap[o] EXCEPT !.page = p]
    BY <2>1, <2>3
  <2> HIDE DEF H, v
  <2>5. v \in World /\ v.heap = H
        /\ v.smob = u.smob /\ v.cache = u.cache /\ v.twice = u.twice /\ v.stray = u.stray
    BY <1>1, <2>2, <2>4 DEF World, H
  <2>6. /\ [u.heap[o] EXCEPT !.page = p] # None
        /\ [u.heap[o] EXCEPT !.page = p].page = p
        /\ [u.heap[o] EXCEPT !.page = p].parent = None
        /\ [u.heap[o] EXCEPT !.page = p].weak = u.heap[o].weak
        /\ [u.heap[o] EXCEPT !.page = p].owner = u.heap[o].owner
        /\ [u.heap[o] EXCEPT !.page = p].attribs = u.heap[o].attribs
    BY <1>2, <2>1, NoneIsNothing DEF Object
  <2> QED
    BY <2>4, <2>5, <2>6
<1> HIDE DEF v
<1>4. SameHandles(v, m)
  BY <1>0, <1>1, <1>3 DEF SameHandles
<1>5. AddedPlaces(v, m)
  BY <1>0, <1>1, <1>3 DEF AddedPlaces
<1>6. HandlesInv(v) /\ PlacesInv(v)
  BY <1>0, <1>3, <1>4, <1>5, SameHandlesInv, AddedPlacesInv
<1>7. \A x : OwnedIn(v, x) <=> OwnedIn(m, x)
  BY <1>4 DEF OwnedIn, SameHandles
<1>8. CollectorInv(v)
  <2> SUFFICES ASSUME NEW x \in Objects, v.heap[x] # None
               PROVE  /\ LooseIn(v, x) => OwnedIn(v, x)
                      /\ OwnedIn(v, x) => LooseIn(v, x) \/ x \in v.twice
    BY DEF CollectorInv
  <2>1. CASE m.heap[x] # None
    <3>1. LooseIn(v, x) <=> LooseIn(m, x)
      BY <1>5, <2>1 DEF AddedPlaces, LooseIn
    <3> QED
      BY <1>0, <1>4, <1>7, <2>1, <3>1 DEF CollectorInv, SameHandles
  <2>2. CASE m.heap[x] = None
    <3>1. ~OwnedIn(m, x)
      BY <1>0, <2>2, NotThere
    <3>2. ~LooseIn(v, x)
      BY <1>1, <1>3, <2>2, NoneIsNothing DEF LooseIn
    <3> QED
      BY <1>7, <3>1, <3>2
  <2> QED
    BY <2>1, <2>2
<1> QED
  BY <1>0, <1>6, <1>8 DEF SchemeInv

\* The object of the handle t, which is attached to nothing, is moved; the collector
\* owns it afterwards exactly if it is loose.
LEMMA MoveInv ==
  ASSUME SchemeInv(m), NEW t \in Named, NEW gc \in BOOLEAN, NEW v, HandlesInv(v),
         GcIs(v, m, t, gc), v.twice = m.twice,
         MovedPlace(v, m, m.smob[t].data),
         LET o == m.smob[t].data
         IN  /\ m.stray \/ (m.heap[o].owner = None /\ m.heap[o].attribs = {})
             /\ v.heap[o].page # None => v.heap[o].parent = None
             /\ v.heap[o].parent # None => o \notin Components /\ v.heap[o].parent \in Components
             /\ gc <=> LooseIn(v, o)
  PROVE  SchemeInv(v)
<1> DEFINE o == m.smob[t].data
<1>0. /\ HandlesInv(m) /\ PlacesInv(m) /\ CollectorInv(m) /\ v \in World
      /\ t \in Smobs /\ m.smob[t] # None /\ o # None /\ o \in Objects /\ m.heap[o] # None
  BY NamedIs DEF SchemeInv, HandlesInv
<1> HIDE DEF o
<1>1. /\ MovedPlace(v, m, o)
      /\ m.stray \/ (m.heap[o].owner = None /\ m.heap[o].attribs = {})
      /\ v.heap[o].page # None => v.heap[o].parent = None
      /\ v.heap[o].parent # None => o \notin Components /\ v.heap[o].parent \in Components
      /\ gc <=> LooseIn(v, o)
  BY DEF o
<1>2. PlacesInv(v)
  BY <1>0, <1>1, MovedPlacesInv
<1>3. /\ \A s \in Smobs : v.smob[s] = None <=> m.smob[s] = None
      /\ \A s \in Smobs : m.smob[s] # None =>
           v.smob[s].data = m.smob[s].data /\ (v.smob[s].gc <=> IF s = t THEN gc ELSE m.smob[s].gc)
      /\ m.smob[t].data = o
  BY DEF GcIs, o
<1>4. ASSUME NEW x, x # o
      PROVE  OwnedIn(v, x) <=> OwnedIn(m, x)
  <2>1. ASSUME NEW s \in Smobs
        PROVE  (v.smob[s] # None /\ v.smob[s].data = x /\ v.smob[s].gc) <=>
               (m.smob[s] # None /\ m.smob[s].data = x /\ m.smob[s].gc)
    BY <1>3, <1>4
  <2> QED
    BY <2>1 DEF OwnedIn
<1>5. gc => OwnedIn(v, o)
  BY <1>0, <1>3 DEF OwnedIn
<1>6. ~gc /\ OwnedIn(v, o) => o \in v.twice
  <2> SUFFICES ASSUME ~gc, OwnedIn(v, o)
               PROVE  o \in v.twice
    OBVIOUS
  <2>1. PICK s \in Smobs : v.smob[s] # None /\ v.smob[s].data = o /\ v.smob[s].gc
    BY DEF OwnedIn
  <2>2. s # t /\ m.smob[s] # None /\ m.smob[s].data = o
    BY <1>3, <2>1
  <2> QED
    BY <1>0, <1>3, <2>2 DEF HandlesInv, OneHandle
<1>7. CollectorInv(v)
  <2> SUFFICES ASSUME NEW x \in Objects, v.heap[x] # None
               PROVE  /\ LooseIn(v, x) => OwnedIn(v, x)
                      /\ OwnedIn(v, x) => LooseIn(v, x) \/ x \in v.twice
    BY DEF CollectorInv
  <2>1. CASE x = o
    BY <1>1, <1>5, <1>6, <2>1
  <2>2. CASE x # o
    <3>1. m.heap[x] # None /\ (LooseIn(v, x) <=> LooseIn(m, x))
      BY <1>1, <2>2 DEF MovedPlace, LooseIn
    <3> QED
      BY <1>0, <1>4, <2>2, <3>1 DEF CollectorInv
  <2> QED
    BY <2>1, <2>2
<1> QED
  BY <1>2, <1>7 DEF SchemeInv

\* Changing the page or the parent of an object.
Puts(v, w, o, P, Q) ==
  \/ v = [w EXCEPT !.heap[o].page = P] /\ Q = w.heap[o].parent
  \/ v = [w EXCEPT !.heap[o].parent = Q] /\ P = w.heap[o].page

\* Such a change moves this object and no other.
LEMMA PutIs ==
  ASSUME NEW w \in World, NEW o \in Objects, w.heap[o] # None,
         NEW P \in Pages \cup {None}, NEW Q \in Objects \cup {None}, NEW v,
         Puts(v, w, o, P, Q)
  PROVE  /\ v \in World
         /\ SameHandles(v, w)
         /\ MovedPlace(v, w, o)
         /\ v.smob = w.smob /\ v.cache = w.cache /\ v.twice = w.twice
         /\ v.heap[o].page = P /\ v.heap[o].parent = Q
<1>1. w.heap[o] \in Object /\ w.heap \in [Objects -> Object \cup {None}]
  BY DEF World
<1>2. PICK b \in Object :
        /\ b.page = P /\ b.parent = Q
        /\ b.owner = w.heap[o].owner /\ b.attribs = w.heap[o].attribs
        /\ b.weak = w.heap[o].weak
        /\ v = [w EXCEPT !.heap = [w.heap EXCEPT ![o] = b]]
  <2>1. CASE v = [w EXCEPT !.heap[o].page = P] /\ Q = w.heap[o].parent
    <3> DEFINE b == [w.heap[o] EXCEPT !.page = P]
    <3>1. b \in Object
      BY <1>1 DEF Object
    <3>2. /\ b.page = P /\ b.parent = Q
          /\ b.owner = w.heap[o].owner /\ b.attribs = w.heap[o].attribs
          /\ b.weak = w.heap[o].weak
      BY <1>1, <2>1 DEF Object
    <3>3. v = [w EXCEPT !.heap = [w.heap EXCEPT ![o] = b]]
      BY <2>1
    <3> HIDE DEF b
    <3> QED
      BY <3>1, <3>2, <3>3
  <2>2. CASE v = [w EXCEPT !.heap[o].parent = Q] /\ P = w.heap[o].page
    <3> DEFINE b == [w.heap[o] EXCEPT !.parent = Q]
    <3>1. b \in Object
      BY <1>1 DEF Object
    <3>2. /\ b.page = P /\ b.parent = Q
          /\ b.owner = w.heap[o].owner /\ b.attribs = w.heap[o].attribs
          /\ b.weak = w.heap[o].weak
      BY <1>1, <2>2 DEF Object
    <3>3. v = [w EXCEPT !.heap = [w.heap EXCEPT ![o] = b]]
      BY <2>2
    <3> HIDE DEF b
    <3> QED
      BY <3>1, <3>2, <3>3
  <2> QED
    BY <2>1, <2>2 DEF Puts
<1> DEFINE H == [w.heap EXCEPT ![o] = b]
<1>3. /\ H \in [Objects -> Object \cup {None}]
      /\ \A x \in Objects : x # o => H[x] = w.heap[x]
      /\ H[o] = b
  BY <1>1
<1>4. b # None
  BY NoneIsNothing
<1> HIDE DEF H
<1>5. /\ v \in World /\ v.heap = H /\ v.smob = w.smob /\ v.cache = w.cache
      /\ v.twice = w.twice /\ v.stray = w.stray
  BY <1>2, <1>3 DEF World, H
<1>6. /\ \A x \in Objects : x # o => v.heap[x] = w.heap[x]
      /\ v.heap[o] = b
  BY <1>3, <1>5
<1>7. SameHandles(v, w)
  BY <1>2, <1>4, <1>5, <1>6 DEF SameHandles
<1>8. MovedPlace(v, w, o)
  BY <1>2, <1>4, <1>5, <1>6 DEF MovedPlace
<1> QED
  BY <1>2, <1>5, <1>6, <1>7, <1>8

\* An object is put on a page or into a component.
LEMMA AppendInv ==
  ASSUME SchemeInv(m), NEW t \in Named, Loose(m.smob[t].data),
         NEW P \in Pages \cup {None}, NEW Q \in Objects \cup {None}, NEW v,
         LET o == m.smob[t].data
             u == edascm_c_set_gc(m, t, FALSE)
         IN  \/ v = [u EXCEPT !.heap[o].page = P] /\ P # None /\ Q = None
             \/ /\ v = [u EXCEPT !.heap[o].parent = Q] /\ Q # None /\ P = None
                /\ Q \in Components /\ o \notin Components
  PROVE  SchemeInv(v)
<1> DEFINE o == m.smob[t].data
           u == edascm_c_set_gc(m, t, FALSE)
<1>0. /\ HandlesInv(m) /\ PlacesInv(m) /\ CollectorInv(m) /\ m \in World
      /\ t \in Smobs /\ m.smob[t] # None /\ o # None /\ o \in Objects /\ m.heap[o] # None
  BY NamedIs DEF SchemeInv, HandlesInv
<1>1. /\ HandlesInv(u) /\ u.heap = m.heap /\ u.twice = m.twice /\ u.stray = m.stray
      /\ GcIs(u, m, t, FALSE)
  BY <1>0, SetGc
<1>2. /\ \/ v = [u EXCEPT !.heap[o].page = P] /\ P # None /\ Q = None
         \/ /\ v = [u EXCEPT !.heap[o].parent = Q] /\ Q # None /\ P = None
            /\ Q \in Components /\ o \notin Components
      /\ m.heap[o].page = None /\ m.heap[o].parent = None
  BY DEF Loose
<1> HIDE DEF u, o
<1>3. u \in World
  BY <1>1 DEF HandlesInv
<1>4. /\ v \in World /\ SameHandles(v, u) /\ MovedPlace(v, u, o)
      /\ v.smob = u.smob /\ v.twice = u.twice
      /\ v.heap[o].page = P /\ v.heap[o].parent = Q
  <2>1. Puts(v, u, o, P, Q)
    BY <1>1, <1>2 DEF Puts
  <2>2. u.heap[o] # None
    BY <1>0, <1>1
  <2> QED
    BY <1>0, <1>3, <2>1, <2>2, PutIs
<1>5. HandlesInv(v)
  BY <1>1, <1>4, SameHandlesInv
<1>6. MovedPlace(v, m, o)
  BY <1>1, <1>4 DEF MovedPlace
<1>7. GcIs(v, m, t, FALSE) /\ v.twice = m.twice
  BY <1>1, <1>4 DEF GcIs
<1>8. m.stray \/ (m.heap[o].owner = None /\ m.heap[o].attribs = {})
  BY <1>0, <1>2 DEF PlacesInv, LooseAlone, LooseIn
<1>9. ~LooseIn(v, o)
  BY <1>2, <1>4 DEF LooseIn
<1>10. /\ v.heap[o].page # None => v.heap[o].parent = None
       /\ v.heap[o].parent # None => o \notin Components /\ v.heap[o].parent \in Components
  BY <1>2, <1>4
<1> QED
  BY <1>5, <1>6, <1>7, <1>8, <1>9, <1>10, MoveInv DEF o

\* An object is taken off a page or out of a component.
LEMMA RemoveInv ==
  ASSUME SchemeInv(m), NEW t \in Named, NEW v,
         LET o == m.smob[t].data
         IN  /\ m.heap[o].owner = None /\ m.heap[o].attribs = {}
             /\ \/ m.heap[o].parent = None
                   /\ v = edascm_c_set_gc([m EXCEPT !.heap[o].page = None], t, TRUE)
                \/ m.heap[o].page = None
                   /\ v = edascm_c_set_gc([m EXCEPT !.heap[o].parent = None], t, TRUE)
  PROVE  SchemeInv(v)
<1> DEFINE o == m.smob[t].data
<1>0. /\ HandlesInv(m) /\ PlacesInv(m) /\ CollectorInv(m) /\ m \in World
      /\ t \in Smobs /\ m.smob[t] # None /\ o # None /\ o \in Objects /\ m.heap[o] # None
  BY NamedIs DEF SchemeInv, HandlesInv
<1>a. None \in Pages \cup {None} /\ None \in Objects \cup {None}
  OBVIOUS
<1>1. PICK u : Puts(u, m, o, None, None) /\ v = edascm_c_set_gc(u, t, TRUE)
  <2>1. CASE m.heap[o].parent = None
             /\ v = edascm_c_set_gc([m EXCEPT !.heap[o].page = None], t, TRUE)
    BY <2>1 DEF Puts
  <2>2. CASE m.heap[o].page = None
             /\ v = edascm_c_set_gc([m EXCEPT !.heap[o].parent = None], t, TRUE)
    BY <2>2 DEF Puts
  <2> QED
    BY <2>1, <2>2
<1>2. m.heap[o].owner = None /\ m.heap[o].attribs = {} /\ m.smob[t].data = o
  OBVIOUS
<1> HIDE DEF o
<1>3. /\ u \in World /\ SameHandles(u, m) /\ MovedPlace(u, m, o)
      /\ u.smob = m.smob /\ u.twice = m.twice
      /\ u.heap[o].page = None /\ u.heap[o].parent = None
  BY <1>0, <1>1, <1>a, PutIs
<1>4. HandlesInv(u)
  BY <1>0, <1>3, SameHandlesInv
<1>5. u.smob[t] # None /\ u.smob[t].data # None
  BY <1>0, <1>2, <1>3
<1>6. /\ HandlesInv(v) /\ v.heap = u.heap /\ v.twice = u.twice /\ v.stray = u.stray
      /\ GcIs(v, u, t, TRUE)
  BY <1>0, <1>1, <1>4, <1>5, SetGc
<1>7. MovedPlace(v, m, o)
  BY <1>3, <1>6 DEF MovedPlace
<1>8. GcIs(v, m, t, TRUE) /\ v.twice = m.twice
  BY <1>3, <1>6 DEF GcIs
<1>9. v.heap[o].page = None /\ v.heap[o].parent = None
  BY <1>3, <1>6
<1>10. LooseIn(v, o)
  BY <1>9 DEF LooseIn
<1> QED
  BY <1>2, <1>6, <1>7, <1>8, <1>9, <1>10, MoveInv

\* page-append!
LEMMA PageAppendKeepsInv ==
  ASSUME SchemeInv(m), NEW t \in Named, NEW p \in Pages, PageAppend(t, p)
  PROVE  SchemeInv(m')
<1>1. p # None
  BY NoneIsNothing
<1> QED
  BY <1>1, AppendInv DEF PageAppend

\* page-remove!: it refuses an object that is attached to something.
LEMMA PageRemoveKeepsInv ==
  ASSUME SchemeInv(m), NEW t \in Named, NEW p \in Pages, PageRemove(t, p)
  PROVE  SchemeInv(m')
BY RemoveInv DEF PageRemove

\* component-append!
LEMMA ComplexAppendKeepsInv ==
  ASSUME SchemeInv(m), NEW t \in Named, NEW c \in Named, ComplexAppend(t, c)
  PROVE  SchemeInv(m')
<1>1. m.smob[c].data \in Objects /\ m.smob[c].data # None
  BY NamedIs DEF SchemeInv
<1> QED
  BY <1>1, AppendInv DEF ComplexAppend

\* component-remove!: what is in a component is on no page.
LEMMA ComplexRemoveKeepsInv ==
  ASSUME SchemeInv(m), NEW t \in Named, NEW c \in Named, ComplexRemove(t, c)
  PROVE  SchemeInv(m')
<1> DEFINE o == m.smob[t].data
<1>1. /\ m.smob[c].data # None
      /\ o \in Objects /\ m.heap[o] # None
  BY NamedIs DEF SchemeInv
<1>2. m.heap[o].parent # None
  BY <1>1 DEF ComplexRemove
<1>3. m.heap[o].page = None
  BY <1>1, <1>2 DEF SchemeInv, PlacesInv, Placed
<1> QED
  BY <1>3, RemoveInv DEF ComplexRemove

\* Nothing moves and no handle changes.
LEMMA UnmovedCollectorInv ==
  ASSUME NEW w, CollectorInv(w), NEW v, Unmoved(v, w), SameHandles(v, w)
  PROVE  CollectorInv(v)
<1> SUFFICES ASSUME NEW o \in Objects, v.heap[o] # None
             PROVE  /\ LooseIn(v, o) => OwnedIn(v, o)
                    /\ OwnedIn(v, o) => LooseIn(v, o) \/ o \in v.twice
  BY DEF CollectorInv
<1>1. w.heap[o] # None /\ (LooseIn(v, o) <=> LooseIn(w, o))
  BY DEF Unmoved, LooseIn
<1>2. v.smob = w.smob /\ v.twice = w.twice
  BY DEF SameHandles
<1>3. OwnedIn(v, o) <=> OwnedIn(w, o)
  BY <1>2 DEF OwnedIn
<1> QED
  BY <1>1, <1>2, <1>3 DEF CollectorInv

\* Attaching an object of a page or component to another in the same place.
LEMMA AttachInv ==
  ASSUME SchemeInv(m), NEW a \in Live, NEW q \in Live, a \in Texts, m.heap[a].owner = None,
         m.heap[q].page = m.heap[a].page, m.heap[q].parent = m.heap[a].parent,
         ~LooseIn(m, a)
  PROVE  SchemeInv(Attached(m, a, q))
<1>0. /\ HandlesInv(m) /\ PlacesInv(m) /\ CollectorInv(m)
      /\ a \in Objects /\ q \in Objects /\ m.heap[a] # None /\ m.heap[q] # None
      /\ a \notin Components
  BY DEF SchemeInv, Live, Texts
<1> DEFINE v == Attached(m, a, q)
<1>1. PlacesInv(v) /\ SameHandles(v, m) /\ Unmoved(v, m)
  BY <1>0, AttachedPlaces
<1> HIDE DEF v
<1>2. CollectorInv(v)
  BY <1>0, <1>1, UnmovedCollectorInv
<1>3. HandlesInv(v)
  BY <1>0, <1>1, SameHandlesInv DEF PlacesInv
<1> QED
  BY <1>1, <1>2, <1>3 DEF SchemeInv, v

\* attach-attribs!: the checks it makes imply that both are in the same place.
LEMMA AttachAttribKeepsInv ==
  ASSUME SchemeInv(m), NEW t \in Named, NEW c \in Named, AttachAttrib(t, c)
  PROVE  SchemeInv(m')
<1> DEFINE a == m.smob[t].data
           q == m.smob[c].data
<1>1. /\ a \in Live /\ q \in Live /\ a \in Objects /\ q \in Objects
      /\ m.heap[a] # None /\ m.heap[q] # None
  BY NamedIs DEF SchemeInv
<1>2. a \in Texts /\ MayAttach(a, q) /\ m' = Attached(m, a, q)
  BY DEF AttachAttrib
<1> HIDE DEF a, q
<1>3. \A o \in {a, q} : m.heap[o].parent # None => m.heap[o].page = None
  BY <1>1 DEF SchemeInv, PlacesInv, Placed
<1>4. m.heap[a].owner = None /\ m.heap[q].parent = m.heap[a].parent
  BY <1>2 DEF MayAttach
<1>5. m.heap[q].page = m.heap[a].page /\ ~LooseIn(m, a)
  BY <1>2, <1>3, <1>4 DEF MayAttach, o_get_page, LooseIn
<1>6. SchemeInv(Attached(m, a, q))
  BY <1>1, <1>2, <1>4, <1>5, AttachInv
<1> QED
  BY <1>2, <1>6

\* The user attaches objects of a page.
LEMMA EditorAttachKeepsInv ==
  ASSUME SchemeInv(m), NEW p \in Pages, NEW a, NEW q, EditorAttach(p, a, q)
  PROVE  SchemeInv(m')
<1>1. /\ a \in Live /\ q \in Live /\ m.heap[a].page = p /\ m.heap[q].page = p
      /\ a \in Texts /\ m.heap[a].owner = None /\ m' = Attached(m, a, q)
      /\ p # None
  BY NoneIsNothing DEF EditorAttach, OnPage
<1>2. m.heap[a].parent = None /\ m.heap[q].parent = None
  BY <1>1 DEF SchemeInv, PlacesInv, Placed, Live
<1>3. ~LooseIn(m, a)
  BY <1>1 DEF LooseIn
<1>4. SchemeInv(Attached(m, a, q))
  BY <1>1, <1>2, <1>3, AttachInv
<1> QED
  BY <1>1, <1>4

\* Detaching changes the heap to H.
LEMMA DetachInv ==
  ASSUME SchemeInv(m), NEW H, NEW D, H \in [Objects -> Object \cup {None}],
         \A x \in Objects : H[x] = None <=> m.heap[x] = None,
         \A x \in Objects : m.heap[x] # None =>
           /\ H[x].page = m.heap[x].page
           /\ H[x].parent = m.heap[x].parent
           /\ H[x].weak = m.heap[x].weak
           /\ H[x].owner = IF x \in D THEN None ELSE m.heap[x].owner
           /\ H[x].attribs = m.heap[x].attribs \ D
  PROVE  SchemeInv([m EXCEPT !.heap = H])
<1> DEFINE v == [m EXCEPT !.heap = H]
<1>0. /\ HandlesInv(m) /\ PlacesInv(m) /\ CollectorInv(m) /\ m \in World
  BY DEF SchemeInv, HandlesInv
<1>1. /\ v \in World /\ v.heap = H /\ v.smob = m.smob /\ v.cache = m.cache
      /\ v.twice = m.twice /\ v.stray = m.stray
  BY <1>0 DEF World
<1> HIDE DEF v
<1>2. Unmoved(v, m)
  BY <1>1 DEF Unmoved
<1>3. SameHandles(v, m)
  BY <1>1 DEF SameHandles
<1>4. Detaches(v, m, D)
  BY <1>1 DEF Detaches
<1>5. PlacesInv(v)
  BY <1>0, <1>1, <1>2, <1>4, DetachedPlacesInv
<1>6. HandlesInv(v)
  BY <1>0, <1>1, <1>3, SameHandlesInv
<1>7. CollectorInv(v)
  BY <1>0, <1>2, <1>3, UnmovedCollectorInv
<1> QED
  BY <1>5, <1>6, <1>7 DEF SchemeInv, v

\* The user detaches the attributes of an object.
LEMMA EditorDetachKeepsInv ==
  ASSUME SchemeInv(m), NEW p \in Pages, NEW q, EditorDetach(p, q)
  PROVE  SchemeInv(m')
<1> DEFINE D == m.heap[q].attribs
           h(o) == IF o = q
                   THEN [m.heap[o] EXCEPT !.attribs = {},
                                          !.owner = IF q \in D THEN None ELSE @]
                   ELSE IF o \in D THEN [m.heap[o] EXCEPT !.owner = None]
                   ELSE m.heap[o]
           H == [o \in Objects |-> h(o)]
<1>0. m \in World /\ Mutual(m)
  BY DEF SchemeInv, PlacesInv
<1>1. q \in Objects /\ m.heap[q] # None /\ m' = [m EXCEPT !.heap = H]
  BY DEF EditorDetach, OnPage, Live
<1>2. D \subseteq Objects /\ \A b \in D : m.heap[b] # None /\ m.heap[b].owner = q
  BY <1>0, <1>1, ObjectFields DEF Mutual
<1> HIDE DEF D
<1>3. ASSUME NEW x \in Objects, m.heap[x] # None
      PROVE  /\ h(x) \in Object
             /\ h(x).page = m.heap[x].page
             /\ h(x).parent = m.heap[x].parent
             /\ h(x).weak = m.heap[x].weak
             /\ h(x).owner = IF x \in D THEN None ELSE m.heap[x].owner
             /\ h(x).attribs = m.heap[x].attribs \ D
  <2>1. m.heap[x] \in Object
    BY <1>0, <1>3, ObjectFields
  <2>2. CASE x = q
    <3> DEFINE W == IF q \in D THEN None ELSE m.heap[x].owner
    <3>1. h(x) = [m.heap[x] EXCEPT !.attribs = {}, !.owner = W]
      BY <2>2
    <3>2. W \in Objects \cup {None}
      BY <2>1 DEF Object
    <3>3. m.heap[x].attribs \ D = {}
      BY <2>2 DEF D
    <3> HIDE DEF W, h
    <3>4. h(x) \in Object
      BY <2>1, <3>1, <3>2 DEF Object
    <3>5. /\ h(x).page = m.heap[x].page /\ h(x).parent = m.heap[x].parent
          /\ h(x).weak = m.heap[x].weak /\ h(x).owner = W /\ h(x).attribs = {}
      BY <2>1, <3>1 DEF Object
    <3> QED
      BY <2>2, <3>3, <3>4, <3>5 DEF W
  <2>3. CASE x # q
    <3>1. m.heap[x].attribs \ D = m.heap[x].attribs
      BY <1>0, <1>2, <1>3, <2>3 DEF Mutual
    <3>2. CASE x \in D
      <4>1. h(x) = [m.heap[x] EXCEPT !.owner = None]
        BY <2>3, <3>2
      <4> HIDE DEF h
      <4>2. h(x) \in Object
        BY <2>1, <4>1 DEF Object
      <4> QED
        BY <2>1, <3>1, <3>2, <4>1, <4>2 DEF Object
    <3>3. CASE x \notin D
      BY <2>1, <2>3, <3>1, <3>3
    <3> QED
      BY <3>2, <3>3
  <2> QED
    BY <2>2, <2>3
<1>4. \A x \in Objects : m.heap[x] = None => h(x) = None
  BY <1>1, <1>2
<1> HIDE DEF h
<1>5. /\ H \in [Objects -> Object \cup {None}]
      /\ \A x \in Objects : H[x] = None <=> m.heap[x] = None
      /\ \A x \in Objects : m.heap[x] # None =>
           /\ H[x].page = m.heap[x].page
           /\ H[x].parent = m.heap[x].parent
           /\ H[x].weak = m.heap[x].weak
           /\ H[x].owner = IF x \in D THEN None ELSE m.heap[x].owner
           /\ H[x].attribs = m.heap[x].attribs \ D
  <2>1. \A x \in Objects : H[x] = h(x)
    OBVIOUS
  <2>2. H \in [Objects -> Object \cup {None}]
    BY <1>3, <1>4
  <2> HIDE DEF H
  <2> QED
    BY <1>3, <1>4, <2>1, <2>2, NoneIsNothing
<1> HIDE DEF H
<1>6. SchemeInv([m EXCEPT !.heap = H])
  BY <1>5, DetachInv
<1> QED
  BY <1>1, <1>6

\* detach-attribs!
LEMMA DetachAttribKeepsInv ==
  ASSUME SchemeInv(m), NEW t \in Named, NEW c \in Named, DetachAttrib(t, c)
  PROVE  SchemeInv(m')
<1> DEFINE a == m.smob[t].data
           q == m.smob[c].data
           H == [m.heap EXCEPT ![a].owner = None, ![q].attribs = @ \ {a}]
           G == [m.heap EXCEPT ![a].owner = None]
<1>0. m \in World /\ Mutual(m) /\ m.heap \in [Objects -> Object \cup {None}]
  BY DEF SchemeInv, PlacesInv, World
<1>1. a \in Objects /\ q \in Objects /\ m.heap[a] # None /\ m.heap[q] # None
  BY NamedIs DEF SchemeInv
<1>2. m.heap[a].owner = q /\ m' = [m EXCEPT !.heap = H]
  BY DEF DetachAttrib
<1>3. m.heap[a] \in Object /\ m.heap[q] \in Object
  BY <1>0, <1>1, ObjectFields
<1> HIDE DEF a, q
<1>4. [m.heap[a] EXCEPT !.owner = None] \in Object
  BY <1>3 DEF Object
<1>5. /\ G \in [Objects -> Object \cup {None}]
      /\ G[a] = [m.heap[a] EXCEPT !.owner = None]
      /\ \A x \in Objects \ {a} : G[x] = m.heap[x]
  BY <1>0, <1>1, <1>4
<1>6. H = [G EXCEPT ![q].attribs = @ \ {a}] /\ G[q] \in Object
  BY <1>0, <1>1, <1>3, <1>4
<1> HIDE DEF G, H
<1>7. [G[q] EXCEPT !.attribs = @ \ {a}] \in Object
  BY <1>6 DEF Object
<1>8. /\ H \in [Objects -> Object \cup {None}]
      /\ H[q] = [G[q] EXCEPT !.attribs = @ \ {a}]
      /\ \A x \in Objects \ {q} : H[x] = G[x]
  BY <1>1, <1>5, <1>6, <1>7
<1>9. /\ G[a] # None
      /\ G[a].page = m.heap[a].page /\ G[a].parent = m.heap[a].parent
      /\ G[a].weak = m.heap[a].weak /\ G[a].attribs = m.heap[a].attribs
      /\ G[a].owner = None
  BY <1>3, <1>4, <1>5, NoneIsNothing DEF Object
<1>10. /\ H[q] # None
       /\ H[q].page = G[q].page /\ H[q].parent = G[q].parent
       /\ H[q].weak = G[q].weak /\ H[q].owner = G[q].owner
       /\ H[q].attribs = G[q].attribs \ {a}
  BY <1>6, <1>7, <1>8, NoneIsNothing DEF Object
<1>11. ASSUME NEW x \in Objects, m.heap[x] # None, x # q
       PROVE  m.heap[x].attribs \ {a} = m.heap[x].attribs
  BY <1>0, <1>2, <1>11 DEF Mutual
<1>12. ASSUME NEW x \in Objects
       PROVE  /\ H[x] = None <=> m.heap[x] = None
              /\ m.heap[x] # None =>
                   /\ H[x].page = m.heap[x].page
                   /\ H[x].parent = m.heap[x].parent
                   /\ H[x].weak = m.heap[x].weak
                   /\ H[x].owner = IF x \in {a} THEN None ELSE m.heap[x].owner
                   /\ H[x].attribs = m.heap[x].attribs \ {a}
  <2>1. CASE x \notin {a, q}
    <3>1. H[x] = m.heap[x]
      BY <1>5, <1>8, <2>1
    <3> QED
      BY <1>11, <2>1, <3>1
  <2>2. CASE x = a /\ a # q
    <3>1. H[x] = G[a]
      BY <1>8, <2>2
    <3> QED
      BY <1>1, <1>9, <1>11, <2>2, <3>1
  <2>3. CASE x = q /\ a # q
    <3>1. G[q] = m.heap[q]
      BY <1>1, <1>5, <2>3
    <3> QED
      BY <1>1, <1>10, <2>3, <3>1
  <2>4. CASE x = a /\ a = q
    BY <1>1, <1>9, <1>10, <2>4
  <2> QED
    BY <2>1, <2>2, <2>3, <2>4
<1>13. SchemeInv([m EXCEPT !.heap = H])
  BY <1>8, <1>12, DetachInv
<1> QED
  BY <1>2, <1>13

\* The copies of S, and nothing else that is new, are loose exactly if they are on no page.
LooseCopies(v, f, S, P) ==
  /\ \A x \in Objects : m.heap[x] # None =>
       v.heap[x] # None /\ (LooseIn(v, x) <=> LooseIn(m, x))
  /\ \A x \in Objects : m.heap[x] = None /\ v.heap[x] # None =>
       (LooseIn(v, x) <=> P = None /\ \E o \in S : x = f[o])
  /\ \A o \in S : f[o] \in Objects /\ m.heap[f[o]] = None /\ v.heap[f[o]] # None

\* The copies f[o] are placed in v: the handles are as they were, the copies of S are
\* on P, and the others are in the copies of their components.
LEMMA PlacedCopies ==
  ASSUME SchemeInv(m), NEW S \in SUBSET Live, NEW f, NEW L, NEW late,
         IsCopying(f, S, L, late), NEW v \in World, NEW P,
         PlacedTogether(S, L, P), Placing(v, f, S, L, late, P),
         SameHandles(v, Copies(f, L, late))
  PROVE  /\ HandlesInv(v) /\ PlacesInv(v)
         /\ v.smob = m.smob /\ v.cache = m.cache /\ v.twice = m.twice
         /\ LooseCopies(v, f, S, P)
<1> DEFINE u == Copies(f, L, late)
<1>0. /\ HandlesInv(m) /\ PlacesInv(m) /\ m \in World
  BY DEF SchemeInv, HandlesInv
<1>1. /\ u \in World /\ SameHandles(u, m) /\ CopiesFit(u, f, L, late)
      /\ u.smob = m.smob /\ u.cache = m.cache /\ u.twice = m.twice
  BY <1>0, CopiesAre
<1>2. HandlesInv(u)
  BY <1>0, <1>1, SameHandlesInv
<1>3. HandlesInv(v)
  BY <1>2, SameHandlesInv
<1>4. PlacesInv(v)
  BY <1>0, CopiedPlacesInv
<1>5. /\ DOMAIN f \subseteq Objects
      /\ S \subseteq DOMAIN f
      /\ \A o \in DOMAIN f : /\ m.heap[o] # None /\ f[o] \in Objects /\ m.heap[f[o]] = None
                             /\ \A x \in DOMAIN f : f[x] = f[o] => x = o
  BY <1>0, CopyingIs
<1>6. \A o \in DOMAIN f : o \in S <=> m.heap[o].parent \notin DOMAIN f
  BY <1>0, CopiedRoots
<1>7. /\ \A x \in Objects : v.heap[x] = None <=> u.heap[x] = None
      /\ \A x \in Objects : u.heap[x] # None =>
           /\ v.heap[x].parent = u.heap[x].parent
           /\ v.heap[x].page = IF \E o \in S : f[o] = x THEN P ELSE u.heap[x].page
      /\ v.smob = u.smob /\ v.cache = u.cache /\ v.twice = u.twice
  BY DEF Placing, SameHandles
<1> HIDE DEF u
<1>8. /\ \A x \in Objects : m.heap[x] # None =>
           u.heap[x] # None /\ u.heap[x].page = m.heap[x].page
           /\ u.heap[x].parent = m.heap[x].parent
      /\ \A o \in DOMAIN f :
           /\ u.heap[f[o]] # None
           /\ u.heap[f[o]].page = None
           /\ u.heap[f[o]].parent = IF m.heap[o].parent \in DOMAIN f
                                    THEN f[m.heap[o].parent] ELSE None
      /\ \A x \in Objects : u.heap[x] # None => m.heap[x] # None \/ \E o \in DOMAIN f : x = f[o]
  BY <1>1 DEF CopiesFit
<1>9. ASSUME NEW x \in Objects, m.heap[x] # None
      PROVE  v.heap[x] # None /\ (LooseIn(v, x) <=> LooseIn(m, x))
  <2>1. ~\E o \in S : f[o] = x
    BY <1>5, <1>9
  <2> QED
    BY <1>7, <1>8, <1>9, <2>1 DEF LooseIn
<1>10. ASSUME NEW x \in Objects, m.heap[x] = None, v.heap[x] # None
       PROVE  LooseIn(v, x) <=> P = None /\ \E o \in S : x = f[o]
  <2>1. PICK a \in DOMAIN f : x = f[a]
    BY <1>7, <1>8, <1>10
  <2>2. (\E o \in S : f[o] = x) <=> a \in S
    BY <1>5, <2>1
  <2>3. /\ v.heap[x].page = IF a \in S THEN P ELSE None
        /\ v.heap[x].parent = IF a \in S THEN None ELSE f[m.heap[a].parent]
        /\ a \notin S => m.heap[a].parent \in DOMAIN f
    BY <1>6, <1>7, <1>8, <1>10, <2>1, <2>2
  <2>4. a \notin S => v.heap[x].parent # None
    BY <1>5, <2>3, NoneIsNothing
  <2> QED
    BY <2>2, <2>3, <2>4 DEF LooseIn
<1>11. \A o \in S : f[o] \in Objects /\ m.heap[f[o]] = None /\ v.heap[f[o]] # None
  BY <1>5, <1>7, <1>8
<1> QED
  BY <1>1, <1>3, <1>4, <1>7, <1>9, <1>10, <1>11 DEF LooseCopies

\* The user copies objects; the copies have no handles.
LEMMA EditorCopyKeepsInv ==
  ASSUME SchemeInv(m), NEW p \in Pages, NEW S \in SUBSET OnPage(p), NEW f, NEW late,
         EditorCopy(p, S, f, late)
  PROVE  SchemeInv(m')
<1> DEFINE L == DOMAIN f
           u == Copies(f, L, late)
           h(x) == IF \E o \in S : f[o] = x THEN [u.heap[x] EXCEPT !.page = p] ELSE u.heap[x]
           H == [x \in Objects |-> h(x)]
           v == [u EXCEPT !.heap = H]
<1>0. /\ HandlesInv(m) /\ PlacesInv(m) /\ CollectorInv(m) /\ m \in World
      /\ S \in SUBSET Live /\ \A o \in S : m.heap[o].page = p
      /\ p # None
  BY NoneIsNothing DEF SchemeInv, HandlesInv, OnPage
<1>1. IsCopying(f, S, L, late) /\ m' = v
  BY DEF EditorCopy
<1> HIDE DEF L
<1>2. u \in World /\ CopiesFit(u, f, L, late)
  BY <1>0, <1>1, CopiesAre
<1> HIDE DEF u
<1>3. /\ S \subseteq DOMAIN f
      /\ \A o \in DOMAIN f : f[o] \in Objects
  BY <1>0, <1>1, CopyingIs
<1>4. \A o \in S : u.heap[f[o]] # None
  BY <1>2, <1>3 DEF CopiesFit
<1>5. ASSUME NEW x \in Objects
      PROVE  /\ h(x) \in Object \cup {None}
             /\ h(x) = None <=> u.heap[x] = None
             /\ u.heap[x] # None =>
                  /\ h(x).parent = u.heap[x].parent
                  /\ h(x).owner = u.heap[x].owner
                  /\ h(x).attribs = u.heap[x].attribs
                  /\ h(x).weak = u.heap[x].weak
                  /\ h(x).page = IF \E o \in S : f[o] = x THEN p ELSE u.heap[x].page
  <2>1. u.heap[x] \in Object \cup {None}
    BY <1>2 DEF World
  <2>2. CASE \E o \in S : f[o] = x
    <3>1. u.heap[x] # None /\ u.heap[x] \in Object
      BY <1>4, <2>1, <2>2
    <3>2. h(x) = [u.heap[x] EXCEPT !.page = p]
      BY <2>2
    <3> HIDE DEF h
    <3>3. h(x) \in Object
      BY <3>1, <3>2 DEF Object
    <3>4. h(x) # None
      BY <3>3, NoneIsNothing
    <3>5. /\ h(x).parent = u.heap[x].parent
          /\ h(x).owner = u.heap[x].owner
          /\ h(x).attribs = u.heap[x].attribs
          /\ h(x).weak = u.heap[x].weak
          /\ h(x).page = p
      BY <3>1, <3>2 DEF Object
    <3> QED
      BY <2>2, <3>1, <3>3, <3>4, <3>5
  <2>3. CASE ~\E o \in S : f[o] = x
    <3>1. h(x) = u.heap[x]
      BY <2>3
    <3> HIDE DEF h
    <3> QED
      BY <2>1, <2>3, <3>1
  <2> QED
    BY <2>2, <2>3
<1>6. H \in [Objects -> Object \cup {None}] /\ \A x \in Objects : H[x] = h(x)
  <2> HIDE DEF h
  <2> QED
    BY <1>5
<1> HIDE DEF h, H
<1>7. /\ v \in World /\ v.heap = H /\ v.smob = u.smob /\ v.cache = u.cache
      /\ v.twice = u.twice /\ v.stray = u.stray
  BY <1>2, <1>6 DEF World
<1> HIDE DEF v
<1>8. \A x \in Objects : v.heap[x] = h(x)
  BY <1>6, <1>7
<1>9. SameHandles(v, u)
  BY <1>5, <1>7, <1>8 DEF SameHandles
<1>10. Placing(v, f, S, L, late, p)
  BY <1>5, <1>7, <1>8 DEF Placing, u
<1>11. PlacedTogether(S, L, p)
  BY <1>0 DEF PlacedTogether
<1>12. SameHandles(v, Copies(f, L, late))
  BY <1>9 DEF u
<1>13. /\ HandlesInv(v) /\ PlacesInv(v)
       /\ v.smob = m.smob /\ v.twice = m.twice
       /\ \A x \in Objects : m.heap[x] # None =>
            v.heap[x] # None /\ (LooseIn(v, x) <=> LooseIn(m, x))
       /\ \A x \in Objects : m.heap[x] = None /\ v.heap[x] # None =>
            (LooseIn(v, x) <=> p = None /\ \E o \in S : x = f[o])
  <2>1. LooseCopies(v, f, S, p) /\ HandlesInv(v) /\ PlacesInv(v)
        /\ v.smob = m.smob /\ v.twice = m.twice
    BY <1>0, <1>1, <1>7, <1>10, <1>11, <1>12, PlacedCopies
  <2> QED
    BY <2>1 DEF LooseCopies
<1>14. \A x : OwnedIn(v, x) <=> OwnedIn(m, x)
  BY <1>13 DEF OwnedIn
<1>15. CollectorInv(v)
  <2> SUFFICES ASSUME NEW x \in Objects, v.heap[x] # None
               PROVE  /\ LooseIn(v, x) => OwnedIn(v, x)
                      /\ OwnedIn(v, x) => LooseIn(v, x) \/ x \in v.twice
    BY DEF CollectorInv
  <2>1. CASE m.heap[x] # None
    BY <1>0, <1>13, <1>14, <2>1 DEF CollectorInv
  <2>2. CASE m.heap[x] = None
    <3>1. ~OwnedIn(m, x)
      BY <1>0, <2>2, NotThere
    <3> QED
      BY <1>0, <1>13, <1>14, <2>2, <3>1
  <2> QED
    BY <2>1, <2>2
<1> QED
  BY <1>1, <1>13, <1>15 DEF SchemeInv

\* copy-object: the copy is loose and belongs to its new handle.
LEMMA CopyObjectKeepsInv ==
  ASSUME SchemeInv(m), NEW t \in Named, NEW f, NEW late, NEW s \in Smobs,
         CopyObject(t, f, late, s)
  PROVE  SchemeInv(m')
<1> DEFINE o == m.smob[t].data
           L == Contents(o)
           u == Copies(f, L, late)
           w == [u EXCEPT !.heap[o].copied = f[o]]
           c == f[o]
           v == Owned(w, c, s)
<1>0. /\ HandlesInv(m) /\ PlacesInv(m) /\ CollectorInv(m) /\ m \in World
      /\ o \in Objects /\ m.heap[o] # None /\ o \in Live
  BY NamedIs DEF SchemeInv, HandlesInv
<1>1. /\ IsCopying(f, {o}, L, late) /\ m' = v /\ m.smob[s] = None
  BY DEF CopyObject, Unused
<1> HIDE DEF o
<1>2. {o} \in SUBSET Live
  BY <1>0
<1>3. PlacedTogether({o}, L, None)
  BY DEF PlacedTogether
<1> HIDE DEF L
<1>4. u \in World /\ SameHandles(u, m) /\ CopiesFit(u, f, L, late)
  BY <1>0, <1>1, <1>2, CopiesAre
<1>5. /\ o \in DOMAIN f
      /\ \A x \in DOMAIN f : f[x] \in Objects /\ m.heap[f[x]] = None
  BY <1>0, <1>1, <1>2, CopyingIs
<1>6. /\ c \in Objects /\ m.heap[c] = None /\ u.heap[c].page = None
      /\ u.heap[o] # None
  BY <1>0, <1>4, <1>5 DEF CopiesFit
<1> HIDE DEF u
<1> DEFINE b == [u.heap[o] EXCEPT !.copied = c]
           H == [u.heap EXCEPT ![o] = b]
<1>7. u.heap[o] \in Object /\ u.heap \in [Objects -> Object \cup {None}]
  BY <1>0, <1>4, <1>6, ObjectFields DEF World
<1>8. b \in Object
  BY <1>6, <1>7 DEF Object
<1>9. /\ b # None
      /\ b.page = u.heap[o].page /\ b.parent = u.heap[o].parent
      /\ b.owner = u.heap[o].owner /\ b.attribs = u.heap[o].attribs
      /\ b.weak = u.heap[o].weak
  BY <1>7, <1>8, NoneIsNothing DEF Object
<1>10. w = [u EXCEPT !.heap = H]
  OBVIOUS
<1> HIDE DEF b
<1>11. /\ H \in [Objects -> Object \cup {None}]
       /\ \A x \in Objects : x # o => H[x] = u.heap[x]
       /\ H[o] = b
  BY <1>0, <1>7, <1>8
<1> HIDE DEF H, w, c
<1>12. /\ w \in World /\ w.heap = H /\ w.smob = u.smob /\ w.cache = u.cache
       /\ w.twice = u.twice /\ w.stray = u.stray
  BY <1>4, <1>10, <1>11 DEF World
<1>13. \A x \in Objects :
         /\ w.heap[x] = None <=> u.heap[x] = None
         /\ u.heap[x] # None =>
              /\ w.heap[x].page = u.heap[x].page /\ w.heap[x].parent = u.heap[x].parent
              /\ w.heap[x].owner = u.heap[x].owner /\ w.heap[x].attribs = u.heap[x].attribs
              /\ w.heap[x].weak = u.heap[x].weak
  BY <1>6, <1>9, <1>11, <1>12
<1>14. SameHandles(w, u)
  BY <1>12, <1>13 DEF SameHandles
<1>15. Placing(w, f, {o}, L, late, None)
  <2>1. \A x \in Objects : u.heap[x] # None =>
          w.heap[x].page = IF \E y \in {o} : f[y] = x THEN None ELSE u.heap[x].page
    BY <1>6, <1>13 DEF c
  <2> QED
    BY <1>12, <1>13, <2>1 DEF Placing, u
<1>16. SameHandles(w, Copies(f, L, late))
  BY <1>14 DEF u
<1>17. /\ HandlesInv(w) /\ PlacesInv(w)
       /\ w.smob = m.smob /\ w.cache = m.cache /\ w.twice = m.twice
       /\ \A x \in Objects : m.heap[x] # None =>
            w.heap[x] # None /\ (LooseIn(w, x) <=> LooseIn(m, x))
       /\ \A x \in Objects : m.heap[x] = None /\ w.heap[x] # None =>
            (LooseIn(w, x) <=> None = None /\ \E y \in {o} : x = f[y])
       /\ \A y \in {o} : f[y] \in Objects /\ m.heap[f[y]] = None /\ w.heap[f[y]] # None
  <2>1. LooseCopies(w, f, {o}, None) /\ HandlesInv(w) /\ PlacesInv(w)
        /\ w.smob = m.smob /\ w.cache = m.cache /\ w.twice = m.twice
    BY <1>1, <1>2, <1>3, <1>12, <1>15, <1>16, PlacedCopies
  <2> QED
    BY <2>1 DEF LooseCopies
<1>18. \A x \in Objects : m.heap[x] = None /\ w.heap[x] # None => (LooseIn(w, x) <=> x = c)
  BY <1>17 DEF c
<1>19. /\ w.heap[c] # None /\ w.smob[s] = None /\ w.cache[c] = None
       /\ HandlesOf(c) = HandlesIn(w, c)
  <2>1. w.heap[c] # None
    BY <1>17 DEF c
  <2>2. m.cache[c] = None
    BY <1>0, <1>6, NotThere
  <2> QED
    BY <1>1, <1>17, <2>1, <2>2 DEF HandlesOf, HandlesIn
<1>20. /\ HandlesInv(v)
       /\ SamePlaces(v, w)
       /\ w.twice \subseteq v.twice
       /\ \A x : OwnedIn(v, x) <=> x = c \/ OwnedIn(w, x)
  BY <1>6, <1>17, <1>19, OwnedHandles
<1> HIDE DEF v
<1>21. PlacesInv(v)
  BY <1>17, <1>20, SamePlacesInv DEF HandlesInv
<1>22. \A x : OwnedIn(w, x) <=> OwnedIn(m, x)
  BY <1>17 DEF OwnedIn
<1>23. CollectorInv(v)
  <2> SUFFICES ASSUME NEW x \in Objects, v.heap[x] # None
               PROVE  /\ LooseIn(v, x) => OwnedIn(v, x)
                      /\ OwnedIn(v, x) => LooseIn(v, x) \/ x \in v.twice
    BY DEF CollectorInv
  <2>1. w.heap[x] # None /\ (LooseIn(v, x) <=> LooseIn(w, x))
    BY <1>20 DEF SamePlaces, LooseIn
  <2>2. CASE m.heap[x] # None
    BY <1>0, <1>6, <1>17, <1>20, <1>22, <2>1, <2>2 DEF CollectorInv
  <2>3. CASE m.heap[x] = None
    <3>1. ~OwnedIn(m, x)
      BY <1>0, <2>3, NotThere
    <3> QED
      BY <1>18, <1>20, <1>22, <2>1, <2>3, <3>1
  <2> QED
    BY <2>2, <2>3
<1> QED
  BY <1>1, <1>20, <1>21, <1>23 DEF SchemeInv

\* Nothing is there at the start.
LEMMA InitSchemeInv == Init => SchemeInv(m)
<1> SUFFICES ASSUME Init
             PROVE  SchemeInv(m)
  OBVIOUS
<1>1. /\ m \in World
      /\ \A o \in Objects : m.heap[o] = None /\ m.cache[o] = None
      /\ \A s \in Smobs : m.smob[s] = None
  BY DEF Init, World
<1>2. HandlesInv(m)
  BY <1>1 DEF HandlesInv, Registered, NotDangling, CacheOwned, OneHandle
<1>3. PlacesInv(m)
  BY <1>1 DEF PlacesInv, Placed, Mutual, Together, LooseAlone
<1>4. CollectorInv(m)
  BY <1>1 DEF CollectorInv
<1> QED
  BY <1>2, <1>3, <1>4 DEF SchemeInv

\* Every step of a script, the user and the collector preserves the invariant.
LEMMA NextKeepsSchemeInv == SchemeInv(m) /\ [Next]_m => SchemeInv(m')
<1> SUFFICES ASSUME SchemeInv(m), [Next]_m
             PROVE  SchemeInv(m')
  OBVIOUS
<1>1. ASSUME NEW s \in Smobs, Drop(s) \/ Collect(s)
      PROVE  SchemeInv(m')
  BY <1>1, DropKeepsInv, CollectKeepsInv
<1>2. ASSUME NEW o \in Live, NEW s \in Smobs, Ask(o, s)
      PROVE  SchemeInv(m')
  BY <1>2, AskKeepsInv
<1>3. ASSUME NEW o \in Objects, NEW K \in SUBSET Texts, NEW s \in Smobs, Make(o, K, s)
      PROVE  SchemeInv(m')
  BY <1>3, MakeKeepsInv
<1>4. ASSUME NEW o \in Objects, NEW K \in SUBSET Texts, NEW p \in Pages, EditorAdd(p, o, K)
      PROVE  SchemeInv(m')
  BY <1>4, AddKeepsInv
<1>5. ASSUME NEW t \in Named, NEW s \in Smobs, NEW late \in SUBSET Texts,
             NEW f \in Copying({m.smob[t].data}), CopyObject(t, f, late, s)
      PROVE  SchemeInv(m')
  BY <1>5, CopyObjectKeepsInv
<1>6. ASSUME NEW t \in Named, NEW p \in Pages, PageAppend(t, p) \/ PageRemove(t, p)
      PROVE  SchemeInv(m')
  BY <1>6, PageAppendKeepsInv, PageRemoveKeepsInv
<1>7. ASSUME NEW t \in Named, NEW c \in Named,
             ComplexAppend(t, c) \/ ComplexRemove(t, c) \/ AttachAttrib(t, c) \/ DetachAttrib(t, c)
      PROVE  SchemeInv(m')
  BY <1>7, ComplexAppendKeepsInv, ComplexRemoveKeepsInv, AttachAttribKeepsInv,
     DetachAttribKeepsInv
<1>8. ASSUME NEW p \in Pages, ClosePage(p)
      PROVE  SchemeInv(m')
  <2>1. OnPage(p) \in SUBSET Live
    BY DEF OnPage
  <2> QED
    BY <1>8, <2>1, DeleteKeepsInv DEF ClosePage
<1>9. ASSUME NEW p \in Pages, NEW o \in OnPage(p), EditorDelete(p, o) \/ EditorDetach(p, o)
      PROVE  SchemeInv(m')
  <2>1. {o} \in SUBSET Live
    BY DEF OnPage
  <2>2. CASE EditorDelete(p, o)
    BY <2>1, <2>2, DeleteKeepsInv DEF EditorDelete
  <2>3. CASE EditorDetach(p, o)
    BY <2>3, EditorDetachKeepsInv
  <2> QED
    BY <1>9, <2>2, <2>3
<1>10. ASSUME NEW p \in Pages, NEW a \in OnPage(p), NEW q \in OnPage(p), EditorAttach(p, a, q)
       PROVE  SchemeInv(m')
  BY <1>10, EditorAttachKeepsInv
<1>11. ASSUME NEW p \in Pages, NEW S \in SUBSET OnPage(p), NEW late \in SUBSET Texts,
              NEW f \in Copying(S), EditorCopy(p, S, f, late)
       PROVE  SchemeInv(m')
  BY <1>11, EditorCopyKeepsInv
<1>12. CASE UNCHANGED m
  BY <1>12
<1> QED
  BY <1>1, <1>2, <1>3, <1>4, <1>5, <1>6, <1>7, <1>8, <1>9, <1>10, <1>11, <1>12 DEF Next

\* The inductive invariant holds of every behaviour.
LEMMA SchemeInvHolds == Spec => []SchemeInv(m)
<1>1. Init => SchemeInv(m)
  BY InitSchemeInv
<1>2. SchemeInv(m) /\ [Next]_m => SchemeInv(m)'
  BY NextKeepsSchemeInv
<1> QED
  BY <1>1, <1>2, PTL DEF Spec

\* Smobs, the objects they refer to and smob_cache agree, whatever scripts and the
\* user do and whenever the collector runs.
THEOREM HandlesStayValid == Spec => []HandlesAreValid
<1>1. SchemeInv(m) => HandlesAreValid
  BY HandlesInvSuffices DEF SchemeInv
<1> QED
  BY <1>1, SchemeInvHolds, PTL

\* No loose object is leaked, and the collector deletes no object that is on a page or
\* in a component, except through the second handle that object-component makes.
THEOREM CollectorIsRight == Spec => []CollectorOwnsLooseObjects
<1>1. SchemeInv(m) => CollectorOwnsLooseObjects
  BY CollectorInvSuffices DEF SchemeInv
<1> QED
  BY <1>1, SchemeInvHolds, PTL

\* Attributes and their objects know of each other and stay together.
THEOREM AttributesStayAttached == Spec => []AttachmentsStayTogether
<1>1. SchemeInv(m) => AttachmentsStayTogether
  BY PlacesInvSuffices DEF SchemeInv
<1> QED
  BY <1>1, SchemeInvHolds, PTL
=============================================================================
