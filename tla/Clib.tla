-------------------------------- MODULE Clib --------------------------------
(***************************************************************************)
(* The component library of liblepton (s_clib.c) and those who use it: the *)
(* rc files that add sources, the component selector (x_compselect.c),     *)
(* loading and updating components, and reverting a page.                  *)
(*                                                                         *)
(* A symbol is a piece of memory that belongs to the source that listed    *)
(* it; listing a source again frees its symbols.  Pointers to symbols are  *)
(* kept by two caches (the results of searches, and the data of a symbol   *)
(* under its pointer) and in the rows of the component selector.           *)
(***************************************************************************)
EXTENDS Integers, Sequences, FiniteSets, Functions

CONSTANTS
  Sources,     \* the directories, commands and procedures that list symbols
  Symbols,     \* the memory of a symbol, used again after it is freed
  Names,       \* the names of symbols
  Initially,   \* what the sources hold when the program starts
  NoSymbol,    \* NULL
  MaxCache,    \* CLIB_MAX_SYMBOL_CACHE
  MinCache,    \* CLIB_MIN_SYMBOL_CACHE
  MaxChanges,  \* bound: how often the sources change outside the program
  MaxClock     \* bound: seconds

ASSUME ClibAssumption ==
  /\ NoSymbol \notin Symbols \cup Names
  /\ Initially \in [Sources -> [Names -> 0 .. 2]]
  /\ MaxCache \in Nat /\ MinCache \in Nat /\ MinCache < MaxCache
  /\ MaxChanges \in Nat /\ MaxClock \in Nat

VARIABLES
  sources,   \* clib_sources, in the order they are searched
  symbols,   \* the symbols of each source
  name,      \* the name of each symbol, NoSymbol for free memory
  search,    \* clib_search_cache, for the names searched with a result
  cache,     \* clib_symbol_cache
  rows,      \* the symbols the component selector shows, {} when it is closed
  disk,      \* what each source holds: the version of each name, 0 for none
  broken,    \* the sources that cannot be listed
  now,       \* the time in seconds
  changes,   \* how often the sources have changed
  loaded,    \* the last request for the data of a symbol and its answer
  dangling   \* who kept pointers to symbols that have been freed
clib == <<sources, symbols, name>>
world == <<disk, broken, now, changes>>
vars == <<clib, search, cache, rows, world, loaded, dangling>>

Live == UNION {symbols[s] : s \in Sources}
SourceOf(x) == CHOOSE s \in Sources : x \in symbols[s]

-----------------------------------------------------------------------------
(* Searching. *)

\* What the sources have of a name, in the order they are searched. A procedure may
\* list a name twice, hence sets.
Found(n) == [i \in DOMAIN sources |-> {x \in symbols[sources[i]] : name[x] = n}]

\* Sources without the name are skipped.
NonEmpty(sets) ==
  LET Upto[i \in 0 .. Len(sets)] == IF i = 0 THEN <<>>
                                   ELSE IF sets[i] = {} THEN Upto[i - 1]
                                   ELSE Append(Upto[i - 1], sets[i])
  IN Upto[Len(sets)]
Scan(n) == NonEmpty(Found(n))

\* An empty result is cached as NULL, which means "not cached".
s_clib_search(n) == IF n \in DOMAIN search THEN search[n] ELSE Scan(n)
Searched(ns) ==
  [n \in {m \in ns \cup DOMAIN search : s_clib_search(m) # <<>>} |-> s_clib_search(n)]

\* s_clib_get_symbol_by_name: the first symbol found.
First(n) == IF s_clib_search(n) = <<>> THEN {NoSymbol} ELSE Head(s_clib_search(n))

-----------------------------------------------------------------------------
(* The data of a symbol. *)

Data(x) == LET s == SourceOf(x) IN <<s, name[x], disk[s][name[x]]>>
Missing(x) == disk[SourceOf(x)][name[x]] = 0
Put(c, x, data) ==
  [y \in DOMAIN c \cup {x} |->
     IF y = x THEN [data |-> data, accessed |-> now] ELSE c[y]]

\* A mutant: the newest entries are removed.
CleanedNewest(t) ==
  {[c |-> Restrict(t.c, DOMAIN t.c \ {y}), ptr |-> NoSymbol, at |-> t.at] :
     y \in {y \in DOMAIN t.c : \A z \in DOMAIN t.c : t.c[z].accessed <= t.c[y].accessed}}

\* One round of the loop that cleans the cache.  t.at is the time in the entry
\* `cached' points at and t.ptr its key; an entry that has been removed is
\* freed, and the next round reads its time and, if no entry is older than that, its key
\* from freed memory.  The time read there can be anything; the key (NoSymbol) is taken
\* not to be the address of a symbol that is cached, as nothing is allocated between the
\* rounds and what an allocator leaves in a freed block is no symbol's address.
Cleaned(t) ==
  LET older == {y \in DOMAIN t.c : t.c[y].accessed < t.at}
      oldest == {y \in older : \A z \in older : t.c[y].accessed <= t.c[z].accessed}
      gone == IF older = {} THEN {t.ptr} ELSE oldest
  IN {[c |-> Restrict(t.c, DOMAIN t.c \ {y}), ptr |-> NoSymbol, at |-> at] :
        y \in gone, at \in 0 .. MaxClock + 1}

CleanUp(c, x) ==
  LET rounds == Cardinality(DOMAIN c) - MinCache
      After[i \in 0 .. rounds] ==
        IF i = 0 THEN {[c |-> c, ptr |-> x, at |-> c[x].accessed]}
        ELSE UNION {Cleaned(t) : t \in After[i - 1]}
  IN {t.c : t \in After[rounds]}

\* A mutant: the cache is cleaned one entry too late.
TrimmedLate(c, x) == IF Cardinality(DOMAIN c) <= MaxCache + 1 THEN {c} ELSE CleanUp(c, x)
Trimmed(c, x) == IF Cardinality(DOMAIN c) <= MaxCache THEN {c} ELSE CleanUp(c, x)

Answer(n, data) == [name |-> n, data |-> data]
Nothing == <<>>
Freed == <<"freed">>

\* s_clib_symbol_get_data with the cache as in c; n is the name asked for.
GetData(c, n, x) ==
  IF x \in DOMAIN c
  THEN cache' = Put(c, x, c[x].data) /\ loaded' = Answer(n, c[x].data)
  ELSE IF x \notin Live
  THEN cache' = c /\ loaded' = Answer(n, Freed)
  ELSE IF Missing(x)
  THEN cache' = c /\ loaded' = Answer(n, Nothing)
  ELSE cache' \in Trimmed(Put(c, x, Data(x)), x) /\ loaded' = Answer(n, Data(x))

-----------------------------------------------------------------------------
(* Listing sources. *)

Held(which) ==
  {h \in (which \ broken) \X Names : disk[h[1]][h[2]] # 0}

\* The symbols of the sources in `which' are freed; those of them that can be
\* listed get new ones, in any memory that is free.
Relist(which) ==
  \E new \in Injection(Held(which), Symbols \ UNION {symbols[s] : s \in Sources \ which}) :
    /\ symbols' = [s \in Sources |->
                     IF s \in which THEN {new[h] : h \in {k \in Held(which) : k[1] = s}}
                     ELSE symbols[s]]
    /\ name' = [x \in Symbols |->
                  IF x \in Range(new) THEN (CHOOSE h \in Held(which) : new[h] = x)[2]
                  ELSE IF \E s \in which : x \in symbols[s] THEN NoSymbol ELSE name[x]]

\* Mutants: one of the caches is forgotten, or both.
FlushSearches(which) ==
  search' = (IF which \subseteq broken THEN search ELSE <<>>) /\ cache' = cache
FlushData(which) ==
  cache' = (IF which \subseteq broken THEN cache ELSE <<>>) /\ search' = search
FlushNone(which) == UNCHANGED <<search, cache>>

\* A source that cannot be listed does not flush the caches.
Flush(which) ==
  IF which \subseteq broken THEN UNCHANGED <<search, cache>>
  ELSE search' = <<>> /\ cache' = <<>>

\* Who keeps pointers to symbols that have been freed, when the sources in
\* `which' are listed again and the selector shows shown.
Keepers(which, shown) ==
  LET gone == UNION {symbols[s] : s \in which} IN
  (IF ~(which \subseteq broken) THEN dangling \ {"caches"}
   ELSE IF gone # {} THEN dangling \cup {"caches"} ELSE dangling)
    \cup (IF gone \cap shown # {} THEN {"selector"} ELSE {})

-----------------------------------------------------------------------------
Init ==
  /\ sources = <<>> /\ symbols = [s \in Sources |-> {}]
  /\ name = [x \in Symbols |-> NoSymbol]
  /\ search = <<>> /\ cache = <<>> /\ rows = {}
  /\ disk = Initially
  /\ broken \in SUBSET Sources /\ now = 0 /\ changes = 0
  /\ loaded = Answer(NoSymbol, Nothing) /\ dangling = {}

\* An rc file adds a source; sources added later are searched earlier.
AddSource(s) ==
  /\ s \notin Range(sources)
  /\ Relist({s}) /\ Flush({s})
  /\ sources' = <<s>> \o sources
  /\ dangling' = Keepers({s}, {})
  /\ UNCHANGED <<rows, world, loaded>>

\* reset-component-library: s_clib_init.
Reset ==
  /\ sources # <<>>
  /\ sources' = <<>> /\ symbols' = [s \in Sources |-> {}]
  /\ name' = [x \in Symbols |-> NoSymbol]
  /\ search' = <<>> /\ cache' = <<>>
  /\ dangling' = IF rows = {} THEN {} ELSE {"selector"}
  /\ UNCHANGED <<rows, world, loaded>>

\* s_clib_refresh, by Revert: the selector is not told.
PageRevert ==
  /\ Relist(Range(sources)) /\ Flush(Range(sources))
  /\ dangling' = Keepers(Range(sources), rows)
  /\ UNCHANGED <<sources, rows, world, loaded>>

\* Refresh in the selector, which then shows the new symbols; used: the names
\* of the components in use, which are searched for.
SelectorRefresh ==
  \E used \in SUBSET Names :
    LET all == Range(sources)
        kept == IF all \subseteq broken THEN search ELSE <<>>
        Result(n) == IF n \in DOMAIN kept THEN kept[n] ELSE Scan(n)'
    IN /\ rows # {}
       /\ Relist(all) /\ UNCHANGED <<sources, world, loaded>>
       /\ search' = [n \in {m \in used \cup DOMAIN kept : Result(m) # <<>>} |-> Result(n)]
       /\ cache' = IF all \subseteq broken THEN cache ELSE <<>>
       /\ rows' = Live' \cup UNION {Head(search'[n]) : n \in used \cap DOMAIN search'}
       /\ dangling' = Keepers(all, rows') \ (IF rows' \subseteq Live' THEN {"selector"} ELSE {})

SelectorOpen ==
  \E used \in SUBSET Names :
    /\ rows = {}
    /\ rows' = Live \cup UNION {First(n) \ {NoSymbol} : n \in used}
    /\ search' = Searched(used)
    /\ dangling' = IF rows' \subseteq Live THEN dangling ELSE dangling \cup {"selector"}
    /\ UNCHANGED <<clib, cache, world, loaded>>

SelectorClose ==
  /\ rows # {} /\ rows' = {} /\ dangling' = dangling \ {"selector"}
  /\ UNCHANGED <<clib, search, cache, world, loaded>>

\* A symbol picked in the selector is shown and placed.
SelectorPick ==
  \E x \in rows :
    /\ GetData(cache, name[x], x)
    /\ UNCHANGED <<clib, search, rows, world, dangling>>

\* A component is read from a file or made by a script.
LoadComponent ==
  \E n \in Names, x \in Symbols :
    /\ x \in First(n) /\ GetData(cache, n, x) /\ search' = Searched({n})
    /\ UNCHANGED <<clib, rows, world, dangling>>

\* A mutant: the cached data is used.
UpdateFromCache == LoadComponent

\* Update Component first takes the data of the symbol out of the cache.
UpdateComponent ==
  \E n \in Names, x \in Symbols :
    /\ x \in First(n) /\ GetData(Restrict(cache, DOMAIN cache \ {x}), n, x)
    /\ search' = Searched({n})
    /\ UNCHANGED <<clib, rows, world, dangling>>

\* Outside the program.
SourceChanges ==
  /\ changes < MaxChanges /\ changes' = changes + 1
  /\ \/ \E s \in Sources, n \in Names, v \in 0 .. 2 :
          v # disk[s][n] /\ disk' = [disk EXCEPT ![s][n] = v] /\ broken' = broken
     \/ \E s \in Sources : broken' = broken \cup {s} /\ broken' # broken /\ disk' = disk
     \/ \E s \in broken : broken' = broken \ {s} /\ disk' = disk
  /\ UNCHANGED <<clib, search, cache, rows, now, loaded, dangling>>

Tick ==
  /\ now < MaxClock /\ now' = now + 1
  /\ UNCHANGED <<clib, search, cache, rows, disk, broken, changes, loaded, dangling>>

Next ==
  \/ \E s \in Sources : AddSource(s)
  \/ Reset \/ PageRevert
  \/ SelectorRefresh \/ SelectorOpen \/ SelectorClose \/ SelectorPick
  \/ LoadComponent \/ UpdateComponent
  \/ SourceChanges \/ Tick

Spec == Init /\ [][Next]_vars

-----------------------------------------------------------------------------
(* Properties. *)

\* Every source has its own symbols, and the data cache keeps its limit.
ClibTypeOK ==
  /\ IsInjective(sources) /\ Range(sources) \subseteq Sources
  /\ symbols \in [Sources -> SUBSET Symbols] /\ name \in [Symbols -> Names \cup {NoSymbol}]
  /\ \A s, t \in Sources : s # t => symbols[s] \cap symbols[t] = {}
  /\ \A s \in Sources \ Range(sources) : symbols[s] = {}
  /\ DOMAIN search \subseteq Names /\ rows \subseteq Symbols
  /\ DOMAIN cache \subseteq Symbols /\ Cardinality(DOMAIN cache) <= MaxCache

\* A cached search gives what searching the sources again would give, unless
\* none of the sources that were listed again could be listed (s_clib.c:596
\* returns before it flushes the caches).
SearchesAreCurrent ==
  "caches" \notin dangling => \A n \in DOMAIN search : search[n] = Scan(n)

\* Cached data is under the pointer of the very symbol it was read for, although
\* the memory of symbols is used again.
CachedDataIsItsSymbols ==
  "caches" \notin dangling => \A x \in DOMAIN cache :
    x \in Live /\ cache[x].data[1] = SourceOf(x) /\ cache[x].data[2] = name[x]

\* Whoever asks for a component gets data of that name and never looks at freed
\* memory, unless somebody keeps pointers to freed symbols: the caches as above,
\* or the selector after Revert or reset-component-library.
AnswersAreWhatWasAsked ==
  [][loaded' # loaded /\ dangling = {} =>
       /\ loaded'.data # Freed
       /\ loaded'.data # Nothing => loaded'.data[2] = loaded'.name]_vars

\* o_misc.c:419 "Force symbol data to be reloaded from source": Update Component
\* gets what the source holds now.
UpdateReadsTheSource ==
  [][UpdateComponent /\ dangling = {} =>
       \E x \in Live : loaded'.data = (IF Missing(x) THEN Nothing ELSE Data(x))]_vars

\* Only the oldest entries leave the cache when it is cleaned, although the
\* loop compares with entries it has freed.
EvictsOldest ==
  [][clib' = clib /\ loaded'.data \notin {Nothing, Freed} =>
       \A x \in DOMAIN cache \ DOMAIN cache', y \in DOMAIN cache \cap DOMAIN cache' :
         cache[x].accessed <= cache[y].accessed]_vars
=============================================================================
