---------------------- MODULE ProcessHeapsCache_proofs ----------------------
(***************************************************************************)
(* A loop over the lists that comes to its end shows the exact difference  *)
(* of the dumps, for lists of every length and every order of loops, early *)
(* exits, and base dumps set and cleared.                                  *)
(*                                                                         *)
(* What carries it is what a cache holds: unless a loop over the list was  *)
(* left early, nothing, or the whole difference, or, while it is filled,   *)
(* what the running loop has shown; and what a filter cache holds:         *)
(* nothing, or the whole list of the base dump.                            *)
(*                                                                         *)
(* On it rests the verdict of ValidateHeapEntries: at the time it judges,  *)
(* its maps are the lists of the dump and their difference to the base     *)
(* dump, and in a list without overlaps an address has one entry.          *)
(*                                                                         *)
(* And what the tables show: a table is what a whole loop has shown, the   *)
(* keys of its entries part them into rows, and the sums the rows are      *)
(* sorted by are numbers, for tables of every length and width of a range. *)
(***************************************************************************)
EXTENDS ValidateDump, SequenceTheorems, FiniteSetTheorems, WellFoundedInduction, TLAPS

-------------------------------------------------------------------------------
(* Of no place nothing is picked.                                          *)
LEMMA NothingPicked ==
    ASSUME NEW found
    PROVE  Picks(<<>>, found, {})
  <1>. DEFINE at == [i \in {} |-> 0]
  <1>1. DOMAIN <<>> = {} /\ at \in [DOMAIN <<>> -> {}]
    OBVIOUS
  <1>. QED
    BY <1>1 DEF Picks

(* One more place, behind those picked so far.                             *)
LEMMA PickedOneMore ==
    ASSUME NEW shown \in Seq(AllFound), NEW found, NEW places, NEW n \in Nat,
           \A k \in places : k \in Nat /\ k < n,
           found[n] \in AllFound,
           Picks(shown, found, places)
    PROVE  Picks(Append(shown, found[n]), found, places \union {n})
  <1>1. PICK at \in [DOMAIN shown -> places] :
            /\ \A i, j \in DOMAIN shown : i < j => at[i] < at[j]
            /\ \A i \in DOMAIN shown : shown[i] = found[at[i]]
            /\ \A k \in places : \E i \in DOMAIN shown : at[i] = k
    BY DEF Picks
  <1>. DEFINE more == Append(shown, found[n])
              next == [i \in DOMAIN more |-> IF i = Len(shown) + 1 THEN n ELSE at[i]]
  <1>2. /\ Len(shown) \in Nat /\ DOMAIN shown = 1..Len(shown)
        /\ DOMAIN more = 1..(Len(shown) + 1)
        /\ \A i \in 1..Len(shown) : more[i] = shown[i]
        /\ more[Len(shown) + 1] = found[n]
    OBVIOUS
  <1>. HIDE DEF more
  <1>3. \A i \in DOMAIN more : next[i] = IF i = Len(shown) + 1 THEN n ELSE at[i]
    OBVIOUS
  <1>4. \A i \in DOMAIN more : i = Len(shown) + 1 \/ (i \in DOMAIN shown /\ i # Len(shown) + 1)
    BY <1>2
  <1>5. next \in [DOMAIN more -> places \union {n}]
    BY <1>1, <1>4
  <1>. HIDE DEF next
  <1>6. \A i \in DOMAIN shown : next[i] = at[i] /\ i \in DOMAIN more /\ i < Len(shown) + 1 /\ at[i] \in places
    BY <1>1, <1>2, <1>3
  <1>7. next[Len(shown) + 1] = n /\ Len(shown) + 1 \in DOMAIN more
    BY <1>2, <1>3
  <1>8. ASSUME NEW i \in DOMAIN more, NEW j \in DOMAIN more, i < j
        PROVE  next[i] < next[j]
    <2>1. i \in DOMAIN shown
      BY <1>2, <1>8
    <2>2. CASE j \in DOMAIN shown
      <3>1. at[i] < at[j]
        BY <1>1, <1>8, <2>1, <2>2
      <3>2. next[i] = at[i] /\ next[j] = at[j]
        BY <1>6, <2>1, <2>2
      <3>. QED
        BY <3>1, <3>2
    <2>3. CASE j = Len(shown) + 1
      BY <1>6, <1>7, <2>1, <2>3
    <2>. QED
      BY <1>4, <2>2, <2>3
  <1>9. \A i \in DOMAIN more : more[i] = found[next[i]]
    BY <1>1, <1>2, <1>4, <1>6, <1>7
  <1>10. \A k \in places \union {n} : \E i \in DOMAIN more : next[i] = k
    BY <1>1, <1>6, <1>7
  <1>11. Picks(more, found, places \union {n})
    BY <1>5, <1>8, <1>9, <1>10 DEF Picks
  <1>. QED
    BY <1>11 DEF more

-------------------------------------------------------------------------------
Prefix(s, t, n) == Len(s) = n /\ n <= Len(t) /\ \A i \in 1..n : s[i] = t[i]

(* A prefix as long as the whole is the whole.                             *)
LEMMA PrefixIsWhole ==
    ASSUME NEW s \in Seq(AllFound), NEW t \in Seq(AllFound), Prefix(s, t, Len(t))
    PROVE  s = t
  BY SeqEqual DEF Prefix

LEMMA PrefixOneMore ==
    ASSUME NEW s \in Seq(AllFound), NEW t \in Seq(AllFound), NEW n \in Nat,
           n + 1 <= Len(t), Prefix(s, t, n)
    PROVE  /\ Append(s, t[n + 1]) \in Seq(AllFound)
           /\ Prefix(Append(s, t[n + 1]), t, n + 1)
  <1>1. t[n + 1] \in AllFound
    OBVIOUS
  <1>2. /\ Append(s, t[n + 1]) \in Seq(AllFound) /\ Len(Append(s, t[n + 1])) = Len(s) + 1
        /\ \A i \in 1..Len(s) : Append(s, t[n + 1])[i] = s[i]
        /\ Append(s, t[n + 1])[Len(s) + 1] = t[n + 1]
    BY <1>1
  <1>3. \A i \in 1..(n + 1) : i \in 1..n \/ i = n + 1
    OBVIOUS
  <1>. QED
    BY <1>2, <1>3 DEF Prefix

-------------------------------------------------------------------------------
CacheTypes ==
    /\ content \in Contents
    /\ base \in [Heaps -> {None, BaseDump}] /\ base[BaseDump] = None
    /\ filters \in [Heaps -> [Lists -> Seq(AllFound)]]
    /\ cache \in [Heaps -> [Lists -> Seq(AllFound)]]
    /\ whole \in [Heaps -> [Lists -> BOOLEAN]]
    /\ loop \in Loops \union {None}

Running(h, list) == loop # None /\ loop.heap = h /\ loop.list = list
Filling(h, list) == Running(h, list) /\ ~loop.replay

(* A filter cache has all of the list of the base dump, or nothing yet.    *)
FilterCache(h, list) ==
    /\ base[h] = None => filters[h][list] = <<>>
    /\ base[h] # None /\ whole[h][list] =>
          \/ filters[h][list] = content[BaseDump][list]
          \/ filters[h][list] = <<>> /\ ~Running(h, list)

(* A cache that is not being filled has all that is to be shown, or        *)
(* nothing; the base dump, which has no base, is shown as it is.           *)
FullCache(h, list) ==
    whole[h][list] /\ ~Filling(h, list) /\ cache[h][list] # <<>> =>
       /\ Picks(cache[h][list], content[h][list], Kept(h, list))
       /\ h = BaseDump => cache[h][list] = content[h][list]

(* The loop that fills a cache has shown what is kept of the places it has *)
(* passed.                                                                 *)
FillingLoop ==
    loop # None /\ ~loop.replay =>
       /\ loop.next \in 1..(Len(content[loop.heap][loop.list]) + 1)
       /\ loop.done => loop.next = Len(content[loop.heap][loop.list]) + 1
       /\ whole[loop.heap][loop.list] =>
             /\ cache[loop.heap][loop.list] = loop.shown
             /\ Picks(loop.shown, content[loop.heap][loop.list],
                      {k \in Kept(loop.heap, loop.list) : k < loop.next})
             /\ loop.heap = BaseDump => Prefix(loop.shown, content[loop.heap][loop.list], loop.next - 1)

(* The loop that replays a cache has shown it up to where it stands.       *)
ReplayingLoop ==
    loop # None /\ loop.replay =>
       /\ cache[loop.heap][loop.list] # <<>>
       /\ loop.next \in 1..(Len(cache[loop.heap][loop.list]) + 1)
       /\ Prefix(loop.shown, cache[loop.heap][loop.list], loop.next - 1)
       /\ loop.done => loop.next = Len(cache[loop.heap][loop.list]) + 1

CacheInv ==
    /\ CacheTypes
    /\ \A h \in Heaps, list \in Lists : FilterCache(h, list) /\ FullCache(h, list)
    /\ FillingLoop /\ ReplayingLoop

(* What every heap and every list is.                                      *)
LEMMA HeapsAndLists ==
    /\ Dump \in Heaps /\ BaseDump \in Heaps /\ Dump # BaseDump /\ BaseDump # None
    /\ \A h \in Heaps : h = Dump \/ h = BaseDump
    /\ None \notin Loops
  BY HeapsAssumption DEF Heaps

LEMMA ContentTypes ==
    ASSUME CacheTypes
    PROVE  \A h \in Heaps, list \in Lists :
              /\ content[h][list] \in Seq(AllFound)
              /\ Kept(h, list) \subseteq 1..Len(content[h][list])
  <1>1. \A h \in Heaps, list \in Lists : content[h][list] \in Seq(AllFound)
    BY ContentsAssumption DEF CacheTypes
  <1>. QED
    BY <1>1 DEF Kept

LEMMA InitCacheInv ==
    ASSUME InitCache
    PROVE  CacheInv
  <1>1. <<>> \in Seq(AllFound) /\ Empty \in [Lists -> Seq(AllFound)]
        /\ \A list \in Lists : Empty[list] = <<>>
    BY DEF Empty
  <1>2. CacheTypes
    BY <1>1, HeapsAndLists DEF InitCache, CacheTypes
  <1>3. \A h \in Heaps, list \in Lists :
           base[h] = None /\ filters[h][list] = <<>> /\ cache[h][list] = <<>>
    BY <1>1 DEF InitCache
  <1>4. loop = None
    BY DEF InitCache
  <1>. QED
    BY <1>2, <1>3, <1>4 DEF CacheInv, FilterCache, FullCache, FillingLoop, ReplayingLoop

-------------------------------------------------------------------------------
LEMMA ClearCacheKeepsInv ==
    ASSUME CacheInv, loop = None, ClearCache(Dump), UNCHANGED <<content, loop>>,
           base' = [base EXCEPT ![Dump] = BaseDump] \/ base' = [base EXCEPT ![Dump] = None]
    PROVE  CacheInv'
  <1>1. CacheTypes
    BY DEF CacheInv
  <1>2. Empty \in [Lists -> Seq(AllFound)] /\ \A list \in Lists : Empty[list] = <<>>
    BY DEF Empty
  <1>3. /\ filters' = [filters EXCEPT ![Dump] = Empty]
        /\ cache' = [cache EXCEPT ![Dump] = Empty]
        /\ whole' = [whole EXCEPT ![Dump] = [list \in Lists |-> TRUE]]
        /\ content' = content /\ loop' = loop /\ loop = None
    BY DEF ClearCache
  <1>4. filters' \in [Heaps -> [Lists -> Seq(AllFound)]] /\ cache' \in [Heaps -> [Lists -> Seq(AllFound)]]
    BY <1>1, <1>2, <1>3 DEF CacheTypes
  <1>5. whole' \in [Heaps -> [Lists -> BOOLEAN]]
    BY <1>1, <1>3 DEF CacheTypes
  <1>6. base' \in [Heaps -> {None, BaseDump}] /\ base'[BaseDump] = None /\ base[BaseDump] = None
    BY <1>1, HeapsAndLists DEF CacheTypes
  <1>7. CacheTypes'
    BY <1>1, <1>3, <1>4, <1>5, <1>6 DEF CacheTypes
  <1>8. \A list \in Lists :
           /\ filters'[Dump][list] = <<>> /\ cache'[Dump][list] = <<>>
           /\ filters'[BaseDump][list] = filters[BaseDump][list]
           /\ cache'[BaseDump][list] = cache[BaseDump][list]
           /\ whole'[BaseDump][list] = whole[BaseDump][list]
    BY <1>1, <1>2, <1>3, HeapsAndLists DEF CacheTypes
  <1>9. ASSUME NEW list \in Lists
        PROVE  FilterCache(Dump, list)' /\ FullCache(Dump, list)'
    BY <1>3, <1>8 DEF FilterCache, FullCache, Running
  <1>10. ASSUME NEW list \in Lists
         PROVE  FilterCache(BaseDump, list)' /\ FullCache(BaseDump, list)'
    <2>1. FilterCache(BaseDump, list) /\ FullCache(BaseDump, list)
      BY HeapsAndLists DEF CacheInv
    <2>2. FilterCache(BaseDump, list)'
      BY <1>6, <1>8, <2>1 DEF FilterCache
    <2>3. Kept(BaseDump, list)' = Kept(BaseDump, list)
      BY <1>3, <1>6 DEF Kept
    <2>. QED
      BY <1>3, <1>8, <2>1, <2>2, <2>3 DEF FullCache, Filling, Running
  <1>. QED
    BY <1>3, <1>7, <1>9, <1>10, HeapsAndLists DEF CacheInv, FillingLoop, ReplayingLoop

-------------------------------------------------------------------------------
(* A list is all of its places.                                            *)
LEMMA AllPicked ==
    ASSUME NEW s \in Seq(AllFound)
    PROVE  Picks(s, s, DOMAIN s)
  <1>. DEFINE at == [i \in DOMAIN s |-> i]
  <1>1. at \in [DOMAIN s -> DOMAIN s] /\ \A i \in DOMAIN s : at[i] = i
    OBVIOUS
  <1>. HIDE DEF at
  <1>. QED
    BY <1>1 DEF Picks

(* The filters are filled before the loop begins.                          *)
LEMMA FillFiltersKeepsCaches ==
    ASSUME CacheInv, loop = None, NEW h \in Heaps, NEW list \in Lists,
           FillFilters(h, list), UNCHANGED <<content, base>>
    PROVE  /\ filters' \in [Heaps -> [Lists -> Seq(AllFound)]]
           /\ cache' \in [Heaps -> [Lists -> Seq(AllFound)]]
           /\ whole' \in [Heaps -> [Lists -> BOOLEAN]]
           /\ cache'[h][list] = cache[h][list]
           /\ \A g \in Heaps, m \in Lists :
                 /\ base[g] = None => filters'[g][m] = <<>>
                 /\ base[g] # None /\ whole'[g][m] =>
                       \/ filters'[g][m] = content[BaseDump][m]
                       \/ filters'[g][m] = <<>> /\ ~(g = h /\ m = list)
                 /\ whole'[g][m] /\ cache'[g][m] # <<>> =>
                       /\ Picks(cache'[g][m], content[g][m], Kept(g, m))
                       /\ g = BaseDump => cache'[g][m] = content[g][m]
  <1>1. CacheTypes
    BY DEF CacheInv
  <1>2. ASSUME NEW g \in Heaps, NEW m \in Lists
        PROVE  /\ base[g] = None => filters[g][m] = <<>>
               /\ base[g] # None /\ whole[g][m] =>
                     filters[g][m] = content[BaseDump][m] \/ filters[g][m] = <<>>
               /\ whole[g][m] /\ cache[g][m] # <<>> =>
                     /\ Picks(cache[g][m], content[g][m], Kept(g, m))
                     /\ g = BaseDump => cache[g][m] = content[g][m]
    <2>1. FilterCache(g, m) /\ FullCache(g, m)
      BY DEF CacheInv
    <2>. QED
      BY <2>1 DEF FilterCache, FullCache, Filling, Running
  <1>3. CASE base[h] # None /\ filters[h][list] = <<>>
    <2>1. h = Dump /\ base[h] = BaseDump /\ h # BaseDump
      BY <1>1, <1>3, HeapsAndLists DEF CacheTypes
    <2>. DEFINE d == Drained(BaseDump, list)
    <2>2. d \in Seq(AllFound)
      BY <1>1, ContentTypes, HeapsAndLists DEF Drained, CacheTypes
    <2>3. whole[BaseDump][list] => d = content[BaseDump][list]
      BY <1>2, HeapsAndLists DEF Drained
    <2>. HIDE DEF d
    <2>4. /\ filters' = [filters EXCEPT ![h][list] = d]
          /\ cache' = [cache EXCEPT ![BaseDump][list] = d]
          /\ whole' = [whole EXCEPT ![h][list] = @ /\ whole[BaseDump][list]]
      BY <1>3, <2>1 DEF FillFilters, d
    <2>5. filters' \in [Heaps -> [Lists -> Seq(AllFound)]] /\ cache' \in [Heaps -> [Lists -> Seq(AllFound)]]
      BY <1>1, <2>2, <2>4 DEF CacheTypes
    <2>6. whole' \in [Heaps -> [Lists -> BOOLEAN]]
      BY <1>1, <2>4, HeapsAndLists DEF CacheTypes
    <2>7. /\ filters'[h][list] = d
          /\ whole'[h][list] = (whole[h][list] /\ whole[BaseDump][list])
          /\ \A g \in Heaps, m \in Lists : ~(g = h /\ m = list) =>
                filters'[g][m] = filters[g][m] /\ whole'[g][m] = whole[g][m]
      BY <1>1, <2>4 DEF CacheTypes
    <2>8. /\ cache'[BaseDump][list] = d
          /\ \A g \in Heaps, m \in Lists : ~(g = BaseDump /\ m = list) => cache'[g][m] = cache[g][m]
      BY <1>1, <2>4, HeapsAndLists DEF CacheTypes
    <2>9. Picks(content[BaseDump][list], content[BaseDump][list], Kept(BaseDump, list))
      <3>1. Kept(BaseDump, list) = DOMAIN content[BaseDump][list]
        BY <1>1 DEF Kept, CacheTypes
      <3>. QED
        BY <1>1, <3>1, AllPicked, ContentTypes, HeapsAndLists
    <2>10. ASSUME NEW g \in Heaps, NEW m \in Lists
           PROVE  /\ base[g] = None => filters'[g][m] = <<>>
                  /\ base[g] # None /\ whole'[g][m] =>
                        \/ filters'[g][m] = content[BaseDump][m]
                        \/ filters'[g][m] = <<>> /\ ~(g = h /\ m = list)
      <3>1. CASE g = h /\ m = list
        BY <1>3, <2>3, <2>7, <3>1
      <3>2. CASE ~(g = h /\ m = list)
        BY <1>2, <2>7, <3>2
      <3>. QED
        BY <3>1, <3>2
    <2>11. ASSUME NEW g \in Heaps, NEW m \in Lists, whole'[g][m], cache'[g][m] # <<>>
           PROVE  /\ Picks(cache'[g][m], content[g][m], Kept(g, m))
                  /\ g = BaseDump => cache'[g][m] = content[g][m]
      <3>1. CASE g = BaseDump /\ m = list
        <4>1. whole[BaseDump][list]
          BY <2>1, <2>7, <2>11, <3>1
        <4>. QED
          BY <2>3, <2>8, <2>9, <3>1, <4>1
      <3>2. CASE ~(g = BaseDump /\ m = list)
        <4>1. whole[g][m]
          BY <1>1, <2>7, <2>11 DEF CacheTypes
        <4>. QED
          BY <1>2, <2>8, <2>11, <3>2, <4>1
      <3>. QED
        BY <3>1, <3>2
    <2>. QED
      BY <2>1, <2>5, <2>6, <2>8, <2>10, <2>11
  <1>4. CASE ~(base[h] # None /\ filters[h][list] = <<>>)
    <2>1. filters' = filters /\ cache' = cache /\ whole' = whole
      BY <1>4 DEF FillFilters
    <2>. QED
      BY <1>1, <1>2, <1>4, <2>1 DEF CacheTypes
  <1>. QED
    BY <1>3, <1>4

LEMMA BeginKeepsInv ==
    ASSUME CacheInv, NEW h \in Heaps, NEW list \in Lists, Begin(h, list)
    PROVE  CacheInv'
  <1>1. CacheTypes
    BY DEF CacheInv
  <1>. DEFINE l == [heap |-> h, list |-> list, replay |-> cache[h][list] # <<>>,
                    next |-> 1, shown |-> <<>>, done |-> FALSE]
  <1>2. /\ loop = None /\ FillFilters(h, list) /\ loop' = l
        /\ content' = content /\ base' = base
    BY DEF Begin
  <1>3. /\ l.heap = h /\ l.list = list /\ (l.replay <=> cache[h][list] # <<>>) /\ l.next = 1
        /\ l.shown = <<>> /\ l.done = FALSE
    OBVIOUS
  <1>4. l \in Loops
    BY DEF Loops
  <1>. HIDE DEF l
  <1>5. CacheTypes'
    BY <1>1, <1>2, <1>4, FillFiltersKeepsCaches DEF CacheTypes
  <1>6. loop' # None
    BY <1>2, <1>4, HeapsAndLists
  <1>7. \A g \in Heaps, m \in Lists : Kept(g, m)' = Kept(g, m)
    BY <1>2 DEF Kept
  <1>8. ASSUME NEW g \in Heaps, NEW m \in Lists
        PROVE  FilterCache(g, m)' /\ FullCache(g, m)'
    <2>1. Running(g, m)' => g = h /\ m = list
      BY <1>2, <1>3 DEF Running
    <2>2. FilterCache(g, m)'
      BY <1>2, <2>1, FillFiltersKeepsCaches DEF FilterCache
    <2>3. FullCache(g, m)'
      BY <1>2, <1>7, FillFiltersKeepsCaches DEF FullCache
    <2>. QED
      BY <2>2, <2>3
  <1>9. cache'[h][list] = cache[h][list]
    BY <1>2, FillFiltersKeepsCaches
  <1>10. Len(content[h][list]) \in Nat /\ Len(cache[h][list]) \in Nat
    BY <1>1, ContentTypes DEF CacheTypes
  <1>11. FillingLoop'
    <2>1. {k \in Kept(h, list) : k < 1} = {}
      BY <1>1, ContentTypes
    <2>2. /\ loop'.heap = h /\ loop'.list = list /\ loop'.next = 1 /\ loop'.shown = <<>>
          /\ ~loop'.done /\ (loop'.replay <=> cache[h][list] # <<>>)
      BY <1>2, <1>3
    <2>3. Kept(loop.heap, loop.list)' = Kept(h, list)
      BY <1>7, <2>2
    <2>4. {k \in Kept(loop.heap, loop.list)' : k < loop'.next} = {}
      BY <2>1, <2>2, <2>3
    <2>5. Picks(loop'.shown, content'[loop'.heap][loop'.list], {k \in Kept(loop.heap, loop.list)' : k < loop'.next})
      BY <2>2, <2>4, NothingPicked
    <2>6. Prefix(loop'.shown, content'[loop'.heap][loop'.list], loop'.next - 1)
      BY <1>2, <1>10, <2>2 DEF Prefix
    <2>7. loop'.next \in 1..(Len(content'[loop'.heap][loop'.list]) + 1)
      BY <1>2, <1>10, <2>2
    <2>8. ~loop'.replay => cache'[loop'.heap][loop'.list] = loop'.shown
      BY <1>9, <2>2
    <2>. QED
      BY <2>2, <2>5, <2>6, <2>7, <2>8 DEF FillingLoop
  <1>12. ReplayingLoop'
    <2>1. Prefix(<<>>, cache[h][list], 0)
      BY <1>10 DEF Prefix
    <2>. QED
      BY <1>2, <1>3, <1>9, <1>10, <2>1 DEF ReplayingLoop
  <1>. QED
    BY <1>5, <1>8, <1>11, <1>12 DEF CacheInv

-------------------------------------------------------------------------------
(* A loop that goes on changes at most the cache that it fills.            *)
LEMMA LoopGoesOn ==
    ASSUME CacheInv, loop # None, loop' \in Loops,
           loop'.heap = loop.heap, loop'.list = loop.list, loop'.replay = loop.replay,
           UNCHANGED <<content, base, filters, whole>>,
           NEW s \in Seq(AllFound),
           \/ cache' = cache
           \/ ~loop.replay /\ cache' = [cache EXCEPT ![loop.heap][loop.list] = s]
    PROVE  CacheTypes' /\ \A g \in Heaps, m \in Lists : FilterCache(g, m)' /\ FullCache(g, m)'
  <1>1. CacheTypes
    BY DEF CacheInv
  <1>2. cache' \in [Heaps -> [Lists -> Seq(AllFound)]]
    <2>1. CASE cache' = cache
      BY <1>1, <2>1 DEF CacheTypes
    <2>2. CASE cache' = [cache EXCEPT ![loop.heap][loop.list] = s]
      <3>. DEFINE row == [cache[loop.heap] EXCEPT ![loop.list] = s]
      <3>1. loop.heap \in Heaps
        BY <1>1 DEF CacheTypes, Loops
      <3>2. row \in [Lists -> Seq(AllFound)]
        BY <1>1, <3>1 DEF CacheTypes
      <3>3. cache' = [cache EXCEPT ![loop.heap] = row]
        BY <2>2
      <3>. HIDE DEF row
      <3>. QED
        BY <1>1, <3>2, <3>3 DEF CacheTypes
    <2>. QED
      BY <2>1, <2>2
  <1>3. CacheTypes'
    BY <1>1, <1>2 DEF CacheTypes
  <1>4. loop' # None
    BY HeapsAndLists
  <1>5. ASSUME NEW g \in Heaps, NEW m \in Lists
        PROVE  FilterCache(g, m)' /\ FullCache(g, m)'
    <2>1. FilterCache(g, m) /\ FullCache(g, m)
      BY DEF CacheInv
    <2>2. (Running(g, m)' <=> Running(g, m)) /\ (Filling(g, m)' <=> Filling(g, m))
      BY <1>4 DEF Running, Filling
    <2>3. FilterCache(g, m)'
      BY <2>1, <2>2 DEF FilterCache
    <2>4. Filling(g, m) \/ cache'[g][m] = cache[g][m]
      <3>1. CASE g = loop.heap /\ m = loop.list
        BY <1>1, <3>1 DEF Filling, Running
      <3>2. CASE ~(g = loop.heap /\ m = loop.list)
        BY <1>1, <3>2 DEF CacheTypes
      <3>. QED
        BY <3>1, <3>2
    <2>5. Kept(g, m)' = Kept(g, m)
      BY DEF Kept
    <2>6. FullCache(g, m)'
      BY <2>1, <2>2, <2>4, <2>5 DEF FullCache
    <2>. QED
      BY <2>3, <2>6
  <1>. QED
    BY <1>3, <1>5

(* A filling loop meets what is filtered exactly at the places not kept.   *)
LEMMA FilteredIsNotKept ==
    ASSUME CacheInv, loop # None, ~loop.replay, whole[loop.heap][loop.list],
           loop.next <= Len(content[loop.heap][loop.list])
    PROVE  /\ loop.next \in Kept(loop.heap, loop.list)
                <=> ~IsFiltered(filters[loop.heap][loop.list], content[loop.heap][loop.list][loop.next])
           /\ loop.heap = BaseDump => loop.next \in Kept(loop.heap, loop.list)
  <1>1. CacheTypes
    BY DEF CacheInv
  <1>2. loop.heap \in Heaps /\ loop.list \in Lists
    BY <1>1 DEF CacheTypes, Loops
  <1>3. loop.next \in DOMAIN content[loop.heap][loop.list]
    BY <1>1, <1>2, ContentTypes DEF CacheInv, FillingLoop
  <1>4. FilterCache(loop.heap, loop.list) /\ Running(loop.heap, loop.list)
    BY <1>2 DEF CacheInv, Running
  <1>5. CASE base[loop.heap] = None
    <2>1. filters[loop.heap][loop.list] = <<>>
      BY <1>4, <1>5 DEF FilterCache
    <2>2. DOMAIN filters[loop.heap][loop.list] = {}
      BY <2>1
    <2>. QED
      BY <1>3, <1>5, <2>2 DEF Kept, IsFiltered
  <1>6. CASE base[loop.heap] # None
    <2>1. filters[loop.heap][loop.list] = content[BaseDump][loop.list]
      BY <1>4, <1>6 DEF FilterCache
    <2>2. base[loop.heap] = BaseDump /\ loop.heap # BaseDump
      BY <1>1, <1>2, <1>6 DEF CacheTypes
    <2>. QED
      BY <1>3, <1>6, <2>1, <2>2 DEF Kept
  <1>. QED
    BY <1>5, <1>6

LEMMA LoopMoved ==
    ASSUME NEW l \in Loops, NEW m, NEW more \in Seq(AllFound),
           m = [l EXCEPT !.next = @ + 1, !.shown = more]
    PROVE  /\ m.heap = l.heap /\ m.list = l.list /\ m.replay = l.replay
           /\ m.next = l.next + 1 /\ m.shown = more /\ m.done = l.done /\ m \in Loops
  <1>1. /\ l.heap \in Heaps /\ l.list \in Lists /\ l.replay \in BOOLEAN /\ l.next \in Nat /\ l.done \in BOOLEAN
        /\ l = [heap |-> l.heap, list |-> l.list, replay |-> l.replay, next |-> l.next,
                shown |-> l.shown, done |-> l.done]
    BY DEF Loops
  <1>2. m = [heap |-> l.heap, list |-> l.list, replay |-> l.replay, next |-> l.next + 1,
             shown |-> more, done |-> l.done]
    BY <1>1
  <1>. QED
    BY <1>1, <1>2 DEF Loops

LEMMA ResumeKeepsInv ==
    ASSUME CacheInv, Resume
    PROVE  CacheInv'
  <1>. DEFINE h == loop.heap
              list == loop.list
              c == content[h][list]
  <1>1. CacheTypes /\ loop # None /\ ~loop.done
    BY DEF CacheInv, Resume
  <1>2. /\ loop \in Loops /\ h \in Heaps /\ list \in Lists /\ loop.next \in Nat
        /\ loop.shown \in Seq(AllFound) /\ loop.replay \in BOOLEAN
        /\ DOMAIN loop = {"heap", "list", "replay", "next", "shown", "done"}
    BY <1>1 DEF CacheTypes, Loops
  <1>3. UNCHANGED <<content, base, filters, whole>>
    BY DEF Resume
  <1>4. c \in Seq(AllFound) /\ cache[h][list] \in Seq(AllFound) /\ Kept(h, list) \subseteq 1..Len(c)
    BY <1>1, <1>2, ContentTypes DEF CacheTypes
  <1>5. FillingLoop /\ ReplayingLoop
    BY DEF CacheInv
  <1>6. loop'.heap = h /\ loop'.list = list => Kept(loop.heap, loop.list)' = Kept(h, list)
    BY <1>3 DEF Kept
  <1>7. Source = IF loop.replay THEN cache[h][list] ELSE c
    BY DEF Source
  <1>8. CASE loop.next > Len(Source) /\ loop' = [loop EXCEPT !.done = TRUE] /\ UNCHANGED cache
    <2>1. /\ loop'.heap = h /\ loop'.list = list /\ loop'.replay = loop.replay
          /\ loop'.next = loop.next /\ loop'.shown = loop.shown /\ loop'.done /\ loop' \in Loops
      BY <1>2, <1>8 DEF Loops
    <2>2. CacheTypes' /\ \A g \in Heaps, m \in Lists : FilterCache(g, m)' /\ FullCache(g, m)'
      BY <1>1, <1>3, <1>4, <1>8, <2>1, LoopGoesOn
    <2>3. FillingLoop'
      <3>1. ~loop.replay => loop.next \in 1..(Len(c) + 1) /\ loop.next = Len(c) + 1
        BY <1>1, <1>4, <1>5, <1>7, <1>8 DEF FillingLoop
      <3>2. {k \in Kept(loop.heap, loop.list) : k < loop.next}' = {k \in Kept(h, list) : k < loop.next}
        BY <1>6, <2>1
      <3>. QED
        BY <1>1, <1>3, <1>5, <1>8, <2>1, <3>1, <3>2 DEF FillingLoop
    <2>4. ReplayingLoop'
      BY <1>1, <1>4, <1>5, <1>7, <1>8, <2>1 DEF ReplayingLoop
    <2>. QED
      BY <2>2, <2>3, <2>4 DEF CacheInv
  <1>9. CASE /\ loop.next <= Len(Source) /\ ~loop.replay
             /\ IsFiltered(filters[h][list], Source[loop.next])
             /\ loop' = Skipped /\ UNCHANGED cache
    <2>1. /\ loop'.heap = h /\ loop'.list = list /\ loop'.replay = loop.replay
          /\ loop'.next = loop.next + 1 /\ loop'.shown = loop.shown /\ loop'.done = loop.done
          /\ loop' \in Loops
      BY <1>2, <1>9 DEF Loops, Skipped
    <2>2. CacheTypes' /\ \A g \in Heaps, m \in Lists : FilterCache(g, m)' /\ FullCache(g, m)'
      BY <1>1, <1>3, <1>4, <1>9, <2>1, LoopGoesOn
    <2>3. Len(c) \in Nat /\ loop.next \in 1..Len(c) /\ Source = c
      BY <1>1, <1>4, <1>5, <1>7, <1>9 DEF FillingLoop
    <2>4. whole[h][list] => loop.next \notin Kept(h, list) /\ h # BaseDump
      BY <1>1, <1>9, <2>3, FilteredIsNotKept
    <2>5. whole[h][list] => {k \in Kept(h, list) : k < loop.next + 1} = {k \in Kept(h, list) : k < loop.next}
      BY <1>2, <1>4, <2>4
    <2>6. loop'.next \in 1..(Len(c) + 1) /\ ~loop'.done
      <3>1. ~loop'.done
        BY <1>1, <2>1, Zenon
      <3>2. loop'.next \in 1..(Len(c) + 1)
        BY <2>1, <2>3
      <3>. QED
        BY <3>1, <3>2
    <2>7. FillingLoop'
      <3>1. whole[h][list] =>
               /\ cache[h][list] = loop.shown
               /\ Picks(loop.shown, c, {k \in Kept(h, list) : k < loop.next + 1})
        BY <1>1, <1>5, <1>9, <2>5 DEF FillingLoop
      <3>2. {k \in Kept(loop.heap, loop.list) : k < loop.next}' = {k \in Kept(h, list) : k < loop.next + 1}
        BY <1>6, <2>1
      <3>. QED
        BY <1>3, <1>9, <2>1, <2>4, <2>6, <3>1, <3>2 DEF FillingLoop
    <2>8. ReplayingLoop'
      BY <1>9, <2>1 DEF ReplayingLoop
    <2>. QED
      BY <2>2, <2>7, <2>8 DEF CacheInv
  <1>. DEFINE e == Source[loop.next]
              more == Append(loop.shown, e)
  <1>10. CASE /\ loop.next <= Len(Source) /\ loop.replay
              /\ loop' = [loop EXCEPT !.next = @ + 1, !.shown = Append(@, e)] /\ UNCHANGED cache
    <2>1. /\ Prefix(loop.shown, cache[h][list], loop.next - 1)
          /\ Len(cache[h][list]) \in Nat /\ loop.next \in 1..Len(cache[h][list]) /\ e = cache[h][list][loop.next]
          /\ loop.next - 1 \in Nat /\ (loop.next - 1) + 1 = loop.next
      BY <1>1, <1>4, <1>5, <1>7, <1>10 DEF ReplayingLoop
    <2>2. more \in Seq(AllFound) /\ Prefix(more, cache[h][list], loop.next)
      BY <1>2, <1>4, <2>1, PrefixOneMore
    <2>. HIDE DEF more
    <2>3. /\ loop'.heap = h /\ loop'.list = list /\ loop'.replay = loop.replay
          /\ loop'.next = loop.next + 1 /\ loop'.shown = more /\ loop'.done = loop.done
          /\ loop' \in Loops
      <3>1. loop' = [loop EXCEPT !.next = @ + 1, !.shown = more]
        BY <1>10 DEF more
      <3>. QED
        BY <1>2, <2>2, <3>1, LoopMoved
    <2>4. CacheTypes' /\ \A g \in Heaps, m \in Lists : FilterCache(g, m)' /\ FullCache(g, m)'
      BY <1>1, <1>3, <1>4, <1>10, <2>3, LoopGoesOn
    <2>5. loop'.next \in 1..(Len(cache[h][list]) + 1) /\ ~loop'.done /\ loop'.next - 1 = loop.next
      <3>1. ~loop'.done
        BY <1>1, <2>3, Zenon
      <3>2. loop'.next \in 1..(Len(cache[h][list]) + 1) /\ loop'.next - 1 = loop.next
        BY <2>1, <2>3
      <3>. QED
        BY <3>1, <3>2
    <2>6. ReplayingLoop'
      BY <1>1, <1>5, <1>10, <2>2, <2>3, <2>5 DEF ReplayingLoop
    <2>7. FillingLoop'
      BY <1>10, <2>3 DEF FillingLoop
    <2>. QED
      BY <2>4, <2>6, <2>7 DEF CacheInv
  <1>11. CASE /\ loop.next <= Len(Source) /\ ~loop.replay /\ ~IsFiltered(filters[h][list], Source[loop.next])
              /\ loop' = [loop EXCEPT !.next = @ + 1, !.shown = Append(@, e)]
              /\ cache' = [cache EXCEPT ![h][list] = Append(@, e)]
    <2>1. /\ Len(c) \in Nat /\ loop.next \in 1..Len(c) /\ e = c[loop.next] /\ Source = c
          /\ loop.next - 1 \in Nat /\ (loop.next - 1) + 1 = loop.next /\ loop.next - 1 + 1 <= Len(c)
      BY <1>1, <1>4, <1>5, <1>7, <1>11 DEF FillingLoop
    <2>2. e \in AllFound
      BY <1>4, <2>1
    <2>3. more \in Seq(AllFound) /\ Append(cache[h][list], e) \in Seq(AllFound)
      BY <1>2, <1>4, <2>2
    <2>4. cache'[h][list] = Append(cache[h][list], e)
      BY <1>1, <1>2, <1>11 DEF CacheTypes
    <2>5. /\ loop'.heap = h /\ loop'.list = list /\ loop'.replay = loop.replay
          /\ loop'.next = loop.next + 1 /\ loop'.shown = more /\ loop'.done = loop.done
          /\ loop' \in Loops
      <3>1. loop' = [loop EXCEPT !.next = @ + 1, !.shown = more]
        BY <1>11
      <3>. QED
        BY <1>2, <2>3, <3>1, LoopMoved
    <2>6. CacheTypes' /\ \A g \in Heaps, m \in Lists : FilterCache(g, m)' /\ FullCache(g, m)'
      BY <1>1, <1>3, <1>11, <2>3, <2>5, LoopGoesOn
    <2>7. ASSUME whole[h][list]
          PROVE  /\ cache'[h][list] = more
                 /\ Picks(more, c, {k \in Kept(h, list) : k < loop.next + 1})
                 /\ h = BaseDump => Prefix(more, c, loop.next)
      <3>. DEFINE before == {k \in Kept(h, list) : k < loop.next}
      <3>1. /\ cache[h][list] = loop.shown /\ Picks(loop.shown, c, before)
            /\ h = BaseDump => Prefix(loop.shown, c, loop.next - 1)
        BY <1>1, <1>5, <1>11, <2>7 DEF FillingLoop
      <3>2. loop.next \in Kept(h, list)
        BY <1>1, <1>11, <2>1, <2>7, FilteredIsNotKept
      <3>3. \A k \in before : k \in Nat /\ k < loop.next
        BY <1>4
      <3>4. {k \in Kept(h, list) : k < loop.next + 1} = before \union {loop.next}
        BY <1>2, <1>4, <3>2
      <3>. HIDE DEF before
      <3>5. Picks(more, c, before \union {loop.next})
        BY <1>2, <2>1, <2>2, <3>1, <3>3, PickedOneMore
      <3>6. h = BaseDump => Prefix(more, c, loop.next)
        BY <1>2, <1>4, <2>1, <3>1, PrefixOneMore
      <3>. QED
        BY <2>4, <3>1, <3>4, <3>5, <3>6
    <2>. HIDE DEF more
    <2>8. loop'.next \in 1..(Len(c) + 1) /\ ~loop'.done /\ loop'.next - 1 = loop.next
      <3>1. ~loop'.done
        BY <1>1, <2>5, Zenon
      <3>2. loop'.next = loop.next + 1
        BY <2>5
      <3>3. Len(c) \in Nat /\ loop.next \in 1..Len(c)
        BY <2>1
      <3>. HIDE DEF c, e
      <3>4. loop'.next \in 1..(Len(c) + 1) /\ loop'.next - 1 = loop.next
        BY <3>2, <3>3
      <3>. QED
        BY <3>1, <3>4
    <2>9. FillingLoop'
      <3>1. {k \in Kept(loop.heap, loop.list) : k < loop.next}' = {k \in Kept(h, list) : k < loop.next + 1}
        BY <1>6, <2>5
      <3>. QED
        BY <1>3, <1>11, <2>5, <2>7, <2>8, <3>1 DEF FillingLoop
    <2>10. ReplayingLoop'
      BY <1>11, <2>5 DEF ReplayingLoop
    <2>. QED
      BY <2>6, <2>9, <2>10 DEF CacheInv
  <1>. QED
    BY <1>8, <1>9, <1>10, <1>11 DEF Resume

LEMMA LoopOverKeepsInv ==
    ASSUME CacheInv, loop # None, loop' = None, UNCHANGED <<content, base, filters, cache>>,
           \/ loop.done /\ whole' = whole
           \/ ~loop.done /\ whole' = [whole EXCEPT ![loop.heap][loop.list] =
                                        @ /\ (loop.replay \/ cache[loop.heap][loop.list] = <<>>)]
    PROVE  CacheInv'
  <1>. DEFINE h == loop.heap
              list == loop.list
  <1>1. CacheTypes /\ FillingLoop
    BY DEF CacheInv
  <1>2. h \in Heaps /\ list \in Lists /\ loop.replay \in BOOLEAN
    BY <1>1 DEF CacheTypes, Loops
  <1>3. whole' \in [Heaps -> [Lists -> BOOLEAN]]
        /\ \A g \in Heaps, m \in Lists : whole'[g][m] => whole[g][m]
    <2>1. CASE whole' = whole
      BY <1>1, <2>1 DEF CacheTypes
    <2>2. CASE ~loop.done
      <3>. DEFINE b == whole[h][list] /\ (loop.replay \/ cache[h][list] = <<>>)
                  row == [whole[h] EXCEPT ![list] = b]
      <3>1. b \in BOOLEAN /\ (b => whole[h][list])
        OBVIOUS
      <3>2. whole' = [whole EXCEPT ![h] = row]
        BY <2>2
      <3>. HIDE DEF b
      <3>3. /\ row \in [Lists -> BOOLEAN] /\ row[list] = b
            /\ \A m \in Lists : m # list => row[m] = whole[h][m]
        BY <1>1, <1>2, <3>1 DEF CacheTypes
      <3>. HIDE DEF row
      <3>4. /\ whole' \in [Heaps -> [Lists -> BOOLEAN]] /\ whole'[h] = row
            /\ \A g \in Heaps : g # h => whole'[g] = whole[g]
        BY <1>1, <1>2, <3>2, <3>3 DEF CacheTypes
      <3>5. ASSUME NEW g \in Heaps, NEW m \in Lists, whole'[g][m]
            PROVE  whole[g][m]
        <4>1. CASE g = h /\ m = list
          BY <3>1, <3>3, <3>4, <3>5, <4>1
        <4>2. CASE g = h /\ m # list
          BY <3>3, <3>4, <3>5, <4>2
        <4>3. CASE g # h
          BY <3>4, <3>5, <4>3
        <4>. QED
          BY <4>1, <4>2, <4>3
      <3>. QED
        BY <3>4, <3>5
    <2>. QED
      BY <2>1, <2>2
  <1>4. \A g \in Heaps, m \in Lists : whole'[g][m] => whole[g][m]
    BY <1>3
  <1>5. ~loop.done /\ ~loop.replay /\ whole'[h][list] => cache[h][list] = <<>>
    <2>. SUFFICES ASSUME ~loop.done, ~loop.replay, whole'[h][list]
                  PROVE  cache[h][list] = <<>>
      OBVIOUS
    <2>. DEFINE b == whole[h][list] /\ (loop.replay \/ cache[h][list] = <<>>)
    <2>1. whole' = [whole EXCEPT ![h][list] = b]
      OBVIOUS
    <2>2. b => cache[h][list] = <<>>
      OBVIOUS
    <2>. HIDE DEF b
    <2>3. whole'[h][list] = b
      BY <1>1, <1>2, <2>1 DEF CacheTypes
    <2>. QED
      BY <2>2, <2>3
  <1>6. CacheTypes'
    BY <1>1, <1>3 DEF CacheTypes
  <1>7. \A g \in Heaps, m \in Lists : Kept(g, m)' = Kept(g, m)
    BY DEF Kept
  <1>8. loop.done /\ ~loop.replay /\ whole[h][list] =>
           /\ Picks(cache[h][list], content[h][list], Kept(h, list))
           /\ h = BaseDump => cache[h][list] = content[h][list]
    <2>. SUFFICES ASSUME loop.done, ~loop.replay, whole[h][list]
                  PROVE  /\ Picks(cache[h][list], content[h][list], Kept(h, list))
                         /\ h = BaseDump => cache[h][list] = content[h][list]
      OBVIOUS
    <2>1. /\ loop.next = Len(content[h][list]) + 1 /\ cache[h][list] = loop.shown
          /\ Picks(loop.shown, content[h][list], {k \in Kept(h, list) : k < loop.next})
          /\ h = BaseDump => Prefix(loop.shown, content[h][list], loop.next - 1)
      BY <1>1 DEF FillingLoop
    <2>2. /\ content[h][list] \in Seq(AllFound) /\ cache[h][list] \in Seq(AllFound)
          /\ Kept(h, list) \subseteq 1..Len(content[h][list])
      BY <1>1, <1>2, ContentTypes DEF CacheTypes
    <2>3. {k \in Kept(h, list) : k < loop.next} = Kept(h, list)
      BY <2>1, <2>2
    <2>4. loop.next - 1 = Len(content[h][list])
      BY <2>1, <2>2
    <2>. QED
      BY <2>1, <2>2, <2>3, <2>4, PrefixIsWhole
  <1>9. ASSUME NEW g \in Heaps, NEW m \in Lists
        PROVE  FilterCache(g, m)' /\ FullCache(g, m)'
    <2>1. FilterCache(g, m) /\ FullCache(g, m)
      BY DEF CacheInv
    <2>2. FilterCache(g, m)'
      BY <1>4, <2>1 DEF FilterCache, Running
    <2>3. ASSUME whole'[g][m], cache[g][m] # <<>>
          PROVE  /\ Picks(cache[g][m], content[g][m], Kept(g, m))
                 /\ g = BaseDump => cache[g][m] = content[g][m]
      <3>1. whole[g][m]
        BY <1>4, <2>3
      <3>2. CASE Filling(g, m)
        <4>1. g = h /\ m = list /\ ~loop.replay
          BY <3>2 DEF Filling, Running
        <4>. QED
          BY <1>5, <1>8, <2>3, <3>1, <4>1
      <3>3. CASE ~Filling(g, m)
        BY <2>1, <2>3, <3>1, <3>3 DEF FullCache
      <3>. QED
        BY <3>2, <3>3
    <2>4. FullCache(g, m)'
      BY <1>7, <2>3 DEF FullCache
    <2>. QED
      BY <2>2, <2>4
  <1>. QED
    BY <1>6, <1>9 DEF CacheInv, FillingLoop, ReplayingLoop

-------------------------------------------------------------------------------
(* Every step of the caches keeps the invariant.                           *)
LEMMA CacheStepKeepsInv ==
    ASSUME CacheInv, [NextCache]_vars
    PROVE  CacheInv'
  <1>1. CASE SetBaseDiffFilter
    BY <1>1, ClearCacheKeepsInv DEF SetBaseDiffFilter
  <1>2. CASE ClearBaseDiffFilter
    BY <1>2, ClearCacheKeepsInv DEF ClearBaseDiffFilter
  <1>3. CASE \E h \in Heaps, list \in Lists : Begin(h, list)
    BY <1>3, BeginKeepsInv
  <1>4. CASE Resume
    BY <1>4, ResumeKeepsInv
  <1>5. CASE Finish
    BY <1>5, LoopOverKeepsInv DEF Finish
  <1>6. CASE Abandon
    BY <1>6, LoopOverKeepsInv DEF Abandon
  <1>7. CASE UNCHANGED vars
    <2>1. CacheTypes' /\ FillingLoop' /\ ReplayingLoop'
      BY <1>7 DEF vars, CacheInv, CacheTypes, FillingLoop, ReplayingLoop, Kept
    <2>2. ASSUME NEW h \in Heaps, NEW list \in Lists
          PROVE  FilterCache(h, list)' /\ FullCache(h, list)'
      <3>1. FilterCache(h, list) /\ FullCache(h, list)
        BY DEF CacheInv
      <3>. QED
        BY <1>7, <3>1 DEF vars, FilterCache, FullCache, Filling, Running, Kept
    <2>. QED
      BY <2>1, <2>2 DEF CacheInv
  <1>. QED
    BY <1>1, <1>2, <1>3, <1>4, <1>5, <1>6, <1>7 DEF NextCache

(* A loop that is over has shown the difference.                           *)
LEMMA EndedShowsDifference ==
    ASSUME CacheInv
    PROVE  EndedIsExact
  <1>. SUFFICES ASSUME NEW h \in Heaps, NEW list \in Lists, Ended(h, list)
                PROVE  Picks(loop.shown, content[h][list], Kept(h, list))
    BY DEF EndedIsExact
  <1>1. /\ CacheTypes /\ FillingLoop /\ ReplayingLoop /\ FullCache(h, list)
        /\ loop # None /\ loop.done /\ loop.heap = h /\ loop.list = list /\ whole[h][list]
    BY DEF CacheInv, Ended
  <1>2. /\ content[h][list] \in Seq(AllFound) /\ cache[h][list] \in Seq(AllFound)
        /\ Kept(h, list) \subseteq 1..Len(content[h][list])
        /\ loop.shown \in Seq(AllFound) /\ loop.replay \in BOOLEAN
    BY <1>1, ContentTypes DEF CacheTypes, Loops
  <1>3. CASE loop.replay
    <2>1. /\ cache[h][list] # <<>> /\ loop.next = Len(cache[h][list]) + 1
          /\ Prefix(loop.shown, cache[h][list], loop.next - 1)
      BY <1>1, <1>3 DEF ReplayingLoop
    <2>2. loop.next - 1 = Len(cache[h][list])
      BY <1>2, <2>1
    <2>3. loop.shown = cache[h][list]
      BY <1>2, <2>1, <2>2, PrefixIsWhole
    <2>. QED
      BY <1>1, <1>3, <2>1, <2>3 DEF FullCache, Filling
  <1>4. CASE ~loop.replay
    <2>1. /\ loop.next = Len(content[h][list]) + 1
          /\ Picks(loop.shown, content[h][list], {k \in Kept(h, list) : k < loop.next})
      BY <1>1, <1>4 DEF FillingLoop
    <2>2. {k \in Kept(h, list) : k < loop.next} = Kept(h, list)
      BY <1>2, <2>1
    <2>. QED
      BY <2>1, <2>2
  <1>. QED
    BY <1>3, <1>4

-------------------------------------------------------------------------------
(* What is stored, of a whole loop or not, is from the list it belongs to. *)
Within(s, t) == \A i \in DOMAIN s : \E k \in DOMAIN t : s[i] = t[k]

Stored ==
    /\ \A h \in Heaps, list \in Lists : Within(cache[h][list], content[h][list])
    /\ \A list \in Lists : Within(filters[Dump][list], content[BaseDump][list])

LEMMA InitStored ==
    ASSUME InitCache
    PROVE  Stored
  BY HeapsAndLists DEF InitCache, Empty, Stored, Within

LEMMA Appended ==
    ASSUME NEW s \in Seq(AllFound), NEW e \in AllFound
    PROVE  /\ Len(s) \in Nat /\ DOMAIN s = 1..Len(s) /\ DOMAIN Append(s, e) = 1..(Len(s) + 1)
           /\ \A i \in 1..Len(s) : Append(s, e)[i] = s[i]
           /\ Append(s, e)[Len(s) + 1] = e
  OBVIOUS

LEMMA StepKeepsStored ==
    ASSUME CacheInv, Stored, [NextCache]_vars
    PROVE  Stored'
  <1>1. CacheTypes
    BY DEF CacheInv
  <1>2. ASSUME ClearCache(Dump), UNCHANGED <<content, loop>>
        PROVE  Stored'
    <2>1. \A list \in Lists : filters'[Dump][list] = <<>> /\ cache'[Dump][list] = <<>>
      BY <1>1, <1>2, HeapsAndLists DEF ClearCache, Empty, CacheTypes
    <2>2. \A list \in Lists : cache'[BaseDump][list] = cache[BaseDump][list]
      BY <1>1, <1>2, HeapsAndLists DEF ClearCache, CacheTypes
    <2>. QED
      BY <1>2, <2>1, <2>2, HeapsAndLists DEF Stored, Within
  <1>3. ASSUME NEW h \in Heaps, NEW list \in Lists, Begin(h, list)
        PROVE  Stored'
    <2>1. content' = content /\ FillFilters(h, list)
      BY <1>3 DEF Begin
    <2>2. CASE base[h] # None /\ filters[h][list] = <<>>
      <3>. DEFINE d == Drained(BaseDump, list)
      <3>1. h = Dump /\ base[h] = BaseDump
        BY <1>1, <2>2, HeapsAndLists DEF CacheTypes
      <3>2. Within(d, content[BaseDump][list])
        BY HeapsAndLists DEF Stored, Within, Drained
      <3>. HIDE DEF d
      <3>3. filters' = [filters EXCEPT ![h][list] = d] /\ cache' = [cache EXCEPT ![BaseDump][list] = d]
        BY <2>1, <2>2, <3>1 DEF FillFilters, d
      <3>4. \A m \in Lists : filters'[Dump][m] = IF m = list THEN d ELSE filters[Dump][m]
        BY <1>1, <3>1, <3>3, HeapsAndLists DEF CacheTypes
      <3>5. \A g \in Heaps, m \in Lists :
               cache'[g][m] = IF g = BaseDump /\ m = list THEN d ELSE cache[g][m]
        BY <1>1, <3>3, HeapsAndLists DEF CacheTypes
      <3>. QED
        BY <2>1, <3>2, <3>4, <3>5 DEF Stored
    <2>3. CASE ~(base[h] # None /\ filters[h][list] = <<>>)
      BY <2>1, <2>3 DEF FillFilters, Stored
    <2>. QED
      BY <2>2, <2>3
  <1>4. ASSUME Resume
        PROVE  Stored'
    <2>1. /\ loop # None /\ loop \in Loops /\ loop.heap \in Heaps /\ loop.list \in Lists /\ loop.next \in Nat
          /\ UNCHANGED <<content, base, filters>>
      BY <1>1, <1>4 DEF Resume, CacheTypes, Loops
    <2>2. CASE cache' = cache
      BY <2>1, <2>2 DEF Stored
    <2>3. CASE cache' # cache
      <3>. DEFINE e == Source[loop.next]
                  c == content[loop.heap][loop.list]
                  old == cache[loop.heap][loop.list]
      <3>1. /\ ~loop.replay /\ loop.next <= Len(Source) /\ Source = c
            /\ cache' = [cache EXCEPT ![loop.heap][loop.list] = Append(old, e)]
        BY <1>4, <2>3 DEF Resume, Source
      <3>2. c \in Seq(AllFound) /\ old \in Seq(AllFound)
        BY <1>1, <2>1, ContentTypes DEF CacheTypes
      <3>3. loop.next \in DOMAIN c /\ e = c[loop.next] /\ e \in AllFound
        BY <2>1, <3>1, <3>2 DEF CacheInv, FillingLoop
      <3>4. Within(old, c)
        BY <2>1 DEF Stored
      <3>. DEFINE more == Append(old, e)
      <3>5. /\ Len(old) \in Nat /\ DOMAIN old = 1..Len(old) /\ DOMAIN more = 1..(Len(old) + 1)
            /\ \A i \in 1..Len(old) : more[i] = old[i]
            /\ more[Len(old) + 1] = e
        BY <3>2, <3>3, Appended
      <3>6. \A i \in DOMAIN more : i \in DOMAIN old \/ i = Len(old) + 1
        BY <3>5
      <3>7. Within(more, c)
        BY <3>3, <3>4, <3>5, <3>6 DEF Within
      <3>. HIDE DEF more, e, c, old
      <3>8. \A g \in Heaps, m \in Lists :
               cache'[g][m] = IF g = loop.heap /\ m = loop.list THEN more ELSE cache[g][m]
        BY <1>1, <2>1, <3>1 DEF CacheTypes, more
      <3>. QED
        BY <2>1, <3>7, <3>8 DEF Stored, c
    <2>. QED
      BY <2>2, <2>3
  <1>5. CASE Finish \/ Abandon \/ UNCHANGED vars
    BY <1>5 DEF Finish, Abandon, vars, Stored
  <1>. QED
    BY <1>2, <1>3, <1>4, <1>5 DEF NextCache, SetBaseDiffFilter, ClearBaseDiffFilter

-------------------------------------------------------------------------------
(* The filter caches of the dump once a base dump is set.                  *)
LEMMA FiltersAreTheBase ==
    ASSUME CacheInv, NEW list \in Lists, base[Dump] # None, whole[Dump][list],
           filters[Dump][list] # <<>> \/ content[BaseDump][list] = <<>> \/ Running(Dump, list)
    PROVE  filters[Dump][list] = content[BaseDump][list]
  <1>1. FilterCache(Dump, list)
    BY HeapsAndLists DEF CacheInv
  <1>. QED
    BY <1>1 DEF FilterCache

LEMMA FilteredAddressesAreRight ==
    ASSUME CacheInv, Stored
    PROVE  AddressFilterIsRight
  <1>1. CacheTypes
    BY DEF CacheInv
  <1>2. ASSUME NEW block, NEW size, IsAddressFiltered(Dump, block, size)
        PROVE  /\ base[Dump] # None
               /\ \E list \in Lists, e \in Entries :
                     e.block = block /\ e.size = size /\ e \in ToSet(content[BaseDump][list])
    <2>1. PICK list \in Lists :
             \E i \in DOMAIN filters[Dump][list] :
                filters[Dump][list][i].block = block /\ filters[Dump][list][i].size = size
      BY <1>2 DEF IsAddressFiltered
    <2>2. PICK i \in DOMAIN filters[Dump][list] :
             filters[Dump][list][i].block = block /\ filters[Dump][list][i].size = size
      BY <2>1
    <2>3. base[Dump] # None
      <3>1. FilterCache(Dump, list)
        BY HeapsAndLists DEF CacheInv
      <3>2. filters[Dump][list] # <<>>
        BY <2>2
      <3>. QED
        BY <3>1, <3>2 DEF FilterCache
    <2>4. PICK k \in DOMAIN content[BaseDump][list] : filters[Dump][list][i] = content[BaseDump][list][k]
      BY <2>2 DEF Stored, Within
    <2>. DEFINE e == content[BaseDump][list][k]
    <2>5. e \in ToSet(content[BaseDump][list])
      BY DEF ToSet
    <2>6. e \in Entries
      BY <2>5, HeapsAndLists DEF Entries
    <2>. QED
      BY <2>2, <2>3, <2>4, <2>5, <2>6
  <1>3. ASSUME NEW block, NEW size, base[Dump] # None,
               NEW list \in Lists, NEW e \in Entries, e.block = block, e.size = size, e \in ToSet(content[BaseDump][list]),
               \A m \in Lists : filters[Dump][m] # <<>> \/ content[BaseDump][m] = <<>>,
               \A m \in Lists : whole[Dump][m]
        PROVE  IsAddressFiltered(Dump, block, size)
    <2>1. filters[Dump][list] = content[BaseDump][list]
      BY <1>3, FiltersAreTheBase
    <2>2. PICK k \in DOMAIN content[BaseDump][list] : e = content[BaseDump][list][k]
      BY <1>3 DEF ToSet
    <2>. QED
      BY <1>3, <2>1, <2>2 DEF IsAddressFiltered
  <1>4. ASSUME NEW block \in {e.block : e \in Entries}, NEW size \in {e.size : e \in Entries}
        PROVE  LET listed == base[Dump] # None /\
                             \E list \in Lists, e \in Entries :
                                e.block = block /\ e.size = size /\ e \in ToSet(content[BaseDump][list])
                   filled == \A list \in Lists :
                                base[Dump] # None /\ whole[Dump][list] =>
                                   filters[Dump][list] # <<>> \/ content[BaseDump][list] = <<>>
                   clean  == \A list \in Lists : whole[Dump][list]
               IN /\ IsAddressFiltered(Dump, block, size) => listed
                  /\ filled /\ clean /\ listed => IsAddressFiltered(Dump, block, size)
    BY <1>2, <1>3
  <1>. QED
    BY <1>4 DEF AddressFilterIsRight

LEMMA NewOnesAreShown ==
    ASSUME CacheInv
    PROVE  NewAllocationsShown
  <1>. DEFINE l == "entries"
              now == content[Dump][l]
              old == content[BaseDump][l]
              made == {e.made : e \in ToSet(old)}
  <1>. SUFFICES ASSUME Ended(Dump, l), base[Dump] # None
                PROVE  /\ \A e \in {x \in ToSet(now) : x.made \notin made} :
                             e \in ToSet(loop.shown) \/ (e.request = 0 /\ IsAddressFiltered(Dump, e.block, e.size))
                       /\ \A e \in ToSet(now) \ {x \in ToSet(now) : x.made \notin made} : e \notin ToSet(loop.shown)
    BY DEF NewAllocationsShown
  <1>1. CacheTypes /\ l \in Lists /\ whole[Dump][l] /\ Running(Dump, l) /\ base[Dump] = BaseDump
    BY HeapsAndLists DEF CacheInv, Ended, Running, Lists, CacheTypes
  <1>2. Picks(loop.shown, now, Kept(Dump, l))
    BY <1>1, EndedShowsDifference, HeapsAndLists DEF EndedIsExact
  <1>3. PICK at \in [DOMAIN loop.shown -> Kept(Dump, l)] :
           /\ \A i \in DOMAIN loop.shown : loop.shown[i] = now[at[i]]
           /\ \A k \in Kept(Dump, l) : \E i \in DOMAIN loop.shown : at[i] = k
    BY <1>2 DEF Picks
  <1>4. filters[Dump][l] = old
    BY <1>1, FiltersAreTheBase
  <1>5. ASSUME NEW i \in DOMAIN now, NEW j \in DOMAIN old
        PROVE  /\ now[i].made = old[j].made => Same(now[i], old[j])
               /\ Same(now[i], old[j]) /\ now[i].request # 0 => now[i].made = old[j].made
    BY <1>1, MadeAssumption DEF CacheTypes
  <1>6. ASSUME NEW k \in DOMAIN now, now[k].made \notin made
        PROVE  now[k] \in ToSet(loop.shown) \/ (now[k].request = 0 /\ IsAddressFiltered(Dump, now[k].block, now[k].size))
    <2>1. CASE k \in Kept(Dump, l)
      BY <1>3, <2>1 DEF ToSet
    <2>2. CASE k \notin Kept(Dump, l)
      <3>1. PICK j \in DOMAIN old : Same(old[j], now[k])
        BY <1>1, <2>2 DEF Kept, IsFiltered
      <3>2. old[j].made \in made
        BY DEF ToSet
      <3>3. Same(now[k], old[j]) /\ old[j].block = now[k].block /\ old[j].size = now[k].size
        BY <3>1 DEF Same
      <3>4. now[k].request = 0
        BY <1>5, <1>6, <3>2, <3>3
      <3>5. IsAddressFiltered(Dump, now[k].block, now[k].size)
        BY <1>1, <1>4, <3>3 DEF IsAddressFiltered
      <3>. QED
        BY <3>4, <3>5
    <2>. QED
      BY <2>1, <2>2
  <1>7. ASSUME NEW k \in DOMAIN now, now[k].made \in made
        PROVE  now[k] \notin ToSet(loop.shown)
    <2>1. PICK j \in DOMAIN old : old[j].made = now[k].made
      BY <1>7 DEF ToSet
    <2>2. Same(old[j], now[k])
      BY <1>5, <2>1 DEF Same
    <2>3. SUFFICES ASSUME NEW i \in DOMAIN loop.shown, loop.shown[i] = now[k]
                   PROVE  FALSE
      BY DEF ToSet
    <2>4. at[i] \in Kept(Dump, l) /\ now[at[i]] = now[k]
      BY <1>3, <2>3
    <2>5. ~IsFiltered(old, now[k])
      BY <1>1, <2>4, HeapsAndLists DEF Kept
    <2>. QED
      BY <2>2, <2>5 DEF IsFiltered
  <1>. QED
    BY <1>6, <1>7 DEF ToSet

-------------------------------------------------------------------------------
(* A program that opens both dumps anew begins with empty caches.          *)
LEMMA NewHeapsKeepInv ==
    ASSUME CacheInv, Stored, loop = None, UNCHANGED <<content, base, loop>>,
           filters' = [h \in Heaps |-> Empty], cache' = [h \in Heaps |-> Empty],
           whole' = [h \in Heaps |-> [list \in Lists |-> TRUE]]
    PROVE  CacheInv' /\ Stored'
  <1>1. CacheTypes
    BY DEF CacheInv
  <1>2. Empty \in [Lists -> Seq(AllFound)] /\ \A list \in Lists : Empty[list] = <<>>
    BY DEF Empty
  <1>3. CacheTypes'
    BY <1>1, <1>2 DEF CacheTypes
  <1>4. \A h \in Heaps, list \in Lists : filters'[h][list] = <<>> /\ cache'[h][list] = <<>>
    BY <1>2
  <1>5. CacheInv'
    BY <1>3, <1>4 DEF CacheInv, FilterCache, FullCache, FillingLoop, ReplayingLoop, Running
  <1>6. Stored'
    BY <1>4, HeapsAndLists DEF Stored, Within
  <1>. QED
    BY <1>5, <1>6

(* The test program goes through a list only while it collects one.        *)
LoopCollects == test # None /\ loop # None => Judging /\ Step \in Lists

TestInv == CacheInv /\ Stored /\ LoopCollects

LEMMA InitTestInv ==
    ASSUME InitTest
    PROVE  TestInv
  <1>1. InitCache /\ loop = None
    BY DEF InitTest, InitStatistics, InitCache
  <1>. QED
    BY <1>1, InitCacheInv, InitStored DEF TestInv, LoopCollects

LEMMA TestStepKeepsInv ==
    ASSUME TestInv, [NextTest]_testVars
    PROVE  TestInv'
  <1>1. ASSUME [NextCache]_vars, LoopCollects'
        PROVE  TestInv'
    BY <1>1, CacheStepKeepsInv, StepKeepsStored DEF TestInv
  <1>2. loop # None /\ loop.done /\ loop' = None /\ UNCHANGED <<content, base, filters, cache, whole>> => NextCache
    BY DEF NextCache, Finish
  <1>3. CASE test = None /\ NextStatistics /\ UNCHANGED test
    <2>1. LoopCollects'
      BY <1>3 DEF LoopCollects
    <2>2. CASE CacheStep
      BY <1>1, <2>1, <2>2, HeapsAndLists DEF CacheStep, NextCache, Lists
    <2>3. CASE TakeTable
      BY <1>1, <1>2, <2>1, <2>3 DEF TakeTable
    <2>4. CASE ShowView \/ CloseView
      BY <1>1, <2>1, <2>4 DEF ShowView, CloseView
    <2>. QED
      BY <1>3, <2>2, <2>3, <2>4 DEF NextStatistics
  <1>4. CASE TestBegin
    <2>1. Judged \in Heaps
      BY DEF Judged, Heaps
    <2>2. NextCache
      BY <1>4, <2>1 DEF TestBegin, NextCache
    <2>3. LoopCollects'
      BY <1>4 DEF TestBegin, LoopCollects, Judging, Step
    <2>. QED
      BY <1>1, <2>2, <2>3
  <1>5. CASE TestResume
    <2>1. NextCache /\ loop # None
      BY <1>5 DEF TestResume, NextCache, Resume
    <2>2. LoopCollects'
      BY <1>5, <2>1 DEF TestResume, TestInv, LoopCollects, Judging, Step
    <2>. QED
      BY <1>1, <2>1, <2>2
  <1>6. CASE Collect
    <2>1. LoopCollects'
      BY <1>6 DEF Collect, LoopCollects
    <2>. QED
      BY <1>1, <1>2, <1>6, <2>1 DEF Collect
  <1>7. CASE MakeBaseHeap
    <2>1. loop = None
      BY <1>7 DEF MakeBaseHeap, Judging, TestInv, LoopCollects, Lists
    <2>2. [NextCache]_vars /\ loop' = None
      BY <1>7, <2>1 DEF MakeBaseHeap, NextCache, SetBaseDiffFilter, vars
    <2>. QED
      BY <1>1, <2>2 DEF LoopCollects
  <1>8. CASE Judge
    <2>1. loop = None
      BY <1>8 DEF Judge, Judging, TestInv, LoopCollects, Lists
    <2>2. UNCHANGED vars
      BY <1>8 DEF Judge
    <2>. QED
      BY <1>1, <2>1, <2>2 DEF LoopCollects, vars
  <1>9. CASE OpenSecond
    <2>1. loop = None
      BY <1>9, VerdictAssumption DEF OpenSecond, TestInv, LoopCollects, Judging
    <2>. QED
      BY <1>9, <2>1, NewHeapsKeepInv DEF OpenSecond, TestInv, LoopCollects
  <1>10. CASE Exit \/ UNCHANGED testVars
    <2>1. UNCHANGED <<vars, test>>
      BY <1>10 DEF Exit, testVars
    <2>. QED
      BY <1>1, <2>1 DEF TestInv, LoopCollects, Judging, Step, vars
  <1>. QED
    BY <1>3, <1>4, <1>5, <1>6, <1>7, <1>8, <1>9, <1>10 DEF NextTest

LEMMA WithinSets ==
    ASSUME NEW s, NEW t, Within(s, t)
    PROVE  ToSet(s) \subseteq ToSet(t)
  BY DEF Within, ToSet

(* The caches hold entries of the dump they belong to, the filter caches    *)
(* those of its base dump, and a running loop stands within its source.     *)
THEOREM CacheTypeCorrect == TestSpec => []CacheTypeOK
  <1>1. InitTest => TestInv
    BY InitTestInv
  <1>2. TestInv /\ [NextTest]_testVars => TestInv'
    BY TestStepKeepsInv
  <1>3. ASSUME TestInv
        PROVE  CacheTypeOK
    <2>1. CacheTypes /\ Stored /\ FillingLoop /\ ReplayingLoop
      BY <1>3 DEF TestInv, CacheInv
    <2>2. base[Dump] \in {None, BaseDump} /\ base[BaseDump] = None
      BY <2>1, HeapsAndLists DEF CacheTypes
    <2>3. ASSUME NEW h \in Heaps, NEW list \in Lists
          PROVE  /\ ToSet(cache[h][list]) \subseteq ToSet(content[h][list])
                 /\ base[h] = None => filters[h][list] = <<>>
                 /\ base[h] # None => ToSet(filters[h][list]) \subseteq ToSet(content[base[h]][list])
                 /\ whole[h][list] \in BOOLEAN
      <3>1. ToSet(cache[h][list]) \subseteq ToSet(content[h][list])
        BY <2>1, WithinSets DEF Stored
      <3>2. FilterCache(h, list)
        BY <1>3 DEF TestInv, CacheInv
      <3>3. ASSUME base[h] # None
            PROVE  ToSet(filters[h][list]) \subseteq ToSet(content[base[h]][list])
        <4>1. h = Dump /\ base[h] = BaseDump
          BY <2>2, <3>3, HeapsAndLists
        <4>. QED
          BY <2>1, <4>1, WithinSets DEF Stored
      <3>4. whole[h][list] \in BOOLEAN
        BY <2>1 DEF CacheTypes
      <3>. QED
        BY <3>1, <3>2, <3>3, <3>4 DEF FilterCache
    <2>4. loop # None => loop \in Loops /\ loop.next \in 1 .. (Len(Source) + 1)
      BY <2>1 DEF CacheTypes, FillingLoop, ReplayingLoop, Source
    <2>. QED
      BY <2>2, <2>3, <2>4 DEF CacheTypeOK
  <1>. QED
    BY <1>1, <1>2, <1>3, PTL DEF TestSpec

(* Whoever runs the loops (MiniDumper, the statistics or the test program), *)
(* a loop over a list that comes to its end has shown the entries that the  *)
(* base dump does not have, each once and in the order of the walk, unless  *)
(* a loop over that list was left early since the caches were cleared.      *)
THEOREM CachesStayExact == TestSpec => []EndedIsExact
  <1>1. InitTest => TestInv
    BY InitTestInv
  <1>2. TestInv /\ [NextTest]_testVars => TestInv'
    BY TestStepKeepsInv
  <1>3. TestInv => EndedIsExact
    BY EndedShowsDifference DEF TestInv
  <1>. QED
    BY <1>1, <1>2, <1>3, PTL DEF TestSpec

(* is_address_filtered never blames a base dump that is not set and is      *)
(* right once both lists were gone through; and a loop shows every new      *)
(* allocation that can be told from those of the base dump, and no old one. *)
THEOREM FilterStaysRight == TestSpec => []FilterRight
  <1>1. InitTest => TestInv
    BY InitTestInv
  <1>2. TestInv /\ [NextTest]_testVars => TestInv'
    BY TestStepKeepsInv
  <1>3. TestInv => FilterRight
    BY FilteredAddressesAreRight, NewOnesAreShown DEF TestInv, FilterRight
  <1>. QED
    BY <1>1, <1>2, <1>3, PTL DEF TestSpec

-------------------------------------------------------------------------------
(* Nothing in the list of a dump has its last byte where another has.      *)
KeysDiffer(found) == \A i, j \in DOMAIN found : i # j => Key(found[i]) # Key(found[j])

LEMMA RangesHaveKeys ==
    ASSUME NEW e, e.block \in Nat, e.size \in Nat
    PROVE  /\ RangeOf(e).first = e.block /\ RangeOf(e).size = e.size
           /\ Key(e) \in Nat /\ e.block <= Key(e)
           /\ e.size > 0 => Key(e) = e.block + e.size - 1
           /\ e.size = 0 => Key(e) = e.block
  <1>1. RangeOf(e).first = e.block /\ RangeOf(e).size = e.size
    BY DEF RangeOf
  <1>2. Key(e) = e.block + (IF e.size = 0 THEN 1 ELSE e.size) - 1
    BY <1>1 DEF Key, R!LastAddress
  <1>. QED
    BY <1>1, <1>2

LEMMA ApartKeys ==
    ASSUME NEW e, NEW f, e.block \in Nat, e.size \in Nat, f.block \in Nat, f.size \in Nat,
           R!Apart(RangeOf(e), RangeOf(f))
    PROVE  Key(e) < f.block \/ Key(f) < e.block
  BY RangesHaveKeys DEF R!Apart, Key

(* What the assumption on the dumps of a test program says of one list.    *)
LEMMA ListsHaveRoom ==
    ASSUME content \in Contents, "claims" \in DOMAIN content[Dump],
           NEW h \in Heaps, NEW list \in Lists, NEW e \in ToSet(content[h][list])
    PROVE  /\ e.block \in Nat /\ e.size \in Nat
           /\ \A f \in ToSet(content[h][list]) : f = e \/ Key(e) < f.block \/ Key(f) < e.block
  <1>. DEFINE found == content[h][list]
  <1>1. \A i, j \in DOMAIN found :
           /\ found[i].block \in Nat /\ found[i].size \in Nat
           /\ i # j => R!Apart(RangeOf(found[i]), RangeOf(found[j]))
    BY TestDumpsAssumption
  <1>. HIDE DEF found
  <1>2. PICK i \in DOMAIN found : e = found[i]
    BY DEF ToSet, found
  <1>3. ASSUME NEW f \in ToSet(found)
        PROVE  f = e \/ Key(e) < f.block \/ Key(f) < e.block
    <2>1. PICK j \in DOMAIN found : f = found[j]
      BY DEF ToSet
    <2>2. CASE i = j
      BY <1>2, <2>1, <2>2
    <2>3. CASE i # j
      BY <1>1, <1>2, <2>1, <2>3, ApartKeys
    <2>. QED
      BY <2>2, <2>3
  <1>. QED
    BY <1>1, <1>2, <1>3 DEF found

LEMMA ListsHaveKeys ==
    ASSUME content \in Contents, "claims" \in DOMAIN content[Dump],
           NEW h \in Heaps, NEW list \in Lists
    PROVE  KeysDiffer(content[h][list])
  <1>. DEFINE found == content[h][list]
  <1>1. \A i, j \in DOMAIN found :
           /\ found[i].block \in Nat /\ found[i].size \in Nat
           /\ i # j => R!Apart(RangeOf(found[i]), RangeOf(found[j]))
    BY TestDumpsAssumption
  <1>. HIDE DEF found
  <1>2. ASSUME NEW i \in DOMAIN found, NEW j \in DOMAIN found, i # j
        PROVE  Key(found[i]) # Key(found[j])
    <2>1. Key(found[i]) < found[j].block \/ Key(found[j]) < found[i].block
      BY <1>1, <1>2, ApartKeys
    <2>2. /\ Key(found[i]) \in Nat /\ found[i].block <= Key(found[i])
          /\ Key(found[j]) \in Nat /\ found[j].block <= Key(found[j])
      BY <1>1, RangesHaveKeys
    <2>. QED
      BY <1>1, <2>1, <2>2
  <1>. QED
    BY <1>2 DEF KeysDiffer, found

(* What the program takes of a list: allocations need an address.          *)
AtAddress(map) == {e \in map : e.block # 0}
TakenOf(list, map) == IF list = "entries" THEN AtAddress(map) ELSE map

(* A map of what is picked from such a list has all of it that is taken.   *)
LEMMA MapHasAll ==
    ASSUME NEW shown \in Seq(AllFound), NEW found, NEW places \in SUBSET DOMAIN found, NEW list,
           Picks(shown, found, places), KeysDiffer(found), DOMAIN found \subseteq Nat
    PROVE  /\ MapOf(list, shown) = TakenOf(list, {found[k] : k \in places})
           /\ ToSet(shown) = {found[k] : k \in places}
  <1>1. PICK at \in [DOMAIN shown -> places] :
            /\ \A i, j \in DOMAIN shown : i < j => at[i] < at[j]
            /\ \A i \in DOMAIN shown : shown[i] = found[at[i]]
            /\ \A k \in places : \E i \in DOMAIN shown : at[i] = k
    BY DEF Picks
  <1>2. Len(shown) \in Nat /\ DOMAIN shown = 1..Len(shown)
    OBVIOUS
  <1>3. ASSUME NEW i \in DOMAIN shown, NEW k \in DOMAIN shown, k < i
        PROVE  Key(shown[k]) # Key(shown[i])
    <2>1. k \in DOMAIN shown /\ k < i
      BY <1>3
    <2>2. at[k] < at[i] /\ at[k] \in DOMAIN found /\ at[i] \in DOMAIN found
      BY <1>1, <2>1
    <2>3. at[k] # at[i]
      BY <2>2
    <2>. QED
      BY <1>1, <2>1, <2>2, <2>3 DEF KeysDiffer
  <1>4. {i \in Taken(list, shown) : \A k \in Taken(list, shown) : k < i => Key(shown[k]) # Key(shown[i])}
            = Taken(list, shown)
    BY <1>3 DEF Taken
  <1>5. MapOf(list, shown) = {shown[i] : i \in Taken(list, shown)}
    BY <1>4 DEF MapOf
  <1>6. ToSet(shown) = {shown[i] : i \in DOMAIN shown}
    BY DEF ToSet
  <1>7. {shown[i] : i \in DOMAIN shown} = {found[k] : k \in places}
    BY <1>1
  <1>8. {shown[i] : i \in Taken(list, shown)} = TakenOf(list, {shown[i] : i \in DOMAIN shown})
    BY DEF Taken, TakenOf, AtAddress
  <1>. QED
    BY <1>5, <1>6, <1>7, <1>8

(* The cache of a loop that came to its end has what the loop has shown.   *)
LEMMA EndedIsCached ==
    ASSUME CacheInv, NEW h \in Heaps, NEW list \in Lists, Ended(h, list)
    PROVE  cache[h][list] = loop.shown /\ loop.shown \in Seq(AllFound)
  <1>1. /\ CacheTypes /\ FillingLoop /\ ReplayingLoop
        /\ loop # None /\ loop.done /\ loop.heap = h /\ loop.list = list /\ whole[h][list]
    BY DEF CacheInv, Ended
  <1>2. /\ cache[h][list] \in Seq(AllFound) /\ loop.shown \in Seq(AllFound) /\ loop.replay \in BOOLEAN
        /\ loop.next \in Nat
    BY <1>1 DEF CacheTypes, Loops
  <1>3. CASE loop.replay
    <2>1. loop.next = Len(cache[h][list]) + 1 /\ Prefix(loop.shown, cache[h][list], loop.next - 1)
      BY <1>1, <1>3 DEF ReplayingLoop
    <2>2. loop.next - 1 = Len(cache[h][list])
      BY <1>2, <2>1
    <2>. QED
      BY <1>2, <2>1, <2>2, PrefixIsWhole
  <1>4. CASE ~loop.replay
    BY <1>1, <1>2, <1>4 DEF FillingLoop
  <1>. QED
    BY <1>3, <1>4

(* The map the test program makes of a loop is what is taken of the        *)
(* difference of the dumps.                                                *)
LEMMA MapOfEnded ==
    ASSUME CacheInv, "claims" \in DOMAIN content[Dump],
           NEW h \in Heaps, NEW list \in Lists, Ended(h, list)
    PROVE  MapOf(list, loop.shown) = TakenOf(list, Difference(h, list)) /\ ToSet(cache[h][list]) = Difference(h, list)
  <1>1. content \in Contents /\ CacheTypes
    BY DEF CacheInv, CacheTypes
  <1>2. content[h][list] \in Seq(AllFound)
    BY <1>1, ContentTypes
  <1>3. Picks(loop.shown, content[h][list], Kept(h, list))
    BY EndedShowsDifference DEF EndedIsExact
  <1>4. Kept(h, list) \in SUBSET DOMAIN content[h][list] /\ DOMAIN content[h][list] \subseteq Nat
    BY <1>2 DEF Kept
  <1>5. cache[h][list] = loop.shown /\ loop.shown \in Seq(AllFound)
    BY EndedIsCached
  <1>6. KeysDiffer(content[h][list])
    BY <1>1, ListsHaveKeys
  <1>. QED
    BY <1>3, <1>4, <1>5, <1>6, MapHasAll DEF Difference

LEMMA DifferenceWithoutBase ==
    ASSUME NEW h, NEW list, base[h] = None
    PROVE  Difference(h, list) = ToSet(content[h][list])
  BY DEF Difference, Kept, ToSet

-------------------------------------------------------------------------------
(* What the test program has when it judges: the lists of the dump, those  *)
(* of its difference to the base dump, and of the first file that nothing  *)
(* was wrong with its CRT blocks.                                          *)
TestTypes ==
    /\ test \in [file : {1, 2}, step : 1..6, stacktrace : BOOLEAN, skip_fake_offset_check : BOOLEAN,
                 all : SUBSET AllFound, all_free : SUBSET AllFound,
                 diff : SUBSET AllFound, diff_free : SUBSET AllFound,
                 verdict : {None, "passed", "failed", "crashed"}]
    /\ "claims" \in DOMAIN content[Dump]
    /\ base[Dump] = IF test.file = 2 /\ test.step > 3 THEN BaseDump ELSE None

WholeLoops ==
    /\ \A h \in Heaps, list \in Lists : whole[h][list]
    /\ loop # None => loop.heap = Judged /\ loop.list = Step

CollectedLists ==
    /\ test.step > 1 => test.all = AtAddress(ToSet(content[Judged]["entries"]))
    /\ test.step > 2 => test.all_free = ToSet(content[Judged]["free_entries"])
    /\ test.step > 4 => test.diff = AtAddress(Difference(Judged, "entries"))
    /\ test.step > 5 => test.diff_free = Difference(Judged, "free_entries")

CachedForGraph == test.step > 4 => ToSet(cache[Judged]["entries"]) = Difference(Judged, "entries")

FirstPassed == test.file = 2 \/ test.verdict = "passed" => MatchesAccepted(BaseDump)

CollectInv == test # None => TestTypes /\ WholeLoops /\ CollectedLists /\ CachedForGraph /\ FirstPassed

LEMMA JudgedDump ==
    ASSUME TestTypes, base[BaseDump] = None
    PROVE  /\ Judged \in Heaps
           /\ test.file = 1 => Judged = BaseDump
           /\ test.file = 2 => Judged = Dump
           /\ base[Judged] = IF test.file = 2 /\ test.step > 3 THEN BaseDump ELSE None
  BY DEF TestTypes, Judged, Heaps

LEMMA InitCollectInv ==
    ASSUME InitTest
    PROVE  CollectInv
  <1>. SUFFICES ASSUME test # None
                PROVE  TestTypes /\ WholeLoops /\ CollectedLists /\ CachedForGraph /\ FirstPassed
    BY DEF CollectInv
  <1>1. /\ "claims" \in DOMAIN content[Dump]
        /\ test \in [file : {1}, step : {1}, stacktrace : BOOLEAN, skip_fake_offset_check : BOOLEAN,
                     all : {{}}, all_free : {{}}, diff : {{}}, diff_free : {{}}, verdict : {None}]
        /\ InitCache
    BY DEF InitTest, InitStatistics
  <1>2. test.file = 1 /\ test.step = 1 /\ test.verdict = None
    BY <1>1
  <1>3. TestTypes
    <2>1. test \in [file : {1, 2}, step : 1..6, stacktrace : BOOLEAN, skip_fake_offset_check : BOOLEAN,
                    all : SUBSET AllFound, all_free : SUBSET AllFound,
                    diff : SUBSET AllFound, diff_free : SUBSET AllFound,
                    verdict : {None, "passed", "failed", "crashed"}]
      BY <1>1
    <2>. QED
      BY <1>1, <1>2, <2>1, HeapsAndLists DEF TestTypes, InitCache
  <1>4. WholeLoops
    BY <1>1 DEF WholeLoops, InitCache
  <1>5. CollectedLists /\ CachedForGraph /\ FirstPassed
    BY <1>2, VerdictAssumption DEF CollectedLists, CachedForGraph, FirstPassed
  <1>. QED
    BY <1>3, <1>4, <1>5

LEMMA UnchangedJudged ==
    ASSUME UNCHANGED <<content, base>>, test'.file = test.file
    PROVE  /\ Judged' = Judged
           /\ \A list : Difference(Judged, list)' = Difference(Judged, list)
           /\ MatchesAccepted(BaseDump)' = MatchesAccepted(BaseDump)
  <1>1. Judged' = Judged
    BY DEF Judged
  <1>. QED
    BY <1>1 DEF Difference, Kept, MatchesAccepted

(* Neither the beginning of a loop nor a step of it changes what is        *)
(* collected.                                                              *)
LEMMA LoopKeepsCollected ==
    ASSUME TestInv, CollectInv, TestBegin \/ TestResume
    PROVE  CollectInv'
  <1>. SUFFICES ASSUME test # None
                PROVE  (TestTypes /\ WholeLoops /\ CollectedLists /\ CachedForGraph /\ FirstPassed)'
    BY DEF CollectInv, TestBegin, TestResume
  <1>1. /\ TestTypes /\ WholeLoops /\ CollectedLists /\ CachedForGraph /\ FirstPassed
        /\ CacheInv /\ CacheTypes /\ base[BaseDump] = None
        /\ UNCHANGED <<content, base, test>>
    BY DEF CollectInv, TestInv, CacheInv, CacheTypes, TestBegin, TestResume, Begin, Resume
  <1>2. /\ Judged \in Heaps
        /\ test.file = 1 => Judged = BaseDump
        /\ test.file = 2 => Judged = Dump
        /\ base[Judged] = IF test.file = 2 /\ test.step > 3 THEN BaseDump ELSE None
    BY <1>1, JudgedDump
  <1>3. /\ Judged' = Judged
        /\ \A list : Difference(Judged, list)' = Difference(Judged, list)
        /\ MatchesAccepted(BaseDump)' = MatchesAccepted(BaseDump)
        /\ Step' = Step
    BY <1>1, UnchangedJudged DEF Step
  <1>4. TestTypes' /\ CollectedLists' /\ FirstPassed'
    <2>1. TestTypes'
      BY <1>1 DEF TestTypes
    <2>2. CollectedLists'
      BY <1>1, <1>3 DEF CollectedLists
    <2>3. FirstPassed'
      BY <1>1, <1>3 DEF FirstPassed
    <2>. QED
      BY <2>1, <2>2, <2>3
  <1>5. test.step > 4 /\ Step \in Lists => Step = "free_entries"
    <2>1. test.step \in 1..6
      BY <1>1 DEF TestTypes
    <2>. QED
      BY <2>1 DEF Step, Steps, Lists
  <1>6. CASE TestBegin
    <2>1. /\ Step \in Lists /\ FillFilters(Judged, Step)
          /\ loop' = [heap |-> Judged, list |-> Step, replay |-> cache[Judged][Step] # <<>>,
                      next |-> 1, shown |-> <<>>, done |-> FALSE]
      BY <1>6 DEF TestBegin, Begin
    <2>2. loop'.heap = Judged /\ loop'.list = Step
      BY <2>1
    <2>3. CASE base[Judged] # None /\ filters[Judged][Step] = <<>>
      <3>1. base[Judged] = BaseDump /\ Judged = Dump
        BY <1>1, <1>2, <2>3 DEF TestTypes
      <3>2. /\ cache' = [cache EXCEPT ![BaseDump][Step] = Drained(BaseDump, Step)]
            /\ whole' = [whole EXCEPT ![Judged][Step] = @ /\ whole[BaseDump][Step]]
        BY <2>1, <2>3, <3>1 DEF FillFilters
      <3>3. cache'[Judged] = cache[Judged]
        BY <1>1, <3>1, <3>2, HeapsAndLists DEF CacheTypes
      <3>4. ASSUME NEW h \in Heaps, NEW list \in Lists
            PROVE  whole'[h][list]
        <4>1. whole[h][list] /\ whole[BaseDump][Step] /\ whole[Judged][Step]
          BY <1>1, <1>2, <2>1, HeapsAndLists DEF WholeLoops
        <4>2. CASE h = Judged /\ list = Step
          <5>1. whole'[h][list] = (whole[Judged][Step] /\ whole[BaseDump][Step])
            BY <1>1, <1>2, <2>1, <3>2, <4>2 DEF CacheTypes
          <5>. QED
            BY <4>1, <5>1
        <4>3. CASE ~(h = Judged /\ list = Step)
          <5>1. whole'[h][list] = whole[h][list]
            BY <1>1, <1>2, <2>1, <3>2, <4>3 DEF CacheTypes
          <5>. QED
            BY <4>1, <5>1
        <4>. QED
          BY <4>2, <4>3
      <3>5. WholeLoops'
        BY <1>3, <2>2, <3>4 DEF WholeLoops
      <3>6. CachedForGraph'
        BY <1>1, <1>3, <3>3 DEF CachedForGraph
      <3>. QED
        BY <1>4, <3>5, <3>6
    <2>4. CASE ~(base[Judged] # None /\ filters[Judged][Step] = <<>>)
      <3>1. UNCHANGED <<cache, whole>>
        BY <2>1, <2>4 DEF FillFilters
      <3>2. WholeLoops'
        BY <1>1, <1>3, <2>2, <3>1 DEF WholeLoops
      <3>3. CachedForGraph'
        BY <1>1, <1>3, <3>1 DEF CachedForGraph
      <3>. QED
        BY <1>4, <3>2, <3>3
    <2>. QED
      BY <2>3, <2>4
  <1>7. CASE TestResume
    <2>1. /\ Resume /\ loop # None /\ loop \in Loops /\ loop.heap = Judged /\ loop.list = Step /\ Step \in Lists
          /\ whole' = whole
      BY <1>1, <1>7 DEF TestResume, Resume, WholeLoops, CacheTypes, Loops
    <2>2. loop'.heap = loop.heap /\ loop'.list = loop.list
      BY <2>1 DEF Resume, Skipped, Loops
    <2>3. WholeLoops'
      BY <1>1, <1>3, <2>1, <2>2 DEF WholeLoops
    <2>4. test.step > 4 => cache'[Judged]["entries"] = cache[Judged]["entries"]
      <3>1. cache' = cache \/ \E s : cache' = [cache EXCEPT ![Judged][Step] = s]
        BY <2>1 DEF Resume
      <3>2. "entries" \in Lists /\ "entries" # "free_entries"
        BY DEF Lists
      <3>. QED
        BY <1>1, <1>2, <1>5, <2>1, <3>1, <3>2 DEF CacheTypes
    <2>5. CachedForGraph'
      BY <1>1, <1>3, <2>4 DEF CachedForGraph
    <2>. QED
      BY <1>4, <2>3, <2>5
  <1>. QED
    BY <1>6, <1>7

LEMMA TheSteps ==
    /\ Steps[1] = "entries" /\ Steps[2] = "free_entries" /\ Steps[3] = "base"
    /\ Steps[4] = "entries" /\ Steps[5] = "free_entries" /\ Steps[6] = "judge"
    /\ Collected[1] = "all" /\ Collected[2] = "all_free"
    /\ Collected[4] = "diff" /\ Collected[5] = "diff_free"
    /\ "entries" \in Lists /\ "free_entries" \in Lists /\ "base" \notin Lists /\ "judge" \notin Lists
    /\ \A n \in 1..6 : n = 1 \/ n = 2 \/ n = 3 \/ n = 4 \/ n = 5 \/ n = 6
  <1>1. \A n \in 1..6 : n = 1 \/ n = 2 \/ n = 3 \/ n = 4 \/ n = 5 \/ n = 6
    OBVIOUS
  <1>. QED
    BY <1>1 DEF Steps, Collected, Lists

(* What a loop has shown is the difference of the dumps, and as long as no *)
(* base dump is set all of the list.                                       *)
LEMMA CollectKeepsCollected ==
    ASSUME TestInv, CollectInv, Collect
    PROVE  CollectInv'
  <1>. SUFFICES (TestTypes /\ WholeLoops /\ CollectedLists /\ CachedForGraph /\ FirstPassed)'
    BY DEF CollectInv
  <1>. DEFINE map == MapOf(Step, loop.shown)
              Record == [file : {1, 2}, step : 1..6, stacktrace : BOOLEAN, skip_fake_offset_check : BOOLEAN,
                         all : SUBSET AllFound, all_free : SUBSET AllFound,
                         diff : SUBSET AllFound, diff_free : SUBSET AllFound,
                         verdict : {None, "passed", "failed", "crashed"}]
  <1>1. /\ TestTypes /\ WholeLoops /\ CollectedLists /\ CachedForGraph /\ FirstPassed
        /\ CacheInv /\ CacheTypes /\ base[BaseDump] = None
        /\ UNCHANGED <<content, base, cache, whole>>
        /\ test # None /\ test.verdict = None /\ loop # None /\ loop.done /\ loop' = None
        /\ Step \in Lists
    BY DEF CollectInv, TestInv, CacheInv, CacheTypes, Collect, Judging, LoopCollects
  <1>2. /\ Judged \in Heaps
        /\ test.file = 1 => Judged = BaseDump
        /\ test.file = 2 => Judged = Dump
        /\ base[Judged] = IF test.file = 2 /\ test.step > 3 THEN BaseDump ELSE None
    BY <1>1, JudgedDump
  <1>3. Ended(Judged, Step)
    BY <1>1, <1>2 DEF Ended, WholeLoops
  <1>4. map = TakenOf(Step, Difference(Judged, Step)) /\ ToSet(cache[Judged][Step]) = Difference(Judged, Step)
    BY <1>1, <1>2, <1>3, MapOfEnded DEF TestTypes
  <1>5. map \subseteq AllFound
    <2>1. content[Judged][Step] \in Seq(AllFound)
      BY <1>1, <1>2, ContentTypes
    <2>2. \A k \in Kept(Judged, Step) : content[Judged][Step][k] \in AllFound
      BY <2>1 DEF Kept
    <2>. QED
      BY <1>4, <2>2 DEF Difference, TakenOf, AtAddress
  <1>6. test \in Record /\ test' = [test EXCEPT ![Collected[test.step]] = map, !.step = @ + 1]
    BY <1>1 DEF TestTypes, Collect
  <1>. HIDE DEF map, Record
  <1>7. test.step \in 1..6
    BY <1>6 DEF Record
  <1>8. test.step \in {1, 2, 4, 5}
    BY <1>1, <1>7, TheSteps DEF Step
  <1>9. /\ Judged' = Judged
        /\ \A list : Difference(Judged, list)' = Difference(Judged, list)
        /\ MatchesAccepted(BaseDump)' = MatchesAccepted(BaseDump)
        /\ test' \in Record /\ test'.step = test.step + 1
        /\ test'.file = test.file /\ test'.verdict = test.verdict
        /\ CollectedLists' /\ CachedForGraph'
    <2>. SUFFICES /\ test' \in Record /\ test'.step = test.step + 1
                  /\ test'.file = test.file /\ test'.verdict = test.verdict
                  /\ Judged' = Judged => CollectedLists' /\ CachedForGraph'
      BY <1>1, UnchangedJudged
    <2>1. CASE test.step = 1
      <3>. DEFINE with == [test EXCEPT !.all = map]
      <3>1. Step = "entries" /\ test' = [with EXCEPT !.step = @ + 1]
        <4>1. Step = "entries" /\ Collected[test.step] = "all"
          BY <2>1, TheSteps DEF Step
        <4>2. test' = [test EXCEPT !.all = map, !.step = @ + 1]
          BY <1>6, <4>1, Zenon
        <4>. QED
          BY <4>1, <4>2
      <3>2. /\ test' \in Record /\ test'.step = 2 /\ test'.all = map
            /\ test'.file = test.file /\ test'.verdict = test.verdict
        <4>1. /\ with \in Record /\ with.step = 1 /\ with.all = map
              /\ with.file = test.file /\ with.verdict = test.verdict
          BY <1>5, <1>6, <2>1 DEF Record
        <4>. HIDE DEF with
        <4>. QED
          BY <3>1, <4>1 DEF Record
      <3>3. map = AtAddress(ToSet(content[Judged]["entries"]))
        BY <1>2, <1>4, <2>1, <3>1, DifferenceWithoutBase DEF TakenOf
      <3>4. Judged' = Judged => CollectedLists' /\ CachedForGraph'
        BY <1>1, <3>2, <3>3 DEF CollectedLists, CachedForGraph
      <3>. QED
        BY <2>1, <3>2, <3>4
    <2>2. CASE test.step = 2
      <3>. DEFINE with == [test EXCEPT !.all_free = map]
      <3>1. Step = "free_entries" /\ test' = [with EXCEPT !.step = @ + 1]
        <4>1. Step = "free_entries" /\ Collected[test.step] = "all_free"
          BY <2>2, TheSteps DEF Step
        <4>2. test' = [test EXCEPT !.all_free = map, !.step = @ + 1]
          BY <1>6, <4>1, Zenon
        <4>. QED
          BY <4>1, <4>2
      <3>2. /\ test' \in Record /\ test'.step = 3 /\ test'.all_free = map /\ test'.all = test.all
            /\ test'.file = test.file /\ test'.verdict = test.verdict
        <4>1. /\ with \in Record /\ with.step = 2 /\ with.all_free = map
              /\ with.file = test.file /\ with.verdict = test.verdict /\ with.all = test.all
          BY <1>5, <1>6, <2>2 DEF Record
        <4>. HIDE DEF with
        <4>. QED
          BY <3>1, <4>1 DEF Record
      <3>3. map = ToSet(content[Judged]["free_entries"])
        BY <1>2, <1>4, <2>2, <3>1, DifferenceWithoutBase DEF TakenOf
      <3>4. Judged' = Judged => CollectedLists' /\ CachedForGraph'
        BY <1>1, <2>2, <3>2, <3>3 DEF CollectedLists, CachedForGraph
      <3>. QED
        BY <2>2, <3>2, <3>4
    <2>3. CASE test.step = 4
      <3>. DEFINE with == [test EXCEPT !.diff = map]
      <3>1. Step = "entries" /\ test' = [with EXCEPT !.step = @ + 1]
        <4>1. Step = "entries" /\ Collected[test.step] = "diff"
          BY <2>3, TheSteps DEF Step
        <4>2. test' = [test EXCEPT !.diff = map, !.step = @ + 1]
          BY <1>6, <4>1, Zenon
        <4>. QED
          BY <4>1, <4>2
      <3>2. /\ test' \in Record /\ test'.step = 5 /\ test'.diff = map
            /\ test'.all = test.all /\ test'.all_free = test.all_free
            /\ test'.file = test.file /\ test'.verdict = test.verdict
        <4>1. /\ with \in Record /\ with.step = 4 /\ with.diff = map
              /\ with.file = test.file /\ with.verdict = test.verdict /\ with.all = test.all /\ with.all_free = test.all_free
          BY <1>5, <1>6, <2>3 DEF Record
        <4>. HIDE DEF with
        <4>. QED
          BY <3>1, <4>1 DEF Record
      <3>3. ASSUME Judged' = Judged PROVE CollectedLists' /\ CachedForGraph'
        <4>1. \A list : Difference(Judged, list)' = Difference(Judged, list)
          BY <1>1, <3>2, UnchangedJudged
        <4>2. CollectedLists'
          BY <1>1, <1>4, <2>3, <3>1, <3>2, <3>3, <4>1 DEF CollectedLists, TakenOf
        <4>3. CachedForGraph'
          BY <1>1, <1>4, <3>1, <3>3, <4>1 DEF CachedForGraph
        <4>. QED
          BY <4>2, <4>3
      <3>. QED
        BY <2>3, <3>2, <3>3
    <2>4. CASE test.step = 5
      <3>. DEFINE with == [test EXCEPT !.diff_free = map]
      <3>1. Step = "free_entries" /\ test' = [with EXCEPT !.step = @ + 1]
        <4>1. Step = "free_entries" /\ Collected[test.step] = "diff_free"
          BY <2>4, TheSteps DEF Step
        <4>2. test' = [test EXCEPT !.diff_free = map, !.step = @ + 1]
          BY <1>6, <4>1, Zenon
        <4>. QED
          BY <4>1, <4>2
      <3>2. /\ test' \in Record /\ test'.step = 6 /\ test'.diff_free = map /\ test'.diff = test.diff
            /\ test'.all = test.all /\ test'.all_free = test.all_free
            /\ test'.file = test.file /\ test'.verdict = test.verdict
        <4>1. /\ with \in Record /\ with.step = 5 /\ with.diff_free = map
              /\ with.file = test.file /\ with.verdict = test.verdict /\ with.diff = test.diff
              /\ with.all = test.all /\ with.all_free = test.all_free
          BY <1>5, <1>6, <2>4 DEF Record
        <4>. HIDE DEF with
        <4>. QED
          BY <3>1, <4>1 DEF Record
      <3>3. ASSUME Judged' = Judged PROVE CollectedLists' /\ CachedForGraph'
        <4>1. \A list : Difference(Judged, list)' = Difference(Judged, list)
          BY <1>1, <3>2, UnchangedJudged
        <4>2. CollectedLists'
          BY <1>1, <1>4, <2>4, <3>1, <3>2, <3>3, <4>1 DEF CollectedLists, TakenOf
        <4>3. CachedForGraph'
          BY <1>1, <2>4, <3>3, <4>1 DEF CachedForGraph
        <4>. QED
          BY <4>2, <4>3
      <3>. QED
        BY <2>4, <3>2, <3>3
    <2>. QED
      BY <1>8, <2>1, <2>2, <2>3, <2>4
  <1>10. TestTypes'
    <2>1. test'.step > 3 <=> test.step > 3
      BY <1>8, <1>9
    <2>2. base'[Dump] = IF test'.file = 2 /\ test'.step > 3 THEN BaseDump ELSE None
      BY <1>1, <1>9, <2>1 DEF TestTypes
    <2>3. "claims" \in DOMAIN content'[Dump]
      BY <1>1 DEF TestTypes
    <2>. QED
      BY <1>9, <2>2, <2>3 DEF TestTypes, Record
  <1>11. WholeLoops'
    BY <1>1, <1>9 DEF WholeLoops
  <1>12. FirstPassed'
    BY <1>1, <1>9 DEF FirstPassed
  <1>. QED
    BY <1>9, <1>10, <1>11, <1>12

(* Setting the base dump empties the caches, after all of the lists and    *)
(* before their difference is collected.                                   *)
LEMMA BaseKeepsCollected ==
    ASSUME TestInv, CollectInv, MakeBaseHeap
    PROVE  CollectInv'
  <1>. SUFFICES (TestTypes /\ WholeLoops /\ CollectedLists /\ CachedForGraph /\ FirstPassed)'
    BY DEF CollectInv
  <1>1. /\ TestTypes /\ WholeLoops /\ CollectedLists /\ CachedForGraph /\ FirstPassed
        /\ CacheTypes /\ Judging /\ Step = "base" /\ test # None
    BY DEF CollectInv, TestInv, CacheInv, MakeBaseHeap, Judging
  <1>2. test.step = 3 /\ loop = None
    <2>1. test.step \in 1..6
      BY <1>1 DEF TestTypes
    <2>. QED
      BY <1>1, <2>1 DEF Step, Steps, TestInv, LoopCollects, Lists
  <1>3. content' = content
    BY DEF MakeBaseHeap, SetBaseDiffFilter, vars
  <1>4. /\ test.file = 1 => Judged = BaseDump
        /\ test.file = 2 => Judged = Dump
        /\ base[Judged] = None
        /\ base \in [Heaps -> {None, BaseDump}]
    BY <1>1, <1>2, JudgedDump DEF CacheTypes
  <1>5. \/ test.file = 1 /\ test' = [test EXCEPT !.step = 4] /\ UNCHANGED vars
        \/ test.file = 2 /\ test' = [test EXCEPT !.step = 4] /\ SetBaseDiffFilter
        \/ test.file = 2 /\ test' = [test EXCEPT !.verdict = "passed"] /\ UNCHANGED vars
    BY <1>1, <1>2 DEF MakeBaseHeap, TestTypes
  <1>6. /\ test' \in [file : {1, 2}, step : 1..6, stacktrace : BOOLEAN, skip_fake_offset_check : BOOLEAN,
                     all : SUBSET AllFound, all_free : SUBSET AllFound,
                     diff : SUBSET AllFound, diff_free : SUBSET AllFound,
                     verdict : {None, "passed", "failed", "crashed"}]
        /\ test'.file = test.file /\ test'.all = test.all /\ test'.all_free = test.all_free
        /\ test'.step \in {3, 4} /\ (test.file = 1 => test'.verdict = test.verdict)
    BY <1>1, <1>2, <1>5 DEF TestTypes
  <1>7. Judged' = Judged
    BY <1>6 DEF Judged
  <1>8. CollectedLists' /\ CachedForGraph'
    BY <1>1, <1>2, <1>3, <1>6, <1>7 DEF CollectedLists, CachedForGraph
  <1>9. FirstPassed'
    BY <1>1, <1>3, <1>6 DEF FirstPassed, MatchesAccepted
  <1>10. TestTypes'
    <2>1. base'[Dump] = IF test'.file = 2 /\ test'.step > 3 THEN BaseDump ELSE None
      <3>1. CASE SetBaseDiffFilter
        <4>1. base' = [base EXCEPT ![Dump] = BaseDump]
          BY <3>1 DEF SetBaseDiffFilter
        <4>2. base'[Dump] = BaseDump
          BY <1>4, <4>1, HeapsAndLists
        <4>3. test.file = 2 /\ test'.step = 4
          <5>1. ~(base' = base)
            BY <1>1, <1>2, <4>2, HeapsAndLists DEF TestTypes
          <5>2. test' = [test EXCEPT !.step = 4] /\ test.file = 2
            BY <1>5, <5>1 DEF vars
          <5>. QED
            BY <1>1, <5>2 DEF TestTypes
        <4>. QED
          BY <1>6, <4>2, <4>3
      <3>2. CASE ~SetBaseDiffFilter
        <4>1. UNCHANGED vars /\ (test.file = 1 \/ test' = [test EXCEPT !.verdict = "passed"])
          BY <1>5, <3>2
        <4>2. base' = base /\ (test.file = 1 \/ test'.step = 3)
          BY <1>1, <1>2, <4>1 DEF vars, TestTypes
        <4>. QED
          BY <1>1, <1>2, <1>6, <4>2 DEF TestTypes
      <3>. QED
        BY <3>1, <3>2
    <2>. QED
      BY <1>1, <1>3, <1>6, <2>1 DEF TestTypes
  <1>11. WholeLoops'
    <2>1. CASE SetBaseDiffFilter
      <3>1. /\ whole' = [whole EXCEPT ![Dump] = [list \in Lists |-> TRUE]]
            /\ loop' = loop
        BY <2>1 DEF SetBaseDiffFilter, ClearCache
      <3>2. ASSUME NEW h \in Heaps, NEW list \in Lists
            PROVE  whole'[h][list]
        <4>1. whole'[h] = IF h = Dump THEN [m \in Lists |-> TRUE] ELSE whole[h]
          BY <1>1, <3>1 DEF CacheTypes
        <4>. QED
          BY <1>1, <4>1 DEF WholeLoops
      <3>. QED
        BY <1>2, <3>1, <3>2 DEF WholeLoops
    <2>2. CASE UNCHANGED vars
      BY <1>1, <1>2, <2>2 DEF WholeLoops, vars
    <2>. QED
      BY <1>5, <2>1, <2>2
  <1>. QED
    BY <1>8, <1>9, <1>10, <1>11

(* The verdict is given when everything is collected.                      *)
LEMMA JudgeKeepsCollected ==
    ASSUME TestInv, CollectInv, Judge
    PROVE  CollectInv'
  <1>. SUFFICES (TestTypes /\ WholeLoops /\ CollectedLists /\ CachedForGraph /\ FirstPassed)'
    BY DEF CollectInv
  <1>1. /\ TestTypes /\ WholeLoops /\ CollectedLists /\ CachedForGraph /\ FirstPassed
        /\ UNCHANGED vars /\ UNCHANGED <<content, base, cache, whole, loop>>
    BY DEF CollectInv, Judge, Judging, vars
  <1>2. PICK verdict \in {"passed", "failed", "crashed"} :
            /\ test' = [test EXCEPT !.verdict = verdict]
            /\ verdict = "passed" => Successful
    BY DEF Judge
  <1>3. /\ test' \in [file : {1, 2}, step : 1..6, stacktrace : BOOLEAN, skip_fake_offset_check : BOOLEAN,
                     all : SUBSET AllFound, all_free : SUBSET AllFound,
                     diff : SUBSET AllFound, diff_free : SUBSET AllFound,
                     verdict : {None, "passed", "failed", "crashed"}]
        /\ test'.file = test.file /\ test'.step = test.step /\ test'.verdict = verdict
        /\ test'.all = test.all /\ test'.all_free = test.all_free
        /\ test'.diff = test.diff /\ test'.diff_free = test.diff_free
    BY <1>1, <1>2 DEF TestTypes
  <1>4. /\ Judged' = Judged /\ Step' = Step
        /\ \A list : Difference(Judged, list)' = Difference(Judged, list)
        /\ MatchesAccepted(BaseDump)' = MatchesAccepted(BaseDump)
    BY <1>1, <1>3, UnchangedJudged DEF Step
  <1>5. TestTypes'
    BY <1>1, <1>3 DEF TestTypes
  <1>6. WholeLoops' /\ CollectedLists' /\ CachedForGraph'
    BY <1>1, <1>3, <1>4 DEF WholeLoops, CollectedLists, CachedForGraph
  <1>7. FirstPassed'
    <2>1. Successful => MatchesAccepted(Judged)
      BY DEF Successful
    <2>2. test.file = 1 \/ test.file = 2
      BY <1>1 DEF TestTypes
    <2>. QED
      BY <1>1, <1>2, <1>3, <1>4, <2>1, <2>2 DEF FirstPassed, Judged
  <1>. QED
    BY <1>5, <1>6, <1>7

(* Both heaps of the second file are new, and nothing is collected yet.    *)
LEMMA SecondKeepsCollected ==
    ASSUME TestInv, CollectInv, OpenSecond
    PROVE  CollectInv'
  <1>. SUFFICES (TestTypes /\ WholeLoops /\ CollectedLists /\ CachedForGraph /\ FirstPassed)'
    BY DEF CollectInv
  <1>1. /\ TestTypes /\ FirstPassed /\ LoopCollects
        /\ UNCHANGED <<content, base, loop>>
        /\ test # None /\ test.file = 1 /\ test.verdict = "passed"
        /\ whole' = [h \in Heaps |-> [list \in Lists |-> TRUE]]
        /\ test' = [test EXCEPT !.file = 2, !.step = 1, !.verdict = None]
    BY DEF CollectInv, TestInv, OpenSecond
  <1>2. loop = None
    BY <1>1, VerdictAssumption DEF LoopCollects, Judging
  <1>. DEFINE one == [test EXCEPT !.file = 2]
              two == [one EXCEPT !.step = 1]
              Record == [file : {1, 2}, step : 1..6, stacktrace : BOOLEAN, skip_fake_offset_check : BOOLEAN,
                         all : SUBSET AllFound, all_free : SUBSET AllFound,
                         diff : SUBSET AllFound, diff_free : SUBSET AllFound,
                         verdict : {None, "passed", "failed", "crashed"}]
  <1>3. one \in Record /\ one.file = 2
    BY <1>1 DEF TestTypes
  <1>4. test' = [two EXCEPT !.verdict = None]
    BY <1>1
  <1>. HIDE DEF one
  <1>5. two \in Record /\ two.file = 2 /\ two.step = 1
    BY <1>3
  <1>. HIDE DEF two
  <1>6. test' \in Record /\ test'.file = 2 /\ test'.step = 1
    BY <1>4, <1>5
  <1>7. TestTypes'
    BY <1>1, <1>6 DEF TestTypes
  <1>8. WholeLoops'
    BY <1>1, <1>2 DEF WholeLoops
  <1>9. FirstPassed'
    BY <1>1 DEF FirstPassed, MatchesAccepted
  <1>10. CollectedLists' /\ CachedForGraph'
    BY <1>6 DEF CollectedLists, CachedForGraph
  <1>. QED
    BY <1>7, <1>8, <1>9, <1>10

LEMMA TestStepKeepsCollected ==
    ASSUME TestInv, CollectInv, [NextTest]_testVars
    PROVE  CollectInv'
  <1>1. CASE test = None /\ UNCHANGED test
    BY <1>1 DEF CollectInv
  <1>2. CASE Exit \/ UNCHANGED testVars
    <2>1. UNCHANGED <<content, base, cache, whole, loop, test>>
      BY <1>2 DEF Exit, testVars, vars
    <2>2. UNCHANGED TestTypes /\ UNCHANGED WholeLoops /\ UNCHANGED FirstPassed
      BY <2>1 DEF TestTypes, WholeLoops, FirstPassed, MatchesAccepted, Judged, Step
    <2>3. Judged' = Judged /\ \A list : Difference(Judged, list)' = Difference(Judged, list)
      BY <2>1, UnchangedJudged
    <2>4. UNCHANGED CollectedLists /\ UNCHANGED CachedForGraph
      BY <2>1, <2>3 DEF CollectedLists, CachedForGraph
    <2>. QED
      BY <2>1, <2>2, <2>4 DEF CollectInv
  <1>. QED
    BY <1>1, <1>2, LoopKeepsCollected, CollectKeepsCollected, BaseKeepsCollected, JudgeKeepsCollected,
       SecondKeepsCollected DEF NextTest

-------------------------------------------------------------------------------
(* Everything the verdict rests on, at the time it is given to a dump with *)
(* an address for every allocation.                                        *)
ReadyToJudge ==
    /\ CacheInv /\ Stored
    /\ test # None /\ TestTypes /\ CachedForGraph /\ FirstPassed
    /\ test.step = 6
    /\ test.all = ToSet(content[Judged]["entries"])
    /\ test.all_free = ToSet(content[Judged]["free_entries"])
    /\ test.diff = Difference(Judged, "entries")
    /\ test.diff_free = Difference(Judged, "free_entries")

LEMMA AllIsCollected ==
    ASSUME TestInv, CollectInv, Judge, AddressesAccepted(Judged)
    PROVE  ReadyToJudge
  <1>1. /\ CacheInv /\ Stored
        /\ test # None /\ TestTypes /\ CollectedLists /\ CachedForGraph /\ FirstPassed /\ Step = "judge"
    BY DEF TestInv, CollectInv, Judge, Judging
  <1>2. test.step \in 1..6
    BY <1>1 DEF TestTypes
  <1>3. test.step = 6
    BY <1>1, <1>2, TheSteps DEF Step
  <1>4. Judged \in Heaps /\ "entries" \in Lists
    BY <1>1, JudgedDump, TheSteps DEF CacheInv, CacheTypes
  <1>5. content[Judged]["entries"] \in Seq(AllFound)
    BY <1>1, <1>4, ContentTypes DEF CacheInv, CacheTypes
  <1>6. Difference(Judged, "entries") \subseteq ToSet(content[Judged]["entries"])
    BY <1>5 DEF Difference, Kept, ToSet
  <1>7. /\ AtAddress(ToSet(content[Judged]["entries"])) = ToSet(content[Judged]["entries"])
        /\ AtAddress(Difference(Judged, "entries")) = Difference(Judged, "entries")
    BY <1>6 DEF AtAddress, AddressesAccepted
  <1>. QED
    BY <1>1, <1>3, <1>7 DEF ReadyToJudge, CollectedLists

LEMMA ReadyFacts ==
    ASSUME ReadyToJudge
    PROVE  /\ CacheTypes /\ content \in Contents /\ "claims" \in DOMAIN content[Dump]
           /\ Judged \in Heaps /\ "entries" \in Lists /\ "free_entries" \in Lists
           /\ base[Judged] # None => test.file = 2 /\ Judged = Dump /\ base[Judged] = BaseDump
           /\ Judged = Dump => test.file = 2 /\ base[Judged] = BaseDump
           /\ test.diff \subseteq test.all /\ test.diff_free \subseteq test.all_free
           /\ ToSet(cache[Judged]["entries"]) = test.diff
           /\ base[Judged] = None => test.diff = test.all
  <1>1. CacheTypes /\ TestTypes /\ base[BaseDump] = None /\ test.step = 6
    BY DEF ReadyToJudge, CacheInv, CacheTypes
  <1>2. /\ Judged \in Heaps
        /\ test.file = 1 => Judged = BaseDump
        /\ test.file = 2 => Judged = Dump
        /\ base[Judged] = IF test.file = 2 /\ test.step > 3 THEN BaseDump ELSE None
    BY <1>1, JudgedDump
  <1>3. test.file = 1 \/ test.file = 2
    BY <1>1 DEF TestTypes
  <1>4. \A list : Difference(Judged, list) \subseteq ToSet(content[Judged][list])
    BY DEF Difference, Kept, ToSet
  <1>5. ToSet(cache[Judged]["entries"]) = test.diff
    BY DEF ReadyToJudge, CachedForGraph
  <1>6. base[Judged] = None => test.diff = test.all
    BY DifferenceWithoutBase DEF ReadyToJudge
  <1>7. content \in Contents /\ "claims" \in DOMAIN content[Dump]
    BY <1>1 DEF CacheTypes, TestTypes
  <1>8. test.diff \subseteq test.all /\ test.diff_free \subseteq test.all_free
    BY <1>4 DEF ReadyToJudge
  <1>. QED
    BY <1>1, <1>2, <1>3, <1>5, <1>6, <1>7, <1>8, HeapsAndLists, TheSteps

LEMMA LeastKey ==
    ASSUME NEW S, S # {}, \A e \in S : Key(e) \in Nat
    PROVE  (CHOOSE e \in S : \A f \in S : Key(e) <= Key(f)) \in S
  <1>. DEFINE keys == {Key(e) : e \in S}
  <1>1. PICK n \in keys : \A m \in keys : ~(<<m, n>> \in OpToRel(<, Nat))
    <2>1. IsWellFoundedOn(OpToRel(<, Nat), Nat)
      BY NatLessThanWellFounded
    <2>2. keys \subseteq Nat /\ keys # {}
      OBVIOUS
    <2>. QED
      BY <2>1, <2>2, WFMin
  <1>2. PICK e \in S : Key(e) = n
    BY <1>1
  <1>3. \A f \in S : Key(e) <= Key(f)
    <2>. SUFFICES ASSUME NEW f \in S, Key(f) < Key(e) PROVE FALSE
      OBVIOUS
    <2>1. <<Key(f), n>> \in OpToRel(<, Nat)
      BY <1>2 DEF OpToRel
    <2>. QED
      BY <1>1, <2>1
  <1>. QED
    BY <1>3

(* What is known of a list: see ListsHaveRoom.                             *)
Roomy(map) ==
    \A e \in map :
       /\ e.block \in Nat /\ e.size \in Nat
       /\ \A f \in map : f = e \/ Key(e) < f.block \/ Key(f) < e.block

LEMMA AllRoomy ==
    ASSUME ReadyToJudge
    PROVE  Roomy(test.all) /\ Roomy(test.all_free)
  <1>1. /\ content \in Contents /\ "claims" \in DOMAIN content[Dump] /\ Judged \in Heaps
        /\ "entries" \in Lists /\ "free_entries" \in Lists
    BY ReadyFacts
  <1>2. ASSUME NEW list \in Lists
        PROVE  Roomy(ToSet(content[Judged][list]))
    BY <1>1, ListsHaveRoom DEF Roomy
  <1>. QED
    BY <1>1, <1>2 DEF ReadyToJudge

(* Two entries of a list that have one address are one.                    *)
LEMMA OneAtBlock ==
    ASSUME NEW map, Roomy(map), NEW e \in map, NEW f \in map, e.block = f.block
    PROVE  e = f
  <1>1. /\ e.block \in Nat /\ e.size \in Nat /\ f.size \in Nat
        /\ f = e \/ Key(e) < f.block \/ Key(f) < e.block
    BY DEF Roomy
  <1>2. Key(e) \in Nat /\ e.block <= Key(e) /\ Key(f) \in Nat /\ f.block <= Key(f)
    BY <1>1, RangesHaveKeys
  <1>. QED
    BY <1>1, <1>2

LEMMA FirstFoundIsFound ==
    ASSUME ReadyToJudge, NEW a, Found(a) # {}
    PROVE  FirstFound(a) \in Found(a) /\ Found(a) \subseteq test.all
  <1>1. test.diff \subseteq test.all /\ Roomy(test.all)
    BY ReadyFacts, AllRoomy
  <1>2. Found(a) \subseteq test.all
    BY <1>1 DEF Found, Held
  <1>3. \A e \in Found(a) : Key(e) \in Nat
    BY <1>1, <1>2, RangesHaveKeys DEF Roomy
  <1>. QED
    BY <1>2, <1>3, LeastKey DEF FirstFound

(* A range that a block is matched with lies in the block.                 *)
LEMMA MatchedIsContained ==
    ASSUME NEW user, NEW block, user.first \in Nat, user.size \in Nat, block.first \in Nat, block.size \in Nat,
           R!Match(user, block) \in {"block_match", "block_contains"}
    PROVE  R!Contains(block, user)
  BY DEF R!Match, R!Contains, R!End

-------------------------------------------------------------------------------
(* What a passed file says of an allocation the program held.              *)
LEMMA HeldAllocationsAreThere ==
    ASSUME ReadyToJudge, Successful, NEW a \in Claimed(Judged)
    PROVE  /\ Overlooked(Judged, a) \/ (Listed(Judged, a) # {} /\ Filled(Judged, a))
           /\ ~Reused(Judged, a)
  <1>1. /\ content \in Contents /\ "claims" \in DOMAIN content[Dump] /\ Judged \in Heaps
        /\ Judged = Dump => test.file = 2 /\ base[Judged] = BaseDump
        /\ test.diff \subseteq test.all
        /\ ToSet(cache[Judged]["entries"]) = test.diff
        /\ "entries" \in Lists
    BY ReadyFacts
  <1>2. /\ a.allocated /\ a \in content[Judged].claims
        /\ a.pointer \in Nat /\ a.size \in Nat
    BY <1>1, TestDumpsAssumption DEF Claimed
  <1>3. AllocationAccepted(a) /\ GraphAccepts(a)
    BY <1>2 DEF Successful
  <1>4. PICK g \in test.diff : g.block = a.pointer
    BY <1>1, <1>2, <1>3 DEF GraphAccepts
  <1>5. g \in test.all /\ Roomy(test.all) /\ test.all = ToSet(content[Judged]["entries"])
    BY <1>1, <1>4, AllRoomy DEF ReadyToJudge
  <1>6. ~NotFound(a)
    BY <1>2, <1>3 DEF AllocationAccepted
  <1>7. ASSUME Found(a) = {}
        PROVE  Overlooked(Judged, a)
    <2>1. Excused(a)
      BY <1>2, <1>4, <1>6, <1>7 DEF NotFound
    <2>2. content[Judged].crt = {} /\ IsAddressFiltered(Judged, a.pointer, a.size)
      BY <2>1 DEF Excused, UsesCrt
    <2>3. PICK list \in Lists : \E i \in DOMAIN filters[Judged][list] :
             filters[Judged][list][i].block = a.pointer /\ filters[Judged][list][i].size = a.size
      BY <2>2 DEF IsAddressFiltered
    <2>4. PICK i \in DOMAIN filters[Judged][list] :
             filters[Judged][list][i].block = a.pointer /\ filters[Judged][list][i].size = a.size
      BY <2>3
    <2>5. Judged = Dump
      <3>1. FilterCache(Judged, list)
        BY <1>1 DEF ReadyToJudge, CacheInv
      <3>2. filters[Judged][list] # <<>>
        BY <2>4
      <3>3. base[Judged] # None
        BY <3>1, <3>2 DEF FilterCache
      <3>. QED
        BY <3>3, ReadyFacts
    <2>6. PICK k \in DOMAIN content[BaseDump][list] : filters[Judged][list][i] = content[BaseDump][list][k]
      BY <2>4, <2>5 DEF ReadyToJudge, Stored, Within
    <2>7. content[BaseDump][list][k] \in ToSet(content[BaseDump][list])
      BY DEF ToSet
    <2>8. Held(test.all, a) = {}
      BY <1>7 DEF Found
    <2>. QED
      BY <1>5, <2>2, <2>4, <2>5, <2>6, <2>7, <2>8 DEF Overlooked
  <1>8. ASSUME Found(a) # {}
        PROVE  Listed(Judged, a) # {} /\ Filled(Judged, a)
    <2>. DEFINE e == FirstFound(a)
                user == [first |-> a.pointer, size |-> a.size]
    <2>1. e \in test.all
      BY <1>8, FirstFoundIsFound
    <2>2. Covers(e, user) /\ BytesAccepted(a)
      BY <1>2, <1>3, <1>8 DEF AllocationAccepted
    <2>. HIDE DEF e
    <2>3. /\ e.block \in Nat /\ e.size \in Nat /\ g.size \in Nat
          /\ g = e \/ Key(e) < g.block \/ Key(g) < e.block
      BY <1>5, <2>1 DEF Roomy
    <2>4. e.block <= a.pointer /\ a.pointer + a.size <= e.block + e.size
      <3>1. RangeOf(e).first = e.block /\ RangeOf(e).size = e.size /\ user.first = a.pointer /\ user.size = a.size
        BY <2>3, RangesHaveKeys
      <3>2. R!Match(user, RangeOf(e)) \in {"block_match", "block_contains"}
        BY <2>2 DEF Covers
      <3>. HIDE DEF user
      <3>3. R!Contains(RangeOf(e), user)
        BY <1>2, <2>3, <3>1, <3>2, MatchedIsContained
      <3>. QED
        BY <3>1, <3>3 DEF R!Contains, R!End
    <2>5. g.size >= a.size
      <3>1. /\ Key(g) \in Nat /\ g.block <= Key(g)
            /\ e.size > 0 => Key(e) = e.block + e.size - 1
            /\ e.size = 0 => Key(e) = e.block
            /\ Key(e) \in Nat
        BY <1>2, <1>4, <2>3, RangesHaveKeys
      <3>. QED
        BY <1>2, <1>4, <2>3, <2>4, <3>1
    <2>6. g \in Listed(Judged, a)
      BY <1>4, <1>5, <2>5 DEF Listed
    <2>7. Filled(Judged, a)
      BY <2>2 DEF BytesAccepted, PieceAccepted, Filled, ToSet
    <2>. QED
      BY <2>6, <2>7
  <1>9. ~Reused(Judged, a)
    <2>. SUFFICES ASSUME Judged = Dump, NEW e \in Listed(Judged, a), NEW f \in ToSet(content[BaseDump]["entries"]),
                         Same(e, f)
                  PROVE  FALSE
      BY DEF Reused
    <2>1. e \in test.all /\ e.block = a.pointer
      BY <1>5 DEF Listed
    <2>2. e = g
      BY <1>4, <1>5, <2>1, OneAtBlock
    <2>3. PICK k \in Kept(Judged, "entries") : g = content[Judged]["entries"][k]
      BY <1>4 DEF ReadyToJudge, Difference
    <2>4. ~IsFiltered(content[BaseDump]["entries"], g)
      BY <1>1, <2>3, HeapsAndLists DEF Kept
    <2>5. PICK i \in DOMAIN content[BaseDump]["entries"] : f = content[BaseDump]["entries"][i]
      BY DEF ToSet
    <2>. QED
      BY <2>2, <2>4, <2>5 DEF IsFiltered, Same
  <1>. QED
    BY <1>7, <1>8, <1>9

(* And of a block of the CRT that the base dump does not have.             *)
LEMMA NewCrtBlocksAreThere ==
    ASSUME ReadyToJudge, Successful, NEW c \in content[Judged].crt, ~Known(Judged, c)
    PROVE  \E e \in ToSet(content[Judged][CrtList(c)]) : R!Contains(RangeOf(e), c.user)
  <1>1. /\ content \in Contents /\ "claims" \in DOMAIN content[Dump] /\ Judged \in Heaps
        /\ base[Judged] # None => test.file = 2 /\ Judged = Dump /\ base[Judged] = BaseDump
        /\ test.diff \subseteq test.all /\ test.diff_free \subseteq test.all_free
    BY ReadyFacts
  <1>2. c.user.first \in Nat /\ c.user.size \in Nat
    BY <1>1, TestDumpsAssumption
  <1>3. CrtAccepted(c)
    <2>1. c \in CrtEntries
      BY <1>1 DEF CrtEntries, Known
    <2>. QED
      BY <2>1 DEF Successful
  <1>4. /\ test.all = ToSet(content[Judged]["entries"]) /\ Roomy(test.all)
        /\ test.all_free = ToSet(content[Judged]["free_entries"]) /\ Roomy(test.all_free)
    BY AllRoomy DEF ReadyToJudge
  <1>5. ASSUME NEW map, NEW all, map \subseteq all, Roomy(all), InMap(map, c)
        PROVE  \E e \in all : R!Contains(RangeOf(e), c.user)
    <2>1. PICK r \in Ranges(map) : R!Match(c.user, r) \in {"block_match", "block_contains"}
      BY <1>5 DEF InMap, R!LowerBound
    <2>2. PICK e \in map : r = RangeOf(e)
      BY <2>1 DEF Ranges
    <2>3. RangeOf(e).first \in Nat /\ RangeOf(e).size \in Nat /\ e \in all
      BY <1>5, RangesHaveKeys DEF Roomy
    <2>4. R!Contains(RangeOf(e), c.user)
      BY <1>2, <2>1, <2>2, <2>3, MatchedIsContained
    <2>. QED
      BY <2>3, <2>4
  <1>6. CASE c.block_use
    <2>1. InMap(test.diff, c) \/ InMap(test.all, c)
      BY <1>3, <1>6 DEF CrtAccepted
    <2>2. \E e \in test.all : R!Contains(RangeOf(e), c.user)
      BY <1>1, <1>4, <1>5, <2>1
    <2>. QED
      BY <1>4, <1>6, <2>2 DEF CrtList
  <1>7. CASE ~c.block_use
    <2>1. InMap(test.diff_free, c) \/ InMap(test.all_free, c)
      BY <1>3, <1>7 DEF CrtAccepted
    <2>2. \E e \in test.all_free : R!Contains(RangeOf(e), c.user)
      BY <1>1, <1>4, <1>5, <2>1
    <2>. QED
      BY <1>4, <1>7, <2>2 DEF CrtList
  <1>. QED
    BY <1>6, <1>7

-------------------------------------------------------------------------------
Clean == Faithful(Judged) /\ ~\E a \in Claimed(Judged) : Reused(Judged, a)

(* When nothing is amiss an allocation the program held is found, and the  *)
(* entry found is its own.                                                 *)
LEMMA HeldAllocationsAreFound ==
    ASSUME ReadyToJudge, Clean, NEW a \in Claimed(Judged)
    PROVE  /\ ~NotFound(a)
           /\ AllocationAccepted(a) /\ GraphAccepts(a)
  <1>1. /\ content \in Contents /\ "claims" \in DOMAIN content[Dump] /\ Judged \in Heaps
        /\ Judged = Dump => test.file = 2 /\ base[Judged] = BaseDump
        /\ base[Judged] # None => Judged = Dump
        /\ base[Judged] = None => test.diff = test.all
        /\ test.diff \subseteq test.all
        /\ ToSet(cache[Judged]["entries"]) = test.diff
        /\ "entries" \in Lists
    BY ReadyFacts
  <1>2. /\ a.allocated /\ a \in content[Judged].claims
        /\ a.pointer \in Nat /\ a.size \in Nat
        /\ content[Judged].bytes[a.pointer] \in Seq([offset : BOOLEAN, filled : BOOLEAN, long : BOOLEAN])
    BY <1>1, TestDumpsAssumption DEF Claimed
  <1>3. Roomy(test.all) /\ test.all = ToSet(content[Judged]["entries"])
    BY AllRoomy DEF ReadyToJudge
  <1>4. /\ {e \in test.all : Held({e}, a) # {}} = Listed(Judged, a)
        /\ \E e \in Listed(Judged, a) : e.size = a.size /\ (test.stacktrace => e.stack # <<>>)
        /\ Written(Judged, a)
        /\ a.pointer \notin content[Judged].system
    BY <1>3 DEF Clean, Faithful
  <1>5. PICK g \in Listed(Judged, a) : g.size = a.size /\ (test.stacktrace => g.stack # <<>>)
    BY <1>4
  <1>6. g \in test.all /\ g.block = a.pointer /\ Held({g}, a) # {}
    BY <1>3, <1>4, <1>5 DEF Listed
  <1>7. g \in test.diff
    <2>1. CASE base[Judged] = None
      BY <1>1, <1>6, <2>1
    <2>2. CASE base[Judged] # None
      <3>1. Judged = Dump /\ base[Judged] = BaseDump
        BY <1>1, <2>2
      <3>2. ~Reused(Judged, a)
        BY DEF Clean
      <3>3. \A f \in ToSet(content[BaseDump]["entries"]) : ~Same(g, f)
        BY <1>5, <3>1, <3>2 DEF Reused
      <3>4. ~IsFiltered(content[base[Judged]]["entries"], g)
        BY <3>1, <3>3 DEF IsFiltered, Same, ToSet
      <3>5. PICK k \in DOMAIN content[Judged]["entries"] : g = content[Judged]["entries"][k]
        BY <1>3, <1>6 DEF ToSet
      <3>6. k \in Kept(Judged, "entries")
        BY <3>4, <3>5 DEF Kept
      <3>. QED
        BY <3>5, <3>6 DEF Difference, ReadyToJudge
    <2>. QED
      BY <2>1, <2>2
  <1>8. g \in Held(test.diff, a)
    BY <1>6, <1>7 DEF Held
  <1>9. Found(a) = Held(test.diff, a) /\ Found(a) # {}
    BY <1>8 DEF Found
  <1>10. ~NotFound(a)
    BY <1>7, <1>9 DEF NotFound
  <1>11. FirstFound(a) = g
    <2>. DEFINE e == FirstFound(a)
    <2>1. e \in Found(a) /\ e \in test.all
      BY <1>9, FirstFoundIsFound
    <2>. HIDE DEF e
    <2>2. Held({e}, a) # {}
      BY <1>9, <2>1 DEF Held
    <2>3. e \in Listed(Judged, a)
      BY <1>4, <2>1, <2>2
    <2>4. e.block = a.pointer
      BY <2>3 DEF Listed
    <2>5. e = g
      BY <1>3, <1>6, <2>1, <2>4, OneAtBlock
    <2>. QED
      BY <2>5 DEF e
  <1>12. Covers(g, [first |-> a.pointer, size |-> a.size])
    BY <1>5, <1>6 DEF Covers, R!Match, RangeOf
  <1>13. BytesAccepted(a)
    <2>. DEFINE pieces == content[Judged].bytes[a.pointer]
    <2>1. /\ \A p \in ToSet(pieces) : p.filled
          /\ pieces[1].offset = (pieces[1].long /\ ~test.skip_fake_offset_check)
          /\ Len(pieces) = 1
      BY <1>4 DEF Written, Filled
    <2>2. DOMAIN pieces = 1..1
      BY <1>2, <2>1
    <2>. HIDE DEF pieces
    <2>3. \A i \in DOMAIN pieces : i = 1
      BY <2>2
    <2>4. pieces[1].filled
      BY <2>1, <2>2 DEF ToSet
    <2>5. PieceAccepted(pieces[1])
      BY <2>1, <2>4 DEF PieceAccepted
    <2>. QED
      BY <2>3, <2>5 DEF BytesAccepted, pieces
  <1>14. AllocationAccepted(a)
    <2>1. FirstFound(a).stack = g.stack
      BY <1>11
    <2>. QED
      BY <1>5, <1>10, <1>11, <1>12, <1>13 DEF AllocationAccepted
  <1>15. GraphAccepts(a)
    BY <1>1, <1>4, <1>6, <1>7 DEF GraphAccepts
  <1>. QED
    BY <1>10, <1>14, <1>15

(* A block of the CRT that is in its list is found by one lookup: no other *)
(* entry ends between its first byte and its last.                         *)
LEMMA CrtBlocksAreFound ==
    ASSUME ReadyToJudge, Clean, NEW c \in content[Judged].crt
    PROVE  CrtAccepted(c)
  <1>1. /\ test.all = ToSet(content[Judged]["entries"]) /\ Roomy(test.all)
        /\ test.all_free = ToSet(content[Judged]["free_entries"]) /\ Roomy(test.all_free)
    BY AllRoomy DEF ReadyToJudge
  <1>2. PICK e \in ToSet(content[Judged][CrtList(c)]) : RangeOf(e) = c.user
    BY DEF Clean, Faithful
  <1>3. ASSUME NEW map, Roomy(map), e \in map
        PROVE  InMap(map, c)
    <2>1. e.block \in Nat /\ e.size \in Nat
      BY <1>3 DEF Roomy
    <2>2. c.user.first = e.block /\ Key(e) \in Nat /\ e.block <= Key(e)
      BY <1>2, <2>1, RangesHaveKeys
    <2>3. ASSUME NEW f \in map, Key(f) >= e.block
          PROVE  Key(e) <= Key(f)
      <3>1. f.block \in Nat /\ f.size \in Nat /\ (f = e \/ Key(e) < f.block \/ Key(f) < e.block)
        BY <1>3, <2>3 DEF Roomy
      <3>2. Key(f) \in Nat /\ f.block <= Key(f)
        BY <3>1, RangesHaveKeys
      <3>. QED
        BY <2>1, <2>2, <2>3, <3>1, <3>2
    <2>4. RangeOf(e) \in R!LowerBound(Ranges(map), c.user.first)
      BY <1>3, <2>2, <2>3 DEF R!LowerBound, Ranges, Key
    <2>5. R!Match(c.user, RangeOf(e)) = "block_match"
      BY <1>2 DEF R!Match
    <2>. QED
      BY <2>4, <2>5 DEF InMap
  <1>4. c.block_use => InMap(test.all, c)
    BY <1>1, <1>2, <1>3 DEF CrtList
  <1>5. ~c.block_use => InMap(test.all_free, c)
    BY <1>1, <1>2, <1>3 DEF CrtList
  <1>. QED
    BY <1>4, <1>5 DEF CrtAccepted

LEMMA CleanIsSuccessful ==
    ASSUME ReadyToJudge, Clean
    PROVE  /\ Successful
           /\ \A a \in content[Judged].claims : ~ReadsEnd(a)
  <1>1. \A a \in content[Judged].claims :
           AllocationAccepted(a) /\ GraphAccepts(a) /\ ~ReadsEnd(a)
    <2>. SUFFICES ASSUME NEW a \in content[Judged].claims
                  PROVE  AllocationAccepted(a) /\ GraphAccepts(a) /\ ~ReadsEnd(a)
      OBVIOUS
    <2>1. CASE a.allocated
      <3>1. a \in Claimed(Judged)
        BY <2>1 DEF Claimed
      <3>. QED
        BY <3>1, HeldAllocationsAreFound DEF ReadsEnd
    <2>2. CASE ~a.allocated
      BY <2>2 DEF AllocationAccepted, GraphAccepts, ReadsEnd, NotFound
    <2>. QED
      BY <2>1, <2>2
  <1>2. \A c \in CrtEntries : CrtAccepted(c)
    BY CrtBlocksAreFound DEF CrtEntries
  <1>3. MatchesAccepted(Judged)
    BY DEF Clean, Faithful, MatchesAccepted
  <1>4. base[Judged] # None => MatchesAccepted(base[Judged])
    BY ReadyFacts DEF ReadyToJudge, FirstPassed
  <1>. QED
    BY <1>1, <1>2, <1>3, <1>4 DEF Successful, Clean, Faithful

(* The verdict as it is given is right.                                    *)
Justified ==
    /\ \A a \in Claimed(Judged) :
          /\ Overlooked(Judged, a) \/ (Listed(Judged, a) # {} /\ Filled(Judged, a))
          /\ ~Reused(Judged, a)
    /\ \A c \in {d \in content[Judged].crt : ~Known(Judged, d)} :
          \E e \in ToSet(content[Judged][CrtList(c)]) : R!Contains(RangeOf(e), c.user)
    /\ 0 \notin {e.block : e \in ToSet(content[Judged]["entries"])}

LEMMA VerdictOfParts ==
    VerdictRight <=> (Checked => (test.verdict = "passed" => Justified) /\ (Clean => test.verdict = "passed"))
  BY DEF VerdictRight, Justified, Clean

LEMMA VerdictOfDumps ==
    ASSUME content' = content, test'.file = test.file, test'.stacktrace = test.stacktrace,
           test'.skip_fake_offset_check = test.skip_fake_offset_check
    PROVE  (Justified' <=> Justified) /\ (Clean' <=> Clean)
  <1>1. Judged' = Judged
    BY DEF Judged
  <1>2. /\ \A h : Claimed(h)' = Claimed(h)
        /\ \A h, a : Listed(h, a)' = Listed(h, a)
        /\ \A h, a : Filled(h, a)' <=> Filled(h, a)
        /\ \A h, c : Known(h, c)' <=> Known(h, c)
        /\ \A h, a : Overlooked(h, a)' <=> Overlooked(h, a)
    BY DEF Claimed, Listed, Filled, Known, Overlooked
  <1>3. \A h, a : Reused(h, a)' <=> Reused(h, a)
    BY <1>2 DEF Reused
  <1>4. \A h, a : Written(h, a)' <=> Written(h, a)
    BY <1>2 DEF Written
  <1>5. \A h : Faithful(h)' <=> Faithful(h)
    BY <1>2, <1>4 DEF Faithful, AddressesAccepted
  <1>6. Clean' <=> Clean
    BY <1>1, <1>2, <1>3, <1>5 DEF Clean
  <1>7. Justified' <=> Justified
    BY <1>1, <1>2, <1>3 DEF Justified
  <1>. QED
    BY <1>6, <1>7

LEMMA VerdictStaysRight ==
    ASSUME TestInv, CollectInv, VerdictRight, [NextTest]_testVars
    PROVE  VerdictRight'
  <1>1. CASE Judge
    <2>1. AddressesAccepted(Judged) => ReadyToJudge
      BY <1>1, AllIsCollected
    <2>2. /\ content' = content
          /\ \E verdict \in IF \E a \in content[Judged].claims : ReadsEnd(a) THEN {"failed", "crashed"}
                            ELSE {IF Successful THEN "passed" ELSE "failed"} :
                test' = [test EXCEPT !.verdict = verdict]
      BY <1>1 DEF Judge, vars
    <2>3. PICK verdict \in IF \E a \in content[Judged].claims : ReadsEnd(a) THEN {"failed", "crashed"}
                           ELSE {IF Successful THEN "passed" ELSE "failed"} :
             test' = [test EXCEPT !.verdict = verdict]
      BY <2>2
    <2>4. /\ test'.verdict = verdict /\ test'.file = test.file /\ test'.stacktrace = test.stacktrace
          /\ test'.skip_fake_offset_check = test.skip_fake_offset_check
      BY <1>1, <2>3 DEF CollectInv, TestTypes, Judge, Judging
    <2>5. verdict = "passed" => Successful /\ AddressesAccepted(Judged)
      BY <2>3 DEF Successful
    <2>6. Successful /\ (\A a \in content[Judged].claims : ~ReadsEnd(a)) => verdict = "passed"
      BY <2>3
    <2>7. verdict = "passed" => Justified
      BY <2>1, <2>5, HeldAllocationsAreThere, NewCrtBlocksAreThere DEF Justified, AddressesAccepted
    <2>8. Clean => verdict = "passed"
      BY <2>1, <2>6, CleanIsSuccessful DEF Clean, Faithful
    <2>9. (Justified' <=> Justified) /\ (Clean' <=> Clean)
      BY <2>2, <2>4, VerdictOfDumps
    <2>10. (test'.verdict = "passed" => Justified') /\ (Clean' => test'.verdict = "passed")
      BY <2>4, <2>7, <2>8, <2>9
    <2>. QED
      BY <2>10 DEF VerdictRight, Justified, Clean
  <1>2. CASE Exit \/ UNCHANGED testVars
    <2>1. UNCHANGED <<content, test>>
      BY <1>2 DEF Exit, testVars, vars
    <2>2. (Justified' <=> Justified) /\ (Clean' <=> Clean)
      BY <2>1, VerdictOfDumps
    <2>3. Checked' <=> Checked
      BY <2>1 DEF Checked, Step
    <2>4. Checked => (test.verdict = "passed" => Justified) /\ (Clean => test.verdict = "passed")
      BY VerdictOfParts
    <2>5. Checked' => (test'.verdict = "passed" => Justified') /\ (Clean' => test'.verdict = "passed")
      BY <2>1, <2>2, <2>3, <2>4
    <2>. QED
      BY <2>5 DEF VerdictRight, Justified, Clean
  <1>3. ASSUME ~Checked'
        PROVE  VerdictRight'
    BY <1>3 DEF VerdictRight
  <1>4. CASE test = None /\ UNCHANGED test
    BY <1>3, <1>4 DEF Checked
  <1>5. CASE TestBegin \/ TestResume
    <2>1. UNCHANGED test /\ test.verdict = None
      BY <1>5 DEF TestBegin, TestResume, Judging
    <2>. QED
      BY <1>3, <2>1 DEF Checked
  <1>6. CASE Collect
    <2>1. test # None /\ test.verdict = None /\ loop # None /\ Step \in Lists
      BY <1>6 DEF Collect, Judging, TestInv, LoopCollects
    <2>2. TestTypes
      BY <2>1 DEF CollectInv
    <2>3. test.step \in 1..6
      BY <2>2 DEF TestTypes
    <2>4. test.step \in {1, 2, 4, 5}
      BY <2>1, <2>3, TheSteps DEF Step
    <2>5. Collected[test.step] # "verdict"
      BY <2>4, TheSteps
    <2>6. test' = [test EXCEPT ![Collected[test.step]] = MapOf(Step, loop.shown), !.step = @ + 1]
      BY <1>6 DEF Collect
    <2>7. test'.verdict = test.verdict
      BY <2>2, <2>5, <2>6 DEF TestTypes
    <2>. QED
      BY <1>3, <2>1, <2>7 DEF Checked
  <1>7. CASE MakeBaseHeap
    <2>1. test # None /\ test.verdict = None /\ Step = "base" /\ TestTypes
      BY <1>7 DEF MakeBaseHeap, Judging, CollectInv
    <2>2. test' = [test EXCEPT !.step = @ + 1] \/ test' = [test EXCEPT !.verdict = "passed"]
      BY <1>7 DEF MakeBaseHeap
    <2>3. test'.verdict = None \/ test'.step = test.step
      BY <2>1, <2>2 DEF TestTypes
    <2>. QED
      BY <1>3, <2>1, <2>3 DEF Checked, Step
  <1>8. CASE OpenSecond
    <2>1. test' = [test EXCEPT !.file = 2, !.step = 1, !.verdict = None] /\ TestTypes
      BY <1>8 DEF OpenSecond, CollectInv
    <2>2. test'.verdict = None
      BY <2>1 DEF TestTypes
    <2>. QED
      BY <1>3, <2>2 DEF Checked
  <1>. QED
    BY <1>1, <1>2, <1>4, <1>5, <1>6, <1>7, <1>8 DEF NextTest

(* A file passes only if every allocation the program still held is in the *)
(* lists with its bytes, or is overlooked for a block of the base dump at  *)
(* its place, and every new block of the CRT is in the list of its kind;   *)
(* and a file with nothing amiss does pass.  For all dumps.                *)
THEOREM VerdictCorrect == TestSpec => []VerdictRight
  <1>1. InitTest => TestInv /\ CollectInv
    BY InitTestInv, InitCollectInv
  <1>2. InitTest => VerdictRight
    <2>. SUFFICES ASSUME InitTest PROVE ~Checked
      BY DEF VerdictRight
    <2>1. test # None => test.verdict = None
      BY DEF InitTest
    <2>. QED
      BY <2>1 DEF Checked
  <1>3. TestInv /\ [NextTest]_testVars => TestInv'
    BY TestStepKeepsInv
  <1>4. TestInv /\ CollectInv /\ [NextTest]_testVars => CollectInv'
    BY TestStepKeepsCollected
  <1>5. TestInv /\ CollectInv /\ VerdictRight /\ [NextTest]_testVars => VerdictRight'
    BY VerdictStaysRight
  <1>. QED
    BY <1>1, <1>2, <1>3, <1>4, <1>5, PTL DEF TestSpec

-------------------------------------------------------------------------------
(* The sum over a set takes one element after the other from it.           *)
Some(s) == CHOOSE x \in s : TRUE

(* A sum over a set as FoldSet defines it: g[s] is the sum over s.         *)
Sums(g, w, S) == g = [s \in SUBSET S |-> IF s = {} THEN 0 ELSE g[s \ {Some(s)}] + w[Some(s)]]

(* There is a function that adds up any weights over the subsets of a      *)
(* finite set: were there none for the subsets of at most n elements, with *)
(* n the least, it could be made from the one for n - 1.                   *)
LEMMA SumsExist ==
    ASSUME NEW S, IsFiniteSet(S), NEW w
    PROVE  \E g : Sums(g, w, S)
  <1>. DEFINE upto(n) == {s \in SUBSET S : Cardinality(s) <= n}
              body(g, s) == IF s = {} THEN 0 ELSE g[s \ {Some(s)}] + w[Some(s)]
              good(n) == \E g : g = [s \in upto(n) |-> body(g, s)]
              bad == {n \in Nat : ~good(n)}
  <1>1. \A s \in SUBSET S : /\ IsFiniteSet(s) /\ Cardinality(s) \in Nat /\ Cardinality(s) <= Cardinality(S)
                            /\ Cardinality(s) = 0 <=> s = {}
    BY FS_Subset, FS_CardinalityType, FS_EmptySet
  <1>2. \A s \in SUBSET S : s # {} => /\ Some(s) \in s /\ s \ {Some(s)} \in SUBSET S
                                      /\ Cardinality(s \ {Some(s)}) = Cardinality(s) - 1
    BY <1>1, FS_RemoveElement DEF Some
  <1>3. good(0)
    <2>. DEFINE g == [s \in upto(0) |-> 0]
    <2>1. \A s \in upto(0) : s = {}
      BY <1>1
    <2>2. g = [s \in upto(0) |-> body(g, s)]
      BY <2>1
    <2>. QED
      BY <2>2
  <1>4. ASSUME NEW n \in Nat, good(n)
        PROVE  good(n + 1)
    <2>1. PICK g : g = [s \in upto(n) |-> body(g, s)]
      BY <1>4
    <2>. DEFINE h == [s \in upto(n + 1) |-> body(g, s)]
    <2>2. ASSUME NEW s \in upto(n + 1), s # {}
          PROVE  h[s \ {Some(s)}] = g[s \ {Some(s)}]
      <3>1. s \ {Some(s)} \in upto(n) /\ s \ {Some(s)} \in upto(n + 1)
        BY <1>1, <1>2, <2>2
      <3>. HIDE DEF upto, body
      <3>. QED
        BY <2>1, <3>1
    <2>3. h = [s \in upto(n + 1) |-> body(h, s)]
      <3>. HIDE DEF upto
      <3>1. \A s \in upto(n + 1) : body(g, s) = body(h, s)
        <4>. HIDE DEF h
        <4>. QED
          BY <2>2
      <3>. HIDE DEF body
      <3>. QED
        BY <3>1
    <2>. QED
      BY <2>3
  <1>. HIDE DEF good
  <1>5. bad = {}
    <2>. SUFFICES ASSUME bad # {} PROVE FALSE
      OBVIOUS
    <2>1. IsWellFoundedOn(OpToRel(<, Nat), Nat)
      BY NatLessThanWellFounded
    <2>2. bad \subseteq Nat
      OBVIOUS
    <2>3. PICK n \in bad : \A m \in bad : ~(<<m, n>> \in OpToRel(<, Nat))
      BY <2>1, <2>2, WFMin
    <2>4. n \in Nat /\ n # 0 /\ ~good(n)
      BY <1>3
    <2>5. n - 1 \in Nat /\ n - 1 < n
      BY <2>4
    <2>6. n - 1 \notin bad
      BY <2>3, <2>4, <2>5 DEF OpToRel
    <2>7. good(n - 1 + 1)
      BY <1>4, <2>5, <2>6
    <2>8. n - 1 + 1 = n
      BY <2>4
    <2>. QED
      BY <2>4, <2>7, <2>8
  <1>6. good(Cardinality(S))
    BY <1>1, <1>5
  <1>7. upto(Cardinality(S)) = SUBSET S
    BY <1>1
  <1>. HIDE DEF upto
  <1>. QED
    BY <1>6, <1>7 DEF good, Sums

(* What any such function adds up: a sum of natural numbers is one, is not *)
(* less than any of them, and is nothing if they all are.                  *)
LEMMA SumsAddUp ==
    ASSUME NEW S, IsFiniteSet(S), NEW w, \A x \in S : w[x] \in Nat, NEW g, Sums(g, w, S)
    PROVE  /\ g[S] \in Nat
           /\ \A x \in S : w[x] <= g[S]
           /\ (\A x \in S : w[x] = 0) => g[S] = 0
  <1>. DEFINE right(s) == /\ g[s] \in Nat
                          /\ \A x \in s : w[x] <= g[s]
                          /\ (\A x \in S : w[x] = 0) => g[s] = 0
              bad == {s \in SUBSET S : ~right(s)}
              sizes == {Cardinality(s) : s \in bad}
  <1>1. \A s \in SUBSET S : IsFiniteSet(s) /\ Cardinality(s) \in Nat
    BY FS_Subset, FS_CardinalityType
  <1>2. \A s \in SUBSET S : s # {} => /\ Some(s) \in s /\ s \ {Some(s)} \in SUBSET S
                                      /\ Cardinality(s \ {Some(s)}) = Cardinality(s) - 1
    BY <1>1, FS_RemoveElement DEF Some
  <1>3. \A s \in SUBSET S : g[s] = IF s = {} THEN 0 ELSE g[s \ {Some(s)}] + w[Some(s)]
    BY DEF Sums
  <1>4. ASSUME NEW s \in SUBSET S, s # {}, right(s \ {Some(s)})
        PROVE  right(s)
    <2>. DEFINE x == Some(s)
                r == s \ {Some(s)}
    <2>1. x \in s /\ x \in S /\ w[x] \in Nat /\ g[r] \in Nat /\ g[s] = g[r] + w[x]
      BY <1>2, <1>3, <1>4
    <2>2. \A y \in s : y = x \/ y \in r
      OBVIOUS
    <2>3. \A y \in r : w[y] \in Nat /\ w[y] <= g[r]
      BY <1>4
    <2>4. (\A y \in S : w[y] = 0) => g[r] = 0
      BY <1>4
    <2>. HIDE DEF x, r
    <2>. QED
      BY <2>1, <2>2, <2>3, <2>4
  <1>5. right({})
    BY <1>3
  <1>. HIDE DEF right
  <1>6. bad = {}
    <2>. SUFFICES ASSUME bad # {} PROVE FALSE
      OBVIOUS
    <2>1. IsWellFoundedOn(OpToRel(<, Nat), Nat)
      BY NatLessThanWellFounded
    <2>2. sizes \subseteq Nat /\ sizes # {}
      BY <1>1
    <2>3. PICK n \in sizes : \A m \in sizes : ~(<<m, n>> \in OpToRel(<, Nat))
      BY <2>1, <2>2, WFMin
    <2>4. PICK s \in bad : n = Cardinality(s)
      OBVIOUS
    <2>5. s \in SUBSET S /\ s # {} /\ ~right(s)
      BY <1>5, <2>4
    <2>6. Cardinality(s \ {Some(s)}) = n - 1 /\ n \in Nat /\ s \ {Some(s)} \in SUBSET S
      BY <1>1, <1>2, <2>4, <2>5
    <2>7. n - 1 \in Nat
      BY <1>1, <2>6
    <2>8. s \ {Some(s)} \in bad
      BY <1>4, <2>5, <2>6
    <2>9. n - 1 \in sizes
      BY <2>6, <2>8
    <2>10. <<n - 1, n>> \in OpToRel(<, Nat)
      BY <2>6, <2>7 DEF OpToRel
    <2>. QED
      BY <2>3, <2>9, <2>10
  <1>7. right(S)
    BY <1>6
  <1>. QED
    BY <1>7 DEF right


(* What AddUp adds up is such a sum.                                       *)
LEMMA AddUpIsSum ==
    ASSUME NEW S, IsFiniteSet(S), NEW field
    PROVE  \E g : Sums(g, [e \in S |-> e[field]], S) /\ AddUp(S, field) = g[S]
  <1>. DEFINE w == [e \in S |-> e[field]]
              body(g) == [s \in SUBSET S |->
                            IF s = {} THEN 0 ELSE g[s \ {CHOOSE x \in s : TRUE}] + (CHOOSE x \in s : TRUE)[field]]
  <1>1. AddUp(S, field) = (CHOOSE g : g = body(g))[S]
    BY DEF AddUp, FoldSet, MapThenFoldSet
  <1>2. \A g : Sums(g, w, S) <=> g = body(g)
    <2>1. \A s \in SUBSET S : s # {} => Some(s) \in S /\ w[Some(s)] = Some(s)[field]
      BY DEF Some
    <2>2. \A s \in SUBSET S : s # {} => Some(s) = CHOOSE x \in s : TRUE
      BY DEF Some
    <2>. HIDE DEF w
    <2>3. ASSUME NEW g
          PROVE  body(g) = [s \in SUBSET S |-> IF s = {} THEN 0 ELSE g[s \ {Some(s)}] + w[Some(s)]]
      <3>. DEFINE one(s) == IF s = {} THEN 0 ELSE g[s \ {CHOOSE x \in s : TRUE}] + (CHOOSE x \in s : TRUE)[field]
                  two(s) == IF s = {} THEN 0 ELSE g[s \ {Some(s)}] + w[Some(s)]
      <3>1. ASSUME NEW s \in SUBSET S
            PROVE  one(s) = two(s)
        <4>1. CASE s = {}
          BY <4>1
        <4>2. CASE s # {}
          <5>1. w[Some(s)] = Some(s)[field]
            BY <2>1, <4>2
          <5>2. one(s) = g[s \ {Some(s)}] + Some(s)[field]
            BY <4>2 DEF Some
          <5>3. two(s) = g[s \ {Some(s)}] + w[Some(s)]
            BY <4>2
          <5>. QED
            BY <5>1, <5>2, <5>3
        <4>. QED
          BY <4>1, <4>2
      <3>2. [s \in SUBSET S |-> one(s)] = [s \in SUBSET S |-> two(s)]
        <4>. HIDE DEF one, two
        <4>. QED
          BY <3>1
      <3>. QED
        BY <3>2
    <2>. QED
      BY <2>3 DEF Sums
  <1>3. \E g : g = body(g)
    <2>1. \E g : Sums(g, w, S)
      <3>. HIDE DEF w
      <3>. QED
        BY SumsExist
    <2>. HIDE DEF w, body
    <2>. QED
      BY <1>2, <2>1
  <1>. HIDE DEF body
  <1>. QED
    BY <1>1, <1>2, <1>3

(* What the sums of sizes and overheads are.                               *)
LEMMA Totals ==
    ASSUME NEW S, IsFiniteSet(S), NEW field, \A e \in S : e[field] \in Nat
    PROVE  /\ AddUp(S, field) \in Nat
           /\ \A e \in S : e[field] <= AddUp(S, field)
           /\ (\A e \in S : e[field] = 0) => AddUp(S, field) = 0
  <1>. DEFINE w == [e \in S |-> e[field]]
  <1>1. \A e \in S : w[e] = e[field]
    OBVIOUS
  <1>2. PICK g : Sums(g, w, S) /\ AddUp(S, field) = g[S]
    BY AddUpIsSum
  <1>. HIDE DEF w
  <1>3. /\ g[S] \in Nat
        /\ \A x \in S : w[x] <= g[S]
        /\ (\A x \in S : w[x] = 0) => g[S] = 0
    <2>1. \A x \in S : w[x] \in Nat
      BY <1>1
    <2>. QED
      BY <1>2, <2>1, SumsAddUp
  <1>. QED
    BY <1>1, <1>2, <1>3


-------------------------------------------------------------------------------
LEMMA LeastIsLeast ==
    ASSUME NEW S \in SUBSET Nat, S # {}
    PROVE  Least(S) \in S /\ \A y \in S : Least(S) <= y
  <1>1. PICK n \in S : \A m \in S : ~(<<m, n>> \in OpToRel(<, Nat))
    <2>1. IsWellFoundedOn(OpToRel(<, Nat), Nat)
      BY NatLessThanWellFounded
    <2>. QED
      BY <2>1, WFMin
  <1>2. \A m \in S : n <= m
    <2>. SUFFICES ASSUME NEW m \in S, m < n PROVE FALSE
      OBVIOUS
    <2>1. <<m, n>> \in OpToRel(<, Nat)
      BY DEF OpToRel
    <2>. QED
      BY <1>1, <2>1
  <1>. QED
    BY <1>2 DEF Least

(* The one with the fewest above it.                                       *)
LEMMA GreatestIsGreatest ==
    ASSUME NEW S \in SUBSET Nat, IsFiniteSet(S), S # {}
    PROVE  Greatest(S) \in S /\ \A y \in S : y <= Greatest(S)
  <1>. DEFINE above(x) == {y \in S : x < y}
              counts == {Cardinality(above(x)) : x \in S}
  <1>1. \A x \in S : IsFiniteSet(above(x)) /\ Cardinality(above(x)) \in Nat
    BY FS_Subset, FS_CardinalityType
  <1>2. counts \in SUBSET Nat /\ counts # {}
    BY <1>1
  <1>3. Least(counts) \in counts /\ \A y \in counts : Least(counts) <= y
    BY <1>2, LeastIsLeast
  <1>4. PICK x \in S : Least(counts) = Cardinality(above(x))
    BY <1>3
  <1>5. \A y \in S : y <= x
    <2>. SUFFICES ASSUME NEW y \in S, x < y PROVE FALSE
      OBVIOUS
    <2>4. x \in Nat /\ y \in Nat /\ \A z \in S : z \in Nat /\ (y < z => x < z)
      OBVIOUS
    <2>1. above(y) \in SUBSET above(x) /\ y \in above(x) /\ y \notin above(y)
      <3>1. \A z \in above(y) : z \in above(x)
        BY <2>4
      <3>2. y \in above(x)
        OBVIOUS
      <3>3. y \notin above(y)
        BY <2>4
      <3>. HIDE DEF above
      <3>. QED
        BY <3>1, <3>2, <3>3
    <2>2. Cardinality(above(x)) <= Cardinality(above(y))
      BY <1>3, <1>4
    <2>. HIDE DEF above
    <2>3. Cardinality(above(x)) = Cardinality(above(y))
      BY <1>1, <2>1, <2>2, FS_Subset
    <2>. QED
      BY <1>1, <2>1, <2>3, FS_Subset
  <1>. QED
    BY <1>5 DEF Greatest

LEMMA ImageIsFinite ==
    ASSUME NEW S, IsFiniteSet(S), NEW f, NEW T, T = {f[x] : x \in S}
    PROVE  IsFiniteSet(T)
  <1>. DEFINE g == [x \in S |-> f[x]]
  <1>1. g \in Surjection(S, T)
    BY DEF Surjection
  <1>. QED
    BY <1>1, FS_Surjection

-------------------------------------------------------------------------------
(* What is said of the entries of a table.                                 *)
Countable(S) ==
    /\ IsFiniteSet(S)
    /\ \A e \in S : e.block \in Nat /\ e.size \in Nat /\ e.overhead \in Nat /\ e.stack \in Seq(Nat)

LEMMA PartIsCountable ==
    ASSUME NEW S, Countable(S), NEW T, T \subseteq S
    PROVE  Countable(T)
  <1>1. IsFiniteSet(T)
    BY FS_Subset DEF Countable
  <1>. QED
    BY <1>1 DEF Countable

LEMMA TotalsAreNumbers ==
    ASSUME NEW S, Countable(S)
    PROVE  /\ TotalOf(S) \in Nat /\ OverheadOf(S) \in Nat /\ Cardinality(S) \in Nat
           /\ TotalOf(S) = 0 => \A e \in S : e.size = 0
           /\ (\A e \in S : e.size = 0) => TotalOf(S) = 0
  <1>1. \A e \in S : e["size"] \in Nat /\ e["overhead"] \in Nat
    BY DEF Countable
  <1>2. IsFiniteSet(S)
    BY DEF Countable
  <1>3. /\ AddUp(S, "size") \in Nat
        /\ \A e \in S : e["size"] <= AddUp(S, "size")
        /\ (\A e \in S : e["size"] = 0) => AddUp(S, "size") = 0
    BY <1>1, <1>2, Totals
  <1>4. AddUp(S, "overhead") \in Nat
    BY <1>1, <1>2, Totals
  <1>5. Cardinality(S) \in Nat
    BY <1>2, FS_CardinalityType
  <1>6. TotalOf(S) = 0 => \A e \in S : e["size"] = 0
    BY <1>1, <1>3 DEF TotalOf
  <1>. QED
    BY <1>3, <1>4, <1>5, <1>6 DEF TotalOf, OverheadOf

LEMMA SizesHaveBounds ==
    ASSUME NEW S, Countable(S), S # {}
    PROVE  /\ Least(SizesOf(S)) \in Nat /\ Greatest(SizesOf(S)) \in Nat
           /\ \A e \in S : Least(SizesOf(S)) <= e.size /\ e.size <= Greatest(SizesOf(S))
  <1>. DEFINE size == [e \in S |-> e.size]
  <1>1. SizesOf(S) = {size[e] : e \in S}
    BY DEF SizesOf
  <1>2. IsFiniteSet(SizesOf(S))
    <2>. HIDE DEF size
    <2>. QED
      BY <1>1, ImageIsFinite DEF Countable
  <1>3. SizesOf(S) \in SUBSET Nat /\ SizesOf(S) # {} /\ \A e \in S : e.size \in SizesOf(S)
    BY DEF SizesOf, Countable
  <1>. QED
    BY <1>2, <1>3, LeastIsLeast, GreatestIsGreatest

(* A place that is named is one of the application, on the stack of all.   *)
LEMMA CallsiteIsCommon ==
    ASSUME NEW S, Countable(S), Callsite(S) # 0
    PROVE  Callsite(S) \in Application /\ \A e \in S : Callsite(S) \in ToSet(e.stack)
  <1>. DEFINE first == FirstOf(S)
              sites == {i \in DOMAIN first.stack : first.stack[i] \in Application
                                                     /\ \A e \in S : first.stack[i] \in ToSet(e.stack)}
  <1>1. S # {} /\ sites # {} /\ Callsite(S) = first.stack[Least(sites)]
    BY DEF Callsite
  <1>2. first \in S
    <2>. DEFINE blocks == {e.block : e \in S}
    <2>1. blocks \in SUBSET Nat /\ blocks # {}
      BY <1>1 DEF Countable
    <2>2. PICK e \in S : Least(blocks) = e.block
      BY <2>1, LeastIsLeast
    <2>3. \A f \in S : e.block <= f.block
      BY <2>1, <2>2, LeastIsLeast
    <2>. QED
      BY <2>3 DEF FirstOf
  <1>3. sites \in SUBSET Nat
    BY <1>2 DEF Countable
  <1>4. Least(sites) \in sites
    BY <1>1, <1>3, LeastIsLeast
  <1>. QED
    BY <1>1, <1>4

-------------------------------------------------------------------------------
(* The rows of a table: every entry stands in one of them, its size is in  *)
(* the range of the row, and the place that is named is common to all.     *)
RowRight(kind, r, used, free) ==
    /\ r.entries \subseteq used /\ r.free \subseteq free
    /\ r.start \in Nat
    /\ \A e \in r.entries \union r.free :
          /\ r.start <= e.size /\ e.size <= r.end
          /\ kind = "by_size_ranges" => e.size < r.end
    /\ r.callsite # 0 =>
          r.callsite \in Application /\ \A e \in r.entries : r.callsite \in ToSet(e.stack)

Partitions(rows, used, free) ==
    /\ IsFiniteSet(rows)
    /\ UNION {r.entries : r \in rows} = used /\ UNION {r.free : r \in rows} = free
    /\ \A r, q \in rows : r # q => r.entries \intersect q.entries = {} /\ r.free \intersect q.free = {}

(* Rows that are made for the keys of the entries part them.               *)
MadeFor(rows, keys, row, key, used, free) ==
    /\ keys = {key[e] : e \in used \union free}
    /\ rows = {row[k] : k \in keys}
    /\ \A k \in keys : /\ row[k].entries = {e \in used : key[e] = k}
                       /\ row[k].free = {e \in free : key[e] = k}

LEMMA KeysPartition ==
    ASSUME NEW used, NEW free, IsFiniteSet(used), IsFiniteSet(free), NEW key, NEW row, NEW rows, NEW keys,
           MadeFor(rows, keys, row, key, used, free)
    PROVE  Partitions(rows, used, free)
  <1>. USE DEF MadeFor
  <1>1. IsFiniteSet(rows)
    <2>1. IsFiniteSet(used \union free)
      BY FS_Union
    <2>2. IsFiniteSet(keys)
      BY <2>1, ImageIsFinite
    <2>. QED
      BY <2>2, ImageIsFinite
  <1>2. UNION {r.entries : r \in rows} = used
    OBVIOUS
  <1>3. UNION {r.free : r \in rows} = free
    OBVIOUS
  <1>4. ASSUME NEW r \in rows, NEW q \in rows, r # q
        PROVE  r.entries \intersect q.entries = {} /\ r.free \intersect q.free = {}
    <2>1. PICK k \in keys : r = row[k]
      OBVIOUS
    <2>2. PICK l \in keys : q = row[l]
      OBVIOUS
    <2>3. k # l
      BY <1>4, <2>1, <2>2
    <2>. QED
      BY <2>1, <2>2, <2>3
  <1>. QED
    BY <1>1, <1>2, <1>3, <1>4 DEF Partitions

LEMMA RangesOfSizes ==
    ASSUME NEW n \in Nat
    PROVE  /\ (n \div RangeSize) * RangeSize \in Nat
           /\ (n \div RangeSize) * RangeSize <= n
           /\ n < (n \div RangeSize) * RangeSize + RangeSize
  BY ViewsAssumption

LEMMA BySizeRight ==
    ASSUME NEW used, NEW free, Countable(used), Countable(free)
    PROVE  /\ Partitions(BySize(used, free), used, free)
           /\ \A r \in BySize(used, free) : RowRight("by_size", r, used, free)
  <1>. DEFINE all == used \union free
              key == [e \in all |-> e.size]
              keys == {key[e] : e \in all}
              row == [k \in keys |-> BucketView(<<k, k>>, {e \in used : e.size = k}, {e \in free : e.size = k},
                                                Callsite({e \in used : e.size = k}))]
              rows == BySize(used, free)
  <1>1. \A e \in all : key[e] = e.size /\ e.size \in Nat
    BY DEF Countable
  <1>2. keys = {e.size : e \in all}
    BY <1>1
  <1>3. rows = {row[k] : k \in keys}
    BY <1>2 DEF BySize, Bucketed
  <1>4. \A k \in keys : /\ row[k].entries = {e \in used : key[e] = k}
                        /\ row[k].free = {e \in free : key[e] = k}
    BY <1>1 DEF BucketView
  <1>5. Partitions(rows, used, free)
    <2>1. IsFiniteSet(used) /\ IsFiniteSet(free)
      BY DEF Countable
    <2>2. keys = {key[e] : e \in used \union free}
      OBVIOUS
    <2>. HIDE DEF row, rows, key, keys
    <2>3. MadeFor(rows, keys, row, key, used, free)
      BY <1>3, <1>4, <2>2 DEF MadeFor
    <2>. QED
      BY <2>1, <2>3, KeysPartition
  <1>6. ASSUME NEW r \in rows
        PROVE  RowRight("by_size", r, used, free)
    <2>1. PICK k \in keys : r = row[k]
      BY <1>3
    <2>. DEFINE u == {e \in used : e.size = k}
    <2>2. /\ r.entries = u /\ r.free = {e \in free : e.size = k} /\ r.start = k /\ r.end = k
          /\ r.callsite = Callsite(u)
      BY <2>1 DEF BucketView
    <2>3. k \in Nat
      BY <1>1
    <2>4. Countable(u)
      BY PartIsCountable
    <2>5. r.callsite # 0 => r.callsite \in Application /\ \A e \in r.entries : r.callsite \in ToSet(e.stack)
      <3>. HIDE DEF u
      <3>. QED
        BY <2>2, <2>4, CallsiteIsCommon
    <2>. QED
      BY <2>2, <2>3, <2>5 DEF RowRight
  <1>. QED
    BY <1>5, <1>6

LEMMA BySizeRangesRight ==
    ASSUME NEW used, NEW free, Countable(used), Countable(free)
    PROVE  /\ Partitions(BySizeRanges(used, free), used, free)
           /\ \A r \in BySizeRanges(used, free) : RowRight("by_size_ranges", r, used, free)
  <1>. DEFINE all == used \union free
              key == [e \in all |-> e.size \div RangeSize]
              keys == {key[e] : e \in all}
              row == [k \in keys |-> BucketView(<<k * RangeSize, k * RangeSize + RangeSize>>, {e \in used : e.size \div RangeSize = k}, {e \in free : e.size \div RangeSize = k},
                                                Callsite({e \in used : e.size \div RangeSize = k}))]
              rows == BySizeRanges(used, free)
  <1>1. \A e \in all : key[e] = e.size \div RangeSize /\ e.size \in Nat
    BY DEF Countable
  <1>2. keys = {e.size \div RangeSize : e \in all}
    BY <1>1
  <1>3. rows = {row[k] : k \in keys}
    BY <1>2 DEF BySizeRanges, Bucketed
  <1>4. \A k \in keys : /\ row[k].entries = {e \in used : key[e] = k}
                        /\ row[k].free = {e \in free : key[e] = k}
    BY <1>1 DEF BucketView
  <1>5. Partitions(rows, used, free)
    <2>1. IsFiniteSet(used) /\ IsFiniteSet(free)
      BY DEF Countable
    <2>2. keys = {key[e] : e \in used \union free}
      OBVIOUS
    <2>. HIDE DEF row, rows, key, keys
    <2>3. MadeFor(rows, keys, row, key, used, free)
      BY <1>3, <1>4, <2>2 DEF MadeFor
    <2>. QED
      BY <2>1, <2>3, KeysPartition
  <1>6. ASSUME NEW r \in rows
        PROVE  RowRight("by_size_ranges", r, used, free)
    <2>1. PICK k \in keys : r = row[k]
      BY <1>3
    <2>. DEFINE u == {e \in used : e.size \div RangeSize = k}
    <2>2. /\ r.entries = u /\ r.free = {e \in free : e.size \div RangeSize = k} /\ r.start = k * RangeSize /\ r.end = k * RangeSize + RangeSize
          /\ r.callsite = Callsite(u)
      BY <2>1 DEF BucketView
    <2>3. k * RangeSize \in Nat
      BY <1>1, <1>2, RangesOfSizes
    <2>6. \A e \in r.entries \union r.free : /\ e.size \in Nat /\ k * RangeSize <= e.size
                                             /\ e.size < k * RangeSize + RangeSize
      BY <1>1, <2>2, RangesOfSizes
    <2>7. \A e \in r.entries \union r.free : e.size <= k * RangeSize + RangeSize
      BY <2>3, <2>6, ViewsAssumption
    <2>4. Countable(u)
      BY PartIsCountable
    <2>5. r.callsite # 0 => r.callsite \in Application /\ \A e \in r.entries : r.callsite \in ToSet(e.stack)
      <3>. HIDE DEF u
      <3>. QED
        BY <2>2, <2>4, CallsiteIsCommon
    <2>. QED
      BY <2>2, <2>3, <2>5, <2>6, <2>7 DEF RowRight
  <1>. QED
    BY <1>5, <1>6
LEMMA ByStacktraceRight ==
    ASSUME NEW used, NEW free, Countable(used), Countable(free)
    PROVE  /\ Partitions(ByStacktrace(used, free), used, free)
           /\ \A r \in ByStacktrace(used, free) : RowRight("by_stacktrace", r, used, free)
  <1>. DEFINE all == used \union free
              key == [e \in all |-> e.ust]
              keys == {key[e] : e \in all}
              row == [k \in keys |-> BucketView(SizesRange(k, {e \in used : e.ust = k}, {e \in free : e.ust = k}),
                                                {e \in used : e.ust = k}, {e \in free : e.ust = k},
                                                Callsite({e \in used : e.ust = k}))]
              rows == ByStacktrace(used, free)
  <1>1. \A e \in all : key[e] = e.ust
    OBVIOUS
  <1>2. keys = {e.ust : e \in all}
    BY <1>1
  <1>3. rows = {row[k] : k \in keys}
    BY <1>2 DEF ByStacktrace, Bucketed
  <1>4. \A k \in keys : /\ row[k].entries = {e \in used : key[e] = k}
                        /\ row[k].free = {e \in free : key[e] = k}
    BY <1>1 DEF BucketView
  <1>5. Partitions(rows, used, free)
    <2>1. IsFiniteSet(used) /\ IsFiniteSet(free)
      BY DEF Countable
    <2>2. keys = {key[e] : e \in used \union free}
      OBVIOUS
    <2>. HIDE DEF row, rows, key, keys
    <2>3. MadeFor(rows, keys, row, key, used, free)
      BY <1>3, <1>4, <2>2 DEF MadeFor
    <2>. QED
      BY <2>1, <2>3, KeysPartition
  <1>6. ASSUME NEW r \in rows
        PROVE  RowRight("by_stacktrace", r, used, free)
    <2>1. PICK k \in keys : r = row[k]
      BY <1>3
    <2>. DEFINE u == {e \in used : e.ust = k}
                f == {e \in free : e.ust = k}
                sizes == SizesOf(u \union f)
    <2>2. /\ r.entries = u /\ r.free = f /\ r.start = Least(sizes) /\ r.end = Greatest(sizes)
          /\ r.callsite = Callsite(u)
      BY <2>1 DEF BucketView, SizesRange
    <2>3. u \union f # {}
      BY <1>1
    <2>4. Countable(u) /\ Countable(u \union f)
      <3>1. Countable(all)
        BY FS_Union DEF Countable
      <3>2. u \subseteq all /\ u \union f \subseteq all
        OBVIOUS
      <3>. HIDE DEF u, f, all
      <3>. QED
        BY <3>1, <3>2, PartIsCountable
    <2>6. /\ Least(sizes) \in Nat /\ Greatest(sizes) \in Nat
          /\ \A e \in u \union f : Least(sizes) <= e.size /\ e.size <= Greatest(sizes)
      <3>. HIDE DEF u, f
      <3>. QED
        BY <2>3, <2>4, SizesHaveBounds
    <2>5. r.callsite # 0 => r.callsite \in Application /\ \A e \in r.entries : r.callsite \in ToSet(e.stack)
      <3>. HIDE DEF u
      <3>. QED
        BY <2>2, <2>4, CallsiteIsCommon
    <2>7. u \subseteq used /\ f \subseteq free
      OBVIOUS
    <2>. HIDE DEF u, f, sizes
    <2>. QED
      BY <2>2, <2>5, <2>6, <2>7 DEF RowRight
  <1>. QED
    BY <1>5, <1>6
LEMMA ByCallsiteRight ==
    ASSUME NEW used, NEW free, Countable(used), Countable(free)
    PROVE  /\ Partitions(ByCallsite(used, free), used, free)
           /\ \A r \in ByCallsite(used, free) : RowRight("by_callsite", r, used, free)
  <1>. DEFINE all == used \union free
              key == [e \in all |-> Callsite({e})]
              keys == {key[e] : e \in all}
              row == [k \in keys |-> BucketView(SizesRange(k, {e \in used : Callsite({e}) = k}, {e \in free : Callsite({e}) = k}),
                                                {e \in used : Callsite({e}) = k}, {e \in free : Callsite({e}) = k},
                                                k)]
              rows == ByCallsite(used, free)
  <1>1. \A e \in all : key[e] = Callsite({e})
    OBVIOUS
  <1>2. keys = {Callsite({e}) : e \in all}
    BY <1>1
  <1>3. rows = {row[k] : k \in keys}
    BY <1>2 DEF ByCallsite, Bucketed
  <1>4. \A k \in keys : /\ row[k].entries = {e \in used : key[e] = k}
                        /\ row[k].free = {e \in free : key[e] = k}
    BY <1>1 DEF BucketView
  <1>5. Partitions(rows, used, free)
    <2>1. IsFiniteSet(used) /\ IsFiniteSet(free)
      BY DEF Countable
    <2>2. keys = {key[e] : e \in used \union free}
      OBVIOUS
    <2>. HIDE DEF row, rows, key, keys
    <2>3. MadeFor(rows, keys, row, key, used, free)
      BY <1>3, <1>4, <2>2 DEF MadeFor
    <2>. QED
      BY <2>1, <2>3, KeysPartition
  <1>6. ASSUME NEW r \in rows
        PROVE  RowRight("by_callsite", r, used, free)
    <2>1. PICK k \in keys : r = row[k]
      BY <1>3
    <2>. DEFINE u == {e \in used : Callsite({e}) = k}
                f == {e \in free : Callsite({e}) = k}
                sizes == SizesOf(u \union f)
    <2>2. /\ r.entries = u /\ r.free = f /\ r.start = Least(sizes) /\ r.end = Greatest(sizes)
          /\ r.callsite = k
      BY <2>1 DEF BucketView, SizesRange
    <2>3. u \union f # {}
      BY <1>1
    <2>4. Countable(u) /\ Countable(u \union f)
      <3>1. Countable(all)
        BY FS_Union DEF Countable
      <3>2. u \subseteq all /\ u \union f \subseteq all
        OBVIOUS
      <3>. HIDE DEF u, f, all
      <3>. QED
        BY <3>1, <3>2, PartIsCountable
    <2>6. /\ Least(sizes) \in Nat /\ Greatest(sizes) \in Nat
          /\ \A e \in u \union f : Least(sizes) <= e.size /\ e.size <= Greatest(sizes)
      <3>. HIDE DEF u, f
      <3>. QED
        BY <2>3, <2>4, SizesHaveBounds
    <2>5. r.callsite # 0 => r.callsite \in Application /\ \A e \in r.entries : r.callsite \in ToSet(e.stack)
      <3>. SUFFICES ASSUME k # 0
                    PROVE  k \in Application /\ \A e \in u : k \in ToSet(e.stack)
        BY <2>2
      <3>1. \A e \in u \union f : Callsite({e}) = k /\ Countable({e})
        <4>1. \A e \in u \union f : Callsite({e}) = k
          OBVIOUS
        <4>. HIDE DEF u, f
        <4>2. ASSUME NEW e \in u \union f PROVE Countable({e})
          <5>1. {e} \subseteq u \union f
            OBVIOUS
          <5>. QED
            BY <2>4, <5>1, PartIsCountable
        <4>. QED
          BY <4>1, <4>2
      <3>2. \A e \in u \union f : k \in Application /\ k \in ToSet(e.stack)
        <4>. SUFFICES ASSUME NEW e \in u \union f PROVE k \in Application /\ k \in ToSet(e.stack)
          OBVIOUS
        <4>1. Callsite({e}) = k /\ Countable({e})
          BY <3>1
        <4>. QED
          BY <4>1, CallsiteIsCommon
      <3>. HIDE DEF u, f
      <3>. QED
        BY <2>3, <3>2
    <2>7. u \subseteq used /\ f \subseteq free
      OBVIOUS
    <2>. HIDE DEF u, f, sizes
    <2>. QED
      BY <2>2, <2>5, <2>6, <2>7 DEF RowRight
  <1>. QED
    BY <1>5, <1>6

LEMMA RowsAreRight ==
    ASSUME NEW used, NEW free, Countable(used), Countable(free), NEW kind \in Kinds
    PROVE  /\ Partitions(Rows(kind, used, free), used, free)
           /\ \A r \in Rows(kind, used, free) : RowRight(kind, r, used, free)
  BY BySizeRight, BySizeRangesRight, ByStacktraceRight, ByCallsiteRight DEF Rows, Kinds

-------------------------------------------------------------------------------
(* A table as it is on display.                                            *)
Displayed(v, used, free, shown) ==
    v \in Views /\ shown \in Sorted(v, Rows(v.kind, used, free))

(* No row is shown twice: there are as many places as rows.                *)
LEMMA RowsOnce ==
    ASSUME NEW used, NEW free, Countable(used), Countable(free), NEW v, NEW shown,
           Displayed(v, used, free, shown)
    PROVE  /\ ToSet(shown) = Rows(v.kind, used, free)
           /\ \A i \in DOMAIN shown : shown[i] \in Rows(v.kind, used, free)
           /\ \A i, j \in DOMAIN shown : i # j => shown[i] # shown[j]
           /\ DOMAIN shown \subseteq Nat
  <1>. DEFINE rows == Rows(v.kind, used, free)
              n == Cardinality(rows)
  <1>1. v.kind \in Kinds
    BY ViewsAssumption DEF Displayed
  <1>2. IsFiniteSet(rows) /\ n \in Nat
    BY <1>1, RowsAreRight, FS_CardinalityType DEF Partitions
  <1>. HIDE DEF rows
  <1>3. shown \in [1..n -> rows] /\ ToSet(shown) = rows
    BY DEF Displayed, Sorted, rows
  <1>4. IsFiniteSet(1..n) /\ Cardinality(1..n) = n
    BY <1>2, FS_Interval
  <1>5. shown \in Surjection(1..n, rows)
    BY <1>3 DEF Surjection, ToSet
  <1>6. shown \in Injection(1..n, rows)
    BY <1>4, <1>5, FS_SurjSameCardinalityImpliesInj
  <1>7. \A i, j \in 1..n : i # j => shown[i] # shown[j]
    BY <1>6 DEF Injection, IsInjective
  <1>. QED
    BY <1>2, <1>3, <1>7 DEF rows

LEMMA TableIsRight ==
    ASSUME NEW used, NEW free, Countable(used), Countable(free), NEW v, NEW shown,
           Displayed(v, used, free, shown)
    PROVE  /\ UNION {shown[i].entries : i \in DOMAIN shown} = used
           /\ UNION {shown[i].free : i \in DOMAIN shown} = free
           /\ \A i, j \in DOMAIN shown : i # j =>
                 shown[i].entries \intersect shown[j].entries = {} /\ shown[i].free \intersect shown[j].free = {}
           /\ \A i \in DOMAIN shown : RowRight(v.kind, shown[i], used, free)
  <1>. DEFINE rows == Rows(v.kind, used, free)
  <1>1. v.kind \in Kinds
    BY ViewsAssumption DEF Displayed
  <1>2. Partitions(rows, used, free) /\ \A r \in rows : RowRight(v.kind, r, used, free)
    BY <1>1, RowsAreRight
  <1>3. /\ rows = {shown[i] : i \in DOMAIN shown}
        /\ \A i, j \in DOMAIN shown : i # j => shown[i] # shown[j]
    BY RowsOnce DEF ToSet
  <1>. HIDE DEF rows
  <1>4. UNION {shown[i].entries : i \in DOMAIN shown} = used
    <2>1. UNION {shown[i].entries : i \in DOMAIN shown} = UNION {r.entries : r \in rows}
      BY <1>3
    <2>. QED
      BY <1>2, <2>1 DEF Partitions
  <1>5. UNION {shown[i].free : i \in DOMAIN shown} = free
    <2>1. UNION {shown[i].free : i \in DOMAIN shown} = UNION {r.free : r \in rows}
      BY <1>3
    <2>. QED
      BY <1>2, <2>1 DEF Partitions
  <1>6. \A i, j \in DOMAIN shown : i # j =>
           shown[i].entries \intersect shown[j].entries = {} /\ shown[i].free \intersect shown[j].free = {}
    BY <1>2, <1>3 DEF Partitions
  <1>. QED
    BY <1>2, <1>3, <1>4, <1>5, <1>6

-------------------------------------------------------------------------------
(* The first of the columns a row is sorted by is a number.                *)
LEMMA ColumnsAreNumbers ==
    ASSUME NEW used, NEW free, Countable(used), Countable(free), NEW kind, NEW r, RowRight(kind, r, used, free),
           NEW column \in SortColumns
    PROVE  1 \in DOMAIN Columns(column, r) /\ DOMAIN Columns(column, r) \subseteq Nat \ {0} /\ Columns(column, r)[1] \in Nat
  <1>1. Countable(r.entries) /\ Countable(r.free)
    BY PartIsCountable DEF RowRight
  <1>2. /\ TotalOf(r.entries) \in Nat /\ OverheadOf(r.entries) \in Nat /\ Cardinality(r.entries) \in Nat
        /\ TotalOf(r.free) \in Nat /\ Cardinality(r.free) \in Nat
    BY <1>1, TotalsAreNumbers
  <1>3. Average(r) \in Nat
    <2>1. r.entries # {} => Cardinality(r.entries) # 0
      BY <1>1, FS_EmptySet DEF Countable
    <2>2. \A m, n \in Nat : n # 0 => (m \div n) \in Nat
      OBVIOUS
    <2>. QED
      BY <1>2, <2>1, <2>2 DEF Average
  <1>4. Count(r) \in Nat /\ Total(r) \in Nat /\ r.start \in Nat
    BY <1>2 DEF Count, Total, RowRight
  <1>5. \A x, y : DOMAIN <<x, y>> = 1..2
    OBVIOUS
  <1>6. \A x, y, z : DOMAIN <<x, y, z>> = 1..3
    OBVIOUS
  <1>7. CASE column = "size"
    BY <1>4, <1>6, <1>7 DEF Columns
  <1>8. CASE column = "allocated_average"
    BY <1>3, <1>6, <1>8 DEF Columns
  <1>9. CASE column = "allocated_total"
    BY <1>4, <1>5, <1>9 DEF Columns
  <1>10. CASE column = "allocated_count"
    BY <1>4, <1>5, <1>10 DEF Columns
  <1>11. CASE column = "free_total"
    BY <1>2, <1>5, <1>11 DEF Columns
  <1>12. CASE column = "free_count"
    BY <1>2, <1>5, <1>12 DEF Columns
  <1>13. CASE column = "overhead_total"
    BY <1>2, <1>5, <1>13 DEF Columns
  <1>14. CASE column = "range_count_percent"
    BY <1>4, <1>5, <1>14 DEF Columns
  <1>15. CASE column = "range_size_percent"
    BY <1>4, <1>5, <1>15 DEF Columns
  <1>. QED
    BY <1>7, <1>8, <1>9, <1>10, <1>11, <1>12, <1>13, <1>14, <1>15 DEF SortColumns

(* The rows come in the order of the first column: two that the columns    *)
(* tell apart are sorted, and where a percent is no number they have the   *)
(* same count and the same total, which is none.                           *)
LEMMA TableIsSorted ==
    ASSUME NEW used, NEW free, Countable(used), Countable(free), NEW v, NEW shown,
           Displayed(v, used, free, shown), used = taken["entries"],
           NEW i \in DOMAIN shown, NEW j \in DOMAIN shown, i < j
    PROVE  IF v.descending THEN Columns(v.column, shown[j])[1] <= Columns(v.column, shown[i])[1]
           ELSE Columns(v.column, shown[i])[1] <= Columns(v.column, shown[j])[1]
  <1>. DEFINE x == Columns(v.column, shown[j])
              y == Columns(v.column, shown[i])
              differ == {k \in DOMAIN x : x[k] # y[k]}
  <1>1. v.column \in SortColumns /\ v.descending \in BOOLEAN
    BY ViewsAssumption DEF Displayed
  <1>2. ~SortsBefore(v, shown[j], shown[i])
    BY DEF Displayed, Sorted
  <1>3. RowRight(v.kind, shown[i], used, free) /\ RowRight(v.kind, shown[j], used, free)
    BY TableIsRight
  <1>4. 1 \in DOMAIN x /\ DOMAIN x \subseteq Nat \ {0} /\ x[1] \in Nat /\ y[1] \in Nat
    BY <1>1, <1>3, ColumnsAreNumbers
  <1>5. CASE NoNumber(v.column)
    <2>1. CASE v.column = "range_count_percent" /\ used = {}
      <3>1. shown[i].entries = {} /\ shown[j].entries = {}
        BY <1>3, <2>1 DEF RowRight
      <3>2. x[1] = y[1]
        BY <2>1, <3>1 DEF Columns, Count
      <3>. QED
        BY <1>4, <3>2
    <2>2. CASE v.column = "range_size_percent" /\ TotalOf(used) = 0
      <3>1. \A e \in used : e.size = 0
        BY <2>2, TotalsAreNumbers
      <3>2. /\ Countable(shown[i].entries) /\ \A e \in shown[i].entries : e.size = 0
            /\ Countable(shown[j].entries) /\ \A e \in shown[j].entries : e.size = 0
        BY <1>3, <3>1, PartIsCountable DEF RowRight
      <3>3. TotalOf(shown[i].entries) = 0 /\ TotalOf(shown[j].entries) = 0
        BY <3>2, TotalsAreNumbers
      <3>4. x[1] = y[1]
        BY <2>2, <3>3 DEF Columns, Total
      <3>. QED
        BY <1>4, <3>4
    <2>. QED
      BY <1>5, <2>1, <2>2 DEF NoNumber
  <1>6. CASE ~NoNumber(v.column)
    <2>1. differ = {} \/ ~(IF v.descending THEN y[Least(differ)] < x[Least(differ)]
                                           ELSE x[Least(differ)] < y[Least(differ)])
      BY <1>2, <1>6 DEF SortsBefore
    <2>2. CASE x[1] = y[1]
      BY <1>4, <2>2
    <2>3. CASE x[1] # y[1]
      <3>1. 1 \in differ /\ differ \in SUBSET (Nat \ {0})
        BY <1>4, <2>3
      <3>. HIDE DEF differ, x, y
      <3>2. differ \in SUBSET Nat /\ differ # {}
        BY <3>1
      <3>3. Least(differ) \in differ /\ Least(differ) <= 1
        BY <3>1, <3>2, LeastIsLeast
      <3>4. Least(differ) \in Nat \ {0}
        BY <3>1, <3>3
      <3>5. Least(differ) = 1
        BY <3>3, <3>4
      <3>. QED
        BY <1>4, <2>1, <3>1, <3>5 DEF x, y
    <2>. QED
      BY <2>2, <2>3
  <1>. QED
    BY <1>5, <1>6

-------------------------------------------------------------------------------
LEMMA RestIsSuffix ==
    ASSUME NEW s \in Seq(Nat), NEW m \in 1..Len(s)
    PROVE  IsSuffix(SubSeq(s, m, Len(s)), s) /\ SubSeq(s, m, Len(s)) # <<>>
  <1>. DEFINE n == Len(s)
              t == SubSeq(s, m, n)
              k == n - m + 1
              rs == Reverse(s)
              rt == Reverse(t)
  <1>1. n \in Nat /\ m \in Nat /\ 1 <= m /\ m <= n /\ k \in Nat /\ k >= 1 /\ k <= n
    OBVIOUS
  <1>2. t \in Seq(Nat) /\ Len(t) = k /\ \A i \in 1..k : t[i] = s[m + i - 1]
    OBVIOUS
  <1>. HIDE DEF t, k
  <1>3. /\ rt \in Seq(Nat) /\ Len(rt) = k /\ \A i \in 1..k : rt[i] = t[k - i + 1]
    BY <1>1, <1>2 DEF Reverse
  <1>4. /\ rs \in Seq(Nat) /\ Len(rs) = n /\ \A i \in 1..n : rs[i] = s[n - i + 1]
    BY <1>1 DEF Reverse
  <1>5. \A i \in 1..k : rt[i] = rs[i]
    <2>. SUFFICES ASSUME NEW i \in 1..k PROVE rt[i] = rs[i]
      OBVIOUS
    <2>1. k - i + 1 \in 1..k /\ i \in 1..n /\ m + (k - i + 1) - 1 = n - i + 1
      BY <1>1 DEF k
    <2>2. rt[i] = t[k - i + 1] /\ t[k - i + 1] = s[m + (k - i + 1) - 1] /\ rs[i] = s[n - i + 1]
      BY <1>2, <1>3, <1>4, <2>1
    <2>. QED
      BY <2>1, <2>2
  <1>. HIDE DEF rs, rt
  <1>6. SubSeq(rt, 1, k) = SubSeq(rs, 1, k)
    <2>1. /\ SubSeq(rt, 1, k) \in Seq(Nat) /\ Len(SubSeq(rt, 1, k)) = k
          /\ \A i \in 1..k : SubSeq(rt, 1, k)[i] = rt[i]
      BY <1>1, <1>3
    <2>2. /\ SubSeq(rs, 1, k) \in Seq(Nat) /\ Len(SubSeq(rs, 1, k)) = k
          /\ \A i \in 1..k : SubSeq(rs, 1, k)[i] = rs[i]
      <3>1. rs \in Seq(Nat) /\ Len(rs) = n
        BY <1>4
      <3>. HIDE DEF n
      <3>. QED
        BY <1>1, <3>1
    <2>. QED
      BY <1>5, <2>1, <2>2, SeqEqual
  <1>7. IsPrefix(rt, rs)
    BY <1>1, <1>3, <1>4, <1>6 DEF IsPrefix
  <1>8. t # <<>>
    BY <1>1, <1>2
  <1>. QED
    BY <1>7, <1>8 DEF IsSuffix, rs, rt, t

(* The stack below a place all entries have on theirs is that of one.      *)
LEMMA TraceIsOfOne ==
    ASSUME NEW S, Countable(S), S # {}, NEW site, site # 0, \A e \in S : site \in ToSet(e.stack),
           NEW trace \in TracesFrom(site, S)
    PROVE  \E e \in S : IsSuffix(trace, e.stack) /\ trace # <<>>
  <1>1. {e \in S : site \in ToSet(e.stack)} # {}
    OBVIOUS
  <1>2. PICK e \in S : trace = StackFrom(site, e.stack)
    BY <1>1 DEF TracesFrom
  <1>. DEFINE at == {i \in DOMAIN e.stack : e.stack[i] = site}
  <1>3. e.stack \in Seq(Nat) /\ at \in SUBSET Nat /\ at # {} /\ at \subseteq 1..Len(e.stack)
    BY DEF Countable, ToSet
  <1>4. Least(at) \in 1..Len(e.stack)
    <2>. HIDE DEF at
    <2>. QED
      BY <1>3, LeastIsLeast
  <1>5. trace = SubSeq(e.stack, Least(at), Len(e.stack))
    BY <1>2 DEF StackFrom
  <1>. HIDE DEF at
  <1>. QED
    BY <1>3, <1>4, <1>5, RestIsSuffix

-------------------------------------------------------------------------------
(* What the tables are made from, and what is on display.                  *)
TakenRight(list) ==
    taken[list] # None =>
       /\ Countable(taken[list])
       /\ whole[Dump][list] => taken[list] = Difference(Dump, list)

ViewRight ==
    view # None =>
       /\ taken["entries"] # None /\ taken["free_entries"] # None
       /\ \E v \in Views :
             /\ view.kind = v.kind /\ view.column = v.column /\ view.descending = v.descending
             /\ Displayed(v, taken["entries"], taken["free_entries"], view.rows)
       /\ \A i \in DOMAIN view.rows : view.traces[i] \in TracesFrom(view.rows[i].callsite, view.rows[i].entries)

StatisticsInv ==
    /\ DOMAIN taken = Lists
    /\ taken["entries"] = None => taken["free_entries"] = None
    /\ \A list \in Lists : TakenRight(list)
    /\ ViewRight
    /\ test # None => view = None /\ \A list \in Lists : taken[list] = None

LEMMA InitStatisticsInv ==
    ASSUME InitTest
    PROVE  StatisticsInv
  <1>1. taken = [list \in Lists |-> None] /\ view = None
    BY DEF InitTest, InitStatistics
  <1>. QED
    BY <1>1 DEF StatisticsInv, TakenRight, ViewRight, Lists

LEMMA FoundIsTyped ==
    ASSUME NEW e \in AllFound
    PROVE  e.block \in Nat /\ e.size \in Nat /\ e.overhead \in Nat /\ e.stack \in Seq(Nat)
  <1>1. PICK c \in Contents, h \in Heaps, list \in Lists : e \in {c[h][list][i] : i \in DOMAIN c[h][list]}
    BY DEF AllFound
  <1>. QED
    BY <1>1, EntriesAssumption

LEMMA TableIsCountable ==
    ASSUME NEW found \in Seq(AllFound)
    PROVE  Countable(TableOf(found))
  <1>. DEFINE first == {i \in DOMAIN found : \A j \in 1 .. (i - 1) : found[j].block # found[i].block}
  <1>1. first \in SUBSET (1..Len(found)) /\ TableOf(found) = {found[i] : i \in first}
    BY DEF TableOf
  <1>2. IsFiniteSet(first)
    <2>1. IsFiniteSet(1..Len(found))
      BY FS_Interval
    <2>. HIDE DEF first
    <2>. QED
      BY <1>1, <2>1, FS_Subset
  <1>3. \A i \in 1..Len(found) : found[i] \in AllFound
    OBVIOUS
  <1>4. \A i \in first : i \in 1..Len(found)
    BY <1>1
  <1>. HIDE DEF first
  <1>5. IsFiniteSet(TableOf(found))
    <2>. DEFINE f == [i \in first |-> found[i]]
                table == TableOf(found)
    <2>1. table = {f[i] : i \in first}
      BY <1>1
    <2>. HIDE DEF f, table
    <2>2. IsFiniteSet(table)
      BY <1>2, <2>1, ImageIsFinite
    <2>. QED
      BY <2>2 DEF table
  <1>6. TableOf(found) \subseteq AllFound
    BY <1>1, <1>3, <1>4
  <1>. QED
    BY <1>5, <1>6, FoundIsTyped DEF Countable

(* A table of what is picked from a list without an address twice has all  *)
(* of it.                                                                  *)
LEMMA TableHasAll ==
    ASSUME NEW shown \in Seq(AllFound), NEW found, NEW places \in SUBSET DOMAIN found,
           Picks(shown, found, places), DOMAIN found \subseteq Nat,
           \A i, j \in DOMAIN found : i # j => found[i].block # found[j].block
    PROVE  TableOf(shown) = {found[k] : k \in places}
  <1>1. PICK at \in [DOMAIN shown -> places] :
            /\ \A i, j \in DOMAIN shown : i < j => at[i] < at[j]
            /\ \A i \in DOMAIN shown : shown[i] = found[at[i]]
            /\ \A k \in places : \E i \in DOMAIN shown : at[i] = k
    BY DEF Picks
  <1>2. DOMAIN shown = 1..Len(shown)
    OBVIOUS
  <1>3. ASSUME NEW i \in DOMAIN shown, NEW j \in 1..(i - 1)
        PROVE  shown[j].block # shown[i].block
    <2>1. j \in DOMAIN shown /\ j < i
      BY <1>2
    <2>2. at[j] < at[i] /\ at[j] \in places /\ at[i] \in places
      BY <1>1, <2>1
    <2>3. at[j] # at[i]
      BY <2>2
    <2>. QED
      BY <1>1, <2>1, <2>2, <2>3
  <1>4. TableOf(shown) = {shown[i] : i \in DOMAIN shown}
    BY <1>3 DEF TableOf
  <1>. QED
    BY <1>1, <1>4

LEMMA TakenStays ==
    ASSUME NEW list \in Lists, TakenRight(list), UNCHANGED <<content, base, taken>>,
           whole'[Dump][list] = whole[Dump][list]
    PROVE  TakenRight(list)'
  <1>1. Difference(Dump, list)' = Difference(Dump, list)
    BY DEF Difference, Kept
  <1>. QED
    BY <1>1 DEF TakenRight

LEMMA ViewStays ==
    ASSUME ViewRight, UNCHANGED statVars
    PROVE  ViewRight'
  <1>1. \A v, used, free, shown : Displayed(v, used, free, shown) => Displayed(v, used, free, shown)'
    <2>1. \A column : NoNumber(column)' <=> NoNumber(column)
      BY DEF statVars, NoNumber
    <2>2. \A v, a, b : SortsBefore(v, a, b)' <=> SortsBefore(v, a, b)
      BY <2>1 DEF SortsBefore
    <2>3. \A v, rows : Sorted(v, rows)' = Sorted(v, rows)
      BY <2>2 DEF Sorted
    <2>. QED
      BY <2>3 DEF Displayed
  <1>. QED
    BY <1>1 DEF ViewRight, statVars

(* The tables of a dump are taken from whole loops, and stay.              *)
LEMMA TableIsTaken ==
    ASSUME CacheInv, TakeTable, NEW list \in Lists, loop.list = list
    PROVE  TakenRight(list)'
  <1>1. CacheTypes /\ EndedIsExact
    BY EndedShowsDifference DEF CacheInv
  <1>2. /\ loop # None /\ loop.done /\ loop.heap = Dump /\ loop.shown \in Seq(AllFound)
        /\ UNCHANGED <<content, base, whole>>
    BY <1>1 DEF CacheTypes, Loops, TakeTable
  <1>. DEFINE table == TableOf(loop.shown)
  <1>3. taken' = [taken EXCEPT ![list] = table]
    BY DEF TakeTable
  <1>4. Countable(table)
    BY <1>2, TableIsCountable
  <1>5. ASSUME whole[Dump][list]
        PROVE  table = Difference(Dump, list)
    <2>. DEFINE found == content[Dump][list]
    <2>1. Picks(loop.shown, found, Kept(Dump, list))
      BY <1>1, <1>2, <1>5, HeapsAndLists DEF EndedIsExact, Ended
    <2>2. /\ found \in Seq(AllFound) /\ Kept(Dump, list) \in SUBSET DOMAIN found
      BY <1>1, ContentTypes, HeapsAndLists DEF Kept
    <2>3. \A i, j \in DOMAIN found : i # j => found[i].block # found[j].block
      BY <1>1, EntriesAssumption, HeapsAndLists DEF CacheTypes
    <2>. HIDE DEF found
    <2>4. DOMAIN found \subseteq Nat
      BY <2>2
    <2>5. table = {found[k] : k \in Kept(Dump, list)}
      BY <1>2, <2>1, <2>2, <2>3, <2>4, TableHasAll
    <2>. QED
      BY <2>5 DEF Difference, found
  <1>6. Difference(Dump, list)' = Difference(Dump, list)
    BY <1>2 DEF Difference, Kept
  <1>. HIDE DEF table
  <1>7. taken'[list] = table \/ taken'[list] = taken[list]
    BY <1>3
  <1>8. taken[list] = None
    BY DEF TakeTable
  <1>. QED
    BY <1>2, <1>4, <1>5, <1>6, <1>7, <1>8 DEF TakenRight, Countable

LEMMA StatisticsStepKeepsInv ==
    ASSUME CacheInv, StatisticsInv, test = None, NextStatistics, UNCHANGED test
    PROVE  StatisticsInv'
  <1>1. CacheTypes
    BY DEF CacheInv
  <1>2. /\ "entries" \in Lists /\ "free_entries" \in Lists
        /\ \A list \in Lists : list = "entries" \/ list = "free_entries"
    BY DEF Lists
  <1>3. CASE CacheStep
    <2>1. UNCHANGED <<taken, view, statVars>> /\ taken["free_entries"] = None
      BY <1>3 DEF CacheStep, statVars
    <2>2. view = None
      BY <2>1 DEF StatisticsInv, ViewRight
    <2>3. ASSUME taken["entries"] # None
          PROVE  UNCHANGED <<content, base>> /\ whole'[Dump]["entries"] = whole[Dump]["entries"]
      <3>1. Begin(Dump, "free_entries") \/ Resume
        BY <1>3, <2>3 DEF CacheStep
      <3>2. CASE Begin(Dump, "free_entries")
        <4>1. UNCHANGED <<content, base>> /\ FillFilters(Dump, "free_entries")
          BY <3>2 DEF Begin
        <4>2. \/ whole' = whole
              \/ whole' = [whole EXCEPT ![Dump]["free_entries"] = @ /\ whole[base[Dump]]["free_entries"]]
          BY <4>1 DEF FillFilters
        <4>. QED
          BY <1>1, <1>2, <4>1, <4>2, HeapsAndLists DEF CacheTypes
      <3>3. CASE Resume
        BY <3>3 DEF Resume
      <3>. QED
        BY <3>1, <3>2, <3>3
    <2>4. \A list \in Lists : TakenRight(list)'
      <3>1. TakenRight("free_entries")'
        BY <2>1 DEF TakenRight
      <3>2. CASE taken["entries"] = None
        BY <1>2, <2>1, <3>1, <3>2 DEF TakenRight
      <3>3. CASE taken["entries"] # None
        <4>1. TakenRight("entries")'
          BY <1>2, <2>1, <2>3, <3>3, TakenStays DEF StatisticsInv
        <4>. QED
          BY <1>2, <3>1, <4>1
      <3>. QED
        BY <3>2, <3>3
    <2>. QED
      BY <2>1, <2>2, <2>4 DEF StatisticsInv, ViewRight
  <1>4. CASE TakeTable
    <2>. DEFINE table == TableOf(loop.shown)
    <2>8. PICK list : list = loop.list
      OBVIOUS
    <2>1. /\ list \in Lists
          /\ list = IF taken["entries"] = None THEN "entries" ELSE "free_entries"
          /\ taken[list] = None /\ taken' = [taken EXCEPT ![list] = table]
          /\ UNCHANGED <<content, base, whole, view>>
      BY <1>2, <1>4, <2>8 DEF TakeTable
    <2>2. TakenRight(list)'
      BY <1>4, <2>1, <2>8, TableIsTaken
    <2>3. view = None
      BY <2>1 DEF StatisticsInv, ViewRight
    <2>. HIDE DEF table
    <2>4. \A other \in Lists : other # list => taken'[other] = taken[other]
      BY <2>1 DEF StatisticsInv
    <2>5. \A other \in Lists : TakenRight(other)'
      <3>. SUFFICES ASSUME NEW other \in Lists, other # list PROVE TakenRight(other)'
        BY <2>2
      <3>1. taken'[other] = taken[other]
        BY <2>4
      <3>2. Difference(Dump, other)' = Difference(Dump, other)
        BY <2>1 DEF Difference, Kept
      <3>. QED
        BY <2>1, <3>1, <3>2 DEF StatisticsInv, TakenRight
    <2>6. taken'["entries"] = None => taken'["free_entries"] = None
      <3>1. CASE list = "entries"
        BY <1>2, <2>1, <2>4, <3>1 DEF StatisticsInv
      <3>2. CASE list = "free_entries"
        BY <1>2, <2>1, <2>4, <3>2 DEF StatisticsInv
      <3>. QED
        BY <2>1, <3>1, <3>2
    <2>7. DOMAIN taken' = Lists
      BY <2>1 DEF StatisticsInv
    <2>. QED
      BY <2>1, <2>3, <2>5, <2>6, <2>7 DEF StatisticsInv, ViewRight
  <1>5. CASE ShowView
    <2>1. UNCHANGED <<content, base, whole, taken>> /\ taken["entries"] # None /\ taken["free_entries"] # None
      BY <1>2, <1>5 DEF ShowView, vars, Constructed
    <2>2. \A list \in Lists : TakenRight(list)'
      BY <2>1, TakenStays DEF StatisticsInv
    <2>3. PICK v \in Views :
             \E s \in Sorted(v, Rows(v.kind, taken["entries"], taken["free_entries"])) :
                \E traces \in [DOMAIN s -> UNION {TracesFrom(s[i].callsite, s[i].entries) : i \in DOMAIN s}] :
                   /\ \A i \in DOMAIN s : traces[i] \in TracesFrom(s[i].callsite, s[i].entries)
                   /\ view' = [kind |-> v.kind, column |-> v.column, descending |-> v.descending,
                               rows |-> s, traces |-> traces]
      BY <1>5 DEF ShowView
    <2>4. PICK s \in Sorted(v, Rows(v.kind, taken["entries"], taken["free_entries"])) :
             \E traces \in [DOMAIN s -> UNION {TracesFrom(s[i].callsite, s[i].entries) : i \in DOMAIN s}] :
                   /\ \A i \in DOMAIN s : traces[i] \in TracesFrom(s[i].callsite, s[i].entries)
                   /\ view' = [kind |-> v.kind, column |-> v.column, descending |-> v.descending,
                               rows |-> s, traces |-> traces]
      BY <2>3
    <2>5. PICK traces : /\ \A i \in DOMAIN s : traces[i] \in TracesFrom(s[i].callsite, s[i].entries)
                        /\ view' = [kind |-> v.kind, column |-> v.column, descending |-> v.descending,
                                    rows |-> s, traces |-> traces]
      BY <2>4
    <2>6. /\ view'.kind = v.kind /\ view'.column = v.column /\ view'.descending = v.descending
          /\ view'.rows = s /\ view'.traces = traces
      BY <2>5
    <2>7. Displayed(v, taken["entries"], taken["free_entries"], s)'
      <3>1. \A column : NoNumber(column)' <=> NoNumber(column)
        BY <2>1 DEF NoNumber
      <3>2. \A w, a, b : SortsBefore(w, a, b)' <=> SortsBefore(w, a, b)
        BY <3>1 DEF SortsBefore
      <3>3. \A w, rows : Sorted(w, rows)' = Sorted(w, rows)
        BY <3>2 DEF Sorted
      <3>. QED
        BY <2>1, <2>4, <2>6, <3>3 DEF Displayed
    <2>8. ViewRight'
      BY <2>1, <2>5, <2>6, <2>7 DEF ViewRight
    <2>. QED
      BY <2>1, <2>2, <2>8 DEF StatisticsInv
  <1>6. CASE CloseView
    <2>1. UNCHANGED <<content, base, whole, taken>> /\ view' = None
      BY <1>6 DEF CloseView, vars
    <2>2. \A list \in Lists : TakenRight(list)'
      BY <2>1, TakenStays DEF StatisticsInv
    <2>. QED
      BY <2>1, <2>2 DEF StatisticsInv, ViewRight
  <1>. QED
    BY <1>3, <1>4, <1>5, <1>6 DEF NextStatistics

LEMMA TestKeepsStatistics ==
    ASSUME CacheInv, StatisticsInv, [NextTest]_testVars
    PROVE  StatisticsInv'
  <1>1. CASE test = None /\ NextStatistics /\ UNCHANGED test
    BY <1>1, StatisticsStepKeepsInv
  <1>2. ASSUME UNCHANGED statVars, test # None
        PROVE  StatisticsInv'
    <2>1. view' = None /\ DOMAIN taken' = Lists /\ \A list \in Lists : taken'[list] = None
      BY <1>2 DEF statVars, StatisticsInv
    <2>2. \A list \in Lists : TakenRight(list)'
      BY <2>1 DEF TakenRight
    <2>. QED
      BY <2>1, <2>2 DEF StatisticsInv, ViewRight, Lists
  <1>3. CASE TestBegin \/ TestResume \/ Collect \/ MakeBaseHeap \/ Judge \/ OpenSecond \/ Exit
    BY <1>2, <1>3 DEF TestBegin, TestResume, Collect, MakeBaseHeap, Judge, OpenSecond, Exit, Judging, testVars
  <1>4. CASE UNCHANGED testVars
    <2>1. UNCHANGED <<content, base, whole, taken, view, statVars, test>>
      BY <1>4 DEF testVars, vars, statVars
    <2>2. \A list \in Lists : TakenRight(list)'
      BY <2>1, TakenStays DEF StatisticsInv
    <2>3. ViewRight'
      BY <2>1, ViewStays DEF StatisticsInv
    <2>. QED
      BY <2>1, <2>2, <2>3 DEF StatisticsInv
  <1>. QED
    BY <1>1, <1>3, <1>4 DEF NextTest

LEMMA TablesAreTrue ==
    ASSUME StatisticsInv
    PROVE  StatisticsTrue
  <1>. SUFFICES ASSUME view # None
                PROVE  EachInOneRow /\ CallsitesCommon /\ InOrder
    BY DEF StatisticsTrue
  <1>. DEFINE used == taken["entries"]
              free == taken["free_entries"]
              rows == view.rows
  <1>1. used # None /\ free # None
    BY DEF StatisticsInv, ViewRight
  <1>2. Countable(used) /\ Countable(free)
    BY <1>1 DEF StatisticsInv, TakenRight, Lists
  <1>3. PICK v \in Views : /\ view.kind = v.kind /\ view.column = v.column /\ view.descending = v.descending
                           /\ Displayed(v, used, free, rows)
    BY DEF StatisticsInv, ViewRight
  <1>4. \A i \in DOMAIN rows : view.traces[i] \in TracesFrom(rows[i].callsite, rows[i].entries)
    BY DEF StatisticsInv, ViewRight
  <1>5. /\ UNION {rows[i].entries : i \in DOMAIN rows} = used
        /\ UNION {rows[i].free : i \in DOMAIN rows} = free
        /\ \A i, j \in DOMAIN rows : i # j =>
              rows[i].entries \intersect rows[j].entries = {} /\ rows[i].free \intersect rows[j].free = {}
        /\ \A i \in DOMAIN rows : RowRight(v.kind, rows[i], used, free)
    <2>. HIDE DEF used, free, rows
    <2>. QED
      BY <1>2, <1>3, TableIsRight
  <1>6. EachInOneRow
    <2>1. \A list \in Lists : whole[Dump][list] => taken[list] = Difference(Dump, list)
      BY <1>1 DEF StatisticsInv, TakenRight, Lists
    <2>2. ASSUME NEW list \in Lists
          PROVE  LET of(r) == IF list = "entries" THEN r.entries ELSE r.free IN
                 /\ UNION {of(view.rows[i]) : i \in DOMAIN view.rows} = taken[list]
                 /\ \A i, j \in DOMAIN view.rows : i # j => of(view.rows[i]) \intersect of(view.rows[j]) = {}
      <3>1. CASE list = "entries"
        BY <1>5, <3>1
      <3>2. CASE list = "free_entries"
        BY <1>5, <3>2
      <3>. QED
        BY <3>1, <3>2 DEF Lists
    <2>3. \A i \in DOMAIN view.rows : \A e \in view.rows[i].entries \union view.rows[i].free :
             /\ view.rows[i].start <= e.size /\ e.size <= view.rows[i].end
             /\ view.kind = "by_size_ranges" => e.size < view.rows[i].end
      BY <1>3, <1>5 DEF RowRight
    <2>. QED
      BY <2>1, <2>2, <2>3 DEF EachInOneRow
  <1>7. CallsitesCommon
    <2>. SUFFICES ASSUME NEW i \in DOMAIN rows, rows[i].callsite # 0
                  PROVE  /\ rows[i].callsite \in Application
                         /\ \A e \in rows[i].entries : rows[i].callsite \in ToSet(e.stack)
                         /\ rows[i].entries # {} =>
                               \E e \in rows[i].entries : IsSuffix(view.traces[i], e.stack) /\ view.traces[i] # <<>>
      BY DEF CallsitesCommon
    <2>1. RowRight(v.kind, rows[i], used, free)
      BY <1>5
    <2>2. /\ rows[i].callsite \in Application
          /\ \A e \in rows[i].entries : rows[i].callsite \in ToSet(e.stack)
          /\ rows[i].entries \subseteq used
      BY <2>1 DEF RowRight
    <2>3. Countable(rows[i].entries)
      BY <1>2, <2>2, PartIsCountable
    <2>4. view.traces[i] \in TracesFrom(rows[i].callsite, rows[i].entries)
      BY <1>4
    <2>. HIDE DEF rows, used, free
    <2>. QED
      BY <2>2, <2>3, <2>4, TraceIsOfOne
  <1>8. InOrder
    <2>. SUFFICES ASSUME NEW i \in DOMAIN rows, NEW j \in DOMAIN rows, i < j
                  PROVE  IF view.descending THEN Columns(view.column, rows[j])[1] <= Columns(view.column, rows[i])[1]
                         ELSE Columns(view.column, rows[i])[1] <= Columns(view.column, rows[j])[1]
      BY DEF InOrder
    <2>1. IF v.descending THEN Columns(v.column, rows[j])[1] <= Columns(v.column, rows[i])[1]
          ELSE Columns(v.column, rows[i])[1] <= Columns(v.column, rows[j])[1]
      <3>1. used = taken["entries"]
        OBVIOUS
      <3>. HIDE DEF rows, used, free
      <3>. QED
        BY <1>2, <1>3, <3>1, TableIsSorted
    <2>. QED
      BY <1>3, <2>1
  <1>. QED
    BY <1>6, <1>7, <1>8

(* Every table on display is true: each allocation of the difference of    *)
(* the dumps stands in one row, within the range of the row, the place     *)
(* named with a row is one of the application that all its allocations     *)
(* were asked for from, the stack below it is that of one of them, and the *)
(* rows are in the order of the column asked for.                          *)
THEOREM StatisticsCorrect == TestSpec => []StatisticsTrue
  <1>1. InitTest => TestInv /\ StatisticsInv
    BY InitTestInv, InitStatisticsInv
  <1>2. TestInv /\ StatisticsInv /\ [NextTest]_testVars => (TestInv /\ StatisticsInv)'
    BY TestStepKeepsInv, TestKeepsStatistics DEF TestInv
  <1>3. StatisticsInv => StatisticsTrue
    BY TablesAreTrue
  <1>. QED
    BY <1>1, <1>2, <1>3, PTL DEF TestSpec
===============================================================================
