------------------------- MODULE ProcessHeapsCache -------------------------
(***************************************************************************)
(* The lazy caches of process_heaps (DbgHelpUtils/process_heaps.cpp).      *)
(* entries() and free_entries() are generators: the first one to run       *)
(* drains the same list of the base dump into a filter cache, walks the    *)
(* heaps and stores every entry it yields; a later one replays what is     *)
(* stored.  Setting or clearing the base dump empties every cache.         *)
(* is_address_filtered answers from the filter caches alone.               *)
(*                                                                         *)
(* Callers are the range-for loops of MiniDumper and ValidateHeapEntries:  *)
(* one loop at a time, which may be left early, and a base dump (itself    *)
(* without a base) that is set or cleared between loops.                   *)
(*                                                                         *)
(* "made" is history: which allocation of the program an entry stands for. *)
(* The code sees only the block, its size and the request number, which is *)
(* 0 when the program does not use the debug CRT.                          *)
(***************************************************************************)
EXTENDS Naturals, Sequences, SequencesExt

CONSTANTS
    Dump, BaseDump,     \* the process_heaps of the dump and of the base dump
    Contents,           \* what all_entries and all_free_entries may find
    None                \* no base dump; no loop running

Heaps == {Dump, BaseDump}
Lists == {"entries", "free_entries"}

\* What is found in the dumps.
AllFound ==
    UNION {{c[h][list][i] : i \in DOMAIN c[h][list]} : c \in Contents, h \in Heaps, list \in Lists}

\* The state of a generator: whose list it goes through, whether it replays the
\* cache, the place it has come to, and what it has yielded.
Loops == [heap : Heaps, list : Lists, replay : BOOLEAN, next : Nat, shown : Seq(AllFound), done : BOOLEAN]

ASSUME HeapsAssumption == Dump # BaseDump /\ None \notin Heaps /\ None \notin Loops
ASSUME ContentsAssumption ==
    \A c \in Contents, h \in Heaps, list \in Lists : c[h][list] \in Seq(AllFound)

VARIABLES
    content,    \* what the walks of this pair of dumps find
    base,       \* base_diff_filter_
    filters,    \* entry_filters_cache_ and free_entry_filters_cache_
    cache,      \* entry_cache_ and free_entry_cache_
    loop,       \* the generator the running loop has open
    whole       \* history: no loop was left early since the caches were cleared

vars == <<content, base, filters, cache, loop, whole>>

Empty == [list \in Lists |-> <<>>]

\* process_heap_entry::operator==
Same(e, f) == e.block = f.block /\ e.size = f.size /\ e.request = f.request

\* An allocation that is in both dumps looks the same in both; the debug CRT
\* gives no request number twice.
ASSUME MadeAssumption ==
    \A c \in Contents :
       \A i \in DOMAIN c[Dump]["entries"], j \in DOMAIN c[BaseDump]["entries"] :
          LET e == c[Dump]["entries"][i]
              f == c[BaseDump]["entries"][j]
          IN  /\ e.made = f.made => Same(e, f)
              /\ Same(e, f) /\ e.request # 0 => e.made = f.made

IsFiltered(filter, e) == \E i \in DOMAIN filter : Same(filter[i], e)

\* Slip: the free entries of the base dump are forgotten.
SlipUsedOnly(h, block, size) ==
    \E i \in DOMAIN filters[h]["entries"] :
        filters[h]["entries"][i].block = block /\ filters[h]["entries"][i].size = size

IsAddressFiltered(h, block, size) ==
    \E list \in Lists : \E i \in DOMAIN filters[h][list] :
        filters[h][list][i].block = block /\ filters[h][list][i].size = size

InitCache ==
    /\ content \in Contents
    /\ base = [h \in Heaps |-> None]
    /\ filters = [h \in Heaps |-> Empty]
    /\ cache = [h \in Heaps |-> Empty]
    /\ loop = None
    /\ whole = [h \in Heaps |-> [list \in Lists |-> TRUE]]


\* Slip: the entries found with the previous base dump stay.
SlipKeepEntries(h) ==
    /\ filters' = [filters EXCEPT ![h] = Empty]
    /\ cache' = cache
    /\ whole' = [whole EXCEPT ![h] = [list \in Lists |-> TRUE]]

ClearCache(h) ==
    /\ filters' = [filters EXCEPT ![h] = Empty]
    /\ cache' = [cache EXCEPT ![h] = Empty]
    /\ whole' = [whole EXCEPT ![h] = [list \in Lists |-> TRUE]]

SetBaseDiffFilter ==
    /\ loop = None
    /\ base' = [base EXCEPT ![Dump] = BaseDump]
    /\ ClearCache(Dump)
    /\ UNCHANGED <<content, loop>>

ClearBaseDiffFilter ==
    /\ loop = None
    /\ base' = [base EXCEPT ![Dump] = None]
    /\ ClearCache(Dump)
    /\ UNCHANGED <<content, loop>>

\* What a whole loop over a list of the base dump, which has no base of its
\* own, yields: its cache when that holds anything, all it finds otherwise.
Drained(b, list) == IF cache[b][list] = <<>> THEN content[b][list] ELSE cache[b][list]

\* filter_entries is drained on the first resumption, and again on every
\* later one that finds the filter cache empty.
FillFilters(h, list) ==
    IF base[h] # None /\ filters[h][list] = <<>>
      THEN /\ filters' = [filters EXCEPT ![h][list] = Drained(base[h], list)]
           /\ cache' = [cache EXCEPT ![base[h]][list] = Drained(base[h], list)]
           /\ whole' = [whole EXCEPT ![h][list] = @ /\ whole[base[h]][list]]
      ELSE UNCHANGED <<filters, cache, whole>>

\* A loop calls entries() or free_entries() and begins.
Begin(h, list) ==
    /\ loop = None
    /\ FillFilters(h, list)
    /\ loop' = [heap |-> h, list |-> list, replay |-> cache[h][list] # <<>>,
                next |-> 1, shown |-> <<>>, done |-> FALSE]
    /\ UNCHANGED <<content, base>>

Source == IF loop.replay THEN cache[loop.heap][loop.list] ELSE content[loop.heap][loop.list]

\* Slip: the walk does not move past an entry it drops.
SlipStay == loop

Skipped == [loop EXCEPT !.next = @ + 1]

\* The next entry of the walk is dropped or stored and yielded, the next entry
\* of the cache is yielded, or the generator ends.
Resume ==
    /\ loop # None
    /\ ~loop.done
    /\ LET h    == loop.heap
           list == loop.list
           e    == Source[loop.next]
       IN \/ /\ loop.next > Len(Source)
             /\ loop' = [loop EXCEPT !.done = TRUE]
             /\ UNCHANGED cache
          \/ /\ loop.next <= Len(Source)
             /\ ~loop.replay /\ IsFiltered(filters[h][list], e)
             /\ loop' = Skipped
             /\ UNCHANGED cache
          \/ /\ loop.next <= Len(Source)
             /\ loop.replay \/ ~IsFiltered(filters[h][list], e)
             /\ loop' = [loop EXCEPT !.next = @ + 1, !.shown = Append(@, e)]
             /\ cache' = IF loop.replay THEN cache
                         ELSE [cache EXCEPT ![h][list] = Append(@, e)]
    /\ UNCHANGED <<content, base, filters, whole>>

\* The loop is over.
Finish ==
    /\ loop # None
    /\ loop.done
    /\ loop' = None
    /\ UNCHANGED <<content, base, filters, cache, whole>>

\* The loop is left early, by a break or an exception: the generator is
\* destroyed where it stands and what it has stored stays stored.
Abandon ==
    /\ loop # None
    /\ ~loop.done
    /\ loop' = None
    /\ whole' = [whole EXCEPT ![loop.heap][loop.list] =
                    @ /\ (loop.replay \/ cache[loop.heap][loop.list] = <<>>)]
    /\ UNCHANGED <<content, base, filters, cache>>

NextCache ==
    \/ SetBaseDiffFilter
    \/ ClearBaseDiffFilter
    \/ \E h \in Heaps, list \in Lists : Begin(h, list)
    \/ Resume
    \/ Finish
    \/ Abandon

\* A loop body returns to its generator: the program runs on one thread and
\* the bodies of the loops only print, count or copy.
CacheSpec == InitCache /\ [][NextCache]_vars /\ WF_vars(Resume)

----------------------------------------------------------------------------

\* The places of a list that the same list of the base dump does not hold.
Kept(h, list) ==
    {k \in DOMAIN content[h][list] :
        base[h] = None \/ ~IsFiltered(content[base[h]][list], content[h][list][k])}

\* The list of a dump without what the same list of its base dump holds.
Difference(h, list) == {content[h][list][k] : k \in Kept(h, list)}

\* What is shown are the entries at some places of a list, each once and in
\* the order of the list.
Picks(shown, found, places) ==
    \E at \in [DOMAIN shown -> places] :
       /\ \A i, j \in DOMAIN shown : i < j => at[i] < at[j]
       /\ \A i \in DOMAIN shown : shown[i] = found[at[i]]
       /\ \A k \in places : \E i \in DOMAIN shown : at[i] = k

Ended(h, list) ==
    loop # None /\ loop.done /\ loop.heap = h /\ loop.list = list /\ whole[h][list]

Entries == UNION {ToSet(content[h][list]) : h \in Heaps, list \in Lists}

\* The type invariant: caches hold entries of the dump they belong to or of
\* its base, and the position of the running loop is within its source.
CacheTypeOK ==
    /\ base[Dump] \in {None, BaseDump} /\ base[BaseDump] = None
    /\ \A h \in Heaps, list \in Lists :
          /\ ToSet(cache[h][list]) \subseteq ToSet(content[h][list])
          /\ base[h] = None => filters[h][list] = <<>>
          /\ base[h] # None => ToSet(filters[h][list]) \subseteq ToSet(content[base[h]][list])
          /\ whole[h][list] \in BOOLEAN
    /\ loop # None =>
          /\ loop \in Loops
          /\ loop.next \in 1 .. (Len(Source) + 1)

\* A loop that runs to its end shows exactly the difference between the dump
\* and the base dump set at the time, in the order of the walk, whatever was
\* enumerated, filtered, set or cleared before, as long as no loop was left
\* early since the caches were last cleared.
EndedIsExact ==
    \A h \in Heaps, list \in Lists :
       Ended(h, list) => Picks(loop.shown, content[h][list], Kept(h, list))

\* is_address_filtered never blames a base dump that is no longer set, and is
\* right about every block once both lists have been enumerated since the base
\* dump was set (the filter caches are only filled by enumerations).
AddressFilterIsRight ==
    \A block \in {e.block : e \in Entries}, size \in {e.size : e \in Entries} :
       LET listed == base[Dump] # None /\
                     \E list \in Lists, e \in Entries :
                        e.block = block /\ e.size = size /\ e \in ToSet(content[BaseDump][list])
           filled == \A list \in Lists :
                        base[Dump] # None /\ whole[Dump][list] =>
                           filters[Dump][list] # <<>> \/ content[BaseDump][list] = <<>>
           clean  == \A list \in Lists : whole[Dump][list]
       IN /\ IsAddressFiltered(Dump, block, size) => listed
          /\ filled /\ clean /\ listed => IsAddressFiltered(Dump, block, size)

\* What the diff is for (ValidateHeapEntries.cpp validate_allocations): an
\* allocation made after the base dump is shown, or its address and size are
\* those of an entry of the base dump that carries no request number either
\* and is_address_filtered says so; and an allocation the base dump already
\* held is never shown.
NewAllocationsShown ==
    Ended(Dump, "entries") /\ base[Dump] # None =>
        LET old == {e.made : e \in ToSet(content[BaseDump]["entries"])}
            now == ToSet(content[Dump]["entries"])
            new == {e \in now : e.made \notin old}
        IN /\ \A e \in new : \/ e \in ToSet(loop.shown)
                             \/ e.request = 0 /\ IsAddressFiltered(Dump, e.block, e.size)
           /\ \A e \in now \ new : e \notin ToSet(loop.shown)

\* The two answers about one block, whether the loop shows it and whether
\* is_address_filtered blames the base dump, fit what the process did.
FilterRight == AddressFilterIsRight /\ NewAllocationsShown

\* Every loop that is not left early comes to its end.
LoopsEnd == loop # None ~> (loop = None \/ loop.done)
=============================================================================
