------------------------------ MODULE Statistics ------------------------------
(***************************************************************************)
(* process_heaps_statistics: it runs once over the entries and once over   *)
(* the free entries of a dump, keeps what it was given, and shows it in    *)
(* tables: the entries are put into buckets by size, by range of sizes, by *)
(* stack trace or by the place in the application that asked for them, and *)
(* the rows are sorted by one of nine columns.                             *)
(*                                                                         *)
(* To an entry of ProcessHeapsCache belong here its size and overhead, its *)
(* stack trace, a sequence of addresses that may be empty, and the address *)
(* of the record the stack trace is kept in.                               *)
(***************************************************************************)
EXTENDS ProcessHeapsCache

CONSTANTS
    Views,          \* the tables asked for: [kind, column, descending]
    RangeSize,      \* range_size_, the width of a range of sizes
    Application     \* the addresses in modules that are no system modules

(* An entry has an address, a size and a stack, and the walk of the heaps  *)
(* comes to no address twice.                                              *)
ASSUME EntriesAssumption ==
    \A c \in Contents, h \in Heaps, list \in Lists :
        \A i \in DOMAIN c[h][list] :
            LET e == c[h][list][i] IN
            /\ e.block \in Nat /\ e.size \in Nat /\ e.overhead \in Nat /\ e.stack \in Seq(Nat)
            /\ \A j \in DOMAIN c[h][list] : j # i => c[h][list][j].block # e.block

(* What can be asked for; a range is a kilobyte wide unless it is said how *)
(* wide, and a width of nothing is divided by.                             *)
Kinds == {"by_size", "by_size_ranges", "by_stacktrace", "by_callsite"}
SortColumns ==
    {"size", "allocated_average", "allocated_total", "allocated_count", "free_total", "free_count",
     "overhead_total", "range_count_percent", "range_size_percent"}

ASSUME ViewsAssumption ==
    /\ Views \subseteq [kind : Kinds, column : SortColumns, descending : BOOLEAN]
    /\ RangeSize \in Nat \ {0}

VARIABLES
    taken,      \* allocated_entries_ and free_entries_; None while there are none
    view        \* the table on display: [kind, column, descending, rows]

statVars == <<taken, view>>

-------------------------------------------------------------------------------
(* A map is filled by insert: of entries with one address the first stays. *)
TableOf(found) ==
    LET first == {i \in DOMAIN found : \A j \in 1 .. (i - 1) : found[j].block # found[i].block}
    IN  {found[i] : i \in first}

SizesOf(entries) == {e.size : e \in entries}
AddUp(entries, field) == FoldSet(LAMBDA e, sum : sum + e[field], 0, entries)
TotalOf(entries) == AddUp(entries, "size")
OverheadOf(entries) == AddUp(entries, "overhead")

Least(S) == CHOOSE x \in S : \A y \in S : x <= y
Greatest(S) == CHOOSE x \in S : \A y \in S : y <= x

(* find_common_allocation_callsite: the first place in the application on  *)
(* the stack of the first entry that all the others have on theirs.        *)
FirstOf(entries) == CHOOSE e \in entries : \A f \in entries : e.block <= f.block

Callsite(entries) ==
    LET stack == FirstOf(entries).stack
        sites == {i \in DOMAIN stack : stack[i] \in Application /\ \A e \in entries : stack[i] \in ToSet(e.stack)}
    IN  IF entries = {} \/ sites = {} THEN 0 ELSE stack[Least(sites)]

(* find_common_allocation_stack_trace: the stack from there on, as most of *)
(* the entries have it; which one of several is a matter of their hashes.  *)
StackFrom(site, stack) == SubSeq(stack, Least({i \in DOMAIN stack : stack[i] = site}), Len(stack))

TracesFrom(site, entries) ==
    LET on == {e \in entries : site \in ToSet(e.stack)}
        votes(t) == Cardinality({e \in on : StackFrom(site, e.stack) = t})
        traces == {StackFrom(site, e.stack) : e \in on}
    IN  IF site = 0 \/ on = {} THEN {<<>>} ELSE {t \in traces : \A u \in traces : votes(u) <= votes(t)}

BucketView(range, used, free, callsite) ==
    [start |-> range[1], end |-> range[2], entries |-> used, free |-> free, callsite |-> callsite]

(* A row for each key that an entry has.                                   *)
Bucketed(used, free, KeyOf(_), RangeOf(_, _, _), CallsiteOf(_, _)) ==
    {LET u == {e \in used : KeyOf(e) = k}
         f == {e \in free : KeyOf(e) = k}
     IN  BucketView(RangeOf(k, u, f), u, f, CallsiteOf(k, u))
        : k \in {KeyOf(e) : e \in used \union free}}

(* Slip for SizesRange: a free entry does not widen the range.             *)
SlipSizesRange(key, used, free) ==
    IF used = {} THEN <<0, 0>> ELSE <<Least(SizesOf(used)), Greatest(SizesOf(used))>>

SizesRange(key, used, free) == <<Least(SizesOf(used \union free)), Greatest(SizesOf(used \union free))>>

BySize(used, free) ==
    Bucketed(used, free, LAMBDA e : e.size, LAMBDA k, u, f : <<k, k>>, LAMBDA k, u : Callsite(u))

BySizeRanges(used, free) ==
    Bucketed(used, free, LAMBDA e : e.size \div RangeSize,
             LAMBDA k, u, f : <<k * RangeSize, k * RangeSize + RangeSize>>, LAMBDA k, u : Callsite(u))

ByStacktrace(used, free) ==
    Bucketed(used, free, LAMBDA e : e.ust, SizesRange, LAMBDA k, u : Callsite(u))

ByCallsite(used, free) ==
    Bucketed(used, free, LAMBDA e : Callsite({e}), SizesRange, LAMBDA k, u : k)

Rows(kind, used, free) ==
    CASE kind = "by_size" -> BySize(used, free)
      [] kind = "by_size_ranges" -> BySizeRanges(used, free)
      [] kind = "by_stacktrace" -> ByStacktrace(used, free)
      [] kind = "by_callsite" -> ByCallsite(used, free)

-------------------------------------------------------------------------------
Average(r) == IF r.entries = {} THEN 0 ELSE TotalOf(r.entries) \div Cardinality(r.entries)
Count(r) == Cardinality(r.entries)
Total(r) == TotalOf(r.entries)

(* bucket_compare: what the rows are told apart by, in turn.  The percents *)
(* of one table have one divisor; it is 0 when nothing is allocated.       *)
Columns(column, r) ==
    CASE column = "size" -> <<r.start, r.end - r.start, Total(r)>>
      [] column = "allocated_average" -> <<Average(r), Total(r), Count(r)>>
      [] column = "allocated_total" -> <<Total(r), Count(r)>>
      [] column = "allocated_count" -> <<Count(r), Total(r)>>
      [] column = "free_total" -> <<TotalOf(r.free), Cardinality(r.free)>>
      [] column = "free_count" -> <<Cardinality(r.free), TotalOf(r.free)>>
      [] column = "overhead_total" -> <<OverheadOf(r.entries), Total(r)>>
      [] column = "range_count_percent" -> <<Count(r), Count(r)>>
      [] column = "range_size_percent" -> <<Total(r), Total(r)>>

NoNumber(column) ==
    \/ column = "range_count_percent" /\ taken["entries"] = {}
    \/ column = "range_size_percent" /\ TotalOf(taken["entries"]) = 0

SortsBefore(v, a, b) ==
    LET x == Columns(v.column, a)
        y == Columns(v.column, b)
        differ == {i \in DOMAIN x : x[i] # y[i]}
    IN  /\ ~NoNumber(v.column) /\ differ # {}
        /\ LET i == Least(differ) IN IF v.descending THEN y[i] < x[i] ELSE x[i] < y[i]

(* std::sort leaves open how rows come that it cannot tell apart.          *)
Sorted(v, rows) ==
    {s \in [1 .. Cardinality(rows) -> rows] :
        /\ ToSet(s) = rows
        /\ \A i, j \in DOMAIN s : i < j => ~SortsBefore(v, s[j], s[i])}

-------------------------------------------------------------------------------
(* The constructor takes the entries and then the free entries.            *)
TakeTable ==
    /\ loop # None /\ loop.done /\ loop.heap = Dump
    /\ loop.list = IF taken["entries"] = None THEN "entries" ELSE "free_entries"
    /\ taken[loop.list] = None
    /\ taken' = [taken EXCEPT ![loop.list] = TableOf(loop.shown)]
    /\ loop' = None
    /\ UNCHANGED <<content, base, filters, cache, whole, view>>

Constructed == \A list \in Lists : taken[list] # None

(* buckets().                                                              *)
ShowView ==
    /\ Constructed /\ view = None
    /\ \E v \in Views :
         \E s \in Sorted(v, Rows(v.kind, taken["entries"], taken["free_entries"])) :
            \E traces \in [DOMAIN s -> UNION {TracesFrom(s[i].callsite, s[i].entries) : i \in DOMAIN s}] :
               /\ \A i \in DOMAIN s : traces[i] \in TracesFrom(s[i].callsite, s[i].entries)
               /\ view' = [kind |-> v.kind, column |-> v.column, descending |-> v.descending,
                           rows |-> s, traces |-> traces]
    /\ UNCHANGED <<vars, taken>>

CloseView ==
    /\ view # None
    /\ view' = None
    /\ UNCHANGED <<vars, taken>>

InitStatistics ==
    /\ InitCache
    /\ taken = [list \in Lists |-> None]
    /\ view = None

(* Before the constructor runs, and while it does.                         *)
CacheStep ==
    /\ taken["free_entries"] = None
    /\ \/ taken["entries"] = None /\ NextCache
       \/ taken["entries"] # None /\ Begin(Dump, "free_entries")
       \/ taken["entries"] # None /\ Resume
    /\ UNCHANGED statVars

NextStatistics == CacheStep \/ TakeTable \/ ShowView \/ CloseView

StatisticsSpec == InitStatistics /\ [][NextStatistics]_<<vars, statVars>> /\ WF_<<vars, statVars>>(CacheStep /\ Resume)

-------------------------------------------------------------------------------
(* Whatever is asked for: each allocation of the difference of the dumps   *)
(* stands in one row and nothing else does, so that the rows add up to the *)
(* line of totals below them; its size is in the range of its row.         *)
EachInOneRow ==
    /\ \A list \in Lists : whole[Dump][list] =>
          taken[list] = Difference(Dump, list)
    /\ \A list \in Lists :
          LET of(r) == IF list = "entries" THEN r.entries ELSE r.free IN
          /\ UNION {of(view.rows[i]) : i \in DOMAIN view.rows} = taken[list]
          /\ \A i, j \in DOMAIN view.rows : i # j => of(view.rows[i]) \intersect of(view.rows[j]) = {}
    /\ \A i \in DOMAIN view.rows : \A e \in view.rows[i].entries \union view.rows[i].free :
          /\ view.rows[i].start <= e.size /\ e.size <= view.rows[i].end
          /\ view.kind = "by_size_ranges" => e.size < view.rows[i].end

(* The place shown with a row is one of the application, all allocations   *)
(* of the row were asked for from there, and the stack below is that of    *)
(* one of them.                                                            *)
CallsitesCommon ==
    \A i \in DOMAIN view.rows :
        LET r == view.rows[i] IN
            r.callsite # 0 =>
              /\ r.callsite \in Application
              /\ \A e \in r.entries : r.callsite \in ToSet(e.stack)
              /\ r.entries # {} => \E e \in r.entries : IsSuffix(view.traces[i], e.stack) /\ view.traces[i] # <<>>

(* The rows are in the order of the column asked for.                      *)
InOrder ==
    \A i, j \in DOMAIN view.rows :
        LET a == Columns(view.column, view.rows[i])[1]
            b == Columns(view.column, view.rows[j])[1]
        IN  i < j => IF view.descending THEN b <= a ELSE a <= b

StatisticsTrue == view # None => EachInOneRow /\ CallsitesCommon /\ InOrder
===============================================================================
