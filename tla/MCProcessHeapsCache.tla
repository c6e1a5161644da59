------------------------ MODULE MCProcessHeapsCache ------------------------
(***************************************************************************)
(* Two blocks over the time between two dumps.  In each dump a block is    *)
(* held by an allocation, freed by the program but kept by the debug CRT   *)
(* (when there is one), or plainly free; in the second dump it may be held *)
(* by the allocation of the first or by a new one.  Allocations carry      *)
(* their number as request number when the program uses the debug CRT and  *)
(* 0 when it does not.                                                     *)
(* And larger dumps without a base for the tables: entries of sizes around *)
(* the width of a range, asked for from two places (1, 2) through the      *)
(* system (8, 9), the same stack kept in two records.                      *)
(* And two dumps of the allocations a test program says it made, as they   *)
(* are or with one thing wrong in one of them.                             *)
(***************************************************************************)
EXTENDS ValidateDump

Before == {<<"free", 0>>, <<"busy", 1>>, <<"kept", 1>>}
After(b) == {<<"free", 0>>, <<"busy", 2>>, <<"kept", 2>>}
              \cup (IF b[1] = "busy" THEN {b, <<"kept", b[2]>>} ELSE {})
              \cup (IF b[1] = "kept" THEN {b} ELSE {})

\* Two allocations of one dump are numbered apart by their block.
Number(i, state) == IF state[2] = 0 THEN 0 ELSE 2 * state[2] + i

EntryAt(i, state, crt) ==
    [block |-> i, made |-> Number(i, state), request |-> IF crt THEN Number(i, state) ELSE 0,
     size |-> 4, overhead |-> 1, ust |-> 0, stack |-> <<>>]

ListOf(states, uses, crt) ==
    LET listed == {i \in DOMAIN states : states[i][1] \in uses}
    IN [k \in 1 .. Len(SetToSortSeq(listed, <)) |->
           LET i == SetToSortSeq(listed, <)[k] IN EntryAt(i, states[i], crt)]

ContentOf(states, crt) ==
    [list \in Lists |-> IF list = "entries" THEN ListOf(states, {"busy"}, crt)
                                            ELSE ListOf(states, {"free", "kept"}, crt)]

States == UNION {After(b) : b \in Before}

Pairs == {<<old, now>> \in (Before \X Before) \X (States \X States) :
             \A i \in 1 .. 2 : now[i] \in After(old[i])}

Made(i, size, overhead, ust, stack) ==
    [block |-> i, made |-> i, request |-> 0, size |-> size, overhead |-> overhead, ust |-> ust, stack |-> stack]

Asked ==
    { <<Made(1, 3, 1, 11, <<9, 1, 2>>), Made(2, 4, 2, 12, <<9, 8, 2>>), Made(3, 3, 0, 13, <<9, 1, 2>>), Made(4, 9, 1, 0, <<>>)>>,
      <<Made(1, 4, 1, 11, <<9, 1, 2>>), Made(2, 4, 1, 12, <<1, 8, 2>>), Made(3, 4, 3, 14, <<2, 1, 8>>)>>,
      <<Made(1, 0, 1, 15, <<9, 8>>), Made(2, 0, 5, 16, <<1>>)>>,
      <<>> }

Released ==
    { <<Made(5, 3, 0, 0, <<>>)>>, <<Made(5, 8, 0, 11, <<9, 1, 2>>), Made(6, 2, 1, 17, <<9, 2>>)>>, <<>> }

LargeContents ==
    {[h \in Heaps |-> [list \in Lists |-> IF h = BaseDump THEN <<>> ELSE IF list = "entries" THEN a ELSE r]] :
        a \in Asked, r \in Released}

MCViews ==
    [kind : {"by_size", "by_size_ranges", "by_stacktrace", "by_callsite"}, descending : BOOLEAN,
     column : {"size", "allocated_average", "free_total", "overhead_total", "range_size_percent"}]
        \union [kind : {"by_stacktrace", "by_callsite"}, descending : {TRUE},
                column : {"allocated_total", "allocated_count", "free_count", "range_count_percent"}]

(* Two allocations of a test program: block 10 of four bytes, block 20 of  *)
(* eight, which begin with the fake offset.                                *)
SizeAt(block) == IF block = 10 THEN 4 ELSE 8

TestNumber(block, state) == Number(IF block = 10 THEN 1 ELSE 2, state)

TestEntry(block, state, crt) ==
    [block |-> block, made |-> TestNumber(block, state), request |-> IF crt THEN TestNumber(block, state) ELSE 0, size |-> SizeAt(block),
     overhead |-> 1, ust |-> 1, stack |-> <<1>>,
     check |-> IF crt THEN [first |-> block - 1, size |-> SizeAt(block) + 2] ELSE [first |-> block, size |-> SizeAt(block)]]

TestList(states, uses, crt) ==
    LET listed == SetToSortSeq({b \in DOMAIN states : states[b][1] \in uses}, <)
    IN  [k \in DOMAIN listed |-> TestEntry(listed[k], states[listed[k]], crt)]

TestDump(states, round, crt) ==
    [entries |-> TestList(states, {"busy"}, crt),
     free_entries |-> TestList(states, {"free", "kept"}, crt),
     claims |-> {[pointer |-> b, size |-> SizeAt(b), allocated |-> states[b][1] = "busy"] :
                    b \in {c \in DOMAIN states : states[c][2] = round}},
     bytes |-> [b \in DOMAIN states |-> <<[offset |-> b = 20, filled |-> TRUE, long |-> b = 20]>>],
     crt |-> IF ~crt THEN {}
             ELSE {[first |-> b - 1, user |-> [first |-> b, size |-> SizeAt(b)],
                    block_use |-> states[b][1] = "busy", request |-> TestNumber(b, states[b])] :
                      b \in {c \in DOMAIN states : states[c][1] # "free"}},
     matches |-> {"block_match"}, system |-> {}]

Nowhere ==
    [block |-> 0, made |-> 0, request |-> 0, size |-> 1, overhead |-> 1, ust |-> 1, stack |-> <<1>>,
     check |-> [first |-> 0, size |-> 1]]

Piece(offset, filled) == [offset |-> offset, filled |-> filled, long |-> TRUE]

Spoilt(d) ==
    {d, [d EXCEPT !.matches = {"block_partially_contains"}], [d EXCEPT !.system = {20}],
     [d EXCEPT !.entries = Append(@, Nowhere)],
     [d EXCEPT !.bytes[20] = <<Piece(FALSE, TRUE)>>], [d EXCEPT !.bytes[20] = <<Piece(TRUE, FALSE)>>],
     [d EXCEPT !.bytes[20] = <<Piece(TRUE, TRUE), Piece(FALSE, TRUE)>>]}
    \union (IF d.free_entries = <<>> THEN {} ELSE {[d EXCEPT !.free_entries = Tail(@)]})
    \union UNION {{[d EXCEPT !.entries = RemoveAt(@, i)], [d EXCEPT !.entries[i].stack = <<>>],
                   [d EXCEPT !.entries[i].size = @ - 1, !.entries[i].made = 0],
                   [d EXCEPT !.entries[i].size = @ - 1, !.entries[i].check.size = @ - 1, !.entries[i].made = 0],
                   [d EXCEPT !.entries[i].size = @ + 1, !.entries[i].check.size = @ + 1, !.entries[i].made = 0],
                   [d EXCEPT !.entries[i].block = @ + 1, !.entries[i].size = @ - 1, !.entries[i].made = 0]} : i \in DOMAIN d.entries}

TestPairs(crt) ==
    {<<old, now>> \in [{10, 20} -> Before] \X [{10, 20} -> States] :
        /\ \A b \in {10, 20} : now[b] \in After(old[b])
        /\ old[10] = <<"busy", 1>> /\ now[10] \in {old[10], <<"busy", 2>>}
        /\ crt \/ \A b \in {10, 20} : old[b][1] # "kept" /\ now[b][1] # "kept"}

TestContents ==
    UNION {LET first == TestDump(pair[1], 1, crt)
               second == TestDump(pair[2], 2, crt)
           IN  {Dump :> second @@ BaseDump :> d : d \in Spoilt(first)}
                  \union {Dump :> d @@ BaseDump :> first : d \in Spoilt(second)}
             : <<pair, crt>> \in {<<p, c>> \in TestPairs(TRUE) \X BOOLEAN : p \in TestPairs(c)}}

MCContents ==
    LargeContents \union TestContents \union
    {[h \in Heaps |-> ContentOf(IF h = Dump THEN pair[2] ELSE pair[1], crt)] :
        <<pair, crt>> \in {<<p, c>> \in Pairs \X BOOLEAN :
                              c \/ ~\E d \in 1 .. 2, i \in 1 .. 2 : p[d][i][1] = "kept"}}
=============================================================================
