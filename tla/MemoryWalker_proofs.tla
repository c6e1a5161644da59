-------------------------- MODULE MemoryWalker_proofs --------------------------
(***************************************************************************)
(* Proofs about MemoryWalker for all dumps and all calls of its clients.   *)
(*                                                                         *)
(* Below the top address the wrapping sums of range_contains are plain     *)
(* ones (UnionIsExact), so a source answers exactly for the addresses it   *)
(* has: a range of a list (FindAny, ListMemory), the stack (Stack) or a    *)
(* file (FromFile); and where a list throws, a range that is cut off has   *)
(* the address the exception is blamed on (DirectTaken).  A list whose neighbours are stored in order is one    *)
(* piece of the dump: the first byte that is not where the pointer says    *)
(* would follow one that is (OrderedBytes).  Loading adds files and never  *)
(* takes one away (Load), hence what has been delivered stays true, and    *)
(* the inductive invariant says where a stream is in its range and that    *)
(* the bytes at hand are the next ones.                                    *)
(***************************************************************************)
EXTENDS MemoryWalker, TLAPS, WellFoundedInduction

-----------------------------------------------------------------------------
(* Numbers.                                                                *)

(* A non-empty set of numbers has a least one.                             *)
LEMMA MinNat ==
    ASSUME NEW S \in SUBSET Nat, S # {}
    PROVE  Min(S) \in S /\ \A y \in S : Min(S) <= y
<1>1. PICK x \in S : \A y \in S : ~(<<y, x>> \in OpToRel(<, Nat))
  BY WFMin, NatLessThanWellFounded
<1>2. \A y \in S : x <= y
  <2> SUFFICES ASSUME NEW y \in S, y < x PROVE FALSE
    OBVIOUS
  <2>1. <<y, x>> \in OpToRel(<, Nat)
    BY DEF OpToRel
  <2> QED
    BY <1>1, <2>1
<1> QED
  BY <1>2 DEF Min

LEMMA WrapLow ==
    ASSUME NEW n \in Address
    PROVE  Wrap(n) = n
BY DumpsAssumption DEF Wrap, Address

LEMMA WrapHigh ==
    ASSUME NEW n \in Nat, n > Top, n <= Top + Top + 1
    PROVE  Wrap(n) = n - Top - 1
BY DumpsAssumption DEF Wrap, Address

LEMMA WrapAddress == ASSUME NEW n \in Nat PROVE Wrap(n) \in Address
BY DumpsAssumption DEF Wrap, Address

-----------------------------------------------------------------------------
(* One range.                                                              *)
List(l) == /\ l.found \in BOOLEAN
           /\ \A i \in DOMAIN l.ranges : IsRange(l.ranges[i]) /\ l.ranges[i].size > 0
           /\ RangesApart(l.ranges)

LEMMA DumpFacts ==
    ASSUME dump \in Dumps
    PROVE  /\ IsRange(dump.stack) /\ List(dump.list) /\ List(dump.list64)
           /\ \A i \in DOMAIN dump.modules : IsModule(dump.modules[i])
           /\ \A i \in DOMAIN dump.unloaded : IsModule(dump.unloaded[i])
           /\ \A i, j \in DOMAIN dump.modules :
                i # j => dump.modules[i].base # dump.modules[j].base
BY DumpsAssumption DEF List

(* Below the top address a range answers for its own addresses and no      *)
(* others, and never with more than it has.                                *)
LEMMA UnionIsExact ==
    ASSUME NEW rs \in Nat, NEW rl \in Nat, rs + rl <= Top,
           NEW a \in Address, a < Top, NEW length \in Address
    PROVE  LET u == range_union(rs, rl, a, length)
           IN  /\ u \in Nat
               /\ u # None <=> rs <= a /\ a < rs + rl
               /\ u # None /\ a + length <= Top => u <= length /\ a + u <= rs + rl
               /\ u # None /\ a + length <= Top /\ length > 0 => u > 0
<1>1. Top \in Nat /\ a \in Nat /\ length \in Nat /\ rs + rl \in Address /\ a + 1 \in Address
  BY DumpsAssumption DEF Address
<1>2. Wrap(rs + rl) = rs + rl /\ Wrap(a + 1) = a + 1
  BY <1>1, WrapLow
<1>3. range_contains(rs, rl, a, 1) <=> rs <= a /\ a < rs + rl
  BY <1>1, <1>2 DEF range_contains
<1>4. CASE ~range_contains(rs, rl, a, 1)
  BY <1>1, <1>3, <1>4 DEF range_union, None
<1>5. CASE range_contains(rs, rl, a, 1)
  <2>1. Minus(rs + rl, a) = rs + rl - a
    <3>1. rs + rl + Top + 1 - a \in Nat /\ rs + rl + Top + 1 - a > Top
          /\ rs + rl + Top + 1 - a <= Top + Top + 1
      BY <1>1, <1>3, <1>5
    <3> QED
      BY <1>1, <3>1, WrapHigh DEF Minus
  <2>2. a + length <= Top => Wrap(a + length) = a + length
    BY <1>1, WrapLow DEF Address
  <2>3. CASE Wrap(a + length) >= rs + rl
    <3>1. range_union(rs, rl, a, length) = rs + rl - a
      BY <1>2, <1>5, <2>1, <2>3 DEF range_union
    <3> QED
      BY <1>1, <1>3, <1>5, <2>2, <2>3, <3>1 DEF None
  <2>4. CASE ~(Wrap(a + length) >= rs + rl)
    <3>1. range_union(rs, rl, a, length) = length
      BY <1>2, <1>5, <2>4 DEF range_union
    <3> QED
      BY <1>1, <1>3, <1>5, <2>2, <2>4, <3>1 DEF None, Address
  <2> QED
    BY <2>3, <2>4
<1> QED
  BY <1>4, <1>5

(* The answer of list_find_any: nothing, or a piece of one range.          *)
Piece(rs, a, size, got) ==
  \E r \in rs : /\ Holds(r, a) /\ got.memory = Pointer(0, r.at + a - r.start)
                /\ got.size \in Nat /\ got.size > 0 /\ got.size <= size
                /\ a + got.size <= r.start + r.size

(* The ranges whose bytes the dump has.                                    *)
Good(l) == {r \in Listed(l) : rva32(r)}

LEMMA PointerNotNull ==
    ASSUME NEW in \in Address, NEW at
    PROVE  Pointer(in, at) \notin {Null, Fails}
BY DumpsAssumption DEF Pointer, Null, Fails, None, Address

LEMMA LimitRange ==
    ASSUME NEW a \in Address, NEW length \in Address \ {0}
    PROVE  LET n == limit_range(a, length)
           IN  /\ n \in Address /\ n <= length /\ a + n <= Top
               /\ n = 0 <=> a = Top
               /\ a + length <= Top => n = length
BY DumpsAssumption DEF limit_range, Address

LEMMA FindAny ==
    ASSUME NEW l, List(l), NEW a \in Address, NEW size \in Address \ {0}
    PROVE  LET got == list_find_any(l.ranges, a, size)
           IN  /\ got.memory # Null <=> \E r \in Listed(l) : Holds(r, a)
               /\ got.memory \notin {Null, Fails} => Piece(Good(l), a, size, got)
               /\ got.memory = Fails =>
                    got.size = 0 /\ \E r \in Listed(l) : Holds(r, a) /\ ~rva32(r)
<1> DEFINE n == limit_range(a, size)
           behind == {i \in DOMAIN l.ranges : a < l.ranges[i].start + l.ranges[i].size}
           hits == {i \in upper_bound(l.ranges, a) :
                      range_union(l.ranges[i].start, l.ranges[i].size, a, n) # None}
           got == list_find_any(l.ranges, a, size)
<1>1. Top \in Nat /\ a \in Nat /\ a <= Top /\ size \in Nat
  BY DumpsAssumption DEF Address
<1>2. /\ n \in Address /\ n <= size /\ a + n <= Top
      /\ n = 0 <=> a = Top
  BY LimitRange
<1>3. \A i \in DOMAIN l.ranges :
        /\ l.ranges[i].start \in Nat /\ l.ranges[i].size \in Nat /\ l.ranges[i].at \in Nat
        /\ l.ranges[i].start + l.ranges[i].size <= Top
  BY DumpsAssumption DEF List, IsRange, Address
<1>4. CASE a = Top
  <2>1. got.memory = Null /\ got.memory # Fails
    BY <1>2, <1>4 DEF list_find_any, Found, Null, Fails
  <2> QED
    BY <1>1, <1>3, <1>4, <2>1 DEF Listed, Holds
<1>5. CASE a < Top
  <2>1. \A i \in DOMAIN l.ranges :
          LET u == range_union(l.ranges[i].start, l.ranges[i].size, a, n)
          IN  /\ u \in Nat
              /\ u # None <=> Holds(l.ranges[i], a)
              /\ u # None => u <= n /\ a + u <= l.ranges[i].start + l.ranges[i].size /\ u > 0
    <3> TAKE i \in DOMAIN l.ranges
    <3> DEFINE rs == l.ranges[i].start
               rl == l.ranges[i].size
    <3>1. rs \in Nat /\ rl \in Nat /\ rs + rl <= Top
      BY <1>3
    <3>2. n > 0
      BY <1>2, <1>5 DEF Address
    <3>3. LET u == range_union(rs, rl, a, n)
          IN  /\ u \in Nat
              /\ u # None <=> rs <= a /\ a < rs + rl
              /\ u # None => u <= n /\ a + u <= rs + rl /\ u > 0
      <4> HIDE DEF n, rs, rl
      <4> QED
        BY <1>2, <1>5, <3>1, <3>2, UnionIsExact
    <3> QED
      BY <3>3 DEF Holds
  <2>2. ASSUME hits = {} PROVE got.memory = Null /\ got.memory # Fails
    BY <2>2 DEF list_find_any, Found, Null, Fails
  <2>3. ASSUME hits # {}
        PROVE  /\ got.memory # Null /\ \E r \in Listed(l) : Holds(r, a)
               /\ got.memory # Fails => Piece(Good(l), a, size, got)
               /\ got.memory = Fails =>
                    got.size = 0 /\ \E r \in Listed(l) : Holds(r, a) /\ ~rva32(r)
    <3>1. PICK i \in hits : i = CHOOSE j \in hits : TRUE
      BY <2>3
    <3>2. i \in DOMAIN l.ranges
      BY DEF upper_bound
    <3> DEFINE r == l.ranges[i]
               u == range_union(r.start, r.size, a, n)
    <3>3. got = IF ~rva32(r) THEN Found(Fails, 0) ELSE Found(Pointer(0, r.at + a - r.start), u)
      <4>1. got = IF n = 0 \/ hits = {} THEN Found(Null, n)
                  ELSE LET q == l.ranges[CHOOSE j \in hits : TRUE]
                       IN  IF ~rva32(q) THEN Found(Fails, 0)
                           ELSE Found(Pointer(0, q.at + a - q.start), range_union(q.start, q.size, a, n))
        BY DEF list_find_any
      <4>2. n # 0
        <5> HIDE DEF n
        <5> QED
          BY <1>1, <1>2, <1>5
      <4> HIDE DEF got, n, hits
      <4> QED
        BY <2>3, <3>1, <4>1, <4>2
    <3>4. Holds(r, a) /\ u \in Nat /\ u <= n /\ a + u <= r.start + r.size /\ u > 0
      BY <2>1, <3>1, <3>2
    <3>5. CASE ~rva32(r)
      <4>1. got.memory = Fails /\ Fails # Null /\ got.size = 0
        BY <3>3, <3>5 DEF Found, Null, Fails
      <4> HIDE DEF got
      <4> QED
        BY <3>2, <3>4, <3>5, <4>1 DEF Listed
    <3>6. CASE rva32(r)
      <4>1. got.memory = Pointer(0, r.at + a - r.start) /\ got.size = u
        BY <3>3, <3>6 DEF Found
      <4>2. got.memory \notin {Null, Fails}
        BY <1>1, <4>1, PointerNotNull DEF Address
      <4>3. u <= size
        BY <1>1, <1>2, <3>4 DEF Address
      <4> HIDE DEF got, u
      <4> QED
        BY <3>2, <3>4, <3>6, <4>1, <4>2, <4>3 DEF Listed, Good, Piece
    <3> QED
      BY <3>5, <3>6
  <2>4. ASSUME NEW i \in DOMAIN l.ranges, Holds(l.ranges[i], a) PROVE hits # {}
    <3>1. i \in behind
      BY <2>4 DEF Holds
    <3> DEFINE starts == {l.ranges[j].start : j \in behind}
    <3>2. starts \in SUBSET Nat /\ starts # {}
      BY <1>3, <3>1
    <3>3. PICK j \in behind : \A k \in behind : l.ranges[j].start <= l.ranges[k].start
      <4>1. PICK j \in behind : l.ranges[j].start = Min(starts)
        <5> HIDE DEF behind
        <5>1. Min(starts) \in starts
          BY <3>2, MinNat
        <5> QED
          BY <5>1
      <4>2. \A k \in behind : l.ranges[k].start \in starts
        OBVIOUS
      <4>3. \A y \in starts : Min(starts) <= y
        BY <3>2, MinNat
      <4> QED
        BY <4>1, <4>2, <4>3
    <3>4. j \in upper_bound(l.ranges, a)
      BY <3>3 DEF upper_bound
    <3>5. Holds(l.ranges[j], a)
      BY <1>1, <1>3, <2>4, <3>1, <3>3 DEF Holds
    <3> QED
      BY <2>1, <3>4, <3>5
  <2> QED
    BY <2>2, <2>3, <2>4 DEF Listed
<1> QED
  BY <1>1, <1>4, <1>5

-----------------------------------------------------------------------------
(* A list of ranges.                                                       *)
LEMMA ListMemory ==
    ASSUME NEW l, List(l), NEW a \in Address, NEW size \in Address \ {0}
    PROVE  LET got == get_list_memory(l, a, size)
           IN  /\ got.memory # Null <=> l.found /\ \E r \in Listed(l) : Holds(r, a)
               /\ got.memory \notin {Null, Fails} =>
                    \E r \in Good(l) : Holds(r, a) /\ got.memory = Pointer(0, r.at + a - r.start)
               /\ got.memory = Fails =>
                    l.found /\ \E r \in Listed(l) : Holds(r, Wrap(a + got.size)) /\ ~rva32(r)
               /\ got.memory = Null => got.size = IF l.found THEN 0 ELSE size
               /\ got.size \in Nat /\ got.size <= size
               /\ got.memory \notin {Null, Fails} /\ a + size <= Top =>
                    \A k \in 0 .. got.size - 1 : \E r \in Good(l) : Holds(r, a + k)
<1> DEFINE got == get_list_memory(l, a, size)
           gaps == Gaps(l, a, size)
           n == Min(gaps)
           direct == list_find_any(l.ranges, a, size)
           behind == list_find_any(l.ranges, Wrap(a + n), size - n)
<1>1. Top \in Nat /\ a \in Nat /\ a <= Top /\ size \in Nat /\ size > 0 /\ Null # Fails
  BY DumpsAssumption DEF Address, Null, Fails
<1>2. CASE ~l.found
  <2>1. got.memory = Null /\ got.size = size
    BY <1>2 DEF get_list_memory, Found
  <2> QED
    BY <1>1, <1>2, <2>1
<1>3. CASE l.found
  <2>1. /\ n < size /\ behind.memory = Fails => got.memory = Fails
        /\ ~(n < size /\ behind.memory = Fails) => got.memory = direct.memory
        /\ got.size = n
    BY <1>1, <1>3 DEF get_list_memory, Found
  <2>2. gaps \in SUBSET Nat /\ size \in gaps /\ gaps \subseteq 0 .. size
    BY <1>1 DEF Gaps
  <2>3. n \in gaps /\ \A m \in gaps : n <= m
    <3> HIDE DEF gaps
    <3> QED
      BY <2>2, MinNat
  <2>4. n \in Nat /\ n <= size
    BY <2>2, <2>3
  <2>5. Wrap(a + 0) = a /\ size - 0 = size
    BY <1>1, WrapLow
  <2>6. direct.memory \in {Null, Fails} => n = 0
    <3> SUFFICES ASSUME direct.memory \in {Null, Fails} PROVE n = 0
      OBVIOUS
    <3>1. list_find_any(l.ranges, Wrap(a + 0), size - 0).memory \in {Null, Fails}
      BY <2>5
    <3>2. 0 \in gaps
      BY <1>1, <3>1 DEF Gaps
    <3> HIDE DEF gaps, n
    <3> QED
      BY <2>3, <2>4, <3>2
  <2>7. n = 0 => behind = direct
    BY <2>5
  <2> HIDE DEF got, gaps, n, direct, behind
  <2>8. /\ got.memory # Null <=> direct.memory # Null
        /\ got.memory \notin {Null, Fails} => got.memory = direct.memory
        /\ got.memory = Fails => n < size /\ behind.memory = Fails
        /\ got.memory = Null => got.size = 0
    BY <1>1, <2>1, <2>4, <2>6, <2>7
  <2>9. /\ direct.memory # Null <=> \E r \in Listed(l) : Holds(r, a)
        /\ direct.memory \notin {Null, Fails} =>
             \E r \in Good(l) : Holds(r, a) /\ direct.memory = Pointer(0, r.at + a - r.start)
    BY FindAny DEF Piece, direct
  <2>10. ASSUME got.memory = Fails
         PROVE  \E r \in Listed(l) : Holds(r, Wrap(a + n)) /\ ~rva32(r)
    <3>1. Wrap(a + n) \in Address /\ size - n \in Address \ {0}
      BY <1>1, <2>4, <2>8, <2>10, WrapAddress DEF Address
    <3> QED
      BY <2>8, <2>10, <3>1, FindAny DEF behind
  <2>11. ASSUME a + size <= Top, NEW k \in 0 .. got.size - 1
         PROVE  \E r \in Good(l) : Holds(r, a + k)
    <3>1. k \in Nat /\ k < size /\ k < n
      BY <1>1, <2>1, <2>4, <2>11
    <3>2. k \notin gaps
      BY <2>3, <2>4, <3>1
    <3>3. list_find_any(l.ranges, Wrap(a + k), size - k).memory \notin {Null, Fails}
      BY <1>1, <3>1, <3>2 DEF Gaps, gaps
    <3>4. a + k \in Address /\ size - k \in Address \ {0}
      BY <1>1, <2>11, <3>1 DEF Address
    <3>5. list_find_any(l.ranges, a + k, size - k).memory \notin {Null, Fails}
      BY <3>3, <3>4, WrapLow
    <3> QED
      BY <3>4, <3>5, FindAny DEF Piece
  <2> QED
    BY <1>3, <2>1, <2>4, <2>8, <2>9, <2>10, <2>11 DEF got
<1> QED
  BY <1>2, <1>3

(* Ranges that follow each other in memory and are stored in that order    *)
(* are one piece of the dump.                                              *)
Covered(l, a, n) == \A k \in 0 .. n - 1 : \E r \in Good(l) : Holds(r, a + k)
InOrder(l, first, a, n) ==
  \A k \in 0 .. n - 1 : \E r \in Good(l) :
    Holds(r, a + k) /\ first.at + a - first.start + k = r.at + (a + k) - r.start

LEMMA OrderedBytes ==
    ASSUME NEW l, List(l), StoredInOrder(l),
           NEW a \in Nat, NEW n \in Nat,
           NEW first \in Good(l), Holds(first, a), Covered(l, a, n)
    PROVE  InOrder(l, first, a, n)
<1> DEFINE Right(k) == \E i \in DOMAIN l.ranges :
             /\ rva32(l.ranges[i]) /\ Holds(l.ranges[i], a + k)
             /\ first.at + a - first.start + k = l.ranges[i].at + (a + k) - l.ranges[i].start
           wrong == {k \in 0 .. n - 1 : ~Right(k)}
<1>1. \A i \in DOMAIN l.ranges :
        /\ l.ranges[i].start \in Nat /\ l.ranges[i].size \in Nat /\ l.ranges[i].at \in Nat
        /\ l.ranges[i].size > 0
  BY DumpsAssumption DEF List, IsRange, Address
<1>2. SUFFICES ASSUME wrong # {} PROVE FALSE
  BY DEF Listed, Good, InOrder
<1>3. PICK k \in wrong : \A j \in wrong : k <= j
  <2>1. wrong \in SUBSET Nat
    OBVIOUS
  <2> HIDE DEF wrong
  <2> QED
    BY <1>2, <2>1, MinNat
<1>4. Right(0)
  BY <1>1 DEF Listed, Good
<1>5. k \in Nat /\ k < n /\ k # 0 /\ ~Right(k)
  BY <1>4
<1>6. k - 1 \in 0 .. n - 1 /\ k - 1 \notin wrong
  BY <1>3, <1>5
<1>7. PICK i \in DOMAIN l.ranges :
        /\ rva32(l.ranges[i]) /\ Holds(l.ranges[i], a + (k - 1))
        /\ first.at + a - first.start + (k - 1) = l.ranges[i].at + (a + (k - 1)) - l.ranges[i].start
  BY <1>6
<1>8. PICK j \in DOMAIN l.ranges : rva32(l.ranges[j]) /\ Holds(l.ranges[j], a + k)
  BY <1>5 DEF Listed, Good, Covered
<1>9. first.at \in Nat /\ first.start \in Nat
  BY <1>1 DEF Listed, Good
<1> DEFINE r == l.ranges[i]
           q == l.ranges[j]
<1>10. /\ r.start \in Nat /\ r.size \in Nat /\ r.at \in Nat
       /\ q.start \in Nat /\ q.size \in Nat /\ q.at \in Nat /\ q.size > 0
  BY <1>1
<1>11. /\ r.start <= a + (k - 1) /\ a + (k - 1) < r.start + r.size
       /\ first.at + a - first.start + (k - 1) = r.at + (a + (k - 1)) - r.start
       /\ q.start <= a + k /\ a + k < q.start + q.size
  BY <1>7, <1>8 DEF Holds
<1>12. ~Holds(r, a + k)
  <2> SUFFICES ASSUME Holds(r, a + k) PROVE Right(k)
    BY <1>5
  <2>1. first.at + a - first.start + k = r.at + (a + k) - r.start
    <3> HIDE DEF r, q, wrong, Right
    <3> QED
      BY <1>5, <1>9, <1>10, <1>11
  <2> QED
    BY <1>7, <2>1
<1>13. r.start + r.size <= q.start \/ q.start + q.size <= r.start
  BY <1>8, <1>12 DEF List, RangesApart
<1>14. r.start + r.size = q.start /\ q.start = a + k
  <2>1. ~(r.start <= a + k /\ a + k < r.start + r.size)
    BY <1>12 DEF Holds
  <2> HIDE DEF r, q, wrong, Right
  <2> QED
    BY <1>5, <1>10, <1>11, <1>13, <2>1
<1>15. r.at + r.size = q.at
  BY <1>14 DEF StoredInOrder
<1>16. first.at + a - first.start + k = q.at + (a + k) - q.start
  <2> HIDE DEF r, q, wrong, Right
  <2> QED
    BY <1>5, <1>9, <1>10, <1>11, <1>14, <1>15
<1> QED
  BY <1>5, <1>8, <1>16

-----------------------------------------------------------------------------
(* The files that are loaded are files of modules of the dump, and the last *)
(* addresses that are known are those of loaded files.                      *)
FileOf(f, m) == f = [base |-> m.base, length |-> m.length] /\ m.length > 0 /\ m.valid
FilesRight(fs, ls) ==
  /\ \A f \in fs : \E i \in DOMAIN dump.modules : FileOf(f, dump.modules[i])
  /\ \A l \in DOMAIN ls : l \in Nat /\ \E f \in fs : f.base = ls[l] /\ l = f.base + f.length - 1

LEMMA FileFacts ==
    ASSUME dump \in Dumps, NEW fs, NEW ls, FilesRight(fs, ls)
    PROVE  /\ \A f \in fs : /\ f.base \in Nat /\ f.base > 0 /\ f.length \in Nat /\ f.length > 0
                            /\ f.base + f.length <= Top
           /\ \A f, g \in fs : f.base = g.base => f = g
<1>1. \A i \in DOMAIN dump.modules : IsModule(dump.modules[i])
  BY DumpFacts
<1>2. \A f \in fs : /\ f.base \in Nat /\ f.base > 0 /\ f.length \in Nat /\ f.length > 0
                    /\ f.base + f.length <= Top
  BY <1>1, DumpsAssumption DEF FilesRight, FileOf, IsModule, Address
<1>3. ASSUME NEW f \in fs, NEW g \in fs, f.base = g.base PROVE f = g
  <2>1. PICK i \in DOMAIN dump.modules : FileOf(f, dump.modules[i])
    BY DEF FilesRight
  <2>2. PICK j \in DOMAIN dump.modules : FileOf(g, dump.modules[j])
    BY DEF FilesRight
  <2>3. dump.modules[i].base = dump.modules[j].base
    BY <1>3, <2>1, <2>2 DEF FileOf
  <2>4. i = j
    BY <2>3, DumpFacts
  <2> QED
    BY <2>1, <2>2, <2>4 DEF FileOf
<1> QED
  BY <1>2, <1>3

LEMMA FromFile ==
    ASSUME dump \in Dumps, NEW fs, NEW ls, FilesRight(fs, ls),
           NEW a \in Address, NEW size \in Address
    PROVE  LET got == get_memory_from_pe_file(fs, ls, a, size)
           IN  /\ got.memory # Null =>
                    \E f \in fs : /\ InFile(f, a) /\ got.memory = Pointer(f.base, a - f.base)
                                  /\ got.size \in Nat /\ got.size <= size
                                  /\ a + got.size <= f.base + f.length
               /\ got.memory = Null => \A f \in find_loaded_pe_file(fs, ls, a) : ~InFile(f, a)
<1> DEFINE n == IF size > 0 THEN limit_range(a, size) ELSE 0
           hits == {f \in find_loaded_pe_file(fs, ls, a) :
                      range_union(f.base, f.length, a, n) # None}
           got == get_memory_from_pe_file(fs, ls, a, size)
<1>1. Top \in Nat /\ a \in Nat /\ a <= Top /\ size \in Nat
  BY DumpsAssumption DEF Address
<1>2. n \in Address /\ n <= size /\ a + n <= Top
  <2>1. CASE size > 0
    BY <2>1, LimitRange
  <2>2. CASE ~(size > 0)
    BY <1>1, <2>2 DEF Address
  <2> QED
    BY <2>1, <2>2
<1>3. find_loaded_pe_file(fs, ls, a) \subseteq fs
  BY DEF find_loaded_pe_file
<1>4. CASE a = Top
  <2>1. \A l \in DOMAIN ls : l < Top
    <3> SUFFICES ASSUME NEW l \in DOMAIN ls PROVE l < Top
      OBVIOUS
    <3>1. PICK f \in fs : l = f.base + f.length - 1
      BY DEF FilesRight
    <3> QED
      BY <1>1, <3>1, FileFacts
  <2>2. find_loaded_pe_file(fs, ls, a) = {}
    <3>1. {l \in DOMAIN ls : a <= l} = {}
      BY <1>1, <1>4, <2>1 DEF FilesRight
    <3> QED
      BY <3>1 DEF find_loaded_pe_file
  <2>4. got.memory = Null
    BY <2>2 DEF get_memory_from_pe_file, Found
  <2>3. \A f \in fs : ~InFile(f, a)
    BY <1>1, <1>4, FileFacts DEF InFile
  <2> QED
    BY <1>3, <2>3, <2>4
<1>5. CASE a < Top
  <2>1. ASSUME NEW f \in fs
        PROVE  LET u == range_union(f.base, f.length, a, n)
               IN  /\ u \in Nat
                   /\ u # None <=> InFile(f, a)
                   /\ u # None => u <= n /\ a + u <= f.base + f.length
    <3>1. f.base \in Nat /\ f.length \in Nat /\ f.base + f.length <= Top
      BY FileFacts
    <3> HIDE DEF n
    <3> QED
      BY <1>2, <1>5, <3>1, UnionIsExact DEF InFile
  <2>2. ASSUME size > 0 PROVE n # 0
    BY <1>1, <1>5, <2>2, LimitRange
  <2>3. ASSUME hits = {} PROVE got.memory = Null
    BY <2>3 DEF get_memory_from_pe_file, Found
  <2>4. ASSUME hits # {}
        PROVE  got.memory # Null /\
               \E f \in fs : /\ InFile(f, a) /\ got.memory = Pointer(f.base, a - f.base)
                             /\ got.size \in Nat /\ got.size <= size
                             /\ a + got.size <= f.base + f.length
    <3>1. PICK f \in hits : f = CHOOSE g \in hits : TRUE
      BY <2>4
    <3>2. f \in fs
      BY <1>3
    <3> DEFINE u == range_union(f.base, f.length, a, n)
    <3>3. got = Found(Pointer(f.base, a - f.base), u)
      <4>1. got = IF (size > 0 /\ n = 0) \/ hits = {} THEN Found(Null, size)
                  ELSE LET g == CHOOSE h \in hits : TRUE
                       IN  Found(Pointer(g.base, a - g.base), range_union(g.base, g.length, a, n))
        BY DEF get_memory_from_pe_file
      <4>2. ~(size > 0 /\ n = 0)
        BY <2>2
      <4> HIDE DEF got, n, hits
      <4> QED
        BY <2>4, <3>1, <4>1, <4>2
    <3>4. got.memory = Pointer(f.base, a - f.base) /\ got.size = u
      BY <3>3 DEF Found
    <3>5. InFile(f, a) /\ u \in Nat /\ u <= n /\ a + u <= f.base + f.length
      BY <2>1, <3>1, <3>2
    <3>6. f.base \in Address
      BY <3>2, FileFacts, <1>1 DEF Address
    <3>7. got.memory # Null
      BY <3>4, <3>6, PointerNotNull
    <3>8. u <= size
      BY <1>1, <1>2, <3>5 DEF Address
    <3> HIDE DEF got, u
    <3> QED
      BY <3>2, <3>4, <3>5, <3>7, <3>8
  <2>5. hits = {} => \A f \in find_loaded_pe_file(fs, ls, a) : ~InFile(f, a)
    BY <1>3, <2>1
  <2> QED
    BY <2>3, <2>4, <2>5
<1> QED
  BY <1>1, <1>4, <1>5

(* If a file is found for one address and does not have a later one, no     *)
(* other file comes between.                                                *)
LEMMA SameFile ==
    ASSUME dump \in Dumps, NEW fs, NEW ls, FilesRight(fs, ls),
           NEW b \in Nat, NEW a \in Nat, b <= a,
           NEW g \in find_loaded_pe_file(fs, ls, b),
           \A f \in find_loaded_pe_file(fs, ls, a) : ~InFile(f, a)
    PROVE  g \in fs /\ InFile(g, b) /\ ~InFile(g, a)
<1> DEFINE behind(x) == {l \in DOMAIN ls : x <= l}
<1>1. /\ behind(b) # {} /\ g \in fs
      /\ g.base = ls[Min(behind(b))] /\ g.base <= b
  BY DEF find_loaded_pe_file
<1>2. \A x : behind(x) \in SUBSET Nat
  BY DEF FilesRight
<1>3. Min(behind(b)) \in behind(b) /\ \A l \in behind(b) : Min(behind(b)) <= l
  BY <1>1, <1>2, MinNat
<1>4. PICK l \in behind(b) : l = Min(behind(b))
  BY <1>3
<1>5. l = g.base + g.length - 1 /\ l \in Nat /\ b <= l
  <2>1. l \in DOMAIN ls /\ b <= l
    BY <1>4
  <2>2. PICK f \in fs : f.base = ls[l] /\ l = f.base + f.length - 1
    BY <2>1 DEF FilesRight
  <2>3. f = g
    <3>1. f.base = g.base
      BY <1>1, <1>4, <2>2
    <3> HIDE DEF behind
    <3> QED
      BY <1>1, <3>1, FileFacts
  <2> QED
    BY <2>1, <2>2, <2>3 DEF FilesRight
<1>6. g.base \in Nat /\ g.length \in Nat
  BY <1>1, FileFacts
<1>7. InFile(g, b)
  BY <1>1, <1>5, <1>6 DEF InFile
<1>8. ASSUME InFile(g, a) PROVE FALSE
  <2>1. a <= l
    BY <1>5, <1>6, <1>8 DEF InFile
  <2>2. l \in behind(a) /\ \A k \in behind(a) : k \in behind(b)
    BY <1>2, <2>1 DEF FilesRight
  <2>3. Min(behind(a)) \in behind(a) /\ \A k \in behind(a) : Min(behind(a)) <= k
    BY <1>2, <2>2, MinNat
  <2>4. Min(behind(a)) = l
    <3>1. Min(behind(a)) <= l /\ l <= Min(behind(a))
      BY <1>3, <1>4, <2>2, <2>3
    <3>2. Min(behind(a)) \in Nat
      BY <1>2, <2>3
    <3> HIDE DEF behind
    <3> QED
      BY <1>5, <3>1, <3>2
  <2>5. g.base <= a
    BY <1>1, <1>6
  <2>6. g \in find_loaded_pe_file(fs, ls, a)
    BY <1>1, <1>4, <2>2, <2>4, <2>5 DEF find_loaded_pe_file
  <2> QED
    BY <1>8, <2>6
<1> QED
  BY <1>1, <1>7, <1>8

-----------------------------------------------------------------------------
(* Loading.                                                                *)
Threw(fs, a) ==
  \E i \in DOMAIN dump.modules :
    LET m == dump.modules[i]
    IN  /\ m.base <= a /\ a < m.base + m.size
        /\ ~m.valid \/ \E f \in fs : InFile(f, m.base) /\ ~InFile(f, a)
FilesInv == FilesRight(files, lasts) /\ symbols \in SUBSET Address
LoadRight(load, a) ==
  /\ files \subseteq load.files /\ FilesRight(load.files, load.lasts)
  /\ load.symbols \in SUBSET Address
  /\ load.throws => load.at = a /\ Threw(load.files, a)

LEMMA NoLoadRight == ASSUME FilesInv, NEW a PROVE LoadRight(NoLoad, a)
BY DEF FilesInv, LoadRight, NoLoad

LEMMA FoundModule ==
    ASSUME dump \in Dumps, NEW a \in Address
    PROVE  /\ \A m \in find_module(a) : \E i \in DOMAIN dump.modules :
                m = dump.modules[i] /\ m.base <= a /\ a < m.base + m.size
           /\ Bases(find_module(a)) \in SUBSET Address
           /\ Bases(find_unloaded_module(a)) \in SUBSET Address
<1>1. \A m \in find_module(a) : \E i \in DOMAIN dump.modules :
        m = dump.modules[i] /\ m.base <= a /\ a < m.base + m.size
  BY DEF find_module, First
<1>2. \A m \in find_unloaded_module(a) : \E i \in DOMAIN dump.unloaded : m = dump.unloaded[i]
  BY DEF find_unloaded_module, First
<1> QED
  BY <1>1, <1>2, DumpFacts DEF Bases, IsModule

LEMMA Load ==
    ASSUME dump \in Dumps, FilesInv, NEW a \in Address,
           \A f \in find_loaded_pe_file(files, lasts, a) : ~InFile(f, a)
    PROVE  LoadRight(load_pe_file(a), a)
<1> DEFINE ms == find_module(a)
           on_disk == {m \in ms : m.length > 0}
           known == symbols \cup Bases(ms)
           load == load_pe_file(a)
<1> SUFFICES LoadRight(load, a)
  OBVIOUS
<1>1. known \in SUBSET Address /\ known \cup Bases(find_unloaded_module(a)) \in SUBSET Address
  BY FoundModule DEF FilesInv
<1>2. CASE on_disk = {}
  <2>1. load = [NoLoad EXCEPT !.symbols = known \cup Bases(find_unloaded_module(a))]
    BY <1>2 DEF load_pe_file
  <2>2. /\ load.files = files /\ load.lasts = lasts /\ ~load.throws
        /\ load.symbols = known \cup Bases(find_unloaded_module(a))
    BY <2>1 DEF NoLoad
  <2> HIDE DEF load, known
  <2> QED
    BY <1>1, <2>2 DEF LoadRight, FilesInv
<1>3. CASE on_disk # {}
  <2>1. PICK m \in on_disk : m = CHOOSE x \in on_disk : TRUE
    BY <1>3
  <2>2. PICK i \in DOMAIN dump.modules : m = dump.modules[i] /\ m.base <= a /\ a < m.base + m.size
    BY <2>1, FoundModule
  <2> DEFINE last == m.base + m.length - 1
             refused == find_loaded_pe_file(files, lasts, m.base) # {} \/ ~m.valid
  <2>3. m.length > 0 /\ IsModule(m)
    BY <2>1, <2>2, DumpFacts
  <2>4. CASE refused
    <3>1. load = [Throwing(a) EXCEPT !.symbols = known]
      BY <1>3, <2>1, <2>4 DEF load_pe_file
    <3>2. load.files = files /\ load.lasts = lasts /\ load.symbols = known /\ load.at = a
      BY <3>1 DEF Throwing, NoLoad
    <3>3. ~m.valid \/ \E f \in files : InFile(f, m.base) /\ ~InFile(f, a)
      <4>1. m.base \in Nat /\ a \in Nat
        BY <2>3, DumpsAssumption DEF IsModule, Address
      <4>2. ASSUME m.valid PROVE \E f \in files : InFile(f, m.base) /\ ~InFile(f, a)
        <5>1. PICK g \in find_loaded_pe_file(files, lasts, m.base) : TRUE
          BY <2>4, <4>2
        <5> QED
          BY <2>2, <4>1, <5>1, SameFile DEF FilesInv
      <4> QED
        BY <4>2
    <3>4. Threw(files, a)
      BY <2>2, <3>3 DEF Threw
    <3> HIDE DEF load, known
    <3> QED
      BY <1>1, <3>2, <3>4 DEF LoadRight, FilesInv
  <2>5. CASE ~refused
    <3> DEFINE new == [base |-> m.base, length |-> m.length]
               fs == IF m.base \in Bases(files) THEN files ELSE files \cup {new}
               ls == [l \in DOMAIN lasts \cup {last} |->
                        IF l \in DOMAIN lasts THEN lasts[l] ELSE m.base]
    <3>1. load = [files |-> fs, lasts |-> ls, symbols |-> known,
                 loaded |-> TRUE, throws |-> FALSE, at |-> 0]
      BY <1>3, <2>1, <2>5 DEF load_pe_file
    <3>2. load.files = fs /\ load.lasts = ls /\ load.symbols = known /\ ~load.throws
      BY <3>1
    <3>3. FileOf(new, dump.modules[i])
      BY <2>2, <2>3, <2>5 DEF FileOf
    <3>4. files \subseteq fs /\ new \in fs
      <4>1. ASSUME NEW f \in files, f.base = m.base PROVE f = new
        <5>1. PICK j \in DOMAIN dump.modules : FileOf(f, dump.modules[j])
          BY DEF FilesInv, FilesRight
        <5>2. dump.modules[j].base = dump.modules[i].base
          BY <2>2, <4>1, <5>1 DEF FileOf
        <5>3. i = j
          BY <5>2, DumpFacts
        <5> QED
          BY <3>3, <5>1, <5>3 DEF FileOf
      <4> QED
        BY <4>1 DEF Bases
    <3>5. \A f \in fs : \E j \in DOMAIN dump.modules : FileOf(f, dump.modules[j])
      <4>1. fs \subseteq files \cup {new}
        OBVIOUS
      <4> HIDE DEF fs, new
      <4> QED
        BY <3>3, <4>1 DEF FilesInv, FilesRight
    <3>6. ASSUME NEW l \in DOMAIN ls
          PROVE  l \in Nat /\ \E f \in fs : f.base = ls[l] /\ l = f.base + f.length - 1
      <4>1. CASE l \in DOMAIN lasts
        <5>1. ls[l] = lasts[l]
          BY <4>1
        <5> HIDE DEF ls, fs
        <5> QED
          BY <3>4, <4>1, <5>1 DEF FilesInv, FilesRight
      <4>2. CASE l \notin DOMAIN lasts
        <5>1. l = last /\ ls[l] = m.base
          BY <4>2
        <5>2. new.base = m.base /\ new.length = m.length
          OBVIOUS
        <5>3. last \in Nat
          BY <2>3, DumpsAssumption DEF IsModule, Address
        <5> HIDE DEF ls, fs, new
        <5> QED
          BY <3>4, <5>1, <5>2, <5>3
      <4> QED
        BY <4>1, <4>2
    <3> HIDE DEF load, known, fs, ls
    <3> QED
      BY <1>1, <3>2, <3>4, <3>5, <3>6 DEF LoadRight, FilesRight
  <2> QED
    BY <2>4, <2>5
<1> QED
  BY <1>2, <1>3

-----------------------------------------------------------------------------
(* The sources.                                                            *)
Stored(fs, p, a) ==
  \/ p.in = 0 /\ \E r \in DumpRanges : Holds(r, a) /\ p.at = r.at + a - r.start
  \/ \E f \in fs : p.in = f.base /\ InFile(f, a) /\ p.at = a - f.base
Bytes(fs, p, n, a) == \A k \in 0 .. n - 1 : Stored(fs, Pointer(p.in, p.at + k), a + k)
Readable(fs, a) == (\E r \in DumpRanges : Holds(r, a)) \/ \E f \in fs : InFile(f, a)
Pointers == {Pointer(in, at) : in \in Address, at \in Nat}

(* An answer is nothing, or bytes that are at the places it names when the *)
(* condition holds.                                                        *)
Right(got, a, size, fs, condition) ==
  got.memory # Null =>
    /\ got.memory \in Pointers /\ got.size \in Nat
    /\ a + size <= Top =>
         /\ got.size <= size
         /\ condition => Bytes(fs, got.memory, got.size, a)
AllReadable(got, a, size, fs) ==
  got.memory # Null /\ a + size <= Top => \A k \in 0 .. got.size - 1 : Readable(fs, a + k)

LEMMA WrapType == ASSUME NEW n \in Nat PROVE Wrap(n) \in Nat
BY DumpsAssumption DEF Wrap

LEMMA NotInDump ==
    ASSUME dump \in Dumps, NEW a
    PROVE  InDump(a) <=> \/ Holds(dump.stack, a)
                         \/ dump.list.found /\ \E r \in Listed(dump.list) : Holds(r, a)
                         \/ dump.list64.found /\ \E r \in Listed(dump.list64) : Holds(r, a)
BY DEF InDump, ListHolds, Listed

LEMMA Stack ==
    ASSUME dump \in Dumps, NEW a \in Address, NEW size \in Address \ {0}, NEW fs
    PROVE  LET got == get_stack_memory(a, size)
           IN  /\ Right(got, a, size, fs, TRUE) /\ AllReadable(got, a, size, fs)
               /\ got.memory = Null => ~Holds(dump.stack, a) /\ got.size = size
<1> DEFINE s == dump.stack
           n == range_union(s.start, s.size, a, size)
           got == get_stack_memory(a, size)
           offset == Minus(a, s.start)
<1>1. Top \in Nat /\ a \in Nat /\ a <= Top /\ size \in Nat /\ size > 0
  BY DumpsAssumption DEF Address
<1>2. s.start \in Nat /\ s.size \in Nat /\ s.at \in Nat /\ s.start + s.size <= Top
  BY DumpFacts, DumpsAssumption DEF IsRange, Address
<1>3. CASE s.size = 0 \/ n = None
  <2>1. got.memory = Null /\ got.size = size
    BY <1>3 DEF get_stack_memory, Found
  <2>2. ~Holds(s, a)
    <3>1. CASE s.size = 0
      BY <1>1, <1>2, <3>1 DEF Holds
    <3>2. CASE a = Top
      BY <1>1, <1>2, <3>2 DEF Holds
    <3>3. CASE n = None /\ a < Top
      BY <1>1, <1>2, <3>3, UnionIsExact DEF Holds
    <3> QED
      BY <1>1, <1>3, <3>1, <3>2, <3>3
  <2> QED
    BY <2>1, <2>2 DEF Right, AllReadable
<1>4. CASE ~(s.size = 0 \/ n = None)
  <2>1. got = Found(Pointer(0, s.at + offset), n)
    BY <1>4 DEF get_stack_memory
  <2>2. got.memory = Pointer(0, s.at + offset) /\ got.size = n
    BY <2>1 DEF Found
  <2>3. offset \in Nat
    BY <1>1, <1>2, WrapType DEF Minus
  <2>4. got.memory \in Pointers /\ got.memory # Null
    <3>1. 0 \in Address
      BY <1>1 DEF Address
    <3> HIDE DEF offset
    <3> QED
      BY <1>2, <2>2, <2>3, <3>1, PointerNotNull DEF Pointers
  <2>5. n \in Nat
    <3>1. Minus(s.start + s.size, a) \in Nat
      BY <1>1, <1>2, WrapType DEF Minus
    <3> QED
      BY <1>1, <3>1 DEF range_union, None
  <2>6. ASSUME a + size <= Top
        PROVE  /\ n <= size
               /\ \A k \in 0 .. n - 1 : Holds(s, a + k) /\ s.at + offset + k = s.at + (a + k) - s.start
    <3>1. s.start <= a /\ a + n <= s.start + s.size /\ n <= size
      BY <1>1, <1>2, <1>4, <2>6, UnionIsExact
    <3>2. offset = a - s.start
      <4>1. /\ a + Top + 1 - s.start \in Nat /\ a + Top + 1 - s.start > Top
            /\ a + Top + 1 - s.start <= Top + Top + 1
        BY <1>1, <1>2, <3>1
      <4> QED
        BY <1>1, <1>2, <4>1, WrapHigh DEF Minus
    <3> HIDE DEF offset, n, s
    <3> QED
      BY <1>1, <1>2, <2>5, <3>1, <3>2 DEF Holds
  <2>7. ASSUME a + size <= Top, NEW k \in 0 .. n - 1
        PROVE  Stored(fs, Pointer(got.memory.in, got.memory.at + k), a + k) /\ Readable(fs, a + k)
    <3>1. got.memory.in = 0 /\ got.memory.at = s.at + offset
      BY <2>2 DEF Pointer
    <3>2. Holds(s, a + k) /\ s.at + offset + k = s.at + (a + k) - s.start
      BY <2>6, <2>7
    <3> DEFINE p == Pointer(got.memory.in, got.memory.at + k)
    <3>3. p.in = 0 /\ p.at = s.at + offset + k
      BY <3>1 DEF Pointer
    <3> HIDE DEF p, offset
    <3>4. Stored(fs, p, a + k)
      BY <3>2, <3>3 DEF Stored, DumpRanges
    <3> QED
      BY <3>2, <3>4 DEF Readable, DumpRanges, p
  <2> HIDE DEF n
  <2> QED
    BY <2>2, <2>4, <2>5, <2>6, <2>7 DEF Right, AllReadable, Bytes
<1> QED
  BY <1>3, <1>4

LEMMA PieceRight ==
    ASSUME NEW l, List(l), Good(l) \subseteq DumpRanges,
           NEW a \in Address, NEW size \in Address \ {0}, NEW fs,
           list_find_any(l.ranges, a, size).memory # Fails
    PROVE  Right(list_find_any(l.ranges, a, size), a, size, fs, TRUE)
<1> DEFINE got == list_find_any(l.ranges, a, size)
<1>1. SUFFICES ASSUME got.memory # Null
               PROVE  /\ got.memory \in Pointers /\ got.size \in Nat /\ got.size <= size
                      /\ Bytes(fs, got.memory, got.size, a)
  BY DEF Right
<1>2. Top \in Nat /\ a \in Nat /\ size \in Nat /\ 0 \in Address
  BY DumpsAssumption DEF Address
<1>3. PICK r \in Good(l) :
        /\ Holds(r, a) /\ got.memory = Pointer(0, r.at + a - r.start)
        /\ got.size \in Nat /\ got.size > 0 /\ got.size <= size
        /\ a + got.size <= r.start + r.size
  BY <1>1, FindAny DEF Piece
<1>4. r.start \in Nat /\ r.size \in Nat /\ r.at \in Nat
  BY DumpsAssumption DEF Good, Listed, List, IsRange, Address
<1> HIDE DEF got
<1>5. r.at + a - r.start \in Nat
  BY <1>2, <1>3, <1>4 DEF Holds
<1>6. ASSUME NEW k \in 0 .. got.size - 1
      PROVE  Stored(fs, Pointer(got.memory.in, got.memory.at + k), a + k)
  <2> DEFINE p == Pointer(got.memory.in, got.memory.at + k)
  <2>1. p.in = 0 /\ p.at = r.at + a - r.start + k
    BY <1>3 DEF Pointer
  <2>2. Holds(r, a + k) /\ r.at + a - r.start + k = r.at + (a + k) - r.start
    BY <1>2, <1>3, <1>4 DEF Holds
  <2> HIDE DEF p
  <2>3. Stored(fs, p, a + k)
    BY <1>3, <2>1, <2>2 DEF Stored
  <2> QED
    BY <2>3 DEF p
<1> QED
  BY <1>2, <1>3, <1>5, <1>6 DEF Bytes, Pointers

LEMMA ListRight ==
    ASSUME NEW l, List(l), Good(l) \subseteq DumpRanges,
           NEW a \in Address, NEW size \in Address \ {0}, NEW fs,
           get_list_memory(l, a, size).memory # Fails
    PROVE  Right(get_list_memory(l, a, size), a, size, fs, StoredInOrder(l))
<1> DEFINE got == get_list_memory(l, a, size)
<1>1. Top \in Nat /\ a \in Nat /\ size \in Nat /\ 0 \in Address
  BY DumpsAssumption DEF Address
<1>2. got.size \in Nat /\ got.size <= size
  BY ListMemory
<1>3. SUFFICES ASSUME got.memory # Null
               PROVE  /\ got.memory \in Pointers
                      /\ a + size <= Top /\ StoredInOrder(l) => Bytes(fs, got.memory, got.size, a)
  BY <1>2 DEF Right
<1>4. PICK r \in Good(l) : Holds(r, a) /\ got.memory = Pointer(0, r.at + a - r.start)
  BY <1>3, ListMemory
<1>5. r.start \in Nat /\ r.size \in Nat /\ r.at \in Nat
  BY DumpsAssumption DEF Good, Listed, List, IsRange, Address
<1>6. got.memory \in Pointers
  <2>1. r.at + a - r.start \in Nat
    BY <1>1, <1>4, <1>5 DEF Holds
  <2> HIDE DEF got
  <2> QED
    BY <1>1, <1>4, <2>1 DEF Pointers
<1>7. ASSUME a + size <= Top, StoredInOrder(l) PROVE Bytes(fs, got.memory, got.size, a)
  <2>1. \A k \in 0 .. got.size - 1 : \E q \in Good(l) : Holds(q, a + k)
    BY <1>3, <1>7, ListMemory
  <2> HIDE DEF got
  <2>2. \A k \in 0 .. got.size - 1 : \E q \in Good(l) :
          Holds(q, a + k) /\ r.at + a - r.start + k = q.at + (a + k) - q.start
    <3>1. Covered(l, a, got.size)
      BY <2>1 DEF Covered
    <3>2. InOrder(l, r, a, got.size)
      BY <1>1, <1>2, <1>4, <1>7, <3>1, OrderedBytes
    <3> QED
      BY <3>2 DEF InOrder
  <2>3. ASSUME NEW k \in 0 .. got.size - 1
        PROVE  Stored(fs, Pointer(got.memory.in, got.memory.at + k), a + k)
    <3> DEFINE p == Pointer(got.memory.in, got.memory.at + k)
    <3>1. p.in = 0 /\ p.at = r.at + a - r.start + k
      BY <1>4 DEF Pointer
    <3>2. PICK q \in Good(l) :
            Holds(q, a + k) /\ r.at + a - r.start + k = q.at + (a + k) - q.start
      BY <2>2
    <3> HIDE DEF p
    <3>3. Stored(fs, p, a + k)
      BY <3>1, <3>2 DEF Stored
    <3> QED
      BY <3>3 DEF p
  <2> QED
    BY <2>3 DEF Bytes
<1> QED
  BY <1>6, <1>7

LEMMA FileRight ==
    ASSUME dump \in Dumps, NEW fs, NEW ls, FilesRight(fs, ls),
           NEW a \in Address, NEW size \in Address
    PROVE  LET got == get_memory_from_pe_file(fs, ls, a, size)
           IN  Right(got, a, size, fs, TRUE) /\ AllReadable(got, a, size, fs)
<1> DEFINE got == get_memory_from_pe_file(fs, ls, a, size)
<1>1. Top \in Nat /\ a \in Nat /\ size \in Nat
  BY DumpsAssumption DEF Address
<1>2. SUFFICES ASSUME got.memory # Null
               PROVE  /\ got.memory \in Pointers /\ got.size \in Nat /\ got.size <= size
                      /\ Bytes(fs, got.memory, got.size, a)
                      /\ \A k \in 0 .. got.size - 1 : Readable(fs, a + k)
  BY DEF Right, AllReadable
<1>3. PICK f \in fs : /\ InFile(f, a) /\ got.memory = Pointer(f.base, a - f.base)
                      /\ got.size \in Nat /\ got.size <= size
                      /\ a + got.size <= f.base + f.length
  BY <1>2, FromFile
<1>4. f.base \in Nat /\ f.length \in Nat /\ f.base + f.length <= Top /\ f.base \in Address
  BY <1>1, FileFacts DEF Address
<1> HIDE DEF got
<1>5. a - f.base \in Nat
  BY <1>1, <1>3, <1>4 DEF InFile
<1>6. ASSUME NEW k \in 0 .. got.size - 1
      PROVE  /\ Stored(fs, Pointer(got.memory.in, got.memory.at + k), a + k)
             /\ Readable(fs, a + k)
  <2> DEFINE p == Pointer(got.memory.in, got.memory.at + k)
  <2>1. p.in = f.base /\ p.at = a - f.base + k
    BY <1>3 DEF Pointer
  <2>2. InFile(f, a + k) /\ a - f.base + k = (a + k) - f.base
    BY <1>1, <1>3, <1>4 DEF InFile
  <2> HIDE DEF p
  <2>3. Stored(fs, p, a + k)
    <3>1. p.at = (a + k) - f.base
      BY <2>1, <2>2
    <3> QED
      BY <1>3, <2>1, <2>2, <3>1 DEF Stored
  <2> QED
    BY <1>3, <2>2, <2>3 DEF p, Readable
<1> QED
  BY <1>3, <1>4, <1>5, <1>6 DEF Bytes, Pointers

(* The lists of the dump. *)
LEMMA Lists ==
    ASSUME dump \in Dumps, NEW l \in {dump.list, dump.list64}
    PROVE  List(l) /\ Good(l) \subseteq DumpRanges
BY DumpFacts DEF Good, DumpRanges

LEMMA ListReadable ==
    ASSUME dump \in Dumps, NEW l \in {dump.list, dump.list64},
           NEW a \in Address, NEW size \in Address \ {0}, NEW fs,
           get_list_memory(l, a, size).memory # Fails
    PROVE  AllReadable(get_list_memory(l, a, size), a, size, fs)
<1> DEFINE got == get_list_memory(l, a, size)
<1>1. SUFFICES ASSUME got.memory # Null, a + size <= Top, NEW k \in 0 .. got.size - 1
               PROVE  Readable(fs, a + k)
  BY DEF AllReadable
<1>2. \E r \in Good(l) : Holds(r, a + k)
  BY <1>1, Lists, ListMemory
<1> QED
  BY <1>2, Lists DEF Readable

-----------------------------------------------------------------------------
(* The reads.                                                              *)
LEMMA FromModules ==
    ASSUME dump \in Dumps, FilesInv, NEW a \in Address, NEW size \in Address, NEW enable
    PROVE  LET r == from_modules(a, size, enable)
           IN  /\ LoadRight(r.load, a)
               /\ Right(r.got, a, size, r.load.files, TRUE)
               /\ AllReadable(r.got, a, size, r.load.files)
<1> DEFINE direct == get_memory_from_pe_file(files, lasts, a, size)
           load == IF direct.memory = Null /\ enable THEN load_pe_file(a) ELSE NoLoad
           r == from_modules(a, size, enable)
<1>1. r.load = load
  BY DEF from_modules
<1>2. r.got = IF load.loaded THEN get_memory_from_pe_file(load.files, load.lasts, a, size) ELSE direct
  BY DEF from_modules
<1>3. CASE direct.memory = Null /\ enable
  <2>1. LoadRight(load, a)
    BY <1>3, FromFile, Load DEF FilesInv
  <2>2. CASE load.loaded
    <3> HIDE DEF load, r
    <3> QED
      BY <1>1, <1>2, <2>1, <2>2, FileRight DEF LoadRight, r
  <2>3. CASE ~load.loaded
    <3>1. r.got.memory = Null
      BY <1>2, <1>3, <2>3
    <3> HIDE DEF load, r
    <3>2. r.got.memory # Null => FALSE
      BY <3>1
    <3> QED
      BY <1>1, <2>1, <3>2 DEF Right, AllReadable, r
  <2> QED
    BY <2>2, <2>3
<1>4. CASE ~(direct.memory = Null /\ enable)
  <2>1. load = NoLoad /\ ~load.loaded /\ load.files = files
    BY <1>4 DEF NoLoad
  <2>2. r.got = direct /\ r.load = NoLoad /\ r.load.files = files
    BY <1>1, <1>2, <2>1
  <2> HIDE DEF load, r
  <2> QED
    BY <2>2, NoLoadRight, FileRight DEF FilesInv, r
<1> QED
  BY <1>3, <1>4

Ordered == StoredInOrder(dump.list) /\ StoredInOrder(dump.list64)

LEMMA Condition ==
    ASSUME NEW got, NEW a, NEW size, NEW fs, NEW condition, NEW weaker,
           condition => weaker, Right(got, a, size, fs, weaker)
    PROVE  Right(got, a, size, fs, condition)
BY DEF Right

(* What a read leaves behind, and where it throws.                         *)
Blamed(a, fs) ==
  \/ CutOff(a)
  \/ /\ ~InDump(a) \/ (dump.list.found /\ dump.list64.found)
     /\ Threw(fs, a)
Taken(load) ==
  /\ files \subseteq load.files /\ FilesRight(load.files, load.lasts)
  /\ load.symbols \in SUBSET Address
  /\ load.throws => load.at \in Address /\ Blamed(load.at, load.files)

LEMMA LoadTaken ==
    ASSUME NEW a \in Address, NEW load, LoadRight(load, a),
           load.throws => ~InDump(a) \/ (dump.list.found /\ dump.list64.found)
    PROVE  Taken(load)
BY DEF LoadRight, Taken, Blamed

(* A source that is asked without loading throws only where a range is cut *)
(* off.                                                                    *)
LEMMA DirectTaken ==
    ASSUME FilesInv, NEW a \in Address, NEW got, NEW r, r = Direct(got, a),
           got.memory = Fails => got.size \in Nat /\ CutOff(Wrap(a + got.size))
    PROVE  /\ r.got = got /\ r.load.files = files
           /\ r.load.throws <=> got.memory = Fails
           /\ Taken(r.load)
<1>1. r.got = got /\ r.load = IF got.memory = Fails THEN Throwing(Wrap(a + got.size)) ELSE NoLoad
  BY DEF Direct
<1>2. CASE got.memory = Fails
  <2> DEFINE b == Wrap(a + got.size)
  <2>1. b \in Address
    BY <1>2, WrapAddress DEF Address
  <2>2. CutOff(b)
    BY <1>2
  <2>3. r.load = Throwing(b)
    BY <1>1, <1>2
  <2> HIDE DEF b
  <2>4. /\ r.load.files = files /\ r.load.lasts = lasts /\ r.load.symbols = symbols
        /\ r.load.throws /\ r.load.at = b
    BY <2>3 DEF Throwing, NoLoad
  <2> QED
    BY <1>1, <1>2, <2>1, <2>2, <2>4 DEF Taken, Blamed, FilesInv
<1>3. CASE got.memory # Fails
  <2>1. /\ r.load.files = files /\ r.load.lasts = lasts /\ r.load.symbols = symbols
        /\ ~r.load.throws
    BY <1>1, <1>3 DEF NoLoad
  <2> QED
    BY <1>1, <1>3, <2>1 DEF Taken, FilesInv
<1> QED
  BY <1>2, <1>3

(* The sources that need no loading, each as a whole.                      *)
LEMMA FromStack ==
    ASSUME dump \in Dumps, FilesInv, NEW a \in Address, NEW size \in Address \ {0},
           NEW r, get_stack_memory(a, size).memory # Null, r = Direct(get_stack_memory(a, size), a)
    PROVE  /\ r.load.files = files /\ Taken(r.load) /\ ~r.load.throws /\ r.got.memory # Null
           /\ Right(r.got, a, size, files, TRUE) /\ AllReadable(r.got, a, size, files)
           /\ r.got.size \in Nat
<1> DEFINE got == get_stack_memory(a, size)
<1>1. Right(got, a, size, files, TRUE) /\ AllReadable(got, a, size, files)
  BY Stack
<1> HIDE DEF got
<1>2. got.memory \in Pointers /\ got.memory # Null /\ got.size \in Nat
  BY <1>1 DEF Right, got
<1>3. got.memory # Fails
  BY <1>2, PointerNotNull DEF Pointers
<1>4. r = Direct(got, a)
  BY DEF got
<1>5. /\ r.got = got /\ r.load.files = files /\ ~r.load.throws
      /\ Taken(r.load)
  BY <1>3, <1>4, DirectTaken
<1> QED
  BY <1>1, <1>2, <1>5

LEMMA FromList ==
    ASSUME dump \in Dumps, FilesInv, NEW a \in Address, NEW size \in Address \ {0},
           NEW l \in {dump.list, dump.list64},
           NEW r, get_list_memory(l, a, size).memory # Null, r = Direct(get_list_memory(l, a, size), a)
    PROVE  /\ r.load.files = files /\ Taken(r.load) /\ r.got.memory # Null
           /\ r.got.size \in Nat
           /\ ~r.load.throws => /\ Right(r.got, a, size, files, StoredInOrder(l))
                                /\ AllReadable(r.got, a, size, files)
<1> DEFINE got == get_list_memory(l, a, size)
<1>1. got.size \in Nat
  BY Lists, ListMemory
<1>2. got.memory = Fails => CutOff(Wrap(a + got.size))
  BY Lists, ListMemory DEF CutOff
<1>3. got.memory # Fails => Right(got, a, size, files, StoredInOrder(l)) /\ AllReadable(got, a, size, files)
  BY Lists, ListRight, ListReadable
<1>4. r = Direct(got, a) /\ got.memory # Null
  OBVIOUS
<1> HIDE DEF got
<1>5. /\ r.got = got /\ r.load.files = files
      /\ r.load.throws <=> got.memory = Fails
      /\ Taken(r.load)
  BY <1>1, <1>2, <1>4, DirectTaken
<1> QED
  BY <1>1, <1>3, <1>4, <1>5

LEMMA FromPiece ==
    ASSUME dump \in Dumps, FilesInv, NEW a \in Address, NEW size \in Address \ {0},
           NEW l \in {dump.list, dump.list64}, l.found,
           NEW r, list_find_any(l.ranges, a, size).memory # Null,
           r = Direct(list_find_any(l.ranges, a, size), a)
    PROVE  /\ r.load.files = files /\ Taken(r.load)
           /\ ~r.load.throws => Right(r.got, a, size, files, TRUE)
<1> DEFINE got == list_find_any(l.ranges, a, size)
<1>1. got.memory = Fails => got.size \in Nat /\ CutOff(Wrap(a + got.size))
  <2> SUFFICES ASSUME got.memory = Fails PROVE got.size \in Nat /\ CutOff(Wrap(a + got.size))
    OBVIOUS
  <2>1. got.size = 0 /\ \E q \in Listed(l) : Holds(q, a) /\ ~rva32(q)
    BY Lists, FindAny
  <2>3. Wrap(a + 0) = a
    BY WrapLow, DumpsAssumption DEF Address
  <2> QED
    BY <2>1, <2>3 DEF CutOff
<1>2. got.memory # Fails => Right(got, a, size, files, TRUE)
  BY Lists, PieceRight
<1>3. r = Direct(got, a)
  OBVIOUS
<1> HIDE DEF got
<1>4. /\ r.got = got /\ r.load.files = files
      /\ r.load.throws <=> got.memory = Fails
      /\ Taken(r.load)
  BY <1>1, <1>3, DirectTaken
<1> QED
  BY <1>2, <1>4

(* A stream's read.                                                        *)
LEMMA ProcessRange ==
    ASSUME dump \in Dumps, FilesInv, NEW a \in Address, NEW size \in Address \ {0}, NEW enable
    PROVE  LET r == get_process_memory_range(a, size, enable)
           IN  /\ Taken(r.load)
               /\ ~r.load.throws =>
                    /\ Right(r.got, a, size, r.load.files, Ordered)
                    /\ r.got.memory = Null => r.got.size = size /\ ~InDump(a)
<1> DEFINE s == get_stack_memory(a, size)
           l == get_list_memory(dump.list, a, size)
           l64 == get_list_memory(dump.list64, a, size)
           m == from_modules(a, size, enable)
           r == get_process_memory_range(a, size, enable)
<1>1. CASE s.memory # Null
  <2>1. r = Direct(s, a)
    BY <1>1 DEF get_process_memory_range
  <2> HIDE DEF r
  <2>2. /\ r.load.files = files /\ Taken(r.load) /\ r.got.memory # Null
        /\ Right(r.got, a, size, files, TRUE)
    BY <1>1, <2>1, FromStack
  <2> QED
    BY <2>2, Condition DEF r
<1>2. CASE s.memory = Null /\ l.memory # Null
  <2>1. r = Direct(l, a)
    BY <1>2 DEF get_process_memory_range
  <2> HIDE DEF r
  <2>2. /\ r.load.files = files /\ Taken(r.load) /\ r.got.memory # Null
        /\ ~r.load.throws => Right(r.got, a, size, files, StoredInOrder(dump.list))
    BY <1>2, <2>1, FromList
  <2> QED
    BY <2>2, Condition DEF r, Ordered
<1>3. CASE s.memory = Null /\ l.memory = Null /\ l64.memory # Null
  <2>1. r = Direct(l64, a)
    BY <1>3 DEF get_process_memory_range
  <2> HIDE DEF r
  <2>2. /\ r.load.files = files /\ Taken(r.load) /\ r.got.memory # Null
        /\ ~r.load.throws => Right(r.got, a, size, files, StoredInOrder(dump.list64))
    BY <1>3, <2>1, FromList
  <2> QED
    BY <2>2, Condition DEF r, Ordered
<1>4. CASE s.memory = Null /\ l.memory = Null /\ l64.memory = Null
  <2>1. ~InDump(a)
    <3>1. ~Holds(dump.stack, a)
      BY <1>4, Stack
    <3>2. ~(dump.list.found /\ \E q \in Listed(dump.list) : Holds(q, a))
      BY <1>4, Lists, ListMemory
    <3>3. ~(dump.list64.found /\ \E q \in Listed(dump.list64) : Holds(q, a))
      BY <1>4, Lists, ListMemory
    <3> QED
      BY <3>1, <3>2, <3>3, NotInDump
  <2>2. r = IF m.got.memory = Null THEN [m EXCEPT !.got = Found(Null, size)] ELSE m
    BY <1>4 DEF get_process_memory_range
  <2>3. m = [got |-> m.got, load |-> m.load]
    BY DEF from_modules
  <2>4. /\ LoadRight(m.load, a)
        /\ Right(m.got, a, size, m.load.files, TRUE)
    <3>1. size \in Address
      OBVIOUS
    <3> QED
      BY <3>1, FromModules
  <2>5. CASE m.got.memory = Null
    <3>1. r.load = m.load /\ r.got.memory = Null /\ r.got.size = size
      <4> HIDE DEF m
      <4> QED
        BY <2>2, <2>3, <2>5 DEF Found
    <3> HIDE DEF m, r
    <3>2. Right(r.got, a, size, r.load.files, Ordered)
      BY <3>1 DEF Right
    <3>3. /\ Taken(r.load)
          /\ Right(r.got, a, size, r.load.files, Ordered)
          /\ r.got.memory = Null => r.got.size = size /\ ~InDump(a)
      BY <2>1, <2>4, <3>1, <3>2, LoadTaken
    <3> QED
      BY <3>3 DEF r
  <2>6. CASE m.got.memory # Null
    <3>1. r = m
      BY <2>2, <2>6
    <3> HIDE DEF m, r
    <3>2. Right(r.got, a, size, r.load.files, Ordered)
      BY <2>4, <3>1, Condition
    <3>3. r.got.memory # Null
      BY <2>6, <3>1
    <3>4. Taken(r.load)
      BY <2>1, <2>4, <3>1, LoadTaken
    <3> QED
      BY <3>2, <3>3, <3>4 DEF r
  <2> QED
    BY <2>5, <2>6
<1> QED
  BY <1>1, <1>2, <1>3, <1>4

(* find_memory_range.  It asks for no byte of the second list behind a     *)
(* first one that does not have the address.                               *)
LEMMA FindMemoryRange ==
    ASSUME dump \in Dumps, FilesInv, NEW a \in Address, NEW size \in Address \ {0}, NEW enable
    PROVE  LET r == find_memory_range(a, size, enable)
           IN  /\ Taken(r.load)
               /\ ~r.load.throws =>
                    /\ AllReadable(r.got, a, size, r.load.files)
                    /\ r.got.memory # Null => r.got.size \in Nat
<1> DEFINE s == get_stack_memory(a, size)
           l == get_list_memory(dump.list, a, s.size)
           l64 == get_list_memory(dump.list64, a, l.size)
           r == find_memory_range(a, size, enable)
<1>1. CASE s.memory # Null
  <2>1. r = Direct(s, a)
    BY <1>1 DEF find_memory_range
  <2> HIDE DEF r
  <2>2. /\ r.load.files = files /\ Taken(r.load) /\ r.got.size \in Nat
        /\ AllReadable(r.got, a, size, files)
    BY <1>1, <2>1, FromStack
  <2> QED
    BY <2>2 DEF r
<1>2. CASE s.memory = Null
  <2>1. s.size = size /\ ~Holds(dump.stack, a)
    BY <1>2, Stack
  <2>2. l = get_list_memory(dump.list, a, size)
    BY <2>1
  <2>3. CASE l.memory # Null
    <3>1. r = Direct(l, a)
      BY <1>2, <2>3 DEF find_memory_range
    <3> HIDE DEF s, l, r
    <3>2. /\ r.load.files = files /\ Taken(r.load) /\ r.got.size \in Nat
          /\ ~r.load.throws => AllReadable(r.got, a, size, files)
      BY <2>2, <2>3, <3>1, FromList
    <3> QED
      BY <3>2 DEF r
  <2>4. CASE l.memory = Null
    <3>1. /\ ~(dump.list.found /\ \E q \in Listed(dump.list) : Holds(q, a))
          /\ l.size = IF dump.list.found THEN 0 ELSE size
      <4> HIDE DEF s, l
      <4> QED
        BY <2>2, <2>4, Lists, ListMemory
    <3>2. CASE dump.list.found
      <4>1. l.size = 0
        BY <3>1, <3>2
      <4>2. l64.memory = Null /\ l64.size = 0
        <5> HIDE DEF s, l
        <5> QED
          BY <4>1 DEF get_list_memory, Found
      <4>3. r = from_modules(a, l64.size, enable)
        BY <1>2, <2>4, <4>2 DEF find_memory_range
      <4>4. r = from_modules(a, 0, enable)
        BY <4>2, <4>3
      <4>5. a \in Nat /\ a + 0 <= Top /\ 0 \in Address
        BY DumpsAssumption DEF Address
      <4> HIDE DEF s, l, l64, r
      <4>6. /\ LoadRight(r.load, a) /\ Right(r.got, a, 0, r.load.files, TRUE)
            /\ AllReadable(r.got, a, 0, r.load.files)
        BY <4>4, <4>5, FromModules
      <4>7. AllReadable(r.got, a, size, r.load.files) /\ (r.got.memory # Null => r.got.size \in Nat)
        BY <4>5, <4>6 DEF AllReadable, Right
      <4>8. ~dump.list64.found => ~InDump(a)
        BY <2>1, <3>1, NotInDump
      <4>9. Taken(r.load)
        BY <3>2, <4>6, <4>8, LoadTaken, DumpFacts DEF List
      <4> QED
        BY <4>7, <4>9 DEF r
    <3>3. CASE ~dump.list.found
      <4>1. l.size = size
        BY <3>1, <3>3
      <4>2. l64 = get_list_memory(dump.list64, a, size)
        <5> HIDE DEF s, l
        <5> QED
          BY <4>1
      <4>3. CASE l64.memory # Null
        <5>1. r = Direct(l64, a)
          BY <1>2, <2>4, <4>3 DEF find_memory_range
        <5> HIDE DEF s, l, l64, r
        <5>2. /\ r.load.files = files /\ Taken(r.load) /\ r.got.size \in Nat
              /\ ~r.load.throws => AllReadable(r.got, a, size, files)
          BY <4>2, <4>3, <5>1, FromList
        <5> QED
          BY <5>2 DEF r
      <4>4. CASE l64.memory = Null
        <5>1. r = from_modules(a, l64.size, enable)
          BY <1>2, <2>4, <4>4 DEF find_memory_range
        <5> HIDE DEF s, l, l64, r
        <5>2. /\ ~(dump.list64.found /\ \E q \in Listed(dump.list64) : Holds(q, a))
              /\ l64.size = IF dump.list64.found THEN 0 ELSE size
          BY <4>2, <4>4, Lists, ListMemory
        <5>3. ~InDump(a)
          BY <2>1, <3>1, <5>2, NotInDump
        <5>4. a \in Nat /\ size \in Nat /\ l64.size \in Address /\ l64.size <= size
          BY <5>2, DumpsAssumption DEF Address
        <5>5. /\ LoadRight(r.load, a) /\ Right(r.got, a, l64.size, r.load.files, TRUE)
              /\ AllReadable(r.got, a, l64.size, r.load.files)
          BY <5>1, <5>4, FromModules
        <5>6. a + size <= Top => a + l64.size <= Top
          BY <5>4, DumpsAssumption DEF Address
        <5>7. AllReadable(r.got, a, size, r.load.files) /\ (r.got.memory # Null => r.got.size \in Nat)
          BY <5>5, <5>6 DEF AllReadable, Right
        <5>8. Taken(r.load)
          BY <5>3, <5>5, LoadTaken
        <5> QED
          BY <5>7, <5>8 DEF r
      <4> QED
        BY <4>3, <4>4
    <3> QED
      BY <3>2, <3>3
  <2> QED
    BY <2>3, <2>4
<1> QED
  BY <1>1, <1>2

(* do_read_process_memory. *)
LEMMA ReadProcessMemory ==
    ASSUME dump \in Dumps, FilesInv, NEW a \in Address, NEW size \in Address \ {0}, NEW enable
    PROVE  LET r == do_read_process_memory(a, size, enable)
           IN  /\ Taken(r.load)
               /\ ~r.load.throws => Right(r.got, a, size, r.load.files, TRUE)
<1> DEFINE s == get_stack_memory(a, size)
           l == list_find_any(dump.list.ranges, a, size)
           l64 == list_find_any(dump.list64.ranges, a, size)
           r == do_read_process_memory(a, size, enable)
<1>1. CASE s.memory # Null
  <2>1. r = Direct(s, a)
    BY <1>1 DEF do_read_process_memory
  <2> HIDE DEF r
  <2>2. /\ r.load.files = files /\ Taken(r.load)
        /\ Right(r.got, a, size, files, TRUE)
    BY <1>1, <2>1, FromStack
  <2> QED
    BY <2>2 DEF r
<1>2. CASE s.memory = Null /\ dump.list.found /\ l.memory # Null
  <2>1. r = Direct(l, a)
    BY <1>2 DEF do_read_process_memory
  <2> HIDE DEF r
  <2>2. /\ r.load.files = files /\ Taken(r.load)
        /\ ~r.load.throws => Right(r.got, a, size, files, TRUE)
    BY <1>2, <2>1, FromPiece
  <2> QED
    BY <2>2 DEF r
<1>3. CASE /\ s.memory = Null /\ ~(dump.list.found /\ l.memory # Null)
           /\ dump.list64.found /\ l64.memory # Null
  <2>1. r = Direct(l64, a)
    BY <1>3 DEF do_read_process_memory
  <2> HIDE DEF r
  <2>2. /\ r.load.files = files /\ Taken(r.load)
        /\ ~r.load.throws => Right(r.got, a, size, files, TRUE)
    BY <1>3, <2>1, FromPiece
  <2> QED
    BY <2>2 DEF r
<1>4. CASE /\ s.memory = Null /\ ~(dump.list.found /\ l.memory # Null)
           /\ ~(dump.list64.found /\ l64.memory # Null)
  <2>1. ~InDump(a)
    <3>1. ~Holds(dump.stack, a)
      BY <1>4, Stack
    <3>2. ~(dump.list.found /\ \E q \in Listed(dump.list) : Holds(q, a))
      BY <1>4, Lists, FindAny
    <3>3. ~(dump.list64.found /\ \E q \in Listed(dump.list64) : Holds(q, a))
      BY <1>4, Lists, FindAny
    <3> QED
      BY <3>1, <3>2, <3>3, NotInDump
  <2>2. r = from_modules(a, size, enable)
    BY <1>4 DEF do_read_process_memory
  <2>3. size \in Address
    OBVIOUS
  <2>4. LoadRight(r.load, a) /\ Right(r.got, a, size, r.load.files, TRUE)
    <3> HIDE DEF r
    <3> QED
      BY <2>2, <2>3, FromModules
  <2>5. Taken(r.load)
    BY <2>1, <2>4, LoadTaken
  <2> QED
    BY <2>4, <2>5
<1> QED
  BY <1>1, <1>2, <1>3, <1>4

-----------------------------------------------------------------------------
(* The inductive invariant.                                                *)
StreamType == [start : Address, current : Address, end : Address,
               memory : Pointers \cup {Null}, end_memory : Nat]
Typed(s) == s \in StreamType /\ (s.memory # Null => s.memory.at <= s.end_memory)
(* A stream has no range at hand only at its end or before a gap.          *)
GapOrEnd(s) == s.memory = Null => s.current = s.end \/ ~InDump(s.current)
(* The range at hand ends inside the stream, and its bytes are the next of *)
(* the stream, n of which have been delivered.                             *)
AtHand(s, n, fs) ==
  s.start <= s.end =>
    /\ s.current = s.start + n /\ s.current <= s.end
    /\ s.memory # Null =>
         /\ s.current + (s.end_memory - s.memory.at) <= s.end
         /\ Ordered => Bytes(fs, s.memory, s.end_memory - s.memory.at, s.current)
Delivered(s, o, fs) ==
  Ordered /\ s.start <= s.end => \A i \in 1 .. Len(o) : Stored(fs, o[i], s.start + (i - 1))
StreamRight(s, o, fs, p) ==
  /\ Typed(s) /\ o \in Seq(Pointers) /\ GapOrEnd(s) /\ Delivered(s, o, fs)
  /\ p # "thrown" => AtHand(s, Len(o), fs)
AnswerRight(x, fs) ==
  /\ x.call = "find" /\ ~ReachesTop(x.address, x.asked) =>
       \A a \in x.address .. x.address + x.size - 1 : Readable(fs, a)
  /\ x.call = "read" =>
       /\ x.size <= x.asked
       /\ \A i \in 0 .. x.size - 1 : Stored(fs, [x.memory EXCEPT !.at = @ + i], x.address + i)
ThrowRight(p, a, fs) ==
  p = "thrown" => Blamed(a, fs)
IInv ==
  /\ dump \in Dumps /\ FilesInv
  /\ pc \in {"idle", "reading", "thrown"}
  /\ left \in Address /\ calls \in 0 .. MaxCalls /\ culprit \in Address
  /\ StreamRight(stream, out, files, pc)
  /\ pc = "idle" /\ left > 0 => eof(stream)
  /\ AnswerRight(answer, files)
  /\ ThrowRight(pc, culprit, files)

(* What is stored in a file stays there when others are loaded.            *)
LEMMA MoreFiles ==
    ASSUME NEW fs, NEW gs, fs \subseteq gs
    PROVE  /\ \A p, a : Stored(fs, p, a) => Stored(gs, p, a)
           /\ \A a : Readable(fs, a) => Readable(gs, a)
           /\ \A p, n, a : Bytes(fs, p, n, a) => Bytes(gs, p, n, a)
<1>1. \A p, a : Stored(fs, p, a) => Stored(gs, p, a)
  BY DEF Stored
<1>2. \A a : Readable(fs, a) => Readable(gs, a)
  BY DEF Readable
<1>3. \A p, n, a : Bytes(fs, p, n, a) => Bytes(gs, p, n, a)
  BY <1>1 DEF Bytes
<1> QED
  BY <1>1, <1>2, <1>3

LEMMA StreamKept ==
    ASSUME NEW fs, NEW gs, fs \subseteq gs, NEW s, NEW o, NEW p, NEW q,
           q # "thrown" => p # "thrown", StreamRight(s, o, fs, p)
    PROVE  StreamRight(s, o, gs, q)
<1>1. Delivered(s, o, fs) => Delivered(s, o, gs)
  BY MoreFiles DEF Delivered
<1>2. ASSUME NEW n, AtHand(s, n, fs) PROVE AtHand(s, n, gs)
  BY <1>2, MoreFiles DEF AtHand
<1> QED
  BY <1>1, <1>2 DEF StreamRight

LEMMA AnswerKept ==
    ASSUME NEW fs, NEW gs, fs \subseteq gs, NEW x, AnswerRight(x, fs)
    PROVE  AnswerRight(x, gs)
BY MoreFiles DEF AnswerRight

(* The invariant after a step, in the terms of the state before it.        *)
LEMMA NextState ==
    ASSUME dump \in Dumps, dump' = dump,
           FilesRight(files', lasts'), symbols' \in SUBSET Address,
           pc' \in {"idle", "reading", "thrown"},
           left' \in Address, calls' \in 0 .. MaxCalls, culprit' \in Address,
           StreamRight(stream', out', files', pc'),
           pc' = "idle" /\ left' > 0 => eof(stream'),
           AnswerRight(answer', files'),
           ThrowRight(pc', culprit', files')
    PROVE  IInv'
<1>1. FilesInv'
  BY DEF FilesInv, FilesRight
<1>2. StreamRight(stream, out, files, pc)'
  <2>1. Typed(stream)' /\ (out \in Seq(Pointers))'
    BY DEF StreamRight, Typed, StreamType
  <2>2. GapOrEnd(stream)'
    BY DEF StreamRight, GapOrEnd, InDump, ListHolds, Holds
  <2>3. Delivered(stream, out, files)'
    BY DEF StreamRight, Delivered, Stored, DumpRanges, Listed, rva32, Ordered, StoredInOrder
  <2>4. (pc # "thrown" => AtHand(stream, Len(out), files))'
    BY DEF StreamRight, AtHand, Bytes, Stored, DumpRanges, Listed, rva32, Ordered, StoredInOrder
  <2> QED
    BY <2>1, <2>2, <2>3, <2>4 DEF StreamRight
<1>3. AnswerRight(answer, files)'
  BY DEF AnswerRight, Readable, Stored, DumpRanges, Listed, rva32
<1>4. ThrowRight(pc, culprit, files)'
  BY DEF ThrowRight, Blamed, CutOff, Listed, rva32, Threw, InDump, ListHolds
<1>5. (pc = "idle" /\ left > 0 => eof(stream))'
  BY DEF eof
<1> QED
  BY <1>1, <1>2, <1>3, <1>4, <1>5 DEF IInv

LEMMA InitRight == Init => IInv
<1> SUFFICES ASSUME Init PROVE IInv
  OBVIOUS
<1>1. 0 \in Address /\ Null = [in |-> None, at |-> 0] /\ Top \in Nat /\ MaxCalls \in Nat
  BY DumpsAssumption DEF Null, Address
<1>2. FilesInv
  BY DEF Init, FilesInv, FilesRight
<1>3. Typed(NoStream) /\ GapOrEnd(NoStream) /\ eof(NoStream) /\ NoStream.memory = Null
  BY <1>1 DEF Typed, StreamType, GapOrEnd, NoStream, eof
<1>4. AtHand(NoStream, 0, {}) /\ Delivered(NoStream, <<>>, {})
  BY <1>3 DEF AtHand, Delivered, NoStream
<1>5. StreamRight(NoStream, <<>>, {}, "idle")
  BY <1>3, <1>4 DEF StreamRight
<1>6. AnswerRight(NoAnswer, {}) /\ ThrowRight("idle", 0, {})
  BY DEF AnswerRight, NoAnswer, ThrowRight
<1> QED
  BY <1>1, <1>2, <1>3, <1>5, <1>6 DEF Init, IInv

(* A call that is answered at once.                                        *)
LEMMA AnsweredKeeps ==
    ASSUME IInv, NEW call, NEW a \in Address, NEW asked, NEW r, NEW memory, NEW size,
           Answered(call, a, asked, r, memory, size),
           Taken(r.load),
           ~r.load.throws => AnswerRight([call |-> call, address |-> a, asked |-> asked,
                                          memory |-> memory, size |-> size], r.load.files)
    PROVE  IInv'
<1>1. /\ pc = "idle" /\ calls < MaxCalls /\ calls' = calls + 1
      /\ files' = r.load.files /\ lasts' = r.load.lasts /\ symbols' = r.load.symbols
      /\ dump' = dump /\ stream' = stream /\ left' = left /\ out' = out
  BY DEF Answered, Call, Loading, streamVars
<1>2. files \subseteq files' /\ FilesRight(files', lasts') /\ symbols' \in SUBSET Address
  BY <1>1 DEF Taken
<1>3. calls' \in 0 .. MaxCalls
  BY <1>1, DumpsAssumption DEF IInv
<1>4. CASE r.load.throws
  <2>1. pc' = "thrown" /\ culprit' = r.load.at /\ answer' = NoAnswer
    BY <1>4 DEF Answered, Loading
  <2>2. AnswerRight(answer', files')
    BY <2>1 DEF AnswerRight, NoAnswer
  <2>3. ThrowRight(pc', culprit', files')
    BY <1>1, <1>4, <2>1 DEF ThrowRight, Taken
  <2>4. StreamRight(stream', out', files', pc')
    BY <1>1, <1>2, <2>1, StreamKept DEF IInv
  <2> QED
    BY <1>1, <1>2, <1>3, <1>4, <2>1, <2>2, <2>3, <2>4, NextState DEF IInv, Taken
<1>5. CASE ~r.load.throws
  <2>1. /\ pc' = "idle" /\ culprit' = culprit
        /\ answer' = [call |-> call, address |-> a, asked |-> asked, memory |-> memory, size |-> size]
    BY <1>5 DEF Answered, Loading
  <2>2. AnswerRight(answer', files')
    BY <1>1, <1>5, <2>1
  <2>3. ThrowRight(pc', culprit', files')
    BY <2>1 DEF ThrowRight
  <2>4. StreamRight(stream', out', files', pc')
    BY <1>1, <1>2, <2>1, StreamKept DEF IInv
  <2>5. pc' = "idle" /\ left' > 0 => eof(stream')
    BY <1>1 DEF IInv
  <2> QED
    BY <1>1, <1>2, <1>3, <2>1, <2>2, <2>3, <2>4, <2>5, NextState DEF IInv
<1> QED
  BY <1>4, <1>5

LEMMA FindRangeKeeps ==
    ASSUME IInv, NEW a \in Address, NEW n \in Lengths, FindRange(a, n)
    PROVE  IInv'
<1> DEFINE r == find_memory_range(a, n, TRUE)
           size == IF r.got.memory = Null THEN 0 ELSE r.got.size
           x == [call |-> "find", address |-> a, asked |-> n,
                 memory |-> r.got.memory, size |-> size]
<1>1. Answered("find", a, n, r, r.got.memory, size)
  BY DEF FindRange
<1>2. n \in Address \ {0} /\ a \in Nat /\ n \in Nat /\ Top \in Nat
  BY DumpsAssumption DEF Address
<1>3. /\ Taken(r.load)
      /\ ~r.load.throws => /\ AllReadable(r.got, a, n, r.load.files)
                           /\ r.got.memory # Null => r.got.size \in Nat
  BY <1>2, FindMemoryRange DEF IInv
<1> HIDE DEF r
<1>4. ASSUME ~r.load.throws, a + n <= Top, NEW b \in a .. a + size - 1 PROVE Readable(r.load.files, b)
  <2>1. r.got.memory # Null /\ r.got.size \in Nat /\ size = r.got.size
    BY <1>2, <1>3, <1>4
  <2>2. b - a \in 0 .. r.got.size - 1 /\ a + (b - a) = b
    BY <1>2, <1>4, <2>1
  <2>3. Readable(r.load.files, a + (b - a))
    BY <1>3, <1>4, <2>1, <2>2 DEF AllReadable
  <2> QED
    BY <2>2, <2>3
<1>5. ~r.load.throws => AnswerRight(x, r.load.files)
  BY <1>2, <1>4 DEF AnswerRight, ReachesTop
<1> QED
  BY <1>1, <1>3, <1>5, AnsweredKeeps

LEMMA ReadProcessKeeps ==
    ASSUME IInv, NEW a \in Address, NEW n \in Lengths, NEW enable, ReadProcess(a, n, enable)
    PROVE  IInv'
<1> DEFINE r == IF validate_range(a, n) THEN do_read_process_memory(a, n, enable)
                ELSE [got |-> Found(Null, 0), load |-> NoLoad]
           size == IF r.got.memory = Null THEN 0 ELSE r.got.size
           x == [call |-> "read", address |-> a, asked |-> n,
                 memory |-> r.got.memory, size |-> size]
<1>1. Answered("read", a, n, r, r.got.memory, size)
  BY DEF ReadProcess
<1>2. n \in Address \ {0} /\ a \in Nat /\ n \in Nat /\ Top \in Nat
  BY DumpsAssumption DEF Address
<1>3. /\ Taken(r.load)
      /\ ~r.load.throws => Right(r.got, a, n, r.load.files, TRUE)
      /\ r.got.memory # Null => a + n <= Top
  <2>1. CASE validate_range(a, n)
    <3>1. a + n <= Top
      BY <1>2, <2>1 DEF validate_range
    <3>2. r = do_read_process_memory(a, n, enable)
      BY <2>1
    <3> HIDE DEF r
    <3> QED
      BY <1>2, <3>1, <3>2, ReadProcessMemory DEF IInv
  <2>2. CASE ~validate_range(a, n)
    <3>1. r.got.memory = Null /\ r.load = NoLoad
      BY <2>2 DEF Found
    <3>2. Taken(NoLoad)
      BY DEF Taken, NoLoad, IInv, FilesInv
    <3> HIDE DEF r
    <3> QED
      BY <3>1, <3>2 DEF Right
  <2> QED
    BY <2>1, <2>2
<1> HIDE DEF r
<1>4. ~r.load.throws => x.size <= x.asked
  BY <1>2, <1>3 DEF Right
<1>5. ASSUME ~r.load.throws, NEW i \in 0 .. size - 1
      PROVE  Stored(r.load.files, [r.got.memory EXCEPT !.at = @ + i], a + i)
  <2>1. r.got.memory # Null /\ size = r.got.size /\ r.got.size \in Nat
    BY <1>3, <1>5 DEF Right
  <2>2. r.got.memory \in Pointers /\ Bytes(r.load.files, r.got.memory, r.got.size, a)
    BY <1>3, <1>5, <2>1 DEF Right
  <2>3. Stored(r.load.files, Pointer(r.got.memory.in, r.got.memory.at + i), a + i)
    BY <1>5, <2>1, <2>2 DEF Bytes
  <2>4. [r.got.memory EXCEPT !.at = @ + i] = Pointer(r.got.memory.in, r.got.memory.at + i)
    BY <2>2 DEF Pointers, Pointer
  <2> QED
    BY <2>3, <2>4
<1>6. ~r.load.throws => AnswerRight(x, r.load.files)
  BY <1>4, <1>5 DEF AnswerRight
<1> QED
  BY <1>1, <1>3, <1>6, AnsweredKeeps

LEMMA ModuleBaseKeeps ==
    ASSUME IInv, NEW a \in Address, ModuleBase(a)
    PROVE  IInv'
<1> DEFINE ms == find_module(a)
           us == IF ms = {} THEN find_unloaded_module(a) ELSE ms
           r == [load |-> [NoLoad EXCEPT !.symbols = symbols \cup Bases(us)]]
           size == IF us = {} THEN 0 ELSE Max(Bases(us))
           x == [call |-> "base", address |-> a, asked |-> 0, memory |-> Null, size |-> size]
<1>1. Answered("base", a, 0, r, Null, size)
  BY DEF ModuleBase
<1>2. /\ r.load.files = files /\ r.load.lasts = lasts /\ ~r.load.throws
      /\ r.load.symbols = symbols \cup Bases(us)
  BY DEF NoLoad
<1>3. Bases(us) \in SUBSET Address
  BY FoundModule DEF IInv
<1> HIDE DEF r, us, size
<1>4. Taken(r.load)
  BY <1>2, <1>3 DEF Taken, IInv, FilesInv
<1>5. AnswerRight(x, r.load.files)
  BY DEF AnswerRight
<1> QED
  BY <1>1, <1>2, <1>4, <1>5, AnsweredKeeps

(* A range that a stream goes on with, at its start or at a seam.          *)
LEMMA NextRange ==
    ASSUME dump \in Dumps, FilesInv,
           NEW start \in Address, NEW current \in Address, NEW end \in Address,
           NEW size \in Address \ {0}, NEW n,
           start <= end => current = start + n /\ current + size <= end
    PROVE  LET r == get_process_memory_range(current, size, TRUE)
               s == [start |-> start, current |-> current, end |-> end,
                     memory |-> r.got.memory, end_memory |-> r.got.memory.at + r.got.size]
           IN  ~r.load.throws => Typed(s) /\ GapOrEnd(s) /\ AtHand(s, n, r.load.files)
<1> DEFINE r == get_process_memory_range(current, size, TRUE)
           s == [start |-> start, current |-> current, end |-> end,
                 memory |-> r.got.memory, end_memory |-> r.got.memory.at + r.got.size]
<1> SUFFICES ASSUME ~r.load.throws
             PROVE  Typed(s) /\ GapOrEnd(s) /\ AtHand(s, n, r.load.files)
  OBVIOUS
<1>1. /\ Right(r.got, current, size, r.load.files, Ordered)
      /\ r.got.memory = Null => r.got.size = size /\ ~InDump(current)
  BY ProcessRange
<1>2. Top \in Nat /\ start \in Nat /\ current \in Nat /\ end \in Nat /\ end <= Top /\ size \in Nat
  BY DumpsAssumption DEF Address
<1> HIDE DEF r
<1> DEFINE m == r.got.memory
<1>3. CASE m = Null
  <2>1. m.at + r.got.size \in Nat
    BY <1>1, <1>2, <1>3 DEF Null
  <2> HIDE DEF m
  <2>2. Typed(s)
    BY <1>3, <2>1 DEF Typed, StreamType, m
  <2>3. GapOrEnd(s)
    BY <1>1, <1>3 DEF GapOrEnd, m
  <2>4. AtHand(s, n, r.load.files)
    BY <1>2, <1>3 DEF AtHand, m
  <2> QED
    BY <2>2, <2>3, <2>4 DEF r, m
<1>4. CASE m # Null
  <2>1. m \in Pointers /\ r.got.size \in Nat
    BY <1>1, <1>4 DEF Right
  <2>2. m.at \in Nat
    BY <2>1 DEF Pointers, Pointer
  <2>3. (m.at + r.got.size) - m.at = r.got.size /\ m.at + r.got.size \in Nat
        /\ m.at <= m.at + r.got.size
    BY <2>1, <2>2
  <2> HIDE DEF m
  <2>4. Typed(s)
    BY <2>1, <2>3 DEF Typed, StreamType, m
  <2>5. GapOrEnd(s)
    BY <1>4 DEF GapOrEnd, m
  <2>6. ASSUME start <= end
        PROVE  /\ current = start + n /\ current <= end /\ current + r.got.size <= end
               /\ Ordered => Bytes(r.load.files, m, r.got.size, current)
    <3>1. current + size <= Top
      BY <1>2, <2>6
    <3>2. r.got.size <= size /\ (Ordered => Bytes(r.load.files, m, r.got.size, current))
      BY <1>1, <1>4, <3>1 DEF Right, m
    <3> QED
      BY <1>2, <2>1, <2>6, <3>2
  <2>7. AtHand(s, n, r.load.files)
    BY <2>3, <2>6 DEF AtHand, m
  <2> QED
    BY <2>4, <2>5, <2>7 DEF r, m
<1> QED
  BY <1>3, <1>4

LEMMA OpenStreamKeeps ==
    ASSUME IInv, NEW a \in Address, NEW n \in Lengths, OpenStream(a, n)
    PROVE  IInv'
<1> DEFINE r == get_process_memory_range(a, n, TRUE)
           s == [start |-> a, current |-> a, end |-> Wrap(a + n),
                 memory |-> r.got.memory, end_memory |-> r.got.memory.at + r.got.size]
<1>1. /\ pc = "idle" /\ calls < MaxCalls /\ calls' = calls + 1
      /\ files' = r.load.files /\ lasts' = r.load.lasts /\ symbols' = r.load.symbols
      /\ culprit' = IF r.load.throws THEN r.load.at ELSE culprit
      /\ pc' = IF r.load.throws THEN "thrown" ELSE "idle"
      /\ stream' = IF r.load.throws THEN stream ELSE s
      /\ left' = 0 /\ out' = <<>> /\ dump' = dump /\ answer' = answer
  BY DEF OpenStream, Call, Loading
<1>2. n \in Address \ {0} /\ a \in Nat /\ n \in Nat /\ n <= Top /\ Top \in Nat /\ 0 \in Address
  BY DumpsAssumption DEF Address
<1>3. Taken(r.load)
  BY <1>2, ProcessRange DEF IInv
<1>4. ASSUME a <= Wrap(a + n) PROVE a = a + 0 /\ a + n <= Wrap(a + n)
  <2>1. CASE a + n <= Top
    BY <1>2, <2>1, WrapLow DEF Address
  <2>2. CASE a + n > Top
    <3>1. a <= Top
      BY DumpsAssumption DEF Address
    <3>2. Wrap(a + n) = a + n - Top - 1
      BY <1>2, <2>2, <3>1, WrapHigh
    <3> QED
      BY <1>2, <1>4, <3>2
  <2> QED
    BY <1>2, <2>1, <2>2
<1>5. Wrap(a + n) \in Address
  BY <1>2, WrapAddress
<1>6. ~r.load.throws => Typed(s) /\ GapOrEnd(s) /\ AtHand(s, 0, r.load.files)
  BY <1>2, <1>4, <1>5, NextRange DEF IInv
<1> HIDE DEF r, s
<1>7. files \subseteq files' /\ FilesRight(files', lasts') /\ symbols' \in SUBSET Address
  BY <1>1, <1>3 DEF Taken
<1>8. calls' \in 0 .. MaxCalls
  BY <1>1, DumpsAssumption DEF IInv
<1>9. AnswerRight(answer', files')
  BY <1>1, <1>7, AnswerKept DEF IInv
<1>10. \A q : Delivered(q, <<>>, files')
  BY DEF Delivered
<1>11. <<>> \in Seq(Pointers) /\ Len(<<>>) = 0 /\ ~(left' > 0)
  BY <1>1
<1>12. CASE r.load.throws
  <2>1. StreamRight(stream', out', files', pc')
    BY <1>1, <1>10, <1>11, <1>12 DEF StreamRight, IInv
  <2>2. ThrowRight(pc', culprit', files')
    BY <1>1, <1>3, <1>12 DEF ThrowRight, Taken
  <2> QED
    BY <1>1, <1>2, <1>3, <1>7, <1>8, <1>9, <1>11, <1>12, <2>1, <2>2, NextState DEF IInv, Taken
<1>13. CASE ~r.load.throws
  <2>1. StreamRight(stream', out', files', pc')
    BY <1>1, <1>6, <1>10, <1>11, <1>13 DEF StreamRight
  <2>2. ThrowRight(pc', culprit', files')
    BY <1>1, <1>13 DEF ThrowRight
  <2> QED
    BY <1>1, <1>2, <1>7, <1>8, <1>9, <1>11, <1>13, <2>1, <2>2, NextState DEF IInv
<1> QED
  BY <1>12, <1>13

LEMMA BeginReadKeeps ==
    ASSUME IInv, NEW n \in Lengths, BeginRead(n)
    PROVE  IInv'
<1>1. /\ pc = "idle" /\ calls < MaxCalls /\ calls' = calls + 1
      /\ pc' = "reading" /\ left' = n
      /\ files' = files /\ lasts' = lasts /\ symbols' = symbols
      /\ dump' = dump /\ stream' = stream /\ out' = out /\ answer' = answer /\ culprit' = culprit
  BY DEF BeginRead, Call, loadVars
<1>2. n \in Address /\ calls' \in 0 .. MaxCalls
  BY <1>1, DumpsAssumption DEF IInv
<1>3. StreamRight(stream', out', files', pc') /\ AnswerRight(answer', files')
  BY <1>1, StreamKept DEF IInv
<1>4. ThrowRight(pc', culprit', files')
  BY <1>1 DEF ThrowRight
<1> QED
  BY <1>1, <1>2, <1>3, <1>4, NextState DEF IInv, FilesInv

LEMMA EndReadKeeps ==
    ASSUME IInv, EndRead
    PROVE  IInv'
<1>1. /\ pc = "reading" /\ (left = 0 \/ eof(stream))
      /\ pc' = "idle" /\ left' = left /\ calls' = calls
      /\ files' = files /\ lasts' = lasts /\ symbols' = symbols
      /\ dump' = dump /\ stream' = stream /\ out' = out /\ answer' = answer /\ culprit' = culprit
  BY DEF EndRead, loadVars, streamVars
<1>2. StreamRight(stream', out', files', pc') /\ AnswerRight(answer', files')
  BY <1>1, StreamKept DEF IInv
<1>3. ThrowRight(pc', culprit', files')
  BY <1>1 DEF ThrowRight
<1>4. pc' = "idle" /\ left' > 0 => eof(stream')
  BY <1>1
<1> QED
  BY <1>1, <1>2, <1>3, <1>4, NextState DEF IInv, FilesInv

(* A turn of process_data's loop: the bytes at hand are delivered before   *)
(* the stream goes on.                                                     *)
LEMMA Copy ==
    ASSUME Typed(stream), stream.memory # Null, out \in Seq(Pointers),
           Delivered(stream, out, files), AtHand(stream, Len(out), files),
           NEW n \in Nat, n <= stream.end_memory - stream.memory.at
    PROVE  LET moved == [stream EXCEPT !.current = Wrap(@ + n), !.memory.at = @ + n]
               o == out \o [i \in 1 .. n |-> Pointer(stream.memory.in, stream.memory.at + i - 1)]
           IN  /\ Typed(moved) /\ moved.memory # Null /\ o \in Seq(Pointers)
               /\ Delivered(moved, o, files) /\ AtHand(moved, Len(o), files)
<1> DEFINE moved == [stream EXCEPT !.current = Wrap(@ + n), !.memory.at = @ + n]
           more == [i \in 1 .. n |-> Pointer(stream.memory.in, stream.memory.at + i - 1)]
           o == out \o more
<1>1. /\ Top \in Nat /\ stream.start \in Nat /\ stream.current \in Nat
      /\ stream.end \in Nat /\ stream.end <= Top /\ stream.end_memory \in Nat
      /\ stream.start \in Address /\ stream.end \in Address
  BY DumpsAssumption DEF Typed, StreamType, Address
<1>2. PICK in \in Address, at \in Nat : stream.memory = Pointer(in, at)
  BY DEF Typed, StreamType, Pointers
<1>3. stream.memory.in = in /\ stream.memory.at = at /\ at + n <= stream.end_memory
  BY <1>1, <1>2 DEF Pointer
<1>4. moved = [start |-> stream.start, current |-> Wrap(stream.current + n), end |-> stream.end,
               memory |-> Pointer(in, at + n), end_memory |-> stream.end_memory]
  <2>1. stream = [start |-> stream.start, current |-> stream.current, end |-> stream.end,
                  memory |-> stream.memory, end_memory |-> stream.end_memory]
    BY DEF Typed, StreamType
  <2>2. [stream.memory EXCEPT !.at = @ + n] = Pointer(in, at + n)
    BY <1>2 DEF Pointer
  <2> DEFINE c == Wrap(stream.current + n)
             m == [stream.memory EXCEPT !.at = @ + n]
  <2>3. moved = [stream EXCEPT !.current = c, !.memory = m]
    BY <2>1
  <2> HIDE DEF moved, c, m
  <2>4. moved = [start |-> stream.start, current |-> c, end |-> stream.end,
                 memory |-> m, end_memory |-> stream.end_memory]
    BY <2>1, <2>3
  <2> QED
    BY <2>2, <2>4 DEF c, m
<1>5. /\ moved.start = stream.start /\ moved.end = stream.end
      /\ moved.current = Wrap(stream.current + n)
      /\ moved.memory = Pointer(in, at + n) /\ moved.end_memory = stream.end_memory
  BY <1>4
<1>6. moved.memory # Null /\ moved.memory.in = in /\ moved.memory.at = at + n
  BY <1>5, PointerNotNull DEF Pointer
<1> HIDE DEF moved
<1>7. Typed(moved)
  <2>1. Wrap(stream.current + n) \in Address
    BY <1>1, WrapAddress
  <2>2. Pointer(in, at + n) \in Pointers
    BY DEF Pointers
  <2> QED
    BY <1>1, <1>3, <1>4, <1>6, <2>1, <2>2 DEF Typed, StreamType
<1>8. more \in Seq(Pointers) /\ Len(more) = n
  <2>1. \A i \in 1 .. n : Pointer(in, at + i - 1) \in Pointers
    BY DEF Pointers
  <2> QED
    BY <1>3, <2>1
<1>9. /\ o \in Seq(Pointers) /\ Len(o) = Len(out) + n /\ Len(out) \in Nat
      /\ \A i \in 1 .. Len(out) : o[i] = out[i]
      /\ \A i \in 1 .. n : o[Len(out) + i] = more[i]
  <2> HIDE DEF more
  <2> QED
    BY <1>8
<1>10. ASSUME stream.start <= stream.end
       PROVE  /\ stream.current = stream.start + Len(out)
              /\ stream.current + (stream.end_memory - at) <= stream.end
              /\ Ordered => \A k \in 0 .. (stream.end_memory - at) - 1 :
                              Stored(files, Pointer(in, at + k), stream.current + k)
              /\ moved.current = stream.current + n
  <2>1. /\ stream.current = stream.start + Len(out)
        /\ stream.current + (stream.end_memory - at) <= stream.end
        /\ Ordered => Bytes(files, stream.memory, stream.end_memory - at, stream.current)
    BY <1>3, <1>10 DEF AtHand
  <2>2. stream.current + n \in Address
    <3> DEFINE c == stream.current
               e == stream.end
               em == stream.end_memory
    <3>1. c \in Nat /\ e \in Nat /\ em \in Nat /\ e <= Top /\ c + (em - at) <= e /\ at + n <= em
      BY <1>1, <1>3, <2>1
    <3> HIDE DEF c, e, em
    <3>2. c + n \in Nat /\ c + n <= Top
      BY <1>1, <3>1
    <3> QED
      BY <1>1, <3>2 DEF c, Address
  <2> QED
    BY <1>3, <1>5, <2>1, <2>2, WrapLow DEF Bytes
<1>11. ASSUME Ordered, stream.start <= stream.end, NEW i \in 1 .. Len(o)
       PROVE  Stored(files, o[i], stream.start + (i - 1))
  <2>1. CASE i <= Len(out)
    <3>1. i \in 1 .. Len(out) /\ o[i] = out[i]
      BY <1>9, <2>1
    <3> HIDE DEF o
    <3> QED
      BY <1>11, <3>1 DEF Delivered
  <2>2. CASE i > Len(out)
    <3> DEFINE k == (i - Len(out)) - 1
    <3>1. i - Len(out) \in 1 .. n /\ Len(out) + (i - Len(out)) = i
      BY <1>9, <2>2
    <3>2. o[i] = more[i - Len(out)]
      <4> HIDE DEF o, more
      <4> QED
        BY <1>9, <3>1
    <3>3. more[i - Len(out)] = Pointer(in, at + k)
      BY <1>3, <3>1
    <3>4. k \in 0 .. (stream.end_memory - at) - 1
      BY <1>1, <1>3, <1>9, <3>1
    <3>5. stream.current + k = stream.start + (i - 1)
      BY <1>1, <1>9, <1>10, <1>11
    <3> HIDE DEF o, more, k
    <3>6. Stored(files, Pointer(in, at + k), stream.current + k)
      BY <1>10, <1>11, <3>4
    <3> QED
      BY <3>2, <3>3, <3>5, <3>6
  <2> QED
    BY <1>9, <2>1, <2>2
<1>12. Delivered(moved, o, files)
  <2> HIDE DEF o
  <2> QED
    BY <1>5, <1>11 DEF Delivered
<1>13. AtHand(moved, Len(o), files)
  <2> SUFFICES ASSUME stream.start <= stream.end
      PROVE  /\ moved.current = stream.start + Len(o) /\ moved.current <= stream.end
             /\ moved.current + (stream.end_memory - (at + n)) <= stream.end
             /\ Ordered => Bytes(files, moved.memory, stream.end_memory - (at + n), moved.current)
    BY <1>5, <1>6 DEF AtHand
  <2>1. /\ moved.current = stream.start + Len(o) /\ moved.current <= stream.end
        /\ moved.current + (stream.end_memory - (at + n)) <= stream.end
    <3> DEFINE c == stream.current
               e == stream.end
               em == stream.end_memory
               done == Len(out)
               all == Len(o)
               mc == moved.current
               s == stream.start
    <3>1. /\ c \in Nat /\ e \in Nat /\ em \in Nat /\ done \in Nat /\ s \in Nat
          /\ all = done + n /\ mc = c + n /\ c = s + done
          /\ c + (em - at) <= e /\ at + n <= em
      <4> HIDE DEF o
      <4> QED
        BY <1>1, <1>3, <1>9, <1>10
    <3> HIDE DEF c, e, em, done, all, mc, s
    <3>2. mc = s + all /\ mc <= e /\ mc + (em - (at + n)) <= e
      BY <3>1
    <3> QED
      BY <3>2 DEF c, e, em, done, all, mc, s
  <2>2. ASSUME Ordered, NEW k \in 0 .. (stream.end_memory - (at + n)) - 1
        PROVE  Stored(files, Pointer(in, (at + n) + k), moved.current + k)
    <3>1. n + k \in 0 .. (stream.end_memory - at) - 1
      BY <1>1, <1>3
    <3>2. Stored(files, Pointer(in, at + (n + k)), stream.current + (n + k))
      BY <1>10, <2>2, <3>1
    <3>3. at + (n + k) = (at + n) + k /\ stream.current + (n + k) = moved.current + k
      BY <1>1, <1>10, <3>1
    <3> QED
      BY <3>2, <3>3
  <2>3. Ordered => Bytes(files, moved.memory, stream.end_memory - (at + n), moved.current)
    BY <1>6, <2>2 DEF Bytes
  <2> QED
    BY <2>1, <2>3
<1> QED
  BY <1>6, <1>7, <1>9, <1>12, <1>13 DEF moved

LEMMA ChunkKeeps ==
    ASSUME IInv, Chunk
    PROVE  IInv'
<1> DEFINE n == Min({left, stream.end_memory - stream.memory.at})
           moved == [stream EXCEPT !.current = Wrap(@ + n), !.memory.at = @ + n]
           o == out \o [i \in 1 .. n |-> Pointer(stream.memory.in, stream.memory.at + i - 1)]
           r == get_process_memory_range(moved.current, Minus(moved.end, moved.current), TRUE)
           next == [moved EXCEPT !.memory = r.got.memory,
                                 !.end_memory = r.got.memory.at + r.got.size]
<1>1. /\ pc = "reading" /\ left > 0 /\ ~eof(stream)
      /\ left' = left - n /\ out' = o /\ dump' = dump /\ answer' = answer /\ calls' = calls
      /\ \/ /\ ~at_seam(moved) /\ stream' = moved
            /\ files' = files /\ lasts' = lasts /\ symbols' = symbols
            /\ culprit' = culprit /\ pc' = pc
         \/ /\ at_seam(moved)
            /\ files' = r.load.files /\ lasts' = r.load.lasts /\ symbols' = r.load.symbols
            /\ culprit' = IF r.load.throws THEN r.load.at ELSE culprit
            /\ pc' = IF r.load.throws THEN "thrown" ELSE pc
            /\ stream' = IF r.load.throws THEN moved ELSE next
  <2> DEFINE Behind(m) == get_process_memory_range(m.current, Minus(m.end, m.current), TRUE)
             GoesOn(m, q) ==
               /\ Loading(q.load)
               /\ pc' = IF q.load.throws THEN "thrown" ELSE pc
               /\ stream' = IF q.load.throws THEN m
                            ELSE [m EXCEPT !.memory = q.got.memory,
                                           !.end_memory = q.got.memory.at + q.got.size]
             Turn(c, m) ==
               /\ left' = left - c
               /\ out' = out \o [i \in 1 .. c |-> Pointer(stream.memory.in, stream.memory.at + i - 1)]
               /\ IF ~at_seam(m) THEN stream' = m /\ UNCHANGED <<loadVars, culprit, pc>>
                  ELSE \E q \in {Behind(m)} : GoesOn(m, q)
             Moved(c) == [stream EXCEPT !.current = Wrap(@ + c), !.memory.at = @ + c]
  <2>1. /\ pc = "reading" /\ left > 0 /\ ~eof(stream)
        /\ dump' = dump /\ answer' = answer /\ calls' = calls
        /\ \E c \in {n} : \E m \in {Moved(c)} : Turn(c, m)
    BY DEF Chunk
  <2> HIDE DEF Turn
  <2>2. Turn(n, moved)
    <3> HIDE DEF n
    <3> QED
      BY <2>1
  <2>3. /\ left' = left - n /\ out' = o
        /\ IF ~at_seam(moved) THEN stream' = moved /\ UNCHANGED <<loadVars, culprit, pc>>
           ELSE GoesOn(moved, r)
    <3> HIDE DEF n, moved, GoesOn
    <3> QED
      BY <2>2 DEF Turn
  <2> HIDE DEF n, moved, o, r
  <2> QED
    BY <2>1, <2>3 DEF Loading, loadVars
<1>2. /\ Typed(stream) /\ out \in Seq(Pointers) /\ Delivered(stream, out, files)
      /\ AtHand(stream, Len(out), files) /\ stream.memory # Null
  BY <1>1 DEF IInv, StreamRight, eof
<1>3. Top \in Nat /\ left \in Nat /\ left <= Top
  BY DumpsAssumption DEF IInv, Address
<1>4. n \in Nat /\ n <= left /\ n <= stream.end_memory - stream.memory.at
  <2>1. stream.memory.at \in Nat /\ stream.end_memory \in Nat
        /\ stream.memory.at <= stream.end_memory
    BY <1>2 DEF Typed, StreamType, Pointers, Pointer
  <2>2. {left, stream.end_memory - stream.memory.at} \in SUBSET Nat
    BY <1>3, <2>1
  <2> QED
    BY <1>3, <2>1, <2>2, MinNat
<1> HIDE DEF n
<1>5. /\ Typed(moved) /\ moved.memory # Null /\ o \in Seq(Pointers)
      /\ Delivered(moved, o, files) /\ AtHand(moved, Len(o), files)
  BY <1>2, <1>4, Copy
<1> HIDE DEF o, moved, r
<1>6. left' \in Address
  BY <1>1, <1>3, <1>4 DEF Address
<1>7. StreamRight(moved, o, files, "reading") /\ GapOrEnd(moved)
  BY <1>5 DEF StreamRight, GapOrEnd
<1>8. CASE /\ ~at_seam(moved) /\ stream' = moved
           /\ files' = files /\ lasts' = lasts /\ symbols' = symbols
           /\ culprit' = culprit /\ pc' = pc
  <2>1. StreamRight(stream', out', files', pc') /\ AnswerRight(answer', files')
    BY <1>1, <1>7, <1>8 DEF IInv
  <2>2. ThrowRight(pc', culprit', files')
    BY <1>1, <1>8 DEF ThrowRight
  <2> QED
    BY <1>1, <1>6, <1>8, <2>1, <2>2, NextState DEF IInv, FilesInv
<1>9. CASE /\ at_seam(moved)
           /\ files' = r.load.files /\ lasts' = r.load.lasts /\ symbols' = r.load.symbols
           /\ culprit' = IF r.load.throws THEN r.load.at ELSE culprit
           /\ pc' = IF r.load.throws THEN "thrown" ELSE pc
           /\ stream' = IF r.load.throws THEN moved ELSE next
  <2> DEFINE size == Minus(moved.end, moved.current)
  <2>1. /\ moved.start \in Address /\ moved.end \in Address /\ moved.current \in Address
        /\ moved.end # moved.current
    BY <1>5, <1>9 DEF Typed, StreamType, at_seam, eof
  <2>2. /\ size \in Address \ {0}
        /\ moved.current <= moved.end => moved.current + size <= moved.end
    <3> DEFINE e == moved.end
               c == moved.current
    <3>1. e \in Nat /\ c \in Nat /\ e <= Top /\ c <= Top /\ e # c
      BY <1>3, <2>1 DEF Address
    <3> HIDE DEF e, c
    <3>2. CASE c < e
      <4>1. e + Top + 1 - c \in Nat /\ e + Top + 1 - c > Top /\ e + Top + 1 - c <= Top + Top + 1
        BY <1>3, <3>1, <3>2
      <4>2. Minus(e, c) = e - c
        BY <1>3, <3>1, <4>1, WrapHigh DEF Minus
      <4> QED
        BY <1>3, <3>1, <3>2, <4>2 DEF Address, e, c
    <3>3. CASE e < c
      <4>1. e + Top + 1 - c \in Address
        BY <1>3, <3>1, <3>3 DEF Address
      <4>2. Minus(e, c) = e + Top + 1 - c
        BY <4>1, WrapLow DEF Minus
      <4> QED
        BY <1>3, <3>1, <3>3, <4>2 DEF Address, e, c
    <3> QED
      BY <3>1, <3>2, <3>3
  <2>3. r = get_process_memory_range(moved.current, size, TRUE)
    BY DEF r
  <2>4. Taken(r.load)
    <3> HIDE DEF size
    <3> QED
      BY <2>1, <2>2, <2>3, ProcessRange DEF IInv
  <2>5. next = [start |-> moved.start, current |-> moved.current, end |-> moved.end,
                memory |-> r.got.memory, end_memory |-> r.got.memory.at + r.got.size]
    <3>1. moved = [start |-> moved.start, current |-> moved.current, end |-> moved.end,
                   memory |-> moved.memory, end_memory |-> moved.end_memory]
      BY <1>5 DEF Typed, StreamType
    <3> DEFINE m == r.got.memory
               e == r.got.memory.at + r.got.size
    <3>2. next = [moved EXCEPT !.memory = m, !.end_memory = e]
      OBVIOUS
    <3> HIDE DEF next, m, e
    <3>3. next = [start |-> moved.start, current |-> moved.current, end |-> moved.end,
                  memory |-> m, end_memory |-> e]
      BY <3>1, <3>2
    <3> QED
      BY <3>3 DEF m, e
  <2>6. moved.start <= moved.end => /\ moved.current = moved.start + Len(o)
                                    /\ moved.current + size <= moved.end
    BY <1>5, <2>2 DEF AtHand
  <2>7. ~r.load.throws => Typed(next) /\ GapOrEnd(next) /\ AtHand(next, Len(o), r.load.files)
    <3> HIDE DEF size, next
    <3>1. dump \in Dumps /\ FilesInv
      BY DEF IInv
    <3> QED
      BY <2>1, <2>2, <2>3, <2>5, <2>6, <3>1, NextRange
  <2> HIDE DEF next, size
  <2>8. files \subseteq files' /\ FilesRight(files', lasts') /\ symbols' \in SUBSET Address
    BY <1>9, <2>4 DEF Taken
  <2>9. AnswerRight(answer', files')
    BY <1>1, <2>8, AnswerKept DEF IInv
  <2>10. StreamRight(moved, o, files', "reading")
    BY <1>7, <2>8, StreamKept
  <2>11. CASE r.load.throws
    <3>1. pc' = "thrown" /\ stream' = moved /\ culprit' = r.load.at
      BY <1>9, <2>11
    <3>2. StreamRight(stream', out', files', pc')
      BY <1>1, <2>10, <3>1 DEF StreamRight
    <3>3. ThrowRight(pc', culprit', files')
      BY <1>9, <2>4, <2>11, <3>1 DEF ThrowRight, Taken
    <3> QED
      BY <1>1, <1>6, <2>4, <2>8, <2>9, <2>11, <3>1, <3>2, <3>3, NextState DEF IInv, Taken
  <2>12. CASE ~r.load.throws
    <3>1. pc' = "reading" /\ stream' = next /\ culprit' = culprit
      BY <1>1, <1>9, <2>12
    <3>2. Delivered(next, o, files')
      <4>1. next.start = moved.start /\ next.end = moved.end
        BY <2>5
      <4> QED
        BY <2>10, <4>1 DEF StreamRight, Delivered
    <3>3. StreamRight(stream', out', files', pc')
      BY <1>1, <1>5, <1>9, <2>7, <2>12, <3>1, <3>2 DEF StreamRight
    <3>4. ThrowRight(pc', culprit', files')
      BY <3>1 DEF ThrowRight
    <3> QED
      BY <1>1, <1>6, <2>8, <2>9, <3>1, <3>3, <3>4, NextState DEF IInv
  <2> QED
    BY <2>11, <2>12
<1> QED
  BY <1>1, <1>8, <1>9

LEMMA Invariance == Spec => []IInv
<1>1. IInv /\ [Next]_vars => IInv'
  <2> SUFFICES ASSUME IInv, [Next]_vars PROVE IInv'
    OBVIOUS
  <2>1. CASE UNCHANGED vars
    <3>1. /\ dump' = dump /\ files' = files /\ lasts' = lasts /\ symbols' = symbols
          /\ stream' = stream /\ pc' = pc /\ left' = left /\ out' = out
          /\ answer' = answer /\ culprit' = culprit /\ calls' = calls
      BY <2>1 DEF vars
    <3> QED
      BY <3>1, NextState DEF IInv, FilesInv
  <2>2. ASSUME NEW a \in Address, NEW n \in Lengths,
               \/ OpenStream(a, n) \/ FindRange(a, n)
               \/ \E enable \in BOOLEAN : ReadProcess(a, n, enable)
        PROVE  IInv'
    BY <2>2, OpenStreamKeeps, FindRangeKeeps, ReadProcessKeeps
  <2>3. ASSUME NEW n \in Lengths, BeginRead(n) PROVE IInv'
    BY <2>3, BeginReadKeeps
  <2>4. ASSUME NEW a \in Address, ModuleBase(a) PROVE IInv'
    BY <2>4, ModuleBaseKeeps
  <2> QED
    BY <2>1, <2>2, <2>3, <2>4, ChunkKeeps, EndReadKeeps DEF Next, Stopped
<1> QED
  BY <1>1, InitRight, PTL DEF Spec

-----------------------------------------------------------------------------
(* What the clients may rely on.                                           *)

(* find_memory_range promises nothing that cannot be read, and a plain     *)
(* read delivers the bytes of its addresses, whatever was read, found,     *)
(* opened or loaded before it.                                             *)
THEOREM AnswersStayTrue == Spec => []AnswersTrue
<1>1. IInv => TypeOK
  <2> SUFFICES ASSUME IInv PROVE TypeOK
    OBVIOUS
  <2>1. Top \in Nat /\ dump \in Dumps /\ FilesRight(files, lasts) /\ symbols \in SUBSET Address
    BY DumpsAssumption DEF IInv, FilesInv
  <2>2. \A f \in files : f.base \in Address /\ f.length \in Address
    BY <2>1, FileFacts DEF Address
  <2>3. ASSUME NEW l \in DOMAIN lasts PROVE l \in Address /\ lasts[l] \in Bases(files)
    <3>1. PICK f \in files : l \in Nat /\ f.base = lasts[l] /\ l = f.base + f.length - 1
      BY <2>1 DEF FilesRight
    <3>2. f.base \in Nat /\ f.length \in Nat /\ f.base + f.length <= Top
      BY <2>1, FileFacts
    <3>3. l \in Address
      BY <2>1, <3>1, <3>2 DEF Address
    <3> QED
      BY <3>1, <3>3 DEF Bases
  <2>4. /\ stream.current \in Address /\ stream.end \in Address
        /\ stream.memory # Null => stream.memory.at <= stream.end_memory
    BY DEF IInv, StreamRight, Typed, StreamType
  <2> QED
    BY <2>1, <2>2, <2>3, <2>4 DEF IInv, TypeOK
<1>2. IInv => FoundIsReadable
  BY DEF IInv, AnswerRight, FoundIsReadable, Readable
<1>3. IInv => ReadIsTrue
  BY DEF IInv, AnswerRight, ReadIsTrue, Stored, StoredAt
<1> QED
  BY <1>1, <1>2, <1>3, Invariance, PTL DEF AnswersTrue

(* A stream delivers the bytes of its range and no others, if ranges that  *)
(* follow each other in memory do so in the dump, and it ends before the   *)
(* range only at a byte the dump does not have: across ranges, sources and *)
(* files that are loaded while it is read.                                 *)
THEOREM StreamsStayTrue == Spec => []StreamsTrue
<1>1. IInv => OrderedBytesAreTrue
  <2> SUFFICES ASSUME IInv, Ordered, stream.start <= stream.end, NEW i \in 1 .. Len(out)
               PROVE  StoredAt(out[i], stream.start + i - 1)
    BY DEF OrderedBytesAreTrue, BytesAreTrue, Ordered
  <2>1. Stored(files, out[i], stream.start + (i - 1))
    BY DEF IInv, StreamRight, Delivered
  <2> QED
    BY <2>1 DEF Stored, StoredAt
<1>2. IInv => ShortOnlyAtGaps
  BY DEF IInv, StreamRight, GapOrEnd, ShortOnlyAtGaps, eof
<1> QED
  BY <1>1, <1>2, Invariance, PTL DEF StreamsTrue

(* An exception leaves a read only for an address in a range that the file *)
(* of the dump is cut off in, or for one of an image that neither the dump *)
(* nor the file loaded over its base has, or whose file is none.           *)
THEOREM ThrowsStayBehindFiles == Spec => []ThrowsOnlyBehindFile
<1>1. IInv => ThrowsOnlyBehindFile
  BY DEF IInv, ThrowRight, Blamed, Threw, ThrowsOnlyBehindFile, ImageCutOff
<1> QED
  BY <1>1, Invariance, PTL
===============================================================================
