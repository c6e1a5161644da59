-------------------------------- MODULE Texts ---------------------------------
(* What the texts of a command line, and some of those in the output, mean:    *)
(* numbers of bytes (size_units.h, units.h) and files (filesystem_utils).      *)
(*                                                                             *)
(* A unit is the number of times the one below it was multiplied by Kilo; a    *)
(* size is [count, partial, unit], "3.25mb", or what the user wrote,           *)
(* [count, label], "3mb".  Counts are long longs, Width is 2^64.               *)
(*                                                                             *)
(* A name is a sequence of letters, which stand for both cases.  A path is     *)
(* [is, dump, name, entries]: a "file", a "directory", "other" (something that *)
(* is neither), or "absent", whose name may be a pattern for the entries of    *)
(* its directory; where there is no such directory, it is "nowhere".  What the *)
(* directory has are entries [regular, name, dump].                            *)
EXTENDS Integers, Sequences, FiniteSetsExt
LOCAL INSTANCE SequencesExt

CONSTANTS Kilo,    \* 1024: base_16
          Units,   \* the largest unit: exabytes
          Width

ASSUME UnitsAssumption == Kilo \in Nat \ {0} /\ Units \in Nat /\ Width \in Nat \ {0}

Bare == "no label"
Unknown == "unknown label"
Throws == Width     \* no number of bytes

Scale(unit) == Kilo ^ unit
Signed(n) == LET m == n % Width IN IF 2 * m >= Width THEN m - Width ELSE m
(* Division of numbers that may be negative cuts towards 0.                    *)
Truncated(n, d) == IF n >= 0 THEN n \div d ELSE -((-n) \div d)
length_cast(count, from, to) ==
  IF from >= to THEN Signed(count * Scale(from - to)) ELSE Truncated(count, Scale(to - from))

(* to_string_internal: the first unit of which there is one, and what the unit *)
(* below it has of the rest, in percent.  Of a negative number there is none.  *)
to_wstring(size) ==
  LET rest[u \in 0 .. Units] ==
        IF u = Units THEN Signed(size)
        ELSE rest[u + 1] - length_cast(length_cast(rest[u + 1], 0, u + 1), u + 1, 0)
      count(u) == length_cast(rest[u], 0, u)
      unit == Max({0} \cup {u \in 1 .. Units : count(u) > 0})
      below == IF unit = 0 THEN 0 ELSE length_cast(rest[unit - 1], 0, unit - 1)
  IN  [count |-> count(unit), unit |-> unit,
       partial |-> IF below > 0 THEN (below * 100) \div Kilo ELSE 0]

(* from_wstring: a label no unit has throws.                                   *)
from_wstring(text) ==
  IF text.label = Unknown THEN Throws
  ELSE length_cast(text.count, IF text.label = Bare THEN 0 ELSE text.unit, 0)

-------------------------------------------------------------------------------

(* The loop over the pattern: it ends where the value does, also at a star     *)
(* that could stand for nothing.                                               *)
wildcard_match(value, match) ==
  LET matches[i \in 1 .. Len(value) + 1, j \in 1 .. Len(match) + 1] ==
        IF j > Len(match) THEN i > Len(value)
        ELSE /\ i <= Len(value)
             /\ \/ match[j] = "?" /\ matches[i + 1, j + 1]
                \/ match[j] = "*" /\ (j = Len(match) \/ \E k \in i .. Len(value) : matches[k, j + 1])
                \/ match[j] = value[i] /\ matches[i + 1, j + 1]
  IN  matches[1, 1]

IsPattern(name) == \E i \in DOMAIN name : name[i] \in {"*", "?"}
InvalidPath(path) ==
  \/ path.is \in {"other", "nowhere"}
  \/ path.is = "absent" /\ ~IsPattern(path.name)

FilesOf(path) ==
  IF path.is = "file" THEN <<path.dump>>
  ELSE LET match == IF path.is = "directory" THEN <<"*">> ELSE path.name
           found == SelectSeq(path.entries, LAMBDA e : e.regular /\ wildcard_match(e.name, match))
       IN  [i \in DOMAIN found |-> found[i].dump]

(* enumerate_files: an invalid path ends it unless errors are to be ignored.   *)
enumerate_files(paths, continue) ==
  LET invalid == {i \in DOMAIN paths : InvalidPath(paths[i])}
      end == IF continue \/ invalid = {} THEN Len(paths) ELSE Min(invalid) - 1
      valid == SelectSeq(SubSeq(paths, 1, end), LAMBDA p : ~InvalidPath(p))
  IN  FlattenSeq([i \in DOMAIN valid |-> FilesOf(valid[i])])
===============================================================================
