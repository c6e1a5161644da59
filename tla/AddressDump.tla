----------------------------- MODULE AddressDump ------------------------------
(***************************************************************************)
(* dump_mini_dump_address: what lies at an address, as numbers, as text or *)
(* byte for byte, read from one stream until a null, the end of what was   *)
(* asked for, or the end of the memory.  The job is [kind, request]; a     *)
(* request is the text of the option in pieces, [mark, value]: an address, *)
(* "-" and a size, "!" and what to show it as, [as, length, row].  The      *)
(* breaks between rows are left out.  (A request with "$" and a type is a  *)
(* job of VariableDump.)                                                   *)
(***************************************************************************)
EXTENDS TypeTable

CONSTANTS
    MaxSize,    \* the size of a stream that has no size given: behind every address
    Break       \* the new line behind a text

VARIABLES
    reader,     \* [at, size, show, stream, index, null, ended]: the loop under way
    printed     \* what was printed: values of the memory, and breaks

addressVars == <<reader, printed>>

Hex == [as |-> "hex", length |-> 1, row |-> 3]

-------------------------------------------------------------------------------
(* parse_address: the first "-", and the first "!" behind it; a "!" before *)
(* a "-" is overlooked with what follows it.                               *)
Place(request, from, mark) ==
    LET places == {i \in DOMAIN request : i > from /\ request[i].mark = mark}
    IN  IF places = {} THEN 0 ELSE CHOOSE i \in places : \A j \in places : i <= j

PieceAt(request, place, default) == IF place = 0 THEN default ELSE request[place].value

Reader(request) ==
    LET minus == Place(request, 0, "-")
        size == PieceAt(request, minus, 0)
        show == PieceAt(request, Place(request, minus, "!"), Hex)
        length == IF size = 0 THEN MaxSize ELSE size
    IN  [at |-> request[1].value, size |-> length, toNull |-> size = 0, show |-> show,
         stream |-> StreamFor(request[1].value, length), index |-> 0, null |-> FALSE, ended |-> FALSE]

ASSUME RequestsAssumption ==
    /\ MaxSize \in Nat /\ Break \notin Nat
    /\ \A s \in Scenes : \A j \in s.jobs : j.kind = "address" =>
          /\ DOMAIN j.request = 1 .. Len(j.request) /\ j.request[1].value \in Nat
          /\ \A i \in DOMAIN j.request :
                /\ j.request[i].mark = "-" => j.request[i].value \in Nat
                /\ j.request[i].mark = "!" =>
                      LET show == j.request[i].value
                      IN  /\ show = [as |-> show.as, length |-> show.length, row |-> show.row]
                          /\ show.as \in {"str", "astr", "numbers"} /\ show.length \in {1, 2}

Advance(n) == [reader EXCEPT !.stream = Skipped(reader.stream, n), !.index = @ + 1]
End == reader' = [reader EXCEPT !.ended = TRUE] /\ UNCHANGED printed

(* The elements a loop may read.                                           *)
Limit == reader.size \div reader.show.length
HasNext == reader.index < Limit /\ CanRead(reader.stream, reader.show.length)
Current == Number(reader.stream.at, reader.show.length)

(* print_stream_str.                                                       *)
PrintText ==
    /\ ~reader.ended /\ reader.show.as = "str"
    /\ IF HasNext /\ ~(reader.toNull /\ Current = 0)
       THEN reader' = Advance(reader.show.length) /\ printed' = Append(printed, Current)
       ELSE End
    /\ UNCHANGED <<scene, job>>

(* print_stream_array_str: a null ends a text, a second one all of them.   *)
PrintTexts ==
    /\ ~reader.ended /\ reader.show.as = "astr"
    /\ IF HasNext /\ ~(reader.null /\ Current = 0)
       THEN /\ reader' = [Advance(reader.show.length) EXCEPT !.null = Current = 0]
            /\ printed' = Append(printed, IF Current = 0 THEN Break ELSE Current)
       ELSE End
    /\ UNCHANGED <<scene, job>>

(* print_stream_array_lines.                                               *)
PrintNumbers ==
    /\ ~reader.ended /\ reader.show.as = "numbers"
    /\ IF HasNext
       THEN reader' = Advance(reader.show.length) /\ printed' = Append(printed, Current)
       ELSE End
    /\ UNCHANGED <<scene, job>>

(* hex_dump of a stream: it goes by the rows the size has, whether or not  *)
(* there is anything to read for them.                                     *)
PrintRow ==
    /\ ~reader.ended /\ reader.show.as = "hex"
    /\ IF reader.index * reader.show.row < reader.size
       THEN LET n == Reach(reader.stream, reader.show.row)
            IN  /\ reader' = Advance(n)
                /\ printed' = printed \o [k \in 1 .. n |-> scene.memory[reader.stream.at + k - 1]]
       ELSE End
    /\ UNCHANGED <<scene, job>>

InitAddress ==
    /\ printed = <<>>
    /\ reader = IF job.kind = "address" THEN Reader(job.request) ELSE [ended |-> TRUE]

NextAddress == PrintText \/ PrintTexts \/ PrintNumbers \/ PrintRow

-------------------------------------------------------------------------------
(* A dump shows the memory from the address on, without a gap, and as much *)
(* of it as was asked for and is there: all of it for numbers and bytes,   *)
(* what is before the null for a text without a size, what is before two   *)
(* nulls for texts.  Breaks stand for the nulls between the texts.         *)
AddressShown ==
    job.kind = "address" /\ reader.ended =>
        LET show == reader.show
            At(k) == Number(reader.at + (k - 1) * show.length, show.length)
            Held(k) == \A a \in 0 .. (k * show.length - 1) : a < reader.size /\ Readable(reader.at + a)
            Over(k) == \/ show.as = "str" /\ reader.toNull /\ At(k) = 0
                       \/ show.as = "astr" /\ k > 1 /\ At(k) = 0 /\ At(k - 1) = 0
            values == [k \in DOMAIN printed |-> IF printed[k] = Break THEN 0 ELSE printed[k]]
            n == Len(values)
        IN  /\ \A k \in 1 .. n : Held(k) /\ ~Over(k) /\ values[k] = At(k)
            /\ ~Held(n + 1) \/ Over(n + 1)
===============================================================================
