------------------------------- MODULE HeapEntry -------------------------------
(***************************************************************************)
(* heap_entry: what a block of an NT heap says of itself.  The header of a *)
(* block holds its size and how many bytes of it the program did not ask   *)
(* for; from these the constructor works out where the user data begins    *)
(* and how many bytes were asked for, and throws if that leaves the block. *)
(*                                                                         *)
(* An entry is a record                                                    *)
(*   target        "x86" or "x64"                                          *)
(*   address, size of the block with its header, in bytes                  *)
(*   in_use        is_busy() and not the block of the heap itself          *)
(*   raw           unused_bytes_raw(): seven bits, 16#3F# for "too many"   *)
(*   eod           the machine word at the end of the data area            *)
(*   ust           a stack trace header was found behind the block header  *)
(*   gap, ust_raw  the end gap in that header; ust_unused_bytes_raw()      *)
(* where eod and gap are None if the dump does not have their memory.      *)
(***************************************************************************)
EXTENDS Integers

Targets == {"x86", "x64"}
None == -1

(* Of the types in the symbol file of ntdll: heap_entry_length, which is   *)
(* also the granularity of the heap, and previous_block_private_data_size, *)
(* the bytes a block may use of the header that follows it.                *)
Length(target) == IF target = "x64" THEN 16 ELSE 8
Private(target) == IF target = "x64" THEN 8 ELSE 0

UstHeaderSize(target) == IF target = "x64" THEN 48 ELSE 24
EndGapOffset(target) == IF target = "x64" THEN 40 ELSE 24
Offset == 8

(* The remainder of C++ for a dividend that is not negative.               *)
Remainder(a, b) == a % (IF b < 0 THEN -b ELSE b)

(* The entries a dump can have.                                            *)
Entries ==
    [target : Targets, address : Nat, size : Nat, in_use : BOOLEAN, raw : 0..127,
     eod : Int, ust : BOOLEAN, gap : Nat \union {None}, ust_raw : Nat]

-------------------------------------------------------------------------------
FrontPadding(e) == IF e.raw > e.size THEN Length(e.target) ELSE 0

UserAddress(e) ==
    IF ~e.in_use THEN 0
    ELSE IF e.ust THEN e.address + UstHeaderSize(e.target)
    ELSE e.address + Length(e.target) + FrontPadding(e)

DataArea(e) ==
    IF e.ust THEN e.address + e.size + Private(e.target) - UserAddress(e)
    ELSE e.size + Private(e.target) - Length(e.target) - FrontPadding(e)

(* unused_bytes_data of get_unused_bytes, before it is interpreted.        *)
GivenUnused(e) ==
    IF ~e.ust THEN e.raw
    ELSE LET header == UserAddress(e) - e.address IN
         Offset + (IF e.ust_raw >= header THEN e.ust_raw - header ELSE e.ust_raw)

KnownByGap(e) == e.ust /\ e.gap # None /\ e.gap >= EndGapOffset(e.target)

KnownByEod(e) ==
    /\ GivenUnused(e) = 63
    /\ e.eod # None
    /\ e.eod < e.size
    /\ DataArea(e) >= e.size - e.eod

(* Slip for Unused: an entry at 16#3F# is taken at its word.               *)
SlipUnused(e) ==
    LET area == DataArea(e)
        given == GivenUnused(e)
        over == given - area IN
    IF KnownByGap(e) THEN e.gap - EndGapOffset(e.target)
    ELSE IF given > area THEN
        IF over > area THEN Remainder(given, area)
        ELSE IF over + Offset > area THEN over
        ELSE IF e.target = "x64" /\ over <= Offset THEN area - (Offset - over)
        ELSE over + Offset
    ELSE IF given >= Offset THEN
        IF e.ust /\ e.ust_raw > 0 /\ e.size >= e.ust_raw /\ area >= e.size - e.ust_raw
        THEN area - (e.size - e.ust_raw)
        ELSE given - Offset
    ELSE given + Offset

(* get_unused_bytes: the bytes of the data area not asked for.             *)
Unused(e) ==
    LET area == DataArea(e)
        given == GivenUnused(e)
        over == given - area IN
    IF KnownByGap(e) THEN e.gap - EndGapOffset(e.target)
    ELSE IF KnownByEod(e) THEN area - (e.size - e.eod)
    ELSE IF given > area THEN
        IF over > area THEN Remainder(given, area)
        ELSE IF over + Offset > area THEN over
        ELSE IF e.target = "x64" /\ over <= Offset THEN area - (Offset - over)
        ELSE over + Offset
    ELSE IF given >= Offset THEN
        IF e.ust /\ e.ust_raw > 0 /\ e.size >= e.ust_raw /\ area >= e.size - e.ust_raw
        THEN area - (e.size - e.ust_raw)
        ELSE given - Offset
    ELSE given + Offset

(* The two remainders are taken with a divisor of 0: in get_unused_bytes   *)
(* of a data area, in get_requested_size of a block without a byte.        *)
DividesByZero(e) ==
    \/ ~KnownByGap(e) /\ ~KnownByEod(e) /\ DataArea(e) = 0 /\ GivenUnused(e) > 0
    \/ e.size = 0 /\ Unused(e) > 0

(* get_requested_size: user_requested_size().                              *)
Requested(e) ==
    LET unused == Unused(e) IN
    IF unused > e.size THEN
        IF unused - e.size > e.size THEN Remainder(unused, e.size) ELSE unused - e.size
    ELSE IF unused <= DataArea(e) THEN DataArea(e) - unused
    ELSE 0

(* validate_entry does not throw.                                          *)
UserDataInBlock(e) ==
    /\ UserAddress(e) + Requested(e) <= e.address + e.size + Private(e.target)
    /\ Requested(e) >= 0

(* The constructor returns.                                                *)
Constructed(e) == ~DividesByZero(e) /\ UserDataInBlock(e)

-------------------------------------------------------------------------------
(***************************************************************************)
(* What the allocator of Windows writes for a request, as the code above   *)
(* takes it to be.  Behind the data of a block there are at least eight    *)
(* bytes it does not use, of the block or of the next header; a block is   *)
(* at most one granule longer than the smallest one that will do, and that *)
(* has two granules.  The count of unused bytes is in the header if it is below    *)
(* 16#3F#, otherwise at the end of the data area.  With a stack trace      *)
(* header the count is in the end gap of that header.                      *)
(***************************************************************************)
WrittenFor(e, requested) ==
    /\ e.in_use
    /\ e.size % Length(e.target) = 0
    /\ IF e.ust
       THEN /\ requested + UstHeaderSize(e.target) <= e.size + Private(e.target)
            /\ e.gap = e.size - requested
       ELSE /\ requested + Offset <= e.size
            /\ requested < Offset => e.size <= 3 * Length(e.target)
            /\ e.size - requested < 63 => e.raw = e.size - requested
            /\ e.size - requested >= 63 => e.raw = 63 /\ e.eod = e.size - requested
===============================================================================
