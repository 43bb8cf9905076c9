----------------------------- MODULE SizeClass ------------------------------
(***************************************************************************)
(* The size classes of the concurrent memory pool (Common.h) and the loop  *)
(* of CentralCache::GetOneSpan that cuts a span into objects.  A behaviour *)
(* is one request of so many bytes that found no object anywhere, so that a *)
(* new span is cut.  All numbers are bytes, at the widths of the code.     *)
(***************************************************************************)
EXTENDS Integers

CONSTANT Sizes      \* the sizes requested

MAX_BYTES == 65536
PageBytes == 4096   \* 1 << PAGE_SHIFT
NPAGES == 129
NLISTS == 184
LinkBytes == 8      \* sizeof(void*), what NEXT_OBJ writes at an object's start

\* Index(0) would wrap around (0 - 1): requests are of at least a byte.
ASSUME SizesAssumption == Sizes \subseteq 1..MAX_BYTES

AlignedIndex(size, alignnum) == (size + alignnum - 1) \div alignnum - 1
AlignedRoundup(size, alignnum) == ((size + alignnum - 1) \div alignnum) * alignnum

\* mutant: the offset of the group is forgotten
IndexNoOffset(size) ==
    IF size <= 128 THEN AlignedIndex(size, 8)
    ELSE IF size <= 1024 THEN AlignedIndex(size, 16) + 16
    ELSE IF size <= 8192 THEN AlignedIndex(size - 1024, 128) + 72
    ELSE AlignedIndex(size - 8192, 1024) + 128
\* The list of a size, in a ThreadCache and in the CentralCache.
Index(size) ==
    IF size <= 128 THEN AlignedIndex(size, 8)
    ELSE IF size <= 1024 THEN AlignedIndex(size - 128, 16) + 16
    ELSE IF size <= 8192 THEN AlignedIndex(size - 1024, 128) + 72
    ELSE AlignedIndex(size - 8192, 1024) + 128

\* mutant: the sizes up to 8192 are rounded like those up to 1024
RoundupCoarse(bytes) ==
    IF bytes <= 128 THEN AlignedRoundup(bytes, 8)
    ELSE IF bytes <= 8192 THEN AlignedRoundup(bytes, 128)
    ELSE AlignedRoundup(bytes, 1024)
\* The size of the objects a request of that many bytes gets.
Roundup(bytes) ==
    IF bytes <= 128 THEN AlignedRoundup(bytes, 8)
    ELSE IF bytes <= 1024 THEN AlignedRoundup(bytes, 16)
    ELSE IF bytes <= 8192 THEN AlignedRoundup(bytes, 128)
    ELSE AlignedRoundup(bytes, 1024)

Clamp(num, low, high) == IF num < low THEN low ELSE IF num > high THEN high ELSE num
\* Objects moved to a ThreadCache at once.
NumMoveSize(size) == Clamp(MAX_BYTES \div size, 2, 512)

\* mutant: no upper bound on the number of objects, and none on the pages
NumMovePageAll(size) == (512 * size) \div PageBytes + 1
\* Pages of the span from which objects of the size are cut.
NumMovePage(size) ==
    LET npage == (NumMoveSize(size) * size) \div PageBytes
    IN  IF npage = 0 THEN 1 ELSE npage

VARIABLES
    request,  \* the bytes requested
    cur       \* the object the cutting loop is at, from the span's start

vars == <<request, cur>>

byte_size == Roundup(request)
end == NumMovePage(byte_size) * PageBytes

Init == request \in Sizes /\ cur = 0

\* mutant: while (cur + byte_size <= end)
MoreRoomWide == cur + byte_size <= end
MoreRoom == cur + byte_size < end

\* A round of the loop: the object at cur is linked to the next one.
CutNext ==
    /\ MoreRoom
    /\ cur' = cur + byte_size
    /\ UNCHANGED request

Next == CutNext
Spec == Init /\ [][Next]_vars
----------------------------------------------------------------------------
(* Properties *)

\* The type invariant: every request has a size, every object an offset.
TypeOK == request \in Sizes /\ cur \in Nat

\* Common.h:112-115, the table of sizes and lists: no request is served from a
\* list of another group or beyond the array of NLISTS lists.
IndexTable ==
    /\ request <= 128 => 0 <= Index(request) /\ Index(request) < 16
    /\ 128 < request /\ request <= 1024 => 16 <= Index(request) /\ Index(request) < 72
    /\ 1024 < request /\ request <= 8192 => 72 <= Index(request) /\ Index(request) < 128
    /\ 8192 < request => 128 <= Index(request) /\ Index(request) < NLISTS

\* Allocate looks in list Index(size), while Deallocate and the CentralCache use
\* the index of the size after rounding up: it is the same list.
SameList == Index(byte_size) = Index(request)

\* A list holds objects of one size: neighbouring sizes share a list exactly when
\* they are rounded up to the same size.
OneSizePerList ==
    request < MAX_BYTES =>
        (Index(request + 1) = Index(request) <=> Roundup(request + 1) = Roundup(request))

\* Common.h:111: from 128 bytes on, at most about 12% of an object is wasted.
Waste ==
    /\ byte_size >= request
    /\ request > 128 => 8 * (byte_size - request) < byte_size

\* PageCache.cpp:69, assert(n < NPAGES): the span that a size asks for is one the
\* PageCache can have.
SpanIsPossible == NumMovePage(byte_size) \in 1..(NPAGES - 1)

\* What the rounding promises to the rest of the pool: lists of one size, little
\* waste, and a span the PageCache can deliver.
SizesFit == OneSizePerList /\ Waste /\ SpanIsPossible

\* The loop writes the link of an object into its first bytes: they are inside
\* the span, for the last object as well.
LinksInside == cur + LinkBytes <= end

\* CentralCache.cpp:36: the pages of the span are cut into objects, which lie in
\* the span.
ObjectsInside == cur + byte_size <= end
=============================================================================
