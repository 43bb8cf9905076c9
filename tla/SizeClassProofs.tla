-------------------------- MODULE SizeClassProofs ---------------------------
(***************************************************************************)
(* Proofs about the size classes: facts of the pure functions, and the     *)
(* invariants of the cutting loop for every set of requested sizes.        *)
(***************************************************************************)
EXTENDS SizeClass, TLAPS

\* A quotient rounded up, as _Index and _Roundup compute it, by the inequalities
\* that determine it: alignment 8.
LEMMA Quotient8 ==
    ASSUME NEW n \in Nat
    PROVE  /\ (n + 8 - 1) \div 8 \in Nat
           /\ n <= 8 * ((n + 8 - 1) \div 8) /\ 8 * ((n + 8 - 1) \div 8) <= n + 7
OBVIOUS
\* The same for alignment 16.
LEMMA Quotient16 ==
    ASSUME NEW n \in Nat
    PROVE  /\ (n + 16 - 1) \div 16 \in Nat
           /\ n <= 16 * ((n + 16 - 1) \div 16) /\ 16 * ((n + 16 - 1) \div 16) <= n + 15
OBVIOUS
\* The same for alignment 128.
LEMMA Quotient128 ==
    ASSUME NEW n \in Nat
    PROVE  /\ (n + 128 - 1) \div 128 \in Nat
           /\ n <= 128 * ((n + 128 - 1) \div 128) /\ 128 * ((n + 128 - 1) \div 128) <= n + 127
OBVIOUS
\* The same for alignment 1024.
LEMMA Quotient1024 ==
    ASSUME NEW n \in Nat
    PROVE  /\ (n + 1024 - 1) \div 1024 \in Nat
           /\ n <= 1024 * ((n + 1024 - 1) \div 1024) /\ 1024 * ((n + 1024 - 1) \div 1024) <= n + 1023
OBVIOUS

\* Requests by inequalities, which the provers handle better than intervals.
SmallSize(n) == n \in Nat /\ 1 <= n /\ n <= 65536

\* Every size up to MAX_BYTES is within these bounds.
LEMMA SizeBounds ==
    ASSUME NEW n \in 1..MAX_BYTES
    PROVE  SmallSize(n)
<1>1. MAX_BYTES = 65536 BY SMTT(40) DEF MAX_BYTES
<1>2. MAX_BYTES \in Nat BY <1>1, SMTT(40)
<1>3. n \in Nat /\ 1 <= n /\ n <= MAX_BYTES BY <1>2, SMTT(40)
<1> QED BY <1>1, <1>3, SMTT(40) DEF SmallSize

\* A size of the first group: its list, the size of its objects, and that
\* rounding up does not leave the group.
LEMMA Group8 ==
    ASSUME NEW n \in Nat, 1 <= n, n <= 128
    PROVE  \E i \in Nat :
               /\ Index(n) = i /\ 0 <= i /\ i <= 15
               /\ Roundup(n) = 8 * (i + 1)
               /\ n <= Roundup(n) /\ Roundup(n) <= n + 7
               /\ 1 <= Roundup(n) /\ Roundup(n) <= 128
               /\ \E k \in Nat : Roundup(n) = 8 * k
<1>1. Index(n) = (n + 8 - 1) \div 8 - 1 BY DEF Index, AlignedIndex
<1>2. Roundup(n) = ((n + 8 - 1) \div 8) * 8 BY DEF Roundup, AlignedRoundup
<1>3. PICK q \in Nat : (n + 8 - 1) \div 8 = q /\ n <= 8 * q /\ 8 * q <= n + 7
  BY Quotient8
<1>4. q >= 1 BY <1>3
<1> DEFINE i == q - 1
<1>5. i \in Nat /\ Index(n) = i /\ 0 <= i /\ i <= 15 BY <1>1, <1>3, <1>4
<1>6. Roundup(n) = 8 * (i + 1) BY <1>2, <1>3, <1>4
<1>7. n <= Roundup(n) /\ Roundup(n) <= n + 7 BY <1>2, <1>3
<1>8. 1 <= Roundup(n) /\ Roundup(n) <= 128 BY <1>5, <1>6, <1>7
<1>9. Roundup(n) = 8 * (i + 1) /\ i + 1 \in Nat BY <1>5, <1>6
<1> QED BY <1>5, <1>6, <1>7, <1>8, <1>9

\* The same for the group with alignment 16.
LEMMA Group16 ==
    ASSUME NEW n \in Nat, 129 <= n, n <= 1024
    PROVE  \E i \in Nat :
               /\ Index(n) = i /\ 16 <= i /\ i <= 71
               /\ Roundup(n) = 16 * (i - 16 + 1) + 128
               /\ n <= Roundup(n) /\ Roundup(n) <= n + 15
               /\ 129 <= Roundup(n) /\ Roundup(n) <= 1024
               /\ \E k \in Nat : Roundup(n) = 8 * k
<1>1. Index(n) = (n - 128 + 16 - 1) \div 16 - 1 + 16 BY DEF Index, AlignedIndex
<1>2. Roundup(n) = ((n + 16 - 1) \div 16) * 16 BY DEF Roundup, AlignedRoundup
<1>3. n - 128 \in Nat OBVIOUS
<1>4. PICK q \in Nat : (n - 128 + 16 - 1) \div 16 = q /\ n - 128 <= 16 * q /\ 16 * q <= n - 128 + 15
  BY <1>3, Quotient16
<1>5. PICK p \in Nat : (n + 16 - 1) \div 16 = p /\ n <= 16 * p /\ 16 * p <= n + 15
  BY Quotient16
<1>6. p = q + 8 BY <1>4, <1>5
<1>7. q >= 1 BY <1>4
<1> DEFINE i == q - 1 + 16
<1>8. i \in Nat /\ Index(n) = i /\ 16 <= i /\ i <= 71 BY <1>1, <1>4, <1>7
<1>9. Roundup(n) = 16 * (i - 16 + 1) + 128 BY <1>2, <1>5, <1>6, <1>7
<1>10. n <= Roundup(n) /\ Roundup(n) <= n + 15 BY <1>2, <1>5
<1>11. 129 <= Roundup(n) /\ Roundup(n) <= 1024 BY <1>8, <1>9, <1>10
<1>12. Roundup(n) = 8 * (2 * (i - 16 + 1) + 16) /\ 2 * (i - 16 + 1) + 16 \in Nat BY <1>8, <1>9
<1> QED BY <1>8, <1>9, <1>10, <1>11, <1>12

\* The same for the group with alignment 128.
LEMMA Group128 ==
    ASSUME NEW n \in Nat, 1025 <= n, n <= 8192
    PROVE  \E i \in Nat :
               /\ Index(n) = i /\ 72 <= i /\ i <= 127
               /\ Roundup(n) = 128 * (i - 72 + 1) + 1024
               /\ n <= Roundup(n) /\ Roundup(n) <= n + 127
               /\ 1025 <= Roundup(n) /\ Roundup(n) <= 8192
               /\ \E k \in Nat : Roundup(n) = 8 * k
<1>1. Index(n) = (n - 1024 + 128 - 1) \div 128 - 1 + 72 BY DEF Index, AlignedIndex
<1>2. Roundup(n) = ((n + 128 - 1) \div 128) * 128 BY DEF Roundup, AlignedRoundup
<1>3. n - 1024 \in Nat OBVIOUS
<1>4. PICK q \in Nat : (n - 1024 + 128 - 1) \div 128 = q /\ n - 1024 <= 128 * q /\ 128 * q <= n - 1024 + 127
  BY <1>3, Quotient128
<1>5. PICK p \in Nat : (n + 128 - 1) \div 128 = p /\ n <= 128 * p /\ 128 * p <= n + 127
  BY Quotient128
<1>6. p = q + 8 BY <1>4, <1>5
<1>7. q >= 1 BY <1>4
<1> DEFINE i == q - 1 + 72
<1>8. i \in Nat /\ Index(n) = i /\ 72 <= i /\ i <= 127 BY <1>1, <1>4, <1>7
<1>9. Roundup(n) = 128 * (i - 72 + 1) + 1024 BY <1>2, <1>5, <1>6, <1>7
<1>10. n <= Roundup(n) /\ Roundup(n) <= n + 127 BY <1>2, <1>5
<1>11. 1025 <= Roundup(n) /\ Roundup(n) <= 8192 BY <1>8, <1>9, <1>10
<1>12. Roundup(n) = 8 * (16 * (i - 72 + 1) + 128) /\ 16 * (i - 72 + 1) + 128 \in Nat BY <1>8, <1>9
<1> QED BY <1>8, <1>9, <1>10, <1>11, <1>12

\* The same for the group with alignment 1024.
LEMMA Group1024 ==
    ASSUME NEW n \in Nat, 8193 <= n, n <= 65536
    PROVE  \E i \in Nat :
               /\ Index(n) = i /\ 128 <= i /\ i <= 183
               /\ Roundup(n) = 1024 * (i - 128 + 1) + 8192
               /\ n <= Roundup(n) /\ Roundup(n) <= n + 1023
               /\ 8193 <= Roundup(n) /\ Roundup(n) <= 65536
               /\ \E k \in Nat : Roundup(n) = 8 * k
<1>1. Index(n) = (n - 8192 + 1024 - 1) \div 1024 - 1 + 128 BY DEF Index, AlignedIndex
<1>2. Roundup(n) = ((n + 1024 - 1) \div 1024) * 1024 BY DEF Roundup, AlignedRoundup
<1>3. n - 8192 \in Nat OBVIOUS
<1>4. PICK q \in Nat : (n - 8192 + 1024 - 1) \div 1024 = q /\ n - 8192 <= 1024 * q /\ 1024 * q <= n - 8192 + 1023
  BY <1>3, Quotient1024
<1>5. PICK p \in Nat : (n + 1024 - 1) \div 1024 = p /\ n <= 1024 * p /\ 1024 * p <= n + 1023
  BY Quotient1024
<1>6. p = q + 8 BY <1>4, <1>5
<1>7. q >= 1 BY <1>4
<1> DEFINE i == q - 1 + 128
<1>8. i \in Nat /\ Index(n) = i /\ 128 <= i /\ i <= 183 BY <1>1, <1>4, <1>7
<1>9. Roundup(n) = 1024 * (i - 128 + 1) + 8192 BY <1>2, <1>5, <1>6, <1>7
<1>10. n <= Roundup(n) /\ Roundup(n) <= n + 1023 BY <1>2, <1>5
<1>11. 8193 <= Roundup(n) /\ Roundup(n) <= 65536 BY <1>8, <1>9, <1>10
<1>12. Roundup(n) = 8 * (128 * (i - 128 + 1) + 1024) /\ 128 * (i - 128 + 1) + 1024 \in Nat BY <1>8, <1>9
<1> QED BY <1>8, <1>9, <1>10, <1>11, <1>12

\* The sizes fall into the four groups.
LEMMA Groups ==
    ASSUME NEW n, SmallSize(n)
    PROVE  /\ n \in Nat /\ 1 <= n
           /\ \/ n <= 128
              \/ 129 <= n /\ n <= 1024
              \/ 1025 <= n /\ n <= 8192
              \/ 8193 <= n /\ n <= 65536
BY DEF SmallSize

\* An object is a multiple of 8 bytes, as links need, and of a size with a list.
LEMMA RoundupMultiple ==
    ASSUME NEW n, SmallSize(n)
    PROVE  SmallSize(Roundup(n)) /\ \E k \in Nat : Roundup(n) = 8 * k
<1>0. n \in Nat /\ 1 <= n BY Groups
<1>1. CASE n <= 128
  <2>1. PICK k \in Nat : Roundup(n) = 8 * k BY <1>0, <1>1, Group8
  <2>2. 1 <= Roundup(n) /\ Roundup(n) <= 128 BY <1>0, <1>1, Group8
  <2> QED BY <2>1, <2>2 DEF SmallSize
<1>2. CASE 129 <= n /\ n <= 1024
  <2>1. PICK k \in Nat : Roundup(n) = 8 * k BY <1>0, <1>2, Group16
  <2>2. 129 <= Roundup(n) /\ Roundup(n) <= 1024 BY <1>0, <1>2, Group16
  <2> QED BY <2>1, <2>2 DEF SmallSize
<1>3. CASE 1025 <= n /\ n <= 8192
  <2>1. PICK k \in Nat : Roundup(n) = 8 * k BY <1>0, <1>3, Group128
  <2>2. 1025 <= Roundup(n) /\ Roundup(n) <= 8192 BY <1>0, <1>3, Group128
  <2> QED BY <2>1, <2>2 DEF SmallSize
<1>4. CASE 8193 <= n /\ n <= 65536
  <2>1. PICK k \in Nat : Roundup(n) = 8 * k BY <1>0, <1>4, Group1024
  <2>2. 8193 <= Roundup(n) /\ Roundup(n) <= 65536 BY <1>0, <1>4, Group1024
  <2> QED BY <2>1, <2>2 DEF SmallSize
<1> QED BY <1>1, <1>2, <1>3, <1>4, Groups

\* The list of a size is the list of the size after rounding up: the objects of
\* list i have one size, which a size of list i is rounded to.
LEMMA IndexOfRoundup ==
    ASSUME NEW n, SmallSize(n)
    PROVE  Index(Roundup(n)) = Index(n)
<1>0. n \in Nat /\ 1 <= n BY Groups
<1>1. CASE n <= 128
  <2>1. PICK i \in Nat : Index(n) = i /\ Roundup(n) = 8 * (i + 1) /\ 0 <= i
                     /\ 1 <= Roundup(n) /\ Roundup(n) <= 128
    BY <1>0, <1>1, Group8
  <2>2. PICK r \in Nat : Roundup(n) = r BY RoundupMultiple DEF SmallSize
  <2>3. r = 8 * (i + 1) /\ 1 <= r /\ r <= 128 BY <2>1, <2>2
  <2>4. Index(r) = (r + 8 - 1) \div 8 - 1 BY <2>3 DEF Index, AlignedIndex
  <2>5. (r + 8 - 1) \div 8 = i + 1 BY <2>1, <2>3
  <2> QED BY <2>1, <2>2, <2>4, <2>5
<1>2. CASE 129 <= n /\ n <= 1024
  <2>1. PICK i \in Nat : Index(n) = i /\ Roundup(n) = 16 * (i - 16 + 1) + 128 /\ 16 <= i
                     /\ 129 <= Roundup(n) /\ Roundup(n) <= 1024
    BY <1>0, <1>2, Group16
  <2>2. PICK r \in Nat : Roundup(n) = r BY RoundupMultiple DEF SmallSize
  <2>3. r = 16 * (i - 16 + 1) + 128 /\ 129 <= r /\ r <= 1024 BY <2>1, <2>2
  <2>4. Index(r) = (r - 128 + 16 - 1) \div 16 - 1 + 16 BY <2>3 DEF Index, AlignedIndex
  <2>5. (r - 128 + 16 - 1) \div 16 = i - 16 + 1 BY <2>1, <2>3
  <2> QED BY <2>1, <2>2, <2>4, <2>5
<1>3. CASE 1025 <= n /\ n <= 8192
  <2>1. PICK i \in Nat : Index(n) = i /\ Roundup(n) = 128 * (i - 72 + 1) + 1024 /\ 72 <= i
                     /\ 1025 <= Roundup(n) /\ Roundup(n) <= 8192
    BY <1>0, <1>3, Group128
  <2>2. PICK r \in Nat : Roundup(n) = r BY RoundupMultiple DEF SmallSize
  <2>3. r = 128 * (i - 72 + 1) + 1024 /\ 1025 <= r /\ r <= 8192 BY <2>1, <2>2
  <2>4. Index(r) = (r - 1024 + 128 - 1) \div 128 - 1 + 72 BY <2>3 DEF Index, AlignedIndex
  <2>5. (r - 1024 + 128 - 1) \div 128 = i - 72 + 1 BY <2>1, <2>3
  <2> QED BY <2>1, <2>2, <2>4, <2>5
<1>4. CASE 8193 <= n /\ n <= 65536
  <2>1. PICK i \in Nat : Index(n) = i /\ Roundup(n) = 1024 * (i - 128 + 1) + 8192 /\ 128 <= i
                     /\ 8193 <= Roundup(n) /\ Roundup(n) <= 65536
    BY <1>0, <1>4, Group1024
  <2>2. PICK r \in Nat : Roundup(n) = r BY RoundupMultiple DEF SmallSize
  <2>3. r = 1024 * (i - 128 + 1) + 8192 /\ 8193 <= r /\ r <= 65536 BY <2>1, <2>2
  <2>4. Index(r) = (r - 8192 + 1024 - 1) \div 1024 - 1 + 128 BY <2>3 DEF Index, AlignedIndex
  <2>5. (r - 8192 + 1024 - 1) \div 1024 = i - 128 + 1 BY <2>1, <2>3
  <2> QED BY <2>1, <2>2, <2>4, <2>5
<1> QED BY <1>1, <1>2, <1>3, <1>4, Groups

\* The size of the objects of list i: Roundup as a function of the list.
ObjSize(i) ==
    IF i < 16 THEN 8 * (i + 1)
    ELSE IF i < 72 THEN 16 * (i - 16 + 1) + 128
    ELSE IF i < 128 THEN 128 * (i - 72 + 1) + 1024
    ELSE 1024 * (i - 128 + 1) + 8192

\* Roundup depends on a size only through its list.
LEMMA RoundupOfList ==
    ASSUME NEW n, SmallSize(n)
    PROVE  Index(n) \in Nat /\ Roundup(n) = ObjSize(Index(n))
<1>0. n \in Nat /\ 1 <= n BY Groups
<1>1. CASE n <= 128
  <2>1. PICK i \in Nat : Index(n) = i /\ i <= 15 /\ Roundup(n) = 8 * (i + 1)
    BY <1>0, <1>1, Group8
  <2> QED BY <2>1 DEF ObjSize
<1>2. CASE 129 <= n /\ n <= 1024
  <2>1. PICK i \in Nat : Index(n) = i /\ 16 <= i /\ i <= 71 /\ Roundup(n) = 16 * (i - 16 + 1) + 128
    BY <1>0, <1>2, Group16
  <2> QED BY <2>1 DEF ObjSize
<1>3. CASE 1025 <= n /\ n <= 8192
  <2>1. PICK i \in Nat : Index(n) = i /\ 72 <= i /\ i <= 127 /\ Roundup(n) = 128 * (i - 72 + 1) + 1024
    BY <1>0, <1>3, Group128
  <2> QED BY <2>1 DEF ObjSize
<1>4. CASE 8193 <= n /\ n <= 65536
  <2>1. PICK i \in Nat : Index(n) = i /\ 128 <= i /\ Roundup(n) = 1024 * (i - 128 + 1) + 8192
    BY <1>0, <1>4, Group1024
  <2> QED BY <2>1 DEF ObjSize
<1> QED BY <1>1, <1>2, <1>3, <1>4, Groups

\* No two lists hold objects of the same size.
LEMMA ObjSizeInjective ==
    ASSUME NEW i \in Nat, NEW j \in Nat, ObjSize(i) = ObjSize(j)
    PROVE  i = j
BY DEF ObjSize

\* Two sizes share a list exactly when their objects have the same size, for any
\* two sizes (the run compares neighbours): what ThreadCache::Deallocate puts in
\* a list can serve every later Allocate from it.
THEOREM ListsHoldOneSize ==
    ASSUME NEW m \in 1..MAX_BYTES, NEW n \in 1..MAX_BYTES
    PROVE  Index(m) = Index(n) <=> Roundup(m) = Roundup(n)
<1>1. SmallSize(m) /\ SmallSize(n) BY SizeBounds
<1>2. /\ Index(m) \in Nat /\ Roundup(m) = ObjSize(Index(m))
      /\ Index(n) \in Nat /\ Roundup(n) = ObjSize(Index(n))
  BY <1>1, RoundupOfList
<1> QED BY <1>2, ObjSizeInjective

\* A span has at least one page.
LEMMA SpanHasPages ==
    ASSUME NEW n, SmallSize(n)
    PROVE  NumMovePage(n) \in Nat \ {0}
<1>0. n \in Nat /\ 1 <= n BY Groups
<1>1. MAX_BYTES \div n \in Int
  BY <1>0 DEF MAX_BYTES
<1>2. NumMoveSize(n) \in Nat
  BY <1>1 DEF NumMoveSize, Clamp
<1>3. NumMoveSize(n) * n \in Nat
  BY <1>0, <1>2
<1>4. (NumMoveSize(n) * n) \div PageBytes \in Nat
  BY <1>3 DEF PageBytes
<1> QED BY <1>4 DEF NumMovePage
----------------------------------------------------------------------------
\* The invariant of the cutting loop: it stands at a multiple of 8 below the end
\* of the span, which is one too; so 8 bytes are left.
CutInv ==
    /\ TypeOK
    /\ \E k \in Nat : cur = 8 * k
    /\ cur < end

\* The end of the span of a size is a multiple of 8.
LEMMA EndOfSpan ==
    ASSUME NEW r, SmallSize(r)
    PROVE  \E k \in Nat \ {0} : NumMovePage(Roundup(r)) * PageBytes = 8 * k
<1>1. SmallSize(Roundup(r)) BY RoundupMultiple
<1>2. PICK p \in Nat \ {0} : NumMovePage(Roundup(r)) = p BY <1>1, SpanHasPages
<1>3. PICK k \in Nat \ {0} : k = 512 * p OBVIOUS
<1>4. p * PageBytes = 8 * k BY <1>3 DEF PageBytes
<1>5. NumMovePage(Roundup(r)) * PageBytes = 8 * k BY <1>2, <1>4
<1> QED BY <1>5

\* The loop starts at 0, and the span is not empty.
LEMMA CutInvInit == Init => CutInv
<1> SUFFICES ASSUME Init PROVE CutInv OBVIOUS
<1>1. SmallSize(request) BY SizesAssumption, SizeBounds DEF Init
<1>2. PICK k \in Nat \ {0} : end = 8 * k BY <1>1, EndOfSpan DEF end, byte_size
<1>3. cur = 8 * 0 BY DEF Init
<1> QED BY <1>2, <1>3 DEF CutInv, TypeOK, Init

\* A round advances by a multiple of 8 and only below the end.
LEMMA CutInvNext == CutInv /\ [Next]_vars => CutInv'
<1> SUFFICES ASSUME CutInv, [Next]_vars PROVE CutInv' OBVIOUS
<1>0. SmallSize(request) BY SizesAssumption, SizeBounds DEF CutInv, TypeOK
<1>1. CASE CutNext
  <2>1. PICK k \in Nat : cur = 8 * k BY DEF CutInv
  <2>2. PICK j \in Nat : byte_size = 8 * j BY <1>0, RoundupMultiple DEF byte_size
  <2>3. cur' = 8 * (k + j) /\ k + j \in Nat BY <1>1, <2>1, <2>2 DEF CutNext
  <2>4. end' = end BY <1>1 DEF CutNext, end, byte_size
  <2>5. cur' < end' BY <1>1, <2>4 DEF CutNext, MoreRoom
  <2>6. TypeOK' BY <1>1, <2>3 DEF CutNext, CutInv, TypeOK
  <2> QED BY <2>3, <2>5, <2>6 DEF CutInv
<1>2. CASE UNCHANGED vars
  BY <1>2 DEF vars, CutInv, TypeOK, end, byte_size
<1> QED BY <1>1, <1>2 DEF Next

\* The cutting loop of GetOneSpan stays at a multiple of 8 inside its span.
THEOREM CutAlways == Spec => []CutInv
BY CutInvInit, CutInvNext, PTL DEF Spec

\* GetOneSpan never writes a link past the end of the span it cuts, whatever the
\* sizes requested (CentralCache.cpp:42-48).
THEOREM LinksStayInside == Spec => []LinksInside
<1>1. CutInv => LinksInside
  <2> SUFFICES ASSUME CutInv PROVE LinksInside OBVIOUS
  <2>1. SmallSize(request) BY SizesAssumption, SizeBounds DEF CutInv, TypeOK
  <2>2. PICK e \in Nat \ {0} : end = 8 * e BY <2>1, EndOfSpan DEF end, byte_size
  <2>3. PICK k \in Nat : cur = 8 * k BY DEF CutInv
  <2>4. k + 1 <= e BY <2>2, <2>3 DEF CutInv
  <2> QED BY <2>2, <2>3, <2>4 DEF LinksInside, LinkBytes
<1> QED BY <1>1, CutAlways, PTL

\* Every request is served from a list of its group in the table of Common.h.
THEOREM ListsAsInTable == Spec => []IndexTable
<1>1. CutInv => IndexTable
  <2> SUFFICES ASSUME CutInv PROVE IndexTable OBVIOUS
  <2>0. SmallSize(request) BY SizesAssumption, SizeBounds DEF CutInv, TypeOK
  <2>1. request \in Nat /\ 1 <= request BY <2>0, Groups
  <2>2. CASE request <= 128 BY <2>1, <2>2, Group8 DEF IndexTable
  <2>3. CASE 129 <= request /\ request <= 1024 BY <2>1, <2>3, Group16 DEF IndexTable
  <2>4. CASE 1025 <= request /\ request <= 8192 BY <2>1, <2>4, Group128 DEF IndexTable
  <2>5. CASE 8193 <= request /\ request <= 65536
    BY <2>1, <2>5, Group1024 DEF IndexTable, MAX_BYTES, NLISTS
  <2> QED BY <2>0, <2>2, <2>3, <2>4, <2>5, Groups
<1> QED BY <1>1, CutAlways, PTL

\* Allocate and Deallocate agree on the list of an object.
THEOREM ListsAgree == Spec => []SameList
<1>1. CutInv => SameList
  <2> SUFFICES ASSUME CutInv PROVE SameList OBVIOUS
  <2>1. SmallSize(request) BY SizesAssumption, SizeBounds DEF CutInv, TypeOK
  <2> QED BY <2>1, IndexOfRoundup DEF SameList, byte_size
<1> QED BY <1>1, CutAlways, PTL

\* Rounding up wastes less than an eighth of an object of more than 128 bytes.
LEMMA LittleWaste ==
    ASSUME NEW n, SmallSize(n)
    PROVE  /\ n <= Roundup(n)
           /\ n > 128 => 8 * (Roundup(n) - n) < Roundup(n)
<1>0. n \in Nat /\ 1 <= n BY Groups
<1>1. CASE n <= 128
  BY <1>0, <1>1, Group8
<1>2. CASE 129 <= n /\ n <= 1024
  <2>1. PICK i \in Nat : /\ 16 <= i /\ Roundup(n) = 16 * (i - 16 + 1) + 128
                         /\ n <= Roundup(n) /\ Roundup(n) <= n + 15
    BY <1>0, <1>2, Group16
  <2> QED BY <1>0, <2>1
<1>3. CASE 1025 <= n /\ n <= 8192
  <2>1. PICK i \in Nat : /\ 72 <= i /\ Roundup(n) = 128 * (i - 72 + 1) + 1024
                         /\ n <= Roundup(n) /\ Roundup(n) <= n + 127
    BY <1>0, <1>3, Group128
  <2> QED BY <1>0, <2>1
<1>4. CASE 8193 <= n /\ n <= 65536
  <2>1. PICK i \in Nat : /\ 128 <= i /\ Roundup(n) = 1024 * (i - 128 + 1) + 8192
                         /\ n <= Roundup(n) /\ Roundup(n) <= n + 1023
    BY <1>0, <1>4, Group1024
  <2> QED BY <1>0, <2>1
<1> QED BY <1>1, <1>2, <1>3, <1>4, Groups

\* The objects moved at once are of at most 128 KB.
LEMMA MoveFits ==
    ASSUME NEW n, SmallSize(n)
    PROVE  NumMoveSize(n) * n \in Nat /\ NumMoveSize(n) * n <= 131072
<1>0. n \in Nat /\ 1 <= n /\ n <= 65536 BY DEF SmallSize
<1>1. PICK q \in Nat : MAX_BYTES \div n = q /\ q * n <= 65536
  BY <1>0 DEF MAX_BYTES
<1>2. CASE q < 2
  BY <1>0, <1>1, <1>2 DEF NumMoveSize, Clamp
<1>3. CASE 2 <= q /\ q <= 512
  BY <1>0, <1>1, <1>3 DEF NumMoveSize, Clamp
<1>4. CASE q > 512
  <2>1. NumMoveSize(n) = 512
    BY <1>1, <1>4 DEF NumMoveSize, Clamp
  <2>2. 512 * n <= q * n
    BY <1>0, <1>1, <1>4
  <2> QED BY <1>0, <1>1, <2>1, <2>2
<1> QED BY <1>1, <1>2, <1>3, <1>4

\* The PageCache has a list for every span that is asked for.
LEMMA SpanFits ==
    ASSUME NEW n, SmallSize(n)
    PROVE  NumMovePage(n) \in 1..(NPAGES - 1)
<1>1. PICK b \in Nat : NumMoveSize(n) * n = b /\ b <= 131072
  BY MoveFits
<1>2. b \div 4096 \in Nat /\ b \div 4096 <= 32
  BY <1>1
<1> QED BY <1>1, <1>2 DEF NumMovePage, PageBytes, NPAGES

\* What the rounding promises to the rest of the pool holds of every request: one
\* size to a list, little waste, and a span that PageCache::NewSpan can deliver
\* (its assert(n < NPAGES), PageCache.cpp:69).
THEOREM RoundingKeepsPromises == Spec => []SizesFit
<1>1. CutInv => SizesFit
  <2> SUFFICES ASSUME CutInv PROVE SizesFit OBVIOUS
  <2>1. request \in 1..MAX_BYTES BY SizesAssumption DEF CutInv, TypeOK
  <2>2. SmallSize(request) BY <2>1, SizeBounds
  <2>3. OneSizePerList
    <3> SUFFICES ASSUME request < MAX_BYTES
                 PROVE  Index(request + 1) = Index(request)
                            <=> Roundup(request + 1) = Roundup(request)
      BY DEF OneSizePerList
    <3>1. MAX_BYTES = 65536 BY DEF MAX_BYTES
    <3>2. MAX_BYTES \in Nat BY <3>1
    <3>3. request + 1 \in 1..MAX_BYTES BY <2>1, <3>2
    <3> QED BY <2>1, <3>3, ListsHoldOneSize
  <2>4. Waste BY <2>2, LittleWaste, RoundupMultiple DEF Waste, byte_size, SmallSize
  <2>5. SpanIsPossible BY <2>2, RoundupMultiple, SpanFits DEF SpanIsPossible, byte_size
  <2> QED BY <2>3, <2>4, <2>5 DEF SizesFit
<1> QED BY <1>1, CutAlways, PTL
=============================================================================
