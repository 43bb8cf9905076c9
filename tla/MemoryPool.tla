----------------------------- MODULE MemoryPool -----------------------------
(***************************************************************************)
(* The concurrent memory pool (ConcurrentMemoryPool/): a ThreadCache per   *)
(* thread, the CentralCache with one locked list of spans per size class,  *)
(* and the PageCache with one lock, its lists of free spans by length and  *)
(* the map from page numbers to spans.                                     *)
(*                                                                         *)
(* Memory is a row of numbered pages.  An object of a small size class is  *)
(* one page, named by its number, so a span of n pages is cut into n       *)
(* objects (module SizeClass has the real sizes).  A step is a critical    *)
(* section, or what a thread does between two of them.                     *)
(***************************************************************************)
EXTENDS Integers, Sequences, FiniteSets, SequencesExt, Functions

CONSTANTS
    Threads,
    Classes,      \* the size classes of objects up to MAX_BYTES
    NumMovePage,  \* pages of a span, per class
    NumMoveSize,  \* most objects moved to a ThreadCache at once, per class
    BigSizes,     \* lengths in pages of the objects beyond MAX_BYTES
    MaxPage,      \* NPAGES - 1, the longest span the PageCache keeps
    MaxRegions,   \* bound: regions of MaxPage pages taken from the system
    MaxLive,      \* bound: objects in use at a time
    Rehash,       \* does an insertion without the lock, or a find, overlapping
                  \* an insertion go wrong?
    None

ASSUME PoolAssumption ==
    /\ {MaxPage, MaxRegions} \subseteq Nat \ {0} /\ MaxLive \in Nat
    /\ NumMovePage \in [Classes -> 1..MaxPage]
    /\ NumMoveSize \in [Classes -> Nat \ {0}]
    /\ BigSizes \subseteq Nat \ {0} /\ Rehash \in BOOLEAN
    /\ None \notin Threads \cup Classes

\* The regions of the PageCache lie side by side, from page 1 on; an object of
\* more than MaxPage pages gets a region of its own, at HugeBase.
Page == 1..(MaxPage * MaxRegions)
HugeBase == MaxPage * MaxRegions + 2
Keys == Page \cup {HugeBase}
HugeSpan == MaxPage * MaxRegions + 1
SpanId == 1..HugeSpan
NoSpan == 0
Length == 1..MaxPage

VARIABLES
    span,        \* the Span objects; npage = 0 where none exists
    idspanmap,   \* _idspanmap; NoSpan where there is no entry
    pagelist,    \* PageCache::_spanlist
    central,     \* CentralCache::_spanlist
    bucket,      \* the thread that holds the lock of a class
    freelist,    \* _freelist of each ThreadCache
    maxsize,     \* its _maxsize
    regions,     \* regions taken from the system
    growing,     \* the thread that is filling _idspanmap for a new region, with
                 \* the lock of the PageCache
    live,        \* history: what the users hold, [addr, n]
    pc,          \* what each thread is in the middle of
    failed       \* "lookup": assert(false) in MapObjectToSpan was reached;
                 \* "race": two changes of _idspanmap overlapped;
                 \* "erase": SpanList::Erase was given span s, which is in no list

pageVars == <<span, idspanmap, pagelist>>
vars == <<pageVars, central, bucket, freelist, maxsize, regions, growing, live,
          pc, failed>>

NullSpan == [pageid |-> 0, npage |-> 0, list |-> <<>>, objsize |-> None,
             usecount |-> 0]
Idle == [at |-> "idle"]
Failure(what, s) == [what |-> what, s |-> s]
Sound == failed.what = None
\* After a failure the program is gone, or anything may happen: no more steps.
At(t, label) == Sound /\ pc[t].at = label
Reached(label) == {t \in Threads : pc[t].at = label}

Init ==
    /\ span = [s \in SpanId |-> NullSpan]
    /\ idspanmap = [p \in Keys |-> NoSpan]
    /\ pagelist = [n \in Length |-> <<>>]
    /\ central = [c \in Classes |-> <<>>]
    /\ bucket = [c \in Classes |-> None]
    /\ freelist = [t \in Threads |-> [c \in Classes |-> <<>>]]
    /\ maxsize = [t \in Threads |-> [c \in Classes |-> 1]]
    /\ regions = 0
    /\ growing = None
    /\ live = {}
    /\ pc = [t \in Threads |-> Idle]
    /\ failed = Failure(None, NoSpan)

\* new Span takes any free piece of memory; the lowest is as good as any other.
NewId(spans) == CHOOSE s \in SpanId \ {HugeSpan} :
    spans[s].npage = 0 /\ \A r \in SpanId : r < s => spans[r].npage # 0
PagesOf(s) == s.pageid..(s.pageid + s.npage - 1)
Erase(list, s) == SelectSeq(list, LAMBDA r : r # s)
PushFront(list, s) == <<s>> \o list
----------------------------------------------------------------------------
(* PageCache.  Its operations work on a record of the three variables and  *)
(* of "failed".                                                            *)

PageCache == [span |-> span, map |-> idspanmap, list |-> pagelist, failed |-> failed]

\* A huge object enters a new key in the map, for which it takes no lock.
InsertsUnlocked == Reached("insertHuge") # {} /\ idspanmap[HugeBase] = NoSpan

\* What is done to the map meanwhile, even with the lock, is a data race.
SetPageCache(P) ==
    /\ span' = P.span /\ idspanmap' = P.map /\ pagelist' = P.list
    /\ failed' \in {P.failed} \cup
           (IF Rehash /\ InsertsUnlocked /\ P.map # idspanmap
            THEN {Failure("race", NoSpan)} ELSE {})

Remap(map, pages, s) == [p \in DOMAIN map |-> IF p \in pages THEN s ELSE map[p]]

\* The shortest list with a span of at least n pages.
Fits(P, n) == {i \in Length : i >= n /\ P.list[i] # <<>>}
BestFit(P, n) == CHOOSE i \in Fits(P, n) : \A j \in Fits(P, n) : i <= j

\* mutant: the rest is as long as the span was
RestKeepsLength(old, n) == [old EXCEPT !.pageid = @ + n]
\* What is left of a span when n pages are taken from its front.
Rest(old, n) == [old EXCEPT !.pageid = @ + n, !.npage = @ - n]

\* _NewSpan when a span fits: the first n pages of it become the new span.
NewSpan(P, n) ==
    LET i == BestFit(P, n)
        s == Head(P.list[i])
        new == NewId(P.span)
        old == P.span[s]
        front == [NullSpan EXCEPT !.pageid = old.pageid, !.npage = n]
        popped == [P.list EXCEPT ![i] = Tail(@)]
    IN
    IF i = n THEN [id |-> s, P |-> [P EXCEPT !.list = popped]]
    ELSE [id |-> new,
          P |-> [P EXCEPT !.span = [@ EXCEPT ![s] = Rest(old, n), ![new] = front],
                          !.map = Remap(@, PagesOf(front), new),
                          !.list = [popped EXCEPT ![i - n] = PushFront(@, s)]]]

\* The part of _NewSpan that takes another region from the system.
Grown(P) ==
    LET new == NewId(P.span)
        region == [NullSpan EXCEPT !.pageid = MaxPage * regions + 1,
                                   !.npage = MaxPage]
    IN  [P EXCEPT !.span[new] = region,
                  !.map = Remap(@, PagesOf(region), new),
                  !.list[MaxPage] = PushFront(@, new)]

\* The span of a key, NoSpan when the map has none.
Find(P, p) == IF p \in Keys THEN P.map[p] ELSE NoSpan

\* mutant: a neighbour is merged whether it is in use or not
FreeNeighbourAny(P, s) == s # NoSpan
FreeNeighbour(P, s) == s # NoSpan /\ P.span[s].usecount = 0

\* mutant: the pages of the span that is swallowed keep their entries
JoinForgetsMap(P, into, from, pages) ==
    [P EXCEPT !.span = [@ EXCEPT ![into].npage = @ + P.span[from].npage,
                                 ![from] = NullSpan]]
\* Span "into" swallows the pages of span "from", which is deleted.
Join(P, into, from, pages) ==
    [P EXCEPT !.span = [@ EXCEPT ![into].npage = @ + P.span[from].npage,
                                 ![from] = NullSpan],
              !.map = Remap(@, pages, into)]

\* _spanlist[s->_npage].Erase(s).  The links of a span in no list are null or
\* left over from another list, so nothing can be said of what follows.
Listed(P, s) == P.span[s].npage \in Length /\ s \in ToSet(P.list[P.span[s].npage])
Unlink(P, s) == [P EXCEPT !.list[P.span[s].npage] = Erase(@, s)]
WildErase(x, s) == [x EXCEPT !.P.failed = Failure("erase", s)]

\* One round of the loop that merges with the span before x.cur; x itself when
\* the loop would stop.
MergeBack(x) ==
    LET P == x.P
        cur == P.span[x.cur]
        prev == Find(P, cur.pageid - 1)
    IN
    IF P.failed.what # None \/ ~FreeNeighbour(P, prev) \/ cur.npage + P.span[prev].npage > MaxPage
    THEN x
    ELSE IF ~Listed(P, prev) THEN WildErase(x, prev)
    ELSE [cur |-> prev, P |-> Join(Unlink(P, prev), prev, x.cur, PagesOf(cur))]

\* mutant: no merging with the span after
MergeForwardNever(x) == x
\* One round of the loop that merges with the span after x.cur.
MergeForward(x) ==
    LET P == x.P
        cur == P.span[x.cur]
        next == Find(P, cur.pageid + cur.npage)
    IN
    IF P.failed.what # None \/ ~FreeNeighbour(P, next) \/ cur.npage + P.span[next].npage >= MaxPage
    THEN x
    ELSE IF ~Listed(P, next) THEN WildErase(x, next)
    ELSE [cur |-> x.cur,
          P |-> Join(Unlink(P, next), x.cur, next, PagesOf(P.span[next]))]

\* ReleaseSpanToPageCache.
Release(P, s) ==
    LET back[k \in 0..MaxPage] ==
            IF k = 0 THEN [P |-> P, cur |-> s] ELSE MergeBack(back[k - 1])
        forward[k \in 0..MaxPage] ==
            IF k = 0 THEN back[MaxPage] ELSE MergeForward(forward[k - 1])
        x == forward[MaxPage]
    IN  [x.P EXCEPT !.list[x.P.span[x.cur].npage] = PushFront(@, x.cur)]

\* A span is cut again, or becomes a big object, before its fields are read again.
Uncut(P, s) == [P EXCEPT !.span[s] = [@ EXCEPT !.list = <<>>, !.objsize = None]]

\* MapObjectToSpan, called without the lock of the PageCache.
MapObjectToSpan(o) ==
    {Find(PageCache, o)}
    \cup (IF Rehash /\ (growing # None \/ InsertsUnlocked) THEN {NoSpan} ELSE {})
----------------------------------------------------------------------------
(* Allocation of small objects *)

\* The objects a user, a ThreadCache or a thread that gives them back holds.
Use(objs) == live' = live \cup {[addr |-> o, n |-> 1] : o \in objs}

\* ThreadCache::Allocate finds an object in its own list.
AllocCached(t, c) ==
    /\ At(t, "idle") /\ Cardinality(live) < MaxLive
    /\ freelist[t][c] # <<>>
    /\ Use({Head(freelist[t][c])})
    /\ freelist' = [freelist EXCEPT ![t][c] = Tail(@)]
    /\ UNCHANGED <<pageVars, central, bucket, maxsize, regions, growing, pc, failed>>

\* The first span of the class with an object.
Usable(c) == {i \in 1..Len(central[c]) : span[central[c][i]].list # <<>>}
FirstUsable(c) ==
    central[c][CHOOSE i \in Usable(c) : \A j \in Usable(c) : i <= j]

Min2(a, b) == IF a < b THEN a ELSE b

\* mutant: only the object returned to the user is counted
BatchUseCountOne(batch) == 1
BatchUseCount(batch) == Len(batch)

\* mutant: the first object is kept as well, PushRange(start, end, n)
KeptWhole(batch) == batch
\* What PushRange puts in the ThreadCache: all but the object for the user.
Kept(batch) == Tail(batch)

\* The rest of FetchRangeObj and FetchFromCentralCache, with span s of "spans"
\* in the list "lists": a batch leaves the span, its first object goes to the
\* user and the others to the ThreadCache.
Take(t, c, spans, lists, s) ==
    LET objs == spans[s].list
        n == Min2(Min2(NumMoveSize[c], maxsize[t][c]), Len(objs))
        batch == SubSeq(objs, 1, n)
        left == SubSeq(objs, n + 1, Len(objs))
    IN
    /\ span' = [spans EXCEPT ![s].list = left,
                             ![s].usecount = @ + BatchUseCount(batch)]
    /\ central' = [central EXCEPT ![c] =
                      IF left = <<>> THEN Append(Erase(lists, s), s) ELSE lists]
    /\ Use({batch[1]})
    /\ freelist' = [freelist EXCEPT ![t][c] = Kept(batch) \o @]
    /\ maxsize' = [maxsize EXCEPT ![t][c] = IF n >= @ THEN @ + 1 ELSE @]

Fetching(t, c) ==
    /\ At(t, "idle") /\ Cardinality(live) < MaxLive
    /\ freelist[t][c] = <<>> /\ bucket[c] = None

\* FetchRangeObj when GetOneSpan finds a span with objects.
AllocFetch(t, c) ==
    /\ Fetching(t, c)
    /\ Usable(c) # {}
    /\ Take(t, c, span, central[c], FirstUsable(c))
    /\ UNCHANGED <<idspanmap, pagelist, bucket, regions, growing, pc, failed>>

\* GetOneSpan gets a new span from the PageCache, whose lock it releases with
\* _usecount still 0; the lock of the class is kept.
AllocNewSpan(t, c) ==
    /\ Fetching(t, c)
    /\ Usable(c) = {} /\ growing = None
    /\ Fits(PageCache, NumMovePage[c]) # {}
    /\ LET new == NewSpan(PageCache, NumMovePage[c]) IN
       /\ SetPageCache(new.P)
       /\ pc' = [pc EXCEPT ![t] = [at |-> "cut", c |-> c, s |-> new.id,
                                   pages |-> PagesOf(new.P.span[new.id])]]
    /\ bucket' = [bucket EXCEPT ![c] = t]
    /\ UNCHANGED <<central, freelist, maxsize, regions, growing, live>>

\* The PageCache has no span for it and starts to add a region.
AllocGrow(t, c) ==
    /\ Fetching(t, c)
    /\ Usable(c) = {} /\ growing = None
    /\ Fits(PageCache, NumMovePage[c]) = {}
    /\ regions < MaxRegions
    /\ growing' = t
    /\ bucket' = [bucket EXCEPT ![c] = t]
    /\ pc' = [pc EXCEPT ![t] = [at |-> "grow", c |-> c]]
    /\ UNCHANGED <<pageVars, central, freelist, maxsize, regions, live, failed>>

\* The region is in the map and _NewSpan(n) is called again.
GrowDone(t) ==
    /\ At(t, "grow")
    /\ LET new == NewSpan(Grown(PageCache), NumMovePage[pc[t].c]) IN
       /\ SetPageCache(new.P)
       /\ pc' = [pc EXCEPT ![t] = [at |-> "cut", c |-> pc[t].c, s |-> new.id,
                                   pages |-> PagesOf(new.P.span[new.id])]]
    /\ regions' = regions + 1
    /\ growing' = None
    /\ UNCHANGED <<central, bucket, freelist, maxsize, live>>

\* GetOneSpan cuts the new span into objects and puts it in front of the list.
Cut(t) ==
    /\ At(t, "cut")
    /\ LET c == pc[t].c
           s == pc[t].s
           cut == [span EXCEPT ![s].objsize = c, ![s].list =
                      [i \in 1..span[s].npage |-> span[s].pageid + i - 1]]
       IN  /\ Take(t, c, cut, PushFront(central[c], s), s)
           /\ bucket' = [bucket EXCEPT ![c] = None]
    /\ pc' = [pc EXCEPT ![t] = Idle]
    /\ UNCHANGED <<idspanmap, pagelist, regions, growing, failed>>
----------------------------------------------------------------------------
(* Objects beyond MAX_BYTES.  They never have a use count. *)

SetBig(P, s) == [P EXCEPT !.span[s].objsize = "big"]
UseBig(addr, n) == live' = live \cup {[addr |-> addr, n |-> n]}

AllocBig(t, n) ==
    /\ At(t, "idle") /\ Cardinality(live) < MaxLive
    /\ n <= MaxPage /\ growing = None
    /\ Fits(PageCache, n) # {}
    /\ LET new == NewSpan(PageCache, n) IN
       /\ SetPageCache(SetBig(new.P, new.id))
       /\ UseBig(new.P.span[new.id].pageid, n)
    /\ UNCHANGED <<central, bucket, freelist, maxsize, regions, growing, pc>>

AllocBigGrow(t, n) ==
    /\ At(t, "idle") /\ Cardinality(live) < MaxLive
    /\ n <= MaxPage /\ growing = None
    /\ Fits(PageCache, n) = {}
    /\ regions < MaxRegions
    /\ growing' = t
    /\ pc' = [pc EXCEPT ![t] = [at |-> "growBig", n |-> n]]
    /\ UNCHANGED <<pageVars, central, bucket, freelist, maxsize, regions, live, failed>>

BigGrowDone(t) ==
    /\ At(t, "growBig")
    /\ LET new == NewSpan(Grown(PageCache), pc[t].n) IN
       /\ SetPageCache(SetBig(new.P, new.id))
       /\ UseBig(new.P.span[new.id].pageid, pc[t].n)
    /\ regions' = regions + 1
    /\ growing' = None
    /\ pc' = [pc EXCEPT ![t] = Idle]
    /\ UNCHANGED <<central, bucket, freelist, maxsize>>

\* More pages than the PageCache keeps: straight from the system.
AllocHuge(t, n) ==
    /\ At(t, "idle") /\ Cardinality(live) < MaxLive
    /\ n > MaxPage
    /\ Reached("insertHuge") = {} /\ \A m \in live : m.addr # HugeBase
    /\ span' = [span EXCEPT ![HugeSpan] =
                   [NullSpan EXCEPT !.pageid = HugeBase, !.npage = n,
                                    !.objsize = "big"]]
    /\ pc' = [pc EXCEPT ![t] = [at |-> "insertHuge"]]
    /\ UNCHANGED <<idspanmap, pagelist, central, bucket, freelist, maxsize, regions,
                   growing, live, failed>>

\* Only its first page enters the map, and without the lock.
InsertHuge(t) ==
    /\ At(t, "insertHuge")
    /\ idspanmap' = [idspanmap EXCEPT ![HugeBase] = HugeSpan]
    /\ failed' \in {failed} \cup
           (IF Rehash /\ InsertsUnlocked /\ growing # None
            THEN {Failure("race", NoSpan)} ELSE {})
    /\ UseBig(HugeBase, span[HugeSpan].npage)
    /\ pc' = [pc EXCEPT ![t] = Idle]
    /\ UNCHANGED <<span, pagelist, central, bucket, freelist, maxsize, regions, growing>>
----------------------------------------------------------------------------
(* ConcurrentFree.  Any thread may free an object, wherever it came from. *)

\* ThreadCache::Deallocate, with the class the span of the object tells.
FreeSmall(t, m) ==
    /\ At(t, "idle")
    /\ m \in live
    /\ \E s \in MapObjectToSpan(m.addr) \ {NoSpan} :
       LET c == span[s].objsize
           list == <<m.addr>> \o freelist[t][c]
           tooLong == Len(list) >= maxsize[t][c]
       IN
       /\ c \in Classes
       /\ freelist' = [freelist EXCEPT ![t][c] = IF tooLong THEN <<>> ELSE list]
       /\ pc' = [pc EXCEPT ![t] = IF tooLong
                                  THEN [at |-> "tooLong", c |-> c, list |-> list]
                                  ELSE Idle]
    /\ live' = live \ {m}
    /\ UNCHANGED <<pageVars, central, bucket, maxsize, regions, growing, failed>>

\* mutant: every big object but the shortest goes straight back to the system
ReturnedToPageCacheNever(n) == n < 2
\* FreeBigPageObj's test npage < NPAGES.
ReturnedToPageCache(n) == n <= MaxPage

\* FreeBigPageObj of an object that came from NewSpan.
FreeBig(t, m) ==
    /\ At(t, "idle")
    /\ m \in live
    /\ growing = None
    /\ \E s \in MapObjectToSpan(m.addr) \ {NoSpan} :
       /\ span[s].objsize = "big" /\ ReturnedToPageCache(m.n)
       /\ SetPageCache(Release(Uncut(PageCache, s), s))
    /\ live' = live \ {m}
    /\ UNCHANGED <<central, bucket, freelist, maxsize, regions, growing, pc>>

\* FreeBigPageObj of the others, without the lock.  It erases the key "npage",
\* which no page has, so the entry of the first page stays.
FreeHuge(t, m) ==
    /\ At(t, "idle")
    /\ m \in live
    /\ \E s \in MapObjectToSpan(m.addr) \ {NoSpan} :
       /\ span[s].objsize = "big" /\ ~ReturnedToPageCache(m.n)
       /\ span' = [span EXCEPT ![s] = NullSpan]
    /\ live' = live \ {m}
    /\ UNCHANGED <<idspanmap, pagelist, central, bucket, freelist, maxsize, regions,
                   growing, pc, failed>>

\* The find misses its key: assert(false).
LookupFails(t) ==
    /\ \/ /\ At(t, "idle")
          /\ \E m \in live : NoSpan \in MapObjectToSpan(m.addr)
       \/ /\ At(t, "release")
          /\ NoSpan \in MapObjectToSpan(Head(pc[t].list))
    /\ failed' = Failure("lookup", NoSpan)
    /\ UNCHANGED <<pageVars, central, bucket, freelist, maxsize, regions, growing,
                   live, pc>>

\* ReleaseListToSpans takes the lock of the class.
ReleaseListToSpans(t) ==
    /\ At(t, "tooLong")
    /\ bucket[pc[t].c] = None
    /\ bucket' = [bucket EXCEPT ![pc[t].c] = t]
    /\ pc' = [pc EXCEPT ![t].at = "release"]
    /\ UNCHANGED <<pageVars, central, freelist, maxsize, regions, growing, live, failed>>

\* After an object: the next one, or the end of the critical section.
ReleaseRest(t, c, list) ==
    /\ pc' = [pc EXCEPT ![t] = IF list = <<>> THEN Idle
                               ELSE [at |-> "release", c |-> c, list |-> list]]
    /\ bucket' = [bucket EXCEPT ![c] = IF list = <<>> THEN None ELSE t]

\* mutant: the span is given back one object early
LastOneBackEarly(s) == span[s].usecount <= 2
\* --_usecount == 0
LastOneBack(s) == span[s].usecount = 1

\* One object goes back to its span.  When it was the last one out, the span
\* leaves the list of its class, and the PageCache is called.
ReleaseOne(t) ==
    /\ At(t, "release")
    /\ LET c == pc[t].c
           o == Head(pc[t].list)
           rest == Tail(pc[t].list)
       IN  \E s \in MapObjectToSpan(o) \ {NoSpan} :
           /\ span' = [span EXCEPT ![s].list = PushFront(@, o), ![s].usecount = @ - 1]
           /\ IF LastOneBack(s)
              THEN /\ central' = [central EXCEPT ![c] = Erase(@, s)]
                   /\ pc' = [pc EXCEPT ![t] = [at |-> "giveBack", c |-> c, list |-> rest,
                                               s |-> s, pages |-> PagesOf(span[s])]]
                   /\ UNCHANGED bucket
              ELSE /\ ReleaseRest(t, c, rest)
                   /\ UNCHANGED central
    /\ UNCHANGED <<idspanmap, pagelist, freelist, maxsize, regions, growing, live, failed>>

GiveBack(t) ==
    /\ At(t, "giveBack")
    /\ growing = None
    /\ SetPageCache(Release(Uncut(PageCache, pc[t].s), pc[t].s))
    /\ ReleaseRest(t, pc[t].c, pc[t].list)
    /\ UNCHANGED <<central, freelist, maxsize, regions, growing, live>>
----------------------------------------------------------------------------
Next ==
    \E t \in Threads :
        \/ \E c \in Classes :
              \/ AllocCached(t, c) \/ AllocFetch(t, c)
              \/ AllocNewSpan(t, c) \/ AllocGrow(t, c)
        \/ GrowDone(t) \/ Cut(t)
        \/ \E n \in BigSizes : AllocBig(t, n) \/ AllocBigGrow(t, n) \/ AllocHuge(t, n)
        \/ BigGrowDone(t) \/ InsertHuge(t)
        \/ \E m \in live : FreeSmall(t, m) \/ FreeBig(t, m) \/ FreeHuge(t, m)
        \/ LookupFails(t)
        \/ ReleaseListToSpans(t) \/ ReleaseOne(t) \/ GiveBack(t)

Spec == Init /\ [][Next]_vars
----------------------------------------------------------------------------
(* Properties *)

FreeSpans == UNION {ToSet(pagelist[n]) : n \in Length}
FreePages == UNION {PagesOf(span[s]) : s \in FreeSpans}
LivePages == UNION {m.addr..(m.addr + m.n - 1) : m \in live}
\* Pages of a span a thread has and nobody else knows of.
Moving == Reached("cut") \cup Reached("giveBack")
HeldPages == UNION {pc[t].pages : t \in Moving}
CachedLists == {freelist[t][c] : t \in Threads, c \in Classes}
ReturnedLists == {pc[t].list : t \in {u \in Threads :
                                        pc[u].at \in {"tooLong", "release", "giveBack"}}}
\* The objects out of the CentralCache.
Out == LivePages \cup UNION {ToSet(l) : l \in CachedLists \cup ReturnedLists}

\* The type invariant: spans, lists and what the threads are doing.
TypeOK ==
    /\ \A s \in SpanId : /\ span[s].usecount \in Nat
                         /\ span[s].objsize \in Classes \cup {"big", None}
    /\ idspanmap \in [Keys -> SpanId \cup {NoSpan}]
    /\ \A n \in Length : ToSet(pagelist[n]) \subseteq SpanId
    /\ \A c \in Classes : ToSet(central[c]) \subseteq SpanId
    /\ bucket \in [Classes -> Threads \cup {None}]
    /\ maxsize \in [Threads -> [Classes -> Nat]]
    /\ regions \in 0..MaxRegions
    /\ growing \in Threads \cup {None}
    /\ failed \in [what : {None, "lookup", "race", "erase"}, s : SpanId \cup {NoSpan}]

\* README.md:270: the PageCache merges adjacent free pages.  Memory that a user
\* holds, that a ThreadCache keeps or that a thread is about to cut is never
\* part of a span that the PageCache will hand out again.
NothingInUseIsFree == FreePages \cap (Out \cup HeldPages) = {}

BigLive == {s \in SpanId : span[s].npage > 0 /\ span[s].objsize = "big"}
\* The spans in use that _usecount does not show to be: of big objects, and of
\* small ones before the first batch is counted and after the last is back.
Uncounted == BigLive \cup {pc[t].s : t \in Moving}

\* PageCache.cpp:170: a neighbour is merged when it is idle, that is when it lies
\* in the PageCache's own lists, from which the merge takes it.
ErasesListed == failed.what # "erase"

\* An object is in one place: with a user, in a ThreadCache, on its way back, or
\* in the list of its span, and there once.
OneOwner ==
    LET lists == [l \in {<<"cache", t, c>> : t \in Threads, c \in Classes}
                     \cup {<<"back", t>> : t \in Threads}
                     \cup {<<"span", s>> : s \in UNION {ToSet(central[c]) : c \in Classes}} |->
                     CASE l[1] = "cache" -> freelist[l[2]][l[3]]
                       [] l[1] = "back" -> IF pc[l[2]].at \in {"tooLong", "release", "giveBack"}
                                           THEN pc[l[2]].list ELSE <<>>
                       [] l[1] = "span" -> span[l[2]].list]
    IN  /\ \A k \in DOMAIN lists : IsInjective(lists[k])
        /\ \A k, l \in DOMAIN lists : k # l => ToSet(lists[k]) \cap ToSet(lists[l]) = {}
        /\ \A k \in DOMAIN lists : ToSet(lists[k]) \cap LivePages = {}

\* _usecount is the number of the span's objects that are out, so it reaches 0
\* exactly when the last one is back.
UseCountExact ==
    \A c \in Classes : \A s \in ToSet(central[c]) :
        /\ span[s].usecount > 0
        /\ span[s].usecount = Cardinality(PagesOf(span[s]) \cap Out)

\* The map leads from every page of a region to the span it is part of, though
\* splitting and merging rewrite it in pieces.
MapExact ==
    \A p \in 1..(MaxPage * regions) :
        idspanmap[p] # NoSpan /\ p \in PagesOf(span[idspanmap[p]])

\* The books of the pool are right: every object has one owner, every use count
\* and every entry of the page map says what the lists say.
BooksExact == TypeOK /\ (Sound => OneOwner /\ UseCountExact /\ MapExact)

\* ReleaseSpanToPageCache merges free memory only.  What it gives back is in
\* nobody's hands, and the only spans it can mistake for free ones, which ends
\* the program's sound behaviour, are those whose use no count shows.
MergesSafe ==
    /\ Sound => NothingInUseIsFree
    /\ failed.what = "erase" => failed.s \in Uncounted

\* How many hold page p: lists of the PageCache and of the CentralCache, users of
\* big objects, and threads that move a span between them.
Holders(p) ==
    LET In(s) == p \in PagesOf(span[s]) IN
    Cardinality({at \in Length \X SpanId :
                    at[2] <= Len(pagelist[at[1]]) /\ In(pagelist[at[1]][at[2]])})
    + Cardinality({at \in Classes \X SpanId :
                    at[2] <= Len(central[at[1]]) /\ In(central[at[1]][at[2]])})
    + Cardinality({m \in live : p \in m.addr..(m.addr + m.n - 1)
                                /\ idspanmap[m.addr] \in BigLive})
    + Cardinality({t \in Moving : p \in pc[t].pages})

\* The memory of a region is conserved through splits and merges: no page of it is
\* lost, and none has two holders.
EachPageOnce ==
    Sound => \A p \in 1..(MaxPage * regions) : Holders(p) = 1

Adjacent(s, r) == span[s].pageid + span[s].npage = span[r].pageid

\* ReleaseSpanToPageCache merges on both sides as far as its limits allow: the
\* span that holds the returned pages afterwards has no free neighbour with which
\* it would be shorter than a region.  (Splitting may leave free neighbours: the
\* rest of a span that was too long to be merged with the one after it.)
ReleaseMerges ==
    [][\A t \in Threads :
          pc[t].at = "giveBack" /\ pc'[t] # pc[t] /\ Sound' =>
              \A s, r \in FreeSpans' :
                  /\ Adjacent(s, r)'
                  /\ \/ pc[t].pages \subseteq PagesOf(span'[s])
                     \/ pc[t].pages \subseteq PagesOf(span'[r])
                  => span'[s].npage + span'[r].npage >= MaxPage]_vars

\* PageCache.cpp:218: spans are not merged when that exceeds 128 pages; so up to
\* 128 pages they are.
CoalescedFully ==
    \A s, r \in FreeSpans :
        Adjacent(s, r) => span[s].npage + span[r].npage > MaxPage

\* PageCache.cpp:147: before memory goes back to the system, its entry leaves
\* the map: no entry leads to a deleted span.
NoDanglingEntry ==
    \A p \in Keys : idspanmap[p] # NoSpan => span[idspanmap[p]].npage > 0

\* PageCache.cpp:132: assert(false) is not reached, every object has a span.
ObjectsHaveSpans == failed.what # "lookup"
=============================================================================
