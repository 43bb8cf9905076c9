-------------------------- MODULE TcpReleaseProofs --------------------------
(***************************************************************************)
(* Proofs about how connections end: a connection that is closed or        *)
(* destroyed is out of reach of what may still run, and what one thread    *)
(* asked of another is under way until it is done.                         *)
(*                                                                         *)
(* The inductive invariant is Sys of TcpServerProofs with Reach: when the  *)
(* loops are told to quit, and for each connection what is queued for it   *)
(* (Releasing) and what a shutdown() waits for (Shutting).  A step that    *)
(* leaves all of this alone for a connection is Calm; each action has a    *)
(* lemma for the connection it is about, and the others are calm.  Owes    *)
(* adds which eventfds a thread may still have to write, and in which      *)
(* order the loops end.                                                    *)
(***************************************************************************)
EXTENDS TcpServerProofs

-----------------------------------------------------------------------------
(* What is queued for a connection.                                          *)

Holds(s, f) == \E i \in 1..Len(s) : s[i] = f
Has(l, do, c) == Holds(Rest(l), Bound(do, c))

\* A functor is in a queue that was appended to if it was in it or is appended.
LEMMA HoldsConcat ==
    ASSUME NEW s \in Seq(Functors), NEW g \in Seq(Functors), NEW f
    PROVE  Holds(s \o g, f) <=> Holds(s, f) \/ Holds(g, f)
<1>0. Len(s) \in Nat /\ Len(g) \in Nat
  BY LenProperties
<1>1. /\ Len(s \o g) = Len(s) + Len(g)
      /\ \A i \in 1..(Len(s) + Len(g)) : (s \o g)[i] =
            IF i <= Len(s) THEN s[i] ELSE g[i - Len(s)]
  BY ConcatProperties
<1>2. ASSUME Holds(s \o g, f) PROVE Holds(s, f) \/ Holds(g, f)
  <2>1. PICK i \in 1..(Len(s) + Len(g)) : (s \o g)[i] = f
    BY <1>1, <1>2 DEF Holds
  <2>2. CASE i <= Len(s)
    <3>1. i \in 1..Len(s) /\ s[i] = f
      BY <1>0, <1>1, <2>1, <2>2
    <3> QED BY <3>1 DEF Holds
  <2>3. CASE ~(i <= Len(s))
    <3>1. i - Len(s) \in 1..Len(g) /\ g[i - Len(s)] = f
      BY <1>0, <1>1, <2>1, <2>3
    <3> QED BY <3>1 DEF Holds
  <2> QED BY <2>2, <2>3
<1>3. ASSUME Holds(s, f) PROVE Holds(s \o g, f)
  <2>1. PICK i \in 1..Len(s) : s[i] = f
    BY <1>3 DEF Holds
  <2>2. i \in 1..(Len(s) + Len(g)) /\ i <= Len(s)
    BY <1>0
  <2>3. (s \o g)[i] = f /\ i \in 1..Len(s \o g)
    BY <1>1, <2>1, <2>2
  <2> QED BY <2>3 DEF Holds
<1>4. ASSUME Holds(g, f) PROVE Holds(s \o g, f)
  <2>1. PICK i \in 1..Len(g) : g[i] = f
    BY <1>4 DEF Holds
  <2>2. /\ i + Len(s) \in 1..(Len(s) + Len(g)) /\ ~(i + Len(s) <= Len(s))
        /\ i + Len(s) - Len(s) = i
    BY <1>0
  <2>3. (s \o g)[i + Len(s)] = f /\ i + Len(s) \in 1..Len(s \o g)
    BY <1>1, <2>1, <2>2
  <2> QED BY <2>3 DEF Holds
<1> QED BY <1>2, <1>3, <1>4

\* It is in a queue if it is the first or in the rest.
LEMMA HoldsTail ==
    ASSUME NEW s \in Seq(Functors), s # <<>>, NEW f
    PROVE  Holds(s, f) <=> Head(s) = f \/ Holds(Tail(s), f)
<1>0. Len(s) \in Nat \ {0}
  BY EmptySeq, LenProperties
<1>1. /\ Len(Tail(s)) = Len(s) - 1 /\ Head(s) = s[1]
      /\ \A i \in 1..Len(Tail(s)) : Tail(s)[i] = s[i + 1]
  BY HeadTailProperties
<1>2. ASSUME Holds(s, f) PROVE Head(s) = f \/ Holds(Tail(s), f)
  <2>1. PICK i \in 1..Len(s) : s[i] = f
    BY <1>2 DEF Holds
  <2>2. CASE i = 1
    BY <1>1, <2>1, <2>2
  <2>3. CASE i # 1
    <3>1. i - 1 \in 1..Len(Tail(s)) /\ i - 1 + 1 = i
      BY <1>0, <1>1, <2>3
    <3>2. Tail(s)[i - 1] = f
      BY <1>1, <2>1, <3>1
    <3> QED BY <3>1, <3>2 DEF Holds
  <2> QED BY <2>2, <2>3
<1>3. ASSUME Head(s) = f PROVE Holds(s, f)
  <2>1. 1 \in 1..Len(s)
    BY <1>0
  <2> QED BY <1>1, <1>3, <2>1 DEF Holds
<1>4. ASSUME Holds(Tail(s), f) PROVE Holds(s, f)
  <2>1. PICK i \in 1..Len(Tail(s)) : Tail(s)[i] = f
    BY <1>4 DEF Holds
  <2>2. i + 1 \in 1..Len(s) /\ s[i + 1] = f
    BY <1>0, <1>1, <2>1
  <2> QED BY <2>2 DEF Holds
<1> QED BY <1>2, <1>3, <1>4

\* One functor, or none, is queued.
LEMMA HoldsOne ==
    ASSUME NEW f, NEW h
    PROVE  (Holds(<<h>>, f) <=> h = f) /\ ~Holds(<<>>, f)
<1>1. Len(<<h>>) = 1 /\ <<h>>[1] = h /\ 1..1 = {1} /\ 1..Len(<<>>) = {}
  OBVIOUS
<1> QED BY <1>1 DEF Holds

\* What queueInLoop adds.
LEMMA HasGrows ==
    ASSUME QueueInv, NEW t, NEW m \in Loop, NEW g \in Seq(Functors),
           QueueInLoop(t, m, g), UNCHANGED <<pc, functors, ran>>,
           NEW l \in Loop, NEW do, NEW c
    PROVE  Has(l, do, c)' <=> Has(l, do, c) \/ (l = m /\ Holds(g, Bound(do, c)))
<1>1. QueueTypes /\ Rest(m)' = Rest(m) \o g
  BY RestQueue DEF QueueInv
<1>2. l # m => Rest(l)' = Rest(l)
  BY RestQueue DEF QueueInv
<1>3. Rest(l) \in Seq(Functors)
  BY <1>1, RestType
<1>4. PICK r \in Seq(Functors) : r = Rest(l)
  BY <1>3
<1>5. PICK u : u = Rest(l)'
  OBVIOUS
<1>6. (Has(l, do, c) <=> Holds(r, Bound(do, c))) /\ (Has(l, do, c)' <=> Holds(u, Bound(do, c)))
  BY <1>4, <1>5 DEF Has, Holds
<1>7. Holds(u, Bound(do, c)) <=> Holds(r, Bound(do, c)) \/ (l = m /\ Holds(g, Bound(do, c)))
  <2> DEFINE b == Bound(do, c)
  <2>1. CASE l = m
    <3>1. u = r \o g
      BY <1>1, <1>4, <1>5, <2>1
    <3>2. Holds(r \o g, b) <=> Holds(r, b) \/ Holds(g, b)
      BY HoldsConcat
    <3> QED BY <2>1, <3>1, <3>2
  <2>2. CASE l # m
    BY <1>2, <1>4, <1>5, <2>2
  <2> QED BY <2>1, <2>2
<1> QED BY <1>6, <1>7

\* What is left, and added, when a functor is run.
LEMMA HasTakes ==
    ASSUME QueueInv, NEW l \in Loop, TakeFunctor(l),
           NEW t, NEW m \in Loop, NEW g \in Seq(Functors),
           QueueInLoop(t, m, g), UNCHANGED <<pc, functors>>,
           NEW x \in Loop, NEW do, NEW c
    PROVE  /\ Has(x, do, c) => Has(x, do, c)' \/ (x = l /\ Functor(l) = Bound(do, c))
           /\ Has(x, do, c)' => Has(x, do, c) \/ (x = m /\ Holds(g, Bound(do, c)))
           /\ x = m /\ Holds(g, Bound(do, c)) => Has(x, do, c)'
           /\ c = Functor(l).c /\ do = "connectEstablished" /\ Has(l, do, c)' =>
                 l = m /\ Holds(g, Bound(do, c))
           /\ Has(l, Functor(l).do, Functor(l).c)
<1>1. /\ QueueTypes
      /\ Rest(l) # <<>> /\ Head(Rest(l)) = Functor(l) /\ Functor(l) \in Functors
      /\ \A y \in Loop : Rest(y)' =
            (IF y = l THEN Tail(Rest(y)) ELSE Rest(y)) \o (IF y = m THEN g ELSE <<>>)
  BY RestTake DEF QueueInv
<1>f. PICK f \in Functors : f = Functor(l)
  BY <1>1
<1>g. Functor(l) = Bound(Functor(l).do, Functor(l).c)
  BY <1>1 DEF Functors, Bound
\* The queue of any loop: s is left of it, h is put behind.
<1>2. ASSUME NEW y \in Loop
      PROVE  \E r, s, h \in Seq(Functors) :
                /\ r = Rest(y) /\ Rest(y)' = s \o h
                /\ h = IF y = m THEN g ELSE <<>>
                /\ IF y = l THEN r # <<>> /\ Head(r) = f /\ s = Tail(r) ELSE s = r
  <2>1. PICK r \in Seq(Functors) : r = Rest(y)
    BY <1>1, RestType
  <2>2. PICK h \in Seq(Functors) : h = IF y = m THEN g ELSE <<>>
    BY EmptySeq
  <2>3. CASE y = l
    <3>1. Tail(r) \in Seq(Functors) /\ r # <<>> /\ Head(r) = f
      BY <1>1, <1>f, <2>1, <2>3, HeadTailProperties
    <3>2. Rest(y)' = Tail(r) \o h
      BY <1>1, <2>1, <2>2, <2>3
    <3> QED BY <2>1, <2>2, <2>3, <3>1, <3>2
  <2>4. CASE y # l
    <3>1. Rest(y)' = r \o h
      BY <1>1, <2>1, <2>2, <2>4
    <3> QED BY <2>1, <2>2, <2>4, <3>1
  <2> QED BY <2>3, <2>4
<1>3. PICK r, s, h \in Seq(Functors) :
         /\ r = Rest(x) /\ Rest(x)' = s \o h
         /\ h = IF x = m THEN g ELSE <<>>
         /\ IF x = l THEN r # <<>> /\ Head(r) = f /\ s = Tail(r) ELSE s = r
  BY <1>2
<1>4. PICK u : u = Rest(x)' /\ u = s \o h
  BY <1>3
<1>5. (Has(x, do, c) <=> Holds(r, Bound(do, c))) /\ (Has(x, do, c)' <=> Holds(u, Bound(do, c)))
  BY <1>3, <1>4 DEF Has, Holds
<1>b. PICK b : b = Bound(do, c)
  OBVIOUS
<1>6. Holds(u, Bound(do, c)) <=> Holds(s, Bound(do, c)) \/ Holds(h, Bound(do, c))
  BY <1>4, HoldsConcat
<1>7. Holds(h, Bound(do, c)) <=> x = m /\ Holds(g, Bound(do, c))
  BY <1>3, HoldsOne
<1>8. /\ x = l => (Holds(r, Bound(do, c)) <=> f = Bound(do, c) \/ Holds(s, Bound(do, c)))
      /\ x # l => s = r
  <2>1. CASE x = l
    <3>1. r # <<>> /\ Head(r) = f /\ s = Tail(r)
      BY <1>3, <2>1
    <3>2. Holds(r, b) <=> Head(r) = b \/ Holds(Tail(r), b)
      BY <3>1, HoldsTail
    <3> QED BY <1>b, <2>1, <3>1, <3>2
  <2>2. CASE x # l
    BY <1>3, <2>2
  <2> QED BY <2>1, <2>2
<1>9. ASSUME Has(l, "connectEstablished", f.c)'
      PROVE  l = m /\ Holds(g, Bound("connectEstablished", f.c))
  <2>1. PICK r1, s1, h1 \in Seq(Functors) :
           /\ r1 = Rest(l) /\ Rest(l)' = s1 \o h1
           /\ h1 = IF l = m THEN g ELSE <<>>
           /\ r1 # <<>> /\ Head(r1) = f /\ s1 = Tail(r1)
    BY <1>2
  <2>2. PICK u1 : u1 = Rest(l)' /\ u1 = s1 \o h1
    BY <2>1
  <2>3. Holds(u1, Bound("connectEstablished", f.c))
    BY <1>9, <2>2 DEF Has, Holds
  <2>4. Holds(s1, Bound("connectEstablished", f.c)) \/ Holds(h1, Bound("connectEstablished", f.c))
    BY <2>2, <2>3, HoldsConcat
  <2>5. ~Holds(s1, Bound("connectEstablished", f.c))
    <3>1. First(r1)
      BY <2>1 DEF QueueInv
    <3>2. \A j \in 1..Len(s1) : s1[j].do = "connectEstablished" => s1[j].c # f.c
      BY <2>1, <3>1, FirstTail
    <3> QED BY <3>2 DEF Holds, Bound
  <2> QED BY <2>1, <2>4, <2>5, HoldsOne
<1>10. Has(l, Functor(l).do, Functor(l).c)
  <2>1. PICK r1 \in Seq(Functors) : r1 = Rest(l) /\ r1 # <<>> /\ Head(r1) = Functor(l)
    BY <1>1, RestType
  <2>2. Holds(r1, Functor(l))
    BY <2>1, HoldsTail
  <2> QED BY <1>g, <2>1, <2>2 DEF Has, Holds
<1>11. Has(x, do, c) => Has(x, do, c)' \/ (x = l /\ Functor(l) = Bound(do, c))
  BY <1>5, <1>6, <1>8, <1>f
<1>12. Has(x, do, c)' => Has(x, do, c) \/ (x = m /\ Holds(g, Bound(do, c)))
  BY <1>5, <1>6, <1>7, <1>8
<1>13. x = m /\ Holds(g, Bound(do, c)) => Has(x, do, c)'
  BY <1>5, <1>6, <1>7
<1>14. ASSUME c = Functor(l).c, do = "connectEstablished", Has(l, do, c)'
       PROVE  l = m /\ Holds(g, Bound(do, c))
  BY <1>9, <1>14, <1>f
<1> QED BY <1>10, <1>11, <1>12, <1>13, <1>14

-----------------------------------------------------------------------------
(* The inductive invariant.                                                  *)

\* Is a functor queued in some loop?
Due(do, c) == \E l \in Loop : Has(l, do, c)

\* The threads and their loops: a loop of the pool is told to quit, and ends, only
\* when the server is being destroyed.
QuitInv ==
    /\ quit_ \in [Loop -> BOOLEAN] /\ eventfd \in [Loop -> BOOLEAN]
    /\ wakes \in [Thread -> SUBSET Loop] /\ join \in 0..Len(IoLoops)
    /\ \A l \in Loop \ {Main} : quit_[l] \/ pc[l] \in {"left", "gone"} => Leaving

\* A connection whose channel was given to the poller, or that is about to be
\* established, is in connections_ or about to be destroyed in its loop; one that
\* is about to be destroyed has left connections_; one that was reported down
\* is on its way out.
Releasing(c) ==
    /\ conn[c].index # "kNew" \/ Due("connectEstablished", c) =>
          c \in connections \/ Due("connectDestroyed", c) \/ pc[conn[c].loop] = "gone"
    /\ Due("connectDestroyed", c) =>
          c \notin connections /\ (conn[c].downs = 1 \/ Leaving)
    /\ conn[c].downs = 1 =>
          \/ c \in connections /\ Due("removeConnectionInLoop", c)
          \/ c \notin connections /\ (Due("connectDestroyed", c) \/ conn[c].index = "kNew")
          \/ Leaving

\* A shutdown() that waits is going to be done.
Shutting(c) ==
    Waits(conn[c]) =>
        \/ Due("shutdownInLoop", c)
        \/ worker = <<"set", "shutdown", c>>
        \/ Leaving

Served(c) == Releasing(c) /\ Shutting(c)
Reach == QuitInv /\ \A c \in Conn : Served(c)

\* The functors that matter.
Steps == {"connectEstablished", "connectDestroyed", "removeConnectionInLoop",
          "shutdownInLoop"}

\* What a step does to a connection that it does not release, establish or shut
\* down.
Calm(c) ==
    /\ conn'[c].loop = conn[c].loop /\ conn'[c].downs = conn[c].downs
    /\ conn[c].index = "kNew" => conn'[c].index = "kNew"
    /\ Waits(conn'[c]) => Waits(conn[c])
    /\ c \in connections' <=> c \in connections
    /\ \A do \in Steps : Due(do, c)' <=> Due(do, c)

\* The end of a loop and of the server is not taken back.
Ends ==
    /\ Leaving => Leaving'
    /\ \A l \in Loop : pc[l] = "gone" => pc'[l] = "gone"

\* A connection that a step leaves calm is still served.
LEMMA CalmKeeps ==
    ASSUME NEW c, Served(c), Calm(c), Ends, UNCHANGED worker, conn[c].loop \in Loop
    PROVE  Served(c)'
<1>1. /\ Due("connectEstablished", c)' <=> Due("connectEstablished", c)
      /\ Due("connectDestroyed", c)' <=> Due("connectDestroyed", c)
      /\ Due("removeConnectionInLoop", c)' <=> Due("removeConnectionInLoop", c)
      /\ Due("shutdownInLoop", c)' <=> Due("shutdownInLoop", c)
  BY DEF Calm, Steps
<1>2. Releasing(c)'
  BY <1>1 DEF Served, Releasing, Calm, Ends
<1>4. Shutting(c)'
  BY <1>1 DEF Served, Shutting, Calm, Ends
<1> QED BY <1>2, <1>4 DEF Served

\* What is due after functors were queued.
LEMMA DueGrows ==
    ASSUME QueueInv, NEW t, NEW m \in Loop, NEW g \in Seq(Functors),
           QueueInLoop(t, m, g), UNCHANGED <<pc, functors, ran>>,
           NEW do, NEW c
    PROVE  Due(do, c)' <=> Due(do, c) \/ Holds(g, Bound(do, c))
<1>1. \A l \in Loop : Has(l, do, c)' <=> Has(l, do, c) \/ (l = m /\ Holds(g, Bound(do, c)))
  BY HasGrows
<1> QED BY <1>1 DEF Due

\* And after one was taken to be run.
LEMMA DueTakes ==
    ASSUME QueueInv, NEW l \in Loop, TakeFunctor(l),
           NEW t, NEW m \in Loop, NEW g \in Seq(Functors),
           QueueInLoop(t, m, g), UNCHANGED <<pc, functors>>,
           NEW do, NEW c
    PROVE  /\ Due(do, c) => Due(do, c)' \/ Functor(l) = Bound(do, c)
           /\ Due(do, c)' => Due(do, c) \/ Holds(g, Bound(do, c))
           /\ Holds(g, Bound(do, c)) => Due(do, c)'
           /\ Functor(l) = Bound(do, c) => Due(do, c)
<1>1. \A x \in Loop :
         /\ Has(x, do, c) => Has(x, do, c)' \/ (x = l /\ Functor(l) = Bound(do, c))
         /\ Has(x, do, c)' => Has(x, do, c) \/ (x = m /\ Holds(g, Bound(do, c)))
         /\ x = m /\ Holds(g, Bound(do, c)) => Has(x, do, c)'
  BY HasTakes
<1>2. Has(l, Functor(l).do, Functor(l).c)
  BY HasTakes
<1>3. Functor(l) = Bound(do, c) => Functor(l).do = do /\ Functor(l).c = c
  BY DEF Bound
<1> QED BY <1>1, <1>2, <1>3 DEF Due

\* Nothing changes for the functors when the queues stay as they are.
LEMMA DueStays ==
    ASSUME \A l \in Loop : Rest(l)' = Rest(l), NEW do, NEW c
    PROVE  Due(do, c)' <=> Due(do, c)
<1>1. ASSUME NEW l \in Loop PROVE Has(l, do, c)' <=> Has(l, do, c)
  <2>1. PICK r : r = Rest(l) /\ r = Rest(l)'
    OBVIOUS
  <2> QED BY <2>1 DEF Has, Holds
<1> QED BY <1>1 DEF Due

\* What is due may run.
LEMMA DueSound ==
    ASSUME QueueInv, NEW do, NEW c, NEW l \in Loop, Has(l, do, c)
    PROVE  Sound(l, Bound(do, c))
BY DEF QueueInv, Has, Holds

-----------------------------------------------------------------------------
(* The threads and their loops.                                              *)

\* A step that neither moves a thread nor tells one to quit.
LEMMA QuitSame ==
    ASSUME QuitInv, UNCHANGED <<pc, quit_, join>>,
           eventfd' \in [Loop -> BOOLEAN], wakes' \in [Thread -> SUBSET Loop]
    PROVE  QuitInv'
BY DEF QuitInv, Leaving

\* What queueInLoop writes to wakes is a loop.
LEMMA WakesType ==
    ASSUME QuitInv, NEW t, NEW l \in Loop, NEW g, QueueInLoop(t, l, g)
    PROVE  wakes' \in [Thread -> SUBSET Loop]
<1>1. ASSUME NEW x \in Thread PROVE wakes'[x] \in SUBSET Loop
  BY DEF QuitInv, QueueInLoop
<1> QED BY <1>1 DEF QuitInv, QueueInLoop

\* The server that is being destroyed stays so, and a loop of the pool leaves its
\* loop or is told to quit only then.
LEMMA QuitMoves ==
    ASSUME QuitInv, UNCHANGED eventfd, Leaving => Leaving',
           quit_' \in [Loop -> BOOLEAN], wakes' \in [Thread -> SUBSET Loop],
           join' \in 0..Len(IoLoops),
           \A x \in Loop \ {Main} :
              quit_'[x] \/ pc'[x] \in {"left", "gone"} =>
                 quit_[x] \/ pc[x] \in {"left", "gone"} \/ Leaving'
    PROVE  QuitInv'
BY DEF QuitInv

\* The steps of a thread in its loop, and its start and its end.
LEMMA LoopQuit ==
    ASSUME QuitInv, DOMAIN pc = Loop, NEW l \in Loop,
           \/ EnterLoop(l) \/ Poll(l) \/ PollTimeout(l) \/ HandleWakeupEvent(l)
           \/ BeginPending(l) \/ EndPending(l) \/ PublishLoop(l) \/ ThreadReturns(l)
    PROVE  QuitInv'
<1>m. Main \in Loop
  BY DEF Loop
<1>0. /\ quit_ \in [Loop -> BOOLEAN] /\ eventfd \in [Loop -> BOOLEAN]
      /\ wakes \in [Thread -> SUBSET Loop] /\ join \in 0..Len(IoLoops)
  BY DEF QuitInv
\* A thread that moves inside its loop, or into it.
<1>1. ASSUME NEW p \in {"poll", "handle", "run", "ready"}, pc' = [pc EXCEPT ![l] = p],
             pc[l] \in {"boot", "ready", "poll", "handle", "run"},
             UNCHANGED <<eventfd, wakes, join>>, quit_' \in [Loop -> BOOLEAN],
             \A x \in Loop : quit_'[x] => quit_[x]
      PROVE  QuitInv'
  <2>1. Leaving => Leaving'
    BY <1>1, <1>m DEF Leaving
  <2>2. \A x \in Loop : pc'[x] \in {"left", "gone"} => pc[x] \in {"left", "gone"}
    BY <1>1
  <2> QED BY <1>0, <1>1, <2>1, <2>2, QuitMoves
<1>2. CASE Poll(l) \/ PollTimeout(l)
  <2>1. /\ pc[l] = "poll" /\ pc' = [pc EXCEPT ![l] = "handle"]
        /\ UNCHANGED <<quit_, eventfd, wakes, join>>
    BY <1>2 DEF Poll, PollTimeout, PollReturns
  <2> QED BY <1>0, <1>1, <2>1
<1>3. CASE HandleWakeupEvent(l)
  <2>1. UNCHANGED <<pc, quit_, join, wakes>> /\ eventfd' \in [Loop -> BOOLEAN]
    BY <1>0, <1>3 DEF HandleWakeupEvent, HandleWakeup
  <2> QED BY <1>0, <2>1, QuitSame
<1>4. CASE BeginPending(l)
  <2>1. /\ pc[l] = "handle" /\ pc' = [pc EXCEPT ![l] = "run"]
        /\ UNCHANGED <<quit_, eventfd, wakes, join>>
    BY <1>4 DEF BeginPending
  <2> QED BY <1>0, <1>1, <2>1
<1>5. CASE EndPending(l)
  <2>1. /\ pc[l] = "run" /\ pc' = [pc EXCEPT ![l] = IF quit_[l] THEN "left" ELSE "poll"]
        /\ UNCHANGED <<quit_, eventfd, wakes, join>>
    BY <1>5 DEF EndPending
  <2>2. Leaving => Leaving'
    BY <2>1, <1>m DEF Leaving
  <2>3. \A x \in Loop : pc'[x] \in {"left", "gone"} =>
           pc[x] \in {"left", "gone"} \/ quit_[x]
    BY <2>1
  <2> QED BY <1>0, <2>1, <2>2, <2>3, QuitMoves
<1>6. CASE EnterLoop(l)
  <2>1. /\ pc[l] = "ready" /\ pc' = [pc EXCEPT ![l] = "poll"]
        /\ quit_' = [quit_ EXCEPT ![l] = FALSE]
        /\ UNCHANGED <<eventfd, wakes, join>>
    BY <1>6 DEF EnterLoop
  <2>2. quit_' \in [Loop -> BOOLEAN] /\ \A x \in Loop : quit_'[x] => quit_[x]
    BY <1>0, <2>1
  <2> QED BY <1>1, <2>1, <2>2
<1>7. CASE PublishLoop(l)
  <2>1. /\ pc[l] = "boot" /\ pc' = [pc EXCEPT ![l] = "ready"]
        /\ UNCHANGED <<quit_, eventfd, wakes, join>>
    BY <1>7 DEF PublishLoop
  <2> QED BY <1>0, <1>1, <2>1
<1>8. CASE ThreadReturns(l)
  <2>1. /\ l # Main /\ pc[l] = "left" /\ pc' = [pc EXCEPT ![l] = "gone"]
        /\ UNCHANGED <<quit_, eventfd, wakes, join>>
    BY <1>8 DEF ThreadReturns
  <2>2. Leaving => Leaving'
    BY <2>1, <1>m DEF Leaving
  <2>3. \A x \in Loop : pc'[x] \in {"left", "gone"} => pc[x] \in {"left", "gone"}
    BY <2>1
  <2> QED BY <1>0, <2>1, <2>2, <2>3, QuitMoves
<1> QED BY <1>2, <1>3, <1>4, <1>5, <1>6, <1>7, <1>8

\* The main thread outside of its loop, but for ~TcpServer's connections.
LEMMA MainQuit ==
    ASSUME QuitInv, DOMAIN pc = Loop,
           DestroyServer \/ StartLoops \/ QuitThread \/ JoinThread \/ MainReturns
    PROVE  QuitInv'
<1>m. Main \in Loop /\ Main \in Thread
  BY DEF Loop, Thread
<1>0. /\ quit_ \in [Loop -> BOOLEAN] /\ eventfd \in [Loop -> BOOLEAN]
      /\ wakes \in [Thread -> SUBSET Loop] /\ join \in 0..Len(IoLoops)
  BY DEF QuitInv
<1>1. CASE StartLoops
  <2>1. /\ pc[Main] = "start" /\ pc' = [pc EXCEPT ![Main] = "ready"]
        /\ UNCHANGED <<quit_, eventfd, wakes, join>>
    BY <1>1 DEF StartLoops
  <2>2. ~Leaving
    BY <2>1 DEF Leaving
  <2>3. \A x \in Loop \ {Main} : pc'[x] = pc[x]
    BY <2>1
  <2> QED BY <1>0, <2>1, <2>2, <2>3, QuitMoves
<1>2. CASE DestroyServer \/ JoinThread \/ MainReturns
  <2>1. PICK p \in {"quitting", "gone"} :
           pc' = [pc EXCEPT ![Main] = p] /\ UNCHANGED <<quit_, eventfd, wakes, join>>
    BY <1>2 DEF DestroyServer, JoinThread, MainReturns
  <2>2. Leaving'
    BY <2>1, <1>m DEF Leaving
  <2> QED BY <1>0, <2>1, <2>2, QuitMoves
<1>3. CASE QuitThread
  <2>1. /\ pc[Main] = "quitting" /\ join < Len(IoLoops) /\ join' = join + 1
        /\ pc' = [pc EXCEPT ![Main] = "joining"] /\ UNCHANGED eventfd
        /\ quit_' = [quit_ EXCEPT ![IoLoops[join + 1]] = TRUE]
        /\ wakes' = [wakes EXCEPT ![Main] = @ \cup {IoLoops[join + 1]}]
    BY <1>3 DEF QuitThread, QuitFrom
  <2>2. Leaving'
    BY <2>1, <1>m DEF Leaving
  <2>3. join' \in 0..Len(IoLoops) /\ join + 1 \in 1..Len(IoLoops)
    BY <1>0, <2>1, LenProperties, LoopAssumption
  <2>4. IoLoops[join + 1] \in Loop
    BY <2>3, LoopAssumption, ElementOfSeq DEF Loop
  <2>5. quit_' \in [Loop -> BOOLEAN] /\ wakes' \in [Thread -> SUBSET Loop]
    BY <1>0, <1>m, <2>1, <2>4
  <2> QED BY <2>1, <2>2, <2>3, <2>5, QuitMoves
<1> QED BY <1>1, <1>2, <1>3

\* The moves of the threads leave what is due as it is, but for the functors of a
\* loop that ends with the server.
LEMMA MovesReach ==
    ASSUME Sys, Reach, Moves
    PROVE  Reach'
<1>u. UNCHANGED <<conn, connections, held, worker>>
  BY DEF Moves, tcpVars
<1>m. DOMAIN pc = Loop
  BY DEF Sys, QueueInv, QueueTypes
<1>1. QuitInv'
  <2>1. ASSUME NEW t \in Thread, NEW l \in Loop, Wakeup(t, l) PROVE QuitInv'
    <3>1. UNCHANGED <<pc, quit_, join>>
      BY <2>1 DEF Wakeup
    <3>2. eventfd' \in [Loop -> BOOLEAN] /\ wakes' \in [Thread -> SUBSET Loop]
      BY <2>1 DEF Wakeup, Reach, QuitInv
    <3> QED BY <1>u, <3>1, <3>2, QuitSame DEF Reach
  <2>2. ASSUME NEW l \in Loop,
               \/ EnterLoop(l) \/ Poll(l) \/ PollTimeout(l) \/ HandleWakeupEvent(l)
               \/ BeginPending(l) \/ EndPending(l) \/ PublishLoop(l) \/ ThreadReturns(l)
        PROVE  QuitInv'
    BY <1>u, <1>m, <2>2, LoopQuit DEF Reach
  <2>3. CASE DestroyServer \/ StartLoops \/ QuitThread \/ JoinThread \/ MainReturns
    BY <1>u, <1>m, <2>3, MainQuit DEF Reach
  <2> QED BY <2>1, <2>2, <2>3 DEF Moves
<1>2. /\ \A x \in Loop : Rest(x)' = Rest(x) \/ (Rest(x)' = <<>> /\ pc'[x] = "gone")
      /\ \A x \in Loop : pc[x] = "gone" => pc'[x] = "gone"
  BY MovesQueues DEF Sys, QueueInv
<1>3. Leaving => Leaving'
  BY MovesSys
<1>4. Ends
  BY <1>2, <1>3 DEF Ends
<1>5. ASSUME NEW c \in Conn PROVE Served(c)'
  <2>0. Served(c) /\ conn[c].loop \in Loop
    BY DEF Reach, Sys, ConnsInv, KInv, Record
  <2>1. CASE \A x \in Loop : Rest(x)' = Rest(x)
    <3>1. \A do \in Steps : Due(do, c)' <=> Due(do, c)
      BY <2>1, DueStays
    <3>2. Calm(c)
      BY <1>u, <3>1 DEF Calm, Waits, IsWriting
    <3> QED BY <1>u, <1>4, <2>0, <3>2, CalmKeeps
  <2>2. CASE \E x \in Loop : Rest(x)' # Rest(x)
    <3>1. Leaving'
      <4>1. PICK x \in Loop : pc'[x] = "gone"
        BY <1>2, <2>2
      <4> QED BY <1>1, <4>1 DEF QuitInv, Leaving
    <3>2. ASSUME NEW l \in Loop, NEW do, Has(l, do, c)'
          PROVE  Has(l, do, c)
      <4>1. PICK u : u = Rest(l)'
        OBVIOUS
      <4>2. Holds(u, Bound(do, c))
        BY <3>2, <4>1 DEF Has, Holds
      <4>3. u = Rest(l) \/ u = <<>>
        BY <1>2, <4>1
      <4> QED BY <4>2, <4>3, HoldsOne DEF Has
    <3>3. ASSUME NEW l \in Loop, NEW do, Has(l, do, c), pc'[l] # "gone"
          PROVE  Has(l, do, c)'
      <4>1. PICK r : r = Rest(l) /\ r = Rest(l)'
        BY <1>2, <3>3
      <4> QED BY <3>3, <4>1 DEF Has, Holds
    <3>4. \A do : Due(do, c)' => Due(do, c)
      BY <3>2 DEF Due
    <3>5. Due("connectDestroyed", c) => Due("connectDestroyed", c)' \/ pc'[conn[c].loop] = "gone"
      <4> SUFFICES ASSUME NEW l \in Loop, Has(l, "connectDestroyed", c)
                   PROVE  Has(l, "connectDestroyed", c)' \/ pc'[conn[c].loop] = "gone"
        BY DEF Due
      <4>1. Sound(l, Bound("connectDestroyed", c))
        BY DueSound DEF Sys
      <4>2. conn[c].loop = l
        BY <4>1 DEF Sound, Bound
      <4> QED BY <3>3, <4>2
    <3>6. Releasing(c)'
      <4>1. conn[c].index # "kNew" \/ Due("connectEstablished", c)' =>
               c \in connections \/ Due("connectDestroyed", c)' \/ pc'[conn[c].loop] = "gone"
        BY <1>2, <2>0, <3>4, <3>5 DEF Served, Releasing
      <4>2. Due("connectDestroyed", c)' => c \notin connections
        BY <2>0, <3>4 DEF Served, Releasing
      <4> QED BY <1>u, <3>1, <4>1, <4>2 DEF Releasing
    <3>8. Shutting(c)'
      BY <3>1 DEF Shutting
    <3> QED BY <3>6, <3>8 DEF Served
  <2> QED BY <2>1, <2>2
<1> QED BY <1>1, <1>5 DEF Reach

-----------------------------------------------------------------------------
(* The functors.                                                             *)

\* A connection that a step leaves alone is still served.
LEMMA OthersServed ==
    ASSUME Sys, Reach, UNCHANGED <<pc, worker>>, NEW d \in Conn, conn'[d] = conn[d],
           d \in connections' <=> d \in connections,
           \A do \in Steps : Due(do, d)' <=> Due(do, d)
    PROVE  Served(d)'
<1>1. Served(d) /\ conn[d].loop \in Loop
  BY DEF Reach, Sys, ConnsInv, KInv, Record
<1>2. Calm(d)
  BY DEF Calm, Waits, IsWriting
<1>3. Ends
  BY DEF Ends, Leaving
<1> QED BY <1>1, <1>2, <1>3, CalmKeeps

\* A call that queues functors moves no thread.
LEMMA CallQuit ==
    ASSUME Reach, NEW t, NEW l \in Loop, NEW g, QueueInLoop(t, l, g),
           UNCHANGED <<pc, quit_, eventfd, join>>
    PROVE  QuitInv'
<1>1. wakes' \in [Thread -> SUBSET Loop]
  BY WakesType DEF Reach
<1>2. eventfd' \in [Loop -> BOOLEAN]
  BY DEF Reach, QuitInv
<1> QED BY <1>1, <1>2, QuitSame DEF Reach

\* writeCompleteCallback_ does not matter.
LEMMA WritesNotDue ==
    ASSUME NEW c \in Conn, NEW g \in Seq({Bound("writeComplete", c)})
    PROVE  /\ g \in Seq(Functors)
           /\ \A do \in Steps : \A d : ~Holds(g, Bound(do, d))
<1>1. Bound("writeComplete", c) \in Functors
  BY DEF Bound, Functors
<1>2. \A i \in 1..Len(g) : g[i] = Bound("writeComplete", c)
  BY ElementOfSeq
<1>3. g \in Seq(Functors)
  BY <1>1, SeqMonotonic
<1>4. \A do \in Steps : \A d : Bound(do, d) # Bound("writeComplete", c)
  BY DEF Steps, Bound
<1> QED BY <1>2, <1>3, <1>4 DEF Holds

\* One functor is queued.
LEMMA OneDue ==
    ASSUME NEW c \in Conn, NEW do \in Steps
    PROVE  /\ <<Bound(do, c)>> \in Seq(Functors)
           /\ \A do2, d : Holds(<<Bound(do, c)>>, Bound(do2, d)) <=> do2 = do /\ d = c
<1>1. Bound(do, c) \in Functors
  BY DEF Bound, Functors, Steps
<1>2. <<Bound(do, c)>> \in Seq(Functors)
  BY <1>1
<1>3. ASSUME NEW do2, NEW d
      PROVE  Holds(<<Bound(do, c)>>, Bound(do2, d)) <=> do2 = do /\ d = c
  <2>1. Bound(do, c) = Bound(do2, d) <=> do2 = do /\ d = c
    BY DEF Bound
  <2>2. Holds(<<Bound(do, c)>>, Bound(do2, d)) <=> Bound(do, c) = Bound(do2, d)
    BY HoldsOne
  <2> QED BY <2>1, <2>2
<1> QED BY <1>2, <1>3

\* A functor of connection c leaves what is due to others.
LEMMA OthersDue ==
    ASSUME Sys, NEW l \in Loop, TakeFunctor(l),
           NEW t, NEW m \in Loop, NEW g \in Seq(Functors),
           QueueInLoop(t, m, g), UNCHANGED <<pc, functors>>,
           NEW d, d # Functor(l).c, \A do \in Steps : ~Holds(g, Bound(do, d))
    PROVE  \A do \in Steps : Due(do, d)' <=> Due(do, d)
<1> SUFFICES ASSUME NEW do \in Steps PROVE Due(do, d)' <=> Due(do, d)
  OBVIOUS
<1>1. Functor(l) # Bound(do, d)
  BY DEF Bound
<1>2. /\ Due(do, d) => Due(do, d)' \/ Functor(l) = Bound(do, d)
      /\ Due(do, d)' => Due(do, d) \/ Holds(g, Bound(do, d))
  BY DueTakes DEF Sys
<1> QED BY <1>1, <1>2

\* connectEstablished finds its connection in connections_, or about to be destroyed
\* by ~TcpServer.
LEMMA RunEstablishedReach ==
    ASSUME Sys, Reach, NEW l \in Loop, RunConnectEstablished(l)
    PROVE  Reach'
<1>0. TakeFunctor(l) /\ Functor(l).do = "connectEstablished"
  BY DEF RunConnectEstablished
<1>1. PICK c \in Conn : c = Functor(l).c
  BY <1>0, HeadSound
<1> DEFINE k == conn[c]
           j == ConnectEstablished(conn[c])
<1>2. /\ conn' = [conn EXCEPT ![c] = j] /\ held' = held \cup {c}
      /\ QueueInLoop(l, l, SendQueues(c, Established(conn[c])))
      /\ UNCHANGED <<pc, quit_, eventfd, functors, active, join,
                     connections, next_, worker, inputs>>
  BY <1>1 DEF RunConnectEstablished
<1>3. /\ k.at = "accepted" /\ k.loop = l /\ k.state = "kConnecting" /\ KInv(k)
      /\ pc[l] = "run" /\ Functor(l) = Bound("connectEstablished", c)
  BY <1>0, <1>1, HeadSound DEF Sound, Functors, Bound
<1>4. KInv(j) /\ Advances(k, j) /\ j.state = "kConnected" /\ j.downs = 0
  BY <1>3, ConnectEstablishedInv
<1> HIDE DEF j
<1>6. conn'[c] = j /\ \A d \in Conn : d # c => conn'[d] = conn[d]
  BY <1>2, <1>4, OneConn DEF Sys
<1>7. PICK g \in Seq({Bound("writeComplete", c)}) : g = SendQueues(c, Established(conn[c]))
  BY SendQueuesType
<1>8. /\ g \in Seq(Functors) /\ QueueInLoop(l, l, g)
      /\ \A do \in Steps : \A d : ~Holds(g, Bound(do, d))
  BY <1>2, <1>7, WritesNotDue
<1>9. QuitInv'
  BY <1>2, <1>8, CallQuit
<1>10. ASSUME NEW d \in Conn, d # c PROVE Served(d)'
  <2>1. \A do \in Steps : Due(do, d)' <=> Due(do, d)
    BY <1>0, <1>1, <1>2, <1>8, <1>10, OthersDue
  <2> QED BY <1>2, <1>6, <1>10, <2>1, OthersServed
<1>11. Served(c)'
  <2>1. ASSUME NEW do \in Steps
        PROVE  /\ Due(do, c)' => Due(do, c)
               /\ Due(do, c) => Due(do, c)' \/ do = "connectEstablished"
    <3>1. Functor(l) = Bound(do, c) => do = "connectEstablished"
      BY <1>0 DEF Bound
    <3>2. /\ Due(do, c) => Due(do, c)' \/ Functor(l) = Bound(do, c)
          /\ Due(do, c)' => Due(do, c) \/ Holds(g, Bound(do, c))
      BY <1>0, <1>2, <1>8, DueTakes DEF Sys
    <3> QED BY <1>8, <3>1, <3>2
  <2>2. Due("connectEstablished", c)
    BY <1>0, <1>2, <1>3, <1>8, DueTakes DEF Sys
  <2>3. Served(c) /\ k.downs = 0 /\ (Leaving' <=> Leaving)
    BY <1>2, <1>3 DEF Reach, KInv, Told, Untouched, Leaving
  <2>4. /\ Due("connectDestroyed", c)' <=> Due("connectDestroyed", c)
        /\ Due("shutdownInLoop", c)' => Due("shutdownInLoop", c)
    BY <2>1 DEF Steps
  <2>5. c \in connections \/ Due("connectDestroyed", c)
    BY <1>3, <2>2, <2>3 DEF Served, Releasing
  <2>6. Releasing(c)'
    BY <1>2, <1>4, <1>6, <2>3, <2>4, <2>5 DEF Served, Releasing
  <2>8. Shutting(c)'
    BY <1>4, <1>6 DEF Shutting, Waits
  <2> QED BY <2>6, <2>8 DEF Served
<1> QED BY <1>9, <1>10, <1>11 DEF Reach

\* removeConnectionInLoop takes a connection out of connections_ and queues the
\* functor that destroys it.
LEMMA RunRemoveReach ==
    ASSUME Sys, Reach, NEW l \in Loop, RunRemoveConnection(l)
    PROVE  Reach'
<1>0. TakeFunctor(l) /\ Functor(l).do = "removeConnectionInLoop"
  BY DEF RunRemoveConnection
<1>1. PICK c \in Conn : c = Functor(l).c
  BY <1>0, HeadSound
<1> DEFINE g == <<Bound("connectDestroyed", c)>>
<1>2. /\ connections' = connections \ {c}
      /\ QueueInLoop(l, conn[c].loop, g)
      /\ UNCHANGED <<pc, quit_, eventfd, functors, active, join,
                     conn, next_, held, worker, inputs>>
  BY <1>1 DEF RunRemoveConnection, RemoveConnectionInLoop
<1>3. /\ conn[c].downs = 1 /\ conn[c].loop \in Loop
      /\ Functor(l) = Bound("removeConnectionInLoop", c)
  BY <1>0, <1>1, HeadSound DEF Sound, Functors, Bound, KInv, Record
<1>4. PICK m \in Loop : m = conn[c].loop
  BY <1>3
<1>5. /\ g \in Seq(Functors) /\ QueueInLoop(l, m, g)
      /\ \A do \in Steps : \A d : Holds(g, Bound(do, d)) <=> do = "connectDestroyed" /\ d = c
  BY <1>2, <1>4, OneDue DEF Steps
<1> HIDE DEF g
<1>6. QuitInv'
  BY <1>2, <1>5, CallQuit
<1>7. ASSUME NEW d \in Conn, d # c PROVE Served(d)'
  <2>1. \A do \in Steps : Due(do, d)' <=> Due(do, d)
    BY <1>0, <1>1, <1>2, <1>5, <1>7, OthersDue
  <2> QED BY <1>2, <1>7, <2>1, OthersServed
<1>8. Served(c)'
  <2>1. ASSUME NEW do \in Steps
        PROVE  /\ Due(do, c)' => Due(do, c) \/ do = "connectDestroyed"
               /\ do = "connectDestroyed" => Due(do, c)'
    BY <1>0, <1>2, <1>5, DueTakes DEF Sys
  <2>2. /\ Due("connectDestroyed", c)'
        /\ Due("shutdownInLoop", c)' => Due("shutdownInLoop", c)
        /\ Due("shutdownInLoop", c) => Due("shutdownInLoop", c)'
    <3>1. Functor(l) # Bound("shutdownInLoop", c)
      BY <1>0 DEF Bound
    <3>2. Due("shutdownInLoop", c) => Due("shutdownInLoop", c)' \/ Functor(l) = Bound("shutdownInLoop", c)
      BY <1>0, <1>2, <1>5, DueTakes DEF Sys
    <3> QED BY <2>1, <3>1, <3>2 DEF Steps
  <2>3. Served(c) /\ (Leaving' <=> Leaving) /\ c \notin connections'
    BY <1>2 DEF Reach, Leaving
  <2>4. Releasing(c)'
    BY <1>2, <1>3, <2>2, <2>3 DEF Releasing
  <2>6. Shutting(c)'
    BY <1>2, <2>2, <2>3 DEF Served, Shutting, Waits, IsWriting
  <2> QED BY <2>4, <2>6 DEF Served
<1> QED BY <1>6, <1>7, <1>8 DEF Reach

\* connectDestroyed takes the channel out of the poller, shutdownInLoop does what
\* a shutdown() waits for.
LEMMA RunOtherReach ==
    ASSUME Sys, Reach, NEW l \in Loop, RunOther(l)
    PROVE  Reach'
<1>0. /\ TakeFunctor(l)
      /\ Functor(l).do \notin {"connectEstablished", "removeConnectionInLoop"}
  BY DEF RunOther
<1>1. PICK c \in Conn : c = Functor(l).c
  BY <1>0, HeadSound
<1>h. /\ Sound(l, Functor(l)) /\ KInv(conn[c]) /\ Functor(l) \in Functors
      /\ Functor(l).do # "sendInLoop" /\ pc[l] = "run"
  BY <1>0, <1>1, HeadSound DEF Sound
<1> DEFINE do == Functor(l).do
           k == conn[c]
           j == Outcome(do, k)
<1>2. /\ conn' = [conn EXCEPT ![c] = j]
      /\ QueueInLoop(l, l, <<>>)
      /\ UNCHANGED <<pc, quit_, eventfd, functors, active, join,
                     connections, next_, held, worker, inputs>>
  BY <1>0, <1>1, <1>h DEF RunOther
<1>3. /\ KInv(j) /\ Advances(k, j)
      /\ do = "connectDestroyed" => j.index = "kNew"
      /\ j.index # "kNew" => k.index # "kNew"
      /\ do # "connectDestroyed" => j.downs = k.downs
      /\ Waits(j) => Waits(k) /\ do # "shutdownInLoop"
  BY <1>1, <1>h, OutcomeInv DEF Sound
<1>b. Functor(l) = Bound(do, c)
  BY <1>1, <1>h DEF Functors, Bound
<1> HIDE DEF j
<1>4. conn'[c] = j /\ \A d \in Conn : d # c => conn'[d] = conn[d]
  BY <1>2, <1>3, OneConn DEF Sys
<1>5. <<>> \in Seq(Functors) /\ \A f : ~Holds(<<>>, f)
  BY EmptySeq, HoldsOne
<1>6. QuitInv'
  BY <1>2, CallQuit
<1>7. ASSUME NEW d \in Conn, d # c PROVE Served(d)'
  <2>1. \A x \in Steps : Due(x, d)' <=> Due(x, d)
    BY <1>0, <1>1, <1>2, <1>5, <1>7, OthersDue
  <2> QED BY <1>2, <1>4, <1>7, <2>1, OthersServed
<1>8. Served(c)'
  <2>1. ASSUME NEW x \in Steps
        PROVE  /\ Due(x, c)' => Due(x, c)
               /\ Due(x, c) => Due(x, c)' \/ x = do
    <3>1. Functor(l) = Bound(x, c) => x = do
      BY <1>b DEF Bound
    <3>2. /\ Due(x, c) => Due(x, c)' \/ Functor(l) = Bound(x, c)
          /\ Due(x, c)' => Due(x, c) \/ Holds(<<>>, Bound(x, c))
      BY <1>0, <1>2, <1>5, DueTakes DEF Sys
    <3> QED BY <1>5, <3>1, <3>2
  <2>2. /\ Due("connectEstablished", c)' => Due("connectEstablished", c)
        /\ Due("connectDestroyed", c)' => Due("connectDestroyed", c)
        /\ Due("shutdownInLoop", c)' => Due("shutdownInLoop", c)
        /\ Due("connectDestroyed", c) => Due("connectDestroyed", c)' \/ do = "connectDestroyed"
        /\ Due("removeConnectionInLoop", c) => Due("removeConnectionInLoop", c)'
        /\ Due("shutdownInLoop", c) => Due("shutdownInLoop", c)' \/ do = "shutdownInLoop"
    BY <1>0, <2>1 DEF Steps
  <2>3. /\ Served(c) /\ (Leaving' <=> Leaving)
        /\ k.downs \in {0, 1} /\ j.downs \in {0, 1} /\ (k.downs = 1 => j.downs = 1)
    BY <1>2, <1>3, <1>h DEF Reach, KInv, Told, Advances, Leaving
  <2>4. Releasing(c)'
    <3>1. CASE do = "connectDestroyed"
      <4>1. Due("connectDestroyed", c)
        BY <1>0, <1>2, <1>5, <1>b, <3>1, DueTakes DEF Sys
      <4>2. ~Due("connectEstablished", c)'
        <5> SUFFICES ASSUME NEW x \in Loop, Has(x, "connectEstablished", c)' PROVE FALSE
          BY DEF Due
        <5>q. QueueInv
          BY DEF Sys
        <5>0. PICK e : e = "connectEstablished"
          OBVIOUS
        <5>a. QueueInLoop(l, l, <<>>) /\ <<>> \in Seq(Functors) /\ UNCHANGED <<pc, functors>>
          BY <1>2, <1>5
        <5>b. Has(x, e, c)' => Has(x, e, c) \/ (x = l /\ Holds(<<>>, Bound(e, c)))
          BY <5>q, <1>0, <5>a, HasTakes
        <5>c. c = Functor(l).c /\ e = "connectEstablished" /\ Has(l, e, c)' =>
                  l = l /\ Holds(<<>>, Bound(e, c))
          BY <5>q, <1>0, <5>a, HasTakes
        <5>1. /\ Has(x, "connectEstablished", c)' => Has(x, "connectEstablished", c)
              /\ c = Functor(l).c => ~Has(l, "connectEstablished", c)'
          BY <5>0, <5>b, <5>c, <1>5
        <5>2. Has(x, "connectEstablished", c)
          BY <1>5, <5>1
        <5>3. Sound(x, Bound("connectEstablished", c))
          BY <5>q, <5>2, DueSound
        <5>4. x = conn[c].loop
          BY <5>3 DEF Sound, Bound
        <5>5. x = l
          BY <5>4, <1>1, <1>h, <3>1 DEF Sound
        <5> QED BY <5>1, <5>5, <1>1, <1>5
      <4>3. j.index = "kNew" /\ c \notin connections /\ (k.downs = 1 \/ Leaving)
        BY <1>3, <2>3, <3>1, <4>1 DEF Served, Releasing
      <4> QED BY <1>2, <1>4, <2>2, <2>3, <4>2, <4>3 DEF Releasing
    <3>2. CASE do # "connectDestroyed"
      <4>1. j.loop = k.loop /\ j.downs = k.downs
        BY <1>3, <3>2, <1>h DEF Advances
      <4> QED BY <1>2, <1>3, <1>4, <2>2, <2>3, <3>2, <4>1 DEF Served, Releasing
    <3> QED BY <3>1, <3>2
  <2>6. Shutting(c)'
    BY <1>2, <1>3, <1>4, <2>2, <2>3 DEF Served, Shutting
  <2> QED BY <2>4, <2>6 DEF Served
<1> QED BY <1>6, <1>7, <1>8 DEF Reach

-----------------------------------------------------------------------------
(* The handlers of the active channels.                                      *)

\* A handler that closes its connection has it released; one that does not leaves
\* it in the epoll set.
LEMMA HandleEventReach ==
    ASSUME Sys, Reach, NEW l \in Loop, HandleEvent(l)
    PROVE  Reach'
<1>m. Main \in Loop
  BY DEF Loop
<1>1. PICK a \in active[l], c \in Conn, stop \in BOOLEAN, hit \in BOOLEAN :
         /\ c = a[1] /\ TakeActive(l, a)
         /\ conn' = [conn EXCEPT ![c] = Handled(conn[c], a[2], stop, hit)]
         /\ \/ Closes(conn[c], a[2]) /\ RemoveConnection(l, c)
            \/ /\ ~Closes(conn[c], a[2]) /\ UNCHANGED connections
               /\ \E g \in Seq({Bound("writeComplete", c)}) : QueueInLoop(l, l, g)
         /\ UNCHANGED <<pc, quit_, eventfd, functors, ran, join, next_, held, worker, inputs>>
  BY HandleEventIs
<1> DEFINE k == conn[c]
           j == Handled(conn[c], a[2], stop, hit)
<1>2. k.loop = l /\ k.epoll # NotIn /\ pc[l] = "handle"
  BY <1>1 DEF Sys, ActiveInv, TakeActive
<1>3. KInv(k)
  BY DEF Sys, ConnsInv
<1>4. /\ KInv(j) /\ Advances(k, j)
      /\ Closes(k, a[2]) => j.downs = 1
      /\ ~Closes(k, a[2]) => j.downs = k.downs
      /\ Waits(j) => Waits(k)
      /\ k.index # "kNew" /\ k.downs = 0
  <2>1. /\ KInv(j) /\ Advances(k, j) /\ k.state # "kConnecting"
        /\ Closes(k, a[2]) => j.downs = 1
        /\ ~Closes(k, a[2]) => j.epoll # NotIn /\ j.downs = k.downs
        /\ Waits(j) => Waits(k)
    BY <1>2, <1>3, HandledInv
  <2>2. k.index # "kNew" /\ k.downs = 0
    BY <1>2, <1>3 DEF KInv, Channels
  <2> QED BY <2>1, <2>2
<1>5. conn[c].at = "accepted"
  BY <1>2, <1>3, AcceptedFirst
<1> HIDE DEF j
<1>6. conn'[c] = j /\ \A d \in Conn : d # c => conn'[d] = conn[d]
  BY <1>1, <1>4, OneConn DEF Sys, j
<1>7. j.loop = l /\ QueueInv /\ Served(c) /\ (Leaving' <=> Leaving)
  BY <1>1, <1>2, <1>4, <1>5 DEF Advances, Sys, Reach, Leaving
<1>8. CASE ~Closes(k, a[2])
  <2>1. PICK g \in Seq({Bound("writeComplete", c)}) : QueueInLoop(l, l, g)
    BY <1>1, <1>8
  <2>2. g \in Seq(Functors) /\ \A do \in Steps : \A d : ~Holds(g, Bound(do, d))
    BY WritesNotDue
  <2>3. \A do \in Steps, d \in Conn : Due(do, d)' <=> Due(do, d)
    BY <1>1, <1>7, <2>1, <2>2, DueGrows
  <2>4. QuitInv'
    BY <1>1, <2>1, CallQuit
  <2>5. ASSUME NEW d \in Conn, d # c PROVE Served(d)'
    BY <1>1, <1>6, <1>8, <2>3, <2>5, OthersServed
  <2>6. Calm(c)
    BY <1>1, <1>2, <1>4, <1>6, <1>7, <1>8, <2>3 DEF Calm
  <2>7. Ends
    BY <1>1 DEF Ends, Leaving
  <2>8. Served(c)'
    BY <1>1, <1>2, <1>7, <2>6, <2>7, CalmKeeps
  <2> QED BY <2>4, <2>5, <2>8 DEF Reach
<1>9. CASE Closes(k, a[2]) /\ l = Main
  <2> DEFINE g == <<Bound("connectDestroyed", c)>>
  <2>1. connections' = connections \ {c} /\ QueueInLoop(l, l, g)
    BY <1>1, <1>2, <1>9 DEF RemoveConnection, RemoveConnectionInLoop
  <2>2. /\ g \in Seq(Functors)
        /\ \A do \in Steps : \A d : Holds(g, Bound(do, d)) <=> do = "connectDestroyed" /\ d = c
    BY OneDue DEF Steps
  <2> HIDE DEF g
  <2>3. \A do \in Steps, d \in Conn : Due(do, d)' <=> Due(do, d) \/ (do = "connectDestroyed" /\ d = c)
    BY <1>1, <1>7, <2>1, <2>2, DueGrows
  <2>4. QuitInv'
    BY <1>1, <2>1, CallQuit
  <2>5. ASSUME NEW d \in Conn, d # c PROVE Served(d)'
    <3>1. \A do \in Steps : Due(do, d)' <=> Due(do, d)
      BY <2>3, <2>5
    <3> QED BY <1>1, <1>6, <2>1, <2>5, <3>1, OthersServed
  <2>6. /\ Due("connectDestroyed", c)'
        /\ Due("shutdownInLoop", c)' <=> Due("shutdownInLoop", c)
        /\ c \notin connections' /\ j.downs = 1
    BY <1>4, <1>9, <2>1, <2>3 DEF Steps
  <2>7. Releasing(c)'
    BY <1>6, <2>6 DEF Releasing
  <2>9. Shutting(c)'
    BY <1>6, <2>6 DEF Shutting, Waits
  <2> QED BY <2>4, <2>5, <2>7, <2>9 DEF Reach, Served
<1>10. CASE Closes(k, a[2]) /\ l # Main
  <2> DEFINE g == <<Bound("removeConnectionInLoop", c)>>
  <2>1. connections' = connections /\ QueueInLoop(l, Main, g)
    BY <1>1, <1>10 DEF RemoveConnection
  <2>2. /\ g \in Seq(Functors)
        /\ \A do \in Steps : \A d : Holds(g, Bound(do, d)) <=> do = "removeConnectionInLoop" /\ d = c
    BY OneDue DEF Steps
  <2> HIDE DEF g
  <2>3. \A do \in Steps, d \in Conn : Due(do, d)' <=> Due(do, d) \/ (do = "removeConnectionInLoop" /\ d = c)
    BY <1>m, <1>1, <1>7, <2>1, <2>2, DueGrows
  <2>4. QuitInv'
    BY <1>m, <1>1, <2>1, CallQuit
  <2>5. ASSUME NEW d \in Conn, d # c PROVE Served(d)'
    <3>1. \A do \in Steps : Due(do, d)' <=> Due(do, d)
      BY <2>3, <2>5
    <3> QED BY <1>1, <1>6, <2>1, <2>5, <3>1, OthersServed
  <2>6. /\ Due("removeConnectionInLoop", c)'
        /\ Due("connectEstablished", c)' <=> Due("connectEstablished", c)
        /\ Due("connectDestroyed", c)' <=> Due("connectDestroyed", c)
        /\ Due("shutdownInLoop", c)' <=> Due("shutdownInLoop", c)
        /\ j.downs = 1
    BY <1>4, <1>10, <2>3 DEF Steps
  <2>7. c \in connections \/ Due("connectDestroyed", c)
    BY <1>2, <1>4, <1>7 DEF Served, Releasing
  <2>8. Releasing(c)'
    BY <1>6, <1>7, <2>1, <2>6, <2>7 DEF Served, Releasing
  <2>10. Shutting(c)'
    BY <1>6, <2>6 DEF Shutting, Waits
  <2> QED BY <2>4, <2>5, <2>8, <2>10 DEF Reach, Served
<1> QED BY <1>8, <1>9, <1>10

\* Nothing is due to a connection that was not accepted.
LEMMA NothingDue ==
    ASSUME QueueInv, NEW c, conn[c].at # "accepted", NEW do
    PROVE  ~Due(do, c)
<1> SUFFICES ASSUME NEW l \in Loop, Has(l, do, c) PROVE FALSE
  BY DEF Due
<1>1. Sound(l, Bound(do, c))
  BY DueSound
<1> QED BY <1>1 DEF Sound, Bound

\* A new connection is in connections_ when it is established or about to be.
LEMMA HandleAcceptReach ==
    ASSUME Sys, Reach, HandleAccept
    PROVE  Reach'
<1>m. Main \in Loop /\ NextLoop \in Loop
  BY NextLoopInv DEF Loop, Sys
<1>2. /\ TakeActive(Main, <<"accept", {"in"}>>)
      /\ UNCHANGED <<pc, quit_, eventfd, functors, ran, join, worker, inputs>>
  BY DEF HandleAccept
<1>0. PICK c \in Conn : \E j, i :
         /\ conn[c].at = "backlog" /\ KInv(conn[c])
         /\ conn[c].epoll = NotIn /\ conn[c].state = "kConnecting"
         /\ connections' = connections \cup {c} /\ next_' = NextAfter
         /\ conn' = [conn EXCEPT ![c] = j] /\ KInv(j)
         /\ j.at = "accepted" /\ j.loop = NextLoop /\ j.downs = 0
         /\ \/ /\ NextLoop = Main /\ j.state = "kConnected" /\ held' = held \cup {c}
               /\ QueueInLoop(Main, Main, SendQueues(c, Established(i)))
            \/ /\ NextLoop # Main /\ j.state = "kConnecting" /\ held' = held
               /\ QueueInLoop(Main, NextLoop, <<Bound("connectEstablished", c)>>)
  BY HandleAcceptIs
<1>1. PICK j, i :
         /\ conn[c].at = "backlog" /\ KInv(conn[c])
         /\ conn[c].epoll = NotIn /\ conn[c].state = "kConnecting"
         /\ connections' = connections \cup {c} /\ next_' = NextAfter
         /\ conn' = [conn EXCEPT ![c] = j] /\ KInv(j)
         /\ j.at = "accepted" /\ j.loop = NextLoop /\ j.downs = 0
         /\ \/ /\ NextLoop = Main /\ j.state = "kConnected" /\ held' = held \cup {c}
               /\ QueueInLoop(Main, Main, SendQueues(c, Established(i)))
            \/ /\ NextLoop # Main /\ j.state = "kConnecting" /\ held' = held
               /\ QueueInLoop(Main, NextLoop, <<Bound("connectEstablished", c)>>)
  BY <1>0
<1>3. conn'[c] = j /\ \A d \in Conn : d # c => conn'[d] = conn[d]
  BY <1>1 DEF Sys, ConnsInv
<1>4. QueueInv /\ Served(c) /\ ~Waits(j)
  BY <1>1 DEF Sys, Reach, Waits
<1>5. PICK m \in Loop : \E g \in Seq(Functors) :
         /\ QueueInLoop(Main, m, g)
         /\ \A do \in Steps : \A d : Holds(g, Bound(do, d)) => do = "connectEstablished" /\ d = c
  <2>1. CASE NextLoop = Main
    <3>1. PICK g \in Seq({Bound("writeComplete", c)}) : g = SendQueues(c, Established(i))
      BY SendQueuesType
    <3>2. g \in Seq(Functors) /\ \A do \in Steps : \A d : ~Holds(g, Bound(do, d))
      BY WritesNotDue
    <3> QED BY <1>m, <1>1, <2>1, <3>1, <3>2
  <2>2. CASE NextLoop # Main
    <3> DEFINE g == <<Bound("connectEstablished", c)>>
    <3>1. /\ g \in Seq(Functors)
          /\ \A do \in Steps : \A d : Holds(g, Bound(do, d)) <=> do = "connectEstablished" /\ d = c
      BY OneDue DEF Steps
    <3>2. QueueInLoop(Main, NextLoop, g)
      BY <1>1, <2>2
    <3> HIDE DEF g
    <3> QED BY <1>m, <3>1, <3>2
  <2> QED BY <2>1, <2>2
<1>6. PICK g \in Seq(Functors) :
         /\ QueueInLoop(Main, m, g)
         /\ \A do \in Steps : \A d : Holds(g, Bound(do, d)) => do = "connectEstablished" /\ d = c
  BY <1>5
<1>7. \A do \in Steps, d \in Conn : Due(do, d)' <=> Due(do, d) \/ Holds(g, Bound(do, d))
  BY <1>2, <1>4, <1>6, DueGrows
<1>8. QuitInv'
  BY <1>2, <1>6, CallQuit
<1>9. ASSUME NEW d \in Conn, d # c PROVE Served(d)'
  <2>1. \A do \in Steps : Due(do, d)' <=> Due(do, d)
    BY <1>6, <1>7, <1>9
  <2> QED BY <1>1, <1>2, <1>3, <1>9, <2>1, OthersServed
<1>10. Served(c)'
  <2>1. conn[c].at # "accepted"
    BY <1>1
  <2>2. \A do : ~Due(do, c)
    BY <1>4, <2>1, NothingDue
  <2>3. ~Due("connectDestroyed", c)' /\ ~Due("shutdownInLoop", c)'
    BY <1>6, <1>7, <2>2 DEF Steps
  <2>4. c \in connections' /\ j.downs = 0 /\ held \subseteq held'
    BY <1>1
  <2>5. Releasing(c)'
    BY <1>3, <2>3, <2>4 DEF Releasing
  <2>7. Shutting(c)'
    BY <1>3, <1>4 DEF Shutting
  <2> QED BY <2>5, <2>7 DEF Served
<1> QED BY <1>8, <1>9, <1>10 DEF Reach

\* What is left of a after its first r elements, and b after it, is what a and b
\* together have after their first r elements.
LEMMA PlaceInRest ==
    ASSUME NEW S, NEW a \in Seq(S), NEW b \in Seq(S), NEW r \in Nat, r <= Len(a)
    PROVE  /\ Len(a) \in Nat /\ Len(b) \in Nat
           /\ Len(SubSeq(a, r + 1, Len(a)) \o b) = Len(a) - r + Len(b)
           /\ \A i \in 1..(Len(a) - r + Len(b)) :
                 (SubSeq(a, r + 1, Len(a)) \o b)[i] = (a \o b)[r + i]
<1>1. PICK m \in Nat, n \in Nat : m = Len(a) /\ n = Len(b)
  BY LenProperties
<1>2. PICK s : s = SubSeq(a, r + 1, m)
  OBVIOUS
<1>3. s \in Seq(S) /\ Len(s) = m - r /\ \A i \in 1..(m - r) : s[i] = a[r + i]
  <2>1. \A i \in (r + 1)..m : a[i] \in S
    BY <1>1, ElementOfSeq
  <2>2. r + 1 \in Int /\ m \in Int /\ r <= m
    BY <1>1
  <2>3. /\ s \in Seq(S) /\ Len(s) = IF r + 1 <= m THEN m - (r + 1) + 1 ELSE 0
        /\ \A i \in 1..(m - (r + 1) + 1) : s[i] = a[(r + 1) + i - 1]
    BY <1>2, <2>1, <2>2, SubSeqProperties
  <2>4. m - (r + 1) + 1 = m - r /\ \A i \in Int : (r + 1) + i - 1 = r + i
    BY <2>2
  <2>5. Len(s) = m - r
    BY <2>2, <2>3
  <2>6. ASSUME NEW i \in 1..(m - r) PROVE s[i] = a[r + i]
    <3>1. s[i] = a[(r + 1) + i - 1] /\ i \in Int
      BY <2>3, <2>4
    <3>2. (r + 1) + i - 1 = r + i
      BY <2>4, <3>1
    <3> QED BY <3>1, <3>2
  <2> QED BY <2>3, <2>5, <2>6
<1>4. PICK d \in Nat : d = m - r /\ d = Len(s)
  BY <1>1, <1>3
<1>5. /\ Len(s \o b) = d + n
      /\ \A i \in 1..(d + n) : (s \o b)[i] = IF i <= d THEN s[i] ELSE b[i - d]
  <2>1. /\ Len(s \o b) = Len(s) + Len(b)
        /\ \A i \in 1..(Len(s) + Len(b)) :
              (s \o b)[i] = IF i <= Len(s) THEN s[i] ELSE b[i - Len(s)]
    BY <1>3, ConcatProperties
  <2> QED BY <1>1, <1>4, <2>1
<1>6. \A i \in 1..(m + n) : (a \o b)[i] = IF i <= m THEN a[i] ELSE b[i - m]
  <2>1. \A i \in 1..(Len(a) + Len(b)) :
              (a \o b)[i] = IF i <= Len(a) THEN a[i] ELSE b[i - Len(a)]
    BY ConcatProperties
  <2> QED BY <1>1, <2>1
<1>7. ASSUME NEW i \in 1..(d + n) PROVE (s \o b)[i] = (a \o b)[r + i]
  <2>1. PICK j \in 1..(m + n) : j = r + i /\ j - m = i - d
    BY <1>1, <1>4
  <2>2. CASE i <= d
    <3>1. i \in 1..(m - r) /\ j <= m
      BY <1>1, <1>4, <2>1, <2>2
    <3>2. (s \o b)[i] = a[j] /\ (a \o b)[j] = a[j]
      BY <1>3, <1>5, <1>6, <2>1, <2>2, <3>1
    <3> QED BY <2>1, <3>2
  <2>3. CASE ~(i <= d)
    <3>1. ~(j <= m)
      BY <1>1, <1>4, <2>1, <2>3
    <3>2. (s \o b)[i] = b[i - d]
      BY <1>5, <2>3
    <3>3. (a \o b)[j] = b[j - m]
      BY <1>6, <2>1, <3>1
    <3> QED BY <2>1, <3>2, <3>3
  <2> QED BY <2>2, <2>3
<1> QED BY <1>1, <1>2, <1>4, <1>5, <1>7

\* r functors of the m that loop l swapped out have run and n more are queued:
\* rest are those to run, of all that the loop holds.
Places(l, r, m, n, rest, all) ==
    /\ r = ran[l] /\ m = Len(functors[l]) /\ n = Len(pending[l]) /\ r <= m
    /\ rest = Rest(l) /\ all = functors[l] \o pending[l]
    /\ Len(rest) = m - r + n
    /\ \A i \in 1..(m - r + n) : rest[i] = all[r + i]

\* What is to run, by its place in the queues.
LEMMA RestIndex ==
    ASSUME QueueTypes, NEW l \in Loop
    PROVE  \E r, m, n \in Nat : \E rest, all : Places(l, r, m, n, rest, all)
<1>1. PICK a, b, r : /\ a = functors[l] /\ b = pending[l] /\ r = ran[l]
                     /\ a \in Seq(Functors) /\ b \in Seq(Functors)
                     /\ r \in Nat /\ r <= Len(a)
  BY DEF QueueTypes
<1>2. PICK m \in Nat, n \in Nat : m = Len(a) /\ n = Len(b)
  BY <1>1, LenProperties
<1>3. PICK rest, all : rest = Rest(l) /\ all = a \o b
  OBVIOUS
<1>4. rest = SubSeq(a, r + 1, m) \o b
  BY <1>1, <1>2, <1>3 DEF Rest
<1>0. a \in Seq(Functors) /\ b \in Seq(Functors) /\ r \in Nat /\ r <= Len(a)
  BY <1>1
<1>5. /\ Len(SubSeq(a, r + 1, Len(a)) \o b) = Len(a) - r + Len(b)
      /\ \A i \in 1..(Len(a) - r + Len(b)) :
            (SubSeq(a, r + 1, Len(a)) \o b)[i] = (a \o b)[r + i]
  <2> HIDE <1>1
  <2> QED BY <1>0, PlaceInRest
<1>6. Len(rest) = m - r + n /\ \A i \in 1..(m - r + n) : rest[i] = all[r + i]
  BY <1>2, <1>3, <1>4, <1>5
<1>7. m = Len(functors[l]) /\ n = Len(pending[l]) /\ r <= m /\ all = functors[l] \o pending[l]
  BY <1>1, <1>2, <1>3
<1>8. r = ran[l] /\ rest = Rest(l)
  BY <1>1, <1>3
<1>9. r \in Nat /\ m \in Nat /\ n \in Nat
  BY <1>0, <1>2
<1>10. Places(l, r, m, n, rest, all)
  BY <1>6, <1>7, <1>8 DEF Places
<1> QED BY <1>9, <1>10

\* Queued finds what is due.
LEMMA QueuedHas ==
    ASSUME QueueTypes, NEW l \in Loop, NEW do, NEW c
    PROVE  Queued(l, do, c) <=> Has(l, do, c)
<1>1. PICK r, m, n \in Nat : \E rest, all : Places(l, r, m, n, rest, all)
  BY RestIndex
<1>2. PICK rest, all : Places(l, r, m, n, rest, all)
  BY <1>1
<1>3. PICK f : f = Bound(do, c)
  OBVIOUS
<1>4. Queued(l, do, c) <=> \E i \in r + 1..m + n : all[i] = f
  BY <1>2, <1>3 DEF Queued, Places
<1>5. Has(l, do, c) <=> \E i \in 1..(m - r + n) : rest[i] = f
  BY <1>2, <1>3 DEF Has, Holds, Places
<1>6. ASSUME NEW i \in r + 1..m + n, all[i] = f PROVE \E x \in 1..(m - r + n) : rest[x] = f
  <2>1. i - r \in 1..(m - r + n) /\ r + (i - r) = i
    BY <1>1
  <2> QED BY <1>2, <1>6, <2>1 DEF Places
<1>7. ASSUME NEW x \in 1..(m - r + n), rest[x] = f PROVE \E i \in r + 1..m + n : all[i] = f
  <2>1. r + x \in r + 1..m + n
    BY <1>1
  <2> QED BY <1>2, <1>7, <2>1 DEF Places
<1> QED BY <1>4, <1>5, <1>6, <1>7

\* Without send() in another thread, a functor with the bare this is
\* shutdownInLoop.
LEMMA RawDue ==
    ASSUME QueueInv, NEW c
    PROVE  RawQueued(c) <=> Due("shutdownInLoop", c)
<1>0. QueueTypes
  BY DEF QueueInv
<1>1. ASSUME RawQueued(c) PROVE Due("shutdownInLoop", c)
  <2>1. PICK l \in Loop : \E i \in 1..Len(pending[l]) + Len(functors[l]) :
          LET f == (functors[l] \o pending[l])[i]
          IN  i > ran[l] /\ f.c = c /\ f.do \notin Owning
    BY <1>1 DEF RawQueued
  <2>2. PICK r, m, n \in Nat : \E rest, all : Places(l, r, m, n, rest, all)
    BY <1>0, RestIndex
  <2>3. PICK rest, all : Places(l, r, m, n, rest, all)
    BY <2>2
  <2>4. \E i \in 1..n + m : i > r /\ all[i].c = c /\ all[i].do \notin Owning
    BY <2>1, <2>3 DEF Places
  <2>5. PICK i \in 1..n + m : i > r /\ all[i].c = c /\ all[i].do \notin Owning
    BY <2>4
  <2>6. PICK x \in 1..(m - r + n) : r + x = i
    <3>1. i - r \in 1..(m - r + n) /\ r + (i - r) = i
      BY <2>2, <2>5
    <3> QED BY <3>1
  <2>7. PICK f : f = rest[x] /\ f.c = c /\ f.do \notin Owning
    BY <2>3, <2>5, <2>6 DEF Places
  <2>8. x \in 1..Len(Rest(l)) /\ Rest(l)[x] = f
    BY <2>3, <2>7 DEF Places
  <2>9. Sound(l, f)
    BY <2>8 DEF QueueInv
  <2>10. f.do = "shutdownInLoop" /\ f \in Functors
    BY <2>7, <2>9 DEF Sound, Functors, Owning
  <2>11. f = Bound("shutdownInLoop", c)
    BY <2>7, <2>10 DEF Functors, Bound
  <2> QED BY <2>8, <2>11 DEF Due, Has, Holds
<1>2. ASSUME Due("shutdownInLoop", c) PROVE RawQueued(c)
  <2>1. PICK l \in Loop : Has(l, "shutdownInLoop", c)
    BY <1>2 DEF Due
  <2>2. PICK r, m, n \in Nat : \E rest, all : Places(l, r, m, n, rest, all)
    BY <1>0, RestIndex
  <2>3. PICK rest, all : Places(l, r, m, n, rest, all)
    BY <2>2
  <2>4. PICK f : f = Bound("shutdownInLoop", c)
    OBVIOUS
  <2>9. f.c = c /\ f.do \notin Owning
    BY <2>4 DEF Bound, Owning
  <2>5. PICK x \in 1..(m - r + n) : rest[x] = f
    BY <2>1, <2>3, <2>4 DEF Has, Holds, Places
  <2>6. r + x \in 1..n + m /\ r + x > r
    BY <2>2, <2>5
  <2>7. all[r + x] = f
    BY <2>3, <2>5 DEF Places
  <2>8. \E i \in 1..n + m : i > r /\ all[i].c = c /\ all[i].do \notin Owning
    BY <2>9, <2>6, <2>7
  <2> QED BY <2>3, <2>8 DEF RawQueued, Places
<1> QED BY <1>1, <1>2

\* A functor that is due and bound to a shared_ptr keeps its connection.
LEMMA DueOwns ==
    ASSUME QueueTypes, NEW c, NEW do \in Owning, Due(do, c)
    PROVE  Owned(c)
<1>1. PICK l \in Loop : Has(l, do, c)
  BY DEF Due
<1>2. PICK r, m, n \in Nat : \E rest, all : Places(l, r, m, n, rest, all)
  BY RestIndex
<1>3. PICK rest, all : Places(l, r, m, n, rest, all)
  BY <1>2
<1>4. PICK a, b, f : a = functors[l] /\ b = pending[l] /\ f = Bound(do, c)
  OBVIOUS
<1>12. f.c = c /\ f.do \in Owning
  BY <1>4 DEF Bound
<1>5. PICK x \in 1..(m - r + n) : rest[x] = f
  BY <1>1, <1>3, <1>4 DEF Has, Holds, Places
<1>6. PICK i \in 1..(m + n) : i = r + x
  <2>1. r <= m
    BY <1>3 DEF Places
  <2>2. r + x \in 1..(m + n)
    BY <1>2, <1>5, <2>1
  <2> QED BY <2>2
<1>7. all[i] = f /\ all = a \o b /\ m = Len(a) /\ n = Len(b)
  BY <1>3, <1>4, <1>5, <1>6 DEF Places
<1>8. a \in Seq(Functors) /\ b \in Seq(Functors)
  BY <1>4 DEF QueueTypes
<1>9. all[i] = IF i <= m THEN a[i] ELSE b[i - m]
  <2>1. \A y \in 1..(Len(a) + Len(b)) :
              (a \o b)[y] = IF y <= Len(a) THEN a[y] ELSE b[y - Len(a)]
    BY <1>8, ConcatProperties
  <2> QED BY <1>6, <1>7, <2>1
<1>10. f \in Range(a) \cup Range(b)
  <2>0. Range(a) = {a[y] : y \in 1..m} /\ Range(b) = {b[y] : y \in 1..n}
    <3>1. DOMAIN a = 1..m /\ DOMAIN b = 1..n
      BY <1>7, <1>8, LenProperties
    <3> QED BY <3>1 DEF Range
  <2>1. CASE i <= m
    <3>1. i \in 1..m /\ a[i] = f
      BY <1>2, <1>6, <1>7, <1>9, <2>1
    <3> QED BY <2>0, <3>1
  <2>2. CASE ~(i <= m)
    <3>1. i - m \in 1..n /\ b[i - m] = f
      BY <1>2, <1>6, <1>7, <1>9, <2>2
    <3> QED BY <2>0, <3>1
  <2> QED BY <2>1, <2>2
<1>11. f \in Stored(l)
  BY <1>4, <1>10 DEF Stored
<1> QED BY <1>12, <1>11 DEF Owned

-----------------------------------------------------------------------------
(* The steps outside of the loops.                                           *)

\* ~TcpServer destroys a connection at once or has its loop do it.
LEMMA DestroyReach ==
    ASSUME Sys, Reach, DestroyConnection
    PROVE  Reach'
<1>m. Main \in Loop
  BY DEF Loop
<1>1. PICK c \in connections :
         /\ connections' = connections \ {c}
         /\ IF conn[c].loop = Main
            THEN /\ conn' = [conn EXCEPT ![c] = ConnectDestroyed(@)]
                 /\ UNCHANGED <<pending, wakes>>
            ELSE /\ QueueInLoop(Main, conn[c].loop, <<Bound("connectDestroyed", c)>>)
                 /\ UNCHANGED conn
  BY DEF DestroyConnection
<1>2. /\ pc[Main] = "left"
      /\ UNCHANGED <<pc, quit_, eventfd, functors, ran, active, join,
                     next_, held, worker, inputs>>
  BY DEF DestroyConnection
<1>3. c \in Conn /\ conn[c].at = "accepted" /\ KInv(conn[c]) /\ conn[c].loop \in Loop
  BY DEF Sys, ConnsInv, KInv, Record
<1>4. Leaving /\ Leaving' /\ Served(c) /\ QueueInv /\ c \notin connections'
  BY <1>1, <1>2, <1>3 DEF Leaving, Reach, Sys
<1>5. Shutting(c)'
  BY <1>4 DEF Shutting
<1>6. CASE conn[c].loop = Main
  <2>1. PICK j : /\ j = ConnectDestroyed(conn[c]) /\ j.index = "kNew"
                 /\ KInv(j) /\ Advances(conn[c], j)
    BY <1>3, ConnectDestroyedInv
  <2>2. conn' = [conn EXCEPT ![c] = j] /\ UNCHANGED <<pending, wakes>>
    BY <1>1, <1>6, <2>1
  <2>3. conn'[c] = j /\ \A d \in Conn : d # c => conn'[d] = conn[d]
    BY <1>3, <2>1, <2>2, OneConn DEF Sys
  <2>4. \A l \in Loop : Rest(l)' = Rest(l)
    BY <1>2, <2>2 DEF Rest
  <2>5. \A do, d : Due(do, d)' <=> Due(do, d)
    BY <2>4, DueStays
  <2>6. QuitInv'
    BY <1>2, <2>2, QuitSame DEF Reach, QuitInv
  <2>7. ASSUME NEW d \in Conn, d # c PROVE Served(d)'
    BY <1>1, <1>2, <2>3, <2>5, <2>7, OthersServed
  <2>8. ~Due("connectEstablished", c)
    <3> SUFFICES ASSUME NEW l \in Loop, Has(l, "connectEstablished", c) PROVE FALSE
      BY DEF Due
    <3>1. Sound(l, Bound("connectEstablished", c))
      BY <1>4, DueSound
    <3> QED BY <1>6, <3>1 DEF Sound, Bound
  <2>9. Releasing(c)'
    BY <1>4, <2>1, <2>3, <2>5, <2>8 DEF Releasing
  <2> QED BY <1>5, <2>6, <2>7, <2>9 DEF Reach, Served
<1>7. CASE conn[c].loop # Main
  <2> DEFINE g == <<Bound("connectDestroyed", c)>>
  <2>1. PICK m \in Loop : m = conn[c].loop
    BY <1>3
  <2>2. QueueInLoop(Main, m, g) /\ UNCHANGED conn
    BY <1>1, <1>7, <2>1
  <2>3. /\ g \in Seq(Functors)
        /\ \A do \in Steps : \A d : Holds(g, Bound(do, d)) <=> do = "connectDestroyed" /\ d = c
    BY <1>3, OneDue DEF Steps
  <2> HIDE DEF g
  <2>4. \A do \in Steps, d \in Conn : Due(do, d)' <=> Due(do, d) \/ (do = "connectDestroyed" /\ d = c)
    BY <1>2, <1>4, <2>2, <2>3, DueGrows
  <2>5. QuitInv'
    BY <1>2, <2>2, CallQuit
  <2>6. ASSUME NEW d \in Conn, d # c PROVE Served(d)'
    <3>1. \A do \in Steps : Due(do, d)' <=> Due(do, d)
      BY <2>4, <2>6
    <3> QED BY <1>1, <1>2, <2>2, <2>6, <3>1, OthersServed
  <2>7. /\ Due("connectDestroyed", c)'
        /\ Due("shutdownInLoop", c)' <=> Due("shutdownInLoop", c)
    BY <1>3, <2>4 DEF Steps
  <2>8. Releasing(c)'
    BY <1>4, <2>7 DEF Releasing
  <2> QED BY <1>5, <2>5, <2>6, <2>8 DEF Reach, Served
<1> QED BY <1>6, <1>7

\* A step that leaves the loops, the queues and the worker alone, and every
\* connection's loop, channel and reports as they are.
LEMMA AsideReach ==
    ASSUME Sys, Reach, UNCHANGED <<loopVars, connections, worker>>,
           \A d \in Conn :
              /\ conn'[d].loop = conn[d].loop /\ conn'[d].downs = conn[d].downs
              /\ conn'[d].index = conn[d].index /\ (Waits(conn'[d]) => Waits(conn[d]))
    PROVE  Reach'
<1>1. UNCHANGED <<pc, quit_, eventfd, pending, functors, ran, wakes, join>>
  BY DEF loopVars
<1>2. QuitInv'
  BY <1>1, QuitSame DEF Reach, QuitInv
<1>3. \A do, d : Due(do, d)' <=> Due(do, d)
  <2>1. \A l \in Loop : Rest(l)' = Rest(l)
    BY <1>1 DEF Rest
  <2> QED BY <2>1, DueStays
<1>4. ASSUME NEW d \in Conn PROVE Served(d)'
  <2>1. Served(d) /\ conn[d].loop \in Loop
    BY DEF Reach, Sys, ConnsInv, KInv, Record
  <2>2. Calm(d)
    BY <1>3 DEF Calm
  <2>3. Ends
    BY <1>1 DEF Ends, Leaving
  <2> QED BY <2>1, <2>2, <2>3, CalmKeeps
<1> QED BY <1>2, <1>4 DEF Reach

\* The peers.
LEMMA PeersReach ==
    ASSUME Sys, Reach, NEW c \in Conn,
           \/ PeerConnects(c) \/ PeerSends(c) \/ PeerReads(c)
           \/ PeerCloses(c) \/ PeerResets(c)
    PROVE  Reach'
<1>0. DOMAIN conn = Conn /\ conn[c] \in Record
  BY DEF Sys, ConnsInv, KInv
<1>1. PICK j : Peer(c, j) /\ SameButPeer(conn[c], j)
  BY <1>0, PeerIs
<1>2. /\ conn' = [conn EXCEPT ![c] = j]
      /\ UNCHANGED <<loopVars, connections, held, worker>>
  BY <1>1 DEF Peer
<1>3. \A d \in Conn :
         /\ conn'[d].loop = conn[d].loop /\ conn'[d].downs = conn[d].downs
         /\ conn'[d].index = conn[d].index /\ (Waits(conn'[d]) => Waits(conn[d]))
  BY <1>0, <1>1, <1>2 DEF SameButPeer, Waits, IsWriting
<1> QED BY <1>2, <1>3, AsideReach

\* The application lets go of its pointer.
LEMMA DropReach ==
    ASSUME Sys, Reach, NEW c \in Conn, Drop(c)
    PROVE  Reach'
<1>1. UNCHANGED <<loopVars, conn, connections, next_, worker, inputs>>
  BY DEF Drop
<1> QED BY <1>1, AsideReach DEF Waits, IsWriting

\* The worker calls a connection whose pointer it has, and tells the main loop to
\* quit.
LEMMA WorkerReach ==
    ASSUME Sys, Reach, "send" \notin WorkerOps,
           WorkerCalls \/ WorkerSetsState \/ WorkerQueues \/ QuitServer
    PROVE  Reach'
<1>m. Main \in Loop
  BY DEF Loop
<1>0. /\ DOMAIN conn = Conn /\ QueueInv
      /\ \A d \in Conn : Served(d) /\ conn[d].loop \in Loop
  BY DEF Reach, Sys, ConnsInv, KInv, Record
<1>1. CASE WorkerCalls
  <2>1. /\ UNCHANGED <<pc, quit_, eventfd, pending, functors, ran, wakes, join>>
        /\ UNCHANGED <<conn, connections, held>> /\ worker = Idle
    BY <1>1 DEF WorkerCalls, loopVars
  <2>2. PICK c \in held, op \in WorkerOps :
           worker' = IF Accepts(conn[c]) THEN <<"checked", op, c>> ELSE Idle
    BY <1>1 DEF WorkerCalls
  <2>3. op = "shutdown"
    BY TcpAssumption
  <2>4. QuitInv'
    BY <2>1, QuitSame DEF Reach, QuitInv, Idle, Gone
  <2>5. \A do, d : Due(do, d)' <=> Due(do, d)
    <3>1. \A l \in Loop : Rest(l)' = Rest(l)
      BY <2>1 DEF Rest
    <3> QED BY <3>1, DueStays
  <2>6. ASSUME NEW d \in Conn PROVE Served(d)'
    <3>1. Releasing(d)'
      BY <1>0, <2>1, <2>5 DEF Served, Releasing, Leaving
    <3>3. Shutting(d)'
      BY <1>0, <2>1, <2>5 DEF Served, Shutting, Waits, IsWriting, Leaving, Idle
    <3> QED BY <3>1, <3>3 DEF Served
  <2> QED BY <2>4, <2>6 DEF Reach
<1>2. CASE WorkerSetsState
  <2>1. PICK c \in Conn : worker = <<"checked", "shutdown", c>>
    BY <1>2 DEF WorkerSetsState, Sys, WorkerInv, Idle, Gone
  <2> DEFINE j == [conn[c] EXCEPT !.state = "kDisconnecting"]
  <2>2. /\ conn' = [conn EXCEPT ![c] = j] /\ worker' = <<"set", "shutdown", c>>
        /\ UNCHANGED <<pc, quit_, eventfd, pending, functors, ran, wakes, join>>
        /\ UNCHANGED <<connections, held>>
    BY <1>2, <2>1 DEF WorkerSetsState, loopVars
  <2>3. j.loop = conn[c].loop /\ j.downs = conn[c].downs /\ j.index = conn[c].index
    BY DEF Sys, ConnsInv, KInv, Record
  <2> HIDE DEF j
  <2>4. conn'[c] = j /\ \A d \in Conn : d # c => conn'[d] = conn[d]
    BY <1>0, <2>2
  <2>5. QuitInv'
    BY <2>1, <2>2, QuitSame DEF Reach, QuitInv, Gone
  <2>6. \A do, d : Due(do, d)' <=> Due(do, d)
    <3>1. \A l \in Loop : Rest(l)' = Rest(l)
      BY <2>2 DEF Rest
    <3> QED BY <3>1, DueStays
  <2>7. ASSUME NEW d \in Conn PROVE Served(d)'
    <3>1. Releasing(d)'
      BY <1>0, <2>2, <2>3, <2>4, <2>6 DEF Served, Releasing, Leaving
    <3>3. Shutting(d)'
      BY <1>0, <2>1, <2>2, <2>4, <2>6 DEF Served, Shutting, Waits, IsWriting, Leaving
    <3> QED BY <3>1, <3>3 DEF Served
  <2> QED BY <2>5, <2>7 DEF Reach
<1>3. CASE WorkerQueues
  <2>1. PICK c \in Conn : worker = <<"set", "shutdown", c>>
    BY <1>3 DEF WorkerQueues, Sys, WorkerInv
  <2>2. PICK m \in Loop : m = conn[c].loop
    BY <1>0
  <2> DEFINE g == <<Bound("shutdownInLoop", c)>>
  <2>3. /\ QueueInLoop(Worker, m, g) /\ worker' = Idle
        /\ UNCHANGED <<pc, quit_, eventfd, functors, ran, active, join,
                       conn, connections, next_, held, inputs>>
    BY <1>3, <2>1, <2>2 DEF WorkerQueues
  <2>4. /\ g \in Seq(Functors)
        /\ \A do \in Steps : \A d : Holds(g, Bound(do, d)) <=> do = "shutdownInLoop" /\ d = c
    BY OneDue DEF Steps
  <2> HIDE DEF g
  <2>5. \A do \in Steps, d \in Conn : Due(do, d)' <=> Due(do, d) \/ (do = "shutdownInLoop" /\ d = c)
    BY <1>0, <2>3, <2>4, DueGrows
  <2>6. QuitInv'
    BY <2>1, <2>3, CallQuit DEF Gone
  <2>7. ASSUME NEW d \in Conn PROVE Served(d)'
    <3>1. /\ Due("connectEstablished", d)' <=> Due("connectEstablished", d)
          /\ Due("connectDestroyed", d)' <=> Due("connectDestroyed", d)
          /\ Due("removeConnectionInLoop", d)' <=> Due("removeConnectionInLoop", d)
          /\ Due("shutdownInLoop", d)' <=> Due("shutdownInLoop", d) \/ d = c
      BY <2>5 DEF Steps
    <3>2. Releasing(d)'
      BY <1>0, <2>3, <3>1 DEF Served, Releasing, Leaving
    <3>4. Shutting(d)'
      BY <1>0, <2>1, <2>3, <3>1 DEF Served, Shutting, Waits, IsWriting, Leaving, Idle
    <3> QED BY <3>2, <3>4 DEF Served
  <2> QED BY <2>6, <2>7 DEF Reach
<1>4. CASE QuitServer
  <2>1. /\ worker = Idle /\ worker' \in {Idle, Gone}
        /\ quit_' = [quit_ EXCEPT ![Main] = TRUE]
        /\ wakes' = [wakes EXCEPT ![Worker] = @ \cup {Main}]
        /\ UNCHANGED <<pc, eventfd, pending, functors, ran, join, conn, connections, held>>
    BY <1>4 DEF QuitServer, QuitFrom
  <2>2. QuitInv /\ Main \in Thread
    BY DEF Reach, Thread, Loop
  <2>3. QuitInv'
    <3>1. /\ quit_' \in [Loop -> BOOLEAN] /\ wakes' \in [Thread -> SUBSET Loop]
          /\ join' \in 0..Len(IoLoops)
      BY <1>m, <2>1, <2>2 DEF QuitInv, Thread
    <3>2. \A l \in Loop \ {Main} : quit_'[l] => quit_[l]
      BY <2>1, <2>2 DEF QuitInv
    <3> QED BY <2>1, <2>2, <3>1, <3>2, QuitMoves DEF Leaving
  <2>4. \A do, d : Due(do, d)' <=> Due(do, d)
    <3>1. \A l \in Loop : Rest(l)' = Rest(l)
      BY <2>1 DEF Rest
    <3> QED BY <3>1, DueStays
  <2>5. ASSUME NEW d \in Conn PROVE Served(d)'
    <3>1. Releasing(d)'
      BY <1>0, <2>1, <2>4 DEF Served, Releasing, Leaving
    <3>3. Shutting(d)'
      BY <1>0, <2>1, <2>4 DEF Served, Shutting, Waits, IsWriting, Leaving, Idle
    <3> QED BY <3>1, <3>3 DEF Served
  <2> QED BY <2>3, <2>5 DEF Reach
<1> QED BY <1>1, <1>2, <1>3, <1>4

-----------------------------------------------------------------------------
(* Reach is an invariant.                                                    *)

\* It holds of a server that has not started: nothing is queued.
LEMMA InitReach == Init => Reach
<1> SUFFICES ASSUME Init PROVE Reach
  OBVIOUS
<1>1. \A c \in Conn : conn[c] = Unopened
  BY DEF Init
<1>2. ASSUME NEW l \in Loop, NEW do, NEW c PROVE ~Has(l, do, c)
  <2>1. Rest(l) = SubSeq(<<>>, 0 + 1, 0) \o <<>>
    BY DEF Init, LoopInit, Rest
  <2>2. Rest(l) = <<>>
    BY <2>1, SubSeqEmpty, ConcatEmptySeq, EmptySeq
  <2> QED BY <2>2, HoldsOne DEF Has
<1>3. \A do, c : ~Due(do, c)
  BY <1>2 DEF Due
<1>4. QuitInv
  <2>1. Len(IoLoops) \in Nat
    BY LoopAssumption, LenProperties
  <2>2. \A l \in Loop : pc[l] \in {"start", "boot"} /\ ~quit_[l]
    BY DEF Init, LoopInit
  <2>3. Main \in Loop
    BY DEF Loop
  <2> QED BY <2>1, <2>2, <2>3 DEF Init, LoopInit, QuitInv, Leaving
<1>5. ASSUME NEW c \in Conn PROVE Served(c)
  <2>1. conn[c].index = "kNew" /\ conn[c].downs = 0 /\ conn[c].state = "kConnecting"
    BY <1>1 DEF Unopened
  <2> QED BY <1>3, <2>1 DEF Init, Served, Releasing, Shutting, Waits, Idle
<1> QED BY <1>4, <1>5 DEF Reach

\* Every step keeps it.
LEMMA NextReach ==
    ASSUME Sys, Reach, "send" \notin WorkerOps, [Next]_vars
    PROVE  Reach'
<1>1. ASSUME NEW l \in Loop, LoopStep(l) \/ PollTimeout(l) PROVE Reach'
  <2>1. CASE \/ EnterLoop(l) /\ UNCHANGED tcpVars
             \/ Poll(l) \/ HandleWakeupEvent(l)
             \/ BeginPending(l) /\ UNCHANGED tcpVars
             \/ EndPending(l) /\ UNCHANGED tcpVars
             \/ PublishLoop(l) /\ UNCHANGED tcpVars
             \/ ThreadReturns(l) /\ UNCHANGED tcpVars
             \/ PollTimeout(l)
    <3>1. Moves
      BY <2>1 DEF Moves, Poll, PollTimeout, HandleWakeupEvent
    <3> QED BY <3>1, MovesReach
  <2>2. CASE l = Main /\ HandleAccept
    BY <2>2, HandleAcceptReach
  <2>3. CASE HandleEvent(l)
    BY <2>3, HandleEventReach
  <2>4. CASE RunConnectEstablished(l)
    BY <2>4, RunEstablishedReach
  <2>5. CASE RunRemoveConnection(l)
    BY <2>5, RunRemoveReach
  <2>6. CASE RunOther(l)
    BY <2>6, RunOtherReach
  <2> QED BY <1>1, <2>1, <2>2, <2>3, <2>4, <2>5, <2>6 DEF LoopStep
<1>2. CASE MainStep
  <2>1. CASE DestroyConnection
    BY <2>1, DestroyReach
  <2>2. CASE ~DestroyConnection
    <3>1. Moves
      BY <1>2, <2>2 DEF MainStep, Moves, DestroyServer
    <3> QED BY <3>1, MovesReach
  <2> QED BY <2>1, <2>2
<1>3. ASSUME NEW t \in Thread, WakeStep(t) PROVE Reach'
  <2>1. Moves
    BY <1>3 DEF WakeStep, Moves
  <2> QED BY <2>1, MovesReach
<1>4. CASE WorkerCalls \/ WorkerSetsState \/ WorkerQueues \/ QuitServer
  BY <1>4, WorkerReach
<1>5. ASSUME NEW c \in Conn,
             \/ Drop(c) \/ PeerConnects(c) \/ PeerSends(c) \/ PeerReads(c)
             \/ PeerCloses(c) \/ PeerResets(c)
      PROVE  Reach'
  BY <1>5, DropReach, PeersReach
<1>6. CASE UNCHANGED vars
  <2>1. UNCHANGED <<loopVars, conn, connections, held, worker>>
    BY <1>6 DEF vars, tcpVars
  <2> QED BY <2>1, AsideReach DEF Waits, IsWriting
<1> QED BY <1>1, <1>2, <1>3, <1>4, <1>5, <1>6 DEF Next

-----------------------------------------------------------------------------
(* What Reach says of the connections that are closed or destroyed, and of   *)
(* what one thread asked of another.                                         *)

\* next_ stays an index of the pool, also when the pool is empty.
LEMMA NextStaysIndex ==
    ASSUME next_ \in 0..Len(IoLoops), [Next]_vars
    PROVE  next_' \in 0..Len(IoLoops)
<1>0. Len(IoLoops) \in Nat
  BY LoopAssumption, LenProperties
<1>1. CASE HandleAccept
  <2>1. next_' = NextAfter
    BY <1>1 DEF HandleAccept
  <2> QED BY <1>0, <2>1 DEF NextAfter
<1>2. CASE ~HandleAccept
  <2> SUFFICES next_' = next_
    OBVIOUS
  <2>1. ASSUME NEW l \in Loop, LoopStep(l) \/ PollTimeout(l) PROVE next_' = next_
    <3>1. CASE HandleEvent(l)
      <4>1. \E a \in active[l] : \E c \in {d \in Conn : d = a[1]} :
               \E stop, hit \in BOOLEAN : UNCHANGED <<pc, quit_, eventfd, functors, ran, join,
                               next_, held, worker, inputs>>
        BY <3>1 DEF HandleEvent
      <4> QED BY <4>1
    <3>2. CASE RunConnectEstablished(l)
      BY <3>2 DEF RunConnectEstablished
    <3>3. CASE RunRemoveConnection(l) \/ RunOther(l)
      BY <3>3 DEF RunRemoveConnection, RunOther
    <3>4. CASE Poll(l) \/ PollTimeout(l) \/ HandleWakeupEvent(l) \/ UNCHANGED tcpVars
      BY <3>4 DEF PollTimeout, Poll, HandleWakeupEvent, tcpVars
    <3> QED BY <1>2, <2>1, <3>1, <3>2, <3>3, <3>4 DEF LoopStep
  <2>2. CASE MainStep
    BY <2>2 DEF MainStep, DestroyConnection, DestroyServer, tcpVars
  <2>3. ASSUME NEW t \in Thread, WakeStep(t) PROVE next_' = next_
    BY <2>3 DEF WakeStep, tcpVars
  <2>4. CASE WorkerCalls \/ WorkerSetsState \/ WorkerQueues \/ QuitServer
    BY <2>4 DEF WorkerCalls, WorkerSetsState, WorkerQueues, QuitServer
  <2>5. ASSUME NEW c \in Conn,
               \/ Drop(c) \/ PeerConnects(c) \/ PeerSends(c) \/ PeerReads(c)
               \/ PeerCloses(c) \/ PeerResets(c)
        PROVE  next_' = next_
    BY <2>5 DEF Drop, PeerConnects, PeerSends, PeerReads, PeerCloses, PeerResets, Peer
  <2>6. CASE UNCHANGED vars
    BY <2>6 DEF vars, tcpVars
  <2> QED BY <2>1, <2>2, <2>3, <2>4, <2>5, <2>6 DEF Next
<1> QED BY <1>1, <1>2

\* A destroyed connection has no functor left that would release it: its channel
\* is out of the poller unless its loop is gone.
LEMMA DestroyedIsReleased ==
    ASSUME Sys, Reach, NEW c \in Conn, Destroyed(c), conn[c].index # "kNew"
    PROVE  pc[conn[c].loop] = "gone"
<1>1. ~Owned(c) /\ c \notin connections
  BY DEF Destroyed, Owned
<1>2. Releasing(c) /\ QueueTypes
  BY DEF Reach, Served, Sys, QueueInv
<1>3. ~Due("connectDestroyed", c)
  <2>1. "connectDestroyed" \in Owning
    BY DEF Owning
  <2> QED BY <1>1, <1>2, <2>1, DueOwns
<1> QED BY <1>1, <1>2, <1>3 DEF Releasing

\* The types of the variables.
LEMMA ReachTypes ==
    ASSUME Sys, Reach, next_ \in 0..Len(IoLoops)
    PROVE  TypeOK
<1>1. pc \in [Loop -> Place]
  BY DEF Sys, QueueInv, QueueTypes
<1>2. ASSUME NEW l \in Loop
      PROVE  /\ Range(pending[l]) \cup Range(functors[l]) \subseteq Functors
             /\ ran[l] \in 0..Len(functors[l])
  <2>1. PICK a, b : /\ a = pending[l] /\ b = functors[l]
                    /\ a \in Seq(Functors) /\ b \in Seq(Functors)
    BY DEF Sys, QueueInv, QueueTypes
  <2>2. /\ DOMAIN a = 1..Len(a) /\ \A i \in 1..Len(a) : a[i] \in Functors
        /\ DOMAIN b = 1..Len(b) /\ \A i \in 1..Len(b) : b[i] \in Functors
        /\ Len(b) \in Nat
    BY <2>1, LenProperties, ElementOfSeq
  <2>3. Range(a) \cup Range(b) \subseteq Functors
    BY <2>2 DEF Range
  <2>4. ran[l] \in Nat /\ ran[l] <= Len(b)
    BY <2>1 DEF Sys, QueueInv, QueueTypes
  <2> QED BY <2>1, <2>2, <2>3, <2>4
<1>3. /\ connections \subseteq Conn /\ held \subseteq Conn
      /\ IoLoops # <<>> => next_ < Len(IoLoops)
      /\ \A c \in Conn : conn[c] \in Record
  BY DEF Sys, ConnsInv, KInv
<1>4. \A c \in Conn :
          /\ conn[c].state \in {"kConnecting", "kConnected", "kDisconnecting", "kDisconnected"}
          /\ conn[c].index \in {"kNew", "kAdded", "kDeleted"}
          /\ conn[c].epoll \in {NotIn} \cup SUBSET {"in", "out"}
          /\ conn[c].room \in 0..RoomSize
  BY <1>3 DEF Record, State
<1>5. /\ quit_ \in [Loop -> BOOLEAN] /\ eventfd \in [Loop -> BOOLEAN]
      /\ wakes \in [Thread -> SUBSET Loop] /\ join \in 0..Len(IoLoops)
  BY DEF Reach, QuitInv
<1> QED BY <1>1, <1>2, <1>3, <1>4, <1>5 DEF TypeOK

\* No event reaches a connection that was reported down or destroyed.
LEMMA ReachSilent ==
    ASSUME Sys, Reach
    PROVE  ClosedIsSilent
<1>1. ASSUME NEW c \in Conn, conn[c].downs > 0 PROVE conn[c].epoll = NotIn
  BY <1>1 DEF Sys, ConnsInv, KInv, Channels
<1>2. ASSUME NEW c \in Conn, Destroyed(c), NEW l \in Loop, NEW a \in active[l]
      PROVE  a[1] # c
  <2> SUFFICES ASSUME a[1] = c PROVE FALSE
    OBVIOUS
  <2>1. conn[c].loop = l /\ conn[c].epoll # NotIn /\ pc[l] = "handle"
    BY <1>2 DEF Sys, ActiveInv
  <2>2. conn[c].index = "kAdded"
    BY <2>1 DEF Sys, ConnsInv, KInv, Channels
  <2> QED BY <1>2, <2>1, <2>2, DestroyedIsReleased
<1> QED BY <1>1, <1>2, DestroyedIsReleased DEF ClosedIsSilent

\* A shutdown() that waits is going to be done.
LEMMA ReachShutdown ==
    ASSUME Sys, Reach
    PROVE  ShutdownUnderWay
<1> SUFFICES ASSUME NEW c \in Conn, conn[c].state = "kDisconnecting", ~conn[c].fin,
                    conn[c].downs = 0,
                    ~(IsWriting(conn[c]) /\ conn[c].out # <<>>)
             PROVE  RawQueued(c) \/ worker = <<"set", "shutdown", c>> \/ Leaving
  BY DEF ShutdownUnderWay
<1>1. ~IsWriting(conn[c])
  BY DEF Sys, ConnsInv, KInv, Bytes
<1>2. Waits(conn[c])
  BY <1>1 DEF Waits
<1>3. Shutting(c) /\ QueueInv
  BY DEF Reach, Served, Sys
<1> QED BY <1>2, <1>3, RawDue DEF Shutting

\* A connection that was reported down is being released.
LEMMA ReachRelease ==
    ASSUME Sys, Reach
    PROVE  ReleaseUnderWay
<1>q. QueueInv /\ QueueTypes
  BY DEF Sys, QueueInv
<1> SUFFICES ASSUME NEW c \in Conn, conn[c].downs > 0
             PROVE  \/ c \in connections /\ Queued(Main, "removeConnectionInLoop", c)
                    \/ c \notin connections /\ Queued(conn[c].loop, "connectDestroyed", c)
                    \/ c \notin connections /\ conn[c].index = "kNew"
                    \/ Leaving
  BY DEF ReleaseUnderWay
<1>1. conn[c].downs = 1
  BY DEF Sys, ConnsInv, KInv, Told
<1>2. Due("removeConnectionInLoop", c) => Queued(Main, "removeConnectionInLoop", c)
  <2> SUFFICES ASSUME NEW l \in Loop, Has(l, "removeConnectionInLoop", c)
               PROVE  Queued(Main, "removeConnectionInLoop", c)
    BY DEF Due
  <2>1. l = Main
    <3>1. Sound(l, Bound("removeConnectionInLoop", c))
      BY <1>q, DueSound
    <3> QED BY <3>1 DEF Sound, Bound
  <2> QED BY <1>q, <2>1, QueuedHas
<1>3. Due("connectDestroyed", c) => Queued(conn[c].loop, "connectDestroyed", c)
  <2> SUFFICES ASSUME NEW l \in Loop, Has(l, "connectDestroyed", c)
               PROVE  Queued(conn[c].loop, "connectDestroyed", c)
    BY DEF Due
  <2>1. l = conn[c].loop
    <3>1. Sound(l, Bound("connectDestroyed", c))
      BY <1>q, DueSound
    <3> QED BY <3>1 DEF Sound, Bound
  <2> QED BY <1>q, <2>1, QueuedHas
<1>4. Releasing(c)
  BY DEF Reach, Served
<1> QED BY <1>1, <1>2, <1>3, <1>4 DEF Releasing

-----------------------------------------------------------------------------
(* The eventfds that threads still have to write.                            *)

\* Is ~EventLoopThreadPool under way in the main thread, or done?
Ending == pc[Main] \in {"quitting", "joining", "gone"}

\* A thread of the pool owes a write to its own loop or the base loop only while
\* it runs; the main thread owes one in ~EventLoopThread to the loop it is about
\* to join, and none afterwards; the worker owes the base loop one when it has
\* told it to quit.  The loops of the pool end in order, and the base loop last.
Owes ==
    /\ \A l \in Loop \ {Main} :
          wakes[l] # {} => pc[l] \in {"handle", "run"} /\ wakes[l] \subseteq {l, Main}
    /\ pc[Main] \in {"quitting", "gone"} => wakes[Main] = {}
    /\ pc[Main] = "joining" => join > 0 /\ wakes[Main] \subseteq {IoLoops[join]}
    /\ worker = Gone => wakes[Worker] \subseteq {Main}
    /\ quit_[Main] \/ Leaving => worker = Gone
    /\ \A l \in Loop \ {Main} : quit_[l] \/ pc[l] \in {"left", "gone"} => Ending
    /\ Ending => \A i \in 1..join :
          pc[IoLoops[i]] = "gone" \/ (i = join /\ pc[Main] = "joining")
    /\ ~Ending => join = 0
    /\ pc[Main] = "gone" => join = Len(IoLoops)

\* A step that moves no thread; the thread t may come to owe writes to l.
LEMMA OwesCall ==
    ASSUME QuitInv, Owes, UNCHANGED <<pc, quit_, join>>, worker' = Gone <=> worker = Gone,
           NEW t \in Thread, NEW l \in Loop,
           \A x \in Thread : wakes'[x] \subseteq wakes[x] \cup {y \in {l} : x = t},
           \/ t = Main /\ ~Ending
           \/ t \in Loop \ {Main} /\ pc[t] \in {"handle", "run"} /\ l \in {t, Main}
           \/ t = Worker /\ worker # Gone
           \/ \A x \in Thread : wakes'[x] \subseteq wakes[x]
    PROVE  Owes'
<1>m. /\ Main \in Loop /\ Main \in Thread /\ Worker \in Thread /\ Worker \notin Loop
      /\ Loop \subseteq Thread
  BY LoopAssumption DEF Loop, Thread
<1>e. Ending' <=> Ending
  BY DEF Ending
<1>1. \A x \in Loop \ {Main} :
         wakes'[x] # {} => pc'[x] \in {"handle", "run"} /\ wakes'[x] \subseteq {x, Main}
  <2> SUFFICES ASSUME NEW x \in Loop \ {Main}, wakes'[x] # {}
               PROVE  pc[x] \in {"handle", "run"} /\ wakes'[x] \subseteq {x, Main}
    OBVIOUS
  <2>1. wakes[x] # {} => pc[x] \in {"handle", "run"} /\ wakes[x] \subseteq {x, Main}
    BY DEF Owes
  <2>2. x \in Thread /\ x # Main /\ x # Worker
    BY <1>m
  <2>3. CASE wakes'[x] \subseteq wakes[x]
    BY <2>1, <2>3
  <2>4. CASE ~(wakes'[x] \subseteq wakes[x])
    <3>1. x = t
      BY <2>2, <2>4
    <3>2. pc[x] \in {"handle", "run"} /\ l \in {x, Main}
      BY <2>2, <2>4, <3>1
    <3> QED BY <2>1, <2>2, <3>2
  <2> QED BY <2>3, <2>4
<1>2. Ending => wakes'[Main] \subseteq wakes[Main]
  BY <1>m, LoopAssumption
<1>3. worker = Gone => wakes'[Worker] \subseteq wakes[Worker]
  BY <1>m
<1>4. /\ pc'[Main] \in {"quitting", "gone"} => wakes'[Main] = {}
      /\ pc'[Main] = "joining" => join' > 0 /\ wakes'[Main] \subseteq {IoLoops[join']}
  BY <1>2 DEF Owes, Ending
<1>5. worker' = Gone => wakes'[Worker] \subseteq {Main}
  BY <1>3 DEF Owes
<1>6. /\ quit_'[Main] \/ Leaving' => worker' = Gone
      /\ \A x \in Loop \ {Main} : quit_'[x] \/ pc'[x] \in {"left", "gone"} => Ending'
  BY <1>e DEF Owes, Leaving
<1>7. /\ Ending' => \A i \in 1..join' :
            pc'[IoLoops[i]] = "gone" \/ (i = join' /\ pc'[Main] = "joining")
      /\ ~Ending' => join' = 0
      /\ pc'[Main] = "gone" => join' = Len(IoLoops)
  BY <1>e DEF Owes
<1> QED BY <1>1, <1>4, <1>5, <1>6, <1>7 DEF Owes

\* queueInLoop, called by t.
LEMMA OwesQueue ==
    ASSUME QuitInv, Owes, UNCHANGED <<pc, quit_, join>>, worker' = Gone <=> worker = Gone,
           NEW t \in Thread, NEW l \in Loop, NEW g, QueueInLoop(t, l, g),
           \/ t = Main /\ ~Ending
           \/ t \in Loop \ {Main} /\ pc[t] \in {"handle", "run"} /\ l \in {t, Main}
           \/ t = Worker /\ worker # Gone
    PROVE  Owes'
<1>1. wakes' = [wakes EXCEPT ![t] = @ \cup {x \in {l} : g # <<>> /\ MustWake(t, l)}]
  BY DEF QueueInLoop
<1>2. \A x \in Thread : wakes'[x] \subseteq wakes[x] \cup {y \in {l} : x = t}
  BY <1>1 DEF QuitInv
<1> QED BY <1>2, OwesCall

\* A thread of the pool or the main thread that is in its loop, and calls.
LEMMA OwesInLoop ==
    ASSUME QuitInv, Owes, UNCHANGED <<pc, quit_, join, worker>>,
           NEW t \in Loop, pc[t] \in {"handle", "run"},
           NEW l \in Loop, t = Main \/ l \in {t, Main},
           NEW g, QueueInLoop(t, l, g)
    PROVE  Owes'
<1>1. t \in Thread /\ (t = Main => ~Ending)
  BY DEF Thread, Ending
<1> QED BY <1>1, OwesQueue

\* Nobody comes to owe anything.
LEMMA OwesSame ==
    ASSUME QuitInv, Owes, UNCHANGED <<pc, quit_, join>>, worker' = Gone <=> worker = Gone,
           \A x \in Thread : wakes'[x] \subseteq wakes[x]
    PROVE  Owes'
<1>1. Main \in Loop /\ Main \in Thread
  BY DEF Loop, Thread
<1> QED BY <1>1, OwesCall

\* A thread moves inside its loop, or into it.
LEMMA OwesMove ==
    ASSUME QuitInv, Owes, DOMAIN pc = Loop, NEW l \in Loop,
           NEW p \in {"poll", "handle", "run", "ready"}, pc' = [pc EXCEPT ![l] = p],
           pc[l] \in {"boot", "start", "ready", "poll", "handle", "run"},
           p # "run" => pc[l] \notin {"handle", "run"} \/ wakes[l] = {},
           UNCHANGED <<wakes, join, worker>>,
           \A x \in Loop : quit_'[x] => quit_[x]
    PROVE  Owes'
<1>m. Main \in Loop
  BY DEF Loop
<1>o. \A i \in 1..Len(IoLoops) : IoLoops[i] \in Loop
  BY LoopAssumption, ElementOfSeq DEF Loop
<1>e. /\ (Ending' <=> Ending) /\ (Leaving' <=> Leaving)
      /\ Ending => pc'[Main] = pc[Main]
      /\ pc'[Main] \in {"quitting", "joining", "gone"} => pc'[Main] = pc[Main]
  BY <1>m DEF Ending, Leaving
<1>1. \A x \in Loop \ {Main} :
         wakes'[x] # {} => pc'[x] \in {"handle", "run"} /\ wakes'[x] \subseteq {x, Main}
  BY DEF Owes
<1>2. \A x \in Loop \ {Main} : quit_'[x] \/ pc'[x] \in {"left", "gone"} => Ending'
  <2>1. \A x \in Loop \ {Main} : pc'[x] \in {"left", "gone"} => pc[x] \in {"left", "gone"}
    OBVIOUS
  <2> SUFFICES ASSUME NEW x \in Loop \ {Main}, quit_'[x] \/ pc'[x] \in {"left", "gone"}
               PROVE  Ending
    BY <1>e
  <2>2. quit_[x] \/ pc[x] \in {"left", "gone"}
    BY <2>1
  <2> QED BY <2>2 DEF Owes
<1>3. Ending' => \A i \in 1..join' :
         pc'[IoLoops[i]] = "gone" \/ (i = join' /\ pc'[Main] = "joining")
  <2> SUFFICES ASSUME Ending, NEW i \in 1..join
               PROVE  pc'[IoLoops[i]] = "gone" \/ (i = join /\ pc'[Main] = "joining")
    BY <1>e
  <2>1. pc[IoLoops[i]] = "gone" \/ (i = join /\ pc[Main] = "joining")
    BY DEF Owes
  <2>2. pc[IoLoops[i]] = "gone" => pc'[IoLoops[i]] = "gone"
    OBVIOUS
  <2> QED BY <1>e, <2>1, <2>2
<1>4. /\ pc'[Main] \in {"quitting", "gone"} => wakes'[Main] = {}
      /\ pc'[Main] = "joining" => join' > 0 /\ wakes'[Main] \subseteq {IoLoops[join']}
      /\ pc'[Main] = "gone" => join' = Len(IoLoops)
  <2>1. pc'[Main] \in {"quitting", "joining", "gone"} => pc'[Main] = pc[Main]
    BY <1>e
  <2> QED BY <2>1 DEF Owes
<1>5. /\ worker' = Gone => wakes'[Worker] \subseteq {Main}
      /\ quit_'[Main] \/ Leaving' => worker' = Gone
      /\ ~Ending' => join' = 0
  <2>1. quit_'[Main] => quit_[Main]
    BY <1>m
  <2>2. quit_'[Main] \/ Leaving' => worker' = Gone
    BY <1>e, <2>1 DEF Owes
  <2> QED BY <1>e, <2>2 DEF Owes
<1> QED BY <1>1, <1>2, <1>3, <1>4, <1>5 DEF Owes

\* The steps of a thread in its loop, and its start and its end.
LEMMA LoopOwes ==
    ASSUME QuitInv, Owes, DOMAIN pc = Loop, NEW l \in Loop, UNCHANGED worker,
           \/ EnterLoop(l) \/ Poll(l) \/ PollTimeout(l) \/ HandleWakeupEvent(l)
           \/ BeginPending(l) \/ EndPending(l) \/ PublishLoop(l) \/ ThreadReturns(l)
    PROVE  Owes'
<1>m. Main \in Loop
  BY DEF Loop
<1>1. CASE Poll(l) \/ PollTimeout(l)
  <2>1. /\ pc[l] = "poll" /\ pc' = [pc EXCEPT ![l] = "handle"]
        /\ UNCHANGED <<quit_, wakes, join>>
    BY <1>1 DEF Poll, PollTimeout, PollReturns
  <2> QED BY <2>1, OwesMove
<1>2. CASE HandleWakeupEvent(l)
  <2>1. UNCHANGED <<pc, quit_, join, wakes>>
    BY <1>2 DEF HandleWakeupEvent, HandleWakeup
  <2> QED BY <2>1, OwesSame
<1>3. CASE BeginPending(l)
  <2>1. /\ pc[l] = "handle" /\ pc' = [pc EXCEPT ![l] = "run"]
        /\ UNCHANGED <<quit_, wakes, join>>
    BY <1>3 DEF BeginPending
  <2> QED BY <2>1, OwesMove
<1>4. CASE EnterLoop(l)
  <2>1. /\ pc[l] = "ready" /\ pc' = [pc EXCEPT ![l] = "poll"]
        /\ quit_' = [quit_ EXCEPT ![l] = FALSE] /\ UNCHANGED <<wakes, join>>
    BY <1>4 DEF EnterLoop
  <2>2. \A x \in Loop : quit_'[x] => quit_[x]
    BY <2>1 DEF QuitInv
  <2> QED BY <2>1, <2>2, OwesMove
<1>5. CASE PublishLoop(l)
  <2>1. /\ pc[l] = "boot" /\ pc' = [pc EXCEPT ![l] = "ready"]
        /\ UNCHANGED <<quit_, wakes, join>>
    BY <1>5 DEF PublishLoop
  <2> QED BY <2>1, OwesMove
<1>6. CASE EndPending(l)
  <2>1. /\ pc[l] = "run" /\ wakes[l] = {}
        /\ pc' = [pc EXCEPT ![l] = IF quit_[l] THEN "left" ELSE "poll"]
        /\ UNCHANGED <<quit_, wakes, join>>
    BY <1>6 DEF EndPending, Free
  <2>2. CASE ~quit_[l]
    BY <2>1, <2>2, OwesMove
  <2>3. CASE quit_[l]
    <3>1. pc' = [pc EXCEPT ![l] = "left"]
      BY <2>1, <2>3
    <3>2. /\ Ending' <=> Ending
          /\ Ending => pc'[Main] = pc[Main]
          /\ pc'[Main] \in {"quitting", "joining", "gone"} => pc'[Main] = pc[Main]
          /\ Leaving' => Leaving \/ quit_[Main]
      BY <1>m, <2>1, <2>3, <3>1 DEF Ending, Leaving
    <3>3. \A x \in Loop : pc'[x] = pc[x] \/ (x = l /\ quit_[x])
      BY <2>3, <3>1
    <3>4. \A x \in Loop \ {Main} :
             wakes'[x] # {} => pc'[x] \in {"handle", "run"} /\ wakes'[x] \subseteq {x, Main}
      BY <2>1, <3>1 DEF Owes
    <3>5. \A x \in Loop \ {Main} : quit_'[x] \/ pc'[x] \in {"left", "gone"} => Ending'
      BY <2>1, <3>2, <3>3 DEF Owes
    <3>6. Ending' => \A i \in 1..join' :
             pc'[IoLoops[i]] = "gone" \/ (i = join' /\ pc'[Main] = "joining")
      <4> SUFFICES ASSUME Ending, NEW i \in 1..join
                   PROVE  pc'[IoLoops[i]] = "gone" \/ (i = join /\ pc'[Main] = "joining")
        BY <2>1, <3>2
      <4>1. pc[IoLoops[i]] = "gone" \/ (i = join /\ pc[Main] = "joining")
        BY DEF Owes
      <4>2. pc[IoLoops[i]] = "gone" => pc'[IoLoops[i]] = "gone"
        BY <2>1, <3>1
      <4> QED BY <3>2, <4>1, <4>2
    <3>7. /\ pc'[Main] \in {"quitting", "gone"} => wakes'[Main] = {}
          /\ pc'[Main] = "joining" => join' > 0 /\ wakes'[Main] \subseteq {IoLoops[join']}
          /\ worker' = Gone => wakes'[Worker] \subseteq {Main}
          /\ quit_'[Main] \/ Leaving' => worker' = Gone
          /\ ~Ending' => join' = 0
          /\ pc'[Main] = "gone" => join' = Len(IoLoops)
      BY <2>1, <3>2 DEF Owes
    <3> QED BY <3>4, <3>5, <3>6, <3>7 DEF Owes
  <2> QED BY <2>2, <2>3
<1>7. CASE ThreadReturns(l)
  <2>1. /\ l # Main /\ pc[l] = "left" /\ pc' = [pc EXCEPT ![l] = "gone"]
        /\ UNCHANGED <<quit_, wakes, join>>
    BY <1>7 DEF ThreadReturns
  <2>2. pc'[Main] = pc[Main] /\ (Ending' <=> Ending) /\ (Leaving' <=> Leaving)
    BY <1>m, <2>1 DEF Ending, Leaving
  <2>3. Ending
    BY <2>1 DEF Owes
  <2>4. \A x \in Loop \ {Main} :
           wakes'[x] # {} => pc'[x] \in {"handle", "run"} /\ wakes'[x] \subseteq {x, Main}
    BY <2>1 DEF Owes
  <2>5. Ending' => \A i \in 1..join' :
           pc'[IoLoops[i]] = "gone" \/ (i = join' /\ pc'[Main] = "joining")
    <3> SUFFICES ASSUME NEW i \in 1..join
                 PROVE  pc'[IoLoops[i]] = "gone" \/ (i = join /\ pc'[Main] = "joining")
      BY <2>1
    <3>1. pc[IoLoops[i]] = "gone" \/ (i = join /\ pc[Main] = "joining")
      BY <2>3 DEF Owes
    <3>2. pc[IoLoops[i]] = "gone" => pc'[IoLoops[i]] = "gone"
      BY <2>1
    <3> QED BY <2>2, <3>1, <3>2
  <2>6. /\ pc'[Main] \in {"quitting", "gone"} => wakes'[Main] = {}
        /\ pc'[Main] = "joining" => join' > 0 /\ wakes'[Main] \subseteq {IoLoops[join']}
        /\ worker' = Gone => wakes'[Worker] \subseteq {Main}
        /\ quit_'[Main] \/ Leaving' => worker' = Gone
        /\ ~Ending' => join' = 0
        /\ pc'[Main] = "gone" => join' = Len(IoLoops)
    BY <2>1, <2>2 DEF Owes
  <2> QED BY <2>2, <2>3, <2>4, <2>5, <2>6 DEF Owes
<1> QED BY <1>1, <1>2, <1>3, <1>4, <1>5, <1>6, <1>7

\* The main thread outside of its loop.
LEMMA MainOwes ==
    ASSUME QuitInv, Owes, DOMAIN pc = Loop, UNCHANGED worker,
           DestroyServer \/ StartLoops \/ QuitThread \/ JoinThread \/ MainReturns
    PROVE  Owes'
<1>m. /\ Main \in Loop /\ Main \in Thread /\ Worker # Main /\ Worker \in Thread
      /\ Worker \notin Loop
  BY LoopAssumption DEF Loop, Thread
<1>n. Len(IoLoops) \in Nat /\ \A i \in 1..Len(IoLoops) : IoLoops[i] \in Loop /\ IoLoops[i] # Main
  BY LoopAssumption, ElementOfSeq, LenProperties DEF Loop
<1>j. join \in 0..Len(IoLoops) /\ join \in Nat
  BY <1>n DEF QuitInv
<1>1. CASE StartLoops
  <2>1. /\ pc[Main] = "start" /\ pc' = [pc EXCEPT ![Main] = "ready"]
        /\ UNCHANGED <<quit_, wakes, join>>
    BY <1>1 DEF StartLoops
  <2> QED BY <1>m, <2>1, OwesMove
\* ~EventLoopThreadPool goes on, with nothing owed.
<1>2. ASSUME NEW p \in {"quitting", "gone"}, pc' = [pc EXCEPT ![Main] = p],
             UNCHANGED <<quit_, wakes, join>>, wakes[Main] = {}, Leaving,
             \A i \in 1..join : pc[IoLoops[i]] = "gone",
             p = "gone" => join = Len(IoLoops)
      PROVE  Owes'
  <2>1. Ending' /\ worker' = Gone /\ pc'[Main] = p /\ \A x \in Loop \ {Main} : pc'[x] = pc[x]
    BY <1>2, <1>m DEF Ending, Owes
  <2>2. \A i \in 1..join : pc'[IoLoops[i]] = "gone"
    BY <1>2, <1>n, <1>j, <2>1
  <2> QED BY <1>2, <2>1, <2>2 DEF Owes
<1>3. CASE DestroyServer
  <2>1. /\ pc[Main] = "left" /\ wakes[Main] = {} /\ pc' = [pc EXCEPT ![Main] = "quitting"]
        /\ UNCHANGED <<quit_, wakes, join>>
    BY <1>3 DEF DestroyServer, Free
  <2>2. Leaving /\ join = 0
    BY <2>1 DEF Leaving, Ending, Owes
  <2>3. \A i \in 1..join : pc[IoLoops[i]] = "gone"
    BY <2>2
  <2> QED BY <1>2, <2>1, <2>2, <2>3
<1>4. CASE JoinThread
  <2>1. /\ pc[Main] = "joining" /\ wakes[Main] = {} /\ pc[IoLoops[join]] = "gone"
        /\ pc' = [pc EXCEPT ![Main] = "quitting"] /\ UNCHANGED <<quit_, wakes, join>>
    BY <1>4 DEF JoinThread, Free
  <2>2. \A i \in 1..join : pc[IoLoops[i]] = "gone"
    BY <2>1 DEF Ending, Owes
  <2> QED BY <1>2, <2>1, <2>2 DEF Leaving
<1>5. CASE MainReturns
  <2>1. /\ pc[Main] = "quitting" /\ join = Len(IoLoops)
        /\ pc' = [pc EXCEPT ![Main] = "gone"] /\ UNCHANGED <<quit_, wakes, join>>
    BY <1>5 DEF MainReturns
  <2>2. wakes[Main] = {} /\ \A i \in 1..join : pc[IoLoops[i]] = "gone"
    BY <2>1 DEF Ending, Owes
  <2> QED BY <1>2, <2>1, <2>2 DEF Leaving
<1>6. CASE QuitThread
  <2>1. /\ pc[Main] = "quitting" /\ join < Len(IoLoops) /\ join' = join + 1
        /\ pc' = [pc EXCEPT ![Main] = "joining"]
        /\ quit_' = [quit_ EXCEPT ![IoLoops[join + 1]] = TRUE]
        /\ wakes' = [wakes EXCEPT ![Main] = @ \cup {IoLoops[join + 1]}]
    BY <1>6 DEF QuitThread, QuitFrom
  <2>2. /\ wakes[Main] = {} /\ worker = Gone /\ \A i \in 1..join : pc[IoLoops[i]] = "gone"
    BY <2>1 DEF Ending, Leaving, Owes
  <2>3. /\ Ending' /\ pc'[Main] = "joining" /\ join' > 0
        /\ \A x \in Loop \ {Main} : pc'[x] = pc[x]
    BY <1>j, <1>m, <2>1 DEF Ending
  <2>4. /\ wakes'[Main] \subseteq {IoLoops[join']}
        /\ \A x \in Thread \ {Main} : wakes'[x] = wakes[x]
    BY <1>m, <2>1, <2>2 DEF QuitInv
  <2>5. \A x \in Loop \ {Main} :
           wakes'[x] # {} => pc'[x] \in {"handle", "run"} /\ wakes'[x] \subseteq {x, Main}
    BY <2>3, <2>4 DEF Owes, Thread
  <2>6. \A i \in 1..join' : pc'[IoLoops[i]] = "gone" \/ i = join'
    <3> SUFFICES ASSUME NEW i \in 1..join', i # join' PROVE pc'[IoLoops[i]] = "gone"
      OBVIOUS
    <3>1. i \in 1..join /\ i \in 1..Len(IoLoops)
      BY <1>j, <1>n, <2>1
    <3> QED BY <1>n, <2>2, <2>3, <3>1
  <2>7. worker' = Gone /\ wakes'[Worker] \subseteq {Main}
    BY <1>m, <2>2, <2>4 DEF Owes
  <2> QED BY <2>3, <2>4, <2>5, <2>6, <2>7 DEF Owes
<1> QED BY <1>1, <1>3, <1>4, <1>5, <1>6

\* Every step keeps it, as long as the worker is done when it has told the main
\* loop to quit.
LEMMA NextOwes ==
    ASSUME Sys, Reach, Owes, "late" \notin Accidents, [Next]_vars
    PROVE  Owes'
<1>m. /\ Main \in Loop /\ Main \in Thread /\ Worker \in Thread /\ Worker \notin Loop
  BY LoopAssumption DEF Loop, Thread
<1>0. /\ QuitInv /\ DOMAIN pc = Loop
      /\ \A c \in Conn : conn[c].loop \in Loop
  BY DEF Reach, Sys, QueueInv, QueueTypes, ConnsInv, KInv, Record
<1>1. ASSUME NEW l \in Loop, LoopStep(l) \/ PollTimeout(l) PROVE Owes'
  <2>1. CASE \/ EnterLoop(l) /\ UNCHANGED tcpVars
             \/ Poll(l) \/ HandleWakeupEvent(l)
             \/ BeginPending(l) /\ UNCHANGED tcpVars
             \/ EndPending(l) /\ UNCHANGED tcpVars
             \/ PublishLoop(l) /\ UNCHANGED tcpVars
             \/ ThreadReturns(l) /\ UNCHANGED tcpVars
             \/ PollTimeout(l)
    <3>1. UNCHANGED worker
      BY <2>1 DEF Poll, PollTimeout, HandleWakeupEvent, tcpVars
    <3> QED BY <1>0, <2>1, <3>1, LoopOwes
  <2>2. CASE l = Main /\ HandleAccept
    <3>1. /\ pc[Main] = "handle" /\ UNCHANGED <<pc, quit_, join, worker>>
          /\ \E x \in Loop : \E g : QueueInLoop(Main, x, g)
      <4>1. NextLoop \in Loop
        BY NextLoopInv DEF Sys
      <4> QED BY <1>m, <2>2, <4>1 DEF HandleAccept, TakeActive
    <3> QED BY <1>0, <1>m, <3>1, OwesInLoop
  <2>3. CASE HandleEvent(l)
    <3>1. PICK a \in active[l], c \in Conn :
             /\ TakeActive(l, a)
             /\ RemoveConnection(l, c) \/ \E g : QueueInLoop(l, l, g)
             /\ UNCHANGED <<pc, quit_, join, worker>>
      BY <2>3, HandleEventIs
    <3>2. pc[l] = "handle"
      BY <3>1 DEF TakeActive
    <3>3. CASE \E g : QueueInLoop(l, l, g)
      BY <1>0, <3>1, <3>2, <3>3, OwesInLoop
    <3>4. CASE RemoveConnection(l, c)
      <4>1. \E x \in Loop : \E g : QueueInLoop(l, x, g) /\ (l = Main \/ x \in {l, Main})
        BY <1>0, <1>m, <3>4 DEF RemoveConnection, RemoveConnectionInLoop
      <4> QED BY <1>0, <3>1, <3>2, <4>1, OwesInLoop
    <3> QED BY <3>1, <3>3, <3>4
  <2>4. CASE RunConnectEstablished(l) \/ RunOther(l)
    <3>1. /\ pc[l] = "run" /\ UNCHANGED <<pc, quit_, join, worker>>
          /\ \E g : QueueInLoop(l, l, g)
      BY <2>4 DEF RunConnectEstablished, RunOther, TakeFunctor
    <3> QED BY <1>0, <3>1, OwesInLoop
  <2>5. CASE RunRemoveConnection(l)
    <3>1. /\ pc[l] = "run" /\ UNCHANGED <<pc, quit_, join, worker>>
          /\ QueueInLoop(l, conn[Functor(l).c].loop, <<Bound("connectDestroyed", Functor(l).c)>>)
      BY <2>5 DEF RunRemoveConnection, TakeFunctor, RemoveConnectionInLoop
    <3>2. Functor(l).c \in Conn /\ l = Main
      <4>1. TakeFunctor(l) /\ Functor(l).do = "removeConnectionInLoop"
        BY <2>5 DEF RunRemoveConnection
      <4> QED BY <4>1, HeadSound DEF Sound
    <3> QED BY <1>0, <3>1, <3>2, OwesInLoop
  <2> QED BY <1>1, <2>1, <2>2, <2>3, <2>4, <2>5 DEF LoopStep
<1>2. CASE MainStep
  <2>1. CASE DestroyConnection
    <3>1. /\ pc[Main] = "left" /\ UNCHANGED <<pc, quit_, join, worker>>
          /\ \/ UNCHANGED wakes
             \/ \E c \in Conn : \E g : QueueInLoop(Main, conn[c].loop, g)
      <4>1. connections \subseteq Conn
        BY DEF Sys, ConnsInv
      <4> QED BY <2>1, <4>1 DEF DestroyConnection
    <3>2. ~Ending
      BY <3>1 DEF Ending
    <3> QED BY <1>0, <1>m, <3>1, <3>2, OwesQueue, OwesSame
  <2>2. CASE ~DestroyConnection
    <3>1. UNCHANGED worker /\ (DestroyServer \/ StartLoops \/ QuitThread \/ JoinThread \/ MainReturns)
      BY <1>2, <2>2 DEF MainStep, DestroyServer, tcpVars
    <3> QED BY <1>0, <3>1, MainOwes
  <2> QED BY <2>1, <2>2
<1>3. ASSUME NEW t \in Thread, WakeStep(t) PROVE Owes'
  <2>1. PICK l \in Loop : Wakeup(t, l) /\ UNCHANGED tcpVars
    BY <1>3 DEF WakeStep
  <2>2. UNCHANGED <<pc, quit_, join, worker>> /\ wakes' = [wakes EXCEPT ![t] = @ \ {l}]
    BY <2>1 DEF Wakeup, tcpVars
  <2>3. \A x \in Thread : wakes'[x] \subseteq wakes[x]
    BY <1>0, <2>2 DEF QuitInv
  <2> QED BY <1>0, <2>2, <2>3, OwesSame
<1>4. CASE WorkerCalls \/ WorkerSetsState
  <2>1. UNCHANGED <<pc, quit_, join, wakes>> /\ worker # Gone /\ worker' # Gone
    BY <1>4 DEF WorkerCalls, WorkerSetsState, loopVars, Idle, Gone, Sys, WorkerInv
  <2> QED BY <1>0, <2>1, OwesSame
<1>5. CASE WorkerQueues
  <2>1. /\ UNCHANGED <<pc, quit_, join>> /\ worker # Gone /\ worker' # Gone
        /\ worker[3] \in Conn /\ \E g : QueueInLoop(Worker, conn[worker[3]].loop, g)
    BY <1>5 DEF WorkerQueues, Idle, Gone, Sys, WorkerInv
  <2> QED BY <1>0, <1>m, <2>1, OwesQueue
<1>6. CASE QuitServer
  <2>1. /\ worker = Idle /\ worker' = Gone /\ wakes[Worker] = {} /\ pc[Main] \in {"poll", "handle", "run"}
        /\ quit_' = [quit_ EXCEPT ![Main] = TRUE]
        /\ wakes' = [wakes EXCEPT ![Worker] = @ \cup {Main}]
        /\ UNCHANGED <<pc, join>>
    BY <1>6 DEF QuitServer, QuitFrom, Running, Free
  <2>2. \A x \in Loop \ {Main} : quit_'[x] = quit_[x]
    BY <1>0, <2>1 DEF QuitInv
  <2>3. /\ \A x \in Loop : wakes'[x] = wakes[x]
        /\ wakes'[Worker] \subseteq {Main}
    BY <1>0, <1>m, <2>1 DEF QuitInv, Thread
  <2>4. Ending' <=> Ending
    BY <2>1 DEF Ending
  <2> QED BY <1>m, <2>1, <2>2, <2>3, <2>4 DEF Owes
<1>7. ASSUME NEW c \in Conn,
             \/ Drop(c) \/ PeerConnects(c) \/ PeerSends(c) \/ PeerReads(c)
             \/ PeerCloses(c) \/ PeerResets(c)
      PROVE  Owes'
  <2>1. UNCHANGED <<pc, quit_, join, wakes, worker>>
    BY <1>7 DEF Drop, PeerConnects, PeerSends, PeerReads, PeerCloses, PeerResets, Peer, loopVars
  <2> QED BY <1>0, <2>1, OwesSame
<1>8. CASE UNCHANGED vars
  <2>1. UNCHANGED <<pc, quit_, join, wakes, worker>>
    BY <1>8 DEF vars, loopVars, tcpVars
  <2> QED BY <1>0, <2>1, OwesSame
<1> QED BY <1>1, <1>2, <1>3, <1>4, <1>5, <1>6, <1>7, <1>8 DEF Next

\* It holds before the threads start.
LEMMA InitOwes == Init => Owes
<1> SUFFICES ASSUME Init PROVE Owes
  OBVIOUS
<1>1. Main \in Loop /\ Main \in Thread /\ Worker \in Thread /\ Loop \subseteq Thread
  BY DEF Loop, Thread
<1>2. /\ pc[Main] = "start" /\ \A l \in Loop : pc[l] \in {"start", "boot"} /\ ~quit_[l]
      /\ \A t \in Thread : wakes[t] = {}
      /\ join = 0 /\ worker = Idle
  BY <1>1 DEF Init, LoopInit
<1> QED BY <1>1, <1>2 DEF Owes, Ending, Leaving, Idle, Gone

\* The writes to a loop that is gone are those of quit().
LEMMA OwesLate ==
    ASSUME QuitInv, Owes
    PROVE  LateWakesOfQuit
<1>m. Main \in Loop /\ Loop = {Main} \cup {IoLoops[i] : i \in 1..Len(IoLoops)}
  <2>1. DOMAIN IoLoops = 1..Len(IoLoops)
    BY LoopAssumption, LenProperties
  <2> QED BY <2>1 DEF Loop, Range
<1> SUFFICES ASSUME NEW t \in Thread, NEW l \in wakes[t], pc[l] = "gone"
             PROVE  \/ t = Main /\ pc[Main] = "joining" /\ l = IoLoops[join]
                    \/ t = Worker /\ worker = Gone /\ l = Main
  BY DEF LateWakesOfQuit
<1>0. l \in Loop
  BY DEF QuitInv
<1>1. Ending /\ worker = Gone
  <2>1. Ending
    BY <1>0 DEF Owes, Ending
  <2> QED BY <2>1 DEF Owes, Ending, Leaving
<1>2. CASE t = Worker
  BY <1>1, <1>2 DEF Owes
<1>3. CASE t = Main
  BY <1>1, <1>3 DEF Owes, Ending
<1>4. CASE t \in Loop \ {Main}
  <2>1. pc[t] \in {"handle", "run"} /\ l \in {t, Main}
    BY <1>4 DEF Owes
  <2>2. pc[Main] = "gone"
    BY <2>1
  <2>3. PICK i \in 1..Len(IoLoops) : t = IoLoops[i]
    BY <1>4, <1>m
  <2>4. pc[t] = "gone"
    BY <1>1, <2>2, <2>3 DEF Owes
  <2> QED BY <2>1, <2>4
<1> QED BY <1>2, <1>3, <1>4 DEF Thread

-----------------------------------------------------------------------------
\* What is destroyed is out of reach, whatever the loops, the peers and a thread
\* that calls shutdown() do: poll reports no connection that is closed or
\* destroyed, and of the calls from other threads only quit(), between its two
\* statements, finds a loop that is gone.  The worker makes no call after it has
\* told the base loop to quit.
THEOREM ClosedOutOfReach ==
    ASSUME "send" \notin WorkerOps, "late" \notin Accidents
    PROVE  Spec => []OutOfReach
<1> DEFINE Inv == Sys /\ Reach /\ Owes /\ next_ \in 0..Len(IoLoops)
<1>1. Init => Inv
  <2>1. Len(IoLoops) \in Nat
    BY LoopAssumption, LenProperties
  <2>2. Init => next_ \in 0..Len(IoLoops)
    BY <2>1 DEF Init
  <2> QED BY <2>2, InitSys, InitReach, InitOwes
<1>2. Inv /\ [Next]_vars => Inv'
  BY NextSys, NextReach, NextOwes, NextStaysIndex
<1>3. Inv => OutOfReach
  BY ReachTypes, ReachSilent, OwesLate DEF OutOfReach, Reach
<1> QED BY <1>1, <1>2, <1>3, PTL DEF Spec

\* A shutdown that was asked for and the release of a connection that was closed
\* are under way until they are done: no interleaving of the threads forgets
\* one, whichever of Accidents happen.
THEOREM NothingIsForgotten ==
    ASSUME "send" \notin WorkerOps
    PROVE  Spec => []NothingForgotten
<1> DEFINE Inv == Sys /\ Reach
<1>1. Init => Inv
  BY InitSys, InitReach
<1>2. Inv /\ [Next]_vars => Inv'
  BY NextSys, NextReach
<1>3. Inv => NothingForgotten
  BY ReachShutdown, ReachRelease DEF NothingForgotten
<1> QED BY <1>1, <1>2, <1>3, PTL DEF Spec
=============================================================================
