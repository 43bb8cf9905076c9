-------------------------- MODULE TcpServerProofs --------------------------
(***************************************************************************)
(* No loop of the server sleeps on work, for any number of loops and       *)
(* connections and whatever the application and the peers do.              *)
(*                                                                         *)
(* NoSleepOnWork says nothing of a loop outside of poll, so it is not      *)
(* inductive: a loop could come back to poll with a functor its thread     *)
(* queued without a wakeup.  WakeInv follows the functor until then: only  *)
(* while its own thread runs the handlers may a loop have one queued       *)
(* without a write to its eventfd done or owed, because doPendingFunctors  *)
(* comes before the next poll; in doPendingFunctors queueInLoop writes the *)
(* eventfd of its own loop as well.                                        *)
(*                                                                         *)
(* Every peer gets the bytes of the messages in order, and the application *)
(* is told once that a connection is up and once that it is down, when     *)
(* only the thread of a connection's loop calls send().  Neither is        *)
(* inductive: what a connection becomes depends on the functors queued for *)
(* it.  Sys says which functors a loop may find in its queue (Sound), that *)
(* connectEstablished is the first of its connection (First), that a       *)
(* channel in activeChannels_ is in the epoll set (ActiveInv), what        *)
(* connections_ and the application hold (ConnsInv), what a thread has     *)
(* read of state_ (WorkerInv), and of each connection how its state, its   *)
(* channel, its epoll entry and its bytes go together (KInv).              *)
(***************************************************************************)
EXTENDS TcpServer, SequenceTheorems, TLAPS

Signalled(l) == eventfd[l] \/ \E t \in Thread : l \in wakes[t]

Domains ==
    /\ DOMAIN pc = Loop /\ DOMAIN quit_ = Loop
    /\ DOMAIN eventfd = Loop /\ DOMAIN pending = Loop
    /\ DOMAIN wakes = Thread

WakeInv ==
    /\ Domains
    /\ \A l \in Loop :
          /\ pc[l] # "handle" /\ pending[l] # <<>> => Signalled(l)
          /\ pc[l] = "poll" /\ quit_[l] => Signalled(l)

\* A step that changes none of the variables of WakeInv but, perhaps, the
\* eventfd it writes keeps it: wakeup() turns a debt into a signal.
LEMMA WakeupKeeps ==
    ASSUME WakeInv, NEW t \in Thread, NEW l \in Loop, Wakeup(t, l)
    PROVE  WakeInv'
<1>1. Domains'
  BY DEF WakeInv, Domains, Wakeup
<1>2. ASSUME NEW m \in Loop, Signalled(m) PROVE Signalled(m)'
  <2>1. CASE m = l
    BY <2>1 DEF Wakeup, WakeInv, Domains, Signalled
  <2>2. CASE m # l
    BY <1>2, <2>2 DEF Wakeup, WakeInv, Domains, Signalled
  <2> QED BY <2>1, <2>2
<1> QED BY <1>1, <1>2 DEF WakeInv, Wakeup

\* queueInLoop keeps it when a loop's own thread calls it from a handler or
\* from a functor.
LEMMA QueueKeeps ==
    ASSUME WakeInv, NEW t \in Thread, NEW l, NEW fs, QueueInLoop(t, l, fs),
           t = l /\ l \in Loop => pc[l] \in {"handle", "run"},
           UNCHANGED <<pc, quit_, eventfd>>
    PROVE  WakeInv'
<1>1. Domains'
  BY DEF WakeInv, Domains, QueueInLoop
<1>2. ASSUME NEW m \in Loop, Signalled(m) PROVE Signalled(m)'
  BY <1>2 DEF QueueInLoop, WakeInv, Domains, Signalled
<1>3. ASSUME NEW m \in Loop, pc[m] # "handle", pending'[m] # <<>>
      PROVE  Signalled(m)'
  <2>1. CASE pending[m] # <<>>
    BY <1>2, <1>3, <2>1 DEF WakeInv
  <2>2. CASE pending[m] = <<>> /\ m # l
    BY <1>3, <2>2 DEF QueueInLoop, WakeInv, Domains
  <2>3. CASE pending[m] = <<>> /\ m = l
    <3>1. pending'[l] = <<>> \o fs
      BY <2>3 DEF QueueInLoop, WakeInv, Domains
    <3>2. fs # <<>>
      BY <3>1, <1>3, <2>3
    <3>3. MustWake(t, l)
      BY <1>3, <2>3 DEF MustWake, CallingPendingFunctors
    <3>4. l \in wakes'[t]
      BY <3>2, <3>3 DEF QueueInLoop, WakeInv, Domains
    <3> QED BY <3>4, <2>3 DEF Signalled
  <2> QED BY <2>1, <2>2, <2>3
<1> QED BY <1>1, <1>2, <1>3 DEF WakeInv

\* A step that queues nothing, writes nobody's eventfd and tells nobody to quit
\* keeps it, if a loop comes to poll only when it may, and loses its signal
\* only in a handler.
LEMMA MoveKeeps ==
    ASSUME WakeInv, Domains', UNCHANGED wakes,
           \A l \in Loop :
              /\ pending'[l] = <<>> \/ (pending'[l] = pending[l] /\ pc[l] # "handle")
                 \/ (pending'[l] = pending[l] /\ pc'[l] = "handle")
              /\ eventfd[l] => eventfd'[l] \/ pc'[l] = "handle"
              /\ pc'[l] = "poll" /\ quit_'[l] => pc[l] = "poll" /\ quit_[l]
    PROVE  WakeInv'
BY DEF WakeInv, Signalled

\* The steps of a loop's own thread in loop() and threadFunc.
LEMMA LoopMoveKeeps ==
    ASSUME WakeInv, NEW l \in Loop,
           \/ EnterLoop(l) \/ BeginPending(l) \/ EndPending(l)
           \/ PublishLoop(l) \/ ThreadReturns(l)
           \/ HandleWakeup(l, <<"wakeup", {"in"}>>)
           \/ \E ready : PollReturns(l, ready)
    PROVE  WakeInv'
<1>1. Domains'
  BY DEF WakeInv, Domains, EnterLoop, BeginPending, EndPending, PublishLoop,
         ThreadReturns, HandleWakeup, PollReturns, TakeActive
<1>2. CASE EnterLoop(l)
  BY <1>1, <1>2, MoveKeeps DEF EnterLoop, WakeInv, Domains
<1>3. CASE BeginPending(l)
  BY <1>1, <1>3, MoveKeeps DEF BeginPending, WakeInv, Domains
<1>4. CASE EndPending(l)
  BY <1>1, <1>4, MoveKeeps DEF EndPending, WakeInv, Domains
<1>5. CASE PublishLoop(l) \/ ThreadReturns(l)
  BY <1>1, <1>5, MoveKeeps DEF PublishLoop, ThreadReturns, WakeInv, Domains
<1>6. CASE HandleWakeup(l, <<"wakeup", {"in"}>>)
  BY <1>1, <1>6, MoveKeeps DEF HandleWakeup, TakeActive, WakeInv, Domains
<1>7. CASE \E ready : PollReturns(l, ready)
  BY <1>1, <1>7, MoveKeeps DEF PollReturns, WakeInv, Domains
<1> QED BY <1>2, <1>3, <1>4, <1>5, <1>6, <1>7

\* quit() from another thread keeps it: the wakeup is owed from then on.
LEMMA QuitKeeps ==
    ASSUME WakeInv, NEW t \in Thread, NEW l, QuitFrom(t, l),
           Domains', UNCHANGED <<eventfd, pending>>,
           \A m \in Loop : pc'[m] = pc[m] \/ (pc[m] # "handle" /\ pc'[m] # "poll")
    PROVE  WakeInv'
<1>1. ASSUME NEW m \in Loop, Signalled(m) PROVE Signalled(m)'
  BY <1>1 DEF QuitFrom, WakeInv, Domains, Signalled
<1>2. l \in Loop => Signalled(l)'
  BY DEF QuitFrom, WakeInv, Domains, Signalled
<1>3. \A m \in Loop : m # l => quit_'[m] = quit_[m]
  BY DEF QuitFrom, WakeInv, Domains
<1> QED BY <1>1, <1>2, <1>3 DEF WakeInv

\* A handler or a functor of loop l queues for one loop and leaves the places
\* and the signals alone.
LEMMA HandlerKeeps ==
    ASSUME WakeInv, NEW l \in Loop, pc[l] \in {"handle", "run"},
           UNCHANGED <<pc, quit_, eventfd>>,
           \E m, fs : QueueInLoop(l, m, fs)
    PROVE  WakeInv'
<1>1. PICK m, fs : QueueInLoop(l, m, fs)
  OBVIOUS
<1>2. l \in Thread
  BY DEF Thread
<1> QED BY <1>1, <1>2, QueueKeeps

\* Every step of the threads of the loops keeps WakeInv.
LEMMA LoopStepKeeps ==
    ASSUME WakeInv, NEW l \in Loop, LoopStep(l) \/ PollTimeout(l)
    PROVE  WakeInv'
<1>1. CASE EnterLoop(l) \/ BeginPending(l) \/ EndPending(l)
           \/ PublishLoop(l) \/ ThreadReturns(l)
           \/ Poll(l) \/ PollTimeout(l) \/ HandleWakeupEvent(l)
  <2>1. CASE Poll(l) \/ PollTimeout(l)
    <3>1. \E ready : PollReturns(l, ready)
      BY <2>1 DEF Poll, PollTimeout
    <3> QED BY <3>1, LoopMoveKeeps
  <2>2. CASE HandleWakeupEvent(l)
    BY <2>2, LoopMoveKeeps DEF HandleWakeupEvent
  <2> QED BY <1>1, <2>1, <2>2, LoopMoveKeeps
<1>2. CASE l = Main /\ HandleAccept
  <2>1. pc[l] = "handle" /\ UNCHANGED <<pc, quit_, eventfd>>
    BY <1>2 DEF HandleAccept, TakeActive
  <2>2. \E m, fs : QueueInLoop(l, m, fs)
    BY <1>2 DEF HandleAccept
  <2> QED BY <2>1, <2>2, HandlerKeeps
<1>3. CASE HandleEvent(l)
  <2>1. pc[l] = "handle" /\ UNCHANGED <<pc, quit_, eventfd>>
    BY <1>3 DEF HandleEvent, TakeActive
  <2>2. \/ \E c : RemoveConnection(l, c)
        \/ \E fs : QueueInLoop(l, l, fs)
    BY <1>3 DEF HandleEvent
  <2>3. \E m, fs : QueueInLoop(l, m, fs)
    BY <2>2 DEF RemoveConnection, RemoveConnectionInLoop
  <2> QED BY <2>1, <2>3, HandlerKeeps
<1>4. CASE RunConnectEstablished(l) \/ RunOther(l)
  <2>1. pc[l] = "run" /\ UNCHANGED <<pc, quit_, eventfd>>
    BY <1>4 DEF RunConnectEstablished, RunOther, TakeFunctor
  <2>2. \E m, fs : QueueInLoop(l, m, fs)
    BY <1>4 DEF RunConnectEstablished, RunOther
  <2> QED BY <2>1, <2>2, HandlerKeeps
<1>5. CASE RunRemoveConnection(l)
  <2>1. pc[l] = "run" /\ UNCHANGED <<pc, quit_, eventfd>>
    BY <1>5 DEF RunRemoveConnection, TakeFunctor
  <2>2. \E m, fs : QueueInLoop(l, m, fs)
    BY <1>5 DEF RunRemoveConnection, RemoveConnectionInLoop
  <2> QED BY <2>1, <2>2, HandlerKeeps
<1> QED BY <1>1, <1>2, <1>3, <1>4, <1>5 DEF LoopStep

\* Every step of the main thread outside of its loop keeps it.
LEMMA MainStepKeeps ==
    ASSUME WakeInv, MainStep
    PROVE  WakeInv'
<1> Main \in Loop /\ Main \in Thread
  BY DEF Loop, Thread
<1>1. CASE DestroyConnection
  <2>1. PICK c : \/ UNCHANGED <<pending, wakes>>
                 \/ /\ conn[c].loop # Main
                    /\ QueueInLoop(Main, conn[c].loop, <<Bound("connectDestroyed", c)>>)
    BY <1>1 DEF DestroyConnection
  <2>2. UNCHANGED <<pc, quit_, eventfd>>
    BY <1>1 DEF DestroyConnection
  <2>3. CASE UNCHANGED <<pending, wakes>>
    BY <2>2, <2>3 DEF WakeInv, Domains, Signalled
  <2>4. CASE /\ conn[c].loop # Main
             /\ QueueInLoop(Main, conn[c].loop, <<Bound("connectDestroyed", c)>>)
    BY <2>2, <2>4, QueueKeeps
  <2> QED BY <2>1, <2>3, <2>4
<1>2. CASE DestroyServer
  BY <1>2, MoveKeeps DEF DestroyServer, WakeInv, Domains
<1>3. CASE StartLoops
  BY <1>3, MoveKeeps DEF StartLoops, WakeInv, Domains
<1>4. CASE JoinThread
  BY <1>4, MoveKeeps DEF JoinThread, WakeInv, Domains
<1>5. CASE MainReturns
  BY <1>5, MoveKeeps DEF MainReturns, WakeInv, Domains
<1>6. CASE QuitThread
  <2>1. Domains'
    <3>1. DOMAIN pc' = Loop /\ DOMAIN eventfd' = Loop /\ DOMAIN pending' = Loop
      BY <1>6 DEF QuitThread, WakeInv, Domains
    <3>2. DOMAIN quit_' = Loop /\ DOMAIN wakes' = Thread
      BY <1>6 DEF QuitThread, QuitFrom, WakeInv, Domains
    <3> QED BY <3>1, <3>2 DEF Domains
  <2>2. \A m \in Loop : pc'[m] = pc[m] \/ (pc[m] # "handle" /\ pc'[m] # "poll")
    BY <1>6 DEF QuitThread, WakeInv, Domains
  <2>3. QuitFrom(Main, IoLoops[join + 1]) /\ UNCHANGED <<eventfd, pending>>
    BY <1>6 DEF QuitThread
  <2> QED BY <2>1, <2>2, <2>3, QuitKeeps
<1> QED BY <1>1, <1>2, <1>3, <1>4, <1>5, <1>6 DEF MainStep

\* The inductive step.
LEMMA WakeInvStep == WakeInv /\ [Next]_vars => WakeInv'
<1> SUFFICES ASSUME WakeInv, [Next]_vars PROVE WakeInv'
  OBVIOUS
<1>1. ASSUME NEW l \in Loop, LoopStep(l) \/ PollTimeout(l) PROVE WakeInv'
  BY <1>1, LoopStepKeeps
<1>2. ASSUME MainStep PROVE WakeInv'
  BY <1>2, MainStepKeeps
<1>3. ASSUME NEW t \in Thread, WakeStep(t) PROVE WakeInv'
  BY <1>3, WakeupKeeps DEF WakeStep
<1> Worker \in Thread /\ Worker \notin Loop
  BY LoopAssumption DEF Thread
<1>4. CASE WorkerQueues
  <2>1. UNCHANGED <<pc, quit_, eventfd>>
    BY <1>4 DEF WorkerQueues
  <2>2. PICK fs : QueueInLoop(Worker, conn[worker[3]].loop, fs)
    BY <1>4 DEF WorkerQueues
  <2> QED BY <2>1, <2>2, QueueKeeps
<1>5. CASE QuitServer
  <2>1. Domains'
    BY <1>5 DEF QuitServer, QuitFrom, WakeInv, Domains
  <2>2. QuitFrom(Worker, Main) /\ UNCHANGED <<eventfd, pending>>
    BY <1>5 DEF QuitServer
  <2>3. \A m \in Loop : pc'[m] = pc[m] \/ (pc[m] # "handle" /\ pc'[m] # "poll")
    BY <1>5 DEF QuitServer
  <2> QED BY <2>1, <2>2, <2>3, QuitKeeps
<1>6. CASE UNCHANGED loopVars
  BY <1>6 DEF loopVars, WakeInv, Domains, Signalled
<1>7. ASSUME WorkerCalls \/ WorkerSetsState PROVE WakeInv'
  BY <1>6, <1>7 DEF WorkerCalls, WorkerSetsState
<1>8. ASSUME NEW c \in Conn,
             \/ Drop(c) \/ PeerConnects(c) \/ PeerSends(c) \/ PeerReads(c)
             \/ PeerCloses(c) \/ PeerResets(c)
      PROVE  WakeInv'
  BY <1>6, <1>8 DEF Drop, PeerConnects, PeerSends, PeerReads, PeerCloses,
                    PeerResets, Peer
<1>9. CASE UNCHANGED vars
  BY <1>6, <1>9 DEF vars
<1> QED BY <1>1, <1>2, <1>3, <1>4, <1>5, <1>7, <1>8, <1>9 DEF Next

\* No functor and no quit() waits for the timeout of poll: EventLoop's
\* queueInLoop, quit and doPendingFunctors never lose a wakeup, with any number
\* of loops, connections and calls, and whichever of Accidents happen.
THEOREM NoLostWakeup == Spec => []NoSleepOnWork
<1>1. Init => WakeInv
  BY DEF Init, LoopInit, WakeInv, Domains, Signalled
<1>2. WakeInv /\ [Next]_vars => WakeInv'
  BY WakeInvStep
<1>3. WakeInv => NoSleepOnWork
  BY DEF WakeInv, NoSleepOnWork, Signalled
<1> QED BY <1>1, <1>2, <1>3, PTL DEF Spec

-----------------------------------------------------------------------------
(* One connection: the record of TcpConnection, its Channel and its socket.  *)

State == {"kConnecting", "kConnected", "kDisconnecting", "kDisconnected"}
Record ==
    [at : {"nowhere", "backlog", "accepted"}, loop : Loop, state : State,
     events : SUBSET {"in", "out"}, index : {"kNew", "kAdded", "kDeleted"},
     out : Seq(Nat), sent : Nat, ups : Nat, downs : Nat,
     epoll : {NotIn} \cup SUBSET {"in", "out"}, wire : Seq(Nat),
     room : 0..RoomSize, fin : BOOLEAN, inq : BOOLEAN, peerFin : BOOLEAN,
     rst : BOOLEAN, err : BOOLEAN, sigpipe : BOOLEAN, epipe : BOOLEAN]

\* The chunks of the first n messages, in order.
Stream(n) == [i \in 1..MessageSize * n |-> i]

\* Before connectEstablished nothing was done to the connection.
Untouched(k) ==
    /\ k.events = {} /\ k.index = "kNew" /\ k.epoll = NotIn
    /\ k.out = <<>> /\ k.wire = <<>> /\ k.sent = 0
    /\ k.ups = 0 /\ k.downs = 0 /\ ~k.fin

\* What connectionCallback_ was told.
Told(k) ==
    /\ k.state = "kConnecting" => Untouched(k)
    /\ k.state # "kConnecting" => k.at = "accepted" /\ k.ups = 1
    /\ k.state = "kConnected" => k.downs = 0 /\ ~k.fin
    /\ k.state = "kDisconnected" => k.downs = 1
    /\ k.downs \in {0, 1}

\* The channel and the poller: a connection the application was told is down is
\* in neither.
Channels(k) ==
    /\ k.epoll # NotIn =>
          k.index = "kAdded" /\ "in" \in k.events /\ k.downs = 0
    /\ k.state = "kConnected" => k.epoll # NotIn
    /\ k.index = "kAdded" => k.epoll # NotIn
    /\ k.downs = 1 => k.events = {}

\* The bytes: what send() accepted is on the wire or in the buffer, a buffer
\* with something in it is being written, and the FIN comes last.
Bytes(k) ==
    /\ ~k.rst => k.wire \o k.out = Stream(k.sent)
    /\ k.downs = 0 => (k.out # <<>> <=> IsWriting(k))
    /\ k.fin /\ k.downs = 0 => k.out = <<>>
    /\ ~k.sigpipe

KInv(k) == k \in Record /\ Told(k) /\ Channels(k) /\ Bytes(k)

\* A new connection satisfies it.
LEMMA UnopenedInv == KInv(Unopened)
<1>1. Main \in Loop
  BY DEF Loop
<1>2. Unopened \in Record
  BY <1>1, TcpAssumption DEF Unopened, Record, State, NotIn
<1>3. Stream(0) = <<>>
  BY TcpAssumption DEF Stream
<1>4. <<>> \o <<>> = <<>>
  BY ConcatEmptySeq, EmptySeq
<1> QED
  BY <1>2, <1>3, <1>4 DEF KInv, Told, Untouched, Channels, Bytes, Unopened, IsWriting, NotIn

\* The messages one after the other are the numbers in order.
LEMMA StreamGrows ==
    ASSUME NEW k \in Record
    PROVE  /\ Stream(k.sent) \in Seq(Nat) /\ Message(k) \in Seq(Nat)
           /\ Len(Message(k)) = MessageSize
           /\ Stream(k.sent) \o Message(k) = Stream(k.sent + 1)
<1> DEFINE n == k.sent
<1>0. n \in Nat /\ MessageSize \in Nat \ {0}
  BY TcpAssumption DEF Record
<1>n. MessageSize * n \in Nat /\ MessageSize * (n + 1) = MessageSize * n + MessageSize
  BY <1>0
<1>m. PICK p \in Nat : p = MessageSize * n
  BY <1>n
<1>1. /\ Stream(n) \in Seq(Nat) /\ Len(Stream(n)) = p
      /\ \A i \in 1..p : Stream(n)[i] = i
  BY <1>m DEF Stream
<1>2. /\ Message(k) \in Seq(Nat) /\ Len(Message(k)) = MessageSize
      /\ \A i \in 1..MessageSize : Message(k)[i] = p + i
  <2>1. Message(k) = [i \in 1..MessageSize |-> p + i]
    BY <1>m DEF Message
  <2> QED BY <2>1, <1>0
<1>3. /\ Stream(n + 1) \in Seq(Nat) /\ Len(Stream(n + 1)) = p + MessageSize
      /\ \A i \in 1..(p + MessageSize) : Stream(n + 1)[i] = i
  <2>1. Stream(n + 1) = [i \in 1..(p + MessageSize) |-> i]
    BY <1>m, <1>n DEF Stream
  <2> QED BY <2>1, <1>0
<1>4. /\ Stream(n) \o Message(k) \in Seq(Nat)
      /\ Len(Stream(n) \o Message(k)) = p + MessageSize
      /\ \A i \in 1..(p + MessageSize) : (Stream(n) \o Message(k))[i] =
            IF i <= p THEN Stream(n)[i] ELSE Message(k)[i - p]
  BY <1>1, <1>2, ConcatProperties
<1>5. \A i \in 1..(p + MessageSize) : (Stream(n) \o Message(k))[i] = Stream(n + 1)[i]
  <2> SUFFICES ASSUME NEW i \in 1..(p + MessageSize)
               PROVE  (Stream(n) \o Message(k))[i] = i
    BY <1>3
  <2>1. CASE i <= p
    BY <2>1, <1>0, <1>1, <1>4
  <2>2. CASE ~(i <= p)
    <3>1. i - p \in 1..MessageSize /\ p + (i - p) = i
      BY <2>2, <1>0
    <3> QED BY <3>1, <2>2, <1>2, <1>4
  <2> QED BY <2>1, <2>2
<1> QED
  BY <1>1, <1>2, <1>3, <1>4, <1>5, SeqEqual

\* A buffer of which the first chunks were written: they and the rest are it.
LEMMA LeftOverRest ==
    ASSUME NEW m \in Seq(Nat), NEW n \in 0..Len(m)
    PROVE  /\ SubSeq(m, 1, n) \in Seq(Nat) /\ LeftOver(m, n) \in Seq(Nat)
           /\ SubSeq(m, 1, n) \o LeftOver(m, n) = m
           /\ Len(SubSeq(m, 1, n)) = n
           /\ LeftOver(m, n) = <<>> <=> n = Len(m)
<1>0. Len(m) \in Nat /\ n \in Nat /\ n <= Len(m)
  BY LenProperties
<1>1. \A i \in 1..n : m[i] \in Nat
  BY <1>0, ElementOfSeq
<1>2. \A i \in (n + 1)..Len(m) : m[i] \in Nat
  BY <1>0, ElementOfSeq
<1>3. SubSeq(m, 1, n) \in Seq(Nat) /\ Len(SubSeq(m, 1, n)) = n
  <2>1. 1 \in Int /\ n \in Int
    BY <1>0
  <2>2. /\ SubSeq(m, 1, n) \in Seq(Nat)
        /\ Len(SubSeq(m, 1, n)) = IF 1 <= n THEN n - 1 + 1 ELSE 0
    BY <2>1, <1>1, SubSeqProperties
  <2> QED BY <2>2, <1>0
<1>4. LeftOver(m, n) \in Seq(Nat) /\ Len(LeftOver(m, n)) = Len(m) - n
  <2>1. n + 1 \in Int /\ Len(m) \in Int
    BY <1>0
  <2>2. /\ SubSeq(m, n + 1, Len(m)) \in Seq(Nat)
        /\ Len(SubSeq(m, n + 1, Len(m)))
              = IF n + 1 <= Len(m) THEN Len(m) - (n + 1) + 1 ELSE 0
    BY <2>1, <1>2, SubSeqProperties
  <2> QED BY <2>2, <1>0 DEF LeftOver
<1>5. SubSeq(m, 1, n) \o LeftOver(m, n) = m
  <2>1. 1 \in 1..(Len(m) + 1) /\ n \in (1 - 1)..Len(m) /\ Len(m) \in n..Len(m)
    BY <1>0
  <2>2. SubSeq(m, 1, n) \o SubSeq(m, n + 1, Len(m)) = SubSeq(m, 1, Len(m))
    BY <2>1, ConcatAdjacentSubSeq
  <2> QED BY <2>2, SubSeqFull DEF LeftOver
<1> QED
  BY <1>0, <1>3, <1>4, <1>5, EmptySeq

\* What a step does to a connection, seen from outside: it is never established
\* again, never connected again once it is not, and never up again.
Advances(k, k2) ==
    /\ k2.at = k.at /\ k2.loop = k.loop
    /\ k.state # "kConnecting" => k2.state # "kConnecting"
    /\ k.state \in {"kDisconnecting", "kDisconnected"} =>
          k2.state \in {"kDisconnecting", "kDisconnected"}
    /\ k.downs = 1 => k2.downs = 1

\* The fields sendInLoop may change.
SameButData(k, k2) ==
    /\ k2.at = k.at /\ k2.loop = k.loop /\ k2.state = k.state
    /\ k2.index = k.index
    /\ k2.ups = k.ups /\ k2.downs = k.downs /\ k2.fin = k.fin
    /\ k2.inq = k.inq /\ k2.peerFin = k.peerFin /\ k2.rst = k.rst

\* update() of a channel that is in the poller and stays in it.
LEMMA UpdateAdded ==
    ASSUME NEW k \in Record, k.index = "kAdded", k.events # {}
    PROVE  /\ Update(k) \in Record /\ Update(k).epoll = k.events
           /\ Update(k).index = "kAdded" /\ Update(k).events = k.events
           /\ Update(k).out = k.out /\ Update(k).wire = k.wire
           /\ Update(k).sent = k.sent /\ Update(k).room = k.room
           /\ Update(k).sigpipe = k.sigpipe /\ SameButData(k, Update(k))
<1>1. Update(k) = [k EXCEPT !.epoll = k.events]
  BY DEF Update
<1> QED
  BY <1>1 DEF Record, SameButData

\* What the kernel notes about a connection changes nothing of what the program
\* keeps of it.
SameProgram(k, j) ==
    /\ j.at = k.at /\ j.loop = k.loop /\ j.state = k.state /\ j.events = k.events
    /\ j.index = k.index /\ j.out = k.out /\ j.sent = k.sent /\ j.ups = k.ups
    /\ j.downs = k.downs /\ j.epoll = k.epoll /\ j.wire = k.wire /\ j.fin = k.fin
    /\ j.room = k.room /\ j.rst = k.rst /\ j.sigpipe = k.sigpipe

\* A write that fails changes what the kernel will do with the next one only.
LEMMA WriteFailsRecord ==
    ASSUME NEW k \in Record
    PROVE  WriteFails(k) \in Record /\ SameProgram(k, WriteFails(k))
<1> DEFINE j == WriteFails(k)
<1>1. (k.epipe \/ ~k.err) \in BOOLEAN
  OBVIOUS
<1>2. j = [k EXCEPT !.err = FALSE, !.epipe = (k.epipe \/ ~k.err)]
  BY <1>1 DEF WriteFails, Record
<1> HIDE DEF j
<1>3. j \in Record /\ SameProgram(k, j)
  BY <1>1, <1>2 DEF Record, SameProgram
<1> QED BY <1>3 DEF j

\* Buffers are appended to one another in either order.
LEMMA Assoc ==
    ASSUME NEW s \in Seq(Nat), NEW t \in Seq(Nat), NEW u \in Seq(Nat)
    PROVE  (s \o t) \o u = s \o (t \o u)
BY ConcatAssociative

\* sendInLoop on a connected connection: the message is on the wire or in the
\* buffer, behind what was there.
LEMMA SendInLoopInv ==
    ASSUME NEW k, KInv(k), k.state = "kConnected"
    PROVE  LET j == [SendInLoop(k, Message(k)) EXCEPT !.sent = @ + 1]
           IN  KInv(j) /\ SameButData(k, j) /\ j.epoll # NotIn
<1> DEFINE m == Message(k)
           n == Taken(k, m)
           wrote == [k EXCEPT !.wire = @ \o SubSeq(m, 1, n), !.room = @ - n,
                              !.sigpipe = @ \/ (WritesDirectly(k) /\ k.fin)]
           kept == [wrote EXCEPT !.out = @ \o LeftOver(m, n)]
           j == [SendInLoop(k, m) EXCEPT !.sent = @ + 1]
<1> SUFFICES KInv(j) /\ SameButData(k, j) /\ j.epoll # NotIn
  OBVIOUS
<1>0. /\ k \in Record /\ k.downs = 0 /\ ~k.fin /\ k.epoll # NotIn
      /\ k.index = "kAdded" /\ "in" \in k.events /\ ~k.sigpipe
      /\ (k.out # <<>> <=> IsWriting(k)) /\ k.ups = 1 /\ k.at = "accepted"
  BY DEF KInv, Told, Channels, Bytes
<1>r. /\ k.room \in 0..RoomSize /\ k.wire \in Seq(Nat) /\ k.out \in Seq(Nat)
      /\ k.sent \in Nat /\ k.events \in SUBSET {"in", "out"} /\ RoomSize \in Nat
      /\ k.rst \in BOOLEAN /\ k.fin \in BOOLEAN /\ k.sigpipe \in BOOLEAN
  BY <1>0, TcpAssumption DEF Record
<1>m. /\ m \in Seq(Nat) /\ Len(m) = MessageSize /\ MessageSize \in Nat
      /\ Stream(k.sent) \in Seq(Nat) /\ Stream(k.sent) \o m = Stream(k.sent + 1)
  BY <1>0, StreamGrows, TcpAssumption
<1>n. n \in 0..Len(m) /\ n <= k.room /\ n \in Nat
  BY <1>r, <1>m DEF Taken, Min2
<1>l. /\ SubSeq(m, 1, n) \in Seq(Nat) /\ LeftOver(m, n) \in Seq(Nat)
      /\ SubSeq(m, 1, n) \o LeftOver(m, n) = m
      /\ Len(SubSeq(m, 1, n)) = n
      /\ LeftOver(m, n) = <<>> <=> n = Len(m)
  <2> HIDE DEF m, n
  <2> QED BY <1>m, <1>n, LeftOverRest
<1> DEFINE w == SubSeq(m, 1, n)
           v == LeftOver(m, n)
<1>w. /\ w \in Seq(Nat) /\ v \in Seq(Nat) /\ w \o v = m /\ Len(w) = n
      /\ v = <<>> <=> n = Len(m)
  BY <1>l
<1>d. SendInLoop(k, m) = CASE Faulty(k) -> IF k.rst THEN WriteFails(wrote) ELSE wrote
                           [] n = Len(m) -> wrote
                           [] IsWriting(k) -> kept
                           [] OTHER -> Enable(kept, "out")
  BY DEF SendInLoop
<1> HIDE DEF m, n, w, v
<1>1. /\ wrote \in Record /\ SameButData(k, wrote)
      /\ wrote.wire = k.wire \o w /\ wrote.out = k.out /\ wrote.sent = k.sent
      /\ wrote.events = k.events /\ wrote.epoll = k.epoll /\ ~wrote.sigpipe
      /\ wrote.index = "kAdded"
  <2>1. k.wire \o w \in Seq(Nat) /\ k.room - n \in 0..RoomSize
    BY <1>r, <1>n, <1>w, ConcatProperties
  <2>2. (k.sigpipe \/ (WritesDirectly(k) /\ k.fin)) = FALSE
    BY <1>0, <1>r
  <2>3. wrote = [k EXCEPT !.wire = k.wire \o w, !.room = k.room - n, !.sigpipe = FALSE]
    BY <2>2, <1>0 DEF w, Record
  <2> QED BY <1>0, <2>1, <2>3 DEF Record, SameButData
<1>2. /\ kept \in Record /\ SameButData(k, kept)
      /\ kept.wire = k.wire \o w /\ kept.out = k.out \o v /\ kept.sent = k.sent
      /\ kept.events = k.events /\ kept.epoll = k.epoll /\ ~kept.sigpipe
      /\ kept.index = "kAdded"
  <2>1. k.out \o v \in Seq(Nat)
    BY <1>r, <1>w, ConcatProperties
  <2>2. kept = [wrote EXCEPT !.out = k.out \o v]
    BY <1>1 DEF Record, v
  <2> HIDE DEF wrote, kept
  <2> QED BY <1>1, <2>1, <2>2 DEF Record, SameButData
<1> HIDE DEF wrote, kept
\* The facts about j, whichever of the three it is.
<1>3. ASSUME NEW i \in Record, SendInLoop(k, m) = i, SameButData(k, i),
             i.index = "kAdded", i.epoll # NotIn, "in" \in i.events, ~i.sigpipe,
             ~k.rst => i.wire \o i.out = Stream(k.sent + 1),
             i.out # <<>> <=> IsWriting(i), i.sent = k.sent
      PROVE  KInv(j) /\ SameButData(k, j) /\ j.epoll # NotIn
  <2>1. j = [i EXCEPT !.sent = k.sent + 1]
    BY <1>3
  <2>2. k.sent + 1 \in Nat
    BY <1>r
  <2>3. /\ j \in Record /\ SameButData(k, j) /\ j.epoll = i.epoll
        /\ j.events = i.events /\ j.index = i.index /\ j.sigpipe = i.sigpipe
        /\ j.wire = i.wire /\ j.out = i.out /\ j.sent = k.sent + 1
    <3> HIDE DEF j
    <3> QED BY <1>3, <2>1, <2>2 DEF Record, SameButData
  <2> HIDE DEF j
  <2>4. Bytes(j)
    BY <1>0, <1>3, <2>3 DEF Bytes, SameButData, IsWriting
  <2>5. Told(j) /\ Channels(j)
    BY <1>0, <1>3, <2>3 DEF Told, Channels, SameButData
  <2> QED BY <1>3, <2>3, <2>4, <2>5 DEF KInv
<1> HIDE DEF j
<1>4. ~k.rst => (k.wire \o k.out) \o m = Stream(k.sent + 1)
  BY <1>m DEF KInv, Bytes
<1>5. CASE Faulty(k)
  <2>0. ~IsWriting(k)
    BY <1>5 DEF Faulty, WritesDirectly
  <2>2. k.rst
    BY <1>5, <1>0 DEF Faulty
  <2>6. n # Len(m)
    BY <1>5, <1>m, TcpAssumption DEF n, Taken
  <2>1. SendInLoop(k, m) = WriteFails(wrote)
    BY <1>5, <1>d, <2>0, <2>2, <2>6
  <2>3. WriteFails(wrote) \in Record /\ SameProgram(wrote, WriteFails(wrote))
    BY <1>1, WriteFailsRecord
  <2> DEFINE i == WriteFails(wrote)
  <2>4. /\ i \in Record /\ SendInLoop(k, m) = i /\ SameProgram(wrote, i)
    BY <2>1, <2>3
  <2> HIDE DEF i
  <2>5. /\ i.index = "kAdded" /\ i.epoll = k.epoll /\ i.events = k.events
        /\ ~i.sigpipe /\ i.out = k.out /\ i.sent = k.sent
    BY <1>1, <2>4 DEF SameProgram
  <2>7. SameButData(k, i)
    <3>1. i.inq = wrote.inq /\ i.peerFin = wrote.peerFin
      BY <2>4 DEF i, WriteFails
    <3> QED BY <1>1, <2>4, <3>1 DEF SameProgram, SameButData
  <2> QED
    BY <1>0, <1>3, <2>2, <2>4, <2>5, <2>7 DEF IsWriting
<1>6. CASE ~Faulty(k) /\ n = Len(m)
  <2>1. SendInLoop(k, m) = wrote /\ v = <<>> /\ w = m
    <3>1. w \o <<>> = w
      BY <1>w, ConcatEmptySeq
    <3>0. ~IsWriting(k)
      BY <1>6, <1>m, <1>r, TcpAssumption DEF n, Taken, WritesDirectly
    <3>2. SendInLoop(k, m) = wrote
      BY <1>6, <1>d, <3>0
    <3>3. v = <<>>
      BY <1>6, <1>w
    <3> QED BY <1>w, <3>1, <3>2, <3>3
  <2>2. k.out = <<>>
    BY <1>6, <1>m, <1>r, TcpAssumption DEF n, Taken, WritesDirectly
  <2>3. ~k.rst => wrote.wire \o wrote.out = Stream(k.sent + 1)
    <3>1. k.wire \o k.out = k.wire /\ (k.wire \o w) \o <<>> = k.wire \o w
      BY <1>r, <1>w, <2>2, ConcatEmptySeq, ConcatProperties
    <3> QED BY <1>4, <1>1, <2>1, <2>2, <3>1
  <2> QED
    BY <1>0, <1>1, <1>3, <2>1, <2>3 DEF IsWriting
<1>7. CASE ~Faulty(k) /\ n # Len(m)
  <2>1. v # <<>> /\ k.out \o v # <<>>
    BY <1>7, <1>w, <1>r, ConcatEqualIffEmpty
  <2>2. ~k.rst => kept.wire \o kept.out = Stream(k.sent + 1)
    <3>1. CASE k.out = <<>>
      <4>1. k.wire \o k.out = k.wire /\ k.out \o v = v
        BY <1>r, <1>w, <3>1, ConcatEmptySeq
      <4>2. (k.wire \o w) \o v = k.wire \o (w \o v)
        BY <1>r, <1>w, Assoc
      <4> QED BY <1>4, <1>2, <1>w, <4>1, <4>2
    <3>2. CASE k.out # <<>>
      <4>1. n = 0
        BY <3>2 DEF n, Taken, WritesDirectly
      <4>2. w = <<>> /\ v = m
        <5>1. w = <<>>
          BY <4>1, <1>w, EmptySeq
        <5>2. <<>> \o v = v
          BY <1>w, ConcatEmptySeq
        <5> QED BY <5>1, <5>2, <1>w
      <4>3. k.wire \o <<>> = k.wire
        BY <1>r, ConcatEmptySeq
      <4>4. (k.wire \o k.out) \o m = k.wire \o (k.out \o m)
        BY <1>r, <1>m, Assoc
      <4> QED BY <1>4, <1>2, <4>2, <4>3, <4>4
    <3> QED BY <3>1, <3>2
  <2>3. CASE IsWriting(k)
    <3>1. SendInLoop(k, m) = kept
      BY <1>7, <1>d, <2>3
    <3>2. IsWriting(kept)
      BY <2>3, <1>2 DEF IsWriting
    <3> QED
      BY <1>0, <1>2, <1>3, <2>1, <2>2, <3>1, <3>2
  <2>4. CASE ~IsWriting(k)
    <3> DEFINE e == [kept EXCEPT !.events = @ \cup {"out"}]
    <3>1. SendInLoop(k, m) = Update(e)
      BY <1>7, <1>d, <2>4 DEF Enable
    <3>2. /\ e \in Record /\ e.index = "kAdded" /\ e.events = k.events \cup {"out"}
          /\ e.wire = kept.wire /\ e.out = kept.out /\ e.sent = kept.sent
          /\ e.sigpipe = kept.sigpipe /\ SameButData(k, e)
      <4>1. k.events \cup {"out"} \in SUBSET {"in", "out"}
        BY <1>r
      <4>2. e = [kept EXCEPT !.events = k.events \cup {"out"}]
        BY <1>2
      <4> HIDE DEF e
      <4> QED BY <1>2, <4>1, <4>2 DEF Record, SameButData
    <3> HIDE DEF e
    <3>3. /\ Update(e) \in Record /\ Update(e).epoll = e.events
          /\ Update(e).index = "kAdded" /\ Update(e).events = e.events
          /\ Update(e).out = e.out /\ Update(e).wire = e.wire
          /\ Update(e).sent = e.sent /\ Update(e).sigpipe = e.sigpipe
          /\ SameButData(e, Update(e))
      BY <3>2, UpdateAdded
    <3>4. "in" \in e.events /\ "out" \in e.events /\ e.events # NotIn
      BY <1>0, <3>2 DEF NotIn
    <3>5. SameButData(k, Update(e))
      BY <3>2, <3>3 DEF SameButData
    <3>6. /\ Update(e) \in Record /\ Update(e).index = "kAdded" /\ Update(e).epoll # NotIn
          /\ "in" \in Update(e).events /\ ~Update(e).sigpipe /\ Update(e).sent = k.sent
      BY <1>2, <3>2, <3>3, <3>4
    <3>7. /\ ~k.rst => Update(e).wire \o Update(e).out = Stream(k.sent + 1)
          /\ Update(e).out # <<>> /\ IsWriting(Update(e))
      BY <1>2, <2>1, <2>2, <3>2, <3>3, <3>4 DEF IsWriting
    <3> QED
      BY <1>3, <3>1, <3>5, <3>6, <3>7
  <2> QED BY <2>3, <2>4
<1> QED
  BY <1>5, <1>6, <1>7

\* send() keeps the record sound; a connection that is not connected is left alone.
LEMMA SendInv ==
    ASSUME NEW k, KInv(k)
    PROVE  /\ KInv(Send(k)) /\ SameButData(k, Send(k))
           /\ k.state = "kConnected" => Send(k).epoll # NotIn
           /\ k.state # "kConnected" => Send(k) = k
<1>1. CASE k.state = "kConnected"
  <2>1. Send(k) = [SendInLoop(k, Message(k)) EXCEPT !.sent = @ + 1]
    BY <1>1 DEF Send, Accepts
  <2> QED BY <1>1, <2>1, SendInLoopInv
<1>2. CASE k.state # "kConnected"
  <2>1. Send(k) = k
    BY <1>2 DEF Send, Accepts
  <2> QED BY <1>2, <2>1 DEF SameButData
<1> QED BY <1>1, <1>2

\* shutdownInLoop after the state was set.
LEMMA ShutdownInLoopInv ==
    ASSUME NEW k, KInv(k), k.state \notin {"kConnecting", "kConnected"}
    PROVE  /\ KInv(ShutdownInLoop(k)) /\ Advances(k, ShutdownInLoop(k))
           /\ ShutdownInLoop(k).epoll = k.epoll /\ ShutdownInLoop(k).index = k.index
           /\ ShutdownInLoop(k).state = k.state /\ ShutdownInLoop(k).downs = k.downs
           /\ ShutdownInLoop(k).fin \/ (IsWriting(k) /\ ShutdownInLoop(k) = k)
<1> DEFINE j == ShutdownInLoop(k)
<1>1. CASE IsWriting(k)
  BY <1>1 DEF ShutdownInLoop, Advances
<1>2. CASE ~IsWriting(k)
  <2>1. j = [k EXCEPT !.fin = TRUE] /\ k \in Record
    BY <1>2 DEF ShutdownInLoop, KInv
  <2> HIDE DEF j
  <2>2. /\ j \in Record /\ j.at = k.at /\ j.loop = k.loop /\ j.state = k.state
        /\ j.events = k.events /\ j.index = k.index /\ j.out = k.out /\ j.sent = k.sent
        /\ j.ups = k.ups /\ j.downs = k.downs /\ j.epoll = k.epoll /\ j.wire = k.wire
        /\ j.fin /\ j.rst = k.rst /\ j.sigpipe = k.sigpipe
    BY <2>1 DEF Record
  <2>3. Told(j) /\ Channels(j)
    BY <2>2 DEF KInv, Told, Channels
  <2>4. Bytes(j)
    BY <1>2, <2>2 DEF KInv, Told, Bytes, IsWriting
  <2> QED BY <2>2, <2>3, <2>4 DEF KInv, Advances, j
<1> QED BY <1>1, <1>2

\* shutdown() in the loop's own thread: the state is set and the FIN sent, unless
\* there is data left to write.
LEMMA ShutdownInv ==
    ASSUME NEW k, KInv(k)
    PROVE  /\ KInv(Shutdown(k)) /\ Advances(k, Shutdown(k))
           /\ Shutdown(k).epoll = k.epoll /\ Shutdown(k).index = k.index
           /\ Shutdown(k).downs = k.downs
           /\ k.state # "kConnected" => Shutdown(k) = k
           /\ k.state = "kConnected" =>
                 /\ Shutdown(k).state = "kDisconnecting"
                 /\ Shutdown(k).fin \/ IsWriting(Shutdown(k))
<1>1. CASE k.state = "kConnected"
  <2> DEFINE j == [k EXCEPT !.state = "kDisconnecting"]
  <2>1. /\ j \in Record /\ j.at = k.at /\ j.loop = k.loop /\ j.state = "kDisconnecting"
        /\ j.events = k.events /\ j.index = k.index /\ j.out = k.out /\ j.sent = k.sent
        /\ j.ups = k.ups /\ j.downs = k.downs /\ j.epoll = k.epoll /\ j.wire = k.wire
        /\ j.fin = k.fin /\ j.rst = k.rst /\ j.sigpipe = k.sigpipe
    BY DEF KInv, Record, State
  <2>2. Shutdown(k) = ShutdownInLoop(j)
    BY <1>1 DEF Shutdown, Accepts
  <2> HIDE DEF j
  <2>3. KInv(j)
    BY <1>1, <2>1 DEF KInv, Told, Channels, Bytes, IsWriting
  <2>4. /\ KInv(ShutdownInLoop(j)) /\ Advances(j, ShutdownInLoop(j))
        /\ ShutdownInLoop(j).epoll = j.epoll /\ ShutdownInLoop(j).index = j.index
        /\ ShutdownInLoop(j).state = j.state /\ ShutdownInLoop(j).downs = j.downs
        /\ ShutdownInLoop(j).fin \/ (IsWriting(j) /\ ShutdownInLoop(j) = j)
    BY <2>1, <2>3, ShutdownInLoopInv
  <2> QED BY <1>1, <2>1, <2>2, <2>4 DEF Advances
<1>2. CASE k.state # "kConnected"
  BY <1>2 DEF Shutdown, Accepts, Advances
<1> QED BY <1>1, <1>2

\* connectEstablished, before the application greets.
LEMMA EstablishedInv ==
    ASSUME NEW k, KInv(k), k.state = "kConnecting", k.at = "accepted"
    PROVE  LET j == Established(k)
           IN  /\ KInv(j) /\ j.state = "kConnected" /\ Advances(k, j)
               /\ j.ups = 1 /\ j.downs = 0
<1> DEFINE j == Established(k)
           s == [k EXCEPT !.state = "kConnected"]
           e == [s EXCEPT !.events = @ \cup {"in"}]
           u == [e EXCEPT !.index = "kAdded", !.epoll = e.events]
<1>0. k \in Record /\ Untouched(k)
  BY DEF KInv, Told
<1>1. j = Notified(Update(e))
  BY DEF Established, Enable
<1>2. /\ e \in Record /\ e.events = {"in"} /\ e.index = "kNew"
      /\ e.state = "kConnected" /\ e.out = <<>> /\ e.wire = <<>> /\ e.sent = 0
      /\ e.ups = 0 /\ e.downs = 0 /\ e.fin = FALSE /\ e.at = "accepted"
      /\ e.loop = k.loop /\ e.sigpipe = k.sigpipe
  BY <1>0 DEF Record, State, Untouched
<1>3. Update(e) = u
  <2> HIDE DEF e
  <2> QED BY <1>2 DEF Update
<1>4. /\ u \in Record /\ u.events = {"in"} /\ u.index = "kAdded" /\ u.epoll = {"in"}
      /\ u.state = "kConnected" /\ u.out = <<>> /\ u.wire = <<>> /\ u.sent = 0
      /\ u.ups = 0 /\ u.downs = 0 /\ u.fin = FALSE /\ u.at = "accepted"
      /\ u.loop = k.loop /\ u.sigpipe = k.sigpipe
  <2> HIDE DEF e
  <2> QED BY <1>2 DEF Record
<1>5. j = [u EXCEPT !.ups = 1]
  <2> HIDE DEF u
  <2> QED BY <1>1, <1>3, <1>4 DEF Notified, Accepts
<1>6. /\ j \in Record /\ j.events = {"in"} /\ j.index = "kAdded" /\ j.epoll = {"in"}
      /\ j.state = "kConnected" /\ j.out = <<>> /\ j.wire = <<>> /\ j.sent = 0
      /\ j.ups = 1 /\ j.downs = 0 /\ j.fin = FALSE /\ j.at = "accepted"
      /\ j.loop = k.loop /\ j.sigpipe = k.sigpipe
  <2> HIDE DEF u, j
  <2> QED BY <1>4, <1>5 DEF Record
<1> HIDE DEF j
<1>7. Stream(0) = <<>> /\ <<>> \o <<>> = <<>>
  BY TcpAssumption, ConcatEmptySeq, EmptySeq DEF Stream
<1>8. ~k.sigpipe
  BY DEF KInv, Bytes
<1>9. {"in"} # NotIn
  BY DEF NotIn
<1>10. Told(j)
  BY <1>6 DEF Told
<1>11. Channels(j)
  BY <1>6, <1>9 DEF Channels
<1>12. Bytes(j)
  BY <1>6, <1>7, <1>8 DEF Bytes, IsWriting
<1>13. Advances(k, j)
  BY <1>6, <1>0 DEF Advances, Untouched
<1> QED BY <1>6, <1>10, <1>11, <1>12, <1>13 DEF KInv, j

\* handleClose of a connection that is in the epoll set: down, and out of it.
LEMMA HandleCloseInv ==
    ASSUME NEW k, KInv(k), k.epoll # NotIn
    PROVE  LET j == HandleClose(k)
           IN  /\ KInv(j) /\ j.state = "kDisconnected" /\ j.downs = 1
               /\ Advances(k, j) /\ j.events = {}
<1> DEFINE j == HandleClose(k)
           s == [k EXCEPT !.state = "kDisconnected"]
           e == [s EXCEPT !.events = {}]
           u == [e EXCEPT !.index = "kDeleted", !.epoll = NotIn]
<1>0. k \in Record /\ k.index = "kAdded" /\ k.downs = 0
  BY DEF KInv, Channels
<1>a. k.state # "kConnecting"
  BY DEF KInv, Told, Untouched
<1>1. j = Notified(Update(e))
  BY DEF HandleClose, DisableAll
<1>2. /\ e \in Record /\ e.events = {} /\ e.index = "kAdded"
      /\ e.state = "kDisconnected" /\ e.out = k.out /\ e.wire = k.wire /\ e.sent = k.sent
      /\ e.ups = k.ups /\ e.downs = 0 /\ e.fin = k.fin /\ e.at = k.at
      /\ e.loop = k.loop /\ e.sigpipe = k.sigpipe /\ e.rst = k.rst
  BY <1>0 DEF Record, State
<1>3. Update(e) = u
  <2> HIDE DEF e
  <2> QED BY <1>2 DEF Update
<1>4. /\ u \in Record /\ u.events = {} /\ u.index = "kDeleted" /\ u.epoll = NotIn
      /\ u.state = "kDisconnected" /\ u.out = k.out /\ u.wire = k.wire /\ u.sent = k.sent
      /\ u.ups = k.ups /\ u.downs = 0 /\ u.fin = k.fin /\ u.at = k.at
      /\ u.loop = k.loop /\ u.sigpipe = k.sigpipe /\ u.rst = k.rst
  <2> HIDE DEF e
  <2> QED BY <1>2 DEF Record
<1>5. j = [u EXCEPT !.downs = 1]
  <2> HIDE DEF u
  <2> QED BY <1>1, <1>3, <1>4 DEF Notified, Accepts
<1>6. /\ j \in Record /\ j.events = {} /\ j.index = "kDeleted" /\ j.epoll = NotIn
      /\ j.state = "kDisconnected" /\ j.out = k.out /\ j.wire = k.wire /\ j.sent = k.sent
      /\ j.ups = k.ups /\ j.downs = 1 /\ j.fin = k.fin /\ j.at = k.at
      /\ j.loop = k.loop /\ j.sigpipe = k.sigpipe /\ j.rst = k.rst
  <2> HIDE DEF u, j
  <2> QED BY <1>4, <1>5 DEF Record
<1> HIDE DEF j
<1>7. Told(j) /\ Channels(j)
  BY <1>6, <1>a DEF KInv, Told, Channels
<1>8. Bytes(j)
  <2>1. ~k.rst => k.wire \o k.out = Stream(k.sent)
    BY DEF KInv, Bytes
  <2>2. ~k.sigpipe
    BY DEF KInv, Bytes
  <2>3. ~j.rst => j.wire \o j.out = Stream(j.sent)
    BY <1>6, <2>1
  <2>4. ~j.sigpipe /\ j.downs # 0
    BY <1>6, <2>2
  <2> QED BY <2>3, <2>4 DEF Bytes
<1> QED BY <1>6, <1>7, <1>8 DEF KInv, Advances, j

\* connectDestroyed, in whatever state it finds the connection.
LEMMA ConnectDestroyedInv ==
    ASSUME NEW k, KInv(k)
    PROVE  LET j == ConnectDestroyed(k)
           IN  /\ KInv(j) /\ j.index = "kNew" /\ j.epoll = NotIn /\ Advances(k, j)
               /\ k.state = "kConnecting" => j.state = "kConnecting"
               /\ k.state # "kConnected" => j.state = k.state /\ j.downs = k.downs /\ j.fin = k.fin
               /\ j.state # "kConnected" /\ j.events \subseteq k.events /\ j.out = k.out
               /\ k.state # "kConnected" => j.events = k.events
               /\ k.state = "kConnected" => j.state = "kDisconnected" /\ j.downs = 1
<1> DEFINE j == ConnectDestroyed(k)
<1>1. CASE k.state = "kConnected"
  <2> DEFINE h == HandleClose(k)
  <2>1. j = [h EXCEPT !.index = "kNew", !.epoll = NotIn]
    BY <1>1 DEF ConnectDestroyed, RemoveChannel, HandleClose
  <2>2. k.epoll # NotIn
    BY <1>1 DEF KInv, Channels
  <2>3. KInv(h) /\ h.state = "kDisconnected" /\ h.downs = 1 /\ Advances(k, h) /\ h.events = {}
    BY <2>2, HandleCloseInv
  <2>4. h.out = k.out
    BY <1>1 DEF HandleClose, Notified, DisableAll, Update, Accepts, KInv, Record
  <2> HIDE DEF h, j
  <2>5. /\ j \in Record /\ j.at = h.at /\ j.loop = h.loop /\ j.state = h.state
        /\ j.events = h.events /\ j.index = "kNew" /\ j.out = h.out /\ j.sent = h.sent
        /\ j.ups = h.ups /\ j.downs = h.downs /\ j.epoll = NotIn /\ j.wire = h.wire
        /\ j.fin = h.fin /\ j.rst = h.rst /\ j.sigpipe = h.sigpipe
    BY <2>1, <2>3 DEF KInv, Record
  <2>6. Told(j) /\ Channels(j)
    BY <2>3, <2>5 DEF KInv, Told, Channels
  <2>7. Bytes(j)
    BY <2>3, <2>5 DEF KInv, Bytes, IsWriting
  <2> QED BY <1>1, <2>3, <2>4, <2>5, <2>6, <2>7 DEF KInv, Advances, j
<1>2. CASE k.state # "kConnected"
  <2>1. j = [k EXCEPT !.index = "kNew", !.epoll = NotIn]
    BY <1>2 DEF ConnectDestroyed, RemoveChannel
  <2> HIDE DEF j
  <2>2. /\ j \in Record /\ j.at = k.at /\ j.loop = k.loop /\ j.state = k.state
        /\ j.events = k.events /\ j.index = "kNew" /\ j.out = k.out /\ j.sent = k.sent
        /\ j.ups = k.ups /\ j.downs = k.downs /\ j.epoll = NotIn /\ j.wire = k.wire
        /\ j.fin = k.fin /\ j.rst = k.rst /\ j.sigpipe = k.sigpipe
    BY <2>1 DEF KInv, Record
  <2>3. Told(j)
    BY <1>2, <2>2 DEF KInv, Told, Untouched
  <2>4. Channels(j)
    BY <1>2, <2>2 DEF KInv, Channels
  <2>5. Bytes(j)
    BY <2>2 DEF KInv, Bytes, IsWriting
  <2> QED BY <1>2, <2>2, <2>3, <2>4, <2>5 DEF KInv, Advances, j
<1> QED BY <1>1, <1>2

\* Such a step keeps the invariant.
LEMMA SameProgramInv ==
    ASSUME NEW k, KInv(k), NEW j \in Record, SameProgram(k, j)
    PROVE  KInv(j) /\ Advances(k, j)
<1>1. Told(j) /\ Channels(j)
  BY DEF SameProgram, KInv, Told, Untouched, Channels
<1>2. IsWriting(k) <=> IsWriting(j)
  BY DEF SameProgram, IsWriting
<1>3. /\ ~k.rst => k.wire \o k.out = Stream(k.sent)
      /\ k.downs = 0 => (k.out # <<>> <=> IsWriting(k))
      /\ k.fin /\ k.downs = 0 => k.out = <<>>
      /\ ~k.sigpipe
  BY DEF KInv, Bytes
<1>4. Bytes(j)
  BY <1>2, <1>3 DEF SameProgram, Bytes
<1> QED BY <1>1, <1>4 DEF KInv, Advances, SameProgram

\* A write that fails and an error that is taken from the socket are of that kind.
LEMMA WriteFailsInv ==
    ASSUME NEW k, KInv(k)
    PROVE  /\ KInv(WriteFails(k)) /\ Advances(k, WriteFails(k))
           /\ SameProgram(k, WriteFails(k))
<1>1. WriteFails(k) \in Record /\ SameProgram(k, WriteFails(k))
  BY WriteFailsRecord DEF KInv
<1> QED BY <1>1, SameProgramInv
LEMMA HandleErrorInv ==
    ASSUME NEW k, KInv(k), NEW r
    PROVE  /\ KInv(HandleError(k, r)) /\ Advances(k, HandleError(k, r))
           /\ SameProgram(k, HandleError(k, r))
<1> DEFINE j == HandleError(k, r)
<1>1. k \in Record
  BY DEF KInv
<1>2. j = k \/ j = [k EXCEPT !.err = FALSE]
  BY DEF HandleError
<1> HIDE DEF j
<1>3. j \in Record /\ SameProgram(k, j)
  BY <1>1, <1>2 DEF Record, SameProgram
<1> QED BY <1>3, SameProgramInv DEF j

\* handleWrite: what it writes leaves the buffer; with the buffer empty it stops
\* writing, and shuts down if that was asked for.
LEMMA HandleWriteInv ==
    ASSUME NEW k, KInv(k), k.epoll # NotIn \/ ~IsWriting(k)
    PROVE  LET j == HandleWrite(k)
           IN  /\ KInv(j) /\ Advances(k, j) /\ j.state = k.state /\ j.downs = k.downs
               /\ j.index = k.index /\ (j.epoll = NotIn <=> k.epoll = NotIn)
               /\ k.fin => j.fin
               /\ IsWriting(k) => IsWriting(j) \/ k.state # "kDisconnecting" \/ j.fin
<1> DEFINE n == Min2(k.room, Len(k.out))
           rest == [k EXCEPT !.wire = @ \o SubSeq(k.out, 1, n), !.room = @ - n,
                             !.out = LeftOver(@, n)]
           done == DisableWriting(rest)
           j == HandleWrite(k)
<1> SUFFICES /\ KInv(j) /\ Advances(k, j) /\ j.state = k.state /\ j.downs = k.downs
             /\ j.index = k.index /\ (j.epoll = NotIn <=> k.epoll = NotIn)
             /\ k.fin => j.fin
             /\ IsWriting(k) => IsWriting(j) \/ k.state # "kDisconnecting" \/ j.fin
  OBVIOUS
<1>1. CASE ~IsWriting(k) \/ (~k.rst /\ n = 0)
  <2>1. j = k
    BY <1>1 DEF HandleWrite
  <2> QED BY <2>1 DEF Advances
<1>3. CASE IsWriting(k) /\ k.rst
  <2>1. j = WriteFails(k)
    BY <1>3 DEF HandleWrite
  <2>2. KInv(WriteFails(k)) /\ Advances(k, WriteFails(k)) /\ SameProgram(k, WriteFails(k))
    BY WriteFailsInv
  <2> HIDE DEF j
  <2> QED BY <2>1, <2>2 DEF SameProgram, IsWriting
<1>2. CASE ~(~IsWriting(k) \/ k.rst \/ n = 0)
  <2>0. /\ k \in Record /\ k.epoll # NotIn /\ k.downs = 0 /\ ~k.rst /\ IsWriting(k)
        /\ "in" \in k.events /\ k.index = "kAdded" /\ ~k.sigpipe
        /\ k.wire \o k.out = Stream(k.sent) /\ k.out # <<>>
    BY <1>2 DEF KInv, Channels, Bytes
  <2>r. /\ k.room \in 0..RoomSize /\ k.wire \in Seq(Nat) /\ k.out \in Seq(Nat)
        /\ k.sent \in Nat /\ k.events \in SUBSET {"in", "out"} /\ RoomSize \in Nat
        /\ Len(k.out) \in Nat
    BY <2>0, TcpAssumption DEF Record
  <2>f. ~k.fin
    BY <2>0 DEF KInv, Bytes
  <2>t. k.state \in {"kConnected", "kDisconnecting"} /\ k.ups = 1 /\ k.at = "accepted"
    BY <2>0 DEF KInv, Told, Record, State, Untouched
  <2>n. n \in 0..Len(k.out) /\ n <= k.room
    BY <2>r DEF Min2
  <2>d. j = IF rest.out # <<>> THEN rest
            ELSE IF done.state = "kDisconnecting" THEN ShutdownInLoop(done) ELSE done
    BY <1>2 DEF HandleWrite
  <2> HIDE DEF n
  <2>l. /\ SubSeq(k.out, 1, n) \in Seq(Nat) /\ LeftOver(k.out, n) \in Seq(Nat)
        /\ SubSeq(k.out, 1, n) \o LeftOver(k.out, n) = k.out
    BY <2>r, <2>n, LeftOverRest
  <2> DEFINE w == SubSeq(k.out, 1, n)
             v == LeftOver(k.out, n)
  <2>w. w \in Seq(Nat) /\ v \in Seq(Nat) /\ w \o v = k.out
    BY <2>l
  <2>q. rest = [k EXCEPT !.wire = k.wire \o w, !.room = k.room - n, !.out = v]
    BY <2>0 DEF Record
  <2> HIDE DEF w, v, rest, done, j
  <2>1. /\ rest \in Record /\ rest.at = k.at /\ rest.loop = k.loop /\ rest.state = k.state
        /\ rest.events = k.events /\ rest.index = k.index /\ rest.out = v
        /\ rest.sent = k.sent /\ rest.ups = k.ups /\ rest.downs = k.downs
        /\ rest.epoll = k.epoll /\ rest.wire = k.wire \o w /\ rest.fin = k.fin
        /\ rest.rst = k.rst /\ rest.sigpipe = k.sigpipe
    <3>1. k.wire \o w \in Seq(Nat)
      BY <2>r, <2>w, ConcatProperties
    <3>2. k.room - n \in 0..RoomSize
      BY <2>r, <2>n
    <3> QED BY <2>0, <2>w, <2>q, <3>1, <3>2 DEF Record
  <2>2. rest.wire \o rest.out = Stream(rest.sent)
    <3>1. (k.wire \o w) \o v = k.wire \o (w \o v)
      BY <2>r, <2>w, Assoc
    <3> QED BY <2>0, <2>1, <2>w, <3>1
  <2>3. CASE rest.out # <<>>
    <3>1. j = rest
      BY <2>3, <2>d
    <3>2. Told(rest) /\ Channels(rest)
      BY <2>0, <2>1, <2>f, <2>t DEF Told, Channels
    <3>3. Bytes(rest)
      BY <2>0, <2>1, <2>2, <2>3, <2>f DEF Bytes, IsWriting
    <3>4. KInv(rest)
      BY <2>1, <3>2, <3>3 DEF KInv
    <3> QED BY <2>0, <2>1, <2>f, <3>1, <3>4 DEF Advances, IsWriting
  <2>4. CASE rest.out = <<>>
    <3> DEFINE e == [rest EXCEPT !.events = @ \ {"out"}]
    <3>1. /\ e \in Record /\ e.at = k.at /\ e.loop = k.loop /\ e.state = k.state
          /\ e.events = k.events \ {"out"} /\ e.index = "kAdded" /\ e.out = <<>>
          /\ e.sent = k.sent /\ e.ups = k.ups /\ e.downs = k.downs
          /\ e.wire = rest.wire /\ e.fin = k.fin
          /\ e.rst = k.rst /\ e.sigpipe = k.sigpipe
      BY <2>0, <2>1, <2>4, <2>r DEF Record
    <3>2. done = Update(e)
      BY DEF DisableWriting, done
    <3> HIDE DEF e
    <3>3. "in" \in e.events /\ e.events # {} /\ e.events # NotIn /\ "out" \notin e.events
      BY <2>0, <3>1 DEF NotIn
    <3>4. /\ done \in Record /\ done.epoll = e.events
          /\ done.index = "kAdded" /\ done.events = e.events
          /\ done.out = e.out /\ done.wire = e.wire
          /\ done.sent = e.sent /\ done.sigpipe = e.sigpipe /\ SameButData(e, done)
      BY <3>1, <3>2, <3>3, UpdateAdded
    <3>5. Told(done) /\ Channels(done)
      BY <2>0, <2>t, <2>f, <3>1, <3>3, <3>4 DEF Told, Channels, SameButData
    <3>6. Bytes(done)
      <4>1. done.wire \o done.out = Stream(done.sent)
        BY <2>1, <2>2, <2>4, <3>1, <3>4
      <4>2. done.out = <<>> /\ ~IsWriting(done)
        BY <3>1, <3>3, <3>4 DEF IsWriting
      <4>3. ~done.sigpipe
        BY <2>0, <3>1, <3>4
      <4> QED BY <4>1, <4>2, <4>3 DEF Bytes
    <3>7. /\ KInv(done) /\ Advances(k, done) /\ done.state = k.state
          /\ done.downs = k.downs /\ done.index = k.index /\ done.epoll # NotIn
      BY <2>0, <3>1, <3>3, <3>4, <3>5, <3>6 DEF KInv, Advances, SameButData
    <3>8. CASE k.state = "kDisconnecting"
      <4>1. j = ShutdownInLoop(done)
        BY <2>4, <2>d, <3>7, <3>8
      <4>2. ~IsWriting(done)
        BY <3>3, <3>4 DEF IsWriting
      <4>3. /\ KInv(ShutdownInLoop(done)) /\ Advances(done, ShutdownInLoop(done))
            /\ ShutdownInLoop(done).epoll = done.epoll
            /\ ShutdownInLoop(done).index = done.index
            /\ ShutdownInLoop(done).state = done.state
            /\ ShutdownInLoop(done).downs = done.downs /\ ShutdownInLoop(done).fin
        BY <3>7, <3>8, <4>2, ShutdownInLoopInv
      <4> QED BY <2>0, <3>7, <3>8, <4>1, <4>3 DEF Advances
    <3>9. CASE k.state # "kDisconnecting"
      <4>1. j = done
        BY <2>4, <2>d, <3>7, <3>9
      <4> QED BY <2>0, <2>f, <3>7, <3>9, <4>1
    <3> QED BY <3>8, <3>9
  <2> QED BY <2>3, <2>4
<1> QED BY <1>1, <1>2, <1>3

\* A message arrives, is answered, and the application may shut down after it.
LEMMA AnsweredInv ==
    ASSUME NEW k, KInv(k), k.epoll # NotIn, NEW stop \in BOOLEAN, NEW hit \in BOOLEAN
    PROVE  LET j == Answered(Got(k, hit), stop)
           IN  /\ KInv(j) /\ Advances(k, j) /\ j.epoll # NotIn
               /\ j.downs = k.downs
               /\ k.state # "kConnected" => j.state = k.state /\ j.events = k.events /\ j.fin = k.fin
               /\ k.state = "kConnected" =>
                     j.state = "kConnected" \/ j.fin \/ IsWriting(j)
<1> DEFINE g == Got(k, hit)
           s == Send(g)
           j == Answered(g, stop)
<1> SUFFICES /\ KInv(j) /\ Advances(k, j) /\ j.epoll # NotIn
             /\ j.downs = k.downs
             /\ k.state # "kConnected" => j.state = k.state /\ j.events = k.events /\ j.fin = k.fin
             /\ k.state = "kConnected" =>
                   j.state = "kConnected" \/ j.fin \/ IsWriting(j)
  OBVIOUS
<1>1. /\ g \in Record /\ g.at = k.at /\ g.loop = k.loop /\ g.state = k.state
      /\ g.events = k.events /\ g.index = k.index /\ g.out = k.out /\ g.sent = k.sent
      /\ g.ups = k.ups /\ g.downs = k.downs /\ g.epoll = k.epoll /\ g.wire = k.wire
      /\ g.fin = k.fin /\ g.sigpipe = k.sigpipe /\ (~g.rst => ~k.rst)
  <2>1. k \in Record
    BY DEF KInv
  <2>2. PICK x \in BOOLEAN : x = (k.rst \/ hit)
    OBVIOUS
  <2>3. PICK y \in BOOLEAN : y = (k.err \/ (hit /\ ~k.rst))
    OBVIOUS
  <2>4. g = [k EXCEPT !.inq = FALSE, !.rst = x, !.err = y]
    BY <2>1, <2>2, <2>3 DEF Got, Record
  <2> HIDE DEF g
  <2>5. ~x => ~k.rst
    BY <2>2
  <2>6. g.rst = x
    BY <2>1, <2>4 DEF Record
  <2> QED BY <2>1, <2>4, <2>5, <2>6 DEF Record
<1> HIDE DEF g
<1>2. KInv(g)
  <2>1. Told(g) /\ Channels(g)
    BY <1>1 DEF KInv, Told, Untouched, Channels
  <2>2. Bytes(g)
    <3>1. /\ ~k.rst => k.wire \o k.out = Stream(k.sent)
          /\ k.downs = 0 => (k.out # <<>> <=> IsWriting(k))
          /\ k.fin /\ k.downs = 0 => k.out = <<>>
          /\ ~k.sigpipe
      BY DEF KInv, Bytes
    <3>2. IsWriting(k) <=> IsWriting(g)
      BY <1>1 DEF IsWriting
    <3> QED BY <1>1, <3>1, <3>2 DEF Bytes
  <2> QED BY <1>1, <2>1, <2>2 DEF KInv
<1>3. /\ KInv(s) /\ SameButData(g, s) /\ s.epoll # NotIn
      /\ g.state # "kConnected" => s = g
  BY <1>1, <1>2, SendInv
<1> HIDE DEF s
<1>4. Advances(k, s) /\ s.downs = k.downs /\ s.state = k.state /\ s.fin = k.fin
  BY <1>1, <1>3 DEF Advances, SameButData
<1>5. CASE stop
  <2>1. j = Shutdown(s)
    BY <1>5 DEF Answered, s
  <2>2. /\ KInv(Shutdown(s)) /\ Advances(s, Shutdown(s))
        /\ Shutdown(s).epoll = s.epoll /\ Shutdown(s).index = s.index
        /\ Shutdown(s).downs = s.downs
        /\ s.state # "kConnected" => Shutdown(s) = s
        /\ s.state = "kConnected" => Shutdown(s).fin \/ IsWriting(Shutdown(s))
    BY <1>3, ShutdownInv
  <2> HIDE DEF j
  <2> QED BY <1>1, <1>3, <1>4, <2>1, <2>2 DEF Advances
<1>6. CASE ~stop
  <2>1. j = s
    BY <1>6 DEF Answered, s
  <2> HIDE DEF j
  <2> QED BY <1>1, <1>3, <1>4, <2>1
<1> QED BY <1>5, <1>6

\* What the peer does to the socket touches neither the connection nor the bytes.
LEMMA PeerInv ==
    ASSUME NEW k, KInv(k), NEW j \in Record,
           j.loop = k.loop, j.state = k.state, j.events = k.events, j.index = k.index,
           j.out = k.out, j.sent = k.sent, j.ups = k.ups, j.downs = k.downs,
           j.epoll = k.epoll, j.wire = k.wire, j.fin = k.fin, j.sigpipe = k.sigpipe,
           j.rst = k.rst \/ j.rst,
           k.state # "kConnecting" => j.at = "accepted"
    PROVE  KInv(j)
<1>1. Told(j) /\ Channels(j)
  BY DEF KInv, Told, Untouched, Channels
<1>2. IsWriting(k) <=> IsWriting(j)
  BY DEF IsWriting
<1>3. /\ ~k.rst => k.wire \o k.out = Stream(k.sent)
      /\ k.downs = 0 => (k.out # <<>> <=> IsWriting(k))
      /\ k.fin /\ k.downs = 0 => k.out = <<>>
      /\ ~k.sigpipe
  BY DEF KInv, Bytes
<1>4. Bytes(j)
  BY <1>2, <1>3 DEF Bytes
<1> QED BY <1>1, <1>4 DEF KInv

-----------------------------------------------------------------------------
(* The functors that a loop has still to run, in order.                      *)

Rest(l) == SubSeq(functors[l], ran[l] + 1, Len(functors[l])) \o pending[l]

QueueTypes ==
    /\ pending \in [Loop -> Seq(Functors)] /\ functors \in [Loop -> Seq(Functors)]
    /\ ran \in [Loop -> Nat] /\ pc \in [Loop -> Place]
    /\ \A l \in Loop :
          /\ ran[l] <= Len(functors[l])
          /\ pc[l] # "run" => functors[l] = <<>> /\ ran[l] = 0

\* Functors are queued one behind the other.
LEMMA AssocFunctors ==
    ASSUME NEW s \in Seq(Functors), NEW t \in Seq(Functors), NEW u \in Seq(Functors)
    PROVE  (s \o t) \o u = s \o (t \o u)
BY ConcatAssociative

\* The part of a queue after its first r elements.
LEMMA DropType ==
    ASSUME NEW S, NEW f \in Seq(S), NEW r \in Nat, r <= Len(f)
    PROVE  /\ SubSeq(f, r + 1, Len(f)) \in Seq(S)
           /\ r = Len(f) => SubSeq(f, r + 1, Len(f)) = <<>>
           /\ r < Len(f) => /\ SubSeq(f, r + 1, Len(f)) # <<>>
                            /\ Head(SubSeq(f, r + 1, Len(f))) = f[r + 1]
                            /\ Tail(SubSeq(f, r + 1, Len(f))) = SubSeq(f, r + 2, Len(f))
<1>0. Len(f) \in Nat
  BY LenProperties
<1>1. \A i \in (r + 1)..Len(f) : f[i] \in S
  BY <1>0, ElementOfSeq
<1>2. SubSeq(f, r + 1, Len(f)) \in Seq(S)
  <2>1. r + 1 \in Int /\ Len(f) \in Int
    BY <1>0
  <2> QED BY <2>1, <1>1, SubSeqProperties
<1>3. r = Len(f) => SubSeq(f, r + 1, Len(f)) = <<>>
  <2>1. r = Len(f) => Len(f) < r + 1
    BY <1>0
  <2>2. r + 1 \in Int /\ Len(f) \in Int
    BY <1>0
  <2> QED BY <2>1, <2>2, SubSeqEmpty
<1>4. ASSUME r < Len(f)
      PROVE  /\ SubSeq(f, r + 1, Len(f)) # <<>>
             /\ Head(SubSeq(f, r + 1, Len(f))) = f[r + 1]
             /\ Tail(SubSeq(f, r + 1, Len(f))) = SubSeq(f, r + 2, Len(f))
  <2>1. /\ r + 1 \in 1..Len(f) /\ Len(f) \in (r + 1)..Len(f)
        /\ r + 1 + 1 = r + 2 /\ r + 1 \in Int /\ Len(f) \in Int
    BY <1>0, <1>4
  <2>2. Len(SubSeq(f, r + 1, Len(f))) = IF r + 1 <= Len(f) THEN Len(f) - (r + 1) + 1 ELSE 0
    BY <2>1, <1>1, SubSeqProperties
  <2>3. Len(SubSeq(f, r + 1, Len(f))) # 0
    BY <2>2, <1>0, <1>4
  <2>4. SubSeq(f, r + 1, Len(f)) # <<>>
    BY <2>3, EmptySeq
  <2> QED BY <2>1, <2>4, HeadTailOfSubSeq
<1> QED BY <1>2, <1>3, <1>4

\* Taking the first element of a queue that goes on.
LEMMA TailConcat ==
    ASSUME NEW S, NEW s \in Seq(S), s # <<>>, NEW t \in Seq(S)
    PROVE  /\ s \o t # <<>> /\ Head(s \o t) = Head(s)
           /\ Tail(s \o t) = Tail(s) \o t
<1>0. Len(s) \in Nat \ {0} /\ Len(t) \in Nat
  BY EmptySeq, LenProperties
<1>1. /\ s \o t \in Seq(S) /\ Len(s \o t) = Len(s) + Len(t)
      /\ \A i \in 1..(Len(s) + Len(t)) : (s \o t)[i] =
            IF i <= Len(s) THEN s[i] ELSE t[i - Len(s)]
  BY ConcatProperties
<1>2. s \o t # <<>>
  BY <1>0, <1>1, EmptySeq
<1>3. Head(s \o t) = Head(s)
  <2>1. 1 \in 1..(Len(s) + Len(t)) /\ 1 <= Len(s)
    BY <1>0
  <2>2. (s \o t)[1] = s[1]
    BY <2>1, <1>1
  <2> QED BY <2>2
<1>4. /\ Tail(s \o t) \in Seq(S) /\ Len(Tail(s \o t)) = Len(s) + Len(t) - 1
      /\ \A i \in 1..Len(Tail(s \o t)) : Tail(s \o t)[i] = (s \o t)[i + 1]
  BY <1>1, <1>2, HeadTailProperties
<1>5. /\ Tail(s) \in Seq(S) /\ Len(Tail(s)) = Len(s) - 1
      /\ \A i \in 1..Len(Tail(s)) : Tail(s)[i] = s[i + 1]
  BY HeadTailProperties
<1>6. /\ Tail(s) \o t \in Seq(S) /\ Len(Tail(s) \o t) = Len(s) - 1 + Len(t)
      /\ \A i \in 1..(Len(s) - 1 + Len(t)) : (Tail(s) \o t)[i] =
            IF i <= Len(s) - 1 THEN Tail(s)[i] ELSE t[i - (Len(s) - 1)]
  BY <1>5, ConcatProperties
<1>7. \A i \in 1..Len(Tail(s \o t)) : Tail(s \o t)[i] = (Tail(s) \o t)[i]
  <2> SUFFICES ASSUME NEW i \in 1..(Len(s) + Len(t) - 1)
               PROVE  (s \o t)[i + 1] = (Tail(s) \o t)[i]
    BY <1>4
  <2>1. i + 1 \in 1..(Len(s) + Len(t)) /\ i \in 1..(Len(s) - 1 + Len(t))
    BY <1>0
  <2>2. CASE i <= Len(s) - 1
    <3>1. i \in 1..Len(Tail(s)) /\ i + 1 <= Len(s)
      BY <2>2, <1>0, <1>5
    <3> QED BY <2>1, <2>2, <3>1, <1>1, <1>5, <1>6
  <2>3. CASE ~(i <= Len(s) - 1)
    <3>1. ~(i + 1 <= Len(s)) /\ i + 1 - Len(s) = i - (Len(s) - 1)
      BY <2>3, <1>0
    <3> QED BY <2>1, <2>3, <3>1, <1>1, <1>6
  <2> QED BY <2>2, <2>3
<1>8. Len(Tail(s \o t)) = Len(Tail(s) \o t)
  BY <1>0, <1>4, <1>6
<1> QED BY <1>2, <1>3, <1>4, <1>6, <1>7, <1>8, SeqEqual

\* What a loop has still to run is a sequence of functors.
LEMMA RestType ==
    ASSUME QueueTypes, NEW l \in Loop
    PROVE  Rest(l) \in Seq(Functors)
<1>1. /\ functors[l] \in Seq(Functors) /\ pending[l] \in Seq(Functors)
      /\ ran[l] \in Nat /\ ran[l] <= Len(functors[l])
  BY DEF QueueTypes
<1>2. SubSeq(functors[l], ran[l] + 1, Len(functors[l])) \in Seq(Functors)
  BY <1>1, DropType
<1> QED BY <1>1, <1>2, ConcatProperties DEF Rest

\* queueInLoop puts its functors behind what the loop has to run.
LEMMA RestQueue ==
    ASSUME QueueTypes, NEW t, NEW m \in Loop, NEW fs \in Seq(Functors),
           QueueInLoop(t, m, fs), UNCHANGED <<pc, functors, ran>>
    PROVE  /\ QueueTypes'
           /\ Rest(m)' = Rest(m) \o fs
           /\ \A l \in Loop \ {m} : Rest(l)' = Rest(l)
<1>1. /\ pending'[m] = pending[m] \o fs /\ pending[m] \in Seq(Functors)
      /\ \A l \in Loop \ {m} : pending'[l] = pending[l]
      /\ pending' \in [Loop -> Seq(Functors)]
  <2>1. pending[m] \in Seq(Functors) /\ pending[m] \o fs \in Seq(Functors)
    BY ConcatProperties DEF QueueTypes
  <2> QED BY <2>1 DEF QueueInLoop, QueueTypes
<1>2. SubSeq(functors[m], ran[m] + 1, Len(functors[m])) \in Seq(Functors)
  BY DropType DEF QueueTypes
<1>3. Rest(m)' = Rest(m) \o fs
  <2> DEFINE s == SubSeq(functors[m], ran[m] + 1, Len(functors[m]))
  <2>1. Rest(m) = s \o pending[m] /\ Rest(m)' = s \o (pending[m] \o fs)
    BY <1>1 DEF Rest
  <2>2. s \in Seq(Functors)
    BY <1>2
  <2> HIDE DEF s
  <2>3. (s \o pending[m]) \o fs = s \o (pending[m] \o fs)
    BY <1>1, <2>2, AssocFunctors
  <2> QED BY <2>1, <2>3
<1> QED BY <1>1, <1>3 DEF Rest, QueueTypes

\* The next functor is taken from the front.
LEMMA RestTake ==
    ASSUME QueueTypes, NEW l \in Loop, TakeFunctor(l),
           NEW m \in Loop, NEW t, NEW fs \in Seq(Functors),
           QueueInLoop(t, m, fs), UNCHANGED <<pc, functors>>
    PROVE  /\ QueueTypes'
           /\ Rest(l) # <<>> /\ Head(Rest(l)) = Functor(l) /\ Functor(l) \in Functors
           /\ \A x \in Loop : Rest(x)' =
                (IF x = l THEN Tail(Rest(x)) ELSE Rest(x)) \o (IF x = m THEN fs ELSE <<>>)
<1> DEFINE A(x) == SubSeq(functors[x], ran[x] + 1, Len(functors[x]))
<1>0. /\ functors[l] \in Seq(Functors) /\ pending[l] \in Seq(Functors)
      /\ ran[l] \in Nat /\ ran[l] < Len(functors[l]) /\ Len(functors[l]) \in Nat
  BY LenProperties DEF QueueTypes, TakeFunctor
<1>1. /\ \A x \in Loop : pending'[x] = pending[x] \o (IF x = m THEN fs ELSE <<>>)
      /\ pending' \in [Loop -> Seq(Functors)]
  <2>1. \A x \in Loop : pending[x] \in Seq(Functors) /\ pending[x] \o <<>> = pending[x]
    BY ConcatEmptySeq DEF QueueTypes
  <2>2. pending[m] \o fs \in Seq(Functors)
    BY <2>1, ConcatProperties
  <2> QED BY <2>1, <2>2 DEF QueueInLoop, QueueTypes
<1>2. /\ ran' \in [Loop -> Nat] /\ ran'[l] = ran[l] + 1
      /\ \A x \in Loop \ {l} : ran'[x] = ran[x]
  BY <1>0 DEF QueueTypes, TakeFunctor
<1>3. QueueTypes'
  <2>1. pc[l] = "run"
    BY DEF TakeFunctor
  <2> QED BY <1>0, <1>1, <1>2, <2>1 DEF QueueTypes
<1>4. /\ A(l) \in Seq(Functors) /\ A(l) # <<>> /\ Head(A(l)) = functors[l][ran[l] + 1]
      /\ Tail(A(l)) = SubSeq(functors[l], ran[l] + 2, Len(functors[l]))
  <2>1. ran[l] <= Len(functors[l])
    BY <1>0
  <2> QED BY <1>0, <2>1, DropType
<1>5. /\ Rest(l) # <<>> /\ Head(Rest(l)) = Head(A(l))
      /\ Tail(Rest(l)) = Tail(A(l)) \o pending[l]
  <2>1. Rest(l) = A(l) \o pending[l]
    BY DEF Rest
  <2> HIDE DEF A
  <2> QED BY <2>1, <1>0, <1>4, TailConcat
<1>6. Functor(l) \in Functors
  <2>1. ran[l] + 1 \in 1..Len(functors[l])
    BY <1>0
  <2> QED BY <2>1, <1>0, ElementOfSeq DEF Functor
<1>7. ASSUME NEW x \in Loop
      PROVE  Rest(x)' = (IF x = l THEN Tail(Rest(x)) ELSE Rest(x)) \o (IF x = m THEN fs ELSE <<>>)
  <2> DEFINE g == IF x = m THEN fs ELSE <<>>
  <2>1. g \in Seq(Functors) /\ pending[x] \in Seq(Functors)
    BY EmptySeq DEF QueueTypes
  <2>2. pending'[x] = pending[x] \o g
    BY <1>1
  <2> HIDE DEF g
  <2>3. CASE x = l
    <3>1. ran'[l] + 1 = ran[l] + 2
      BY <1>0, <1>2
    <3>2. Rest(l)' = Tail(A(l)) \o (pending[l] \o g)
      BY <1>4, <2>2, <2>3, <3>1 DEF Rest
    <3>3. Tail(A(l)) \in Seq(Functors)
      BY <1>4, HeadTailProperties
    <3>4. Rest(l)' = (Tail(A(l)) \o pending[l]) \o g
      <4> HIDE DEF A
      <4> QED BY <1>0, <2>1, <2>3, <3>2, <3>3, AssocFunctors
    <3> QED BY <1>5, <2>3, <3>4 DEF g
  <2>4. CASE x # l
    <3>1. Rest(x)' = A(x) \o (pending[x] \o g)
      BY <1>2, <2>2, <2>4 DEF Rest
    <3>2. A(x) \in Seq(Functors)
      BY DropType DEF QueueTypes
    <3>3. Rest(x)' = (A(x) \o pending[x]) \o g
      <4> HIDE DEF A
      <4> QED BY <2>1, <3>1, <3>2, AssocFunctors
    <3> QED BY <2>4, <3>3 DEF Rest, g
  <2> QED BY <2>3, <2>4
<1> QED BY <1>3, <1>4, <1>5, <1>6, <1>7 DEF Functor

\* The loop's own moves: a swap or the end of doPendingFunctors changes nothing of
\* what is to run; the end of a thread drops it.
LEMMA RestMoves ==
    ASSUME QueueTypes, NEW l \in Loop,
           \/ BeginPending(l) \/ EndPending(l) \/ EnterLoop(l) \/ PublishLoop(l)
           \/ \E r : PollReturns(l, r)
    PROVE  QueueTypes' /\ \A x \in Loop : Rest(x)' = Rest(x)
<1>0. /\ functors[l] \in Seq(Functors) /\ pending[l] \in Seq(Functors)
      /\ ran[l] \in Nat /\ ran[l] <= Len(functors[l])
      /\ <<>> \in Seq(Functors) /\ Len(<<>>) = 0 /\ 0 \in Nat
  BY EmptySeq DEF QueueTypes
<1>e. SubSeq(<<>>, 0 + 1, 0) = <<>>
  BY SubSeqEmpty
<1>1. CASE BeginPending(l)
  <2>1. functors[l] = <<>> /\ ran[l] = 0
    BY <1>1 DEF BeginPending, QueueTypes
  <2>2. Rest(l) = pending[l]
    BY <2>1, <1>0, <1>e, ConcatEmptySeq DEF Rest
  <2>3. Rest(l)' = SubSeq(pending[l], 0 + 1, Len(pending[l])) \o <<>>
    BY <1>1 DEF BeginPending, Rest, QueueTypes
  <2>4. SubSeq(pending[l], 0 + 1, Len(pending[l])) = pending[l]
    BY <1>0, SubSeqFull
  <2>5. Rest(l)' = Rest(l)
    BY <1>0, <2>2, <2>3, <2>4, ConcatEmptySeq
  <2>6. \A x \in Loop \ {l} : Rest(x)' = Rest(x)
    BY <1>1 DEF BeginPending, Rest, QueueTypes
  <2>7. QueueTypes'
    <3>1. Len(pending[l]) \in Nat
      BY <1>0, LenProperties
    <3> QED BY <1>1, <1>0, <3>1 DEF BeginPending, QueueTypes, Place
  <2> QED BY <2>5, <2>6, <2>7
<1>2. CASE EndPending(l)
  <2>1. SubSeq(functors[l], ran[l] + 1, Len(functors[l])) = <<>>
    <3>1. ran[l] = Len(functors[l])
      BY <1>2 DEF EndPending
    <3> QED BY <1>0, <3>1, DropType
  <2>2. Rest(l) = <<>> \o pending[l]
    BY <2>1 DEF Rest
  <2>3. Rest(l)' = SubSeq(<<>>, 0 + 1, 0) \o pending[l]
    BY <1>2, <1>0 DEF EndPending, Rest, QueueTypes
  <2>4. Rest(l)' = Rest(l)
    BY <2>2, <2>3, <1>e
  <2>5. \A x \in Loop \ {l} : Rest(x)' = Rest(x)
    BY <1>2 DEF EndPending, Rest, QueueTypes
  <2>6. QueueTypes'
    BY <1>2, <1>0 DEF EndPending, QueueTypes, Place
  <2> QED BY <2>4, <2>5, <2>6
<1>3. CASE EnterLoop(l) \/ PublishLoop(l) \/ \E r : PollReturns(l, r)
  <2>1. UNCHANGED <<functors, ran, pending>>
    BY <1>3 DEF EnterLoop, PublishLoop, PollReturns
  <2>2. QueueTypes'
    BY <1>3, <2>1 DEF EnterLoop, PublishLoop, PollReturns, QueueTypes, Place
  <2> QED BY <2>1, <2>2 DEF Rest
<1> QED BY <1>1, <1>2, <1>3

\* A functor queued in loop l is one that may run there: connectEstablished is
\* queued before the connection is established, removeConnectionInLoop goes to
\* the main loop after the connection was reported down, and so on.
Sound(l, f) ==
    /\ f \in Functors /\ f.do # "sendInLoop"
    /\ conn[f.c].at = "accepted"
    /\ f.do = "connectEstablished" =>
          conn[f.c].loop = l /\ l # Main /\ conn[f.c].state = "kConnecting"
    /\ f.do = "connectDestroyed" => conn[f.c].loop = l
    /\ f.do = "shutdownInLoop" => conn[f.c].state \in {"kDisconnecting", "kDisconnected"}
    /\ f.do = "removeConnectionInLoop" => l = Main /\ conn[f.c].downs = 1
\* connectEstablished comes before all else that is queued for its connection.
First(s) ==
    \A i, j \in 1..Len(s) :
        i < j /\ s[j].do = "connectEstablished" => s[i].c # s[j].c
QueueInv ==
    /\ QueueTypes
    /\ \A l \in Loop :
          /\ \A i \in 1..Len(Rest(l)) : Sound(l, Rest(l)[i])
          /\ First(Rest(l))
\* A channel in activeChannels_ is in the epoll set of its loop until it is
\* handled, and is there once.
ActiveInv ==
    /\ DOMAIN active = Loop
    /\ \A l \in Loop :
          /\ pc[l] # "handle" => active[l] = {}
          /\ \A a \in active[l], c \in Conn : a[1] = c =>
                /\ conn[c].loop = l /\ conn[c].epoll # NotIn
                /\ \A b \in active[l] : b[1] = c => b = a
\* The connections: each is sound, only one that was reported down leaves
\* connections_ while the server lives, and the application gets its pointer from
\* connectionCallback_.
ConnsInv ==
    /\ DOMAIN conn = Conn
    /\ \A c \in Conn : KInv(conn[c])
    /\ connections \subseteq Conn /\ held \subseteq Conn
    /\ \A c \in connections : conn[c].at = "accepted"
    /\ \A c \in Conn : conn[c].at = "accepted" /\ c \notin connections =>
          conn[c].downs = 1 \/ Leaving
    /\ \A c \in held : conn[c].state # "kConnecting"
    /\ next_ \in Nat /\ (IoLoops # <<>> => next_ < Len(IoLoops))
\* What the worker read of state_ before it sets it.
WorkerInv ==
    \/ worker \in {Idle, Gone}
    \/ \E c \in Conn :
          \/ worker = <<"checked", "shutdown", c>> /\ conn[c].state # "kConnecting"
          \/ /\ worker = <<"set", "shutdown", c>>
             /\ conn[c].state \in {"kDisconnecting", "kDisconnected"}
Sys == QueueInv /\ ActiveInv /\ ConnsInv /\ WorkerInv

\* What a step of the program, other than connectEstablished, does to a
\* connection that was accepted.
Steady(k, k2) ==
    k.at = "accepted" =>
        Advances(k, k2) /\ (k.state = "kConnecting" => k2.state = "kConnecting")

\* A functor that may run still may after such a step.
LEMMA SoundKeeps ==
    ASSUME NEW l, NEW f, Sound(l, f), Steady(conn[f.c], conn'[f.c])
    PROVE  Sound(l, f)'
BY DEF Sound, Steady, Advances

\* connectEstablished still comes first when functors are queued that are not
\* connectEstablished, or it alone for a connection of which nothing is queued.
LEMMA FirstAppend ==
    ASSUME NEW s \in Seq(Functors), NEW g \in Seq(Functors), First(s),
           \A i \in 1..Len(g) : g[i].do = "connectEstablished" =>
              Len(g) = 1 /\ \A j \in 1..Len(s) : s[j].c # g[i].c
    PROVE  First(s \o g)
<1>0. Len(s) \in Nat /\ Len(g) \in Nat
  BY LenProperties
<1>1. /\ Len(s \o g) = Len(s) + Len(g)
      /\ \A i \in 1..(Len(s) + Len(g)) : (s \o g)[i] =
            IF i <= Len(s) THEN s[i] ELSE g[i - Len(s)]
  BY ConcatProperties
<1> SUFFICES ASSUME NEW i \in 1..(Len(s) + Len(g)), NEW j \in 1..(Len(s) + Len(g)),
                    i < j, (s \o g)[j].do = "connectEstablished"
             PROVE  (s \o g)[i].c # (s \o g)[j].c
  BY <1>0, <1>1 DEF First
<1>2. CASE j <= Len(s)
  <2>1. i \in 1..Len(s) /\ j \in 1..Len(s)
    BY <1>0, <1>2
  <2>2. (s \o g)[i] = s[i] /\ (s \o g)[j] = s[j]
    BY <1>1, <2>1
  <2> QED BY <2>1, <2>2 DEF First
<1>3. CASE ~(j <= Len(s))
  <2>1. j - Len(s) \in 1..Len(g) /\ (s \o g)[j] = g[j - Len(s)]
    BY <1>0, <1>1, <1>3
  <2>2. Len(g) = 1 /\ \A x \in 1..Len(s) : s[x].c # g[j - Len(s)].c
    BY <2>1
  <2>3. i \in 1..Len(s)
    BY <1>0, <1>3, <2>2
  <2>4. (s \o g)[i] = s[i]
    BY <1>1, <2>3
  <2> QED BY <2>1, <2>2, <2>3, <2>4
<1> QED BY <1>2, <1>3

\* Taking the first functor leaves such a queue, and if it is connectEstablished
\* no other one is queued for its connection.
LEMMA FirstTail ==
    ASSUME NEW s \in Seq(Functors), s # <<>>, First(s)
    PROVE  /\ First(Tail(s)) /\ Tail(s) \in Seq(Functors)
           /\ \A j \in 1..Len(Tail(s)) :
                 /\ Tail(s)[j] = s[j + 1] /\ j + 1 \in 1..Len(s)
                 /\ Tail(s)[j].do = "connectEstablished" => Tail(s)[j].c # Head(s).c
<1>0. Len(s) \in Nat \ {0}
  BY EmptySeq, LenProperties
<1>1. /\ Tail(s) \in Seq(Functors) /\ Len(Tail(s)) = Len(s) - 1
      /\ \A i \in 1..Len(Tail(s)) : Tail(s)[i] = s[i + 1]
  BY HeadTailProperties
<1>2. Head(s) = s[1] /\ 1 \in 1..Len(s)
  BY <1>0
<1>3. ASSUME NEW j \in 1..Len(Tail(s))
      PROVE  /\ Tail(s)[j] = s[j + 1] /\ j + 1 \in 1..Len(s)
             /\ Tail(s)[j].do = "connectEstablished" => Tail(s)[j].c # Head(s).c
  <2>1. j + 1 \in 1..Len(s) /\ 1 < j + 1
    BY <1>0, <1>1
  <2> QED BY <1>1, <1>2, <2>1 DEF First
<1>4. First(Tail(s))
  <2> SUFFICES ASSUME NEW i \in 1..Len(Tail(s)), NEW j \in 1..Len(Tail(s)), i < j,
                      Tail(s)[j].do = "connectEstablished"
               PROVE  Tail(s)[i].c # Tail(s)[j].c
    BY DEF First
  <2>1. i + 1 \in 1..Len(s) /\ j + 1 \in 1..Len(s) /\ i + 1 < j + 1
    BY <1>0, <1>1
  <2> QED BY <1>1, <2>1 DEF First
<1> QED BY <1>1, <1>3, <1>4

\* What is queued behind sound functors is sound if it is by itself.
LEMMA SoundAppend ==
    ASSUME NEW l, NEW s \in Seq(Functors), NEW g \in Seq(Functors),
           \A i \in 1..Len(s) : Sound(l, s[i])',
           \A i \in 1..Len(g) : Sound(l, g[i])'
    PROVE  \A i \in 1..Len(s \o g) : Sound(l, (s \o g)[i])'
<1>0. Len(s) \in Nat /\ Len(g) \in Nat
  BY LenProperties
<1>1. /\ Len(s \o g) = Len(s) + Len(g)
      /\ \A i \in 1..(Len(s) + Len(g)) : (s \o g)[i] =
            IF i <= Len(s) THEN s[i] ELSE g[i - Len(s)]
  BY ConcatProperties
<1> SUFFICES ASSUME NEW i \in 1..(Len(s) + Len(g))
             PROVE  Sound(l, (s \o g)[i])'
  BY <1>1
<1>2. CASE i <= Len(s)
  <2>1. i \in 1..Len(s) /\ (s \o g)[i] = s[i]
    BY <1>0, <1>1, <1>2
  <2>2. Sound(l, s[i])'
    BY <2>1
  <2> QED BY <2>1, <2>2 DEF Sound
<1>3. CASE ~(i <= Len(s))
  <2>1. i - Len(s) \in 1..Len(g) /\ (s \o g)[i] = g[i - Len(s)]
    BY <1>0, <1>1, <1>3
  <2>2. Sound(l, g[i - Len(s)])'
    BY <2>1
  <2> QED BY <2>1, <2>2 DEF Sound
<1> QED BY <1>2, <1>3

\* One loop's queue after a step that drops the queue or its first functor, or
\* leaves it, and puts g behind it.
LEMMA QueueOf ==
    ASSUME NEW l, NEW r \in Seq(Functors), First(r),
           \A i \in 1..Len(r) : Sound(l, r[i]),
           NEW s \in Seq(Functors), NEW g \in Seq(Functors),
           \/ s = r /\ \A i \in 1..Len(r) : Steady(conn[r[i].c], conn'[r[i].c])
           \/ s = <<>>
           \/ /\ r # <<>> /\ s = Tail(r)
              /\ \A i \in 1..Len(s) : s[i].c # Head(r).c => Steady(conn[s[i].c], conn'[s[i].c])
              /\ \/ Steady(conn[Head(r).c], conn'[Head(r).c])
                 \/ /\ Head(r).do = "connectEstablished"
                    /\ Advances(conn[Head(r).c], conn'[Head(r).c]),
           \A i \in 1..Len(g) :
              /\ Sound(l, g[i])'
              /\ g[i].do = "connectEstablished" =>
                    Len(g) = 1 /\ \A j \in 1..Len(s) : s[j].c # g[i].c
    PROVE  First(s \o g) /\ \A i \in 1..Len(s \o g) : Sound(l, (s \o g)[i])'
<1>1. First(s) /\ \A i \in 1..Len(s) : Sound(l, s[i])'
  <2>1. CASE s = r /\ \A i \in 1..Len(r) : Steady(conn[r[i].c], conn'[r[i].c])
    BY <2>1, SoundKeeps
  <2>2. CASE s = <<>>
    <3>1. 1..Len(s) = {}
      BY <2>2
    <3> QED BY <3>1 DEF First
  <2>3. CASE /\ r # <<>> /\ s = Tail(r)
             /\ \A i \in 1..Len(s) : s[i].c # Head(r).c => Steady(conn[s[i].c], conn'[s[i].c])
             /\ \/ Steady(conn[Head(r).c], conn'[Head(r).c])
                \/ /\ Head(r).do = "connectEstablished"
                   /\ Advances(conn[Head(r).c], conn'[Head(r).c])
    <3>1. /\ First(s)
          /\ \A j \in 1..Len(s) :
                /\ s[j] = r[j + 1] /\ j + 1 \in 1..Len(r)
                /\ s[j].do = "connectEstablished" => s[j].c # Head(r).c
      BY <2>3, FirstTail
    <3>2. ASSUME NEW i \in 1..Len(s) PROVE Sound(l, s[i])'
      <4>1. Sound(l, s[i])
        BY <3>1
      <4>2. CASE Steady(conn[s[i].c], conn'[s[i].c])
        BY <4>1, <4>2, SoundKeeps
      <4>3. CASE ~Steady(conn[s[i].c], conn'[s[i].c])
        <5>1. s[i].c = Head(r).c /\ Advances(conn[s[i].c], conn'[s[i].c])
          BY <2>3, <4>3
        <5>2. s[i].do # "connectEstablished"
          BY <3>1, <5>1
        <5> QED BY <4>1, <5>1, <5>2 DEF Sound, Advances
      <4> QED BY <4>2, <4>3
    <3> QED BY <3>1, <3>2
  <2> QED BY <2>1, <2>2, <2>3
<1>2. First(s \o g)
  BY <1>1, FirstAppend
<1>3. \A i \in 1..Len(s \o g) : Sound(l, (s \o g)[i])'
  BY <1>1, SoundAppend
<1> QED BY <1>2, <1>3

\* A step that queues, if at all, behind what is to run.
LEMMA QueueGrows ==
    ASSUME QueueInv, NEW t, NEW m \in Loop, NEW g \in Seq(Functors),
           QueueInLoop(t, m, g), UNCHANGED <<pc, functors, ran>>,
           \A c \in Conn : Steady(conn[c], conn'[c]),
           \A i \in 1..Len(g) :
              /\ Sound(m, g[i])'
              /\ g[i].do = "connectEstablished" =>
                    Len(g) = 1 /\ conn[g[i].c].at # "accepted"
    PROVE  QueueInv'
<1>1. QueueTypes /\ QueueTypes' /\ Rest(m)' = Rest(m) \o g
  BY RestQueue DEF QueueInv
<1>2. \A l \in Loop \ {m} : Rest(l)' = Rest(l)
  BY RestQueue DEF QueueInv
<1> SUFFICES ASSUME NEW l \in Loop
             PROVE  \E u : u = Rest(l)' /\ First(u) /\ \A i \in 1..Len(u) : Sound(l, u[i])'
  BY <1>1 DEF QueueInv, First, Sound
<1>3. Rest(l) \in Seq(Functors)
  BY <1>1, RestType
<1>4. PICK r \in Seq(Functors) : r = Rest(l)
  BY <1>3
<1>5. PICK h \in Seq(Functors) :
         /\ Rest(l)' = r \o h
         /\ \A i \in 1..Len(h) :
               /\ Sound(l, h[i])'
               /\ h[i].do = "connectEstablished" =>
                     Len(h) = 1 /\ conn[h[i].c].at # "accepted"
  <2>1. CASE l = m
    BY <1>1, <1>4, <2>1
  <2>2. CASE l # m
    <3>1. r \o <<>> = r /\ <<>> \in Seq(Functors) /\ 1..Len(<<>>) = {}
      BY ConcatEmptySeq, EmptySeq
    <3> QED BY <1>2, <1>4, <2>2, <3>1
  <2> QED BY <2>1, <2>2
<1>6. First(r) /\ \A i \in 1..Len(r) : Sound(l, r[i])
  BY <1>4 DEF QueueInv
<1>7. \A i \in 1..Len(r) : r[i].c \in Conn /\ conn[r[i].c].at = "accepted"
  BY <1>6 DEF Sound, Functors
<1>8. \A i \in 1..Len(r) : Steady(conn[r[i].c], conn'[r[i].c])
  BY <1>7
<1>9. \A i \in 1..Len(h) : h[i].do = "connectEstablished" =>
         Len(h) = 1 /\ \A j \in 1..Len(r) : r[j].c # h[i].c
  BY <1>5, <1>7
<1>10. First(r \o h) /\ \A i \in 1..Len(r \o h) : Sound(l, (r \o h)[i])'
  BY <1>5, <1>6, <1>8, <1>9, QueueOf
<1> QED BY <1>5, <1>10 DEF Sound

\* The functor that is run leaves the front of its queue.
LEMMA QueueTakes ==
    ASSUME QueueInv, NEW l \in Loop, TakeFunctor(l),
           NEW t, NEW m \in Loop, NEW g \in Seq(Functors),
           QueueInLoop(t, m, g), UNCHANGED <<pc, functors>>,
           \A c \in Conn : c # Functor(l).c => Steady(conn[c], conn'[c]),
           \/ Steady(conn[Functor(l).c], conn'[Functor(l).c])
           \/ /\ Functor(l).do = "connectEstablished"
              /\ Advances(conn[Functor(l).c], conn'[Functor(l).c]),
           \A i \in 1..Len(g) : Sound(m, g[i])' /\ g[i].do # "connectEstablished"
    PROVE  QueueInv'
<1>1. /\ QueueTypes /\ QueueTypes'
      /\ Rest(l) # <<>> /\ Head(Rest(l)) = Functor(l) /\ Functor(l) \in Functors
      /\ \A x \in Loop : Rest(x)' =
            (IF x = l THEN Tail(Rest(x)) ELSE Rest(x)) \o (IF x = m THEN g ELSE <<>>)
  BY RestTake DEF QueueInv
<1> SUFFICES ASSUME NEW x \in Loop
             PROVE  \E u : u = Rest(x)' /\ First(u) /\ \A i \in 1..Len(u) : Sound(x, u[i])'
  BY <1>1 DEF QueueInv, First, Sound
<1>2. Rest(x) \in Seq(Functors) /\ Rest(l) \in Seq(Functors)
  BY <1>1, RestType
<1>3. PICK r \in Seq(Functors) : r = Rest(x)
  BY <1>2
<1>4. First(r) /\ \A i \in 1..Len(r) : Sound(x, r[i])
  BY <1>3 DEF QueueInv
<1>5. \A i \in 1..Len(r) : r[i].c \in Conn /\ conn[r[i].c].at = "accepted"
  BY <1>4 DEF Sound, Functors
<1>f. PICK f \in Functors : f = Functor(l)
  BY <1>1
<1>6. PICK h \in Seq(Functors) :
         /\ h = IF x = m THEN g ELSE <<>>
         /\ \A i \in 1..Len(h) : Sound(x, h[i])' /\ h[i].do # "connectEstablished"
  <2>1. <<>> \in Seq(Functors) /\ 1..Len(<<>>) = {}
    BY EmptySeq
  <2> QED BY <2>1
<1>7. CASE x = l
  <2>1. r # <<>> /\ Head(r) = f /\ Rest(x)' = Tail(r) \o h
    BY <1>1, <1>3, <1>6, <1>7, <1>f
  <2>2. /\ Tail(r) \in Seq(Functors)
        /\ \A j \in 1..Len(Tail(r)) : Tail(r)[j] = r[j + 1] /\ j + 1 \in 1..Len(r)
    BY <1>4, <2>1, FirstTail
  <2>3. PICK s \in Seq(Functors) : s = Tail(r)
    BY <2>2
  <2>4. \A i \in 1..Len(s) : s[i].c # f.c => Steady(conn[s[i].c], conn'[s[i].c])
    BY <1>5, <2>2, <2>3, <1>f
  <2>a. /\ r # <<>> /\ s = Tail(r)
        /\ \A i \in 1..Len(s) : s[i].c # Head(r).c => Steady(conn[s[i].c], conn'[s[i].c])
        /\ \/ Steady(conn[Head(r).c], conn'[Head(r).c])
           \/ /\ Head(r).do = "connectEstablished"
              /\ Advances(conn[Head(r).c], conn'[Head(r).c])
    BY <1>f, <2>1, <2>3, <2>4
  <2>b. \A i \in 1..Len(h) :
           /\ Sound(x, h[i])'
           /\ h[i].do = "connectEstablished" =>
                 Len(h) = 1 /\ \A j \in 1..Len(s) : s[j].c # h[i].c
    BY <1>6
  <2>5. First(s \o h) /\ \A i \in 1..Len(s \o h) : Sound(x, (s \o h)[i])'
    BY <1>4, <2>a, <2>b, QueueOf
  <2> QED BY <2>1, <2>3, <2>5 DEF Sound
<1>8. CASE x # l
  <2>1. Rest(x)' = r \o h
    BY <1>1, <1>3, <1>6, <1>8
  <2>2. r = Rest(x) /\ \A i \in 1..Len(r) : Sound(x, r[i])'
    <3> SUFFICES ASSUME NEW i \in 1..Len(r) PROVE Sound(x, r[i])'
      BY <1>3
    <3>1. Sound(x, r[i]) /\ r[i].c \in Conn
      BY <1>4, <1>5
    <3>2. CASE Steady(conn[r[i].c], conn'[r[i].c])
      BY <3>1, <3>2, SoundKeeps
    <3>3. CASE ~Steady(conn[r[i].c], conn'[r[i].c])
      <4>1. r[i].c = f.c /\ f.do = "connectEstablished" /\ Advances(conn[f.c], conn'[f.c])
        BY <3>1, <3>3, <1>f
      <4>2. conn[f.c].loop = l
        <5>1. Rest(l)[1] = f /\ 1 \in 1..Len(Rest(l))
          BY <1>1, <1>2, <1>f, EmptySeq, LenProperties
        <5> QED BY <5>1, <4>1 DEF QueueInv, Sound
      <4>3. r[i].do # "connectEstablished"
        BY <3>1, <4>1, <4>2, <1>8 DEF Sound
      <4> QED BY <3>1, <4>1, <4>3 DEF Sound, Advances
    <3> QED BY <3>2, <3>3
  <2>3. First(r \o h)
    BY <1>4, <1>6, FirstAppend
  <2>4. \A i \in 1..Len(r \o h) : Sound(x, (r \o h)[i])'
    BY <1>6, <2>2, SoundAppend
  <2> QED BY <2>1, <2>3, <2>4 DEF Sound
<1> QED BY <1>7, <1>8

\* A step that queues nothing.
LEMMA QueueStays ==
    ASSUME QueueInv, QueueTypes',
           \A l \in Loop : Rest(l)' = Rest(l) \/ Rest(l)' = <<>>,
           \A c \in Conn : Steady(conn[c], conn'[c])
    PROVE  QueueInv'
<1> SUFFICES ASSUME NEW l \in Loop
             PROVE  \E u : u = Rest(l)' /\ First(u) /\ \A i \in 1..Len(u) : Sound(l, u[i])'
  BY DEF QueueInv, First, Sound
<1>1. CASE Rest(l)' = <<>>
  <2>1. 1..Len(<<>>) = {}
    OBVIOUS
  <2> QED BY <1>1, <2>1 DEF First
<1>2. CASE Rest(l)' = Rest(l)
  <2>1. PICK r : r = Rest(l)
    OBVIOUS
  <2>2. First(r) /\ \A i \in 1..Len(r) : Sound(l, r[i])
    BY <2>1 DEF QueueInv
  <2>3. \A i \in 1..Len(r) : r[i].c \in Conn
    BY <2>2 DEF Sound, Functors
  <2>4. \A i \in 1..Len(r) : Sound(l, r[i])'
    BY <2>2, <2>3, SoundKeeps
  <2> QED BY <1>2, <2>1, <2>2, <2>4 DEF Sound
<1> QED BY <1>1, <1>2

\* A connection that is in the epoll set, or that anyone was told of, was accepted.
LEMMA AcceptedFirst ==
    ASSUME NEW k, KInv(k), k.epoll # NotIn \/ k.state # "kConnecting" \/ k.downs = 1
    PROVE  k.at = "accepted"
BY DEF KInv, Told, Untouched

\* A step that accepts nothing keeps what is known of the connections, if only
\* one that was reported down, or all when the server goes, leave connections_.
LEMMA ConnsKeep ==
    ASSUME ConnsInv, DOMAIN conn' = Conn,
           \A c \in Conn :
              /\ KInv(conn'[c])
              /\ conn[c].at = "accepted" => Advances(conn[c], conn'[c])
              /\ conn'[c].at = "accepted" => conn[c].at = "accepted"
              /\ c \in connections /\ c \notin connections' =>
                    conn'[c].downs = 1 \/ Leaving'
              /\ c \in held' /\ c \notin held => conn'[c].state # "kConnecting",
           connections' \subseteq connections, held' \subseteq Conn,
           UNCHANGED next_, Leaving => Leaving'
    PROVE  ConnsInv'
<1>1. \A c \in connections' : conn'[c].at = "accepted"
  BY DEF ConnsInv, Advances
<1>2. ASSUME NEW c \in Conn, conn'[c].at = "accepted", c \notin connections'
      PROVE  conn'[c].downs = 1 \/ Leaving'
  <2>1. CASE c \in connections
    BY <1>2, <2>1
  <2>2. CASE c \notin connections
    BY <1>2, <2>2 DEF ConnsInv, Advances
  <2> QED BY <2>1, <2>2
<1>3. ASSUME NEW c \in held' PROVE conn'[c].state # "kConnecting"
  <2>1. CASE c \in held
    <3>1. c \in Conn /\ KInv(conn[c]) /\ conn[c].state # "kConnecting"
      BY <2>1 DEF ConnsInv
    <3>2. conn[c].at = "accepted"
      BY <3>1, AcceptedFirst
    <3> QED BY <3>1, <3>2 DEF Advances
  <2>2. CASE c \notin held
    BY <1>3, <2>2
  <2> QED BY <2>1, <2>2
<1>4. connections' \subseteq Conn /\ next_' \in Nat /\ (IoLoops # <<>> => next_' < Len(IoLoops))
  BY DEF ConnsInv
<1>5. \A c \in Conn : KInv(conn'[c])
  OBVIOUS
<1> QED BY <1>1, <1>2, <1>3, <1>4, <1>5 DEF ConnsInv

\* What the worker read stays true enough for what it does next.
LEMMA WorkerKeeps ==
    ASSUME ConnsInv, WorkerInv, UNCHANGED worker,
           \A c \in Conn : conn[c].at = "accepted" => Advances(conn[c], conn'[c])
    PROVE  WorkerInv'
<1>1. CASE worker \in {Idle, Gone}
  BY <1>1 DEF WorkerInv
<1>2. ASSUME NEW c \in Conn,
             worker = <<"checked", "shutdown", c>>, conn[c].state # "kConnecting"
      PROVE  WorkerInv'
  <2>1. conn[c].at = "accepted"
    BY <1>2, AcceptedFirst DEF ConnsInv
  <2>2. conn'[c].state # "kConnecting"
    BY <1>2, <2>1 DEF Advances
  <2> QED BY <1>2, <2>2 DEF WorkerInv
<1>3. ASSUME NEW c \in Conn, worker = <<"set", "shutdown", c>>,
             conn[c].state \in {"kDisconnecting", "kDisconnected"}
      PROVE  WorkerInv'
  <2>1. conn[c].at = "accepted"
    BY <1>3, AcceptedFirst DEF ConnsInv
  <2>2. conn'[c].state \in {"kDisconnecting", "kDisconnected"}
    BY <1>3, <2>1 DEF Advances
  <2> QED BY <1>3, <2>2 DEF WorkerInv
<1> QED BY <1>1, <1>2, <1>3 DEF WorkerInv

\* The channels that are still to be handled stay in the epoll set.
LEMMA ActiveKeeps ==
    ASSUME ActiveInv, DOMAIN active' = Loop,
           \A l \in Loop :
              /\ active'[l] \subseteq active[l]
              /\ pc'[l] # "handle" => active'[l] = {}
              /\ \A a \in active'[l], c \in Conn : a[1] = c =>
                    conn'[c].loop = conn[c].loop /\ conn'[c].epoll # NotIn
    PROVE  ActiveInv'
<1> SUFFICES ASSUME NEW l \in Loop, NEW a \in active'[l], NEW c \in Conn, a[1] = c
             PROVE  /\ conn'[c].loop = l /\ conn'[c].epoll # NotIn
                    /\ \A b \in active'[l] : b[1] = c => b = a
  BY DEF ActiveInv
<1>1. a \in active[l] /\ conn[c].loop = l /\ \A b \in active[l] : b[1] = c => b = a
  BY DEF ActiveInv
<1> QED BY <1>1

\* poll() returns each channel once, with its loop.
LEMMA ReadyInv ==
    ASSUME ConnsInv, NEW l \in Loop, NEW a \in Ready(l), NEW c \in Conn, a[1] = c
    PROVE  /\ conn[c].loop = l /\ conn[c].epoll # NotIn
           /\ \A b \in Ready(l) : b[1] = c => b = a
<1>1. ASSUME NEW b \in Ready(l), b[1] = c
      PROVE  b = <<c, Revents(conn[c])>> /\ conn[c].loop = l /\ Revents(conn[c]) # {}
  BY <1>1, TcpNamesAssumption DEF Ready
<1>2. Revents(conn[c]) # {} => conn[c].epoll # NotIn
  BY DEF Revents, NotIn
<1> QED BY <1>1, <1>2

\* The steps of loop(), of the threads of the pool and of ~TcpServer that call no
\* connection.
Moves ==
    /\ UNCHANGED tcpVars
    /\ \/ \E l \in Loop :
             \/ EnterLoop(l) \/ Poll(l) \/ PollTimeout(l) \/ HandleWakeupEvent(l)
             \/ BeginPending(l) \/ EndPending(l) \/ PublishLoop(l) \/ ThreadReturns(l)
       \/ DestroyServer \/ StartLoops \/ QuitThread \/ JoinThread \/ MainReturns
       \/ \E t \in Thread, l \in Loop : Wakeup(t, l)

\* They keep the queues, but for the queue of a loop that is gone.
LEMMA MovesQueues ==
    ASSUME QueueTypes, Moves
    PROVE  /\ QueueTypes'
           /\ \A x \in Loop : Rest(x)' = Rest(x) \/ (Rest(x)' = <<>> /\ pc'[x] = "gone")
           /\ \A x \in Loop : pc[x] = "gone" => pc'[x] = "gone"
<1>m. Main \in Loop
  BY DEF Loop
<1>0. SubSeq(<<>>, 0 + 1, 0) = <<>> /\ <<>> \o <<>> = <<>> /\ <<>> \in Seq(Functors)
  BY SubSeqEmpty, ConcatEmptySeq, EmptySeq
<1>e. \A x \in Loop : pc[x] = "gone" => pc'[x] = "gone"
  <2> SUFFICES ASSUME NEW x \in Loop, pc[x] = "gone" PROVE pc'[x] = "gone"
    OBVIOUS
  <2> DOMAIN pc = Loop
    BY DEF QueueTypes
  <2>1. ASSUME NEW l \in Loop,
               \/ EnterLoop(l) \/ Poll(l) \/ PollTimeout(l) \/ HandleWakeupEvent(l)
               \/ BeginPending(l) \/ EndPending(l) \/ PublishLoop(l) \/ ThreadReturns(l)
        PROVE  pc'[x] = "gone"
    BY <2>1 DEF EnterLoop, Poll, PollTimeout, PollReturns, HandleWakeupEvent,
       HandleWakeup, TakeActive, BeginPending, EndPending, PublishLoop, ThreadReturns
  <2>2. CASE DestroyServer \/ StartLoops \/ QuitThread \/ JoinThread \/ MainReturns
    BY <2>2, <1>m DEF DestroyServer, StartLoops, QuitThread, JoinThread, MainReturns
  <2>3. ASSUME NEW t \in Thread, NEW l \in Loop, Wakeup(t, l) PROVE pc'[x] = "gone"
    BY <2>3 DEF Wakeup
  <2> QED BY <2>1, <2>2, <2>3 DEF Moves
<1> SUFFICES /\ QueueTypes'
             /\ \A x \in Loop : Rest(x)' = Rest(x) \/ (Rest(x)' = <<>> /\ pc'[x] = "gone")
  BY <1>e
\* The end of the thread of a loop.
<1>1. ASSUME NEW l \in Loop, pc[l] \in {"left", "quitting"},
             pc' = [pc EXCEPT ![l] = "gone"], pending' = [pending EXCEPT ![l] = <<>>],
             UNCHANGED <<functors, ran>>
      PROVE  /\ QueueTypes'
             /\ \A x \in Loop : Rest(x)' = Rest(x) \/ (Rest(x)' = <<>> /\ pc'[x] = "gone")
  <2>1. functors[l] = <<>> /\ ran[l] = 0
    BY <1>1 DEF QueueTypes
  <2>2. Rest(l)' = <<>>
    <3>1. Rest(l)' = SubSeq(<<>>, 0 + 1, 0) \o <<>>
      BY <1>1, <2>1 DEF Rest, QueueTypes
    <3> QED BY <3>1, <1>0
  <2>3. \A x \in Loop \ {l} : Rest(x)' = Rest(x)
    BY <1>1 DEF Rest, QueueTypes
  <2>4. QueueTypes'
    BY <1>1, <1>0, <2>1 DEF QueueTypes, Place
  <2>5. pc'[l] = "gone"
    BY <1>1 DEF QueueTypes
  <2> QED BY <2>2, <2>3, <2>4, <2>5
<1>2. ASSUME UNCHANGED <<functors, ran, pending>>, QueueTypes'
      PROVE  QueueTypes' /\ \A x \in Loop : Rest(x)' = Rest(x)
  BY <1>2 DEF Rest
<1>3. ASSUME NEW l \in Loop,
             EnterLoop(l) \/ BeginPending(l) \/ EndPending(l) \/ PublishLoop(l)
      PROVE  QueueTypes' /\ \A x \in Loop : Rest(x)' = Rest(x)
  BY <1>3, RestMoves
<1>4. ASSUME NEW l \in Loop, Poll(l) \/ PollTimeout(l)
      PROVE  QueueTypes' /\ \A x \in Loop : Rest(x)' = Rest(x)
  BY <1>4, RestMoves DEF Poll, PollTimeout
<1>5. ASSUME NEW l \in Loop, HandleWakeupEvent(l)
      PROVE  QueueTypes' /\ \A x \in Loop : Rest(x)' = Rest(x)
  <2>1. UNCHANGED <<functors, ran, pending, pc>>
    BY <1>5 DEF HandleWakeupEvent, HandleWakeup
  <2> QED BY <1>2, <2>1 DEF QueueTypes
<1>6. ASSUME NEW l \in Loop, ThreadReturns(l)
      PROVE  /\ QueueTypes'
             /\ \A x \in Loop : Rest(x)' = Rest(x) \/ (Rest(x)' = <<>> /\ pc'[x] = "gone")
  BY <1>1, <1>6 DEF ThreadReturns
<1>7. CASE MainReturns
  BY <1>m, <1>1, <1>7 DEF MainReturns
<1>8. CASE DestroyServer \/ StartLoops \/ QuitThread \/ JoinThread
  <2>1. UNCHANGED <<functors, ran, pending>>
    BY <1>8 DEF DestroyServer, StartLoops, QuitThread, JoinThread
  <2>2. QueueTypes'
    BY <1>8, <2>1, <1>m DEF DestroyServer, StartLoops, QuitThread, JoinThread, QueueTypes, Place
  <2> QED BY <1>2, <2>1, <2>2
<1>9. ASSUME NEW t \in Thread, NEW l \in Loop, Wakeup(t, l)
      PROVE  QueueTypes' /\ \A x \in Loop : Rest(x)' = Rest(x)
  <2>1. UNCHANGED <<functors, ran, pending, pc>>
    BY <1>9 DEF Wakeup
  <2> QED BY <1>2, <2>1 DEF QueueTypes
<1> QED BY <1>3, <1>4, <1>5, <1>6, <1>7, <1>8, <1>9 DEF Moves

\* The moves keep the invariant: poll finds channels of the epoll set, and
\* activeChannels_ is empty before the loop leaves the handlers.
LEMMA MovesSys ==
    ASSUME Sys, Moves
    PROVE  Sys' /\ (Leaving => Leaving')
<1>u. UNCHANGED <<conn, connections, next_, held, worker>>
  BY DEF Moves, tcpVars
<1>m. Main \in Loop
  BY DEF Loop
<1>t. /\ DOMAIN pc = Loop /\ pc \in [Loop -> Place]
      /\ DOMAIN active = Loop
  BY DEF Sys, QueueInv, QueueTypes, ActiveInv
<1>s. \A k : Steady(k, k) /\ Advances(k, k)
  BY DEF Steady, Advances
<1>1. QueueInv'
  <2>1. QueueTypes' /\ \A x \in Loop : Rest(x)' = Rest(x) \/ Rest(x)' = <<>>
    BY MovesQueues DEF Sys, QueueInv
  <2>2. \A c \in Conn : Steady(conn[c], conn'[c])
    BY <1>u, <1>s
  <2> QED BY <2>1, <2>2, QueueStays DEF Sys
<1>2. Leaving => Leaving'
  <2> SUFFICES ASSUME pc[Main] \in {"left", "quitting", "joining", "gone"}
               PROVE  pc'[Main] \in {"left", "quitting", "joining", "gone"}
    BY DEF Leaving
  <2>1. ASSUME NEW l \in Loop,
               \/ EnterLoop(l) \/ Poll(l) \/ PollTimeout(l) \/ HandleWakeupEvent(l)
               \/ BeginPending(l) \/ EndPending(l) \/ PublishLoop(l) \/ ThreadReturns(l)
        PROVE  pc'[Main] \in {"left", "quitting", "joining", "gone"}
    BY <2>1, <1>m, <1>t DEF EnterLoop, Poll, PollTimeout, PollReturns, HandleWakeupEvent,
       HandleWakeup, TakeActive, BeginPending, EndPending, PublishLoop, ThreadReturns
  <2>2. CASE DestroyServer \/ StartLoops \/ QuitThread \/ JoinThread \/ MainReturns
    BY <2>2, <1>m, <1>t DEF DestroyServer, StartLoops, QuitThread, JoinThread, MainReturns
  <2>3. ASSUME NEW t \in Thread, NEW l \in Loop, Wakeup(t, l)
        PROVE  pc'[Main] \in {"left", "quitting", "joining", "gone"}
    BY <2>3 DEF Wakeup
  <2> QED BY <2>1, <2>2, <2>3 DEF Moves
<1>3. ConnsInv' /\ WorkerInv'
  BY <1>u, <1>2 DEF Sys, ConnsInv, WorkerInv, KInv
<1>4. ActiveInv'
  <2>1. ASSUME NEW l \in Loop, NEW r, PollReturns(l, r),
               r = {} \/ r = Ready(l)
        PROVE  ActiveInv'
    <3>1. /\ active' = [active EXCEPT ![l] = r] /\ pc' = [pc EXCEPT ![l] = "handle"]
          /\ DOMAIN active' = Loop
      BY <2>1, <1>t DEF PollReturns
    <3>2. ASSUME NEW x \in Loop, NEW a \in active'[x], NEW c \in Conn, a[1] = c
          PROVE  /\ conn'[c].loop = x /\ conn'[c].epoll # NotIn
                 /\ \A b \in active'[x] : b[1] = c => b = a
      <4>1. CASE x = l
        <5>1. active'[x] = Ready(l)
          BY <3>1, <3>2, <2>1, <4>1, <1>t
        <5> QED BY <5>1, <3>2, <4>1, <1>u, ReadyInv DEF Sys
      <4>2. CASE x # l
        <5>1. active'[x] = active[x]
          BY <3>1, <4>2, <1>t
        <5> QED BY <5>1, <3>2, <1>u DEF Sys, ActiveInv
      <4> QED BY <4>1, <4>2
    <3>3. \A x \in Loop : pc'[x] # "handle" => active'[x] = {}
      BY <3>1, <1>t DEF Sys, ActiveInv
    <3> QED BY <3>1, <3>2, <3>3 DEF ActiveInv
  <2>2. ASSUME DOMAIN active' = Loop,
               \A l \in Loop : /\ active'[l] \subseteq active[l]
                               /\ pc'[l] # "handle" => active'[l] = {}
        PROVE  ActiveInv'
    BY <2>2, <1>u, ActiveKeeps DEF Sys, ActiveInv
  <2>3. ASSUME NEW l \in Loop, Poll(l) \/ PollTimeout(l) PROVE ActiveInv'
    BY <2>1, <2>3 DEF Poll, PollTimeout
  <2>4. ASSUME NEW l \in Loop, HandleWakeupEvent(l) PROVE ActiveInv'
    <3>1. DOMAIN active' = Loop /\ pc' = pc
      BY <2>4, <1>t DEF HandleWakeupEvent, HandleWakeup, TakeActive
    <3>2. \A x \in Loop : active'[x] \subseteq active[x]
      BY <2>4, <1>t DEF HandleWakeupEvent, HandleWakeup, TakeActive
    <3> QED BY <3>1, <3>2, <2>2 DEF Sys, ActiveInv
  <2>5. ASSUME NEW l \in Loop,
               EnterLoop(l) \/ BeginPending(l) \/ EndPending(l) \/ PublishLoop(l) \/ ThreadReturns(l)
        PROVE  ActiveInv'
    <3>1. active' = active
      BY <2>5 DEF EnterLoop, BeginPending, EndPending, PublishLoop, ThreadReturns
    <3>2. \A x \in Loop : pc'[x] # "handle" => active[x] = {}
      BY <2>5, <1>t DEF Sys, ActiveInv, EnterLoop, BeginPending, EndPending, PublishLoop,
                        ThreadReturns
    <3> QED BY <3>1, <3>2, <1>t, <2>2
  <2>6. CASE DestroyServer \/ StartLoops \/ QuitThread \/ JoinThread \/ MainReturns
    <3>1. active' = active
      BY <2>6 DEF DestroyServer, StartLoops, QuitThread, JoinThread, MainReturns
    <3>2. \A x \in Loop : pc'[x] # "handle" => active[x] = {}
      BY <2>6, <1>t, <1>m DEF Sys, ActiveInv, DestroyServer, StartLoops, QuitThread,
                              JoinThread, MainReturns
    <3> QED BY <3>1, <3>2, <1>t, <2>2
  <2>7. ASSUME NEW t \in Thread, NEW l \in Loop, Wakeup(t, l) PROVE ActiveInv'
    BY <2>7, <2>2, <1>t DEF Wakeup, Sys, ActiveInv
  <2> QED BY <2>3, <2>4, <2>5, <2>6, <2>7 DEF Moves
<1> QED BY <1>1, <1>2, <1>3, <1>4 DEF Sys

\* Does a shutdown() that was asked for wait for shutdownInLoop?
Waits(k) ==
    k.state = "kDisconnecting" /\ ~k.fin /\ k.downs = 0 /\ ~IsWriting(k)

\* A connection after handleEvent, as HandleEvent computes it.
Handled(k, r, stop, hit) ==
    LET e  == HandleError(k, r)
        k1 == CASE Closes(k, r) -> HandleClose(e)
                [] "in" \in r /\ k.inq -> Answered(Got(e, hit), stop)
                [] OTHER -> e
    IN  IF "out" \in r THEN HandleWrite(k1) ELSE k1

\* handleEvent of a channel in the epoll set, whatever it finds.
LEMMA HandledInv ==
    ASSUME NEW k, KInv(k), k.epoll # NotIn, NEW r,
           NEW stop \in BOOLEAN, NEW hit \in BOOLEAN
    PROVE  LET j == Handled(k, r, stop, hit)
           IN  /\ KInv(j) /\ Advances(k, j) /\ k.state # "kConnecting"
               /\ Closes(k, r) => j.downs = 1
               /\ ~Closes(k, r) => j.epoll # NotIn /\ j.downs = k.downs
               /\ Waits(j) => Waits(k)
<1> DEFINE j == Handled(k, r, stop, hit)
           e == HandleError(k, r)
           k1 == CASE Closes(k, r) -> HandleClose(e)
                   [] "in" \in r /\ k.inq -> Answered(Got(e, hit), stop)
                   [] OTHER -> e
<1> SUFFICES /\ KInv(j) /\ Advances(k, j) /\ k.state # "kConnecting"
             /\ Closes(k, r) => j.downs = 1
             /\ ~Closes(k, r) => j.epoll # NotIn /\ j.downs = k.downs
             /\ Waits(j) => Waits(k)
  OBVIOUS
<1>0. k.state # "kConnecting"
  BY DEF KInv, Told, Untouched
<1>j. j = IF "out" \in r THEN HandleWrite(k1) ELSE k1
  BY DEF Handled
<1>e. KInv(e) /\ e.epoll # NotIn /\ Advances(k, e) /\ SameProgram(k, e)
  BY HandleErrorInv DEF SameProgram
<1> HIDE DEF e
<1>1. /\ KInv(k1) /\ Advances(k, k1)
      /\ Closes(k, r) => k1.downs = 1 /\ k1.events = {}
      /\ ~Closes(k, r) => k1.epoll # NotIn /\ k1.downs = k.downs
      /\ Waits(k1) => Waits(k)
  <2>1. CASE Closes(k, r)
    <3>1. k1 = HandleClose(e)
      <4>1. ~(Closes(k, r) /\ "in" \in r /\ k.inq)
        BY DEF Closes
      <4> QED BY <2>1, <4>1
    <3> HIDE DEF k1
    <3>2. /\ KInv(HandleClose(e)) /\ HandleClose(e).downs = 1
          /\ Advances(e, HandleClose(e)) /\ HandleClose(e).events = {}
      BY <1>e, HandleCloseInv
    <3>3. Advances(k, HandleClose(e))
      BY <1>e, <3>2 DEF Advances
    <3> QED BY <2>1, <3>1, <3>2, <3>3 DEF Waits
  <2>2. CASE ~Closes(k, r) /\ "in" \in r /\ k.inq
    <3>1. k1 = Answered(Got(e, hit), stop)
      BY <2>2
    <3> DEFINE i == Answered(Got(e, hit), stop)
    <3>2. /\ KInv(i) /\ Advances(e, i) /\ i.epoll # NotIn
          /\ i.downs = e.downs
          /\ e.state # "kConnected" => i.state = e.state /\ i.events = e.events /\ i.fin = e.fin
          /\ e.state = "kConnected" => i.state = "kConnected" \/ i.fin \/ IsWriting(i)
      BY <1>e, AnsweredInv
    <3> HIDE DEF k1, i
    <3>3. Waits(i) => Waits(e)
      <4>1. e.fin \in BOOLEAN /\ i.fin \in BOOLEAN
        BY <1>e, <3>2 DEF KInv, Record
      <4> QED BY <3>2, <4>1 DEF Waits, IsWriting
    <3>4. (Waits(e) => Waits(k)) /\ Advances(k, i) /\ i.downs = k.downs
      BY <1>e, <3>2 DEF Waits, IsWriting, SameProgram, Advances
    <3> QED BY <2>2, <3>1, <3>2, <3>3, <3>4 DEF i
  <2>3. CASE ~Closes(k, r) /\ ~("in" \in r /\ k.inq)
    <3>1. k1 = e
      BY <2>3
    <3> HIDE DEF k1
    <3>2. (Waits(e) => Waits(k)) /\ e.downs = k.downs
      BY <1>e DEF Waits, IsWriting, SameProgram
    <3> QED BY <1>e, <2>3, <3>1, <3>2
  <2> QED BY <2>1, <2>2, <2>3
<1> HIDE DEF k1, j
<1>2. CASE "out" \notin r
  BY <1>0, <1>1, <1>2, <1>j
<1>3. CASE "out" \in r
  <2> DEFINE w == HandleWrite(k1)
  <2>1. k1.epoll # NotIn \/ ~IsWriting(k1)
    BY <1>1 DEF IsWriting
  <2>2. /\ KInv(w) /\ Advances(k1, w) /\ w.state = k1.state /\ w.downs = k1.downs
        /\ (w.epoll = NotIn <=> k1.epoll = NotIn)
        /\ k1.fin => w.fin
        /\ IsWriting(k1) => IsWriting(w) \/ k1.state # "kDisconnecting" \/ w.fin
    BY <1>1, <2>1, HandleWriteInv
  <2> HIDE DEF w
  <2>3. Waits(w) => Waits(k1)
    BY <2>2 DEF Waits
  <2>4. Advances(k, w)
    BY <1>1, <2>2 DEF Advances
  <2> QED BY <1>0, <1>1, <1>3, <1>j, <2>2, <2>3, <2>4 DEF w
<1> QED BY <1>2, <1>3

\* A step that changes one connection.
LEMMA OneConn ==
    ASSUME ConnsInv, NEW c \in Conn, NEW k2, conn' = [conn EXCEPT ![c] = k2], KInv(k2),
           conn[c].at = "accepted" => Advances(conn[c], k2)
    PROVE  /\ DOMAIN conn' = Conn /\ conn'[c] = k2
           /\ \A d \in Conn : d # c => conn'[d] = conn[d]
           /\ \A d \in Conn : KInv(conn'[d])
           /\ \A d \in Conn : conn[d].at = "accepted" => Advances(conn[d], conn'[d])
<1>1. DOMAIN conn' = Conn /\ conn'[c] = k2 /\ \A d \in Conn : d # c => conn'[d] = conn[d]
  BY DEF ConnsInv
<1>2. \A d \in Conn : KInv(conn'[d])
  BY <1>1 DEF ConnsInv
<1>3. \A d \in Conn : conn[d].at = "accepted" => Advances(conn[d], conn'[d])
  <2> SUFFICES ASSUME NEW d \in Conn, conn[d].at = "accepted"
               PROVE  Advances(conn[d], conn'[d])
    OBVIOUS
  <2>1. CASE d = c
    BY <1>1, <2>1
  <2>2. CASE d # c
    <3>1. conn'[d] = conn[d]
      BY <1>1, <2>2
    <3> QED BY <3>1 DEF Advances
  <2> QED BY <2>1, <2>2
<1> QED BY <1>1, <1>2, <1>3

\* removeConnection, called for a connection that was reported down: what is
\* queued may run.
LEMMA RemoveQueue ==
    ASSUME Sys, NEW l \in Loop, NEW c \in Conn, RemoveConnection(l, c),
           conn[c].loop = l, UNCHANGED <<pc, functors, ran>>,
           \A d \in Conn : Steady(conn[d], conn'[d]),
           conn'[c].at = "accepted" /\ conn'[c].downs = 1 /\ conn'[c].loop = conn[c].loop
    PROVE  QueueInv' /\ connections' \in {connections, connections \ {c}}
<1>m. Main \in Loop /\ c \in Conn
  BY DEF Loop
<1>1. CASE l = Main
  <2> DEFINE g == <<Bound("connectDestroyed", c)>>
  <2>1. QueueInLoop(l, l, g) /\ connections' = connections \ {c}
    BY <1>1 DEF RemoveConnection, RemoveConnectionInLoop
  <2>2. Bound("connectDestroyed", c) \in Functors
    BY DEF Bound, Functors
  <2>3. /\ g \in Seq(Functors) /\ Len(g) = 1 /\ g[1] = Bound("connectDestroyed", c)
        /\ 1..1 = {1}
    BY <2>2
  <2>4. Sound(l, Bound("connectDestroyed", c))' /\ Bound("connectDestroyed", c).do # "connectEstablished"
    BY <2>2 DEF Sound, Bound
  <2>5. \A i \in 1..Len(g) : Sound(l, g[i])' /\ g[i].do # "connectEstablished"
    BY <2>3, <2>4 DEF Sound
  <2> HIDE DEF g
  <2> QED BY <2>1, <2>3, <2>5, QueueGrows DEF Sys
<1>2. CASE l # Main
  <2> DEFINE g == <<Bound("removeConnectionInLoop", c)>>
  <2>1. QueueInLoop(l, Main, g) /\ connections' = connections
    BY <1>2 DEF RemoveConnection
  <2>2. Bound("removeConnectionInLoop", c) \in Functors
    BY DEF Bound, Functors
  <2>3. /\ g \in Seq(Functors) /\ Len(g) = 1 /\ g[1] = Bound("removeConnectionInLoop", c)
        /\ 1..1 = {1}
    BY <2>2
  <2>4. Sound(Main, Bound("removeConnectionInLoop", c))' /\ Bound("removeConnectionInLoop", c).do # "connectEstablished"
    BY <2>2 DEF Sound, Bound
  <2>5. \A i \in 1..Len(g) : Sound(Main, g[i])' /\ g[i].do # "connectEstablished"
    BY <2>3, <2>4 DEF Sound
  <2> HIDE DEF g
  <2> QED BY <1>m, <2>1, <2>3, <2>5, QueueGrows DEF Sys
<1> QED BY <1>1, <1>2

\* send() and handleWrite queue writeCompleteCallback_, or nothing.
LEMMA SendQueuesType ==
    ASSUME NEW c, NEW k
    PROVE  /\ SendQueues(c, k) \in Seq({Bound("writeComplete", c)})
           /\ <<Bound("writeComplete", c)>> \in Seq({Bound("writeComplete", c)})
           /\ <<>> \in Seq({Bound("writeComplete", c)})
<1>1. PICK w : w = Bound("writeComplete", c)
  OBVIOUS
<1>2. <<w>> \in Seq({w}) /\ <<>> \in Seq({w})
  OBVIOUS
<1> QED BY <1>1, <1>2 DEF SendQueues, WriteComplete

\* writeCompleteCallback_ may run in any loop.
LEMMA WritesSound ==
    ASSUME NEW c \in Conn, NEW g \in Seq({Bound("writeComplete", c)}), NEW l,
           conn'[c].at = "accepted"
    PROVE  /\ g \in Seq(Functors)
           /\ \A i \in 1..Len(g) :
                 Sound(l, g[i])' /\ g[i].do # "connectEstablished" /\ g[i] = Bound("writeComplete", c)
<1>1. Bound("writeComplete", c) \in Functors
  BY DEF Bound, Functors
<1>2. \A i \in 1..Len(g) : g[i] = Bound("writeComplete", c)
  BY ElementOfSeq
<1>3. g \in Seq(Functors)
  BY <1>1, SeqMonotonic
<1>4. Sound(l, Bound("writeComplete", c))' /\ Bound("writeComplete", c).do # "connectEstablished"
  BY <1>1 DEF Sound, Bound
<1> QED BY <1>2, <1>3, <1>4 DEF Sound

\* What a handler does: to the connection, to connections_ and to the queues.
LEMMA HandleEventIs ==
    ASSUME NEW l \in Loop, HandleEvent(l)
    PROVE  \E a \in active[l], c \in Conn, stop \in BOOLEAN, hit \in BOOLEAN :
         /\ c = a[1] /\ TakeActive(l, a)
         /\ conn' = [conn EXCEPT ![c] = Handled(conn[c], a[2], stop, hit)]
         /\ \/ Closes(conn[c], a[2]) /\ RemoveConnection(l, c)
            \/ /\ ~Closes(conn[c], a[2]) /\ UNCHANGED connections
               /\ \E g \in Seq({Bound("writeComplete", c)}) : QueueInLoop(l, l, g)
         /\ UNCHANGED <<pc, quit_, eventfd, functors, ran, join, next_, held, worker, inputs>>
<1>0. PICK a \in active[l] : \E c \in {d \in Conn : d = a[1]} : \E stop, hit \in BOOLEAN :
      LET k     == conn[c]
          r     == a[2]
          e     == HandleError(k, r)
          reads == "in" \in r /\ k.inq
          k1    == CASE Closes(k, r) -> HandleClose(e)
                     [] reads -> Answered(Got(e, hit), stop)
                     [] OTHER -> e
          k2    == IF "out" \in r THEN HandleWrite(k1) ELSE k1
          queued == (IF reads THEN SendQueues(c, Got(e, hit)) ELSE <<>>)
                    \o (IF "out" \in r /\ Drains(k1)
                        THEN <<Bound("writeComplete", c)>> ELSE <<>>)
      IN  /\ TakeActive(l, a)
          /\ stop \/ hit => reads
          /\ conn' = [conn EXCEPT ![c] = k2]
          /\ IF Closes(k, r)
             THEN RemoveConnection(l, c)
             ELSE QueueInLoop(l, l, queued) /\ UNCHANGED connections
          /\ UNCHANGED <<pc, quit_, eventfd, functors, ran, join,
                         next_, held, worker, inputs>>
  BY DEF HandleEvent
<1>1. PICK c \in {d \in Conn : d = a[1]}, stop \in BOOLEAN, hit \in BOOLEAN :
      LET k     == conn[c]
          r     == a[2]
          e     == HandleError(k, r)
          reads == "in" \in r /\ k.inq
          k1    == CASE Closes(k, r) -> HandleClose(e)
                     [] reads -> Answered(Got(e, hit), stop)
                     [] OTHER -> e
          k2    == IF "out" \in r THEN HandleWrite(k1) ELSE k1
          queued == (IF reads THEN SendQueues(c, Got(e, hit)) ELSE <<>>)
                    \o (IF "out" \in r /\ Drains(k1)
                        THEN <<Bound("writeComplete", c)>> ELSE <<>>)
      IN  /\ TakeActive(l, a)
          /\ stop \/ hit => reads
          /\ conn' = [conn EXCEPT ![c] = k2]
          /\ IF Closes(k, r)
             THEN RemoveConnection(l, c)
             ELSE QueueInLoop(l, l, queued) /\ UNCHANGED connections
          /\ UNCHANGED <<pc, quit_, eventfd, functors, ran, join,
                         next_, held, worker, inputs>>
  BY <1>0
<1> DEFINE e == HandleError(conn[c], a[2])
           g1 == IF "in" \in a[2] /\ conn[c].inq THEN SendQueues(c, Got(e, hit)) ELSE <<>>
           k1 == CASE Closes(conn[c], a[2]) -> HandleClose(e)
                   [] "in" \in a[2] /\ conn[c].inq -> Answered(Got(e, hit), stop)
                   [] OTHER -> e
           g2 == IF "out" \in a[2] /\ Drains(k1) THEN <<Bound("writeComplete", c)>> ELSE <<>>
<1>2. g1 \in Seq({Bound("writeComplete", c)}) /\ g2 \in Seq({Bound("writeComplete", c)})
  BY SendQueuesType
<1>3. g1 \o g2 \in Seq({Bound("writeComplete", c)})
  <2> HIDE DEF g1, g2
  <2> QED BY <1>2, ConcatProperties
<1>4. conn' = [conn EXCEPT ![c] = Handled(conn[c], a[2], stop, hit)]
  BY <1>1 DEF Handled
<1>5. ~Closes(conn[c], a[2]) => QueueInLoop(l, l, g1 \o g2)
  BY <1>1
<1>6. \/ Closes(conn[c], a[2]) /\ RemoveConnection(l, c)
      \/ /\ ~Closes(conn[c], a[2]) /\ UNCHANGED connections
         /\ \E g \in Seq({Bound("writeComplete", c)}) : QueueInLoop(l, l, g)
  <2> HIDE DEF g1, g2
  <2> QED BY <1>1, <1>3, <1>5
<1> HIDE DEF g1, g2, k1, e
<1> QED BY <1>1, <1>4, <1>6

\* The handlers of a connection keep the invariant.
LEMMA HandleEventSys ==
    ASSUME Sys, NEW l \in Loop, HandleEvent(l)
    PROVE  Sys'
<1>1. PICK a \in active[l], c \in Conn, stop \in BOOLEAN, hit \in BOOLEAN :
         /\ c = a[1] /\ TakeActive(l, a)
         /\ conn' = [conn EXCEPT ![c] = Handled(conn[c], a[2], stop, hit)]
         /\ \/ Closes(conn[c], a[2]) /\ RemoveConnection(l, c)
            \/ /\ ~Closes(conn[c], a[2]) /\ UNCHANGED connections
               /\ \E g \in Seq({Bound("writeComplete", c)}) : QueueInLoop(l, l, g)
         /\ UNCHANGED <<pc, quit_, eventfd, functors, ran, join, next_, held, worker, inputs>>
  BY HandleEventIs
<1> DEFINE k == conn[c]
           j == Handled(conn[c], a[2], stop, hit)
<1>2. k.loop = l /\ k.epoll # NotIn /\ \A b \in active[l] : b[1] = c => b = a
  BY <1>1 DEF Sys, ActiveInv
<1>3. KInv(k)
  BY DEF Sys, ConnsInv
<1>4. /\ KInv(j) /\ Advances(k, j) /\ k.state # "kConnecting"
      /\ Closes(k, a[2]) => j.downs = 1
      /\ ~Closes(k, a[2]) => j.epoll # NotIn /\ j.downs = k.downs
  BY <1>2, <1>3, HandledInv
<1>5. k.at = "accepted" /\ j.at = "accepted" /\ j.loop = l
  <2>1. k.at = "accepted"
    BY <1>3, <1>4, AcceptedFirst
  <2> QED BY <2>1, <1>2, <1>4 DEF Advances
<1> HIDE DEF k, j
<1>6. /\ DOMAIN conn' = Conn /\ conn'[c] = j
      /\ \A d \in Conn : d # c => conn'[d] = conn[d]
      /\ \A d \in Conn : KInv(conn'[d])
      /\ \A d \in Conn : conn[d].at = "accepted" => Advances(conn[d], conn'[d])
  BY <1>1, <1>4, OneConn DEF Sys, k, j
<1>7. \A d \in Conn : Steady(conn[d], conn'[d])
  <2> SUFFICES ASSUME NEW d \in Conn, conn[d].at = "accepted",
                      conn[d].state = "kConnecting"
               PROVE  conn'[d].state = "kConnecting"
    BY <1>6 DEF Steady
  <2>1. d # c
    BY <1>4 DEF k
  <2> QED BY <2>1, <1>6
<1>10. /\ QueueInv'
       /\ connections' \subseteq connections
       /\ \A d \in connections \ connections' : d = c /\ Closes(conn[c], a[2])
  <2>1. CASE Closes(conn[c], a[2])
    <3>1. connections' \in {connections, connections \ {c}} /\ QueueInv'
      BY <1>1, <1>2, <1>4, <1>5, <1>6, <1>7, <2>1, RemoveQueue DEF k
    <3> QED BY <2>1, <3>1
  <2>2. CASE ~Closes(conn[c], a[2])
    <3>1. PICK g \in Seq({Bound("writeComplete", c)}) : QueueInLoop(l, l, g)
      BY <1>1, <2>2
    <3>2. /\ g \in Seq(Functors)
          /\ \A i \in 1..Len(g) : Sound(l, g[i])' /\ g[i].do # "connectEstablished"
      BY <1>5, <1>6, WritesSound
    <3>3. QueueInv'
      BY <1>1, <1>7, <3>1, <3>2, QueueGrows DEF Sys
    <3> QED BY <1>1, <2>2, <3>3
  <2> QED BY <2>1, <2>2
<1>11. ConnsInv'
  <2>1. Leaving => Leaving'
    BY <1>1 DEF Leaving
  <2>2. \A d \in Conn :
           /\ conn'[d].at = "accepted" => conn[d].at = "accepted"
           /\ d \in connections /\ d \notin connections' => conn'[d].downs = 1
    BY <1>4, <1>5, <1>6, <1>10 DEF k
  <2>3. connections' \subseteq connections /\ held' = held /\ next_' = next_ /\ held \subseteq Conn
    BY <1>1, <1>10 DEF Sys, ConnsInv
  <2> QED BY <1>6, <2>1, <2>2, <2>3, ConnsKeep DEF Sys
<1>12. WorkerInv'
  BY <1>1, <1>6, WorkerKeeps DEF Sys
<1>13. ActiveInv'
  <2>1. /\ DOMAIN active' = Loop /\ pc' = pc /\ pc[l] = "handle"
        /\ active'[l] = active[l] \ {a}
        /\ \A x \in Loop : x # l => active'[x] = active[x]
    BY <1>1 DEF TakeActive, Sys, ActiveInv
  <2>2. ASSUME NEW x \in Loop, NEW b \in active'[x], NEW d \in Conn, b[1] = d
        PROVE  conn'[d].loop = conn[d].loop /\ conn'[d].epoll # NotIn
    <3>1. b \in active[x] /\ conn[d].loop = x /\ conn[d].epoll # NotIn
      BY <2>1, <2>2 DEF Sys, ActiveInv
    <3>2. d # c
      BY <2>1, <2>2, <3>1, <1>2 DEF k
    <3> QED BY <3>1, <3>2, <1>6
  <2> QED BY <2>1, <2>2, ActiveKeeps DEF Sys, ActiveInv
<1> QED BY <1>10, <1>11, <1>12, <1>13 DEF Sys

\* The functor that is run is one that may.
LEMMA HeadSound ==
    ASSUME Sys, NEW l \in Loop, TakeFunctor(l)
    PROVE  /\ Functor(l) \in Functors /\ Functor(l).c \in Conn /\ Sound(l, Functor(l))
           /\ KInv(conn[Functor(l).c]) /\ pc[l] = "run" /\ active[l] = {}
           /\ Rest(l) # <<>> /\ Head(Rest(l)) = Functor(l)
<1>0. QueueTypes
  BY DEF Sys, QueueInv
<1>1. /\ functors[l] \in Seq(Functors) /\ pending[l] \in Seq(Functors)
      /\ ran[l] \in Nat /\ ran[l] < Len(functors[l]) /\ Len(functors[l]) \in Nat
  BY <1>0, LenProperties DEF QueueTypes, TakeFunctor
<1> DEFINE s == SubSeq(functors[l], ran[l] + 1, Len(functors[l]))
<1>2. s \in Seq(Functors) /\ s # <<>> /\ Head(s) = functors[l][ran[l] + 1]
  <2>1. ran[l] <= Len(functors[l])
    BY <1>1
  <2> QED BY <1>1, <2>1, DropType
<1>3. Rest(l) # <<>> /\ Head(Rest(l)) = Functor(l)
  <2>1. Rest(l) = s \o pending[l]
    BY DEF Rest
  <2> HIDE DEF s
  <2> QED BY <2>1, <1>1, <1>2, TailConcat DEF Functor
<1>4. Rest(l)[1] = Functor(l) /\ 1 \in 1..Len(Rest(l))
  <2>1. Rest(l) \in Seq(Functors)
    BY <1>0, RestType
  <2> QED BY <2>1, <1>3, EmptySeq, LenProperties
<1>5. Sound(l, Functor(l))
  BY <1>4 DEF Sys, QueueInv
<1>6. Functor(l) \in Functors /\ Functor(l).c \in Conn
  BY <1>5 DEF Sound, Functors
<1>7. pc[l] = "run" /\ active[l] = {}
  BY DEF TakeFunctor, Sys, ActiveInv
<1> QED BY <1>3, <1>5, <1>6, <1>7 DEF Sys, ConnsInv

\* A functor of loop l, or ~TcpServer, disturbs no channel that is to be handled.
LEMMA ActiveOthers ==
    ASSUME Sys, NEW l \in Loop, active[l] = {}, UNCHANGED <<pc, active>>,
           NEW c, conn[c].loop = l,
           \A d \in Conn : d # c => conn'[d] = conn[d]
    PROVE  ActiveInv'
<1>1. ASSUME NEW x \in Loop, NEW b \in active'[x], NEW d \in Conn, b[1] = d
      PROVE  conn'[d].loop = conn[d].loop /\ conn'[d].epoll # NotIn
  <2>1. b \in active[x] /\ conn[d].loop = x /\ conn[d].epoll # NotIn
    BY <1>1 DEF Sys, ActiveInv
  <2>2. d # c
    BY <2>1
  <2> QED BY <2>1, <2>2
<1>2. DOMAIN active' = Loop /\ \A x \in Loop : pc'[x] # "handle" => active'[x] = {}
  BY DEF Sys, ActiveInv
<1> QED BY <1>1, <1>2, ActiveKeeps DEF Sys

\* connectEstablished, with the greeting of the application.
LEMMA ConnectEstablishedInv ==
    ASSUME NEW k, KInv(k), k.state = "kConnecting", k.at = "accepted"
    PROVE  LET j == ConnectEstablished(k)
           IN  KInv(j) /\ Advances(k, j) /\ j.state = "kConnected" /\ j.downs = 0
<1> DEFINE e == Established(k)
<1>1. KInv(e) /\ e.state = "kConnected" /\ Advances(k, e) /\ e.downs = 0
  BY EstablishedInv
<1>2. ConnectEstablished(k) = Send(e)
  BY DEF ConnectEstablished
<1> HIDE DEF e
<1>3. KInv(Send(e)) /\ SameButData(e, Send(e))
  BY <1>1, SendInv
<1> QED BY <1>1, <1>2, <1>3 DEF SameButData, Advances

\* connectEstablished keeps it.
LEMMA RunEstablishedSys ==
    ASSUME Sys, NEW l \in Loop, RunConnectEstablished(l)
    PROVE  Sys'
<1>0. TakeFunctor(l) /\ Functor(l).do = "connectEstablished"
  BY DEF RunConnectEstablished
<1>1. PICK c \in Conn : c = Functor(l).c
  BY <1>0, HeadSound
<1> DEFINE k == conn[c]
           j == ConnectEstablished(conn[c])
<1>2. /\ conn' = [conn EXCEPT ![c] = j] /\ held' = held \cup {c}
      /\ QueueInLoop(l, l, SendQueues(c, Established(conn[c])))
      /\ UNCHANGED <<pc, quit_, eventfd, functors, active, join,
                     connections, next_, worker, inputs>>
  BY <1>1 DEF RunConnectEstablished
<1>3. /\ k.at = "accepted" /\ k.loop = l /\ k.state = "kConnecting" /\ KInv(k)
      /\ active[l] = {}
  BY <1>0, <1>1, HeadSound DEF Sound
<1>4. KInv(j) /\ Advances(k, j) /\ j.state = "kConnected"
  BY <1>3, ConnectEstablishedInv
<1> HIDE DEF j
<1>6. /\ DOMAIN conn' = Conn /\ conn'[c] = j
      /\ \A d \in Conn : d # c => conn'[d] = conn[d]
      /\ \A d \in Conn : KInv(conn'[d])
      /\ \A d \in Conn : conn[d].at = "accepted" => Advances(conn[d], conn'[d])
  BY <1>2, <1>4, OneConn DEF Sys
<1>7. QueueInv'
  <2>1. PICK g \in Seq({Bound("writeComplete", c)}) : g = SendQueues(c, Established(conn[c]))
    BY SendQueuesType
  <2>2. conn'[c].at = "accepted"
    BY <1>3, <1>4, <1>6 DEF Advances
  <2>3. /\ g \in Seq(Functors)
        /\ \A i \in 1..Len(g) : Sound(l, g[i])' /\ g[i].do # "connectEstablished"
    BY <2>2, WritesSound
  <2>4. /\ \A d \in Conn : d # Functor(l).c => Steady(conn[d], conn'[d])
        /\ Advances(conn[Functor(l).c], conn'[Functor(l).c])
    <3>1. \A d \in Conn : d # c => Steady(conn[d], conn'[d])
      BY <1>6 DEF Steady, Advances
    <3> QED BY <1>1, <1>3, <1>6, <3>1
  <2>5. QueueInLoop(l, l, g)
    BY <1>2, <2>1
  <2> QED BY <1>0, <1>2, <2>3, <2>4, <2>5, QueueTakes DEF Sys
<1>8. ConnsInv'
  <2>1. \A d \in Conn : conn'[d].at = "accepted" => conn[d].at = "accepted"
    BY <1>3, <1>6
  <2>2. held' \subseteq Conn /\ (Leaving => Leaving')
    BY <1>2 DEF Sys, ConnsInv, Leaving
  <2>3. \A d \in Conn : d \in held' /\ d \notin held => conn'[d].state # "kConnecting"
    BY <1>2, <1>4, <1>6
  <2> QED BY <1>2, <1>6, <2>1, <2>2, <2>3, ConnsKeep DEF Sys
<1>9. WorkerInv'
  BY <1>2, <1>6, WorkerKeeps DEF Sys
<1>10. ActiveInv'
  BY <1>2, <1>3, <1>6, ActiveOthers
<1> QED BY <1>7, <1>8, <1>9, <1>10 DEF Sys

\* removeConnectionInLoop forgets a connection that was reported down.
LEMMA RunRemoveSys ==
    ASSUME Sys, NEW l \in Loop, RunRemoveConnection(l)
    PROVE  Sys'
<1>0. TakeFunctor(l) /\ Functor(l).do = "removeConnectionInLoop"
  BY DEF RunRemoveConnection
<1>1. PICK c \in Conn : c = Functor(l).c
  BY <1>0, HeadSound
<1>2. /\ connections' = connections \ {c}
      /\ QueueInLoop(l, conn[c].loop, <<Bound("connectDestroyed", c)>>)
      /\ UNCHANGED <<pc, quit_, eventfd, functors, active, join,
                     conn, next_, held, worker, inputs>>
  BY <1>1 DEF RunRemoveConnection, RemoveConnectionInLoop
<1>3. conn[c].at = "accepted" /\ conn[c].downs = 1 /\ KInv(conn[c])
  BY <1>0, <1>1, HeadSound DEF Sound
<1>4. conn[c].loop \in Loop
  BY <1>3 DEF KInv, Record
<1>s. \A d \in Conn : Steady(conn[d], conn'[d]) /\ Advances(conn[d], conn'[d])
  BY <1>2 DEF Steady, Advances
<1>5. QueueInv'
  <2> DEFINE g == <<Bound("connectDestroyed", c)>>
  <2>1. Bound("connectDestroyed", c) \in Functors
    BY DEF Bound, Functors
  <2>2. g \in Seq(Functors) /\ Len(g) = 1 /\ g[1] = Bound("connectDestroyed", c) /\ 1..1 = {1}
    BY <2>1
  <2>3. /\ Sound(conn[c].loop, Bound("connectDestroyed", c))
        /\ Bound("connectDestroyed", c).do # "connectEstablished"
    BY <1>3, <2>1 DEF Sound, Bound
  <2>4. Sound(conn[c].loop, Bound("connectDestroyed", c))'
    BY <2>3, <1>2 DEF Sound
  <2>5. PICK m \in Loop : m = conn[c].loop
    BY <1>4
  <2>6. \A i \in 1..Len(g) : Sound(m, g[i])' /\ g[i].do # "connectEstablished"
    BY <2>2, <2>3, <2>4, <2>5, <1>2 DEF Sound
  <2>7. QueueInLoop(l, m, g)
    BY <1>2, <2>5
  <2>8. /\ \A d \in Conn : d # Functor(l).c => Steady(conn[d], conn'[d])
        /\ Steady(conn[Functor(l).c], conn'[Functor(l).c])
    BY <1>s, <1>1
  <2> HIDE DEF g
  <2> QED BY <1>0, <1>2, <2>2, <2>6, <2>7, <2>8, QueueTakes DEF Sys
<1>6. ConnsInv'
  <2>1. /\ DOMAIN conn' = Conn
        /\ \A d \in Conn : KInv(conn'[d])
        /\ connections' \subseteq connections /\ held' \subseteq Conn
        /\ \A d \in Conn : d \in connections /\ d \notin connections' => conn'[d].downs = 1
        /\ Leaving => Leaving'
    BY <1>2, <1>3 DEF Sys, ConnsInv, Leaving
  <2> QED BY <1>2, <1>s, <2>1, ConnsKeep DEF Sys
<1>7. WorkerInv'
  BY <1>2, <1>s, WorkerKeeps DEF Sys
<1>8. ActiveInv'
  BY <1>2 DEF Sys, ActiveInv
<1> QED BY <1>5, <1>6, <1>7, <1>8 DEF Sys

\* What the other functors make of their connection.
LEMMA OutcomeInv ==
    ASSUME NEW k, KInv(k), NEW do,
           do = "shutdownInLoop" => k.state \in {"kDisconnecting", "kDisconnected"},
           do \notin {"sendInLoop"}
    PROVE  LET j == Outcome(do, k)
           IN  /\ KInv(j) /\ Advances(k, j)
               /\ k.state = "kConnecting" => j.state = "kConnecting"
               /\ do = "connectDestroyed" => j.index = "kNew"
               /\ j.index # "kNew" => k.index # "kNew"
               /\ do # "connectDestroyed" => j.downs = k.downs
               /\ k.state # "kConnected" => j.downs = k.downs
               /\ Waits(j) => Waits(k) /\ do # "shutdownInLoop"
               /\ do # "connectDestroyed" => j.epoll = k.epoll
<1>1. CASE do = "connectDestroyed"
  <2> DEFINE j == ConnectDestroyed(k)
  <2>1. Outcome(do, k) = j
    BY <1>1 DEF Outcome
  <2>2. /\ KInv(j) /\ j.index = "kNew" /\ j.epoll = NotIn /\ Advances(k, j)
        /\ k.state = "kConnecting" => j.state = "kConnecting"
        /\ k.state # "kConnected" => j.state = k.state /\ j.downs = k.downs /\ j.fin = k.fin
        /\ k.state # "kConnected" => j.events = k.events
        /\ k.state = "kConnected" => j.state = "kDisconnected" /\ j.downs = 1
    BY ConnectDestroyedInv
  <2> HIDE DEF j
  <2>3. Waits(j) => Waits(k)
    BY <2>2 DEF Waits, IsWriting
  <2> QED BY <1>1, <2>1, <2>2, <2>3
<1>2. CASE do = "shutdownInLoop"
  <2> DEFINE j == ShutdownInLoop(k)
  <2>1. Outcome(do, k) = j
    BY <1>2 DEF Outcome
  <2>2. /\ KInv(j) /\ Advances(k, j)
        /\ j.epoll = k.epoll /\ j.index = k.index
        /\ j.state = k.state /\ j.downs = k.downs
        /\ j.fin \/ (IsWriting(k) /\ j = k)
    BY <1>2, ShutdownInLoopInv
  <2> HIDE DEF j
  <2>3. ~Waits(j)
    BY <2>2 DEF Waits
  <2> QED BY <1>2, <2>1, <2>2, <2>3
<1>3. CASE do \notin {"connectDestroyed", "shutdownInLoop"}
  <2>1. Outcome(do, k) = k
    BY <1>3 DEF Outcome
  <2> QED BY <1>3, <2>1 DEF Advances
<1> QED BY <1>1, <1>2, <1>3

\* connectDestroyed and shutdownInLoop keep it.
LEMMA RunOtherSys ==
    ASSUME Sys, NEW l \in Loop, RunOther(l)
    PROVE  Sys'
<1>0. /\ TakeFunctor(l)
      /\ Functor(l).do \notin {"connectEstablished", "removeConnectionInLoop"}
  BY DEF RunOther
<1>1. PICK c \in Conn : c = Functor(l).c
  BY <1>0, HeadSound
<1>h. /\ Sound(l, Functor(l)) /\ KInv(conn[c]) /\ active[l] = {} /\ Functor(l) \in Functors
      /\ conn[c].at = "accepted" /\ Functor(l).do # "sendInLoop"
  BY <1>0, <1>1, HeadSound DEF Sound
<1> DEFINE j == Outcome(Functor(l).do, conn[c])
<1>2. /\ conn' = [conn EXCEPT ![c] = j]
      /\ QueueInLoop(l, l, <<>>)
      /\ UNCHANGED <<pc, quit_, eventfd, functors, active, join,
                     connections, next_, held, worker, inputs>>
  BY <1>0, <1>1, <1>h DEF RunOther
<1>3. /\ KInv(j) /\ Advances(conn[c], j)
      /\ conn[c].state = "kConnecting" => j.state = "kConnecting"
      /\ Functor(l).do # "connectDestroyed" => j.epoll = conn[c].epoll
  BY <1>1, <1>h, OutcomeInv DEF Sound
<1> HIDE DEF j
<1>4. /\ DOMAIN conn' = Conn /\ conn'[c] = j
      /\ \A d \in Conn : d # c => conn'[d] = conn[d]
      /\ \A d \in Conn : KInv(conn'[d])
      /\ \A d \in Conn : conn[d].at = "accepted" => Advances(conn[d], conn'[d])
  BY <1>2, <1>3, OneConn DEF Sys
<1>5. \A d \in Conn : Steady(conn[d], conn'[d])
  BY <1>3, <1>4 DEF Steady, Advances
<1>6. QueueInv'
  <2>1. <<>> \in Seq(Functors) /\ 1..Len(<<>>) = {}
    BY EmptySeq
  <2>2. /\ \A d \in Conn : d # Functor(l).c => Steady(conn[d], conn'[d])
        /\ Steady(conn[Functor(l).c], conn'[Functor(l).c])
    BY <1>1, <1>5
  <2> QED BY <1>0, <1>2, <2>1, <2>2, QueueTakes DEF Sys
<1>7. ConnsInv'
  <2>1. \A d \in Conn : conn'[d].at = "accepted" => conn[d].at = "accepted"
    BY <1>h, <1>4
  <2>2. held' \subseteq Conn /\ (Leaving => Leaving')
    BY <1>2 DEF Sys, ConnsInv, Leaving
  <2> QED BY <1>2, <1>4, <2>1, <2>2, ConnsKeep DEF Sys
<1>8. WorkerInv'
  BY <1>2, <1>4, WorkerKeeps DEF Sys
<1>9. ActiveInv'
  <2>1. CASE Functor(l).do = "connectDestroyed"
    <3>1. conn[c].loop = l
      BY <1>1, <1>h, <2>1 DEF Sound
    <3> QED BY <1>2, <1>4, <1>h, <3>1, ActiveOthers
  <2>2. CASE Functor(l).do # "connectDestroyed"
    <3>1. \A d \in Conn : conn'[d].epoll = conn[d].epoll /\ conn'[d].loop = conn[d].loop
      BY <1>3, <1>4, <2>2 DEF Advances
    <3>2. active' = active /\ pc' = pc
      BY <1>2
    <3> QED BY <3>1, <3>2, ActiveKeeps DEF Sys, ActiveInv
  <2> QED BY <2>1, <2>2
<1> QED BY <1>6, <1>7, <1>8, <1>9 DEF Sys

\* getNextLoop returns a loop, and next_ stays an index of loops_.
LEMMA NextLoopInv ==
    ASSUME ConnsInv
    PROVE  /\ NextLoop \in Loop /\ NextAfter \in Nat
           /\ IoLoops # <<>> => NextAfter < Len(IoLoops)
<1>1. Main \in Loop /\ Len(IoLoops) \in Nat /\ next_ \in Nat
  BY LoopAssumption, LenProperties DEF Loop, ConnsInv
<1>2. CASE IoLoops = <<>>
  <2>1. NextLoop = Main /\ NextAfter = 0
    BY <1>1, <1>2, EmptySeq DEF NextLoop, NextAfter
  <2> QED BY <1>1, <1>2, <2>1
<1>3. CASE IoLoops # <<>>
  <2>1. next_ + 1 \in 1..Len(IoLoops)
    BY <1>1, <1>3 DEF ConnsInv
  <2>2. IoLoops[next_ + 1] \in Range(IoLoops)
    BY <2>1, LoopAssumption, ElementOfSeq
  <2>3. NextLoop \in Loop
    BY <1>3, <2>2 DEF NextLoop, Loop
  <2>4. NextAfter \in Nat /\ NextAfter < Len(IoLoops)
    BY <1>1, <1>3, <2>1 DEF NextAfter
  <2> QED BY <2>3, <2>4
<1> QED BY <1>2, <1>3

\* A connection the kernel has for the acceptor is untouched, and sound once it
\* has a loop.
LEMMA AcceptedInv ==
    ASSUME NEW k, KInv(k), k.at = "backlog", NEW m \in Loop,
           NEW j \in Record, j.at = "accepted", j.loop = m, j.state = k.state,
           j.events = k.events, j.index = k.index, j.out = k.out, j.sent = k.sent,
           j.ups = k.ups, j.downs = k.downs, j.epoll = k.epoll, j.wire = k.wire,
           j.fin = k.fin, j.rst = k.rst, j.sigpipe = k.sigpipe
    PROVE  /\ KInv(j) /\ j.state = "kConnecting" /\ j.at = "accepted" /\ j.loop = m
           /\ j.index = "kNew" /\ k.epoll = NotIn /\ k.state = "kConnecting"
           /\ k.downs = 0 /\ j.downs = 0
<1>1. k \in Record /\ k.state = "kConnecting" /\ Untouched(k)
  BY DEF KInv, Told
<1>3. Told(j) /\ Channels(j)
  BY <1>1 DEF KInv, Told, Untouched, Channels
<1>4. Bytes(j)
  <2>1. /\ ~k.rst => k.wire \o k.out = Stream(k.sent)
        /\ k.downs = 0 => (k.out # <<>> <=> IsWriting(k))
        /\ k.fin /\ k.downs = 0 => k.out = <<>>
        /\ ~k.sigpipe
    BY DEF KInv, Bytes
  <2>2. IsWriting(k) <=> IsWriting(j)
    BY DEF IsWriting
  <2> QED BY <2>1, <2>2 DEF Bytes
<1> QED BY <1>1, <1>3, <1>4 DEF KInv, Untouched

\* What newConnection does: the connection is established here, or the functor for
\* it is the first one queued for it.
LEMMA HandleAcceptIs ==
    ASSUME Sys, HandleAccept
    PROVE  \E c \in Conn : \E j, i :
              /\ conn[c].at = "backlog" /\ KInv(conn[c])
              /\ conn[c].epoll = NotIn /\ conn[c].state = "kConnecting"
              /\ connections' = connections \cup {c} /\ next_' = NextAfter
              /\ conn' = [conn EXCEPT ![c] = j] /\ KInv(j)
              /\ j.at = "accepted" /\ j.loop = NextLoop /\ j.downs = 0
              /\ \/ /\ NextLoop = Main /\ j.state = "kConnected" /\ held' = held \cup {c}
                    /\ QueueInLoop(Main, Main, SendQueues(c, Established(i)))
                 \/ /\ NextLoop # Main /\ j.state = "kConnecting" /\ held' = held
                    /\ QueueInLoop(Main, NextLoop, <<Bound("connectEstablished", c)>>)
<1>m. Main \in Loop
  BY DEF Loop
<1> DEFINE k(c) == [conn[c] EXCEPT !.at = "accepted", !.loop = NextLoop]
<1>1. PICK c \in Conn :
         /\ conn[c].at = "backlog"
         /\ connections' = connections \cup {c}
         /\ next_' = NextAfter
         /\ IF NextLoop = Main
            THEN /\ conn' = [conn EXCEPT ![c] = ConnectEstablished(k(c))]
                 /\ held' = held \cup {c}
                 /\ QueueInLoop(Main, Main, SendQueues(c, Established(k(c))))
            ELSE /\ conn' = [conn EXCEPT ![c] = k(c)]
                 /\ QueueInLoop(Main, NextLoop, <<Bound("connectEstablished", c)>>)
                 /\ UNCHANGED held
  BY DEF HandleAccept
<1>3. NextLoop \in Loop /\ NextAfter \in Nat /\ (IoLoops # <<>> => NextAfter < Len(IoLoops))
  BY NextLoopInv DEF Sys
<1> DEFINE i == k(c)
<1>4. /\ KInv(i) /\ i.state = "kConnecting" /\ i.at = "accepted" /\ i.loop = NextLoop /\ i.downs = 0
      /\ conn[c].epoll = NotIn /\ conn[c].state = "kConnecting" /\ KInv(conn[c])
  <2>1. KInv(conn[c]) /\ conn[c].at = "backlog"
    BY <1>1 DEF Sys, ConnsInv
  <2>2. /\ i \in Record /\ i.at = "accepted" /\ i.loop = NextLoop /\ i.state = conn[c].state
        /\ i.events = conn[c].events /\ i.index = conn[c].index /\ i.out = conn[c].out
        /\ i.sent = conn[c].sent /\ i.ups = conn[c].ups /\ i.downs = conn[c].downs
        /\ i.epoll = conn[c].epoll /\ i.wire = conn[c].wire /\ i.fin = conn[c].fin
        /\ i.rst = conn[c].rst /\ i.sigpipe = conn[c].sigpipe
    BY <1>3, <2>1 DEF KInv, Record
  <2> HIDE DEF i
  <2> QED BY <1>3, <2>1, <2>2, AcceptedInv
<1>5. PICK j : /\ conn' = [conn EXCEPT ![c] = j] /\ KInv(j)
               /\ j.at = "accepted" /\ j.loop = NextLoop /\ j.downs = 0
               /\ \/ /\ NextLoop = Main /\ j.state = "kConnected" /\ held' = held \cup {c}
                     /\ QueueInLoop(Main, Main, SendQueues(c, Established(i)))
                  \/ /\ NextLoop # Main /\ j.state = "kConnecting" /\ held' = held
                     /\ QueueInLoop(Main, NextLoop, <<Bound("connectEstablished", c)>>)
  <2>1. CASE NextLoop = Main
    <3> DEFINE j == ConnectEstablished(i)
    <3>1. KInv(j) /\ Advances(i, j) /\ j.state = "kConnected" /\ j.downs = 0
      BY <1>4, ConnectEstablishedInv
    <3>2. j.at = "accepted" /\ j.loop = NextLoop
      BY <1>4, <3>1 DEF Advances
    <3>3. /\ conn' = [conn EXCEPT ![c] = j] /\ held' = held \cup {c}
          /\ QueueInLoop(Main, Main, SendQueues(c, Established(i)))
      BY <1>1, <2>1
    <3> HIDE DEF j, i
    <3> QED BY <2>1, <3>1, <3>2, <3>3
  <2>2. CASE NextLoop # Main
    <3>3. /\ conn' = [conn EXCEPT ![c] = i] /\ held' = held
          /\ QueueInLoop(Main, NextLoop, <<Bound("connectEstablished", c)>>)
      BY <1>1, <2>2
    <3> HIDE DEF i
    <3> QED BY <2>2, <1>4, <3>3
  <2> QED BY <2>1, <2>2
<1> HIDE DEF i, k
<1> QED BY <1>1, <1>4, <1>5

\* newConnection keeps the invariant.
LEMMA HandleAcceptSys ==
    ASSUME Sys, HandleAccept
    PROVE  Sys'
<1>m. Main \in Loop
  BY DEF Loop
<1>2. /\ TakeActive(Main, <<"accept", {"in"}>>)
      /\ UNCHANGED <<pc, quit_, eventfd, functors, ran, join, worker, inputs>>
  BY DEF HandleAccept
<1>3. NextLoop \in Loop /\ NextAfter \in Nat /\ (IoLoops # <<>> => NextAfter < Len(IoLoops))
  BY NextLoopInv DEF Sys
<1>0. PICK c \in Conn : \E j, i :
              /\ conn[c].at = "backlog" /\ KInv(conn[c])
              /\ conn[c].epoll = NotIn /\ conn[c].state = "kConnecting"
              /\ connections' = connections \cup {c} /\ next_' = NextAfter
              /\ conn' = [conn EXCEPT ![c] = j] /\ KInv(j)
              /\ j.at = "accepted" /\ j.loop = NextLoop /\ j.downs = 0
              /\ \/ /\ NextLoop = Main /\ j.state = "kConnected" /\ held' = held \cup {c}
                    /\ QueueInLoop(Main, Main, SendQueues(c, Established(i)))
                 \/ /\ NextLoop # Main /\ j.state = "kConnecting" /\ held' = held
                    /\ QueueInLoop(Main, NextLoop, <<Bound("connectEstablished", c)>>)
  BY HandleAcceptIs
<1>1. PICK j, i :
              /\ conn[c].at = "backlog" /\ KInv(conn[c])
              /\ conn[c].epoll = NotIn /\ conn[c].state = "kConnecting"
              /\ connections' = connections \cup {c} /\ next_' = NextAfter
              /\ conn' = [conn EXCEPT ![c] = j] /\ KInv(j)
              /\ j.at = "accepted" /\ j.loop = NextLoop /\ j.downs = 0
              /\ \/ /\ NextLoop = Main /\ j.state = "kConnected" /\ held' = held \cup {c}
                    /\ QueueInLoop(Main, Main, SendQueues(c, Established(i)))
                 \/ /\ NextLoop # Main /\ j.state = "kConnecting" /\ held' = held
                    /\ QueueInLoop(Main, NextLoop, <<Bound("connectEstablished", c)>>)
  BY <1>0
<1>4. conn[c].epoll = NotIn /\ conn[c].state = "kConnecting" /\ KInv(conn[c])
  BY <1>1
<1>5. /\ conn' = [conn EXCEPT ![c] = j] /\ KInv(j)
      /\ j.at = "accepted" /\ j.loop = NextLoop
      /\ \/ /\ NextLoop = Main /\ j.state = "kConnected" /\ held' = held \cup {c}
            /\ QueueInLoop(Main, Main, SendQueues(c, Established(i)))
         \/ /\ NextLoop # Main /\ j.state = "kConnecting" /\ held' = held
            /\ QueueInLoop(Main, NextLoop, <<Bound("connectEstablished", c)>>)
  BY <1>1
<1>6. /\ DOMAIN conn' = Conn /\ conn'[c] = j
      /\ \A d \in Conn : d # c => conn'[d] = conn[d]
      /\ \A d \in Conn : KInv(conn'[d])
      /\ \A d \in Conn : conn[d].at = "accepted" => Advances(conn[d], conn'[d])
  BY <1>1, <1>5, OneConn DEF Sys
<1>7. \A d \in Conn : Steady(conn[d], conn'[d])
  <2> SUFFICES ASSUME NEW d \in Conn, conn[d].at = "accepted"
               PROVE  Advances(conn[d], conn'[d]) /\
                      (conn[d].state = "kConnecting" => conn'[d].state = "kConnecting")
    BY DEF Steady
  <2>1. d # c
    BY <1>1
  <2> QED BY <2>1, <1>6
<1>8. QueueInv'
  <2>1. CASE NextLoop = Main
    <3>1. PICK g \in Seq({Bound("writeComplete", c)}) : g = SendQueues(c, Established(i))
      BY SendQueuesType
    <3>2. conn'[c].at = "accepted"
      BY <1>5, <1>6
    <3>3. /\ g \in Seq(Functors)
          /\ \A x \in 1..Len(g) : Sound(Main, g[x])' /\ g[x].do # "connectEstablished"
      BY <3>2, WritesSound
    <3>4. QueueInLoop(Main, Main, g)
      BY <1>5, <2>1, <3>1
    <3> QED BY <1>m, <1>2, <1>7, <3>3, <3>4, QueueGrows DEF Sys
  <2>2. CASE NextLoop # Main
    <3> DEFINE g == <<Bound("connectEstablished", c)>>
    <3>1. Bound("connectEstablished", c) \in Functors
      BY DEF Bound, Functors
    <3>2. g \in Seq(Functors) /\ Len(g) = 1 /\ g[1] = Bound("connectEstablished", c) /\ 1..1 = {1}
      BY <3>1
    <3>3. PICK m \in Loop : m = NextLoop
      BY <1>3
    <3>4. Sound(m, Bound("connectEstablished", c))'
      BY <1>5, <1>6, <2>2, <3>1, <3>3 DEF Sound, Bound
    <3>5. \A x \in 1..Len(g) :
             /\ Sound(m, g[x])'
             /\ g[x].do = "connectEstablished" => Len(g) = 1 /\ conn[g[x].c].at # "accepted"
      <4>1. g[1].c = c
        BY <3>2 DEF Bound
      <4> QED BY <1>1, <3>2, <3>4, <4>1 DEF Sound
    <3>6. QueueInLoop(Main, m, g)
      BY <1>5, <2>2, <3>3
    <3> HIDE DEF g
    <3> QED BY <1>2, <1>7, <3>2, <3>5, <3>6, QueueGrows DEF Sys
  <2> QED BY <2>1, <2>2
<1>9. ConnsInv'
  <2>1. /\ connections' \subseteq Conn /\ \A d \in connections' : conn'[d].at = "accepted"
    <3>1. \A d \in connections : conn[d].at = "accepted" /\ d \in Conn
      BY DEF Sys, ConnsInv
    <3> QED BY <1>1, <1>5, <1>6, <3>1 DEF Advances
  <2>2. ASSUME NEW d \in Conn, conn'[d].at = "accepted", d \notin connections'
        PROVE  conn'[d].downs = 1 \/ Leaving'
    <3>1. d # c /\ d \notin connections
      BY <1>1, <2>2
    <3>2. conn'[d] = conn[d] /\ pc' = pc
      BY <1>2, <1>6, <3>1
    <3> QED BY <2>2, <3>1, <3>2 DEF Sys, ConnsInv, Leaving
  <2>3. held' \subseteq Conn /\ \A d \in held' : conn'[d].state # "kConnecting"
    <3>1. ASSUME NEW d \in held PROVE d \in Conn /\ d # c /\ conn[d].state # "kConnecting"
      BY <1>4 DEF Sys, ConnsInv
    <3> QED BY <1>5, <1>6, <3>1
  <2> QED BY <1>1, <1>3, <1>6, <2>1, <2>2, <2>3 DEF ConnsInv
<1>10. WorkerInv'
  BY <1>2, <1>6, WorkerKeeps DEF Sys
<1>11. ActiveInv'
  <2>1. /\ DOMAIN active' = Loop /\ pc' = pc /\ pc[Main] = "handle"
        /\ \A x \in Loop : active'[x] \subseteq active[x]
    BY <1>2, <1>m DEF TakeActive, Sys, ActiveInv
  <2>2. \A x \in Loop : pc'[x] # "handle" => active'[x] = {}
    BY <2>1 DEF Sys, ActiveInv
  <2>3. ASSUME NEW x \in Loop, NEW b \in active'[x], NEW d \in Conn, b[1] = d
        PROVE  conn'[d].loop = conn[d].loop /\ conn'[d].epoll # NotIn
    <3>1. b \in active[x] /\ conn[d].epoll # NotIn
      BY <2>1, <2>3 DEF Sys, ActiveInv
    <3>2. d # c
      BY <3>1, <1>4
    <3> QED BY <3>1, <3>2, <1>6
  <2> QED BY <2>1, <2>2, <2>3, ActiveKeeps DEF Sys
<1> QED BY <1>8, <1>9, <1>10, <1>11 DEF Sys

\* ~TcpServer: a connection is destroyed here, or the functor for it is queued.
LEMMA DestroySys ==
    ASSUME Sys, DestroyConnection
    PROVE  Sys'
<1>m. Main \in Loop
  BY DEF Loop
<1>1. PICK c \in connections :
         /\ connections' = connections \ {c}
         /\ IF conn[c].loop = Main
            THEN /\ conn' = [conn EXCEPT ![c] = ConnectDestroyed(@)]
                 /\ UNCHANGED <<pending, wakes>>
            ELSE /\ QueueInLoop(Main, conn[c].loop, <<Bound("connectDestroyed", c)>>)
                 /\ UNCHANGED conn
  BY DEF DestroyConnection
<1>2. /\ pc[Main] = "left"
      /\ UNCHANGED <<pc, quit_, eventfd, functors, ran, active, join,
                     next_, held, worker, inputs>>
  BY DEF DestroyConnection
<1>3. c \in Conn /\ conn[c].at = "accepted" /\ KInv(conn[c]) /\ conn[c].loop \in Loop
  BY DEF Sys, ConnsInv, KInv, Record
<1>4. Leaving /\ Leaving'
  BY <1>2 DEF Leaving
<1>7. /\ DOMAIN conn' = Conn
      /\ \A d \in Conn : d # c \/ conn[c].loop # Main => conn'[d] = conn[d]
      /\ \A d \in Conn : KInv(conn'[d])
      /\ \A d \in Conn : conn[d].at = "accepted" => Advances(conn[d], conn'[d])
      /\ Advances(conn[c], conn'[c])
      /\ conn[c].state = "kConnecting" => conn'[c].state = "kConnecting"
  <2>1. CASE conn[c].loop = Main
    <3>1. conn' = [conn EXCEPT ![c] = ConnectDestroyed(conn[c])]
      BY <1>1, <2>1
    <3>2. /\ KInv(ConnectDestroyed(conn[c])) /\ Advances(conn[c], ConnectDestroyed(conn[c]))
          /\ conn[c].state = "kConnecting" => ConnectDestroyed(conn[c]).state = "kConnecting"
      BY <1>3, ConnectDestroyedInv
    <3>3. PICK j : j = ConnectDestroyed(conn[c])
      OBVIOUS
    <3>4. /\ DOMAIN conn' = Conn /\ conn'[c] = j
          /\ \A d \in Conn : d # c => conn'[d] = conn[d]
          /\ \A d \in Conn : KInv(conn'[d])
          /\ \A d \in Conn : conn[d].at = "accepted" => Advances(conn[d], conn'[d])
      BY <1>3, <3>1, <3>2, <3>3, OneConn DEF Sys
    <3> QED BY <2>1, <3>2, <3>3, <3>4
  <2>2. CASE conn[c].loop # Main
    BY <1>1, <1>3, <2>2 DEF Sys, ConnsInv, Advances
  <2> QED BY <2>1, <2>2
<1>8. \A d \in Conn : Steady(conn[d], conn'[d])
  BY <1>7 DEF Steady, Advances
<1>9. QueueInv'
  <2>1. CASE conn[c].loop = Main
    <3>1. UNCHANGED <<pending, functors, ran, pc>>
      BY <1>1, <1>2, <2>1
    <3>2. QueueTypes' /\ \A l \in Loop : Rest(l)' = Rest(l)
      BY <3>1 DEF Sys, QueueInv, QueueTypes, Rest
    <3> QED BY <1>8, <3>2, QueueStays DEF Sys
  <2>2. CASE conn[c].loop # Main
    <3> DEFINE g == <<Bound("connectDestroyed", c)>>
    <3>1. Bound("connectDestroyed", c) \in Functors
      BY <1>3 DEF Bound, Functors
    <3>2. g \in Seq(Functors) /\ Len(g) = 1 /\ g[1] = Bound("connectDestroyed", c) /\ 1..1 = {1}
      BY <3>1
    <3>3. PICK m \in Loop : m = conn[c].loop
      BY <1>3
    <3>4. Sound(m, Bound("connectDestroyed", c))' /\ Bound("connectDestroyed", c).do # "connectEstablished"
      BY <1>3, <1>7, <3>1, <3>3 DEF Sound, Bound, Advances
    <3>5. \A x \in 1..Len(g) : Sound(m, g[x])' /\ g[x].do # "connectEstablished"
      BY <3>2, <3>4 DEF Sound
    <3>6. QueueInLoop(Main, m, g)
      BY <1>1, <2>2, <3>3
    <3> HIDE DEF g
    <3> QED BY <1>2, <1>8, <3>2, <3>5, <3>6, QueueGrows DEF Sys
  <2> QED BY <2>1, <2>2
<1>10. ConnsInv'
  <2>1. \A d \in Conn : conn'[d].at = "accepted" => conn[d].at = "accepted"
    BY <1>3, <1>7
  <2>2. connections' \subseteq connections /\ held' \subseteq Conn
    BY <1>1, <1>2 DEF Sys, ConnsInv
  <2> QED BY <1>2, <1>4, <1>7, <2>1, <2>2, ConnsKeep DEF Sys
<1>11. WorkerInv'
  BY <1>2, <1>7, WorkerKeeps DEF Sys
<1>12. ActiveInv'
  <2>1. CASE conn[c].loop = Main
    <3>1. active[Main] = {}
      BY <1>2, <1>m DEF Sys, ActiveInv
    <3> QED BY <1>2, <1>7, <1>m, <2>1, <3>1, ActiveOthers
  <2>2. CASE conn[c].loop # Main
    <3>1. \A d \in Conn : conn'[d] = conn[d]
      BY <1>7, <2>2
    <3> QED BY <1>2, <3>1 DEF Sys, ActiveInv
  <2> QED BY <2>1, <2>2
<1> QED BY <1>9, <1>10, <1>11, <1>12 DEF Sys

\* A step that leaves the loops alone and changes, if at all, one connection, without
\* a change of its epoll set.
LEMMA AsideSys ==
    ASSUME Sys, UNCHANGED <<pc, functors, ran, pending, active, connections, next_>>,
           DOMAIN conn' = Conn, held' \subseteq held, WorkerInv',
           \A d \in Conn :
              /\ KInv(conn'[d])
              /\ conn'[d].epoll = conn[d].epoll /\ conn'[d].loop = conn[d].loop
              /\ Steady(conn[d], conn'[d])
              /\ conn'[d].at = "accepted" => conn[d].at = "accepted"
    PROVE  Sys'
<1>1. QueueInv'
  <2>1. QueueTypes' /\ \A l \in Loop : Rest(l)' = Rest(l)
    BY DEF Sys, QueueInv, QueueTypes, Rest
  <2> QED BY <2>1, QueueStays DEF Sys
<1>2. ConnsInv'
  <2>1. held' \subseteq Conn /\ (Leaving => Leaving')
    BY DEF Sys, ConnsInv, Leaving
  <2> QED BY <2>1, ConnsKeep DEF Sys, Steady
<1>3. ActiveInv'
  BY ActiveKeeps DEF Sys, ActiveInv
<1> QED BY <1>1, <1>2, <1>3 DEF Sys

\* The fields that belong to the program, not to the peer.
SameButPeer(k, j) ==
    /\ j \in Record
    /\ j.loop = k.loop /\ j.state = k.state /\ j.events = k.events /\ j.index = k.index
    /\ j.out = k.out /\ j.sent = k.sent /\ j.ups = k.ups /\ j.downs = k.downs
    /\ j.epoll = k.epoll /\ j.wire = k.wire /\ j.fin = k.fin /\ j.sigpipe = k.sigpipe
    /\ j.rst = k.rst \/ j.rst
    /\ (k.at = "accepted" <=> j.at = "accepted")

\* What a peer does to the socket of its connection leaves the rest alone.
LEMMA PeerIs ==
    ASSUME NEW c \in Conn, conn[c] \in Record,
           \/ PeerConnects(c) \/ PeerSends(c) \/ PeerReads(c)
           \/ PeerCloses(c) \/ PeerResets(c)
    PROVE  \E j : Peer(c, j) /\ SameButPeer(conn[c], j)
<1>0. RoomSize \in Nat
  BY TcpAssumption
<1>1. CASE PeerConnects(c)
  <2>0. PICK n \in 1..RoomSize : Peer(c, [conn[c] EXCEPT !.at = "backlog", !.room = n])
    BY <1>1 DEF PeerConnects
  <2> DEFINE j == [conn[c] EXCEPT !.at = "backlog", !.room = n]
  <2>1. Peer(c, j)
    BY <2>0
  <2>3. conn[c].at = "nowhere"
    BY <1>1 DEF PeerConnects
  <2>4. n \in 0..RoomSize
    BY <1>0
  <2>2. SameButPeer(conn[c], j)
    BY <2>3, <2>4, <1>0 DEF Record, SameButPeer
  <2> HIDE DEF j
  <2> QED BY <2>1, <2>2
<1>2. CASE PeerSends(c)
  <2> DEFINE j == [conn[c] EXCEPT !.inq = TRUE]
  <2>1. Peer(c, j)
    BY <1>2 DEF PeerSends
  <2>2. SameButPeer(conn[c], j)
    BY <2>1, <1>0 DEF Record, SameButPeer
  <2> HIDE DEF j
  <2> QED BY <2>1, <2>2
<1>3. CASE PeerReads(c)
  <2> DEFINE j == [conn[c] EXCEPT !.room = @ + 1]
  <2>1. Peer(c, j) /\ conn[c].room < RoomSize
    BY <1>3 DEF PeerReads
  <2>2. conn[c].room \in 0..RoomSize
    BY <1>0 DEF Record
  <2>3. conn[c].room + 1 \in 0..RoomSize
    BY <1>0, <2>1, <2>2
  <2>4. SameButPeer(conn[c], j)
    BY <2>3, <1>0 DEF Record, SameButPeer
  <2> HIDE DEF j
  <2> QED BY <2>1, <2>4
<1>4. CASE PeerCloses(c)
  <2> DEFINE j == [conn[c] EXCEPT !.peerFin = TRUE]
  <2>1. Peer(c, j)
    BY <1>4 DEF PeerCloses
  <2>2. SameButPeer(conn[c], j)
    BY <2>1, <1>0 DEF Record, SameButPeer
  <2> HIDE DEF j
  <2> QED BY <2>1, <2>2
<1>5. CASE PeerResets(c)
  <2>0. PICK kept \in {FALSE, conn[c].inq} :
           Peer(c, [conn[c] EXCEPT !.rst = TRUE, !.err = TRUE, !.inq = kept])
    BY <1>5 DEF PeerResets
  <2> DEFINE j == [conn[c] EXCEPT !.rst = TRUE, !.err = TRUE, !.inq = kept]
  <2>1. Peer(c, j) /\ kept \in BOOLEAN
    BY <2>0 DEF Record
  <2>2. SameButPeer(conn[c], j)
    BY <2>1, <1>0 DEF Record, SameButPeer
  <2> HIDE DEF j
  <2> QED BY <2>1, <2>2
<1> QED BY <1>1, <1>2, <1>3, <1>4, <1>5

\* The peers: what they do to the socket.
LEMMA PeersSys ==
    ASSUME Sys, NEW c \in Conn,
           \/ PeerConnects(c) \/ PeerSends(c) \/ PeerReads(c)
           \/ PeerCloses(c) \/ PeerResets(c)
    PROVE  Sys'
<1>0. KInv(conn[c]) /\ conn[c] \in Record
  BY DEF Sys, ConnsInv, KInv
<1>1. PICK j : Peer(c, j) /\ SameButPeer(conn[c], j)
  BY <1>0, PeerIs
<1>2. /\ conn' = [conn EXCEPT ![c] = j]
      /\ UNCHANGED <<loopVars, connections, next_, held, worker>>
  BY <1>1 DEF Peer
<1>3. KInv(j)
  <2>1. conn[c].state # "kConnecting" => j.at = "accepted"
    BY <1>0, <1>1, AcceptedFirst DEF SameButPeer
  <2> QED BY <1>0, <1>1, <2>1, PeerInv DEF SameButPeer
<1>4. conn[c].at = "accepted" => Advances(conn[c], j)
  BY <1>1 DEF Advances, SameButPeer
<1>5. /\ DOMAIN conn' = Conn /\ conn'[c] = j
      /\ \A d \in Conn : d # c => conn'[d] = conn[d]
      /\ \A d \in Conn : KInv(conn'[d])
      /\ \A d \in Conn : conn[d].at = "accepted" => Advances(conn[d], conn'[d])
  BY <1>2, <1>3, <1>4, OneConn DEF Sys
<1>6. WorkerInv'
  BY <1>2, <1>5, WorkerKeeps DEF Sys
<1>7. \A d \in Conn :
              /\ conn'[d].epoll = conn[d].epoll /\ conn'[d].loop = conn[d].loop
              /\ Steady(conn[d], conn'[d])
              /\ conn'[d].at = "accepted" => conn[d].at = "accepted"
  BY <1>1, <1>5 DEF Steady, SameButPeer
<1>8. UNCHANGED <<pc, functors, ran, pending, active, connections, next_>> /\ held' \subseteq held
  BY <1>2 DEF loopVars
<1> QED BY <1>5, <1>6, <1>7, <1>8, AsideSys

\* The worker: it never calls send(), and what it queues finds the state it set.
LEMMA WorkerSys ==
    ASSUME Sys, "send" \notin WorkerOps,
           WorkerCalls \/ WorkerSetsState \/ WorkerQueues \/ QuitServer
    PROVE  Sys'
<1>s. \A k : Steady(k, k) /\ Advances(k, k)
  BY DEF Steady, Advances
<1>1. CASE WorkerCalls
  <2>1. UNCHANGED <<loopVars, conn, connections, next_, held>>
    BY <1>1 DEF WorkerCalls
  <2>2. WorkerInv'
    <3>1. PICK c \in held, op \in WorkerOps :
             worker' = IF Accepts(conn[c]) THEN <<"checked", op, c>> ELSE Idle
      BY <1>1 DEF WorkerCalls
    <3>2. op = "shutdown" /\ c \in Conn
      BY TcpAssumption DEF Sys, ConnsInv
    <3>3. Accepts(conn[c]) => conn'[c].state # "kConnecting"
      BY <2>1 DEF Accepts
    <3> QED BY <3>1, <3>2, <3>3 DEF WorkerInv
  <2> QED BY <1>s, <2>1, <2>2, AsideSys DEF Sys, ConnsInv, loopVars
<1>2. CASE WorkerSetsState
  <2>1. PICK c \in Conn : worker = <<"checked", "shutdown", c>> /\ conn[c].state # "kConnecting"
    BY <1>2 DEF WorkerSetsState, Sys, WorkerInv, Idle, Gone
  <2> DEFINE j == [conn[c] EXCEPT !.state = "kDisconnecting"]
  <2>2. /\ conn' = [conn EXCEPT ![c] = j] /\ worker' = <<"set", "shutdown", c>>
        /\ UNCHANGED <<loopVars, connections, next_, held, inputs>>
    BY <1>2, <2>1 DEF WorkerSetsState
  <2>3. KInv(conn[c]) /\ conn[c] \in Record /\ conn[c].at = "accepted"
    BY <2>1, AcceptedFirst DEF Sys, ConnsInv, KInv
  <2>4. /\ j \in Record /\ j.at = "accepted" /\ j.loop = conn[c].loop
        /\ j.state = "kDisconnecting"
        /\ j.events = conn[c].events /\ j.index = conn[c].index /\ j.out = conn[c].out
        /\ j.sent = conn[c].sent /\ j.ups = conn[c].ups /\ j.downs = conn[c].downs
        /\ j.epoll = conn[c].epoll /\ j.wire = conn[c].wire /\ j.fin = conn[c].fin
        /\ j.rst = conn[c].rst /\ j.sigpipe = conn[c].sigpipe
    BY <2>3 DEF Record, State
  <2> HIDE DEF j
  <2>5. KInv(j)
    <3>1. Told(j) /\ Channels(j)
      BY <2>1, <2>3, <2>4 DEF KInv, Told, Channels
    <3>2. Bytes(j)
      BY <2>3, <2>4 DEF KInv, Bytes, IsWriting
    <3> QED BY <2>4, <3>1, <3>2 DEF KInv
  <2>6. Advances(conn[c], j)
    BY <2>1, <2>3, <2>4 DEF Advances
  <2>7. /\ DOMAIN conn' = Conn /\ conn'[c] = j
        /\ \A d \in Conn : d # c => conn'[d] = conn[d]
        /\ \A d \in Conn : KInv(conn'[d])
        /\ \A d \in Conn : conn[d].at = "accepted" => Advances(conn[d], conn'[d])
    BY <2>2, <2>5, <2>6, OneConn DEF Sys
  <2>8. WorkerInv'
    BY <2>2, <2>4, <2>7 DEF WorkerInv
  <2>9. \A d \in Conn :
           /\ conn'[d].epoll = conn[d].epoll /\ conn'[d].loop = conn[d].loop
           /\ Steady(conn[d], conn'[d])
           /\ conn'[d].at = "accepted" => conn[d].at = "accepted"
    BY <2>1, <2>3, <2>4, <2>7 DEF Steady
  <2> QED BY <2>2, <2>7, <2>8, <2>9, AsideSys DEF loopVars
<1>3. CASE WorkerQueues
  <2>1. PICK c \in Conn : /\ worker = <<"set", "shutdown", c>>
                          /\ conn[c].state \in {"kDisconnecting", "kDisconnected"}
    BY <1>3 DEF WorkerQueues, Sys, WorkerInv
  <2>2. KInv(conn[c]) /\ conn[c].at = "accepted" /\ conn[c].loop \in Loop
    BY <2>1, AcceptedFirst DEF Sys, ConnsInv, KInv, Record
  <2>3. PICK m \in Loop : m = conn[c].loop
    BY <2>2
  <2> DEFINE g == <<Bound("shutdownInLoop", c)>>
  <2>4. /\ QueueInLoop(Worker, m, g) /\ worker' = Idle
        /\ UNCHANGED <<pc, quit_, eventfd, functors, ran, active, join,
                       conn, connections, next_, held, inputs>>
    BY <1>3, <2>1, <2>3 DEF WorkerQueues
  <2>5. Bound("shutdownInLoop", c) \in Functors
    BY DEF Bound, Functors
  <2>6. g \in Seq(Functors) /\ Len(g) = 1 /\ g[1] = Bound("shutdownInLoop", c) /\ 1..1 = {1}
    BY <2>5
  <2>7. Sound(m, Bound("shutdownInLoop", c))' /\ Bound("shutdownInLoop", c).do # "connectEstablished"
    BY <2>1, <2>2, <2>4, <2>5 DEF Sound, Bound
  <2>8. \A i \in 1..Len(g) : Sound(m, g[i])' /\ g[i].do # "connectEstablished"
    BY <2>6, <2>7 DEF Sound
  <2>9. QueueInv'
    <3> HIDE DEF g
    <3>1. \A d \in Conn : Steady(conn[d], conn'[d])
      BY <1>s, <2>4
    <3> QED BY <2>4, <2>6, <2>8, <3>1, QueueGrows DEF Sys
  <2>10. ConnsInv' /\ ActiveInv' /\ WorkerInv'
    BY <2>4 DEF Sys, ConnsInv, ActiveInv, WorkerInv, Leaving
  <2> QED BY <2>9, <2>10 DEF Sys
<1>4. CASE QuitServer
  <2>1. UNCHANGED <<pc, functors, ran, pending, active, conn, connections, next_, held>>
        /\ worker' \in {Idle, Gone}
    BY <1>4 DEF QuitServer
  <2>2. WorkerInv'
    BY <2>1 DEF WorkerInv
  <2> QED BY <1>s, <2>1, <2>2, AsideSys DEF Sys, ConnsInv
<1> QED BY <1>1, <1>2, <1>3, <1>4

\* The application lets go of a pointer.
LEMMA DropSys ==
    ASSUME Sys, NEW c \in Conn, Drop(c)
    PROVE  Sys'
<1>s. \A k : Steady(k, k)
  BY DEF Steady, Advances
<1>1. /\ UNCHANGED <<pc, functors, ran, pending, active, conn, connections, next_, worker>>
      /\ held' \subseteq held
  BY DEF Drop, loopVars
<1>2. WorkerInv'
  BY <1>1 DEF Sys, WorkerInv
<1> QED BY <1>s, <1>1, <1>2, AsideSys DEF Sys, ConnsInv

\* It holds of a server that has not started.
LEMMA InitSys == Init => Sys
<1> SUFFICES ASSUME Init PROVE Sys
  OBVIOUS
<1>1. \A c \in Conn : conn[c] = Unopened
  BY DEF Init
<1>2. \A l \in Loop : Rest(l) = <<>>
  <2> SUFFICES ASSUME NEW l \in Loop PROVE Rest(l) = <<>>
    OBVIOUS
  <2>1. Rest(l) = SubSeq(<<>>, 0 + 1, 0) \o <<>>
    BY DEF Init, LoopInit, Rest
  <2> QED BY <2>1, SubSeqEmpty, ConcatEmptySeq, EmptySeq
<1>3. QueueTypes
  <2>1. <<>> \in Seq(Functors) /\ Len(<<>>) = 0
    BY EmptySeq
  <2> QED BY <2>1 DEF Init, LoopInit, QueueTypes, Place
<1>4. QueueInv
  <2>1. 1..Len(<<>>) = {}
    OBVIOUS
  <2> QED BY <1>2, <1>3, <2>1 DEF QueueInv, First
<1>5. ActiveInv
  BY DEF Init, LoopInit, ActiveInv
<1>6. ConnsInv
  <2>1. IoLoops # <<>> => 0 < Len(IoLoops)
    BY LoopAssumption, EmptySeq, LenProperties
  <2>2. Unopened.at # "accepted" /\ KInv(Unopened)
    BY UnopenedInv DEF Unopened
  <2>3. DOMAIN conn = Conn /\ connections = {} /\ held = {} /\ next_ = 0
    BY DEF Init
  <2> QED BY <1>1, <2>1, <2>2, <2>3 DEF ConnsInv
<1>7. WorkerInv
  BY DEF Init, WorkerInv
<1> QED BY <1>4, <1>5, <1>6, <1>7 DEF Sys

\* Every step keeps it.
LEMMA NextSys == ASSUME Sys, "send" \notin WorkerOps, [Next]_vars PROVE Sys'
<1>1. ASSUME NEW l \in Loop, LoopStep(l) \/ PollTimeout(l) PROVE Sys'
  <2>1. CASE \/ EnterLoop(l) /\ UNCHANGED tcpVars
             \/ Poll(l) \/ HandleWakeupEvent(l)
             \/ BeginPending(l) /\ UNCHANGED tcpVars
             \/ EndPending(l) /\ UNCHANGED tcpVars
             \/ PublishLoop(l) /\ UNCHANGED tcpVars
             \/ ThreadReturns(l) /\ UNCHANGED tcpVars
             \/ PollTimeout(l)
    <3>1. Moves
      BY <2>1 DEF Moves, Poll, PollTimeout, HandleWakeupEvent
    <3> QED BY <3>1, MovesSys
  <2>2. CASE l = Main /\ HandleAccept
    BY <2>2, HandleAcceptSys
  <2>3. CASE HandleEvent(l)
    BY <2>3, HandleEventSys
  <2>4. CASE RunConnectEstablished(l)
    BY <2>4, RunEstablishedSys
  <2>5. CASE RunRemoveConnection(l)
    BY <2>5, RunRemoveSys
  <2>6. CASE RunOther(l)
    BY <2>6, RunOtherSys
  <2> QED BY <1>1, <2>1, <2>2, <2>3, <2>4, <2>5, <2>6 DEF LoopStep
<1>2. CASE MainStep
  <2>1. CASE DestroyConnection
    BY <2>1, DestroySys
  <2>2. CASE ~DestroyConnection
    <3>1. Moves
      BY <1>2, <2>2 DEF MainStep, Moves, DestroyServer
    <3> QED BY <3>1, MovesSys
  <2> QED BY <2>1, <2>2
<1>3. ASSUME NEW t \in Thread, WakeStep(t) PROVE Sys'
  <2>1. Moves
    BY <1>3 DEF WakeStep, Moves
  <2> QED BY <2>1, MovesSys
<1>4. CASE WorkerCalls \/ WorkerSetsState \/ WorkerQueues \/ QuitServer
  BY <1>4, WorkerSys
<1>5. ASSUME NEW c \in Conn,
             \/ Drop(c) \/ PeerConnects(c) \/ PeerSends(c) \/ PeerReads(c)
             \/ PeerCloses(c) \/ PeerResets(c)
      PROVE  Sys'
  BY <1>5, DropSys, PeersSys
<1>6. CASE UNCHANGED vars
  <2>1. UNCHANGED <<pc, functors, ran, pending, active, conn, connections, next_, held, worker>>
    BY <1>6 DEF vars, loopVars, tcpVars
  <2>2. WorkerInv' /\ \A k : Steady(k, k)
    BY <2>1 DEF Sys, WorkerInv, Steady, Advances
  <2> QED BY <2>1, <2>2, AsideSys DEF Sys, ConnsInv
<1> QED BY <1>1, <1>2, <1>3, <1>4, <1>5, <1>6 DEF Next

\* What the peer gets is what the application sent, in order, and the FIN last,
\* whatever the peers, the loops and a thread that calls shutdown() do.
THEOREM PeerStream ==
    ASSUME "send" \notin WorkerOps
    PROVE  Spec => []StreamInOrder
<1>1. Init => Sys
  BY InitSys
<1>2. Sys /\ [Next]_vars => Sys'
  BY NextSys
<1>3. Sys => StreamInOrder
  BY DEF Sys, ConnsInv, KInv, Bytes, StreamInOrder, DataInOrder, FinIsLast, Stream
<1> QED BY <1>1, <1>2, <1>3, PTL DEF Spec

\* The application hears of a connection once when it comes up and once when it
\* goes down, and of every connection that is destroyed while the server lives.
THEOREM ToldOnce ==
    ASSUME "send" \notin WorkerOps
    PROVE  Spec => []OnceUpOnceDown
<1>1. Init => Sys
  BY InitSys
<1>2. Sys /\ [Next]_vars => Sys'
  BY NextSys
<1>3. Sys => OnceUpOnceDown
  <2> SUFFICES ASSUME Sys, NEW c \in Conn
               PROVE  /\ conn[c].ups <= 1 /\ conn[c].downs <= conn[c].ups
                      /\ Destroyed(c) /\ ~Leaving => conn[c].ups = 1 /\ conn[c].downs = 1
    BY DEF OnceUpOnceDown
  <2>1. KInv(conn[c])
    BY DEF Sys, ConnsInv
  <2>2. /\ conn[c].ups \in Nat /\ conn[c].downs \in {0, 1}
        /\ conn[c].state = "kConnecting" => conn[c].ups = 0 /\ conn[c].downs = 0
        /\ conn[c].state # "kConnecting" => conn[c].ups = 1
    BY <2>1 DEF KInv, Told, Untouched, Record
  <2>3. Destroyed(c) => conn[c].at = "accepted" /\ c \notin connections
    BY DEF Destroyed, Owned
  <2>4. Destroyed(c) /\ ~Leaving => conn[c].downs = 1
    BY <2>3 DEF Sys, ConnsInv
  <2> QED BY <2>2, <2>4
<1> QED BY <1>1, <1>2, <1>3, PTL DEF Spec
============================================================================
