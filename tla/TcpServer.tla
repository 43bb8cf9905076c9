----------------------------- MODULE TcpServer -----------------------------
(***************************************************************************)
(* The connections of muduo_cpp11: TcpServer, Acceptor, TcpConnection,     *)
(* Channel and EPollPoller on top of the loops of EventLoop, with a thread *)
(* of the application that also calls a connection, and the peers.         *)
(*                                                                         *)
(* A connection is one record: what TcpConnection and its Channel keep,    *)
(* and what the kernel keeps for its socket.  It lives as long as a        *)
(* shared_ptr to it does: in connections_, in a functor that was bound to  *)
(* one, or with the application.  sendInLoop and shutdownInLoop are bound  *)
(* to the bare this.                                                       *)
(*                                                                         *)
(* The application is the echo server of example/: it greets in            *)
(* onConnection, answers in onMessage and may shut down after the answer   *)
(* (the line commented out there); its worker thread keeps the pointer it  *)
(* got in onConnection.  Data is counted in chunks, MessageSize to a message.      *)
(***************************************************************************)
EXTENDS EventLoop, FiniteSetsExt

CONSTANTS
    Conn,        \* the connections that peers open
    WorkerOps,   \* what the worker calls, of "send" and "shutdown"
    MaxInputs,   \* bound: calls of the worker and messages of the peers
    MessageSize, \* chunks of a message
    RoomSize,    \* the most chunks the kernel holds for a peer that does not read
    Accidents    \* timings the application has to avoid: see below

(***************************************************************************)
(* "drop"   the worker lets go of the connection while a functor bound to  *)
(*          this is queued                                                 *)
(* "late"   the worker goes on calling after the main loop was told to quit*)
(* "early"  the main loop is told to quit before every loop runs           *)
(***************************************************************************)
ASSUME TcpAssumption ==
    /\ WorkerOps \subseteq {"send", "shutdown"}
    /\ MaxInputs \in Nat
    /\ MessageSize \in Nat \ {0} /\ RoomSize \in Nat \ {0}
    /\ Accidents \subseteq {"drop", "late", "early"}
ASSUME TcpNamesAssumption == Conn \cap {"wakeup", "accept"} = {}

VARIABLES
    conn,        \* conn[c]: a connection and its socket
    connections, \* connections_ of the server
    next_,       \* next_ of the pool
    held,        \* connections whose pointer the application keeps
    worker,      \* what the worker is doing: <<step, operation, connection>>
    inputs       \* calls of the worker and messages of the peers so far

tcpVars == <<conn, connections, next_, held, worker, inputs>>
vars == <<loopVars, tcpVars>>

NotIn == {"none"}  \* epoll of a descriptor that is not in the epoll set

Idle == <<"idle">>
Gone == <<"gone">>

\* A connection no peer has opened yet.
Unopened ==
    [at |-> "nowhere",      \* nowhere, backlog (to be accepted), accepted
     loop |-> Main,         \* loop_
     state |-> "kConnecting",
     events |-> {},         \* events_ of the channel, of "in" and "out"
     index |-> "kNew",      \* index_ of the channel
     out |-> <<>>,          \* outputBuffer_
     sent |-> 0,            \* messages that send() has accepted
     ups |-> 0, downs |-> 0,\* calls of connectionCallback_
     epoll |-> NotIn,       \* events asked of the kernel
     wire |-> <<>>,         \* chunks the kernel has taken
     room |-> RoomSize,     \* chunks it would still take
     fin |-> FALSE,         \* is our side shut down for writing?
     inq |-> FALSE,         \* is there something to read?
     peerFin |-> FALSE,     \* has the peer closed its side?
     rst |-> FALSE,         \* has it reset the connection?
     err |-> FALSE,         \* and is that still to be read from SO_ERROR?
     sigpipe |-> FALSE,     \* was our side written to after shutdown?
     epipe |-> FALSE]       \* or after a reset that was already reported?

Init ==
    /\ LoopInit
    /\ conn = [c \in Conn |-> Unopened]
    /\ connections = {}
    /\ next_ = 0
    /\ held = {}
    /\ worker = Idle
    /\ inputs = 0

----------------------------------------------------------------------------
(* Lifetime                                                                *)

OwningButDestroy == {"connectEstablished", "removeConnectionInLoop", "writeComplete"}

\* The functors that are bound to a shared_ptr of their connection.
Owning == {"connectEstablished", "connectDestroyed", "removeConnectionInLoop",
           "writeComplete"}
Bound(do, c) == [do |-> do, c |-> c]

\* The functors that loop l holds, queued or swapped out.
Stored(l) == Range(pending[l]) \cup Range(functors[l])
Owned(c) ==
    \/ c \in connections
    \/ c \in held
    \/ \E l \in Loop : \E f \in Stored(l) : f.c = c /\ f.do \in Owning
Destroyed(c) == conn[c].at = "accepted" /\ ~Owned(c)

\* Is a functor with the bare this queued for c?
RawQueued(c) ==
    \E l \in Loop : \E i \in 1..Len(pending[l]) + Len(functors[l]) :
        LET f == (functors[l] \o pending[l])[i]
        IN  i > ran[l] /\ f.c = c /\ f.do \notin Owning

----------------------------------------------------------------------------
(* Channel and EPollPoller, on the record k of a connection                *)

\* updateChannel
Update(k) ==
    CASE k.index \in {"kNew", "kDeleted"} ->
            [k EXCEPT !.index = "kAdded", !.epoll = k.events]
      [] k.index = "kAdded" /\ k.events = {} ->
            [k EXCEPT !.index = "kDeleted", !.epoll = NotIn]
      [] OTHER -> [k EXCEPT !.epoll = k.events]

Enable(k, e) == Update([k EXCEPT !.events = @ \cup {e}])
DisableWriting(k) == Update([k EXCEPT !.events = @ \ {"out"}])
DisableAll(k) == Update([k EXCEPT !.events = {}])

\* removeChannel
RemoveChannel(k) == [k EXCEPT !.index = "kNew", !.epoll = NotIn]

IsWriting(k) == "out" \in k.events

----------------------------------------------------------------------------
(* TcpConnection, on the record k                                          *)

\* The chunks of the message send() accepts next.
Message(k) == [i \in 1..MessageSize |-> MessageSize * k.sent + i]

Min2(a, b) == IF a < b THEN a ELSE b

LeftOverAll(m, n) == m

\* What of m is left after its first n chunks were written.
LeftOver(m, n) == SubSeq(m, n + 1, Len(m))

\* A write to a connection that was reset: the first call to fail takes the
\* error from the socket, whatever is written after that raises SIGPIPE.
WriteFails(k) == [k EXCEPT !.err = FALSE, !.epipe = @ \/ ~k.err]

WritesAlways(k) == TRUE

\* sendInLoop: straight to the kernel if nothing waits, the rest to the
\* buffer.  A connection that is disconnected is only reported.
WritesDirectly(k) == ~IsWriting(k) /\ k.out = <<>>
Faulty(k) == WritesDirectly(k) /\ (k.rst \/ k.fin)
Taken(k, m) ==
    IF WritesDirectly(k) /\ ~Faulty(k) THEN Min2(k.room, Len(m)) ELSE 0
SendInLoop(k, m) ==
    LET n     == Taken(k, m)
        wrote == [k EXCEPT !.wire = @ \o SubSeq(m, 1, n), !.room = @ - n,
                           !.sigpipe = @ \/ (WritesDirectly(k) /\ k.fin)]
        kept  == [wrote EXCEPT !.out = @ \o LeftOver(m, n)]
    IN  CASE Faulty(k) -> IF k.rst THEN WriteFails(wrote) ELSE wrote
          [] n = Len(m) -> wrote
          [] IsWriting(k) -> kept
          [] OTHER -> Enable(kept, "out")

\* The functor sendInLoop queues when the whole message was written.
WriteComplete(c, k, m) ==
    IF WritesDirectly(k) /\ Taken(k, m) = Len(m)
    THEN <<Bound("writeComplete", c)>> ELSE <<>>

ShutdownInLoopAtOnce(k) == [k EXCEPT !.fin = TRUE]

\* shutdownInLoop
ShutdownInLoop(k) == IF IsWriting(k) THEN k ELSE [k EXCEPT !.fin = TRUE]

\* send() and shutdown() called in the loop's own thread.
Accepts(k) == k.state = "kConnected"
Send(k) ==
    IF Accepts(k)
    THEN [SendInLoop(k, Message(k)) EXCEPT !.sent = @ + 1] ELSE k
SendQueues(c, k) ==
    IF Accepts(k) THEN WriteComplete(c, k, Message(k)) ELSE <<>>
Shutdown(k) ==
    IF Accepts(k) THEN ShutdownInLoop([k EXCEPT !.state = "kDisconnecting"]) ELSE k

\* connectionCallback_: up if the connection is connected, down otherwise.
Notified(k) ==
    IF Accepts(k) THEN [k EXCEPT !.ups = @ + 1] ELSE [k EXCEPT !.downs = @ + 1]

\* connectEstablished; the application greets in connectionCallback_.
Established(k) ==
    Notified(Enable([k EXCEPT !.state = "kConnected"], "in"))
ConnectEstablished(k) == Send(Established(k))

ConnectDestroyedAgain(k) ==
    RemoveChannel(Notified(DisableAll([k EXCEPT !.state = "kDisconnected"])))

\* connectDestroyed
ConnectDestroyed(k) ==
    RemoveChannel(IF k.state = "kConnected"
                  THEN Notified(DisableAll([k EXCEPT !.state = "kDisconnected"]))
                  ELSE k)

HandleCloseReading(k) == Notified([k EXCEPT !.state = "kDisconnected"])

\* handleClose, without closeCallback_, which the caller makes.
HandleClose(k) == Notified(DisableAll([k EXCEPT !.state = "kDisconnected"]))

HandleWriteNoShutdown(k) ==
    LET n    == Min2(k.room, Len(k.out))
        rest == [k EXCEPT !.wire = @ \o SubSeq(k.out, 1, n), !.room = @ - n,
                          !.out = LeftOver(@, n)]
    IN  IF IsWriting(k) /\ k.rst THEN WriteFails(k)
        ELSE IF ~IsWriting(k) \/ n = 0 THEN k
        ELSE IF rest.out # <<>> THEN rest ELSE DisableWriting(rest)

\* handleWrite
HandleWrite(k) ==
    LET n    == Min2(k.room, Len(k.out))
        rest == [k EXCEPT !.wire = @ \o SubSeq(k.out, 1, n), !.room = @ - n,
                          !.out = LeftOver(@, n)]
        done == DisableWriting(rest)
    IN  IF IsWriting(k) /\ k.rst THEN WriteFails(k)
        ELSE IF ~IsWriting(k) \/ n = 0 THEN k
        ELSE IF rest.out # <<>> THEN rest
        ELSE IF done.state = "kDisconnecting" THEN ShutdownInLoop(done) ELSE done

Drains(k) == IsWriting(k) /\ ~k.rst /\ Len(k.out) \in 1..k.room

----------------------------------------------------------------------------
(* What epoll reports                                                      *)

Readable(k) == k.inq \/ k.peerFin \/ k.rst
HangUp(k) == k.rst \/ (k.peerFin /\ k.fin)
Revents(k) ==
    {e \in {"in"} : e \in k.epoll /\ Readable(k)}
    \cup {e \in {"out"} : e \in k.epoll /\ (k.room > 0 \/ k.rst)}
    \cup {e \in {"hup"} : k.epoll # NotIn /\ HangUp(k)}
    \cup {e \in {"err"} : k.epoll # NotIn /\ k.err}

\* The channels of loop l that are ready, each with its revents.
Ready(l) ==
    {<<"wakeup", {"in"}>> : x \in {y \in {l} : eventfd[y]}}
    \cup {<<"accept", {"in"}>> : c \in {d \in Conn : l = Main /\ conn[d].at = "backlog"}}
    \cup {<<c, Revents(conn[c])>> :
            c \in {d \in Conn : conn[d].loop = l /\ Revents(conn[d]) # {} /\ ~Destroyed(d)}}

Poll(l) ==
    /\ Ready(l) # {}
    /\ PollReturns(l, Ready(l))
    /\ UNCHANGED tcpVars
PollTimeout(l) ==
    /\ Ready(l) = {}
    /\ PollReturns(l, {})
    /\ UNCHANGED tcpVars

----------------------------------------------------------------------------
(* Handlers of the active channels of loop l                               *)

HandleWakeupEvent(l) ==
    /\ HandleWakeup(l, <<"wakeup", {"in"}>>)
    /\ UNCHANGED tcpVars

\* EventLoopThreadPool::getNextLoop, and next_ after it.
NextLoop == IF IoLoops = <<>> THEN Main ELSE IoLoops[next_ + 1]
NextAfterOff == IF next_ + 1 > Len(IoLoops) THEN 0 ELSE next_ + 1

NextAfter == IF next_ + 1 >= Len(IoLoops) THEN 0 ELSE next_ + 1

\* Acceptor::handleRead and TcpServer::newConnection: one connection is
\* accepted, and established in its own loop.
HandleAccept ==
    /\ TakeActive(Main, <<"accept", {"in"}>>)
    /\ \E c \in Conn :
          LET k == [conn[c] EXCEPT !.at = "accepted", !.loop = NextLoop]
          IN  /\ conn[c].at = "backlog"
              /\ connections' = connections \cup {c}
              /\ next_' = NextAfter
              /\ IF NextLoop = Main
                 THEN /\ conn' = [conn EXCEPT ![c] = ConnectEstablished(k)]
                      /\ held' = held \cup {c}
                      /\ QueueInLoop(Main, Main, SendQueues(c, Established(k)))
                 ELSE /\ conn' = [conn EXCEPT ![c] = k]
                      /\ QueueInLoop(Main, NextLoop, <<Bound("connectEstablished", c)>>)
                      /\ UNCHANGED held
    /\ UNCHANGED <<pc, quit_, eventfd, functors, ran, join, worker, inputs>>

RemoveConnectionForgets(t, c) ==
    /\ connections' = connections \ {c}
    /\ QueueInLoop(t, conn[c].loop, <<>>)

\* removeConnectionInLoop and removeConnection, called by thread t.
RemoveConnectionInLoop(t, c) ==
    /\ connections' = connections \ {c}
    /\ QueueInLoop(t, conn[c].loop, <<Bound("connectDestroyed", c)>>)
RemoveConnection(t, c) ==
    IF t = Main
    THEN RemoveConnectionInLoop(t, c)
    ELSE /\ QueueInLoop(t, Main, <<Bound("removeConnectionInLoop", c)>>)
         /\ UNCHANGED connections

\* handleRead with something to read: messageCallback_ answers, and then
\* shuts down if stop holds.  The peer may reset the connection between the
\* read and the answer (hit).
Got(k, hit) ==
    [k EXCEPT !.inq = FALSE, !.rst = @ \/ hit, !.err = @ \/ (hit /\ ~k.rst)]
Answered(k, stop) == IF stop THEN Shutdown(Send(k)) ELSE Send(k)

\* handleRead fails, which does not close: a reset came after poll returned.
ReadFails(k, r) == "in" \in r /\ ~k.inq /\ ~k.peerFin /\ k.err /\ "err" \notin r

\* handleError, from handleEventWithGuard or handleRead, only takes the error
\* from the socket.
HandleError(k, r) ==
    IF "err" \in r \/ ReadFails(k, r) THEN [k EXCEPT !.err = FALSE] ELSE k

\* Does handleEventWithGuard, with the events r, reach handleClose?
Closes(k, r) ==
    \/ "hup" \in r /\ "in" \notin r
    \/ "in" \in r /\ ~k.inq /\ (k.peerFin \/ k.rst) /\ ~ReadFails(k, r)

\* Channel::handleEvent for a connection: close, error, read, then write.  The
\* pointer taken from tie_ keeps the connection for the whole handler.
HandleEvent(l) ==
    \E a \in active[l] : \E c \in {d \in Conn : d = a[1]} :
        \E stop, hit \in BOOLEAN :
            LET k     == conn[c]
                r     == a[2]
                e     == HandleError(k, r)
                reads == "in" \in r /\ k.inq
                k1    == CASE Closes(k, r) -> HandleClose(e)
                           [] reads -> Answered(Got(e, hit), stop)
                           [] OTHER -> e
                k2    == IF "out" \in r THEN HandleWrite(k1) ELSE k1
                queued == (IF reads THEN SendQueues(c, Got(e, hit)) ELSE <<>>)
                          \o (IF "out" \in r /\ Drains(k1)
                              THEN <<Bound("writeComplete", c)>> ELSE <<>>)
            IN  /\ TakeActive(l, a)
                /\ stop \/ hit => reads
                /\ conn' = [conn EXCEPT ![c] = k2]
                /\ IF Closes(k, r)
                   THEN RemoveConnection(l, c)
                   ELSE QueueInLoop(l, l, queued) /\ UNCHANGED connections
                /\ UNCHANGED <<pc, quit_, eventfd, functors, ran, join,
                               next_, held, worker, inputs>>

----------------------------------------------------------------------------
(* Functors run by loop l                                                  *)

RunConnectEstablished(l) ==
    LET c == Functor(l).c
    IN  /\ TakeFunctor(l)
        /\ Functor(l).do = "connectEstablished"
        /\ conn' = [conn EXCEPT ![c] = ConnectEstablished(@)]
        /\ held' = held \cup {c}
        /\ QueueInLoop(l, l, SendQueues(c, Established(conn[c])))
        /\ UNCHANGED <<pc, quit_, eventfd, functors, active, join,
                       connections, next_, worker, inputs>>

RunRemoveConnection(l) ==
    /\ TakeFunctor(l)
    /\ Functor(l).do = "removeConnectionInLoop"
    /\ RemoveConnectionInLoop(l, Functor(l).c)
    /\ UNCHANGED <<pc, quit_, eventfd, functors, active, join,
                   conn, next_, held, worker, inputs>>

\* connectDestroyed, and sendInLoop and shutdownInLoop queued by the worker;
\* writeCompleteCallback_ does nothing here.
Outcome(do, k) ==
    CASE do = "connectDestroyed" -> ConnectDestroyed(k)
      [] do = "sendInLoop" -> [SendInLoop(k, Message(k)) EXCEPT !.sent = @ + 1]
      [] do = "shutdownInLoop" -> ShutdownInLoop(k)
      [] OTHER -> k
RunOther(l) ==
    LET f == Functor(l)
        k == conn[f.c]
    IN  /\ TakeFunctor(l)
        /\ f.do \notin {"connectEstablished", "removeConnectionInLoop"}
        /\ conn' = [conn EXCEPT ![f.c] = Outcome(f.do, k)]
        /\ QueueInLoop(l, l, IF f.do = "sendInLoop"
                             THEN WriteComplete(f.c, k, Message(k)) ELSE <<>>)
        /\ UNCHANGED <<pc, quit_, eventfd, functors, active, join,
                       connections, next_, held, worker, inputs>>

----------------------------------------------------------------------------
(* The worker of the application                                           *)

\* send() or shutdown() reads state_ ...
WorkerCalls ==
    /\ worker = Idle /\ Free(Worker) /\ inputs < MaxInputs
    /\ inputs' = inputs + 1
    /\ \E c \in held, op \in WorkerOps :
          worker' = IF Accepts(conn[c]) THEN <<"checked", op, c>> ELSE Idle
    /\ UNCHANGED <<loopVars, conn, connections, next_, held>>

\* ... shutdown() sets it ...
WorkerSetsState ==
    /\ worker[1] = "checked" /\ worker[2] = "shutdown"
    /\ conn' = [conn EXCEPT ![worker[3]].state = "kDisconnecting"]
    /\ worker' = [worker EXCEPT ![1] = "set"]
    /\ UNCHANGED <<loopVars, connections, next_, held, inputs>>

\* ... and a functor with the bare this goes to the connection's loop.
WorkerQueues ==
    /\ worker \notin {Idle, Gone}
    /\ worker[1] = (IF worker[2] = "send" THEN "checked" ELSE "set")
    /\ QueueInLoop(Worker, conn[worker[3]].loop,
                   <<Bound(IF worker[2] = "send" THEN "sendInLoop" ELSE "shutdownInLoop",
                           worker[3])>>)
    /\ worker' = Idle
    /\ UNCHANGED <<pc, quit_, eventfd, functors, ran, active, join,
                   conn, connections, next_, held, inputs>>

\* The application lets go of its pointer.
Drop(c) ==
    /\ c \in held /\ worker \in {Idle, Gone} /\ Free(Worker)
    /\ "drop" \in Accidents \/ ~RawQueued(c)
    /\ held' = held \ {c}
    /\ UNCHANGED <<loopVars, conn, connections, next_, worker, inputs>>

\* It tells the base loop to quit, as the last thing it does.
Running(l) == pc[l] \in {"poll", "handle", "run"}
QuitServer ==
    /\ worker = Idle /\ Free(Worker)
    /\ "early" \in Accidents \/ \A l \in Loop : Running(l)
    /\ Running(Main) /\ ~quit_[Main]
    /\ QuitFrom(Worker, Main)
    /\ worker' = IF "late" \in Accidents THEN Idle ELSE Gone
    /\ UNCHANGED <<pc, eventfd, pending, functors, ran, active, join,
                   conn, connections, next_, held, inputs>>

----------------------------------------------------------------------------
(* ~TcpServer in the main thread, after loop() has returned                *)

DestroyConnection ==
    /\ pc[Main] = "left" /\ Free(Main)
    /\ \E c \in connections :
          /\ connections' = connections \ {c}
          /\ IF conn[c].loop = Main
             THEN /\ conn' = [conn EXCEPT ![c] = ConnectDestroyed(@)]
                  /\ UNCHANGED <<pending, wakes>>
             ELSE /\ QueueInLoop(Main, conn[c].loop, <<Bound("connectDestroyed", c)>>)
                  /\ UNCHANGED conn
    /\ UNCHANGED <<pc, quit_, eventfd, functors, ran, active, join,
                   next_, held, worker, inputs>>

DestroyServer ==
    /\ pc[Main] = "left" /\ Free(Main)
    /\ connections = {}
    /\ pc' = [pc EXCEPT ![Main] = "quitting"]
    /\ UNCHANGED <<quit_, eventfd, pending, functors, ran, active, wakes, join, tcpVars>>

----------------------------------------------------------------------------
(* The peer of a connection                                                *)

Peer(c, k) ==
    /\ ~Destroyed(c)
    /\ conn' = [conn EXCEPT ![c] = k]
    /\ UNCHANGED <<loopVars, connections, next_, held, worker>>

PeerConnects(c) ==
    /\ conn[c].at = "nowhere" /\ pc[Main] # "start"
    /\ \E n \in 1..RoomSize : Peer(c, [conn[c] EXCEPT !.at = "backlog", !.room = n])
    /\ UNCHANGED inputs
PeerSends(c) ==
    /\ conn[c].at = "accepted" /\ ~conn[c].peerFin /\ ~conn[c].rst
    /\ inputs < MaxInputs
    /\ inputs' = inputs + 1
    /\ Peer(c, [conn[c] EXCEPT !.inq = TRUE])
PeerReads(c) ==
    /\ conn[c].room < RoomSize
    /\ Peer(c, [conn[c] EXCEPT !.room = @ + 1])
    /\ UNCHANGED inputs
PeerCloses(c) ==
    /\ conn[c].at = "accepted" /\ ~conn[c].peerFin /\ ~conn[c].rst
    /\ Peer(c, [conn[c] EXCEPT !.peerFin = TRUE])
    /\ UNCHANGED inputs
\* The kernel may or may not keep what has arrived and was not read.
PeerResets(c) ==
    /\ conn[c].at = "accepted" /\ ~conn[c].rst
    /\ \E kept \in {FALSE, conn[c].inq} :
          Peer(c, [conn[c] EXCEPT !.rst = TRUE, !.err = TRUE, !.inq = kept])
    /\ UNCHANGED inputs

----------------------------------------------------------------------------
LoopStep(l) ==
    \/ EnterLoop(l) /\ UNCHANGED tcpVars
    \/ Poll(l)
    \/ HandleWakeupEvent(l)
    \/ l = Main /\ HandleAccept
    \/ HandleEvent(l)
    \/ BeginPending(l) /\ UNCHANGED tcpVars
    \/ RunConnectEstablished(l)
    \/ RunRemoveConnection(l)
    \/ RunOther(l)
    \/ EndPending(l) /\ UNCHANGED tcpVars
    \/ PublishLoop(l) /\ UNCHANGED tcpVars
    \/ ThreadReturns(l) /\ UNCHANGED tcpVars

MainStep ==
    \/ DestroyConnection
    \/ DestroyServer
    \/ StartLoops /\ UNCHANGED tcpVars
    \/ QuitThread /\ UNCHANGED tcpVars
    \/ JoinThread /\ UNCHANGED tcpVars
    \/ MainReturns /\ UNCHANGED tcpVars

WakeStep(t) == \E l \in Loop : Wakeup(t, l) /\ UNCHANGED tcpVars

Next ==
    \/ \E l \in Loop : LoopStep(l) \/ PollTimeout(l)
    \/ MainStep
    \/ \E t \in Thread : WakeStep(t)
    \/ WorkerCalls \/ WorkerSetsState \/ WorkerQueues \/ QuitServer
    \/ \E c \in Conn :
          \/ Drop(c) \/ PeerConnects(c) \/ PeerSends(c) \/ PeerReads(c)
          \/ PeerCloses(c) \/ PeerResets(c)

Spec == Init /\ [][Next]_vars

(***************************************************************************)
(* Threads are scheduled: a loop that can move does, a call that was begun *)
(* is finished.  The application lets go of a pointer some time.  A peer   *)
(* that does not reset the connection keeps reading.  Nothing is assumed   *)
(* of the 10 s timeout of poll, of what peers send or when they close, or  *)
(* of when the worker calls.                                               *)
(***************************************************************************)
WorkerStep == WorkerSetsState \/ WorkerQueues \/ WakeStep(Worker)
Fairness ==
    /\ WF_vars(LoopStep(Main) \/ MainStep \/ WakeStep(Main))
    /\ \A l \in Range(IoLoops) : WF_vars(LoopStep(l) \/ WakeStep(l))
    /\ WF_vars(WorkerStep)
    /\ \A c \in Conn : WF_vars(Drop(c)) /\ WF_vars(PeerReads(c))
FairSpec == Spec /\ Fairness

----------------------------------------------------------------------------
(* Properties                                                              *)

Functors ==
    [do : {"connectEstablished", "connectDestroyed", "removeConnectionInLoop",
           "writeComplete", "sendInLoop", "shutdownInLoop"},
     c : Conn]

\* The types of the variables.
TypeOK ==
    /\ pc \in [Loop -> Place]
    /\ quit_ \in [Loop -> BOOLEAN] /\ eventfd \in [Loop -> BOOLEAN]
    /\ \A l \in Loop :
          /\ Range(pending[l]) \cup Range(functors[l]) \subseteq Functors
          /\ ran[l] \in 0..Len(functors[l])
    /\ wakes \in [Thread -> SUBSET Loop]
    /\ join \in 0..Len(IoLoops)
    /\ connections \subseteq Conn /\ held \subseteq Conn
    /\ next_ \in 0..Len(IoLoops)
    /\ IoLoops # <<>> => next_ < Len(IoLoops)
    /\ \A c \in Conn :
          /\ conn[c].state \in {"kConnecting", "kConnected", "kDisconnecting", "kDisconnected"}
          /\ conn[c].index \in {"kNew", "kAdded", "kDeleted"}
          /\ conn[c].epoll \in {NotIn} \cup SUBSET {"in", "out"}
          /\ conn[c].room \in 0..RoomSize

\* Is the server being destroyed?
Leaving == pc[Main] \in {"left", "quitting", "joining", "gone"}

\* No channel that poll reported, and no channel in the epoll set of a loop
\* that runs, is of a connection that is destroyed; a connection that was
\* reported down is in no epoll set.
ClosedIsSilent ==
    \A c \in Conn :
        /\ conn[c].downs > 0 => conn[c].epoll = NotIn
        /\ Destroyed(c) => \A l \in Loop : \A a \in active[l] : a[1] # c
        /\ Destroyed(c) /\ pc[conn[c].loop] # "gone" => conn[c].index = "kNew"

\* quit() sets quit_ and writes the eventfd after that, when the loop may
\* already have seen quit_, returned and been destroyed: such a write, of
\* ~EventLoopThread to the loop it waits for or of the worker that told the
\* base loop to quit, is the only access to a loop that is gone.
LateWakesOfQuit ==
    \A t \in Thread : \A l \in wakes[t] :
        pc[l] = "gone" =>
            \/ t = Main /\ pc[Main] = "joining" /\ l = IoLoops[join]
            \/ t = Worker /\ worker = Gone /\ l = Main

\* No functor with the bare this is of a destroyed connection, and no call of
\* the worker is about to enter a destroyed loop (true as long as the
\* application keeps clear of the first two Accidents).
NoUseAfterFree ==
    /\ \A c \in Conn : Destroyed(c) => ~RawQueued(c)
    /\ worker \notin {Idle, Gone} => pc[conn[worker[3]].loop] # "gone"

\* Not even such a write reaches a loop that is gone (the code does not keep
\* this one).
NoWakeOfGoneLoop ==
    \A t \in Thread : \A l \in wakes[t] : pc[l] # "gone"

\* What is destroyed is out of reach: events do not find a connection that is
\* gone, and no thread is about to touch a loop that is gone, except to write
\* the eventfd in a quit().
OutOfReach == TypeOK /\ ClosedIsSilent /\ LateWakesOfQuit

\* The application hears of a connection once when it comes up and once when
\* it goes down, whoever closes it and however often; while the server lives
\* a connection is not destroyed before it was reported down.
OnceUpOnceDown ==
    \A c \in Conn :
        /\ conn[c].ups <= 1 /\ conn[c].downs <= conn[c].ups
        /\ Destroyed(c) /\ ~Leaving => conn[c].ups = 1 /\ conn[c].downs = 1

\* The same, also for the connections that ~TcpServer destroys.
DownBeforeDestroyed ==
    \A c \in Conn :
        Destroyed(c) /\ conn[c].ups = 1 => conn[c].downs = 1

\* What sendInLoop was given, straight to the kernel or through the output
\* buffer, is what the kernel got or the buffer still has: in order, nothing
\* lost, nothing twice, as long as the peer does not reset the connection.
DataInOrder ==
    \A c \in Conn :
        ~conn[c].rst =>
            conn[c].wire \o conn[c].out = [i \in 1..MessageSize * conn[c].sent |-> i]

\* Our side is shut down only after the buffered data, and nothing is written
\* to it afterwards (which would end the process with SIGPIPE).
FinIsLast ==
    \A c \in Conn :
        /\ conn[c].fin /\ conn[c].downs = 0 => conn[c].out = <<>>
        /\ ~conn[c].sigpipe

\* The peer gets the bytes in order and then the FIN.
StreamInOrder == DataInOrder /\ FinIsLast

\* No write reaches a connection after its reset was reported, which would end
\* the process with SIGPIPE, as nothing here ignores that signal (the code does
\* not keep this one).
NoWriteAfterReset == \A c \in Conn : ~conn[c].epipe

\* A shutdown() that was asked for and has not closed our side yet is still
\* going to, although it races with the last write of the buffer: data is
\* left to write, or shutdownInLoop is on its way.
ShutdownUnderWay ==
    \A c \in Conn :
        conn[c].state = "kDisconnecting" /\ ~conn[c].fin /\ conn[c].downs = 0 =>
            \/ IsWriting(conn[c]) /\ conn[c].out # <<>>
            \/ RawQueued(c)
            \/ worker = <<"set", "shutdown", c>>
            \/ Leaving

\* A connection that was reported down is being released: the functor that
\* takes it out of connections_ or the one that destroys it is queued, it is
\* gone from both, or the server itself is being destroyed.
Queued(l, do, c) ==
    \E i \in ran[l] + 1..Len(functors[l]) + Len(pending[l]) :
        (functors[l] \o pending[l])[i] = Bound(do, c)
ReleaseUnderWay ==
    \A c \in Conn :
        conn[c].downs > 0 =>
            \/ c \in connections /\ Queued(Main, "removeConnectionInLoop", c)
            \/ c \notin connections /\ Queued(conn[c].loop, "connectDestroyed", c)
            \/ c \notin connections /\ conn[c].index = "kNew"
            \/ Leaving

\* While ~EventLoopThread waits for a thread, that thread has not forgotten
\* that it was told to quit (the code keeps this only if it is not told to
\* before every loop runs).
QuitNotForgotten ==
    pc[Main] = "joining" =>
        quit_[IoLoops[join]] \/ pc[IoLoops[join]] = "gone"

\* What one thread has asked of another is still under way: a shutdown, the
\* release of a closed connection.
NothingForgotten == ShutdownUnderWay /\ ReleaseUnderWay

\* shutdown() closes our side in the end, also when it races with the last
\* write of the buffer, unless the connection is closed first.
ShutdownEnds ==
    \A c \in Conn :
        conn[c].state = "kDisconnecting" ~>
            conn[c].fin \/ conn[c].downs > 0 \/ Leaving

\* When the peer closes or resets, the connection leaves connections_ and is
\* destroyed, without the help of the timeout of poll.
CloseReleases ==
    \A c \in Conn :
        conn[c].at = "accepted" /\ (conn[c].peerFin \/ conn[c].rst) ~>
            Destroyed(c) \/ Leaving

\* Told to quit, the server stops: every thread of the pool is joined.
QuitEnds == quit_[Main] ~> pc[Main] = "gone"
============================================================================
