----------------------------- MODULE EventLoop -----------------------------
(***************************************************************************)
(* The reactor of muduo_cpp11: EventLoop, EventLoopThread and the part of  *)
(* Thread and EventLoopThreadPool that starts and stops the threads.       *)
(*                                                                         *)
(* One loop per thread, so a loop and its thread share a name.  A loop     *)
(* turns round poll, the handlers of the active channels, and the functors *)
(* other threads (or its own handlers) have queued; an eventfd ends a poll *)
(* early.  queueInLoop is not one step: the functor is pushed under the    *)
(* mutex, and the eventfd written after it is released; wakes holds what a *)
(* thread still has to write.                                              *)
(***************************************************************************)
EXTENDS Naturals, Sequences, SequencesExt

CONSTANTS
    Main,     \* the loop of the thread that runs main()
    IoLoops,  \* the loops of the pool, in the order of loops_
    Worker    \* a thread of the application that has no loop

Loop == {Main} \cup Range(IoLoops)
Thread == Loop \cup {Worker}

ASSUME LoopAssumption ==
    /\ IoLoops \in Seq(Range(IoLoops))
    /\ IsInjective(IoLoops)
    /\ Main \notin Range(IoLoops)
    /\ Worker \notin Loop

VARIABLES
    pc,        \* pc[l]: where the thread of l is
    quit_,     \* quit_[l]
    eventfd,   \* eventfd[l]: is the counter of wakeupFd_ non-zero?
    pending,   \* pending[l]: pendingFunctors_
    functors,  \* functors[l]: the functors swapped out and being run
    ran,       \* ran[l]: how many of them have run
    active,    \* active[l]: channels of activeChannels_ not handled yet
    wakes,     \* wakes[t]: loops whose eventfd thread t is about to write
    join       \* how many threads of the pool ~EventLoopThread has reached

loopVars == <<pc, quit_, eventfd, pending, functors, ran, active, wakes, join>>

(***************************************************************************)
(* boot      threadFunc, before loop_ is published   (a pool thread)       *)
(* start     TcpServer::start, before loop()         (the main thread)     *)
(* ready     loop() is about to be entered                                 *)
(* poll      in poller_->poll                                              *)
(* handle    in the loop over activeChannels_                              *)
(* run       in doPendingFunctors: callingPendingFunctors_ holds           *)
(* left      loop() has returned                                           *)
(* quitting, joining   ~EventLoopThread              (the main thread)     *)
(* gone      the EventLoop is destroyed                                    *)
(***************************************************************************)
Place == {"boot", "start", "ready", "poll", "handle", "run", "left",
          "quitting", "joining", "gone"}

LoopInit ==
    /\ pc = [l \in Loop |-> IF l = Main THEN "start" ELSE "boot"]
    /\ quit_ = [l \in Loop |-> FALSE]
    /\ eventfd = [l \in Loop |-> FALSE]
    /\ pending = [l \in Loop |-> <<>>]
    /\ functors = [l \in Loop |-> <<>>]
    /\ ran = [l \in Loop |-> 0]
    /\ active = [l \in Loop |-> {}]
    /\ wakes = [t \in Thread |-> {}]
    /\ join = 0

\* A thread goes on only after the eventfd writes its last call owes.
Free(t) == wakes[t] = {}

----------------------------------------------------------------------------
(* Queueing                                                                *)

CallingPendingFunctors(l) == pc[l] = "run"

MustWakeOthersOnly(t, l) == t # l

\* Does thread t, having pushed a functor to l, write l's eventfd?
MustWake(t, l) == t # l \/ CallingPendingFunctors(l)

\* The part of queueInLoop under the mutex, called by thread t with the
\* functors fs for loop l.
QueueInLoop(t, l, fs) ==
    /\ pending' = [pending EXCEPT ![l] = @ \o fs]
    /\ wakes' = [wakes EXCEPT ![t] = @ \cup {x \in {l} : fs # <<>> /\ MustWake(t, l)}]

\* wakeup(): the write to l's eventfd that thread t owes.
Wakeup(t, l) ==
    /\ l \in wakes[t]
    /\ eventfd' = [eventfd EXCEPT ![l] = TRUE]
    /\ wakes' = [wakes EXCEPT ![t] = @ \ {l}]
    /\ UNCHANGED <<pc, quit_, pending, functors, ran, active, join>>

\* quit() called by another thread t; the caller moves its own pc.
QuitFrom(t, l) ==
    /\ quit_' = [quit_ EXCEPT ![l] = TRUE]
    /\ wakes' = [wakes EXCEPT ![t] = @ \cup {l}]

----------------------------------------------------------------------------
(* loop()                                                                  *)

\* loop() begins by clearing quit_: a quit() from before it is forgotten.
EnterLoop(l) ==
    /\ pc[l] = "ready"
    /\ pc' = [pc EXCEPT ![l] = "poll"]
    /\ quit_' = [quit_ EXCEPT ![l] = FALSE]
    /\ UNCHANGED <<eventfd, pending, functors, ran, active, wakes, join>>

\* poll() returns with the channels that are ready; an empty set is the
\* return after kPollTimeMs.
PollReturns(l, ready) ==
    /\ pc[l] = "poll"
    /\ active' = [active EXCEPT ![l] = ready]
    /\ pc' = [pc EXCEPT ![l] = "handle"]
    /\ UNCHANGED <<quit_, eventfd, pending, functors, ran, wakes, join>>

\* One channel of activeChannels_ is taken to be handled.
TakeActive(l, a) ==
    /\ pc[l] = "handle" /\ Free(l)
    /\ a \in active[l]
    /\ active' = [active EXCEPT ![l] = @ \ {a}]

\* EventLoop::handleRead, the handler of wakeupChannel_ (named a).
HandleWakeup(l, a) ==
    /\ TakeActive(l, a)
    /\ eventfd' = [eventfd EXCEPT ![l] = FALSE]
    /\ UNCHANGED <<pc, quit_, pending, functors, ran, wakes, join>>

\* doPendingFunctors up to and including the swap.
BeginPending(l) ==
    /\ pc[l] = "handle" /\ Free(l)
    /\ active[l] = {}
    /\ functors' = [functors EXCEPT ![l] = pending[l]]
    /\ pending' = [pending EXCEPT ![l] = <<>>]
    /\ ran' = [ran EXCEPT ![l] = 0]
    /\ pc' = [pc EXCEPT ![l] = "run"]
    /\ UNCHANGED <<quit_, eventfd, active, wakes, join>>

\* The next functor of doPendingFunctors.
Functor(l) == functors[l][ran[l] + 1]
TakeFunctor(l) ==
    /\ pc[l] = "run" /\ Free(l)
    /\ ran[l] < Len(functors[l])
    /\ ran' = [ran EXCEPT ![l] = @ + 1]

\* The end of doPendingFunctors, where the vector of functors and all they
\* hold are destroyed, and the test of quit_ in loop().
EndPending(l) ==
    /\ pc[l] = "run" /\ Free(l)
    /\ ran[l] = Len(functors[l])
    /\ functors' = [functors EXCEPT ![l] = <<>>]
    /\ ran' = [ran EXCEPT ![l] = 0]
    /\ pc' = [pc EXCEPT ![l] = IF quit_[l] THEN "left" ELSE "poll"]
    /\ UNCHANGED <<quit_, eventfd, pending, active, wakes, join>>

----------------------------------------------------------------------------
(* Threads of the pool                                                     *)

\* threadFunc publishes loop_ and notifies startLoop.
PublishLoop(l) ==
    /\ l # Main /\ pc[l] = "boot"
    /\ pc' = [pc EXCEPT ![l] = "ready"]
    /\ UNCHANGED <<quit_, eventfd, pending, functors, ran, active, wakes, join>>

\* threadFunc returns: the EventLoop on its stack is destroyed, with the
\* functors still queued in it.
ThreadReturns(l) ==
    /\ l # Main /\ pc[l] = "left"
    /\ pc' = [pc EXCEPT ![l] = "gone"]
    /\ pending' = [pending EXCEPT ![l] = <<>>]
    /\ UNCHANGED <<quit_, eventfd, functors, ran, active, wakes, join>>

\* EventLoopThreadPool::start in the main thread: each startLoop waits until
\* loop_ is published.
StartLoops ==
    /\ pc[Main] = "start"
    /\ \A l \in Loop \ {Main} : pc[l] # "boot"
    /\ pc' = [pc EXCEPT ![Main] = "ready"]
    /\ UNCHANGED <<quit_, eventfd, pending, functors, ran, active, wakes, join>>

\* ~EventLoopThread for the loops of the pool in turn: quit(), then join().
QuitThread ==
    /\ pc[Main] = "quitting" /\ join < Len(IoLoops)
    /\ QuitFrom(Main, IoLoops[join + 1])
    /\ join' = join + 1
    /\ pc' = [pc EXCEPT ![Main] = "joining"]
    /\ UNCHANGED <<eventfd, pending, functors, ran, active>>
JoinThreadAtOnce ==
    /\ pc[Main] = "joining" /\ Free(Main)
    /\ pc' = [pc EXCEPT ![Main] = "quitting"]
    /\ UNCHANGED <<quit_, eventfd, pending, functors, ran, active, wakes, join>>

JoinThread ==
    /\ pc[Main] = "joining" /\ Free(Main)
    /\ pc[IoLoops[join]] = "gone"
    /\ pc' = [pc EXCEPT ![Main] = "quitting"]
    /\ UNCHANGED <<quit_, eventfd, pending, functors, ran, active, wakes, join>>

\* main() returns: the base loop is destroyed with what is queued in it.
MainReturns ==
    /\ pc[Main] = "quitting" /\ join = Len(IoLoops)
    /\ pc' = [pc EXCEPT ![Main] = "gone"]
    /\ pending' = [pending EXCEPT ![Main] = <<>>]
    /\ UNCHANGED <<quit_, eventfd, functors, ran, active, wakes, join>>

----------------------------------------------------------------------------
(* Properties of the loops                                                 *)

\* A loop is blocked in poll with its eventfd at zero, although a functor is
\* queued or it was told to quit, only while the thread that did so has
\* still to write the eventfd.  Otherwise the work would wait for the 10 s of
\* kPollTimeMs, or for the next event of a socket.
NoSleepOnWork ==
    \A l \in Loop :
        pc[l] = "poll" /\ (pending[l] # <<>> \/ quit_[l]) =>
            eventfd[l] \/ \E t \in Thread : l \in wakes[t]
============================================================================
