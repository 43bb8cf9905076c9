-------------------------- MODULE MapReduceMaster --------------------------
(***************************************************************************)
(* The MapReduce master (6.824/src/MapReduce/master.cpp).                  *)
(*                                                                         *)
(* The RPC server runs one handler at a time on its own thread.  Every     *)
(* task handed out starts a detached timer thread that sleeps and then,    *)
(* under m_assign_lock, looks at the entry runningMapWork[curMapIndex] and *)
(* puts it back on the work queue unless it is finished.  Between two      *)
(* critical sections of a handler any timer thread may run.                *)
(*                                                                         *)
(* A file name is a member of Argv, the command line.  m_list holds        *)
(* char pointers: into argv, or (after a timeout) into the string kept in  *)
(* the vector runningMapWork.  A name in Short fits in the string object   *)
(* itself (small-string optimisation), so such a pointer dangles once the  *)
(* vector reallocates; reading it then yields the old bytes or Garbage.    *)
(***************************************************************************)
EXTENDS Naturals, Sequences, FiniteSets

CONSTANTS
    Argv,          \* the sequence of file names on the command line
    Short,         \* the names short enough to be stored inside std::string
    Garbage,       \* whatever bytes a dangling char* reads
    ReduceNum,     \* m_reduceNum
    MaxRuns        \* bound: map (reduce) tasks handed out, and their timers

Files == {Argv[i] : i \in 1..Len(Argv)}
Names == Files \cup {Garbage}
ReduceTasks == 0..(ReduceNum - 1)
NoTask == ReduceNum          \* the reply -1 of assignReduceTask

ASSUME ArgvAssumption ==
    /\ Argv \in Seq(Files) 
    /\ Len(Argv) > 0
    /\ \A i, j \in 1..Len(Argv) : Argv[i] = Argv[j] => i = j
ASSUME NamesAssumption ==
    /\ Short \subseteq Files
    /\ Garbage \notin Files
ASSUME NumAssumption ==
    /\ ReduceNum \in Nat \ {0}
    /\ MaxRuns \in Nat

VARIABLES
    m_list,              \* stack of char*: [name, cap], cap = 0 if it cannot dangle
    finishedMapTask,
    runningMapWork,
    mapCap,              \* capacity of the vector runningMapWork
    curMapIndex,
    mapTimers,           \* number of waitMapTask threads not yet finished
    reduceIndex,
    finishedReduceTask,
    runningReduceWork,
    curReduceIndex,
    reduceTimers,
    rpc,                 \* the handler the server thread is in
    mapReply,            \* names assignTask has returned so far
    reduceReply          \* indices assignReduceTask has returned so far

mapVars == <<m_list, finishedMapTask, runningMapWork, mapCap, curMapIndex,
             mapTimers>>
reduceVars == <<reduceIndex, finishedReduceTask, runningReduceWork,
                curReduceIndex, reduceTimers>>
vars == <<mapVars, reduceVars, rpc, mapReply, reduceReply>>
Entry == [name : Names, cap : Nat]

\* What a char* taken from m_list may read: a pointer into the vector's own
\* storage is valid only while the vector has not reallocated.
Deref(e) == IF e.cap \in {0, mapCap} THEN {e.name} ELSE {e.name, Garbage}

\* c_str() of runningMapWork[i]: inside the vector for a short string, on the
\* heap (and moved, not copied, by a reallocation) for a long one.
CStr(name) ==
    [name |-> name, cap |-> IF name \in Short \cup {Garbage} THEN mapCap ELSE 0]

\* push_back doubles a full vector.
GrowCap == IF Len(runningMapWork) < mapCap THEN mapCap
           ELSE IF mapCap = 0 THEN 1 ELSE 2 * mapCap

Idle == [pc |-> "idle", task |-> [name |-> Garbage, cap |-> 0], idx |-> NoTask]

\* mutant: the reduce tasks are numbered from 1
ReduceIndexFromOne == [i \in 1..ReduceNum |-> i]
InitReduceIndex == [i \in 1..ReduceNum |-> i - 1]

Init ==
    /\ m_list = [i \in 1..Len(Argv) |-> [name |-> Argv[i], cap |-> 0]]
    /\ finishedMapTask = {}
    /\ runningMapWork = <<>>
    /\ mapCap = 0
    /\ curMapIndex = 0
    /\ mapTimers = 0
    /\ reduceIndex = InitReduceIndex
    /\ finishedReduceTask = {}
    /\ runningReduceWork = <<>>
    /\ curReduceIndex = 0
    /\ reduceTimers = 0
    /\ rpc = Idle
    /\ mapReply = {}
    /\ reduceReply = {}

\* mutant: the map phase ends one report early
IsMapDoneEarly == Cardinality(finishedMapTask) >= Len(Argv) - 1
IsMapDone == Cardinality(finishedMapTask) = Len(Argv)
Done == Cardinality(finishedReduceTask) = ReduceNum

Back(s) == s[Len(s)]
\* mutant: pop_back() is forgotten
PopBackForgotten(s) == s
PopBack(s) == SubSeq(s, 1, Len(s) - 1)
----------------------------------------------------------------------------
(* The map phase.  assignTask is four steps of the server thread: the      *)
(* unlocked test of m_list, the critical section that pops, the one of     *)
(* waitMap that records the task, and the start of the timer thread with   *)
(* the reply.                                                              *)

\* mutant: the test for an empty queue is dropped
AssignTaskUnchecked ==
    /\ rpc.pc = "idle"
    /\ ~IsMapDone
    /\ Len(runningMapWork) < MaxRuns
    /\ rpc' = [rpc EXCEPT !.pc = "popMap"]
    /\ UNCHANGED <<mapVars, reduceVars, mapReply, reduceReply>>
\* assignTask finds work.  (When it does not, it replies "empty" and leaves
\* the master as it was.)
AssignTask ==
    /\ rpc.pc = "idle"
    /\ ~IsMapDone
    /\ m_list # <<>>
    /\ Len(runningMapWork) < MaxRuns
    /\ rpc' = [rpc EXCEPT !.pc = "popMap"]
    /\ UNCHANGED <<mapVars, reduceVars, mapReply, reduceReply>>

PopTask ==
    /\ rpc.pc = "popMap"
    /\ m_list # <<>>
    /\ rpc' = [rpc EXCEPT !.pc = "waitMap", !.task = Back(m_list)]
    /\ m_list' = PopBack(m_list)
    /\ UNCHANGED <<finishedMapTask, runningMapWork, mapCap, curMapIndex,
                   mapTimers, reduceVars, mapReply, reduceReply>>

\* string(task) is read, and waitMap records it as running.
WaitMap ==
    /\ rpc.pc = "waitMap"
    /\ \E name \in Deref(rpc.task) :
          runningMapWork' = Append(runningMapWork, name)
    /\ mapCap' = GrowCap
    /\ rpc' = [rpc EXCEPT !.pc = "startMap"]
    /\ UNCHANGED <<m_list, finishedMapTask, curMapIndex, mapTimers, reduceVars,
                   mapReply, reduceReply>>

\* The timer thread starts, and the pointer is read once more for the reply.
ReplyTask(name) ==
    /\ rpc.pc = "startMap"
    /\ name \in Deref(rpc.task)
    /\ mapTimers' = mapTimers + 1
    /\ mapReply' = mapReply \cup {name}
    /\ rpc' = Idle
    /\ UNCHANGED <<m_list, finishedMapTask, runningMapWork, mapCap, curMapIndex,
                   reduceVars, reduceReply>>

\* mutant: a timed-out task is not put back
RequeueNever(name) == m_list
\* mutant: a task is put back whether it was reported or not
RequeueAlways(name) == Append(m_list, CStr(name))
Requeue(name) == IF name \in finishedMapTask THEN m_list
                 ELSE Append(m_list, CStr(name))

\* mutant: curMapIndex++ only on the timeout branch
WaitMapTaskSkipsIncrement ==
    /\ mapTimers > 0
    /\ LET name == runningMapWork[curMapIndex + 1] IN
          /\ m_list' = Requeue(name)
          /\ curMapIndex' = IF name \in finishedMapTask THEN curMapIndex
                            ELSE curMapIndex + 1
    /\ mapTimers' = mapTimers - 1
    /\ UNCHANGED <<finishedMapTask, runningMapWork, mapCap, reduceVars, rpc,
                   mapReply, reduceReply>>
\* A timer thread after its sleep: whichever thread it is, it judges the
\* oldest entry not yet judged.
WaitMapTask ==
    /\ mapTimers > 0
    /\ m_list' = Requeue(runningMapWork[curMapIndex + 1])
    /\ curMapIndex' = curMapIndex + 1
    /\ mapTimers' = mapTimers - 1
    /\ UNCHANGED <<finishedMapTask, runningMapWork, mapCap, reduceVars, rpc,
                   mapReply, reduceReply>>

\* A worker reports a task it was given: at any time, late or more than once.
SetMapStat(name) ==
    /\ rpc.pc = "idle"
    /\ name \in mapReply
    /\ finishedMapTask' = finishedMapTask \cup {name}
    /\ UNCHANGED <<m_list, runningMapWork, mapCap, curMapIndex, mapTimers,
                   reduceVars, rpc, mapReply, reduceReply>>
----------------------------------------------------------------------------
(* The reduce phase, with integers for pointers. *)

AssignReduceTask ==
    /\ rpc.pc = "idle"
    /\ ~Done
    /\ reduceIndex # <<>>
    /\ Len(runningReduceWork) < MaxRuns
    /\ rpc' = [rpc EXCEPT !.pc = "popReduce"]
    /\ UNCHANGED <<mapVars, reduceVars, mapReply, reduceReply>>

PopReduceTask ==
    /\ rpc.pc = "popReduce"
    /\ reduceIndex # <<>>
    /\ rpc' = [rpc EXCEPT !.pc = "waitReduce", !.idx = Back(reduceIndex)]
    /\ reduceIndex' = PopBack(reduceIndex)
    /\ UNCHANGED <<mapVars, finishedReduceTask, runningReduceWork,
                   curReduceIndex, reduceTimers, mapReply, reduceReply>>

WaitReduce ==
    /\ rpc.pc = "waitReduce"
    /\ runningReduceWork' = Append(runningReduceWork, rpc.idx)
    /\ rpc' = [rpc EXCEPT !.pc = "startReduce"]
    /\ UNCHANGED <<mapVars, reduceIndex, finishedReduceTask, curReduceIndex,
                   reduceTimers, mapReply, reduceReply>>

ReplyReduceTask ==
    /\ rpc.pc = "startReduce"
    /\ reduceTimers' = reduceTimers + 1
    /\ reduceReply' = reduceReply \cup {rpc.idx}
    /\ rpc' = Idle
    /\ UNCHANGED <<mapVars, reduceIndex, finishedReduceTask, runningReduceWork,
                   curReduceIndex, mapReply>>

\* mutant: a timed-out reduce task is not put back
RequeueReduceNever(idx) == reduceIndex
RequeueReduce(idx) == IF idx \in finishedReduceTask THEN reduceIndex
                      ELSE Append(reduceIndex, idx)

WaitReduceTask ==
    /\ reduceTimers > 0
    /\ reduceIndex' = RequeueReduce(runningReduceWork[curReduceIndex + 1])
    /\ curReduceIndex' = curReduceIndex + 1
    /\ reduceTimers' = reduceTimers - 1
    /\ UNCHANGED <<mapVars, finishedReduceTask, runningReduceWork, rpc,
                   mapReply, reduceReply>>

SetReduceStat(idx) ==
    /\ rpc.pc = "idle"
    /\ idx \in reduceReply
    /\ finishedReduceTask' = finishedReduceTask \cup {idx}
    /\ UNCHANGED <<mapVars, reduceIndex, runningReduceWork, curReduceIndex,
                   reduceTimers, rpc, mapReply, reduceReply>>
----------------------------------------------------------------------------
Next ==
    \/ AssignTask
    \/ PopTask
    \/ WaitMap
    \/ \E name \in Names : ReplyTask(name)
    \/ WaitMapTask
    \/ \E name \in Names : SetMapStat(name)
    \/ AssignReduceTask
    \/ PopReduceTask
    \/ WaitReduce
    \/ ReplyReduceTask
    \/ WaitReduceTask
    \/ \E idx \in ReduceTasks : SetReduceStat(idx)

Spec == Init /\ [][Next]_vars
----------------------------------------------------------------------------
(* Properties *)

MapPcs == {"popMap", "waitMap", "startMap"}
ReducePcs == {"popReduce", "waitReduce", "startReduce"}

\* The type invariant of the master's fields and of the handler in progress.
TypeOK ==
    /\ m_list \in Seq(Entry)
    /\ finishedMapTask \in SUBSET Names
    /\ runningMapWork \in Seq(Names)
    /\ mapCap \in Nat
    /\ curMapIndex \in Nat
    /\ mapTimers \in Nat
    /\ reduceIndex \in Seq(ReduceTasks)
    /\ finishedReduceTask \in SUBSET ReduceTasks
    /\ runningReduceWork \in Seq(ReduceTasks)
    /\ curReduceIndex \in Nat
    /\ reduceTimers \in Nat
    /\ rpc \in [pc : {"idle"} \cup MapPcs \cup ReducePcs,
                task : Entry, idx : ReduceTasks \cup {NoTask}]
    /\ mapReply \in SUBSET Names
    /\ reduceReply \in SUBSET ReduceTasks

\* Every entry of runningMapWork (runningReduceWork) from curMapIndex on has
\* exactly one timer thread, sleeping or about to be started: the threads share
\* one index, yet none of them ever reads past the vector (master.cpp:115) and
\* no entry is left without a thread to judge it.
OneTimerPerEntry ==
    /\ Len(runningMapWork) =
          curMapIndex + mapTimers + (IF rpc.pc = "startMap" THEN 1 ELSE 0)
    /\ Len(runningReduceWork) =
          curReduceIndex + reduceTimers + (IF rpc.pc = "startReduce" THEN 1 ELSE 0)

\* The unlocked test !m_list.empty() (master.cpp:92, 212) is still true when the
\* handler has the lock and calls back() and pop_back().
PopFindsTask ==
    /\ rpc.pc = "popMap" => m_list # <<>>
    /\ rpc.pc = "popReduce" => reduceIndex # <<>>

\* The tasks in the work queue, the ones handed out and not yet judged by a
\* timer, and the one a handler has popped and not yet recorded.
MapQueued == {m_list[i].name : i \in 1..Len(m_list)}
MapOut == {runningMapWork[i] : i \in (curMapIndex + 1)..Len(runningMapWork)}
MapHeld == IF rpc.pc = "waitMap" THEN {rpc.task.name} ELSE {}
ReduceQueued == {reduceIndex[i] : i \in 1..Len(reduceIndex)}
ReduceOut ==
    {runningReduceWork[i] : i \in (curReduceIndex + 1)..Len(runningReduceWork)}
ReduceHeld == IF rpc.pc = "waitReduce" THEN {rpc.idx} ELSE {}

\* Redistribution of failed tasks: whatever workers crash and whichever timers
\* fire late, a task that is not finished is always on its way to a worker (in
\* the queue, in the handler) or watched by a timer that will put it back.
NoTaskLost ==
    /\ Files \subseteq finishedMapTask \cup MapQueued \cup MapOut \cup MapHeld
    /\ ReduceTasks \subseteq
          finishedReduceTask \cup ReduceQueued \cup ReduceOut \cup ReduceHeld

Injective(s, from) == \A i, j \in from..Len(s) : s[i] = s[j] => i = j

\* A task exists once: it is never both in the queue and out with a worker whose
\* timer still runs, nor twice in either, so at any time at most one execution
\* of it is within its time limit.
OneCopyPerTask ==
    /\ \A i, j \in 1..Len(m_list) : m_list[i].name = m_list[j].name => i = j
    /\ Injective(runningMapWork, curMapIndex + 1)
    /\ MapQueued \cap MapOut = {}
    /\ MapHeld \cap (MapQueued \cup MapOut) = {}
    /\ Injective(reduceIndex, 1)
    /\ Injective(runningReduceWork, curReduceIndex + 1)
    /\ ReduceQueued \cap ReduceOut = {}
    /\ ReduceHeld \cap (ReduceQueued \cup ReduceOut) = {}

\* isMapDone and Done compare sizes only; when they say true, every file and
\* every reduce index really has been reported.
DoneMeansAllReported ==
    /\ IsMapDone => Files \subseteq finishedMapTask
    /\ Done => ReduceTasks \subseteq finishedReduceTask

\* Every task is accounted for until it was reported: it exists, exists once, and
\* the end of a phase is announced only when none is left.
TasksAccounted == NoTaskLost /\ OneCopyPerTask /\ DoneMeansAllReported

\* assignTask answers with a name of the command line.  The comment at
\* master.cpp:122 says that the c_str() pushed on m_list does not turn into an
\* empty string.
ReplyIsAFile == mapReply \subseteq Files
============================================================================
