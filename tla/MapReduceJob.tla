---------------------------- MODULE MapReduceJob ----------------------------
(***************************************************************************)
(* A whole job: the master composed with the worker process                *)
(* (6.824/src/MapReduce/worker.cpp), its main thread, its mapWorker and    *)
(* reduceWorker threads and the files they share.                          *)
(*                                                                         *)
(* An RPC that the master answers within one critical section is one step; *)
(* assignTask and assignReduceTask are the master's own four steps, during *)
(* which "caller" is blocked.  The intermediate file mr-i-j is written by  *)
(* the map worker whose mapTaskIdx is i, bucket by bucket: inter[i][j][f]  *)
(* counts how often it has appended the words of file f to bucket j.  A    *)
(* file in which nothing has been counted does not exist.                  *)
(*                                                                         *)
(* The workers are detached threads: they go on while main removes the     *)
(* intermediate files, until the process ends.                             *)
(***************************************************************************)
EXTENDS MapReduceMaster

CONSTANTS
    MapWorkers,      \* threads created by main before it waits
    ReduceWorkers,   \* threads created by main after it is woken
    NoWorker,
    DisabledGets,    \* values of disabledMapId that hang a worker ({1,3,5})
    MaxEarly         \* bound: timeouts of a worker that is slow, not hung

Workers == MapWorkers \cup ReduceWorkers

ASSUME WorkersAssumption ==
    /\ MapWorkers \cap ReduceWorkers = {}
    /\ NoWorker \notin Workers
    /\ MaxEarly \in Nat

VARIABLES
    mpc,              \* where main() is
    wpc,              \* where each worker thread is
    caller,           \* the worker whose assign call the master serves
    task,             \* taskTmp (reduceTaskIdx) of each worker
    todo,             \* buckets writeInDisk has still to append
    mapHolder,        \* the workers given runningMapWork[i] ...
    reduceHolder,     \* ... and runningReduceWork[i]
    disabledMapId,
    disabledReduceId,
    early,            \* timeouts of live workers so far
    doomed,           \* the files removeFiles has still to look at
    inter,            \* the files mr-i-j
    toRead,           \* the files mr-i-j Myshuffle has listed and not yet read
    seen,             \* what it has read
    output            \* the files mr-out-j: the blocks appended to each

fileVars == <<doomed, inter, toRead, seen, output>>
jobVars == <<mpc, wpc, caller, task, todo, mapHolder, reduceHolder,
             disabledMapId, disabledReduceId, early, fileVars>>
allVars == <<vars, jobVars>>

\* The content of a file that does not exist.
NoFile == [f \in Names |-> 0]
NothingRead == [text |-> [i \in MapWorkers |-> NoFile], ownOutput |-> FALSE]

JobInit ==
    /\ Init
    /\ mpc = "start"
    /\ wpc = [w \in Workers |-> "unborn"]
    /\ caller = NoWorker
    /\ task = [w \in Workers |-> NoTask]
    /\ todo = [w \in MapWorkers |-> {}]
    /\ mapHolder = <<>>
    /\ reduceHolder = <<>>
    /\ disabledMapId = 0
    /\ disabledReduceId = 0
    /\ early = 0
    /\ doomed = {}
    /\ inter = [i \in MapWorkers |-> [j \in ReduceTasks |-> NoFile]]
    /\ toRead = [w \in ReduceWorkers |-> {}]
    /\ seen = [w \in ReduceWorkers |-> NothingRead]
    /\ output = [j \in ReduceTasks |-> <<>>]

\* The process is gone once main returns.
Running(w, pc) == mpc # "exit" /\ wpc[w] = pc
Goto(w, pc) == wpc' = [wpc EXCEPT ![w] = pc]
----------------------------------------------------------------------------
(* main *)

\* main creates the map workers and only then waits on cond.
MainSpawnMap ==
    /\ mpc = "start"
    /\ mpc' = "spawned"
    /\ wpc' = [w \in Workers |-> IF w \in MapWorkers THEN "poll" ELSE wpc[w]]
    /\ UNCHANGED <<vars, caller, task, todo, mapHolder, reduceHolder,
                   disabledMapId, disabledReduceId, early, fileVars>>

\* pthread_cond_wait, with no predicate tested before or after.  (Spurious
\* wakeups, which POSIX allows, are left out.)
MainWait ==
    /\ mpc = "spawned"
    /\ mpc' = "wait"
    /\ UNCHANGED <<vars, wpc, caller, task, todo, mapHolder, reduceHolder,
                   disabledMapId, disabledReduceId, early, fileVars>>

MainSpawnReduce ==
    /\ mpc = "woken"
    /\ mpc' = "poll"
    /\ wpc' = [w \in Workers |-> IF w \in ReduceWorkers THEN "poll" ELSE wpc[w]]
    /\ UNCHANGED <<vars, caller, task, todo, mapHolder, reduceHolder,
                   disabledMapId, disabledReduceId, early, fileVars>>

\* mutant: main does not ask the master
MainDoneUnasked ==
    /\ mpc = "poll"
    /\ mpc' = "remove"
    /\ doomed' = MapWorkers \X ReduceTasks
    /\ UNCHANGED <<vars, wpc, caller, task, todo, mapHolder, reduceHolder,
                   disabledMapId, disabledReduceId, early, inter, toRead, seen,
                   output>>
\* The Done RPC says true: main starts to remove the intermediate files.
MainDone ==
    /\ mpc = "poll"
    /\ rpc.pc = "idle"
    /\ Done
    /\ mpc' = "remove"
    /\ doomed' = MapWorkers \X ReduceTasks
    /\ UNCHANGED <<vars, wpc, caller, task, todo, mapHolder, reduceHolder,
                   disabledMapId, disabledReduceId, early, inter, toRead, seen,
                   output>>

\* One turn of removeFiles: the files of one i, from j = 0 on, then the next i.
RemoveFile(i, j) ==
    /\ mpc = "remove"
    /\ <<i, j>> \in doomed
    /\ \A file \in doomed : file[1] = i => file[2] >= j
    /\ \A file \in doomed : file[1] # i => {file[1]} \X ReduceTasks \subseteq doomed
    /\ doomed' = doomed \ {<<i, j>>}
    /\ inter' = [inter EXCEPT ![i][j] = NoFile]
    /\ UNCHANGED <<vars, mpc, wpc, caller, task, todo, mapHolder, reduceHolder,
                   disabledMapId, disabledReduceId, early, toRead, seen, output>>

\* main returns and the process ends, whatever its other threads are doing.
\* (dlclose comes just before: a reducer that calls reduceF in between ends the
\* process too.)
MainExit ==
    /\ mpc = "remove"
    /\ doomed = {}
    /\ mpc' = "exit"
    /\ UNCHANGED <<vars, wpc, caller, task, todo, mapHolder, reduceHolder,
                   disabledMapId, disabledReduceId, early, fileVars>>
----------------------------------------------------------------------------
(* The calls the master serves in several steps. *)

ServePop ==
    /\ PopTask \/ PopReduceTask
    /\ UNCHANGED jobVars

ServeWaitMap ==
    /\ WaitMap
    /\ mapHolder' = Append(mapHolder, caller)
    /\ UNCHANGED <<mpc, wpc, caller, task, todo, reduceHolder, disabledMapId,
                   disabledReduceId, early, fileVars>>

ServeReplyMap(name) ==
    /\ ReplyTask(name)
    /\ task' = [task EXCEPT ![caller] = name]
    /\ Goto(caller, "got")
    /\ caller' = NoWorker
    /\ UNCHANGED <<mpc, todo, mapHolder, reduceHolder, disabledMapId,
                   disabledReduceId, early, fileVars>>

ServeWaitReduce ==
    /\ WaitReduce
    /\ reduceHolder' = Append(reduceHolder, caller)
    /\ UNCHANGED <<mpc, wpc, caller, task, todo, mapHolder, disabledMapId,
                   disabledReduceId, early, fileVars>>

ServeReplyReduce ==
    /\ ReplyReduceTask
    /\ task' = [task EXCEPT ![caller] = rpc.idx]
    /\ Goto(caller, "got")
    /\ caller' = NoWorker
    /\ UNCHANGED <<mpc, todo, mapHolder, reduceHolder, disabledMapId,
                   disabledReduceId, early, fileVars>>

\* A timer that gives up on a worker which is merely slow counts as early.
Slow(w, finished) == ~finished /\ wpc[w] # "hung"

MapTimer ==
    /\ WaitMapTask
    /\ LET k == curMapIndex + 1
           slow == Slow(mapHolder[k], runningMapWork[k] \in finishedMapTask)
       IN  /\ slow => early < MaxEarly
           /\ early' = IF slow THEN early + 1 ELSE early
    /\ UNCHANGED <<mpc, wpc, caller, task, todo, mapHolder, reduceHolder,
                   disabledMapId, disabledReduceId, fileVars>>

ReduceTimer ==
    /\ WaitReduceTask
    /\ LET k == curReduceIndex + 1
           slow == Slow(reduceHolder[k], runningReduceWork[k] \in finishedReduceTask)
       IN  /\ slow => early < MaxEarly
           /\ early' = IF slow THEN early + 1 ELSE early
    /\ UNCHANGED <<mpc, wpc, caller, task, todo, mapHolder, reduceHolder,
                   disabledMapId, disabledReduceId, fileVars>>
----------------------------------------------------------------------------
(* mapWorker *)

\* mutant: a worker that finds no work signals the main thread
MapPollBroadcastsAlways(w) ==
    /\ Running(w, "poll")
    /\ rpc.pc = "idle"
    /\ Goto(w, IF m_list = <<>> THEN "broadcast" ELSE "ask")
    /\ UNCHANGED <<vars, mpc, caller, task, todo, mapHolder, reduceHolder,
                   disabledMapId, disabledReduceId, early, fileVars>>
MapPoll(w) ==
    /\ Running(w, "poll")
    /\ rpc.pc = "idle"
    /\ Goto(w, IF IsMapDone THEN "broadcast" ELSE "ask")
    /\ UNCHANGED <<vars, mpc, caller, task, todo, mapHolder, reduceHolder,
                   disabledMapId, disabledReduceId, early, fileVars>>

\* pthread_cond_broadcast reaches main only if it is already waiting.
MapBroadcast(w) ==
    /\ Running(w, "broadcast")
    /\ mpc' = IF mpc = "wait" THEN "woken" ELSE mpc
    /\ Goto(w, "exit")
    /\ UNCHANGED <<vars, caller, task, todo, mapHolder, reduceHolder,
                   disabledMapId, disabledReduceId, early, fileVars>>

MapAsk(w) ==
    /\ Running(w, "ask")
    /\ AssignTask
    /\ caller' = w
    /\ Goto(w, "called")
    /\ UNCHANGED <<mpc, task, todo, mapHolder, reduceHolder, disabledMapId,
                   disabledReduceId, early, fileVars>>

MapAskEmpty(w) ==
    /\ Running(w, "ask")
    /\ rpc.pc = "idle"
    /\ IsMapDone \/ m_list = <<>>
    /\ Goto(w, "poll")
    /\ UNCHANGED <<vars, mpc, caller, task, todo, mapHolder, reduceHolder,
                   disabledMapId, disabledReduceId, early, fileVars>>

\* The simulated crashes: the 2nd, 4th and 6th taker of a task hangs.
MapGot(w) ==
    /\ Running(w, "got")
    /\ disabledMapId' = disabledMapId + 1
    /\ Goto(w, IF disabledMapId \in DisabledGets THEN "hung" ELSE "write")
    /\ todo' = [todo EXCEPT ![w] = ReduceTasks]
    /\ UNCHANGED <<vars, mpc, caller, task, mapHolder, reduceHolder,
                   disabledReduceId, early, fileVars>>

\* writeInDisk appends the words of one bucket.
MapWrite(w) ==
    /\ Running(w, "write")
    /\ \E j \in todo[w] :
          /\ inter' = [inter EXCEPT ![w][j][task[w]] = @ + 1]
          /\ todo' = [todo EXCEPT ![w] = @ \ {j}]
    /\ UNCHANGED <<vars, mpc, wpc, caller, task, mapHolder, reduceHolder,
                   disabledMapId, disabledReduceId, early, doomed, toRead, seen,
                   output>>

\* The file was there when access() looked and main has removed it since: it is
\* opened without O_CREAT, write() fails and the process ends.
MapWriteFails(w) ==
    /\ Running(w, "write")
    /\ mpc = "remove"
    /\ \E j \in todo[w] : <<w, j>> \notin doomed
    /\ mpc' = "exit"
    /\ UNCHANGED <<vars, wpc, caller, task, todo, mapHolder, reduceHolder,
                   disabledMapId, disabledReduceId, early, fileVars>>

MapReport(w) ==
    /\ Running(w, "write")
    /\ todo[w] = {}
    /\ SetMapStat(task[w])
    /\ Goto(w, "poll")
    /\ UNCHANGED <<mpc, caller, task, todo, mapHolder, reduceHolder,
                   disabledMapId, disabledReduceId, early, fileVars>>
----------------------------------------------------------------------------
(* reduceWorker *)

ReducePoll(w) ==
    /\ Running(w, "poll")
    /\ rpc.pc = "idle"
    /\ Goto(w, IF Done THEN "exit" ELSE "ask")
    /\ UNCHANGED <<vars, mpc, caller, task, todo, mapHolder, reduceHolder,
                   disabledMapId, disabledReduceId, early, fileVars>>

ReduceAsk(w) ==
    /\ Running(w, "ask")
    /\ AssignReduceTask
    /\ caller' = w
    /\ Goto(w, "called")
    /\ UNCHANGED <<mpc, task, todo, mapHolder, reduceHolder, disabledMapId,
                   disabledReduceId, early, fileVars>>

ReduceAskEmpty(w) ==
    /\ Running(w, "ask")
    /\ rpc.pc = "idle"
    /\ Done \/ reduceIndex = <<>>
    /\ Goto(w, "poll")
    /\ UNCHANGED <<vars, mpc, caller, task, todo, mapHolder, reduceHolder,
                   disabledMapId, disabledReduceId, early, fileVars>>

ReduceGot(w) ==
    /\ Running(w, "got")
    /\ disabledReduceId' = disabledReduceId + 1
    /\ Goto(w, IF disabledReduceId \in DisabledGets THEN "hung" ELSE "shuffle")
    /\ UNCHANGED <<vars, mpc, caller, task, todo, mapHolder, reduceHolder,
                   disabledMapId, early, fileVars>>

\* Myshuffle first lists the files whose name starts with "mr" and ends in "-j":
\* the intermediate files, and mr-out-j too when an earlier run of the task left
\* one.
ReduceList(w) ==
    /\ Running(w, "shuffle")
    /\ LET j == task[w]
           listed == {i \in MapWorkers : inter[i][j] # NoFile}
       IN  /\ toRead' = [toRead EXCEPT ![w] = listed]
           /\ seen' = [seen EXCEPT ![w] =
                           [NothingRead EXCEPT !.ownOutput = output[j] # <<>>]]
           /\ Goto(w, IF listed = {} THEN "write" ELSE "read")
    /\ UNCHANGED <<vars, mpc, caller, task, todo, mapHolder, reduceHolder,
                   disabledMapId, disabledReduceId, early, doomed, inter, output>>

\* Then it reads them, one after the other.
ReduceRead(w) ==
    /\ Running(w, "read")
    /\ \E i \in toRead[w] :
          /\ inter[i][task[w]] # NoFile
          /\ seen' = [seen EXCEPT ![w].text[i] = inter[i][task[w]]]
          /\ toRead' = [toRead EXCEPT ![w] = @ \ {i}]
    /\ Goto(w, IF toRead'[w] = {} THEN "write" ELSE "read")
    /\ UNCHANGED <<vars, mpc, caller, task, todo, mapHolder, reduceHolder,
                   disabledMapId, disabledReduceId, early, doomed, inter, output>>

\* A listed file has been removed since: open and lseek fail, and getContent
\* clears a buffer of length -1, which ends the process.
ReduceReadFails(w) ==
    /\ Running(w, "read")
    /\ \E i \in toRead[w] : inter[i][task[w]] = NoFile
    /\ mpc' = "exit"
    /\ UNCHANGED <<vars, wpc, caller, task, todo, mapHolder, reduceHolder,
                   disabledMapId, disabledReduceId, early, fileVars>>

\* The result is appended to mr-out-j (O_APPEND).
ReduceWrite(w) ==
    /\ Running(w, "write")
    /\ output' = [output EXCEPT ![task[w]] = Append(@, seen[w])]
    /\ Goto(w, "report")
    /\ UNCHANGED <<vars, mpc, caller, task, todo, mapHolder, reduceHolder,
                   disabledMapId, disabledReduceId, early, doomed, inter, toRead,
                   seen>>

ReduceReport(w) ==
    /\ Running(w, "report")
    /\ SetReduceStat(task[w])
    /\ Goto(w, "poll")
    /\ UNCHANGED <<mpc, caller, task, todo, mapHolder, reduceHolder,
                   disabledMapId, disabledReduceId, early, fileVars>>
----------------------------------------------------------------------------
Server ==
    \/ ServePop
    \/ ServeWaitMap
    \/ \E name \in Names : ServeReplyMap(name)
    \/ ServeWaitReduce
    \/ ServeReplyReduce

Main ==
    \/ MainSpawnMap \/ MainWait \/ MainSpawnReduce \/ MainDone \/ MainExit
    \/ \E i \in MapWorkers, j \in ReduceTasks : RemoveFile(i, j)

MapWorker(w) ==
    \/ MapPoll(w) \/ MapBroadcast(w) \/ MapAsk(w) \/ MapAskEmpty(w)
    \/ MapGot(w) \/ MapWrite(w) \/ MapWriteFails(w) \/ MapReport(w)

ReduceWorker(w) ==
    \/ ReducePoll(w) \/ ReduceAsk(w) \/ ReduceAskEmpty(w)
    \/ ReduceGot(w) \/ ReduceList(w) \/ ReduceRead(w) \/ ReduceReadFails(w)
    \/ ReduceWrite(w) \/ ReduceReport(w)

JobNext ==
    \/ Server
    \/ Main
    \/ MapTimer
    \/ ReduceTimer
    \/ \E w \in MapWorkers : MapWorker(w)
    \/ \E w \in ReduceWorkers : ReduceWorker(w)

\* Threads are scheduled fairly.  A worker's calls need the server to be idle,
\* which it is again and again: the server takes requests in turn (ZeroMQ queues
\* them fairly), hence strong fairness for the workers and for main.
JobFairness ==
    /\ WF_allVars(Server)
    /\ SF_allVars(Main)
    /\ WF_allVars(MapTimer)
    /\ WF_allVars(ReduceTimer)
    /\ \A w \in MapWorkers : SF_allVars(MapWorker(w))
    /\ \A w \in ReduceWorkers : SF_allVars(ReduceWorker(w))

JobSpec == JobInit /\ [][JobNext]_allVars
FairJobSpec == JobSpec /\ JobFairness
----------------------------------------------------------------------------
(* Properties *)

\* No reduce task is given out, and no reducer reads the intermediate files,
\* before every map task has been reported: main starts the reducers on a
\* condition variable without a predicate (worker.cpp:375), so this rests on who
\* broadcasts and when.
ReduceAfterMap ==
    (mpc \in {"woken", "poll", "remove", "exit"} \/ reduceReply # {}) => IsMapDone

\* What was shuffled holds the words of every file.
Complete(block) ==
    \A f \in Files : \E i \in MapWorkers : block.text[i][f] >= 1

\* Re-execution loses nothing, however many workers hung or were too slow: a
\* reducer whose task is not reported yet has shuffled every file, and a task that
\* is reported has a complete block among its output.  (The second executor of a
\* task that is reported already may shuffle while main removes the files.)
NothingShuffledAway ==
    /\ \A w \in ReduceWorkers :
          wpc[w] \in {"write", "report"} /\ task[w] \notin finishedReduceTask =>
              Complete(seen[w])
    /\ \A j \in finishedReduceTask :
          \E k \in 1..Len(output[j]) : Complete(output[j][k])

\* The two phases do not overlap and nothing is lost between them: what the
\* result of a reduce task is computed from is the complete output of the map
\* phase, removed by main only when the last result is reported.
ReduceReadsAll == ReduceAfterMap /\ NothingShuffledAway

\* worker.cpp:388: the intermediate files are cleaned up after the tasks.
NobodyShufflesLate ==
    \A w \in ReduceWorkers : wpc[w] \in {"write", "report"} => Complete(seen[w])

\* One copy of the words of every file, and nothing else.
Exact(block) ==
    /\ ~block.ownOutput
    /\ \A i \in MapWorkers : block.text[i][Garbage] = 0
    /\ \A f \in Files : \E i \in MapWorkers :
          /\ block.text[i][f] = 1
          /\ \A k \in MapWorkers \ {i} : block.text[k][f] = 0

\* LAB1.md:144-145: the value of a word has as many 1s as there are words, and
\* the output is that number.  Once a reduce task is reported, mr-out-j holds one
\* result, computed from exactly one copy of every file's words.
CountsExact ==
    \A j \in finishedReduceTask : Len(output[j]) = 1 /\ Exact(output[j][1])

\* The count is right as long as only workers that hang are timed out, although
\* their tasks are executed again, and stays so while main removes the files.
CountsExactOnTime == early = 0 => CountsExact

\* LAB1.md:26: the master's redistribution of failed tasks makes the map phase
\* end although workers hang and timers fire early.
MapPhaseEnds == <>IsMapDone

\* If main is waiting before the last report arrives, the job runs to its end.
WaitingMainFinishes == (mpc = "wait" /\ ~IsMapDone) ~> (mpc = "exit")

\* What the master's redistribution of failed tasks achieves for the whole job:
\* its first phase ends, and so does the second unless main misses the wakeup.
JobProgresses == MapPhaseEnds /\ WaitingMainFinishes

\* LAB1.md:26: the master ensures the change of phase: the job ends.
JobEnds == <>(mpc = "exit")
=============================================================================
